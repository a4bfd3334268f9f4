--------------------------- MODULE CwMcuDiscovery ---------------------------
(***************************************************************************)
(* find_type_by_name(name, "iio:device") in CwMcuSensor.cpp, which the     *)
(* constructor uses to pick /dev/iio:device<N>: it scans the entries of    *)
(* /sys/bus/iio/devices/ in readdir() order and returns the number of the  *)
(* first device whose name file holds the name.                            *)
(*                                                                         *)
(* An entry is whether sscanf("%d") reads a number after "iio:device"    *)
(* (scanned), that number, and what follows it: "" (end of name), ":" or  *)
(* "x" (any other character).  An entry not starting with "iio:device"    *)
(* (".", "..", "trigger0") has typed = FALSE.  A name file is abstracted   *)
(* to how it compares with the name: "exact", "newline" (the name and a    *)
(* newline), "longer" (the name and more characters), "other", "short"     *)
(* (fewer bytes than the name), or "none" (it cannot be opened).           *)
(***************************************************************************)
EXTENDS Integers

LOCAL INSTANCE SequencesExt

ENODEV == 19
\* Outcomes of the name file that end the scan with a match.
NameMatches == {"exact", "newline"}

\* sscanf()'s return value: the number of items converted, 0 or 1.  The
\* code stores it in numstrlen and uses it as the number's length.
NumStrLen(e) == IF e.scanned THEN 1 ELSE 0

\* d_name[strlen(type) + numstrlen]: the character after the number's
\* first digit, which is a digit again for numbers from 10 on.
CharAfter(e) == IF NumStrLen(e) = 1 /\ e.num >= 10 THEN "digit" ELSE e.tail

\* snprintf(filename, size, "%s%s%d/name", ...) with size =
\* sizeof(iio_dir) - 1 + typeLen + numstrlen + 6 holds the whole path only
\* when number has at most numstrlen digits; a truncated path names no
\* file.  Without a number, `number` keeps an earlier value and has at
\* least one digit.
PathFits(e) == NumStrLen(e) = 1 /\ e.num < 10

\* Mutant: the check for termination or whitespace after the name dropped.
EntryMatchesPrefix(e, names) ==
    /\ e.typed
    /\ CharAfter(e) # ":"
    /\ PathFits(e)
    /\ names[e.num] \in NameMatches \cup {"longer"}

\* One iteration of the readdir() loop: the entry is "iio:device..." and
\* not followed by a colon, the name file opens, reads at least nameLen
\* bytes, starts with the name, and the name ends there or at whitespace.
EntryMatches(e, names) ==
    /\ e.typed
    /\ CharAfter(e) # ":"
    /\ PathFits(e)
    /\ names[e.num] \in NameMatches

\* The number of the first matching entry, or -ENODEV.
FindTypeByName(listing, names) ==
    LET i == SelectInSeq(listing, LAMBDA e : EntryMatches(e, names))
    IN IF i = 0 THEN -ENODEV ELSE listing[i].num

\* The constructor: dev_num falls back to 0 when nothing was found, and
\* /dev/iio:device<dev_num> is opened.
DevNum(listing, names) ==
    LET n == FindTypeByName(listing, names) IN IF n < 0 THEN 0 ELSE n

\* Reference: the first directory entry that is "iio:device" followed by a
\* decimal number and nothing else, whose name file holds the name.
HubDevice(listing, names) ==
    LET i == SelectInSeq(listing, LAMBDA e : /\ e.typed /\ e.scanned
                                             /\ e.tail = ""
                                             /\ names[e.num] \in NameMatches)
    IN IF i = 0 THEN -ENODEV ELSE listing[i].num

=============================================================================
