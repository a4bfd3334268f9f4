--------------------------- MODULE MC_CwMcuCalib ---------------------------
(***************************************************************************)
(* Instantiation of CwMcuCalib for TLC: two magnetometer calibrations the  *)
(* firmware can reach, so that a recalibration after a restore changes     *)
(* what the next save writes, and every content SAVE_PATH_ACC may have;    *)
(* directory listings of /sys/bus/iio/devices/ with a foreign entry, an    *)
(* entry with a colon, one without a number, and name files that match,    *)
(* match with a newline, only start with the name, or do not match.       *)
(***************************************************************************)
EXTENDS CwMcuCalib, TLC

AllAccFiles == {Missing, Empty, AccZero, AccCal}
NoAttrFaults == {}
ShortReads == {"short"}
OpenFails == {"open"}
NonNumeric == {"nonnumeric"}
NoFileFaults == {}
WriteOpenFails == {"open"}
OutsideSaves == {"up"}
AnyPoint == {"up", "saving"}


\* Directory entries: "iio:device<n>" followed by tail, and one that does
\* not start with "iio:device".
Dev(n, tail) == [typed |-> TRUE, scanned |-> TRUE, num |-> n, tail |-> tail]
Foreign == [typed |-> FALSE, scanned |-> FALSE, num |-> 0, tail |-> "x"]
\* "iio:device" followed by a character that is not a digit.
NoNumber == [typed |-> TRUE, scanned |-> FALSE, num |-> 0, tail |-> "x"]

\* Single-digit device numbers.
SmallListings ==
    { <<Foreign, Dev(0, ""), Dev(1, "")>>,
      <<Dev(1, ":"), Dev(0, ""), Dev(1, "")>>,
      <<NoNumber, Dev(2, "")>> }

\* The sensor hub numbered 12, behind device 0.
WideListings == { <<Foreign, Dev(0, ""), Dev(12, "")>> }

\* Name files of devices 0, 1, 2 and 12.
SmallNameMaps ==
    { (0 :> "longer" @@ 1 :> "exact" @@ 2 :> "other" @@ 12 :> "other"),
      (0 :> "other" @@ 1 :> "newline" @@ 2 :> "exact" @@ 12 :> "other"),
      (0 :> "short" @@ 1 :> "none" @@ 2 :> "exact" @@ 12 :> "other"),
      (0 :> "exact" @@ 1 :> "other" @@ 2 :> "none" @@ 12 :> "other"),
      (0 :> "other" @@ 1 :> "other" @@ 2 :> "other" @@ 12 :> "other") }

WideNameMaps ==
    { (0 :> "other" @@ 1 :> "other" @@ 2 :> "other" @@ 12 :> "exact") }

====
