----------------------------- MODULE CwMcuCalib -----------------------------
(***************************************************************************)
(* The constructor's device discovery, and persistence of the sensor-hub  *)
(* calibration (CwMcuSensor.cpp):                                          *)
(*   - the constructor finds its IIO device with find_type_by_name()       *)
(*     (CwMcuDiscovery) and opens /dev/iio:device<dev_num>;                *)
(*   - the constructor reads the magnetometer calibration saved under      *)
(*     /data/misc and writes it to the driver's calibrator_data_mag, then  *)
(*     does the same for the accelerometer file;                           *)
(*   - setEnable(.., 0) for the magnetometer, orientation or rotation      *)
(*     vector reads calibrator_data_mag back and saves it to /data/misc;   *)
(*   - cw_save_calibrator_file() opens the file with "w+", which empties   *)
(*     it, and the values reach it only when fclose() flushes the stream.  *)
(* Failures covered: the HAL process dying and the device rebooting (the   *)
(* firmware then starts from its default calibration) at any point,       *)
(* between the truncation and the fclose() of a save included; a sysfs     *)
(* attribute that cannot be opened, reads short, or reads a token that is  *)
(* not a number; a /data/misc file that cannot be opened for writing.      *)
(*                                                                         *)
(* A calibration (26 integers for the magnetometer, 3 for the              *)
(* accelerometer) is a model value.  Everything runs under sys_fs_mutex,   *)
(* so the only interleaving that matters is with crashes and with the      *)
(* firmware recalibrating itself.                                          *)
(***************************************************************************)
EXTENDS Integers, CwMcuDiscovery

CONSTANTS
    Cals,         \* calibrations the firmware can compute for the magnetometer
    AccCal,       \* a non-zero accelerometer calibration
    FwDefault,    \* the firmware's calibration after a reset
    Garbage,      \* what uninitialised temp_data[] holds
    AccFiles,     \* contents SAVE_PATH_ACC may have (no code here writes it)
    AttrFaults,   \* subset of {"open", "short", "nonnumeric"}
    FileFaults,   \* subset of {"open"}: fopen(SAVE_PATH_MAG, "w+") may fail
    CrashAt,      \* subset of {"up", "saving"}: where the process may die
    MaxRestarts,  \* bound: crashes and reboots in one behaviour
    MaxRecal,     \* bound: firmware recalibrations in one behaviour
    Listings,     \* contents /sys/bus/iio/devices/ may have, in readdir() order
    NameMaps      \* what each device's name file holds

\* File contents besides a calibration.
Missing == "missing"
Empty == "empty"
AccZero == "acc_zero"
\* No data device is open.
NoDev == -1

ASSUME
    /\ AccFiles \subseteq {Missing, Empty, AccZero, AccCal}
    /\ AttrFaults \subseteq {"open", "short", "nonnumeric"}
    /\ FileFaults \subseteq {"open"}
    /\ CrashAt \subseteq {"up", "saving"}
    /\ MaxRestarts \in Nat /\ MaxRecal \in Nat

\* setEnable(what, 0) saves the magnetometer calibration for these kinds.
SaveKinds == {"CW_MAGNETIC", "CW_ORIENTATION", "CW_ROTATIONVECTOR"}

MagVals == Cals \cup {FwDefault, Garbage}

VARIABLES
    proc,     \* the HAL process: "down", "up", or "saving" between the
              \* fopen("w+") and the fclose() of a save
    magFile,  \* SAVE_PATH_MAG
    accFile,  \* SAVE_PATH_ACC
    fwMag,    \* the firmware's magnetometer calibration (calibrator_data_mag)
    fwAcc,    \* the firmware's accelerometer calibration (calibrator_data_acc)
    temp,     \* temp_data[] of the save in progress
    calibrated, \* history: SAVE_PATH_MAG has held a computed calibration
    restarts, recals,
    listing,  \* /sys/bus/iio/devices/ (never changes)
    names,    \* the devices' name files (never change)
    dataDev   \* N of the /dev/iio:device<N> data_fd is open on

sysfs == <<listing, names>>
vars == <<proc, magFile, accFile, fwMag, fwAcc, temp, calibrated, restarts, recals,
          sysfs, dataDev>>

-----------------------------------------------------------------------------
(* cw_read_calibrator_file() and cw_save_calibrator_file()                 *)

\* Reading the sysfs attribute: what the stream holds for each outcome.
AttrContent(outcome) ==
    CASE outcome = "ok" -> fwMag
      [] outcome = "open" -> Missing
      [] outcome = "short" -> Empty
      [] outcome = "nonnumeric" -> "nonnumeric"

\* Mutant: a read that finds no number is taken as a success.
ReadMagNoEof(content) ==
    IF content = Missing THEN [rc |-> -1, val |-> Missing]
    ELSE IF content = "nonnumeric" THEN [rc |-> 0, val |-> Garbage]
    ELSE [rc |-> 0, val |-> content]

\* CW_MAGNETIC: fopen() failing gives -1; the loop of fscanf("%d ")
\* returns readBytes as soon as one is < 1: EOF (-1) on an empty or short
\* stream, but 0 on a token that is not a number, which the callers take
\* for success with temp_data[] only partly read.
ReadMag(content) ==
    IF content = Missing THEN [rc |-> -1, val |-> Missing]
    ELSE IF content = Empty THEN [rc |-> -1, val |-> Missing]
    ELSE IF content = "nonnumeric" THEN [rc |-> 0, val |-> Garbage]
    ELSE [rc |-> 0, val |-> content]

\* CW_ACCELERATION: a short fscanf("%d %d %d") is only logged and 0 is
\* returned; gs_temp_data[] keeps its zero initialisation.
ReadAcc(content) ==
    CASE content = Missing -> [rc |-> -1, val |-> AccZero]
      [] content = Empty -> [rc |-> 0, val |-> AccZero]
      [] OTHER -> [rc |-> 0, val |-> content]

\* Outcomes of reading, and of writing, a calibrator_data attribute, and
\* of fopen(SAVE_PATH_MAG, "w+").
AttrReads == {"ok"} \cup AttrFaults
AttrWrites == {"ok"} \cup (AttrFaults \cap {"open"})
FileOpens == {"ok"} \cup FileFaults

-----------------------------------------------------------------------------

Init ==
    /\ proc = "down"
    /\ magFile \in {Missing} \cup Cals
    /\ accFile \in AccFiles
    /\ fwMag = FwDefault /\ fwAcc = FwDefault
    /\ temp = Missing
    /\ calibrated = (magFile \in Cals)
    /\ restarts = 0 /\ recals = 0
    /\ listing \in Listings /\ names \in NameMaps
    /\ dataDev = NoDev

\* Mutant: the constructor restores the accelerometer file only.
ConstructMagSkipped ==
    LET a == ReadAcc(accFile)
    IN /\ proc = "down"
       /\ \E wm, wa \in AttrWrites :
             /\ fwMag' = fwMag
             /\ fwAcc' = IF a.rc = 0 /\ a.val # AccZero /\ wa = "ok" THEN a.val ELSE fwAcc
       /\ proc' = "up"
       /\ dataDev' = DevNum(listing, names)
       /\ UNCHANGED <<magFile, accFile, temp, calibrated, restarts, recals, sysfs>>

\* The constructor: find_type_by_name() picks the data device; then,
\* under sys_fs_mutex and whether or not data_fd opened, the magnetometer
\* file is written to calibrator_data_mag when it reads back whole, and
\* the accelerometer file to calibrator_data_acc when it reads and is not
\* all zeros.
Construct ==
    LET m == ReadMag(magFile)
        a == ReadAcc(accFile)
    IN /\ proc = "down"
       /\ \E wm, wa \in AttrWrites :
             /\ fwMag' = IF m.rc = 0 /\ wm = "ok" THEN m.val ELSE fwMag
             /\ fwAcc' = IF a.rc = 0 /\ a.val # AccZero /\ wa = "ok" THEN a.val ELSE fwAcc
       /\ proc' = "up"
       /\ dataDev' = DevNum(listing, names)
       /\ UNCHANGED <<magFile, accFile, temp, calibrated, restarts, recals, sysfs>>

\* setEnable(what, 0) for a kind in SaveKinds, after its enable write:
\* read calibrator_data_mag into temp_data[]; on rc == 0,
\* cw_save_calibrator_file() opens SAVE_PATH_MAG with "w+", which empties
\* it, and fprintf()s temp_data[] into the stream's buffer.
SetEnableSave(what) ==
    /\ proc = "up"
    /\ what \in SaveKinds
    /\ \E ro \in AttrReads, fo \in FileOpens :
          LET m == ReadMag(AttrContent(ro))
          IN IF m.rc = 0 /\ fo = "ok"
             THEN /\ magFile' = Empty /\ temp' = m.val /\ proc' = "saving"
             ELSE UNCHANGED <<magFile, temp, proc>>
    /\ UNCHANGED <<accFile, fwMag, fwAcc, calibrated, restarts, recals, sysfs, dataDev>>

\* fclose(): the buffered values reach the file.
SaveClose ==
    /\ proc = "saving"
    /\ magFile' = temp
    /\ calibrated' = (calibrated \/ temp \in Cals)
    /\ temp' = Missing /\ proc' = "up"
    /\ UNCHANGED <<accFile, fwMag, fwAcc, restarts, recals, sysfs, dataDev>>

\* The HAL process dies; init starts it again, and the constructor runs.
Crash ==
    /\ proc \in CrashAt
    /\ restarts < MaxRestarts
    /\ proc' = "down" /\ temp' = Missing /\ dataDev' = NoDev
    /\ restarts' = restarts + 1
    /\ UNCHANGED <<magFile, accFile, fwMag, fwAcc, calibrated, recals, sysfs>>

\* The device reboots: the process dies and the firmware restarts from its
\* default calibration.
Reboot ==
    /\ proc \in CrashAt
    /\ restarts < MaxRestarts
    /\ proc' = "down" /\ temp' = Missing /\ dataDev' = NoDev
    /\ fwMag' = FwDefault /\ fwAcc' = FwDefault
    /\ restarts' = restarts + 1
    /\ UNCHANGED <<magFile, accFile, calibrated, recals, sysfs>>

\* The firmware's magnetometer calibration converges to a new value.
FwRecalibrate ==
    /\ recals < MaxRecal
    /\ \E c \in Cals \ {fwMag} : fwMag' = c
    /\ recals' = recals + 1
    /\ UNCHANGED <<proc, magFile, accFile, fwAcc, temp, calibrated, restarts,
                   sysfs, dataDev>>

Next ==
    \/ Construct
    \/ \E what \in SaveKinds : SetEnableSave(what)
    \/ SaveClose
    \/ Crash
    \/ Reboot
    \/ FwRecalibrate

Spec == Init /\ [][Next]_vars

-----------------------------------------------------------------------------
(* Properties                                                              *)

TypeOK ==
    /\ proc \in {"down", "up", "saving"}
    /\ magFile \in {Missing, Empty} \cup MagVals
    /\ accFile \in AccFiles
    /\ fwMag \in MagVals /\ fwAcc \in {FwDefault, AccCal}
    /\ temp \in {Missing} \cup MagVals
    /\ calibrated \in BOOLEAN
    /\ restarts \in 0..MaxRestarts /\ recals \in 0..MaxRecal
    /\ listing \in Listings /\ names \in NameMaps
    /\ dataDev \in Nat \cup {NoDev}

\* Once SAVE_PATH_MAG has held a calibration the firmware computed, it
\* holds one whenever no save is in progress: the calibration the
\* constructor restores after a crash or a reboot is never lost, nor
\* replaced by the firmware's default or by unread temp_data[].
CalibrationKept == calibrated /\ proc # "saving" => magFile \in Cals

\* Whenever /sys/bus/iio/devices/ has an iio:device<N> whose name is
\* CwMcuSensor, the running HAL has data_fd open on /dev/iio:device<N>:
\* find_type_by_name() skips the other devices, the entries with a colon,
\* and names that only start with CwMcuSensor, and the fallback to
\* device 0 is taken only when no such device exists.
DataDeviceIsHub ==
    proc # "down" /\ HubDevice(listing, names) # -ENODEV
        => dataDev = HubDevice(listing, names)

====
