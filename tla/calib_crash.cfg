\* The HAL process or the device dies between the fopen("w+") and the
\* fclose() of a calibration save.
CONSTANTS
    Cals = {c1, c2}
    AccCal = a1
    FwDefault = d0
    Garbage = g0
    AccFiles <- AllAccFiles
    AttrFaults <- ShortReads
    FileFaults <- WriteOpenFails
    CrashAt <- AnyPoint
    MaxRestarts = 2
    MaxRecal = 2
    Listings <- SmallListings
    NameMaps <- SmallNameMaps
SPECIFICATION Spec
INVARIANT CalibrationKept
