\* Calibration persistence across crashes and reboots that do not hit the
\* save window; short attribute reads and unopenable save files.
CONSTANTS
    Cals = {c1, c2}
    AccCal = a1
    FwDefault = d0
    Garbage = g0
    AccFiles <- AllAccFiles
    AttrFaults <- ShortReads
    FileFaults <- WriteOpenFails
    CrashAt <- OutsideSaves
    MaxRestarts = 2
    MaxRecal = 2
    Listings <- SmallListings
    NameMaps <- SmallNameMaps
SPECIFICATION Spec
INVARIANT TypeOK
INVARIANT CalibrationKept
INVARIANT DataDeviceIsHub
