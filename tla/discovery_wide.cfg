\* The sensor hub is /sys/bus/iio/devices/iio:device12, listed after
\* iio:device0, which is another device.
CONSTANTS
    Cals = {c1, c2}
    AccCal = a1
    FwDefault = d0
    Garbage = g0
    AccFiles <- AllAccFiles
    AttrFaults <- ShortReads
    FileFaults <- WriteOpenFails
    CrashAt <- OutsideSaves
    MaxRestarts = 2
    MaxRecal = 2
    Listings <- WideListings
    NameMaps <- WideNameMaps
SPECIFICATION Spec
INVARIANT DataDeviceIsHub
