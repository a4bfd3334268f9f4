CONSTANTS
    Ctl = {c1}
    Handles <- OneShotHandles
    StartupHandle <- MCStartupHandle
    IoFaults <- NoFaults
    BufCap = 2
    MaxCount = 2
    StreamCap = 2
    MaxSync = 2
    MaxFlush = 1
SPECIFICATION Spec
INVARIANT SignificantMotionOneShot
