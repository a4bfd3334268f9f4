CONSTANTS
    Ctl = {c1, c2}
    Handles <- ContinuousHandles
    StartupHandle <- MCStartupHandle
    IoFaults <- NoFaults
    BufCap = 2
    MaxCount = 2
    StreamCap = 2
    MaxSync = 2
    MaxFlush = 1
SPECIFICATION Spec
INVARIANT ActiveSensorsHaveBuffer
