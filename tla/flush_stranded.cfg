\* A flush answer left in mInputReader when count runs out, after the
\* last sensor is disabled and no record wakes fill() again.
CONSTANTS
    Ctl = {c1}
    Handles <- ContinuousHandles
    StartupHandle <- MCStartupHandle
    IoFaults <- NoFaults
    BufCap = 2
    MaxCount = 2
    StreamCap = 2
    MaxSync = 1
    MaxFlush = 1
SPECIFICATION LiveSpec
PROPERTY FlushCompletesWhileBuffered
