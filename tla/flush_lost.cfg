\* A flush answered while the last sensor is being disabled.
\* One framework thread, two continuous sensors, no I/O faults, LiveSpec.
CONSTANTS
    Ctl = {c1}
    Handles <- ContinuousHandles
    StartupHandle <- MCStartupHandle
    IoFaults <- NoFaults
    BufCap = 2
    MaxCount = 2
    StreamCap = 1
    MaxSync = 1
    MaxFlush = 1
SPECIFICATION LiveSpec
PROPERTY FlushCompletes
