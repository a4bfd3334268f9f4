\* Driver, poll thread, one framework thread and the firmware, no I/O
\* faults; the liveness of flush() and of enabled sensors under the
\* poll-thread, firmware and call-completion fairness of LiveSpec.
\* count = 1 per readEvents() call: with two records per fill() a record
\* is still left in mInputReader when the budget runs out.
CONSTANTS
    Ctl = {c1}
    Handles <- ContinuousHandles
    StartupHandle <- MCStartupHandle
    IoFaults <- NoFaults
    BufCap = 2
    MaxCount = 1
    StreamCap = 2
    MaxSync = 1
    MaxFlush = 1
SPECIFICATION LiveSpec
INVARIANT TypeOK
INVARIANT EventsWithinBudget
INVARIANT ActiveSensorsHaveBuffer
PROPERTY FlushCompletesWhileStreaming
PROPERTY EnabledSensorsReport
