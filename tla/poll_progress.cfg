\* The poll thread against a framework thread for sys_fs_mutex: the
\* significant-motion handle (one-shot disable on the poll thread), two
\* sync requests (an exhaustion record pending while batch() or
\* sync_timestamp() holds the mutex), and failing enable, flush and
\* batch_enable writes.  LiveSpec.
CONSTANTS
    Ctl = {c1}
    Handles <- MotionHandles
    StartupHandle <- MCStartupHandle
    IoFaults <- ControlFaults
    BufCap = 1
    MaxCount = 1
    StreamCap = 1
    MaxSync = 1
    MaxFlush = 1
SPECIFICATION LiveSpec
PROPERTY PollThreadProgress
