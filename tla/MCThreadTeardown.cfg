\* Two threads of a process are destroyed after its thread list emptied:
\* each PspDestroyThread tears the process down.
CONSTANTS
    Initial = t0
    Threads = {t1}
    Lookers = {l1}
    Reaper = reaper
    NoThread = NoThread
SPECIFICATION Spec
INVARIANT ProcessDestroyedOnce
CHECK_DEADLOCK FALSE
