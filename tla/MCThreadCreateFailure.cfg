\* PsCreateThread fails after PspCreateThread put the thread on the
\* process list; a lookup by ID meets it there with its count at zero.
CONSTANTS
    Initial = t0
    Threads = {t1}
    Lookers = {l1}
    Reaper = reaper
    NoThread = NoThread
SPECIFICATION Spec
INVARIANT FreedThreadsUnreferenced
CHECK_DEADLOCK FALSE
