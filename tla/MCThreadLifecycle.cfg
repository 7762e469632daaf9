\* The initial thread creates two threads, with or without the extra
\* reference; two threads of other processes look threads up by ID.
CONSTANTS
    Initial = t0
    Threads = {t1, t2}
    Lookers = {l1, l2}
    Reaper = reaper
    NoThread = NoThread
SPECIFICATION Spec
INVARIANT TypeOK
INVARIANT ThreadCountMatches
INVARIANT FreedThreadsUnlisted
PROPERTY ExitedThreadsUnlinked
\* The process may end: every thread gone and the reaper idle.
CHECK_DEADLOCK FALSE
