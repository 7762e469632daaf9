\* Fork of p1, whose section is v1 of its two VAs, while its threads (t1,
\* t2 created any time) map, unmap, change access and exit, and map and
\* unmap in p2; the child gets p1's entries of v1 read-only.
CONSTANTS
    p0 = p0
    p1 = p1
    p2 = p2
    t1 = t1
    t2 = t2
    t3 = t3
    v1 = v1
    v2 = v2
    f1 = f1
    f2 = f2
    NoFrame = NoFrame
    Procs = {p1, p2}
    Threads = {t1, t2}
    ProcOf <- MCProcOf
    InitThreads = {t1}
    Vas = {v1, v2}
    Frames = {f1, f2}
    OtherUnmapFree = {FALSE}
    OtherUnmapAbsent = FALSE
    ForkParent = p1
    ForkVas = {v1}
SPECIFICATION Spec
SYMMETRY FrameSymmetry
INVARIANT ResidentSetCounts
INVARIANT ForkSharesReadOnly
CHECK_DEADLOCK FALSE
