\* PTE and TLB operations of two processes, the callers of
\* MmpUnmapPageInOtherProcess passing no free flag and naming mapped pages.
CONSTANTS
    p0 = p0
    p1 = p1
    p2 = p2
    t1 = t1
    t2 = t2
    t3 = t3
    v1 = v1
    v2 = v2
    f1 = f1
    f2 = f2
    NoFrame = NoFrame
    Procs = {p1, p2}
    Threads = {t1, t2, t3}
    ProcOf <- MCProcOf
    InitThreads = {t1, t3}
    Vas = {v1, v2}
    Frames = {f1, f2}
    OtherUnmapFree = {FALSE}
    OtherUnmapAbsent = FALSE
    ForkParent = p0
    ForkVas = {}
SPECIFICATION Spec
SYMMETRY FrameSymmetry
INVARIANT TypeOK
INVARIANT RunningTlbCoherent
INVARIANT ResidentSetCounts
INVARIANT FramesHaveOneOwner
CHECK_DEADLOCK FALSE
