\* A thread of p1 unmaps and frees a page while another thread of p1 is
\* exiting between its ThreadCount decrement and its thread-ID write.
CONSTANTS
    p0 = p0
    p1 = p1
    p2 = p2
    t1 = t1
    t2 = t2
    t3 = t3
    v1 = v1
    v2 = v2
    f1 = f1
    f2 = f2
    NoFrame = NoFrame
    Procs = {p1, p2}
    Threads = {t1, t2, t3}
    ProcOf <- MCProcOf
    InitThreads = {t1, t3}
    Vas = {v1}
    Frames = {f1, f2}
    OtherUnmapFree = {FALSE}
    OtherUnmapAbsent = FALSE
    ForkParent = p0
    ForkVas = {}
SPECIFICATION Spec
INVARIANT WritesGoThroughPageTables
CHECK_DEADLOCK FALSE
