CONSTANTS
    p1 = p1  p2 = p2  p3 = p3
    t1 = t1  t2 = t2  t3 = t3  t4 = t4
    f1 = f1  f2 = f2  f3 = f3  f4 = f4  f5 = f5
    Procs = {p1, p2}
    InitProcs = {p1, p2}
    Threads <- TwoProcThreads
    ProcOf <- TwoProcOf
    KernelIdx = {3}
    UserIdx = {}
    TableFrames <- MCTableFrames
    BootTables <- NoBootTables
    NoFrame = NoFrame
    NoThread = NoThread
SPECIFICATION Spec
INVARIANT KernelMappingsShared
