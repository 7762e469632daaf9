CONSTANTS
    Segments <- MCSegments
    IdentityFree = {}
    Threads = {t1, t2}
    NoOwner = NoOwner
    Reserved = {}
    MaxLockCount = 1
    MinimumFree = 1
    MaxPageOutFailures = 1
    SignalPageCount = 1
    MaxRun = 1
    MaxLockRun = 1
    Alignments = {1}
SPECIFICATION Spec
PROPERTY WaitersWake
