\* Two threads over one segment of two frames, runs of one page and locks
\* of two (so a lock can stop at a page already at MaxLockCount after
\* locking the one before it, and be undone): the allocator's safety
\* invariants, the release of waiting allocators and the refinement.
CONSTANTS
    Segments <- MCSegments
    IdentityFree = {}
    Threads = {t1, t2}
    NoOwner = NoOwner
    Reserved = {}
    MaxLockCount = 1
    MinimumFree = 1
    MaxPageOutFailures = 1
    SignalPageCount = 1
    MaxRun = 1
    MaxLockRun = 2
    Alignments = {1}
SPECIFICATION Spec
INVARIANT TypeOK
INVARIANT NonPagedAccounting
INVARIANT VictimStaysAllocated
INVARIANT LocksHeldByLockers
PROPERTY WaitersWakeOnceLockingStops
PROPERTY PagesRefined
