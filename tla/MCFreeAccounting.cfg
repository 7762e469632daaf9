CONSTANTS
    Segments <- MCSegments
    IdentityFree = {}
    Threads = {t1, t2}
    NoOwner = NoOwner
    Reserved = {}
    MaxLockCount = 1
    MinimumFree = 1
    MaxPageOutFailures = 1
    SignalPageCount = 1
    MaxRun = 2
    MaxLockRun = 2
    Alignments = {1}
SPECIFICATION Spec
SYMMETRY ThreadSymmetry
CONSTRAINT DriftConstraint
INVARIANT AllocatedMatchesFrames
