------------------------ MODULE MCPhysicalAllocator ------------------------
(***************************************************************************)
(* PhysicalAllocator for TLC: one segment of two frames, two threads.    *)
(***************************************************************************)
EXTENDS PhysicalAllocator, FiniteSets, TLC

\* One segment of two frames: enough for a two-page run whose second page
\* is being paged out when it is freed, for a lock that fails part-way
\* through a run, and for an allocator that finds memory full.  The
\* search over several segments is checked by MCPhysicalSearch.
MCSegments == << [start |-> 1, size |-> 2] >>

\* Threads are interchangeable: no action or property names one of them.
ThreadSymmetry == Permutations(Threads)

\* MmFreePhysicalPages can over-count released pages (see
\* MCFreeAccounting.cfg), and each time it does MmTotalAllocatedPhysicalPages
\* drifts one further below the number of allocated frames.  The drift is
\* explored up to DriftBound pages.
DriftBound == 1

DriftConstraint ==
    Cardinality({f \in Frames : db.page[f] # "free"}) - db.allocated <= DriftBound
=============================================================================
