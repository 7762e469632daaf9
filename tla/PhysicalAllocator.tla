------------------------- MODULE PhysicalAllocator -------------------------
(***************************************************************************)
(* The physical page allocator of src/kernel/mm/physical.c: the frame      *)
(* database and its counters, allocation with its wait for the pager,      *)
(* free, enable-paging, lock/unlock, and the pager's eviction loop         *)
(* (MmpPageOutPhysicalPages).                                              *)
(*                                                                         *)
(* Every routine holds MmPhysicalPageLock for its whole walk over the      *)
(* database, so each locked region is one action.  What a routine does     *)
(* after releasing the lock (the allocator's request and wait, the undo of *)
(* a failed lock, the pager's page-out I/O) is a separate step, and the    *)
(* other threads interleave there.                                         *)
(*                                                                         *)
(* The image-section page-out (MmpPageOut) and the paging-out request      *)
(* (MmRequestPagingOut) are not in this repository: they are modelled from *)
(* the specification (section 4.4) and marked so in PROJECT.json.          *)
(***************************************************************************)
EXTENDS Naturals, Integers, Sequences, FiniteSets, PhysicalSearch

CONSTANTS
    Threads,            \* threads that allocate, free, lock and unlock
    NoOwner,            \* model value: frame not held by any thread
    Reserved,           \* frames the boot memory map makes non-paged
    MaxLockCount,       \* MAX_PHYSICAL_PAGE_LOCK_COUNT (15 in the code)
    MinimumFree,        \* MmMinimumFreePhysicalPages
    MaxPageOutFailures, \* PHYSICAL_MEMORY_MAX_PAGE_OUT_FAILURE_COUNT (10)
    SignalPageCount,    \* PAGING_EVENT_SIGNAL_PAGE_COUNT (0x10)
    MaxRun,             \* largest run a thread allocates, frees or enables
    MaxLockRun,         \* largest run a thread locks
    Alignments          \* alignments (in pages) a thread asks for

VARIABLES
    db,            \* the frame database and its counters
    owner,         \* frame -> thread holding it, or NoOwner
    allocCursor,   \* MmLastAllocatedSegment / MmLastAllocatedSegmentOffset
    pagedCursor,   \* MmLastPagedSegment / MmLastPagedSegmentOffset
    pc,            \* thread -> "idle" | "request" | "towait" | "wait" |
                   \*           "retry" | "undo"
    req,           \* thread -> [n, a] of its allocation in progress
    lockedRun,     \* thread -> frames it holds locked (or is undoing)
    pager,         \* the paging thread's locals
    pagingEvent,   \* MmPagingEvent: page-out needed
    freeEvent,     \* MmPagingFreePagesEvent
    pageOutTarget  \* the free-page target handed to the pager

vars == <<db, owner, allocCursor, pagedCursor, pc, req, lockedRun, pager,
          pagingEvent, freeEvent, pageOutTarget>>

Total == Cardinality(Frames)

SegOf(f) == CHOOSE s \in SegIndex :
                f >= Segments[s].start /\ f < Segments[s].start + Segments[s].size

\* The frames [start + off, start + off + len) of segment s, in address order.
RunFrames(s, off, len) == [i \in 1 .. len |-> Segments[s].start + off + i - 1]

\* The runs of at most k pages within one segment.
RunsUpTo(k) == UNION { { RunFrames(s, off, len) :
                           off \in 0 .. (Segments[s].size - len) } :
                         s \in SegIndex, len \in 1 .. k }

Runs == RunsUpTo(MaxRun)

LockRuns == RunsUpTo(MaxLockRun)

RunSet(run) == { run[i] : i \in DOMAIN run }

\* Variant of FreeLoop that does not look at the paging-out flag.
RECURSIVE FreeLoopIgnoringPagingOut(_, _, _)
FreeLoopIgnoringPagingOut(d, fs, released) ==
    IF fs = << >> THEN d
    ELSE LET f == Head(fs)
         IN FreeLoopIgnoringPagingOut(
                [d EXCEPT !.page[f]   = "free",
                          !.nonPaged  = IF d.page[f] = "nonpaged" THEN @ - 1 ELSE @,
                          !.allocated = @ - 1,
                          !.segFree[SegOf(f)] = @ + 1],
                Tail(fs), TRUE)

(***************************************************************************)
(* MmFreePhysicalPages, the loop over the run.  ReleasedPhysicalPage is    *)
(* set when a page is released and never cleared inside the loop.          *)
(***************************************************************************)
RECURSIVE FreeLoop(_, _, _)
FreeLoop(d, fs, released) ==
    IF fs = << >> THEN d
    ELSE LET f        == Head(fs)
             nonpaged == d.page[f] = "nonpaged"
             release  == nonpaged \/ ~d.pagingOut[f]
             rel      == released \/ release
         IN FreeLoop([d EXCEPT !.page[f]   = IF release THEN "free" ELSE @,
                               !.nonPaged  = IF nonpaged THEN @ - 1 ELSE @,
                               !.allocated = IF rel THEN @ - 1 ELSE @,
                               !.segFree[SegOf(f)] = IF rel THEN @ + 1 ELSE @],
                     Tail(fs), rel)

FreePhysicalPages(d, run) == FreeLoop(d, run, FALSE)

\* Variant of LockLoop without the MAX_PHYSICAL_PAGE_LOCK_COUNT check.
RECURSIVE LockLoopNoLimit(_, _, _)
LockLoopNoLimit(d, run, i) ==
    IF i > Len(run) THEN [db |-> d, stop |-> Len(run)]
    ELSE LET f == run[i] IN
         IF d.page[f] = "nonpaged" THEN LockLoopNoLimit(d, run, i + 1)
         ELSE LockLoopNoLimit([d EXCEPT !.nonPaged = IF d.lock[f] = 0 THEN @ + 1 ELSE @,
                                        !.lock[f]  = @ + 1], run, i + 1)

(***************************************************************************)
(* MmpLockPhysicalPages: returns the new database and how many pages were  *)
(* passed before the first page already at MaxLockCount (Len(run) if none).*)
(***************************************************************************)
RECURSIVE LockLoop(_, _, _)
LockLoop(d, run, i) ==
    IF i > Len(run) THEN [db |-> d, stop |-> Len(run)]
    ELSE LET f == run[i] IN
         IF d.page[f] = "nonpaged" THEN LockLoop(d, run, i + 1)
         ELSE IF d.lock[f] = MaxLockCount THEN [db |-> d, stop |-> i - 1]
         ELSE LockLoop([d EXCEPT !.nonPaged = IF d.lock[f] = 0 THEN @ + 1 ELSE @,
                                 !.lock[f]  = @ + 1], run, i + 1)

\* Variant of UnlockPhysicalPages that never gives back the non-paged
\* count when a page's last lock goes.
UnlockPhysicalPagesKeepsCount(d, run) ==
    [d EXCEPT !.lock = [f \in Frames |->
                          IF f \in RunSet(run) /\ d.page[f] = "pageable"
                          THEN d.lock[f] - 1 ELSE d.lock[f]]]

\* MmpUnlockPhysicalPages over a run.
UnlockPhysicalPages(d, run) ==
    [d EXCEPT !.lock = [f \in Frames |->
                          IF f \in RunSet(run) /\ d.page[f] = "pageable"
                          THEN d.lock[f] - 1 ELSE d.lock[f]],
              !.nonPaged = @ - Cardinality({f \in RunSet(run) :
                                   d.page[f] = "pageable" /\ d.lock[f] = 1})]

InitDB ==
    [page      |-> [f \in Frames |-> IF f \in Reserved THEN "nonpaged" ELSE "free"],
     lock      |-> [f \in Frames |-> 0],
     pagingOut |-> [f \in Frames |-> FALSE],
     segFree   |-> [s \in SegIndex |->
                      Cardinality({f \in Frames \ Reserved : SegOf(f) = s})],
     allocated |-> Cardinality(Reserved),
     nonPaged  |-> Cardinality(Reserved)]

\* The locals PageCount and Alignment of an allocation not in progress.
NoRequest == [n |-> 0, a |-> 0]

PagerIdle == [pc |-> "idle", target |-> 0, total |-> 0, failures |-> 0,
              sinceEvent |-> 0, victim |-> NoOwner]

Init ==
    /\ db = InitDB
    /\ owner = [f \in Frames |-> NoOwner]
    /\ allocCursor = [seg |-> 1, off |-> 0]
    /\ pagedCursor = [seg |-> 1, off |-> 0]
    /\ pc = [t \in Threads |-> "idle"]
    /\ req = [t \in Threads |-> NoRequest]
    /\ lockedRun = [t \in Threads |-> << >>]
    /\ pager = PagerIdle
    /\ pagingEvent = FALSE
    /\ freeEvent = FALSE
    /\ pageOutTarget = 0

-----------------------------------------------------------------------------
(***************************************************************************)
(* MmpAllocatePhysicalPages, one turn of its while loop.  The search and   *)
(* the marking of the run run under the lock; on a miss the loop computes  *)
(* FreePageTarget and releases the lock.  Alignment is already in pages    *)
(* here, and line 1058 shifts it by PageShift a second time.               *)
(***************************************************************************)
PAGE_SHIFT == 12

FreePageTarget(n, a) ==
    IF MinimumFree < n + (a \div 2^PAGE_SHIFT) THEN n + (a \div 2^PAGE_SHIFT)
    ELSE MinimumFree

Allocate(t, n, a) ==
    /\ \/ pc[t] = "idle"
       \/ pc[t] = "retry" /\ req[t] = [n |-> n, a |-> a]
    /\ LET r == FindPhysicalPages(db, "Free", n, a, allocCursor) IN
       IF r.found
       THEN /\ db' = [db EXCEPT
                        !.page = [f \in Frames |->
                                    IF f \in Selected(r) THEN "nonpaged" ELSE @[f]],
                        !.segFree[r.seg] = @ - n,
                        !.allocated = @ + n,
                        !.nonPaged  = @ + n]
            /\ owner' = [f \in Frames |-> IF f \in Selected(r) THEN t ELSE owner[f]]
            /\ allocCursor' = r.cursor
            /\ pc' = [pc EXCEPT ![t] = "idle"]
            /\ req' = [req EXCEPT ![t] = NoRequest]
       ELSE /\ pc' = [pc EXCEPT ![t] = "request"]
            /\ req' = [req EXCEPT ![t] = [n |-> n, a |-> a]]
            /\ UNCHANGED <<db, owner, allocCursor>>
    /\ UNCHANGED <<pagedCursor, lockedRun, pager, pagingEvent, freeEvent,
                   pageOutTarget>>

\* MmRequestPagingOut(FreePageTarget) after the lock is released (the
\* routine is outside this repository: it hands the target to the pager,
\* resets MmPagingFreePagesEvent and wakes the pager).
RequestPagingOut(t) ==
    /\ pc[t] = "request"
    /\ pageOutTarget' = FreePageTarget(req[t].n, req[t].a)
    /\ pagingEvent' = TRUE
    /\ freeEvent' = FALSE
    /\ pc' = [pc EXCEPT ![t] = "towait"]
    /\ UNCHANGED <<db, owner, allocCursor, pagedCursor, req, lockedRun, pager>>

\* KeWaitForEvent(MmPagingFreePagesEvent): returns at once if the pager has
\* signalled since the request, and otherwise blocks until it signals.
WaitFreePages(t) ==
    /\ pc[t] = "towait"
    /\ pc' = [pc EXCEPT ![t] = IF freeEvent THEN "retry" ELSE "wait"]
    /\ UNCHANGED <<db, owner, allocCursor, pagedCursor, req, lockedRun, pager,
                   pagingEvent, freeEvent, pageOutTarget>>

\* A run the thread may pass to free, enable-paging or lock: frames it
\* holds, none of them locked by anyone (the image section's lock, which
\* callers of these routines hold, keeps lockers and freers apart).
Unlocked(run) == \A u \in Threads : RunSet(run) \cap RunSet(lockedRun[u]) = {}

Held(t, run) == \A i \in DOMAIN run : owner[run[i]] = t

\* MmFreePhysicalPages on a run the thread holds.
Free(t, run) ==
    /\ pc[t] = "idle"
    /\ Held(t, run)
    /\ Unlocked(run)
    /\ db' = FreePhysicalPages(db, run)
    /\ owner' = [f \in Frames |-> IF f \in RunSet(run) THEN NoOwner ELSE owner[f]]
    /\ UNCHANGED <<allocCursor, pagedCursor, pc, req, lockedRun, pager,
                   pagingEvent, freeEvent, pageOutTarget>>

\* MmpEnablePagingOnPhysicalAddress(run, LockPages).  A run enabled locked
\* starts with lock count 1, held by the caller.
EnablePaging(t, run, lockPages) ==
    /\ pc[t] = "idle"
    /\ Held(t, run)
    /\ Unlocked(run)
    /\ \A i \in DOMAIN run : db.page[run[i]] = "nonpaged"
    /\ lockPages => lockedRun[t] = << >>
    /\ db' = [db EXCEPT
                !.page = [f \in Frames |-> IF f \in RunSet(run) THEN "pageable" ELSE @[f]],
                !.lock = [f \in Frames |-> IF lockPages /\ f \in RunSet(run) THEN 1 ELSE @[f]],
                !.nonPaged = IF lockPages THEN @ ELSE @ - Len(run)]
    /\ lockedRun' = IF lockPages THEN [lockedRun EXCEPT ![t] = run] ELSE lockedRun
    /\ UNCHANGED <<owner, allocCursor, pagedCursor, pc, req, pager,
                   pagingEvent, freeEvent, pageOutTarget>>

\* Variant of LockPages whose undo takes back the page it failed on too.
LockPagesUndoPast(t, run) ==
    /\ pc[t] = "idle"
    /\ lockedRun[t] = << >>
    /\ \A i \in DOMAIN run : owner[run[i]] # NoOwner
    /\ LET r == LockLoop(db, run, 1) IN
         /\ db' = r.db
         /\ IF r.stop = Len(run)
            THEN /\ lockedRun' = [lockedRun EXCEPT ![t] = run]
                 /\ UNCHANGED pc
            ELSE /\ lockedRun' = [lockedRun EXCEPT ![t] = SubSeq(run, 1, r.stop + 1)]
                 /\ pc' = [pc EXCEPT ![t] = "undo"]
    /\ UNCHANGED <<owner, allocCursor, pagedCursor, req, pager,
                   pagingEvent, freeEvent, pageOutTarget>>

\* MmpLockPhysicalPages under the lock.  On STATUS_RESOURCE_IN_USE the
\* first PageIndex pages stay locked until the undo after the release.
\* Callers lock pages of a live section or allocation, so every frame of
\* the run is held by some thread (which need not be the locker).
LockPages(t, run) ==
    /\ pc[t] = "idle"
    /\ lockedRun[t] = << >>
    /\ \A i \in DOMAIN run : owner[run[i]] # NoOwner
    /\ LET r == LockLoop(db, run, 1) IN
         /\ db' = r.db
         /\ IF r.stop = Len(run)
            THEN /\ lockedRun' = [lockedRun EXCEPT ![t] = run]
                 /\ UNCHANGED pc
            ELSE /\ lockedRun' = [lockedRun EXCEPT ![t] = SubSeq(run, 1, r.stop)]
                 /\ pc' = [pc EXCEPT ![t] = "undo"]
    /\ UNCHANGED <<owner, allocCursor, pagedCursor, req, pager,
                   pagingEvent, freeEvent, pageOutTarget>>

\* MmpUnlockPhysicalPages: the caller's unlock, or the undo of a failed
\* lock (skipped by the code when PageIndex is 0).
UnlockPages(t) ==
    /\ pc[t] \in {"idle", "undo"}
    /\ pc[t] = "idle" => lockedRun[t] # << >>
    /\ db' = IF lockedRun[t] = << >> THEN db ELSE UnlockPhysicalPages(db, lockedRun[t])
    /\ lockedRun' = [lockedRun EXCEPT ![t] = << >>]
    /\ pc' = [pc EXCEPT ![t] = "idle"]
    /\ UNCHANGED <<owner, allocCursor, pagedCursor, req, pager,
                   pagingEvent, freeEvent, pageOutTarget>>

-----------------------------------------------------------------------------
(***************************************************************************)
(* The paging thread.  PagerWake is the paging worker taking a request     *)
(* (outside this repository); PagerSearch is one locked head of the while  *)
(* loop of MmpPageOutPhysicalPages; PagerPageOut is the unlocked MmpPageOut *)
(* call and the accounting after it.                                       *)
(***************************************************************************)
PagerWake ==
    /\ pager.pc = "idle"
    /\ pagingEvent
    /\ pagingEvent' = FALSE
    /\ pager' = [PagerIdle EXCEPT !.pc = "search", !.target = pageOutTarget]
    /\ UNCHANGED <<db, owner, allocCursor, pagedCursor, pc, req, lockedRun,
                   freeEvent, pageOutTarget>>

\* KeSignalEvent(MmPagingFreePagesEvent, SignalOptionSignalAll) when cond:
\* the event stays signalled and every thread waiting on it is released.
SignalFreePages(cond) ==
    IF cond
    THEN /\ freeEvent' = TRUE
         /\ pc' = [t \in Threads |-> IF pc[t] = "wait" THEN "retry" ELSE pc[t]]
    ELSE UNCHANGED <<freeEvent, pc>>

\* Variant of EndPass that signals only when pages were paged out.
EndPassOnlyOnProgress(p) ==
    /\ pager' = PagerIdle
    /\ SignalFreePages(p.sinceEvent # 0)

\* The end of the pass: signal if there are remainders, or no progress.
EndPass(p) ==
    /\ pager' = PagerIdle
    /\ SignalFreePages(p.sinceEvent # 0 \/ p.total = 0)

PagerSearch ==
    /\ pager.pc = "search"
    /\ LET target == IF pager.target > Total - db.nonPaged
                     THEN Total - db.nonPaged ELSE pager.target
           p      == [pager EXCEPT !.target = target]
           r      == FindPhysicalPages(db, "Pagable", 1, 1, pagedCursor)
       IN IF Total - db.allocated >= target \/ p.total >= target \/ ~r.found
          THEN /\ EndPass(p)
               /\ UNCHANGED <<db, pagedCursor>>
          ELSE LET v == CHOOSE f \in Selected(r) : TRUE IN
               /\ db' = [db EXCEPT !.pagingOut[v] = TRUE]
               /\ pagedCursor' = r.cursor
               /\ pager' = [p EXCEPT !.pc = "pageout", !.victim = v]
               /\ UNCHANGED <<freeEvent, pc>>
    /\ UNCHANGED <<owner, allocCursor, req, lockedRun, pagingEvent,
                   pageOutTarget>>

(***************************************************************************)
(* MmpPageOut on the victim (outside this repository, from the             *)
(* specification): a page some caller has locked since the search is not  *)
(* evicted (STATUS_RESOURCE_IN_USE); otherwise the write-back succeeds,    *)
(* the page is unmapped and its frame freed, or the I/O fails.  Either way *)
(* the paging-out flag is cleared.  A page whose section released it       *)
(* while it was being paged out is always freed.                           *)
(***************************************************************************)
PageOutOutcomes(v) ==
    IF db.lock[v] > 0 THEN {"in_use"}
    ELSE IF owner[v] = NoOwner THEN {"paged"}
    ELSE {"paged", "failed"}

PagerPageOut ==
    /\ pager.pc = "pageout"
    /\ LET v == pager.victim IN
       \E st \in PageOutOutcomes(v) :
         LET cleared == [db EXCEPT !.pagingOut[v] = FALSE]
             paged   == IF st = "paged" THEN 1 ELSE 0
             since   == pager.sinceEvent + paged
             signal  == st = "paged" /\ since >= SignalPageCount
             fails   == IF st = "failed" THEN pager.failures + 1 ELSE pager.failures
             p       == [pager EXCEPT !.pc = "search", !.victim = NoOwner,
                                      !.total = @ + paged, !.failures = fails,
                                      !.sinceEvent = IF signal THEN 0 ELSE since]
         IN /\ db' = IF st = "paged" THEN FreePhysicalPages(cleared, << v >>)
                     ELSE cleared
            /\ owner' = IF st = "paged" THEN [owner EXCEPT ![v] = NoOwner] ELSE owner
            /\ IF fails >= MaxPageOutFailures
               THEN EndPass(p)
               ELSE /\ pager' = p
                    /\ SignalFreePages(signal)
    /\ UNCHANGED <<allocCursor, pagedCursor, req, lockedRun, pagingEvent,
                   pageOutTarget>>

-----------------------------------------------------------------------------
Next ==
    \/ \E t \in Threads :
         \/ \E n \in 1 .. MaxRun, a \in Alignments : Allocate(t, n, a)
         \/ RequestPagingOut(t)
         \/ WaitFreePages(t)
         \/ \E run \in Runs : Free(t, run)
         \/ \E run \in Runs, lk \in BOOLEAN : EnablePaging(t, run, lk)
         \/ \E run \in LockRuns : LockPages(t, run)
         \/ UnlockPages(t)
    \/ PagerWake
    \/ PagerSearch
    \/ PagerPageOut

(***************************************************************************)
(* Fairness: the paging thread and every allocator blocked in the loop are *)
(* runnable threads the scheduler eventually runs.  Allocation, free, lock *)
(* and unlock are requests of callers and need no fairness.                *)
(***************************************************************************)
PagerStep == PagerWake \/ PagerSearch \/ PagerPageOut

\* The steps of an allocation in its wait loop (one is enabled at a time).
AllocatorStep(t) ==
    \/ RequestPagingOut(t)
    \/ WaitFreePages(t)
    \/ pc[t] = "retry" /\ \E n \in 1 .. MaxRun, a \in Alignments : Allocate(t, n, a)

\* When each is enabled: every step of the pager or of a waiting
\* allocation changes pc, pager or pagingEvent, so ENABLED <<A>>_vars is
\* the state predicate below, and WF is written with it.
PagerReady == pager.pc # "idle" \/ pagingEvent

AllocatorReady(t) == pc[t] \in {"request", "towait", "retry"}

Fairness ==
    /\ <>[]PagerReady => []<><<PagerStep>>_vars
    /\ \A t \in Threads : <>[]AllocatorReady(t) => []<><<AllocatorStep(t)>>_vars

Spec == Init /\ [][Next]_vars /\ Fairness

-----------------------------------------------------------------------------
(***************************************************************************)
(* Properties.                                                             *)
(***************************************************************************)
TypeOK ==
    /\ db.page \in [Frames -> {"free", "nonpaged", "pageable"}]
    /\ db.lock \in [Frames -> 0 .. MaxLockCount]
    /\ db.pagingOut \in [Frames -> BOOLEAN]
    /\ db.segFree \in [SegIndex -> Int]
    /\ db.allocated \in Int /\ db.nonPaged \in Int
    /\ owner \in [Frames -> Threads \cup {NoOwner}]
    /\ pc \in [Threads -> {"idle", "request", "towait", "wait", "retry", "undo"}]
    /\ pager.pc \in {"idle", "search", "pageout"}
    /\ pagingEvent \in BOOLEAN /\ freeEvent \in BOOLEAN

\* MmNonPagedPhysicalPages counts exactly the non-paged frames and the
\* pageable frames with a non-zero lock count, across enable-paging, lock
\* (with the undo of a partial lock after the lock is dropped), unlock,
\* free and the pager's eviction.
NonPagedAccounting ==
    db.nonPaged = Cardinality({f \in Frames : db.page[f] = "nonpaged"})
                  + Cardinality({f \in Frames : db.page[f] = "pageable" /\ db.lock[f] > 0})

\* The frame the pager is paging out stays allocated and flagged until the
\* pager's own completion: a free by its section between the search and
\* MmpPageOut skips it, so it cannot be handed to an allocator meanwhile.
VictimStaysAllocated ==
    pager.pc = "pageout" =>
        /\ db.page[pager.victim] = "pageable"
        /\ db.pagingOut[pager.victim]
        /\ \A f \in Frames : db.pagingOut[f] => f = pager.victim

\* A pageable page's LockCount is the number of callers holding it locked,
\* counting a caller whose MmpLockPhysicalPages failed at a page already at
\* MAX_PHYSICAL_PAGE_LOCK_COUNT until its undo, run after the database lock
\* is dropped, gives back exactly the PageIndex pages it took; any other
\* page has no lock count.  The pager, allocators and other lockers run
\* between the failed lock and its undo.
LocksHeldByLockers ==
    \A f \in Frames :
        db.lock[f] = IF db.page[f] = "pageable"
                     THEN Cardinality({u \in Threads : f \in RunSet(lockedRun[u])})
                     ELSE 0

\* MmTotalAllocatedPhysicalPages and each segment's FreePages agree with the
\* frames the database marks free (MmFreePhysicalPages keeps them in step).
AllocatedMatchesFrames ==
    /\ db.allocated = Cardinality({f \in Frames : db.page[f] # "free"})
    /\ \A s \in SegIndex :
         db.segFree[s] = Cardinality({f \in Frames : db.page[f] = "free" /\ SegOf(f) = s})

\* A thread waiting on MmPagingFreePagesEvent is eventually released: the
\* pager signals at the end of every pass, even one that freed nothing.
\* A pass ends only when MmpPageOut stops answering STATUS_RESOURCE_IN_USE,
\* which counts neither as progress nor as a failure, so this is stated for
\* behaviours in which callers eventually stop taking page locks (the run
\* pager_livelock shows the pass going on forever otherwise).
LockingStops == <>[][\A t \in Threads : lockedRun'[t] \in {lockedRun[t], << >>}]_lockedRun

\* A thread waiting in MmpAllocatePhysicalPages for the pager is released.
WaitersWake == \A t \in Threads : pc[t] = "wait" ~> pc[t] # "wait"

\* Waiters are released in every behaviour in which locking stops.
WaitersWakeOnceLockingStops == LockingStops => WaitersWake

\* The frames as PhysicalPages sees them: held by the thread that owns
\* them, in the pool when the database marks them free, reserved at boot,
\* or released by their holder while the pager has them.
PagesHolder ==
    [f \in Frames |-> IF owner[f] # NoOwner THEN owner[f]
                     ELSE IF db.page[f] = "free" THEN "pool"
                     ELSE IF f \in Reserved THEN "boot"
                     ELSE "released"]

Pages == INSTANCE PhysicalPages
             WITH holder <- PagesHolder,
                  pageable <- {f \in Frames : db.page[f] = "pageable"},
                  evicting <- IF pager.pc = "pageout" THEN {pager.victim} ELSE {}

\* The allocator implements PhysicalPages: MmpAllocatePhysicalPages hands
\* out only free frames, MmFreePhysicalPages returns a thread's frames (or
\* leaves the one the pager is paging out to it), and the pager frees only
\* the frame its search picked among the pageable ones, so no frame goes
\* from one holder to another, is handed out while being paged out, or is
\* freed twice, through any interleaving of the pager's unlocked page-out
\* with frees and allocations.
PagesRefined == Pages!Spec
=============================================================================
