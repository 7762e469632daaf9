------------------------------ MODULE Mapping ------------------------------
(***************************************************************************)
(* The leaf level of the x86 page tables in src/kernel/mm/x86/mapping.c    *)
(* and the TLBs of the processors: MmpMapPage, MmpUnmapPages,              *)
(* MmpChangeMemoryRegionAccess, MmpMapPageInOtherProcess and               *)
(* MmpUnmapPageInOtherProcess on user VA, with the thread-count test that  *)
(* lets a single-threaded process skip the invalidate IPI, and the thread  *)
(* creation and exit of src/kernel/ps/thread.c that change that count,     *)
(* and MmpCopyAndChangeSectionMappings, the copy-on-write copy of the      *)
(* leaf entries of ForkParent into a new child address space at fork.      *)
(*                                                                         *)
(* A PTE is abstracted to its frame (.Entry), Present and Writable bits.   *)
(* Every modelled VA has its page table present (PageDirectory models      *)
(* their creation).  A thread runs on a processor of its own, so the TLB   *)
(* of that processor is tlb[t]; it holds the translations the hardware     *)
(* cached while the thread's process was the current address space, and    *)
(* is emptied when the thread is gone (MmSwitchAddressSpace reloads CR3).  *)
(* Page-table edits of one address space are serialised by the address     *)
(* space lock, which the callers hold, so each operation is one step.      *)
(***************************************************************************)
EXTENDS Integers, FiniteSets

CONSTANTS
    Procs,
    Threads,
    ProcOf,          \* ProcOf[t]: the process thread t belongs to
    InitThreads,     \* the threads that exist initially
    Vas,             \* user virtual pages (< USER_VA_END)
    Frames,          \* physical frames that back user pages
    NoFrame,         \* an Entry of 0
    OtherUnmapFree,  \* UnmapFlags free bits callers pass to unmap-in-other
    OtherUnmapAbsent,\* whether unmap-in-other is called on an empty PTE
    ForkParent,      \* the process whose image section is copied at fork
    ForkVas          \* the VAs of that section (VirtualAddress, Size)

Empty == [f |-> NoFrame, present |-> FALSE, writable |-> FALSE]
Ptes == [f : Frames \cup {NoFrame}, present : BOOLEAN, writable : BOOLEAN]
TlbEntries == [va : Vas, f : Frames, writable : BOOLEAN]

VARIABLES
    pte,          \* pte[p][va]: the leaf entry of va in process p
    tlb,          \* tlb[t]: translations cached by the processor running t
    tstate,       \* "unborn", "running", "exiting" (counted out), "dead"
    threadCount,  \* Process->ThreadCount
    free,         \* frames free in the physical allocator
    held,         \* frames held by a caller (a section) and mapped nowhere
    rss,          \* the resident-set counter of each address space
    stray,        \* frames written through a translation no PTE gives
    childPte,     \* childPte[va]: the leaf entry of va in the fork child
    childRss,     \* the resident-set counter of the child address space
    fork          \* "none", "copied" (invalidation owed), "done"

vars == <<pte, tlb, tstate, threadCount, free, held, rss, stray,
          childPte, childRss, fork>>

Init ==
    /\ pte = [p \in Procs |-> [va \in Vas |-> Empty]]
    /\ tlb = [t \in Threads |-> {}]
    /\ tstate = [t \in Threads |-> IF t \in InitThreads THEN "running" ELSE "unborn"]
    /\ threadCount = [p \in Procs |-> Cardinality({t \in InitThreads : ProcOf[t] = p})]
    /\ free = Frames
    /\ held = {}
    /\ rss = [p \in Procs |-> 0]
    /\ stray = {}
    /\ childPte = [va \in Vas |-> Empty]
    /\ childRss = 0
    /\ fork = "none"

\* The processors whose current address space is p: those running a thread
\* of p that has not yet switched away, exiting ones included.
OnCpu(p) == {t \in Threads : ProcOf[t] = p /\ tstate[t] \in {"running", "exiting"}}

\* Drop the translations of va from the TLBs of the threads in s.
Flush(s, va) == [t \in Threads |-> IF t \in s THEN {e \in tlb[t] : e.va # va}
                                   ELSE tlb[t]]

\* A frame the caller supplies: fresh from the allocator or one it holds.
Take(f) == /\ free' = free \ {f}
           /\ held' = held \ {f}

-----------------------------------------------------------------------------
(***************************************************************************)
(* Operations on the current process's address space.                      *)
(***************************************************************************)
\* MmpMapPage of user VA: the slot must be empty (the ASSERT at 1060); no
\* invalidation for an absent-to-present change; the resident set counts
\* the entry whether or not it is made present (1108-1110).
Map(t, va, f, pr, w) ==
    LET p == ProcOf[t] IN
    /\ tstate[t] = "running"
    /\ pte[p][va].f = NoFrame
    /\ f \in free \cup held
    /\ pte' = [pte EXCEPT ![p][va] = [f |-> f, present |-> pr, writable |-> w]]
    /\ Take(f)
    /\ rss' = [rss EXCEPT ![p] = @ + 1]
    /\ UNCHANGED <<tlb, tstate, threadCount, stray, childPte, childRss, fork>>

\* Variant of the IPI test that also skips the IPI with two threads.
SkipsIpiAtTwo(p) == threadCount[p] <= 2

\* The test at mapping.c:1190 (and 1891): a process with at most one
\* thread gets no invalidate IPI for user VA.
SkipsIpi(p) == threadCount[p] <= 1

\* Invalidate va after clearing a present entry: the IPI to every processor
\* in the address space, or, without it, this processor alone unless the
\* process has no thread left (InvalidateTlb FALSE, 1192-1194, 1893-1895).
Invalidate(t, va) ==
    LET p == ProcOf[t] IN
    tlb' = IF ~SkipsIpi(p) THEN Flush(OnCpu(p), va)
           ELSE IF threadCount[p] # 0 THEN Flush({t}, va)
           ELSE tlb

\* Variant of Unmap without the Entry != 0 test of the first pass.
UnmapNoEntryCheck(t, va, freeIt) ==
    LET p == ProcOf[t]
        old == pte[p][va]
    IN /\ \/ tstate[t] = "running"
          \/ tstate[t] = "exiting" /\ threadCount[p] = 0
       /\ pte' = [pte EXCEPT ![p][va] = Empty]
       /\ IF old.present THEN Invalidate(t, va) ELSE UNCHANGED tlb
       /\ IF freeIt THEN free' = free \cup {old.f} /\ UNCHANGED held
                    ELSE held' = held \cup {old.f} /\ UNCHANGED free
       /\ rss' = [rss EXCEPT ![p] = @ - 1]
       /\ UNCHANGED <<tstate, threadCount, stray, childPte, childRss, fork>>

\* MmpUnmapPages(va, 1, flags) of user VA.  The first pass clears Present
\* (or the whole entry) and invalidates; the IPI follows; the second pass
\* frees the frame when UNMAP_FLAG_FREE_PHYSICAL_PAGES is set and zeroes
\* the entry; the resident set drops by MappedCount.  Without the free
\* flag the frame stays with the caller.  Besides a running thread, the
\* last thread of a dying process unmaps (ThreadCount 0).
Unmap(t, va, freeIt) ==
    LET p == ProcOf[t]
        old == pte[p][va]
    IN /\ \/ tstate[t] = "running"
          \/ tstate[t] = "exiting" /\ threadCount[p] = 0
       /\ old.f # NoFrame
       /\ pte' = [pte EXCEPT ![p][va] = Empty]
       /\ IF old.present THEN Invalidate(t, va) ELSE UNCHANGED tlb
       /\ IF freeIt THEN free' = free \cup {old.f} /\ UNCHANGED held
                    ELSE held' = held \cup {old.f} /\ UNCHANGED free
       /\ rss' = [rss EXCEPT ![p] = @ - 1]
       /\ UNCHANGED <<tstate, threadCount, stray, childPte, childRss, fork>>

\* A page counts as changed when its Writable bit flips or it goes from
\* present to absent; absent-to-present is not, as no negative entry is
\* cached (mapping.c:1934-1955).
Changed(old, w, pr) == old.writable # w \/ (old.present /\ ~pr)

\* MmpChangeMemoryRegionAccess(va, 1, flags, MAP_FLAG_ALL_MASK) of user
\* VA: an empty entry is skipped; otherwise set Writable and Present and
\* invalidate a changed page, by IPI or locally as MmpUnmapPages does.
ChangeAccess(t, va, w, pr) ==
    LET p == ProcOf[t]
        old == pte[p][va]
    IN /\ tstate[t] = "running"
       /\ old.f # NoFrame
       /\ pte' = [pte EXCEPT ![p][va] = [old EXCEPT !.writable = w, !.present = pr]]
       /\ IF Changed(old, w, pr) THEN Invalidate(t, va) ELSE UNCHANGED tlb
       /\ UNCHANGED <<tstate, threadCount, free, held, rss, stray, childPte, childRss, fork>>

-----------------------------------------------------------------------------
(***************************************************************************)
(* Operations on another address space.                                    *)
(***************************************************************************)
\* Variants of MapInOther: one counts a remap in the resident set, one
\* loses the old frame of a remap.
MapInOtherCountsRemap(t, q, va, f, ipi, pr, w) ==
    LET old == pte[q][va]
        remap == old.f # NoFrame
    IN /\ tstate[t] = "running"
       /\ f \in free \cup held
       /\ remap => ipi
       /\ pte' = [pte EXCEPT ![q][va] = [f |-> f, present |-> pr, writable |-> w]]
       /\ free' = free \ {f}
       /\ held' = (held \ {f}) \cup (IF remap THEN {old.f} ELSE {})
       /\ tlb' = IF remap /\ old.present THEN Flush(OnCpu(q), va) ELSE tlb
       /\ rss' = [rss EXCEPT ![q] = @ + 1]
       /\ UNCHANGED <<tstate, threadCount, stray, childPte, childRss, fork>>

MapInOtherDropsOld(t, q, va, f, ipi, pr, w) ==
    LET old == pte[q][va]
        remap == old.f # NoFrame
    IN /\ tstate[t] = "running"
       /\ f \in free \cup held
       /\ remap => ipi
       /\ pte' = [pte EXCEPT ![q][va] = [f |-> f, present |-> pr, writable |-> w]]
       /\ Take(f)
       /\ tlb' = IF remap /\ old.present THEN Flush(OnCpu(q), va) ELSE tlb
       /\ rss' = IF remap THEN rss ELSE [rss EXCEPT ![q] = @ + 1]
       /\ UNCHANGED <<tstate, threadCount, stray, childPte, childRss, fork>>

\* MmpMapPageInOtherProcess(q, f, va, flags, ipi).  A slot with an entry
\* is a remap: it is not counted (MappedCount 0) and the caller must ask
\* for the IPI (ASSERT at 1759), which is sent only if the old entry was
\* present; the old frame returns to the caller.  An empty slot is counted
\* and gets no IPI.
MapInOther(t, q, va, f, ipi, pr, w) ==
    LET old == pte[q][va]
        remap == old.f # NoFrame
    IN /\ tstate[t] = "running"
       /\ f \in free \cup held
       /\ remap => ipi
       /\ pte' = [pte EXCEPT ![q][va] = [f |-> f, present |-> pr, writable |-> w]]
       /\ free' = free \ {f}
       /\ held' = (held \ {f}) \cup (IF remap THEN {old.f} ELSE {})
       /\ tlb' = IF remap /\ old.present THEN Flush(OnCpu(q), va) ELSE tlb
       /\ rss' = IF remap THEN rss ELSE [rss EXCEPT ![q] = @ + 1]
       /\ UNCHANGED <<tstate, threadCount, stray, childPte, childRss, fork>>

\* MmpUnmapPageInOtherProcess(q, va, flags).  A present entry is cleared
\* and the IPI sent (1607-1610), then the entry zeroed.  Physical is set
\* to INVALID_PHYSICAL_ADDRESS at 1572 and never assigned, so the frame is
\* not freed even with UNMAP_FLAG_FREE_PHYSICAL_PAGES; without the flag it
\* stays with the caller.  The resident set is decremented (1627) whether
\* or not the entry had a frame.
UnmapInOther(t, q, va, freeIt) ==
    LET old == pte[q][va] IN
    /\ tstate[t] = "running"
    /\ old.f # NoFrame \/ OtherUnmapAbsent
    /\ pte' = [pte EXCEPT ![q][va] = Empty]
    /\ tlb' = IF old.present THEN Flush(OnCpu(q), va) ELSE tlb
    /\ held' = IF old.f # NoFrame /\ ~freeIt THEN held \cup {old.f} ELSE held
    /\ rss' = [rss EXCEPT ![q] = @ - 1]
    /\ UNCHANGED <<tstate, threadCount, free, stray, childPte, childRss, fork>>

-----------------------------------------------------------------------------
(***************************************************************************)
(* The processor, and the thread lifecycle of src/kernel/ps/thread.c.      *)
(***************************************************************************)
\* The hardware walk on a TLB miss: a present entry is cached.
TlbFill(t, va) ==
    LET e == pte[ProcOf[t]][va] IN
    /\ tstate[t] = "running"
    /\ e.present
    /\ \A x \in tlb[t] : x.va # va
    /\ tlb' = [tlb EXCEPT ![t] = @ \cup {[va |-> va, f |-> e.f, writable |-> e.writable]}]
    /\ UNCHANGED <<pte, tstate, threadCount, free, held, rss, stray, childPte, childRss, fork>>

\* PspCreateThread by a running thread c of the same process: the thread
\* is added and ThreadCount incremented under the process lock
\* (thread.c:1529-1532) before it first runs, on a fresh CR3.
CreateThread(c, t) ==
    /\ tstate[c] = "running"
    /\ tstate[t] = "unborn"
    /\ ProcOf[c] = ProcOf[t]
    /\ tstate' = [tstate EXCEPT ![t] = "running"]
    /\ threadCount' = [threadCount EXCEPT ![ProcOf[t]] = @ + 1]
    /\ UNCHANGED <<pte, tlb, free, held, rss, stray, childPte, childRss, fork>>

\* PspThreadTermination: ThreadCount -= 1 under the process lock
\* (thread.c:1242-1245).  The thread still runs on its processor.
ExitStart(t) ==
    /\ tstate[t] = "running"
    /\ tstate' = [tstate EXCEPT ![t] = "exiting"]
    /\ threadCount' = [threadCount EXCEPT ![ProcOf[t]] = @ - 1]
    /\ UNCHANGED <<pte, tlb, free, held, rss, stray, childPte, childRss, fork>>

\* The rest of PspThreadTermination: unless it was the last thread, zero
\* the user-mode thread ID (MmUserWrite32 at thread.c:1282) at va, through
\* this processor's TLB or, on a miss, a writable present PTE (else the
\* write faults and is dropped); then the thread leaves the processor.
\* A write through a translation that no PTE gives any more is recorded.
ExitFinish(t, va) ==
    LET p == ProcOf[t]
        hit == {e \in tlb[t] : e.va = va /\ e.writable}
        cur == pte[p][va]
    IN /\ tstate[t] = "exiting"
       /\ stray' = IF threadCount[p] = 0 THEN stray
                   ELSE stray \cup {e.f : e \in {e \in hit :
                          ~(cur.f = e.f /\ cur.present /\ cur.writable)}}
       /\ tstate' = [tstate EXCEPT ![t] = "dead"]
       /\ tlb' = [tlb EXCEPT ![t] = {}]
       /\ UNCHANGED <<pte, threadCount, free, held, rss, childPte, childRss, fork>>

-----------------------------------------------------------------------------
(***************************************************************************)
(* Fork: the copy of the image sections of ForkParent into a new child     *)
(* address space, which has no thread yet.  The section is ForkVas; the    *)
(* child's leaf tables were preallocated (PageDirectory).                  *)
(***************************************************************************)
\* The frames of ForkParent that the child now maps too.
ChildShares(f) == f # NoFrame /\ \E va \in Vas : childPte[va].f = f

\* The section layer copies a shared page on a write fault before it grants
\* write access to it, so no caller asks for write access to a frame the
\* child shares.
Grants(f, w) == w => ~ChildShares(f)

\* Variant that copies the source entry before clearing its Writable bit.
ForkCopyBeforeDowngrade(t) ==
    LET p == ProcOf[t]
        copied == {va \in ForkVas : pte[p][va].f # NoFrame}
    IN /\ tstate[t] = "running"
       /\ p = ForkParent
       /\ fork = "none"
       /\ pte' = [pte EXCEPT ![p] = [va \in Vas |->
                    [@[va] EXCEPT !.writable = @ /\ va \notin copied]]]
       /\ childPte' = [va \in Vas |-> IF va \in copied THEN pte[p][va] ELSE Empty]
       /\ childRss' = childRss + Cardinality(copied)
       /\ fork' = "copied"
       /\ UNCHANGED <<tlb, tstate, threadCount, free, held, rss, stray>>

\* Variant that counts only the present entries it copies.
ForkCopyCountsPresent(t) ==
    LET p == ProcOf[t]
        copied == {va \in ForkVas : pte[p][va].f # NoFrame}
    IN /\ tstate[t] = "running"
       /\ p = ForkParent
       /\ fork = "none"
       /\ pte' = [pte EXCEPT ![p] = [va \in Vas |->
                    [@[va] EXCEPT !.writable = @ /\ va \notin copied]]]
       /\ childPte' = [va \in Vas |-> IF va \in copied
                                       THEN [pte[p][va] EXCEPT !.writable = FALSE]
                                       ELSE Empty]
       /\ childRss' = childRss + Cardinality({va \in copied : pte[p][va].present})
       /\ fork' = "copied"
       /\ UNCHANGED <<tlb, tstate, threadCount, free, held, rss, stray>>

\* MmpCopyAndChangeSectionMappings(child, parent, va, size), run by a thread
\* of the parent: each entry with Entry != 0 loses Writable in the parent
\* and is copied, Dirty masked (not modelled), to the child; an empty entry
\* leaves the child's empty; MappedCount such entries are added to the
\* child's resident set.  No TLB is invalidated (2245-2249).
ForkCopy(t) ==
    LET p == ProcOf[t]
        copied == {va \in ForkVas : pte[p][va].f # NoFrame}
    IN /\ tstate[t] = "running"
       /\ p = ForkParent
       /\ fork = "none"
       /\ pte' = [pte EXCEPT ![p] = [va \in Vas |->
                    [@[va] EXCEPT !.writable = @ /\ va \notin copied]]]
       /\ childPte' = [va \in Vas |-> IF va \in copied
                                       THEN [pte[p][va] EXCEPT !.writable = FALSE]
                                       ELSE Empty]
       /\ childRss' = childRss + Cardinality(copied)
       /\ fork' = "copied"
       /\ UNCHANGED <<tlb, tstate, threadCount, free, held, rss, stray>>

\* The single broadcast invalidation of the whole range once the copy has
\* finished: every processor running ForkParent drops the section's VAs.
ForkFlush ==
    /\ fork = "copied"
    /\ tlb' = [t \in Threads |-> IF t \in OnCpu(ForkParent)
                                 THEN {e \in tlb[t] : e.va \notin ForkVas}
                                 ELSE tlb[t]]
    /\ fork' = "done"
    /\ UNCHANGED <<pte, tstate, threadCount, free, held, rss, stray, childPte, childRss>>

\* Between the copy and its invalidation, processors running the parent
\* may still hold the writable translations the copy took away.
ForkWindow(p) == fork = "copied" /\ p = ForkParent

-----------------------------------------------------------------------------
Next ==
    \/ \E t \in Threads, va \in Vas :
         \/ \E f \in Frames, pr, w \in BOOLEAN : Grants(f, w) /\ Map(t, va, f, pr, w)
         \/ \E freeIt \in BOOLEAN : Unmap(t, va, freeIt)
         \/ \E w, pr \in BOOLEAN :
              Grants(pte[ProcOf[t]][va].f, w) /\ ChangeAccess(t, va, w, pr)
         \/ \E q \in Procs :
              \/ \E f \in Frames, ipi, pr, w \in BOOLEAN :
                   Grants(f, w) /\ MapInOther(t, q, va, f, ipi, pr, w)
              \/ \E freeIt \in OtherUnmapFree : UnmapInOther(t, q, va, freeIt)
         \/ TlbFill(t, va)
         \/ ExitFinish(t, va)
    \/ \E t \in Threads :
         \/ ExitStart(t)
         \/ \E c \in Threads : CreateThread(c, t)
         \/ ForkCopy(t)
    \/ ForkFlush

Spec == Init /\ [][Next]_vars

-----------------------------------------------------------------------------
(***************************************************************************)
(* Properties.                                                             *)
(***************************************************************************)
TypeOK ==
    /\ pte \in [Procs -> [Vas -> Ptes]]
    /\ tlb \in [Threads -> SUBSET TlbEntries]
    /\ tstate \in [Threads -> {"unborn", "running", "exiting", "dead"}]
    /\ threadCount \in [Procs -> Nat]
    /\ free \cup held \subseteq Frames
    /\ rss \in [Procs -> Int]
    /\ stray \subseteq Frames
    /\ childPte \in [Vas -> Ptes]
    /\ childRss \in Int
    /\ fork \in {"none", "copied", "done"}

\* Every translation in the TLB of a processor running a thread in user
\* mode is one the page tables still give: a frame unmapped, remapped or
\* write-protected by any thread of the process, or by another process
\* through the in-other-process routines, is invalidated on every
\* processor that runs the process before the operation returns, whatever
\* the thread count was when the IPI was decided.  The fork copy alone
\* leaves writable translations of the parent behind, until its single
\* invalidation after the copy.
RunningTlbCoherent ==
    \A t \in Threads : tstate[t] = "running" =>
        \A e \in tlb[t] :
            LET c == pte[ProcOf[t]][e.va] IN
            /\ c.f = e.f /\ c.present
            /\ e.writable => c.writable \/ ForkWindow(ProcOf[t])

\* The resident-set counter of each address space equals its leaf entries
\* with a frame, through map, unmap, remap and the in-other-process
\* routines (MmpMapPage and MmpUnmapPages count Entry != 0), and in the
\* fork child, whose counter the copy raises by MappedCount.
ResidentSetCounts ==
    /\ \A p \in Procs : rss[p] = Cardinality({va \in Vas : pte[p][va].f # NoFrame})
    /\ childRss = Cardinality({va \in Vas : childPte[va].f # NoFrame})

\* The owners of frame f: the allocator's free pool, the caller holding
\* it, the leaf entries naming it.
Owners(f) ==
    (IF f \in free THEN {"free"} ELSE {}) \cup (IF f \in held THEN {"held"} ELSE {})
    \cup {<<p, va>> \in Procs \X Vas : pte[p][va].f = f}

\* Every frame has exactly one owner: an unmapped frame is freed or handed
\* back to its caller, and a remapped one is returned, never lost or kept
\* in two places.
FramesHaveOneOwner == \A f \in Frames : Cardinality(Owners(f)) = 1

\* No store of the kernel on behalf of a thread reaches a frame through a
\* translation the page tables no longer give (the frame may already be
\* free and reused): the zeroing of the thread ID at thread exit
\* (thread.c:1282) goes to the page the thread's process maps there.
WritesGoThroughPageTables == stray = {}

\* Copy-on-write: a frame the fork child shares with its parent is
\* writable through no leaf entry, the child's or any process's, from the
\* copy on, while the parent's threads map, unmap, change access, create
\* threads and exit; with RunningTlbCoherent after the fork's invalidation,
\* no processor can write it (mapping.c:2255-2260, 2313-2318).
ForkSharesReadOnly ==
    /\ \A va \in Vas : ~childPte[va].writable
    /\ \A p \in Procs, va \in Vas : ChildShares(pte[p][va].f) => ~pte[p][va].writable

====

