--------------------------- MODULE PageDirectory ---------------------------
(***************************************************************************)
(* The x86 page-directory layer of src/kernel/mm/x86/mapping.c: page-table *)
(* creation (MmpMapPage calling MmpCreatePageTable), the kernel-half       *)
(* synchronisation of per-process directories with MmKernelPageDirectory   *)
(* (MmpCheckDirectoryUpdates, MmUpdatePageDirectory), the fork-time        *)
(* preallocation of user page tables (MmpPreallocatePageTables) and the    *)
(* teardown of an exiting process (MmpTearDownPageTables,                  *)
(* MmpDestroyPageDirectory).                                               *)
(*                                                                         *)
(* A directory entry is abstracted to the page-table frame it names        *)
(* (.Entry) and its Present bit; the Writable, User and Global bits are    *)
(* the same in every copy of an entry and are left out.  A page table's   *)
(* contents are abstracted to the kernel mappings written into it          *)
(* ("written"), which is what another process must be able to see.         *)
(***************************************************************************)
EXTENDS Naturals, FiniteSets, Functions

CONSTANTS
    Procs,        \* processes (address spaces)
    InitProcs,    \* the processes that exist initially; the rest are
                  \* created by a fork
    Threads,
    ProcOf,       \* ProcOf[t]: the process thread t belongs to
    KernelIdx,    \* directory indices of kernel VA (>= KERNEL_VA_START)
    UserIdx,      \* directory indices of user VA (< USER_VA_END)
    TableFrames,  \* physical frames that can become page tables
    BootTables,   \* BootTables[i]: the page table the loader built for
                  \* kernel index i (the domain may be empty)
    NoFrame,      \* an Entry of 0
    NoThread      \* MmPageTableLock is free

Idx == KernelIdx \cup UserIdx

Empty == [pt |-> NoFrame, present |-> FALSE]
Entries == [pt : TableFrames \cup {NoFrame}, present : BOOLEAN]

VARIABLES
    kpde,         \* MmKernelPageDirectory, kernel indices
    pde,          \* pde[p]: the page directory of process p
    state,        \* process lifecycle: "unborn", "forking", "alive", "dead"
    freeFrames,   \* table frames free in the physical allocator
    ptCount,      \* AddressSpace->PageTableCount
    ptLock,       \* holder of MmPageTableLock
    th,           \* per-thread locals, see Idle
    written       \* <<index, table frame>> of every kernel mapping written

vars == <<kpde, pde, state, freeFrames, ptCount, ptLock, th, written>>

\* A thread between calls.  "lock": in MmpCreatePageTable with a page table
\* in hand (new, count = NewPageTable, NewCount), waiting for
\* MmPageTableLock; "publish": holding it after the kernel directory store
\* at mapping.c:2755; "walk": in MmpPreallocatePageTables for child with
\* the scattered allocation (pages) done.
Idle == [pc |-> "idle", idx |-> NoFrame, new |-> NoFrame, count |-> 0,
         child |-> NoThread, pages |-> {}]

\* The kernel mapping a thread writes through its own directory once the
\* page table is present (the PTE store at the end of MmpMapPage).
WriteMapping(i, d) ==
    written' = IF i \in KernelIdx THEN written \cup {<<i, d.pt>>} ELSE written

\* MmKernelPageDirectory as the loader leaves it, and a process directory
\* as MmpCreatePageDirectory makes it: user half zero, kernel half copied.
BootKernel == [i \in KernelIdx |-> IF i \in DOMAIN BootTables
                                   THEN [pt |-> BootTables[i], present |-> TRUE]
                                   ELSE Empty]

NewDirectory(k) == [i \in Idx |-> IF i \in KernelIdx THEN k[i] ELSE Empty]

Init ==
    /\ kpde = BootKernel
    /\ pde = [p \in Procs |-> NewDirectory(BootKernel)]
    /\ state = [p \in Procs |-> IF p \in InitProcs THEN "alive" ELSE "unborn"]
    /\ freeFrames = TableFrames \ Range(BootTables)
    /\ ptCount = [p \in Procs |-> 0]
    /\ ptLock = NoThread
    /\ th = [t \in Threads |-> Idle]
    /\ written = {}

-----------------------------------------------------------------------------
(***************************************************************************)
(* MmpMapPage(i) by thread t, and MmpCreatePageTable up to the lock.       *)
(***************************************************************************)
\* The page table for user VA is taken from the entry when an earlier
\* preallocation left one there (mapping.c:2693-2701).
ReusesEntryNever(i, s) == FALSE

ReusesEntry(i, s) == i \in UserIdx /\ s.pt # NoFrame

\* The unlocked part of MmpCreatePageTable: sync a kernel entry whose raw
\* value differs from MmKernelPageDirectory's (mapping.c:2665-2675), return
\* if the entry is now present, else take the preallocated page table
\* (NewCount 0) or allocate one (MmpAllocatePhysicalPage, which waits for
\* memory rather than fail).  MmpMapPage only calls it when the entry is
\* not present, and writes the mapping once it is.
MapPage(t, i) ==
    LET p == ProcOf[t]
        d == pde[p][i]
        s == IF ~d.present /\ i \in KernelIdx /\ kpde[i] # d THEN kpde[i] ELSE d
        Wait(f, n) == th' = [th EXCEPT ![t] = [Idle EXCEPT !.pc = "lock",
                                 !.idx = i, !.new = f, !.count = n]]
    IN /\ th[t].pc = "idle"
       /\ state[p] = "alive"
       /\ pde' = [pde EXCEPT ![p][i] = s]
       /\ IF s.present
          THEN /\ WriteMapping(i, s)
               /\ UNCHANGED <<th, freeFrames>>
          ELSE /\ IF ReusesEntry(i, s)
                  THEN Wait(s.pt, 0) /\ UNCHANGED freeFrames
                  ELSE \E f \in freeFrames :
                          freeFrames' = freeFrames \ {f} /\ Wait(f, 1)
               /\ UNCHANGED written
    /\ UNCHANGED <<kpde, state, ptCount, ptLock>>

(***************************************************************************)
(* MmpCreatePageTable with MmPageTableLock held.                           *)
(***************************************************************************)
\* The resync under the lock (mapping.c:2718-2723) compares only the .Entry
\* field, the page-table frame, not the Present bit.
LockedSync(i, d) ==
    IF i \in KernelIdx /\ kpde[i].pt # d.pt THEN kpde[i] ELSE d

\* The page table the thread brought is freed after the lock is released
\* only if it was allocated here (NewCount != 0) and not installed.
UnusedFreeAlways(t) == {th[t].new}

UnusedFree(t) == IF th[t].count # 0 THEN {th[t].new} ELSE {}

\* Acquire MmPageTableLock, resync, and if the entry is still not present
\* install the new page table: the directory entry with Present clear
\* (2748-2749), for kernel VA the store of that entry into
\* MmKernelPageDirectory (2755), for user VA PageTableCount += NewCount
\* (2760).  If it became present meanwhile, release the lock, free an
\* unused page table (2785-2790) and write the mapping.
Install(t) ==
    LET p == ProcOf[t]
        i == th[t].idx
        d == LockedSync(i, pde[p][i])
        e == [pt |-> th[t].new, present |-> FALSE]
    IN /\ th[t].pc = "lock"
       /\ ptLock = NoThread
       /\ IF d.present
          THEN /\ pde' = [pde EXCEPT ![p][i] = d]
               /\ freeFrames' = freeFrames \cup UnusedFree(t)
               /\ th' = [th EXCEPT ![t] = Idle]
               /\ WriteMapping(i, d)
               /\ UNCHANGED <<kpde, ptCount, ptLock>>
          ELSE /\ pde' = [pde EXCEPT ![p][i] = e]
               /\ kpde' = IF i \in KernelIdx THEN [kpde EXCEPT ![i] = e] ELSE kpde
               /\ ptCount' = IF i \in UserIdx
                             THEN [ptCount EXCEPT ![p] = @ + th[t].count]
                             ELSE ptCount
               /\ ptLock' = t
               /\ th' = [th EXCEPT ![t].pc = "publish"]
               /\ UNCHANGED <<freeFrames, written>>
    /\ UNCHANGED state

\* Variant of Publish that keeps MmPageTableLock.
PublishKeepsLock(t) ==
    LET p == ProcOf[t]
        i == th[t].idx
    IN /\ th[t].pc = "publish"
       /\ kpde' = IF i \in KernelIdx THEN [kpde EXCEPT ![i].present = TRUE] ELSE kpde
       /\ pde' = [pde EXCEPT ![p][i].present = TRUE]
       /\ th' = [th EXCEPT ![t] = Idle]
       /\ WriteMapping(i, [pt |-> th[t].new, present |-> TRUE])
       /\ UNCHANGED <<state, freeFrames, ptCount, ptLock>>

\* The rest of the install: MmKernelPageDirectory[i].Present = 1 (2756),
\* Directory[i].Present = 1 (2763), release the lock, and write the
\* mapping through the new page table.  The two Present stores are one
\* step: between them only threads of the same process could look at its
\* directory, and they would copy the now present kernel entry.
Publish(t) ==
    LET p == ProcOf[t]
        i == th[t].idx
    IN /\ th[t].pc = "publish"
       /\ kpde' = IF i \in KernelIdx THEN [kpde EXCEPT ![i].present = TRUE] ELSE kpde
       /\ pde' = [pde EXCEPT ![p][i].present = TRUE]
       /\ ptLock' = NoThread
       /\ th' = [th EXCEPT ![t] = Idle]
       /\ WriteMapping(i, [pt |-> th[t].new, present |-> TRUE])
       /\ UNCHANGED <<state, freeFrames, ptCount>>

-----------------------------------------------------------------------------
(***************************************************************************)
(* Kernel-half synchronisation outside page-table creation.                *)
(***************************************************************************)
\* MmpCheckDirectoryUpdates on a kernel-mode fault in process p: copy the
\* kernel entry if it is present there and not here.
CheckDirectoryUpdates(p, i) ==
    /\ state[p] = "alive"
    /\ kpde[i].present /\ ~pde[p][i].present
    /\ pde' = [pde EXCEPT ![p][i] = kpde[i]]
    /\ UNCHANGED <<kpde, state, freeFrames, ptCount, ptLock, th, written>>

\* MmUpdatePageDirectory(p, range) as PsCreateThread calls it for a new
\* thread's kernel stack: copy the kernel entries unconditionally and
\* without MmPageTableLock.
UpdatePageDirectory(p, i) ==
    /\ state[p] = "alive"
    /\ pde' = [pde EXCEPT ![p][i] = kpde[i]]
    /\ UNCHANGED <<kpde, state, freeFrames, ptCount, ptLock, th, written>>

-----------------------------------------------------------------------------
(***************************************************************************)
(* Fork: MmpArchCreateAddressSpace and MmpPreallocatePageTables; exit:     *)
(* MmpTearDownPageTables and MmpDestroyPageDirectory.                      *)
(***************************************************************************)
\* The populated user entries of process p, and those of them the walk
\* numbers below n (PageIndex < n), in directory-index order.
Populated(p) == {i \in UserIdx : pde[p][i].pt # NoFrame}

Below(e, n) == {i \in e : Cardinality({j \in e : j < i}) < n}

\* Thread t of p forks into c: MmpCreatePageDirectory gives c a directory
\* with the user half zero and the kernel half copied from
\* MmKernelPageDirectory (mapping.c:2555-2565); MmpPreallocatePageTables
\* then reads PageCount = PageTableCount of p (2036) and allocates that
\* many pages (2045, waiting for memory).
ForkStart(t, c) ==
    LET p == ProcOf[t] IN
    /\ th[t].pc = "idle"
    /\ state[p] = "alive" /\ state[c] = "unborn"
    /\ \E pages \in SUBSET freeFrames :
         /\ Cardinality(pages) = ptCount[p]
         /\ freeFrames' = freeFrames \ pages
         /\ th' = [th EXCEPT ![t] = [Idle EXCEPT !.pc = "walk", !.child = c,
                                                 !.pages = pages]]
    /\ pde' = [pde EXCEPT ![c] = NewDirectory(kpde)]
    /\ state' = [state EXCEPT ![c] = "forking"]
    /\ UNCHANGED <<kpde, ptCount, ptLock, written>>

\* The walk of MmpPreallocatePageTables over the current (p's) directory
\* (2062-2075): every populated user entry takes Pages[PageIndex++] into
\* the child's entry, not present.  Pages has PageCount elements; an entry
\* numbered PageCount or more reads past the array, which C leaves
\* undefined: the value is any frame or none.  PageTableCount of the
\* child becomes PageIndex.
PreallocWalk(t) ==
    LET p == ProcOf[t]
        c == th[t].child
        e == Populated(p)
        ok == Below(e, Cardinality(th[t].pages))
    IN /\ th[t].pc = "walk"
       /\ \E g \in [e -> TableFrames \cup {NoFrame}] :
            /\ IsInjective(Restrict(g, ok)) /\ Range(Restrict(g, ok)) = th[t].pages
            /\ pde' = [pde EXCEPT ![c] = [i \in Idx |->
                         IF i \in e THEN [pt |-> g[i], present |-> FALSE]
                         ELSE pde[c][i]]]
       /\ ptCount' = [ptCount EXCEPT ![c] = Cardinality(e)]
       /\ state' = [state EXCEPT ![c] = "alive"]
       /\ th' = [th EXCEPT ![t] = Idle]
       /\ UNCHANGED <<kpde, freeFrames, ptLock, written>>

\* Variant of Exit that counts every user index as torn down.
ExitCountsEveryIndex(p) ==
    /\ p \notin InitProcs
    /\ state[p] = "alive"
    /\ \A t \in Threads : ProcOf[t] = p => th[t].pc = "idle"
    /\ freeFrames' = freeFrames \cup {pde[p][i].pt : i \in Populated(p)}
    /\ ptCount' = [ptCount EXCEPT ![p] = @ - Cardinality(UserIdx)]
    /\ state' = [state EXCEPT ![p] = "dead"]
    /\ UNCHANGED <<kpde, pde, ptLock, th, written>>

\* Variant of Exit that frees no page table.
ExitKeepsTables(p) ==
    /\ p \notin InitProcs
    /\ state[p] = "alive"
    /\ \A t \in Threads : ProcOf[t] = p => th[t].pc = "idle"
    /\ ptCount' = [ptCount EXCEPT ![p] = @ - Cardinality(Populated(p))]
    /\ state' = [state EXCEPT ![p] = "dead"]
    /\ UNCHANGED <<kpde, pde, ptLock, th, written, freeFrames>>

\* A forked process exits once its threads are out of the memory manager:
\* MmpTearDownPageTables frees the page table of every user entry with a
\* non-zero Entry and subtracts their number from PageTableCount, then
\* MmpDestroyPageDirectory (which asserts the count is 0) frees the
\* directory.  The entries themselves are not cleared.
Exit(p) ==
    /\ p \notin InitProcs
    /\ state[p] = "alive"
    /\ \A t \in Threads : ProcOf[t] = p => th[t].pc = "idle"
    /\ freeFrames' = freeFrames \cup {pde[p][i].pt : i \in Populated(p)}
    /\ ptCount' = [ptCount EXCEPT ![p] = @ - Cardinality(Populated(p))]
    /\ state' = [state EXCEPT ![p] = "dead"]
    /\ UNCHANGED <<kpde, pde, ptLock, th, written>>

-----------------------------------------------------------------------------
Next ==
    \/ \E t \in Threads :
         \/ \E i \in Idx : MapPage(t, i)
         \/ Install(t)
         \/ Publish(t)
         \/ \E c \in Procs : ForkStart(t, c)
         \/ PreallocWalk(t)
    \/ \E p \in Procs :
         \/ \E i \in KernelIdx : CheckDirectoryUpdates(p, i) \/ UpdatePageDirectory(p, i)
         \/ Exit(p)

\* MmPageTableLock is a queued lock, granted in arrival order, so a thread
\* waiting for it gets it however often it is taken by others (strong
\* fairness); a thread holding it, or in the preallocation walk, runs on.
Fairness ==
    \A t \in Threads :
        /\ SF_vars(Install(t))
        /\ WF_vars(Publish(t))
        /\ WF_vars(PreallocWalk(t))

Spec == Init /\ [][Next]_vars /\ Fairness

-----------------------------------------------------------------------------
(***************************************************************************)
(* Properties.                                                             *)
(***************************************************************************)
TypeOK ==
    /\ kpde \in [KernelIdx -> Entries]
    /\ pde \in [Procs -> [Idx -> Entries]]
    /\ state \in [Procs -> {"unborn", "forking", "alive", "dead"}]
    /\ freeFrames \subseteq TableFrames
    /\ ptCount \in [Procs -> Nat]
    /\ ptLock \in Threads \cup {NoThread}
    /\ \A t \in Threads : th[t].pc \in {"idle", "lock", "publish", "walk"}

Live == {p \in Procs : state[p] \in {"forking", "alive"}}

\* The holders of table frame f: the allocator's free pool, a user entry of
\* a live directory, the kernel half (MmKernelPageDirectory and the copies
\* of it), a thread that allocated it and has not installed or freed it.
Holders(f) ==
    (IF f \in freeFrames THEN {"free"} ELSE {})
    \cup {<<p, i>> \in Live \X UserIdx : pde[p][i].pt = f}
    \cup (IF \E i \in KernelIdx : kpde[i].pt = f \/ \E p \in Live : pde[p][i].pt = f
          THEN {"kernel"} ELSE {})
    \cup {t \in Threads : \/ th[t].pc = "lock" /\ th[t].count = 1 /\ th[t].new = f
                          \/ th[t].pc = "walk" /\ f \in th[t].pages}

\* Every page-table frame has exactly one holder: racing creations of the
\* same table free the loser's page and only that, a preallocated table
\* is reused rather than replaced, preallocation hands each page to one
\* entry, and teardown returns exactly the tables of the exiting process.
EachTableFrameHasOneHolder == \A f \in TableFrames : Cardinality(Holders(f)) = 1

\* PageTableCount of every live address space equals its user entries with
\* a page table, as MmpTearDownPageTables asserts (mapping.c:2489) and
\* MmpPreallocatePageTables relies on when it sizes its allocation.
PageTableCountMatches ==
    \A p \in Procs : state[p] = "alive" => ptCount[p] = Cardinality(Populated(p))

\* Every MmpMapPage that has to create a page table returns: the queued
\* page-table lock is always released and handed on.
MapCompletes ==
    \A t \in Threads : th[t].pc \in {"lock", "publish"} ~> th[t].pc = "idle"

\* A kernel mapping written through any process is seen by every process
\* whose directory has that kernel page table present: the kernel half is
\* the same everywhere (specification, section 3).
KernelMappingsShared ==
    \A p \in Live, i \in KernelIdx :
        pde[p][i].present => \A w \in written : w[1] = i => w[2] = pde[p][i].pt

\* MmpPreallocatePageTables never numbers more entries than the pages it
\* allocated (Pages[PageIndex] at mapping.c:2068 stays inside the array, and the
\* ASSERT at 2075).
PreallocInBounds ==
    \A t \in Threads :
        th[t].pc = "walk" => Cardinality(Populated(ProcOf[t])) <= Cardinality(th[t].pages)
====
