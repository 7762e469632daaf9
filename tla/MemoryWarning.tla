--------------------------- MODULE MemoryWarning ---------------------------
(***************************************************************************)
(* The physical memory warning levels of src/kernel/mm/physical.c: the     *)
(* sampled checks at the end of MmpAllocatePhysicalPages and inside the    *)
(* page loop of MmFreePhysicalPages, and the thresholds and count mask     *)
(* MmpInitializePhysicalPageAllocator computes.  The frame database is     *)
(* abstracted to MmTotalAllocatedPhysicalPages: the warning code reads     *)
(* nothing else, and nothing else reads the warning state.                 *)
(***************************************************************************)
EXTENDS Naturals, Bitwise

CONSTANTS
    TotalPages,   \* MmTotalPhysicalPages
    MaxRun        \* largest PageCount of one allocation or free

VARIABLES
    allocated,    \* MmTotalAllocatedPhysicalPages
    level,        \* MmPhysicalMemoryWarningLevel
    allocCount,   \* MmPhysicalMemoryAllocationCount, modulo CountMask + 1
    freeCount,    \* MmPhysicalMemoryFreeCount, modulo CountMask + 1
    signal,       \* the step pulsed MmPhysicalMemoryWarningEvent
    sinceL1       \* history: level 1 was signalled and usage has not
                  \* since dropped below the level 1 low mark

vars == <<allocated, level, allocCount, freeCount, signal, sinceL1>>

\* The thresholds of MmpInitializePhysicalPageAllocator (percentages 97,
\* 95, 90 and 87 of the total).
L1High == (TotalPages * 97) \div 100
L1Low  == (TotalPages * 95) \div 100
L2High == (TotalPages * 90) \div 100
L2Low  == (TotalPages * 87) \div 100

\* RtlFindLastSet: the one-based index of the highest set bit, 0 for 0.
RECURSIVE FindLastSet(_)
FindLastSet(x) == IF x = 0 THEN 0 ELSE 1 + FindLastSet(x \div 2)

\* (1 << (RtlFindLastSet(total / 100) - 1)) - 1.  For fewer than 100 pages
\* the shift count is -1, which C leaves undefined; this module is used
\* with at least 100 pages.
CountMask == 2^(FindLastSet((TotalPages * 1) \div 100) - 1) - 1

\* The counter after an increment; only its low bits are ever read, and
\* CountMask + 1 is a power of two.
Bump(c) == (c + 1) % (CountMask + 1)

Levels == {"None", "L1", "L2"}

\* The check after a successful allocation of n pages (allocated already
\* includes them), "from highest page count to the lowest".
AllocLevel(lv, alloc, count, n) ==
    IF (count & CountMask) = 0 \/ n >= CountMask
    THEN IF lv # "L1" /\ alloc >= L1High THEN [lv |-> "L1", sig |-> TRUE]
         ELSE IF lv # "L2" /\ alloc >= L2High THEN [lv |-> "L2", sig |-> TRUE]
         ELSE [lv |-> lv, sig |-> FALSE]
    ELSE [lv |-> lv, sig |-> FALSE]

\* The check for one released page, at most one signal per free call.
FreeLevel(lv, alloc, count, sig) ==
    IF ~sig /\ (count & CountMask) = 0
    THEN IF lv = "L2" /\ alloc < L2Low THEN [lv |-> "None", sig |-> TRUE]
         ELSE IF lv = "L1" /\ alloc < L1Low THEN [lv |-> "L2", sig |-> TRUE]
         ELSE [lv |-> lv, sig |-> sig]
    ELSE [lv |-> lv, sig |-> sig]

\* The page loop of MmFreePhysicalPages over k released pages.
RECURSIVE FreeLoop(_, _, _, _, _)
FreeLoop(k, alloc, lv, count, sig) ==
    IF k = 0 THEN [alloc |-> alloc, lv |-> lv, count |-> count, sig |-> sig]
    ELSE LET c == Bump(count)
             r == FreeLevel(lv, alloc - 1, c, sig)
         IN FreeLoop(k - 1, alloc - 1, r.lv, c, r.sig)

Init ==
    /\ allocated = 0
    /\ level = "None"
    /\ allocCount = 0
    /\ freeCount = 0
    /\ signal = FALSE
    /\ sinceL1 = FALSE

Allocate(n) ==
    /\ allocated + n <= TotalPages
    /\ LET c == Bump(allocCount)
           r == AllocLevel(level, allocated + n, c, n)
       IN /\ allocated' = allocated + n
          /\ allocCount' = c
          /\ level' = r.lv
          /\ signal' = r.sig
          /\ sinceL1' = (sinceL1 \/ (r.sig /\ r.lv = "L1"))
    /\ UNCHANGED freeCount

Free(k) ==
    /\ k <= allocated
    /\ LET r == FreeLoop(k, allocated, level, freeCount, FALSE) IN
       /\ allocated' = r.alloc
       /\ freeCount' = r.count
       /\ level' = r.lv
       /\ signal' = r.sig
       /\ sinceL1' = (sinceL1 /\ r.alloc >= L1Low)
    /\ UNCHANGED allocCount

Next == \E n \in 1 .. MaxRun : Allocate(n) \/ Free(n)

Spec == Init /\ [][Next]_vars

TypeOK ==
    /\ allocated \in 0 .. TotalPages
    /\ level \in Levels
    /\ allocCount \in 0 .. CountMask /\ freeCount \in 0 .. CountMask
    /\ signal \in BOOLEAN /\ sinceL1 \in BOOLEAN

\* Specification, section 8, property 9: once the warning event has fired
\* for level 1, no later allocation fires it again until usage has fallen
\* below the level 1 low mark (MmpAllocatePhysicalPages, lines 1032-1046).
NoRefireAtLevel1 == [][sinceL1 /\ allocated' > allocated => ~signal']_vars
=============================================================================
