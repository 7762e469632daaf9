-------------------------- MODULE MCPhysicalSearch --------------------------
(***************************************************************************)
(* Checks MmpFindPhysicalPages against its reference definition.  The     *)
(* frame database changes arbitrarily between searches (every record      *)
(* combination is one the allocator, the pager and the owners of pages    *)
(* can leave behind), and each search moves its cursor the way the        *)
(* routine does: allocation searches share MmLastAllocatedSegment, the    *)
(* pageable search uses MmLastPagedSegment.                               *)
(***************************************************************************)
EXTENDS Naturals, Sequences, FiniteSets, PhysicalSearch

CONSTANTS MaxCount, Alignments

VARIABLES page, lock, allocCursor, pagedCursor

vars == <<page, lock, allocCursor, pagedCursor>>

\* FreePages of each segment, kept exact by the allocator's lock discipline.
SegFree(pg) ==
    [s \in SegIndex |->
        Cardinality({f \in Frames : pg[f] = "free"
                        /\ f >= Segments[s].start
                        /\ f < Segments[s].start + Segments[s].size})]

DB == [page |-> page, lock |-> lock, segFree |-> SegFree(page)]

CursorOf(type) == IF type = "Pagable" THEN pagedCursor ELSE allocCursor

Cursors == UNION { { [seg |-> s, off |-> o] : o \in 0 .. Segments[s].size } : s \in SegIndex }

TypeOK ==
    /\ page \in [Frames -> {"free", "nonpaged", "pageable"}]
    /\ lock \in [Frames -> 0 .. 1]
    /\ allocCursor \in Cursors
    /\ pagedCursor \in Cursors

Init ==
    /\ page \in [Frames -> {"free", "nonpaged"}]
    /\ lock = [f \in Frames |-> 0]
    /\ allocCursor = [seg |-> 1, off |-> 0]
    /\ pagedCursor = [seg |-> 1, off |-> 0]

\* Some other operation changes one frame record.
ChangeFrame(f) ==
    \E v \in {"free", "nonpaged", "pageable"}, l \in 0 .. 1 :
        /\ page' = [page EXCEPT ![f] = v]
        /\ lock' = [lock EXCEPT ![f] = IF v = "pageable" THEN l ELSE 0]
        /\ UNCHANGED <<allocCursor, pagedCursor>>

\* A search that succeeds moves its own cursor past the selection.
Search(type, n, a) ==
    LET r == FindPhysicalPages(DB, type, n, a, CursorOf(type)) IN
    /\ r.found
    /\ IF type = "Pagable" THEN pagedCursor' = r.cursor /\ UNCHANGED allocCursor
                           ELSE allocCursor' = r.cursor /\ UNCHANGED pagedCursor
    /\ UNCHANGED <<page, lock>>

\* The requests the code makes: allocations of any size and alignment; the
\* pager (MmpPageOutPhysicalPages) always asks for one page, alignment 1.
Requests ==
    { r \in SearchTypes \X (1 .. MaxCount) \X Alignments :
        r[1] = "Pagable" => r[2] = 1 /\ r[3] = 1 }

Next ==
    \/ \E f \in Frames : ChangeFrame(f)
    \/ \E r \in Requests : Search(r[1], r[2], r[3])

Spec == Init /\ [][Next]_vars

\* Two segments with a gap between them, the first starting at an odd page
\* so that alignment moves the start of a search.
MCSegments == << [start |-> 1, size |-> 3], [start |-> 6, size |-> 3] >>

\* The search answered request q correctly: a found run is inside one
\* segment, aligned in physical page numbers, of the requested length (or
\* 1..n pageable pages) and made of wanted pages; NULL only when no such run
\* exists anywhere in the ring of segments.
Correct(q) ==
    LET type == q[1]
        n    == q[2]
        a    == q[3]
        r    == FindPhysicalPages(DB, type, n, a, CursorOf(type))
    IN
    /\ r.found => /\ r.span \in 1 .. n
                  /\ type # "Pagable" => r.span = n
                  /\ RunOK(DB, type, n, a, r.seg, r.off, r.span)
    /\ ~r.found => ~ExistsRun(DB, type, n, a)

(***************************************************************************)
(* MmpFindPhysicalPages, from whatever cursor earlier searches left behind *)
(* (including one past the end of a segment), answers every free and      *)
(* pageable search, and every one-page identity-mappable search, correctly.*)
(***************************************************************************)
SearchCorrect ==
    \A q \in Requests : q[1] # "Identity" \/ q[2] = 1 => Correct(q)

\* MmpAllocateIdentityMappablePhysicalPages: a run the identity-mappable
\* search returns has a free kernel virtual address for each of its pages
\* (the specification, section 4.1, allocate_identity_mappable).
IdentitySearchCorrect ==
    \A q \in Requests : q[1] = "Identity" => Correct(q)
=============================================================================
