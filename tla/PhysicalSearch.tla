--------------------------- MODULE PhysicalSearch ---------------------------
(***************************************************************************)
(* The physical page search of src/kernel/mm/physical.c                    *)
(* (MmpFindPhysicalPages), as a pure operator over the frame database.     *)
(*                                                                         *)
(* Frames are page numbers.  Segments is the segment list in insertion     *)
(* order: Segments[i].start is StartAddress >> PageShift and               *)
(* Segments[i].size is (EndAddress - StartAddress) >> PageShift.  A frame  *)
(* database "db" is a record                                               *)
(*   db.page    : frame -> {"free", "nonpaged", "pageable"}                *)
(*   db.lock    : frame -> lock count of the frame's paging entry          *)
(*   db.segFree : segment index -> FreePages of the segment                *)
(* A cursor is [seg |-> segment index, off |-> offset in the segment]      *)
(* (MmLastAllocatedSegment/Offset or MmLastPagedSegment/Offset).           *)
(***************************************************************************)
EXTENDS Naturals, Sequences, FiniteSetsExt

CONSTANTS
    Segments,       \* sequence of [start, size], in list order
    IdentityFree    \* frames whose identical kernel VA is free in accounting

SegIndex == 1 .. Len(Segments)

Frames == UNION { Segments[s].start .. (Segments[s].start + Segments[s].size - 1) :
                    s \in SegIndex }

SearchTypes == {"Free", "Pagable", "Identity"}

\* ALIGN_RANGE_UP on page numbers.
AlignUp(x, a) == ((x + a - 1) \div a) * a

\* The next segment of the ring (the list head is skipped).
NextSeg(s) == IF s = Len(Segments) THEN 1 ELSE s + 1

\* The per-page test of the switch on SearchType, for page f of a span that
\* starts at page first: the identity-mappable case asks the kernel VA
\* accounting about VirtualAddress, which is computed from Offset, the start
\* of the span, for every page of it.
Matches(db, type, first, f) ==
    CASE type = "Free"     -> db.page[f] = "free"
      [] type = "Pagable"  -> db.page[f] = "pageable" /\ db.lock[f] = 0
      [] type = "Identity" -> db.page[f] = "free" /\ first \in IdentityFree

\* The SpanCount loop: consecutive matching pages from frame f, at most k.
RECURSIVE Span(_, _, _, _, _)
Span(db, type, first, f, k) ==
    IF k = 0 \/ ~Matches(db, type, first, f) THEN 0
    ELSE 1 + Span(db, type, first, f + 1, k - 1)

NotFound == [found |-> FALSE]

RECURSIVE Body(_, _, _, _, _, _, _, _, _), Again(_, _, _, _, _, _, _, _, _)

\* Variant of Body with an off-by-one in the end-of-segment test.
BodyEndOffByOne(db, type, n, a, last, firstOff, s, off, firstIt) ==
    LET size == Segments[s].size IN
    IF \/ off >= size
       \/ type # "Pagable" /\ off + n >= size
       \/ type = "Free" /\ db.segFree[s] < n
    THEN IF s = last /\ ~firstIt THEN NotFound
         ELSE LET ns == NextSeg(s)
                  st == Segments[ns].start
              IN Again(db, type, n, a, last, firstOff, ns, AlignUp(st, a) - st, FALSE)
    ELSE LET lim  == IF type = "Pagable" THEN Min({size - off, n}) ELSE n
             span == Span(db, type, Segments[s].start + off, Segments[s].start + off, lim)
         IN IF span = n \/ (span # 0 /\ type = "Pagable")
            THEN [found |-> TRUE, seg |-> s, off |-> off, span |-> span]
            ELSE Again(db, type, n, a, last, firstOff, s,
                       IF type = "Pagable" THEN off + 1 ELSE off + a, firstIt)

\* One pass of the do-while body at (s, off); Again is the loop condition
\* (reached by "continue" and by falling off the end of the body).
Body(db, type, n, a, last, firstOff, s, off, firstIt) ==
    LET size == Segments[s].size IN
    IF \/ off >= size
       \/ type # "Pagable" /\ off + n > size
       \/ type = "Free" /\ db.segFree[s] < n
    THEN IF s = last /\ ~firstIt THEN NotFound
         ELSE LET ns == NextSeg(s)
                  st == Segments[ns].start
              IN Again(db, type, n, a, last, firstOff, ns, AlignUp(st, a) - st, FALSE)
    ELSE LET lim  == IF type = "Pagable" THEN Min({size - off, n}) ELSE n
             span == Span(db, type, Segments[s].start + off, Segments[s].start + off, lim)
         IN IF span = n \/ (span # 0 /\ type = "Pagable")
            THEN [found |-> TRUE, seg |-> s, off |-> off, span |-> span]
            ELSE Again(db, type, n, a, last, firstOff, s,
                       IF type = "Pagable" THEN off + 1 ELSE off + a, firstIt)

Again(db, type, n, a, last, firstOff, s, off, firstIt) ==
    IF s = last /\ off = firstOff THEN NotFound
    ELSE Body(db, type, n, a, last, firstOff, s, off, firstIt)

\* Variant of FindPhysicalPages storing the cursor one page too far.
FindPhysicalPagesCursorPastRun(db, type, n, a, cur) ==
    LET st       == Segments[cur.seg].start
        firstOff == AlignUp(st + cur.off, a) - st
        r        == Body(db, type, n, a, cur.seg, firstOff, cur.seg, firstOff, TRUE)
    IN IF r.found
       THEN [found |-> TRUE, seg |-> r.seg, off |-> r.off, span |-> r.span,
             cursor |-> [seg |-> r.seg, off |-> r.off + r.span + 1]]
       ELSE r

\* MmpFindPhysicalPages(n, a, type) from cursor cur.  A found result also
\* carries the cursor the routine stores back (Offset + SpanCount).
FindPhysicalPages(db, type, n, a, cur) ==
    LET st       == Segments[cur.seg].start
        firstOff == AlignUp(st + cur.off, a) - st
        r        == Body(db, type, n, a, cur.seg, firstOff, cur.seg, firstOff, TRUE)
    IN IF r.found
       THEN [found |-> TRUE, seg |-> r.seg, off |-> r.off, span |-> r.span,
             cursor |-> [seg |-> r.seg, off |-> r.off + r.span]]
       ELSE r

\* The frames a found result selects.
Selected(r) == { Segments[r.seg].start + i : i \in r.off .. (r.off + r.span - 1) }

(***************************************************************************)
(* Reference definition: a run the search is asked for exists.             *)
(***************************************************************************)
\* What a search of each type is for (the specification, section 4.1):
\* free pages, pageable unlocked pages, and free pages whose identical
\* kernel virtual address is free.
Wanted(db, type, f) ==
    CASE type = "Free"     -> db.page[f] = "free"
      [] type = "Pagable"  -> db.page[f] = "pageable" /\ db.lock[f] = 0
      [] type = "Identity" -> db.page[f] = "free" /\ f \in IdentityFree

RunOK(db, type, n, a, s, off, len) ==
    /\ off + len <= Segments[s].size
    /\ (type # "Pagable" => (Segments[s].start + off) % a = 0)
    /\ \A i \in 0 .. (len - 1) : Wanted(db, type, Segments[s].start + off + i)

ExistsRun(db, type, n, a) ==
    \E s \in SegIndex : \E off \in 0 .. (Segments[s].size - 1) :
        RunOK(db, type, n, a, s, off, IF type = "Pagable" THEN 1 ELSE n)
=============================================================================
