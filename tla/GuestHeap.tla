------------------------------ MODULE GuestHeap ------------------------------
(***************************************************************************)
(* A heap of guest virtual memory (BaseHeap of memory.cc): a page table in *)
(* which each reserved page names the region it was reserved with.  Every  *)
(* call is one critical section.  A request without an address is searched *)
(* for from either end, in steps of the alignment, skipping what is known  *)
(* to be taken; the upper part of the heap is kept for stacks.  A request  *)
(* with an address may take pages that others have, and may pass the end.  *)
(***************************************************************************)
EXTENDS Integers, FiniteSets, FiniteSetsExt

CONSTANTS
  PageCount,    \* the size of the page table
  AllocEnd,     \* the page at which the search of Alloc ends
  SystemPage,   \* the page at which that of AllocSystemHeap begins
  Strides,      \* the alignments of requests, in pages: powers of two that divide
                \* both, small next to what is searched
  MaxTakeovers  \* bound on the fixed requests that take what is not theirs

\* The pages at which the searches end and begin are round ones in the address space.
ASSUME HeapAssumption ==
  /\ PageCount \in Nat /\ AllocEnd \in 1 .. PageCount - 1 /\ SystemPage \in 1 .. PageCount - 1
  /\ Strides \subseteq Nat \ {0} /\ MaxTakeovers \in Nat
  /\ \A stride \in Strides : AllocEnd % stride = 0 /\ SystemPage % stride = 0

VARIABLES
  page_table_,             \* page_table_[p]: [base, count, state]
  unreserved_page_count_,
  torn,                    \* history: the pages of regions that overlap, or did
  takeovers                \* the fixed requests so far that tore one

heapVars == <<page_table_, unreserved_page_count_, torn, takeovers>>

Pages == 0 .. PageCount - 1
FreePage == [base |-> 0, count |-> 0, state |-> "free"]

(* Memory::Initialize takes the start of the heap at address zero.          *)
HeapInit ==
  /\ page_table_ = [p \in Pages |->
       IF p = 0 THEN [base |-> 0, count |-> 1, state |-> "committed"] ELSE FreePage]
  /\ unreserved_page_count_ = PageCount - 1
  /\ torn = {} /\ takeovers = 0

IsFree(p) == page_table_[p].state = "free"
Span(base, count) == base .. base + count - 1

-----------------------------------------------------------------------------
(* The search of AllocRange.                                                *)

AlignDown(n, stride) == n - (n % stride)
RoundUp(n, stride) == AlignDown(n + stride - 1, stride)

NotFound == -1

FirstTaken(base, count) == Min({p \in Span(base, count) : ~IsFree(p)})
AllFree(base, count) == \A p \in Span(base, count) : IsFree(p)

\* Mutant: the search goes on at a page that is not aligned.
PageBelow(taken, count, stride) == taken - count

\* The last aligned page from which count pages end before one that is taken.
BaseBelow(taken, count, stride) == AlignDown(taken - count, stride)

TopDown(low, high, count, stride) ==
  LET from[base \in -PageCount .. high] ==
        IF base < low THEN NotFound
        ELSE IF ~IsFree(base) THEN from[base - stride]
        ELSE IF AllFree(base, count) THEN base
        ELSE LET taken == FirstTaken(base, count) IN
               IF count > taken THEN NotFound ELSE from[BaseBelow(taken, count, stride)]
  IN from[high - RoundUp(count, stride)]

BottomUp(low, high, count, stride) ==
  LET from[base \in low .. high + 2 * stride] ==
        IF base > high - count THEN NotFound
        ELSE IF ~IsFree(base) THEN from[base + stride]
        ELSE IF AllFree(base, count) THEN base
        ELSE from[RoundUp(FirstTaken(base, count) + 1, stride)]
  IN from[low]

Search(range, count, stride, topDown) ==
  LET low == RoundUp(range[1], stride)
      high == AlignDown(range[2], stride)
  IN IF count > range[2] - low THEN NotFound
     ELSE IF topDown THEN TopDown(low, high, count, stride)
     ELSE BottomUp(low, high, count, stride)

(* What Alloc, and what AllocSystemHeap, search.                            *)
Ranges == {<<0, AllocEnd>>, <<SystemPage, PageCount - 1>>}

-----------------------------------------------------------------------------
RegionOf(p) == Span(page_table_[p].base, page_table_[p].count)

\* A reservation of pages that are taken, or beyond the table, tears the regions it
\* meets; what is put where these were may be torn with them.
TakesOver(pages) == ~(pages \subseteq Pages) \/ \E p \in pages : ~IsFree(p)

TornBy(pages) ==
  (pages \intersect Pages) \union
  UNION {RegionOf(p) \intersect Pages : p \in {q \in pages \intersect Pages : ~IsFree(q)}}

\* Of the pages, unreserved were not reserved.
Reserve(base, count, state, unreserved) ==
  LET pages == Span(base, count) IN
    /\ IF TakesOver(pages) THEN takeovers < MaxTakeovers /\ takeovers' = takeovers + 1
       ELSE UNCHANGED takeovers
    /\ page_table_' = [p \in Pages |->
         IF p \in pages THEN [base |-> base, count |-> count, state |-> state]
         ELSE page_table_[p]]
    /\ unreserved_page_count_' = unreserved_page_count_ - unreserved
    /\ torn' = IF TakesOver(pages) \/ pages \intersect torn # {} THEN torn \union TornBy(pages)
               ELSE torn

(* Alloc, AllocSystemHeap.                                                  *)
AllocRange ==
  \E count \in 1 .. PageCount :
    LET found == {Search(range, count, stride, topDown) :
                    range \in Ranges, stride \in Strides, topDown \in BOOLEAN}
    IN \E base \in found \ {NotFound}, state \in {"reserved", "committed"} :
         Reserve(base, count, state, count)

\* AllocFixed accepts a request that passes the end of the table by a page; whether
\* the word after the table reads as a reserved page is open, so there are two
\* sets of pages that may be found not to be reserved.
Accepted(base, count) == base + count - 1 <= PageCount

Unreserved(base, count) ==
  LET free == {p \in Span(base, count) \intersect Pages : IsFree(p)}
  IN {free, free \union (Span(base, count) \ Pages)}

(* AllocFixed, to reserve, and perhaps to commit at once, or to commit what *)
(* is partly not reserved.  Only a plain reservation is refused if some     *)
(* page is reserved.                                                        *)
AllocFixedReserve ==
  \E base \in Pages, count \in 1 .. PageCount, state \in {"reserved", "committed"} :
    /\ Accepted(base, count)
    /\ \E unreserved \in Unreserved(base, count) :
         /\ state = "reserved" => unreserved = Span(base, count)
         /\ Reserve(base, count, state, Cardinality(unreserved))

(* AllocFixed, to commit pages that are reserved.                           *)
AllocFixedCommit ==
  \E base \in Pages, count \in 1 .. PageCount :
    /\ Accepted(base, count)
    /\ {} \in Unreserved(base, count)
    /\ page_table_' = [p \in Pages |->
         IF p \in Span(base, count) THEN [page_table_[p] EXCEPT !.state = "committed"]
         ELSE page_table_[p]]
    /\ UNCHANGED <<unreserved_page_count_, torn, takeovers>>

(* Decommit: what passes the end is cut off.                                *)
Decommit ==
  \E base \in Pages : \E count \in 1 .. PageCount - base :
    /\ page_table_' = [p \in Pages |->
         IF p \in Span(base, count) /\ ~IsFree(p)
         THEN [page_table_[p] EXCEPT !.state = "reserved"] ELSE page_table_[p]]
    /\ UNCHANGED <<unreserved_page_count_, torn, takeovers>>

\* Mutant: one page too many.
OnePageMore(base) == Span(base, page_table_[base].count + 1)

\* What Release frees: the region, of the size its first page has.
Region(base) == Span(base, page_table_[base].count)

(* Release: only of the first page of a region, and not of page 0.          *)
ReleaseRegion ==
  \E base \in Pages :
    /\ page_table_[base].base = base /\ base # 0
    /\ page_table_' = [p \in Pages |-> IF p \in Region(base) THEN FreePage ELSE page_table_[p]]
    /\ unreserved_page_count_' = unreserved_page_count_ + Cardinality(Region(base))
    /\ UNCHANGED <<torn, takeovers>>

HeapNext == AllocRange \/ AllocFixedReserve \/ AllocFixedCommit \/ Decommit \/ ReleaseRegion

HeapSpec == HeapInit /\ [][HeapNext]_heapVars

-----------------------------------------------------------------------------
(* Properties. *)

\* A fixed request that takes pages of others, or passes the end, damages the
\* regions it meets, and at most what is put there later; every other reserved page
\* belongs to one whole region: all its pages are reserved and name the same base
\* and size, so that releasing one never frees a page of another.  Without such a
\* request the count of unreserved pages is exact.
RegionsAreWhole ==
  /\ \A p \in Pages \ torn : ~IsFree(p) =>
       /\ p \in RegionOf(p) /\ RegionOf(p) \subseteq Pages \ torn
       /\ \A q \in RegionOf(p) : /\ ~IsFree(q)
                                 /\ page_table_[q].base = page_table_[p].base
                                 /\ page_table_[q].count = page_table_[p].count
  /\ torn = {} => unreserved_page_count_ = Cardinality({p \in Pages : IsFree(p)})

\* What fits: the aligned places at which all pages are free, in the range as it is
\* searched: up to the last aligned page of it.
Fits(range, count, stride) ==
  {b \in Pages : /\ b >= range[1] /\ b % stride = 0
                 /\ b + count <= AlignDown(range[2], stride)
                 /\ AllFree(b, count)}

\* However it skips, the search finds the highest or the lowest place that fits
\* in what is searched, and fails only if there is none.
FirstFit ==
  \A range \in Ranges, count \in 1 .. PageCount, stride \in Strides :
    LET fits == Fits(range, count, stride) IN
      /\ Search(range, count, stride, TRUE) = IF fits = {} THEN NotFound ELSE Max(fits)
      /\ Search(range, count, stride, FALSE) = IF fits = {} THEN NotFound ELSE Min(fits)

=============================================================================
