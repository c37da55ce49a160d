----------------------------- MODULE GapReport ------------------------------
(***************************************************************************)
(* What /api/health says about completeness: the summary of the recorded   *)
(* gaps (apps/explorer/lib/index-gaps.ts) over what skips, quarantines,    *)
(* rollbacks and the healer make of the table index_gaps, between a        *)
(* retention floor that rises and the height where recording began.        *)
(*                                                                         *)
(* The indexer is here in large steps; Indexer and GapHealer have the      *)
(* small ones.  A retention run that could not publish its cutoff is left  *)
(* out (see Retention), as is the transfer side of a block.                *)
(***************************************************************************)
EXTENDS Integers, FiniteSets, FiniteSetsExt, Functions

CONSTANTS
    MaxTop,         \* bound: the highest height
    Cutoffs,        \* cutoffs of the retention runs
    MaxRewinds      \* bound: rollbacks and rewinds of the cursor

ASSUME GapReportAssumption == MaxTop \in Nat \ {0} /\ MaxRewinds \in Nat /\ Cutoffs \subseteq 1..MaxTop

Span == 1..MaxTop
Null == 0

VARIABLES
    cursorAt,       \* lastIndexed
    rowsOf,         \* heights in blocks
    gapTo,          \* from_block -> to_block of its row in index_gaps, or Null
    healedGaps,     \* from_block of the rows with healed_at
    poisoned,       \* heights in poison_blocks
    tracked,        \* gap_tracking_from_block
    cutoffAt,       \* compact_cutoff_block
    dropped,        \* history: heights under the cursor an unwind deleted
    rewinds

grVars == <<cursorAt, rowsOf, gapTo, healedGaps, poisoned, tracked, cutoffAt, dropped, rewinds>>

GapReportInit ==
    /\ cursorAt = 0 /\ rowsOf = {}
    /\ gapTo = [b \in Span |-> Null] /\ healedGaps = {} /\ poisoned = {}
    /\ tracked = Null /\ cutoffAt = Null
    /\ dropped = {} /\ rewinds = 0

Later(x, y) == Max({x, y})

-----------------------------------------------------------------------------
(* The indexer. *)

StoreNext ==
    /\ cursorAt < MaxTop
    /\ cursorAt' = cursorAt + 1
    /\ rowsOf' = rowsOf \cup {cursorAt + 1}
    /\ UNCHANGED <<gapTo, healedGaps, poisoned, tracked, cutoffAt, dropped, rewinds>>

\* ON CONFLICT (from_block): the row grows and counts as missing again.
recordHealed(from, to) ==  \* Wrong on purpose: healed_at stays.
    /\ gapTo' = [gapTo EXCEPT ![from] = Later(@, to)]
    /\ UNCHANGED healedGaps
recordIndexGap(from, to) ==
    /\ gapTo' = [gapTo EXCEPT ![from] = Later(@, to)]
    /\ healedGaps' = healedGaps \ {from}

\* MAX_LAG: recorded, then stepped over; a death in between is a rewind.  It
\* spans more than MAX_LAG - 200 heights, so never a single one.
SkipLag(to) ==
    /\ to > cursorAt + 1
    /\ recordIndexGap(cursorAt + 1, to)
    /\ cursorAt' = to
    /\ UNCHANGED <<rowsOf, poisoned, tracked, cutoffAt, dropped, rewinds>>

\* recordPoisonGapIfAbsent: one height that has no row.
QuarantineNext ==
    /\ cursorAt < MaxTop /\ cursorAt + 1 \notin rowsOf
    /\ recordIndexGap(cursorAt + 1, cursorAt + 1)
    /\ poisoned' = poisoned \cup {cursorAt + 1}
    /\ cursorAt' = cursorAt + 1
    /\ UNCHANGED <<rowsOf, tracked, cutoffAt, dropped, rewinds>>

\* A reorg deletes above the fork; a restart only rewinds.
RewindTo(fork, lost) ==
    /\ fork < cursorAt /\ rewinds < MaxRewinds
    /\ cursorAt' = fork
    /\ rowsOf' = rowsOf \ lost /\ poisoned' = poisoned \ lost
    /\ dropped' = {h \in dropped : h <= fork}
    /\ rewinds' = rewinds + 1
    /\ UNCHANGED <<gapTo, healedGaps, tracked, cutoffAt>>

\* The deletes of a reorg commit and the answer of the last one is lost: the
\* cursor stays above the fork, and nothing records the heights.
UnwindAnswerLost(fork) ==
    /\ fork < cursorAt /\ rewinds < MaxRewinds
    /\ rowsOf' = {h \in rowsOf : h <= fork} /\ poisoned' = {h \in poisoned : h <= fork}
    /\ dropped' = dropped \cup {h \in rowsOf : fork < h /\ h <= cursorAt}
    /\ rewinds' = rewinds + 1
    /\ UNCHANGED <<cursorAt, gapTo, healedGaps, tracked, cutoffAt>>

\* The healer works upwards, where MAX(number) is beyond the range, above the
\* floor and past quarantined heights, which no stamp forgives.
Missing(b) == {h \in b .. gapTo[b] : h \notin rowsOf /\ h >= cutoffAt}
Healable(b) ==
    /\ gapTo[b] >= cutoffAt /\ gapTo[b] # Null /\ b \notin healedGaps
    /\ rowsOf # {} /\ gapTo[b] < Max(rowsOf)

HealHeight(b) ==
    /\ Healable(b) /\ Missing(b) \ poisoned # {}
    /\ LET hole == Min(Missing(b) \ poisoned) IN
          rowsOf' = rowsOf \cup {hole} /\ dropped' = dropped \ {hole}
    /\ UNCHANGED <<cursorAt, gapTo, healedGaps, poisoned, tracked, cutoffAt, rewinds>>

StampHealed(b) ==
    /\ Healable(b) /\ Missing(b) = {}
    /\ healedGaps' = healedGaps \cup {b}
    /\ UNCHANGED <<cursorAt, rowsOf, gapTo, poisoned, tracked, cutoffAt, dropped, rewinds>>

\* Retention publishes its cutoff and deletes; nothing here looks below it.
PublishFloor(c) ==
    /\ c \in Cutoffs /\ c > cutoffAt /\ c <= cursorAt
    /\ cutoffAt' = c
    /\ rowsOf' = rowsOf \ (1 .. c - 1)
    /\ UNCHANGED <<cursorAt, gapTo, healedGaps, poisoned, tracked, dropped, rewinds>>

\* The operator's UPDATE, once, when the first recorder runs.
SeedTracking ==
    /\ tracked = Null /\ rowsOf # {}
    /\ tracked' = Max(rowsOf)
    /\ UNCHANGED <<cursorAt, rowsOf, gapTo, healedGaps, poisoned, cutoffAt, dropped, rewinds>>

GapReportNext ==
    \/ StoreNext \/ QuarantineNext \/ SeedTracking
    \/ \E h \in Span : SkipLag(h) \/ PublishFloor(h) \/ HealHeight(h) \/ StampHealed(h)
    \/ \E f \in 0..MaxTop :
          RewindTo(f, {}) \/ RewindTo(f, {h \in Span : h > f}) \/ UnwindAnswerLost(f)

GapReportSpec == GapReportInit /\ [][GapReportNext]_grVars

-----------------------------------------------------------------------------
(* GAP_SUMMARY_SQL, subquery by subquery. *)

clamped == {[from |-> Later(b, cutoffAt), to |-> gapTo[b], key |-> b] :
               b \in {c \in Span \ healedGaps : gapTo[c] # Null /\ gapTo[c] >= cutoffAt}}

\* ORDER BY from_block, to_block; equal rows in some order.
Precedes(q, r) ==
    \/ q.from < r.from
    \/ q.from = r.from /\ q.to < r.to
    \/ q.from = r.from /\ q.to = r.to /\ q.key < r.key
UpTo(r) == {q \in clamped : q = r \/ Precedes(q, r)}

\* The greatest end before a row; a row beyond it opens a group.
lagEnd(before) ==  \* Wrong on purpose: LAG(to_block), not the running MAX.
    (CHOOSE q \in before : \A p \in before : p = q \/ Precedes(p, q)).to
prevMax(before) == Max({q.to : q \in before})

Opens(r) == LET before == UpTo(r) \ {r}
            IN  before = {} \/ r.from > prevMax(before) + 1
marked(r) == Cardinality({q \in UpTo(r) : Opens(q)})
group(g) == {r \in clamped : marked(r) = g}
joined(g) == [from |-> Min({r.from : r \in group(g)}), to |-> Max({r.to : r \in group(g)})]
merged == {joined(marked(r)) : r \in clamped}

gapCount == Cardinality(merged)
missingBlocks == SumFunction([m \in merged |-> m.to - m.from + 1])
oldestFrom == IF merged = {} THEN Null ELSE Min({m.from : m \in merged})
trackedFromBlock == IF tracked = Null THEN Null ELSE Later(tracked, cutoffAt)

completenessStatus ==
    IF gapCount > 0 THEN "degraded"
    ELSE IF trackedFromBlock = Null THEN "unverified" ELSE "ok"

-----------------------------------------------------------------------------
(* Properties. *)

GapReportTypeOK ==
    /\ cursorAt \in 0..MaxTop /\ rowsOf \subseteq Span
    /\ gapTo \in [Span -> 0..MaxTop] /\ \A b \in Span : gapTo[b] = Null \/ b <= gapTo[b]
    /\ healedGaps \subseteq {b \in Span : gapTo[b] # Null}
    /\ poisoned \subseteq Span
    /\ tracked \in 0..MaxTop /\ cutoffAt \in 0..MaxTop
    /\ dropped \subseteq Span /\ rewinds \in Nat

(***************************************************************************)
(* What the health endpoint reports is exact (index-gaps.ts:103-168): in   *)
(* every table that skips after rollbacks can leave, with ranges that      *)
(* overlap, touch, nest or are cut by the floor, the merged rows are the   *)
(* maximal runs of the heights some open range holds.                      *)
(***************************************************************************)
Reported == {h \in Span : h >= cutoffAt
                          /\ \E b \in Span \ healedGaps : gapTo[b] # Null /\ h \in b .. gapTo[b]}
ReportExact ==
    /\ gapCount = Cardinality({h \in Reported : h - 1 \notin Reported})
    /\ missingBlocks = Cardinality(Reported)
    /\ oldestFrom = IF Reported = {} THEN Null ELSE Min(Reported)

(***************************************************************************)
(* A green report is true (index-gaps.ts:30-33, 88-101): ok means that     *)
(* every height from trackedFromBlock to the cursor has its row, through   *)
(* skips, rollbacks, ranges abandoned again after they were healed, and a  *)
(* floor that rises over open ranges.  It is not of the heights an unwind  *)
(* deleted without hearing so (TailReprocessed of module Indexer), which   *)
(* nothing records and the loop believes it has, until one is stored       *)
(* again.                                                                  *)
(***************************************************************************)
GreenIsTrue ==
    completenessStatus = "ok" => trackedFromBlock .. cursorAt \subseteq rowsOf \cup dropped
=============================================================================
