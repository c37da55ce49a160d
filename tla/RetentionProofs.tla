--------------------------- MODULE RetentionProofs ----------------------------
(***************************************************************************)
(* Theorems about what retention takes and what the health report says of  *)
(* the rest (Retention, GapReport), for every value of the constants.      *)
(***************************************************************************)
EXTENDS Retention, GapReport, SumProofs

(***************************************************************************)
(* The least and the greatest element of a bounded set of naturals.        *)
(***************************************************************************)
LEMMA LeastOf ==
    ASSUME NEW S \in SUBSET Nat, S # {}
    PROVE  Min(S) \in S /\ \A m \in S : Min(S) <= m
<1> DEFINE Less == {pair \in Nat \X Nat : pair[1] < pair[2]}
<1>1. IsWellFoundedOn(Less, Nat)
    BY NatLessThanWellFounded DEF OpToRel
<1>2. \A x, y \in Nat : x < y => <<x, y>> \in Less
    OBVIOUS
<1> HIDE DEF Less
<1>3. PICK n \in S : \A m \in S : <<m, n>> \notin Less
    BY <1>1, WFMin
<1>4. \A m \in S : m \in Nat /\ n \in Nat /\ ~(m < n)
    BY <1>2, <1>3
<1>5. \A m \in S : n <= m
    BY <1>4
<1> QED
    BY <1>5 DEF Min

\* The Max of a bounded set of heights, which the model states with CHOOSE.
LEMMA GreatestOf ==
    ASSUME NEW top \in Nat, NEW S \in SUBSET (0..top), S # {}
    PROVE  Max(S) \in S /\ \A m \in S : m <= Max(S)
<1> DEFINE Below == {top - m : m \in S}
<1>1. \A m \in S : m \in Nat /\ top - m \in Nat
    OBVIOUS
<1>2. Below \in SUBSET Nat /\ Below # {}
    BY <1>1
<1>3. Min(Below) \in Below /\ \A b \in Below : Min(Below) <= b
    <2> HIDE DEF Below
    <2> QED
        BY <1>2, LeastOf
<1>4. PICK n \in S : Min(Below) = top - n
    BY <1>3
<1>5. ASSUME NEW m \in S PROVE n >= m
    <2>1. top - m \in Below
        OBVIOUS
    <2>2. top - n <= top - m
        BY <1>3, <1>4, <2>1
    <2> QED
        BY <1>1, <2>2
<1>6. Max(S) \in S /\ \A m \in S : Max(S) >= m
    BY <1>5 DEF Max
<1> QED
    BY <1>1, <1>6

-----------------------------------------------------------------------------
(* Retention: the inductive invariant. *)

Runs == [at : {"idle", "bodies", "cutoff", "publish", "sweep", "partitions",
               "transactions", "blocks", "forward", "decide"},
         body : Nat, compact : Nat, override : BOOLEAN, cut : 0..Horizon,
         peak : {"low", "alarm", "act"}]

\* The partitions end somewhere, so that there is a last one.
LadderEnds == \E last \in Nat : ladder \subseteq 0..last

\* What is stored was indexed; transfers are those of blocks that are there or
\* were taken by retention; no window is shorter than the floor.
HeightsKnown ==
    /\ indexed <= tip
    /\ \A n \in stored : n <= indexed
    /\ transfers \cup unwritten \subseteq stored \cup erased
    /\ run.compact >= MinWindow

Cutting == {"publish", "sweep", "partitions", "transactions", "blocks"}

\* The cutoff of a run stands at a stored block, and every stored block below
\* it is older than the shortest window.
CutSpares(cut) == cut <= indexed /\ \A n \in stored : n < cut => n < tip - MinWindow
CutKnown == run.at \in Cutting => CutSpares(run.cut)

\* Nothing is deleted before the cutoff is published.
Announced ==
    run.at \in Cutting \ {"publish"} => hidden \/ run.cut <= published

\* The sweep goes before the transactions.
Swept ==
    losses = 0 /\ run.at \in {"partitions", "transactions"} => \A n \in bodies : n >= run.cut

RetentionInv ==
    /\ RetentionTypeOK
    /\ LadderEnds /\ HeightsKnown /\ CutKnown /\ Announced /\ Swept
    /\ NoOrphans /\ FloorTruthful /\ RecentRowsKept

\* The types, one by one.
Sizes ==
    /\ Horizon \in Nat \ {0} /\ tip \in 1..Horizon /\ indexed \in 1..Horizon
    /\ published \in 0..Horizon /\ hidden \in BOOLEAN /\ losses \in Nat
    /\ run \in Runs
Tables ==
    /\ stored \subseteq 1..Horizon /\ txHeights \subseteq 1..Horizon /\ bodies \subseteq 1..Horizon
    /\ transfers \subseteq 1..Horizon /\ unwritten \subseteq 1..Horizon
    /\ erased \subseteq 1..Horizon
    /\ ladder \subseteq Nat

\* The type invariant by parts.
LEMMA TypeParts ==
    /\ RetentionTypeOK <=> Sizes /\ Tables
    /\ RetentionTypeOK' <=> Sizes' /\ Tables'
    BY RetentionAssumption DEF RetentionTypeOK, Sizes, Tables, Runs

(***************************************************************************)
(* cutoffBlockNumber returns 0 or a stored height, and whatever is stored  *)
(* below it is older than the window.                                      *)
(***************************************************************************)
LEMMA CutoffSpares ==
    ASSUME Sizes, Tables, HeightsKnown, NEW window \in Nat
    PROVE  /\ cutoffBlockNumber(window) \in 0..Horizon
           /\ window >= MinWindow => CutSpares(cutoffBlockNumber(window))
<1> DEFINE recent(end) == {n \in stored : n >= end - window}
           kept == IF recent(tip) # {} THEN recent(tip) ELSE recent(Max(stored))
<1>0. /\ stored \in SUBSET Nat /\ tip \in Nat /\ indexed \in Nat /\ MinWindow = 1
      /\ \A n \in stored : n \in Nat /\ n <= indexed /\ n <= Horizon
    BY DEF Sizes, Tables, HeightsKnown, MinWindow
<1>1. CASE stored = {}
    <2>1. cutoffBlockNumber(window) = 0
        BY <1>1 DEF cutoffBlockNumber
    <2> QED
        BY <1>0, <1>1, <2>1 DEF CutSpares, Sizes
<1>2. CASE stored # {}
    <2>1. cutoffBlockNumber(window) = Min(kept)
        BY <1>2 DEF cutoffBlockNumber
    <2>2. PICK top \in stored : top = Max(stored) /\ \A n \in stored : n <= top
        <3>1. indexed \in Nat /\ stored \in SUBSET (0..indexed)
            BY <1>0
        <3> QED
            BY <1>2, <3>1, GreatestOf
    <2>3. kept \in SUBSET Nat /\ kept \subseteq stored /\ kept # {}
        <3>1. top >= top - window
            BY <1>0
        <3>2. top \in recent(top)
            BY <3>1
        <3> QED
            BY <1>0, <2>2, <3>2
    <2>4. PICK cut \in kept : cut = Min(kept) /\ \A m \in kept : cut <= m
        <3> HIDE DEF kept
        <3> QED
            BY <2>3, LeastOf
    <2>5. cut \in stored /\ cut \in Nat
        BY <1>0, <2>3
    <2>6. ASSUME NEW n \in stored, n < cut PROVE n < tip - window
        <3>1. n \in Nat /\ ~(cut <= n)
            BY <1>0, <2>5, <2>6
        <3>2. n \notin kept
            BY <2>4, <3>1
        <3>3. CASE recent(tip) # {}
            BY <1>0, <3>1, <3>2, <3>3
        <3>4. CASE recent(tip) = {}
            BY <1>0, <3>1, <3>4
        <3> QED
            BY <3>3, <3>4
    <2> HIDE DEF kept
    <2>7. window >= MinWindow => \A n \in stored : n < cut => n < tip - MinWindow
        BY <1>0, <2>6
    <2> QED
        BY <1>0, <2>1, <2>4, <2>5, <2>7 DEF CutSpares, Sizes
<1> QED
    BY <1>1, <1>2

(***************************************************************************)
(* A batched deletion leaves everything above its cutoff, and without a    *)
(* failure nothing below.                                                  *)
(***************************************************************************)
LEMMA DeletesMoves ==
    ASSUME NEW S, NEW cut, NEW left, losses \in Nat, Deletes(S, cut, left)
    PROVE  /\ left \subseteq S /\ losses' \in Nat /\ (losses' = 0 => losses = 0)
           /\ \A n \in S : n >= cut => n \in left
           /\ losses' = 0 => \A n \in left : n >= cut
<1>1. CASE left = Younger(S, cut) /\ UNCHANGED losses
    BY <1>1 DEF Younger
<1>2. CASE Younger(S, cut) \subseteq left /\ left \subseteq S /\ Loss
    BY <1>2 DEF Younger, Loss
<1> QED
    BY <1>1, <1>2 DEF Deletes

-----------------------------------------------------------------------------
(* The steps. *)

\* The indexer's steps: the run stays, rows are added and time passes.
LEMMA IndexerKeeps ==
    ASSUME RetentionInv, Mine \/ IndexBlock \/ SkipAhead \/ WriteTransfers
    PROVE  RetentionInv'
<1>0. /\ Sizes /\ Tables /\ LadderEnds /\ HeightsKnown /\ CutKnown /\ Announced /\ Swept
      /\ NoOrphans /\ FloorTruthful /\ RecentRowsKept
    BY TypeParts DEF RetentionInv
<1>1. /\ tip \in Nat /\ indexed \in Nat /\ run.cut \in Nat /\ MinWindow = 1
      /\ Horizon \in Nat /\ LagLimit \in Nat /\ Margin \in Nat /\ Margin <= LagLimit
      /\ \A n \in stored \cup erased \cup unwritten : n \in Nat
    BY <1>0, RetentionAssumption DEF Sizes, Tables, Runs, MinWindow
<1>2. UNCHANGED <<ladder, published, hidden, erased, run, losses>>
    BY DEF Mine, IndexBlock, SkipAhead, WriteTransfers
<1>3. tip' \in 1..Horizon /\ indexed' \in 1..Horizon /\ tip' >= tip /\ indexed' >= indexed
      /\ indexed' <= tip'
    <2>1. CASE Mine
        BY <1>0, <1>1, <2>1 DEF Mine, Sizes, HeightsKnown
    <2>2. CASE IndexBlock
        BY <1>0, <1>1, <2>2 DEF IndexBlock, Sizes, HeightsKnown
    <2>3. CASE SkipAhead
        BY <1>0, <1>1, <2>3 DEF SkipAhead, Sizes, HeightsKnown
    <2>4. CASE WriteTransfers
        BY <1>0, <1>1, <2>4 DEF WriteTransfers, Sizes, HeightsKnown
    <2> QED
        BY <2>1, <2>2, <2>3, <2>4
<1>4. \/ UNCHANGED <<stored, txHeights, bodies>>
      \/ /\ stored' = stored \cup {indexed'} /\ txHeights' = txHeights \cup {indexed'}
         /\ bodies' = bodies \cup {indexed'} /\ indexed' = indexed + 1
    BY DEF Mine, IndexBlock, SkipAhead, WriteTransfers
<1>5. transfers' \cup unwritten' \subseteq stored' \cup erased'
      /\ transfers' \subseteq 1..Horizon /\ unwritten' \subseteq 1..Horizon
    <2>1. CASE Mine \/ SkipAhead
        BY <1>0, <2>1 DEF Mine, SkipAhead, HeightsKnown, Tables
    <2>2. CASE IndexBlock
        BY <1>0, <1>3, <2>2 DEF IndexBlock, HeightsKnown, Tables
    <2>3. CASE WriteTransfers
        <3>1. Min(unwritten) \in unwritten
            BY <1>1, <2>3, LeastOf DEF WriteTransfers
        <3> QED
            BY <1>0, <2>3, <3>1 DEF WriteTransfers, HeightsKnown, Tables
    <2> QED
        BY <2>1, <2>2, <2>3
<1>6. Sizes' /\ Tables'
    BY <1>0, <1>2, <1>3, <1>4, <1>5 DEF Sizes, Tables
<1>7. LadderEnds' /\ Announced'
    BY <1>0, <1>2 DEF LadderEnds, Announced
<1>8. HeightsKnown'
    <2>1. \A n \in stored' : n <= indexed'
        BY <1>0, <1>1, <1>3, <1>4 DEF HeightsKnown, Sizes
    <2> QED
        BY <1>0, <1>2, <1>3, <1>5, <2>1 DEF HeightsKnown
<1>9. CutKnown'
    <2> SUFFICES ASSUME run.at \in Cutting PROVE CutSpares(run.cut)'
        BY <1>2 DEF CutKnown
    <2>1. CutSpares(run.cut)
        BY <1>0 DEF CutKnown
    <2>2. run.cut <= indexed'
        BY <1>1, <1>3, <2>1 DEF CutSpares
    <2>3. ASSUME NEW n \in stored', n < run.cut PROVE n < tip' - MinWindow
        <3>1. n \in stored
            BY <1>1, <1>4, <2>1, <2>3 DEF CutSpares
        <3> QED
            BY <1>1, <1>3, <2>1, <2>3, <3>1 DEF CutSpares
    <2> QED
        BY <1>2, <2>2, <2>3 DEF CutSpares
<1>10. Swept'
    <2> SUFFICES ASSUME losses = 0, run.at \in {"partitions", "transactions"},
                        NEW n \in bodies'
                 PROVE  n >= run.cut
        BY <1>2 DEF Swept
    <2>1. CASE n \in bodies
        BY <1>0, <2>1 DEF Swept
    <2>2. CASE n = indexed + 1
        BY <1>0, <1>1, <2>2 DEF CutKnown, Cutting, CutSpares
    <2> QED
        BY <1>4, <2>1, <2>2
<1>11. NoOrphans' /\ FloorTruthful'
    BY <1>0, <1>2, <1>4 DEF NoOrphans, FloorTruthful
<1>12. RecentRowsKept'
    BY <1>0, <1>1, <1>2, <1>3 DEF RecentRowsKept
<1> QED
    BY <1>6, <1>7, <1>8, <1>9, <1>10, <1>11, <1>12, TypeParts DEF RetentionInv

\* The steps that touch no row and leave the floor alone, to a stage without a
\* cutoff or with a fresh one.
LEMMA RunKeeps ==
    ASSUME RetentionInv,
           UNCHANGED <<rtData, ladder, published, hidden, erased>>,
           losses' \in Nat, losses' = 0 => losses = 0,
           run' \in Runs, run'.compact >= MinWindow,
           run'.at \notin Cutting \/ (run'.at = "publish" /\ CutSpares(run'.cut))
    PROVE  RetentionInv'
<1>0. /\ Sizes /\ Tables /\ LadderEnds /\ HeightsKnown
      /\ NoOrphans /\ FloorTruthful /\ RecentRowsKept
    BY TypeParts DEF RetentionInv
<1>1. /\ UNCHANGED <<tip, indexed, stored, txHeights, bodies, transfers, unwritten>>
      /\ UNCHANGED <<ladder, published, hidden, erased>>
    BY DEF rtData
<1>2. Sizes' /\ Tables'
    BY <1>0, <1>1 DEF Sizes, Tables, Runs
<1>3. LadderEnds' /\ HeightsKnown'
    BY <1>0, <1>1 DEF LadderEnds, HeightsKnown, MinWindow
<1>4. CutKnown'
    BY <1>1 DEF CutKnown, CutSpares, Cutting, MinWindow
<1>5. Announced' /\ Swept'
    BY DEF Announced, Swept, Cutting
<1>6. NoOrphans' /\ FloorTruthful' /\ RecentRowsKept'
    BY <1>0, <1>1 DEF NoOrphans, FloorTruthful, RecentRowsKept, MinWindow
<1> QED
    BY <1>2, <1>3, <1>4, <1>5, <1>6, TypeParts DEF RetentionInv

\* The parameters, as the steps use them.
LEMMA Windows ==
    /\ Horizon \in Nat /\ Width \in Nat /\ Width > 0 /\ Ahead \in Nat
    /\ BodyWindow \in Nat /\ CompactWindow \in Nat /\ CompactWindow >= MinWindow
    /\ MinWindow = 1 /\ MinWindow \in Nat /\ Immortal \in Nat /\ Start \in 1..Horizon
    BY RetentionAssumption DEF MinWindow, Immortal

\* runCleanup starts on windows it has read.
LEMMA StartRunKeeps ==
    ASSUME RetentionInv, StartRun
    PROVE  RetentionInv'
<1>1. Sizes /\ Tables /\ HeightsKnown
    BY TypeParts DEF RetentionInv
<1>2. cutoffBlockNumber(BodyWindow) \in 0..Horizon
    BY <1>1, CutoffSpares, Windows
<1>3. run' = [at |-> "bodies", body |-> BodyWindow, compact |-> CompactWindow,
              override |-> FALSE, cut |-> cutoffBlockNumber(BodyWindow), peak |-> "low"]
    BY DEF StartRun, Quiescent
<1>4. run' \in Runs /\ run'.compact >= MinWindow /\ run'.at \notin Cutting
    BY <1>2, <1>3, Windows DEF Runs, Cutting
<1>5. losses' \in Nat /\ (losses' = 0 => losses = 0)
    BY <1>1 DEF StartRun, Sizes
<1>6. UNCHANGED <<rtData, ladder, published, hidden, erased>>
    BY DEF StartRun
<1> QED
    BY <1>4, <1>5, <1>6, RunKeeps

\* cutoffBlockNumber for the compact rows: a stored height or nothing to cut.
LEMMA CompactCutoffKeeps ==
    ASSUME RetentionInv, CompactCutoff
    PROVE  RetentionInv'
<1> DEFINE cut == cutoffBlockNumber(run.compact)
           next == IF run.compact < Immortal /\ cut > 0 THEN "publish" ELSE "forward"
<1>1. Sizes /\ Tables /\ HeightsKnown
    BY TypeParts DEF RetentionInv
<1>2. run \in Runs /\ run.compact \in Nat /\ run.compact >= MinWindow
    BY <1>1 DEF Sizes, Runs, HeightsKnown
<1>3. cut \in 0..Horizon /\ CutSpares(cut)
    BY <1>1, <1>2, CutoffSpares
<1>4. run' = [run EXCEPT !.cut = cut, !.at = next]
    BY DEF CompactCutoff
<1>5. next \in {"publish", "forward"}
    OBVIOUS
<1> HIDE DEF cut, next
<1>6. run' \in Runs /\ run'.compact = run.compact /\ run'.at = next /\ run'.cut = cut
    BY <1>2, <1>3, <1>4, <1>5 DEF Runs
<1>7. run'.at \notin Cutting \/ (run'.at = "publish" /\ CutSpares(run'.cut))
    BY <1>3, <1>5, <1>6 DEF Cutting
<1>8. losses' \in Nat /\ (losses' = 0 => losses = 0)
    BY <1>1 DEF CompactCutoff, Sizes
<1>9. UNCHANGED <<rtData, ladder, published, hidden, erased>>
    BY DEF CompactCutoff
<1>10. run'.compact >= MinWindow
    BY <1>2, <1>6
<1> QED
    BY <1>6, <1>7, <1>8, <1>9, <1>10, RunKeeps

\* The disk guard tightens, restores or leaves the windows.
LEMMA DecideKeeps ==
    ASSUME RetentionInv, Decide
    PROVE  RetentionInv'
<1>1. Sizes /\ Tables /\ HeightsKnown
    BY TypeParts DEF RetentionInv
<1>2. run \in Runs /\ run.compact >= MinWindow
    BY <1>1 DEF Sizes, HeightsKnown
<1>3. run' \in Runs /\ run'.compact >= MinWindow /\ run'.at \notin Cutting
    <2>1. CASE run' = Quiescent
        BY <2>1, Windows DEF Quiescent, Runs, Cutting
    <2>2. ASSUME NEW r \in Tightened(run),
                 run' = [Quiescent EXCEPT !.at = "bodies", !.override = TRUE, !.body = r.body,
                                 !.compact = r.compact, !.cut = cutoffBlockNumber(r.body)]
          PROVE  run' \in Runs /\ run'.compact >= MinWindow /\ run'.at \notin Cutting
        <3>1. \/ r = [run EXCEPT !.compact = MinWindow]
              \/ r = [run EXCEPT !.body = MinWindow]
            BY <2>2 DEF Tightened
        <3>2. r \in Runs /\ r.compact >= MinWindow
            BY <1>2, <3>1, Windows DEF Runs
        <3>3. r.body \in Nat /\ r.compact \in Nat
            BY <3>2 DEF Runs
        <3>4. cutoffBlockNumber(r.body) \in 0..Horizon
            BY <1>1, <3>3, CutoffSpares
        <3>5. run' = [at |-> "bodies", body |-> r.body, compact |-> r.compact,
                      override |-> TRUE, cut |-> cutoffBlockNumber(r.body), peak |-> "low"]
            BY <2>2 DEF Quiescent
        <3> QED
            BY <3>2, <3>3, <3>4, <3>5 DEF Runs, Cutting
    <2> QED
        BY <2>1, <2>2 DEF Decide
<1>4. losses' \in Nat /\ (losses' = 0 => losses = 0)
    BY <1>1 DEF Decide, Sizes
<1>5. UNCHANGED <<rtData, ladder, published, hidden, erased>>
    BY DEF Decide
<1> QED
    BY <1>3, <1>4, <1>5, RunKeeps

\* A pass that throws, or a process that dies, forgets the run and no row.
LEMMA RunDiesKeeps ==
    ASSUME RetentionInv, RunDies
    PROVE  RetentionInv'
<1>1. Sizes
    BY TypeParts DEF RetentionInv
<1>2. run' \in Runs /\ run'.compact >= MinWindow /\ run'.at \notin Cutting
    BY Windows DEF RunDies, Quiescent, Runs, Cutting
<1>3. losses' \in Nat /\ (losses' = 0 => losses = 0)
    BY <1>1 DEF RunDies, Loss, Sizes
<1>4. UNCHANGED <<rtData, ladder, published, hidden, erased>>
    BY DEF RunDies
<1> QED
    BY <1>2, <1>3, <1>4, RunKeeps

\* A step that leaves the windows and the cutoff of the run alone: what is left
\* to show of it is about the rows it deletes.
LEMMA StageKeeps ==
    ASSUME RetentionInv,
           UNCHANGED <<tip, indexed, unwritten>>,
           run' \in Runs, run'.compact = run.compact, run'.cut = run.cut,
           run'.at \in Cutting => run.at \in Cutting,
           losses' \in Nat,
           stored' \subseteq stored, txHeights' \subseteq txHeights, bodies' \subseteq bodies,
           transfers' \subseteq transfers, ladder' \subseteq Nat, LadderEnds',
           published' \in 0..Horizon, hidden' \in BOOLEAN,
           stored \ stored' \subseteq erased',
           \A n \in erased' : n \in erased \/ (n \in stored \cup erased /\ n < run.cut),
           erased \subseteq erased',
           erased' = erased \/ run.at \in Cutting,
           NoOrphans', Swept', Announced', FloorTruthful'
    PROVE  RetentionInv'
<1>0. /\ Sizes /\ Tables /\ HeightsKnown /\ CutKnown /\ RecentRowsKept
    BY TypeParts DEF RetentionInv
<1>1. /\ tip' = tip /\ indexed' = indexed /\ unwritten' = unwritten
      /\ tip \in Nat /\ run.cut \in Nat
    BY <1>0, Windows DEF Sizes, Runs
<1>2. erased' \subseteq 1..Horizon
    BY <1>0 DEF Tables
<1>3. Sizes' /\ Tables'
    BY <1>0, <1>1, <1>2 DEF Sizes, Tables, Runs
<1>4. HeightsKnown'
    <2>1. transfers' \cup unwritten' \subseteq stored' \cup erased'
        BY <1>0, <1>1 DEF HeightsKnown
    <2>2. \A n \in stored' : n <= indexed'
        BY <1>0, <1>1 DEF HeightsKnown
    <2>3. indexed' <= tip' /\ run'.compact >= MinWindow
        BY <1>0, <1>1 DEF HeightsKnown
    <2> QED
        BY <2>1, <2>2, <2>3 DEF HeightsKnown, MinWindow
<1>5. CutKnown'
    BY <1>0, <1>1 DEF CutKnown, CutSpares, MinWindow
<1>6. RecentRowsKept'
    <2> SUFFICES ASSUME NEW n \in erased', n \notin erased PROVE n < tip - MinWindow
        BY <1>0, <1>1 DEF RecentRowsKept, MinWindow
    <2>1. n \in stored /\ n < run.cut /\ run.at \in Cutting
        OBVIOUS
    <2> QED
        BY <1>0, <2>1 DEF CutKnown, CutSpares
<1> QED
    BY <1>3, <1>4, <1>5, <1>6, TypeParts DEF RetentionInv

\* A run that goes on to its next stage keeps what it knows.
LEMMA AtMoves ==
    ASSUME NEW stage, NEW next \in {"sweep", "partitions", "transactions", "blocks",
                                    "forward", "decide"},
           run \in Runs, At(stage, next)
    PROVE  /\ run' \in Runs /\ run'.compact = run.compact /\ run'.cut = run.cut
           /\ run.at = stage /\ run'.at = next
    BY DEF At, Runs

\* The bodies of transactions older than their own window.
LEMMA PruneBodiesKeeps ==
    ASSUME RetentionInv, PruneBodies
    PROVE  RetentionInv'
<1>0. /\ Sizes /\ Tables /\ LadderEnds /\ NoOrphans /\ FloorTruthful
    BY TypeParts DEF RetentionInv
<1>1. PICK pct \in {"low", "alarm", "act"} : run' = [run EXCEPT !.at = "cutoff", !.peak = pct]
    BY DEF PruneBodies
<1>2. run \in Runs /\ losses \in Nat
    BY <1>0 DEF Sizes
<1>3. run' \in Runs /\ run'.compact = run.compact /\ run'.cut = run.cut /\ run'.at = "cutoff"
    BY <1>1, <1>2 DEF Runs
<1>4. bodies' \subseteq bodies /\ losses' \in Nat /\ (losses' = 0 => losses = 0)
    <2>1. PICK left \in SUBSET bodies : Deletes(bodies, run.cut, left) /\ bodies' = left
        BY DEF PruneBodies
    <2> QED
        BY <1>2, <2>1, DeletesMoves
<1>5. UNCHANGED <<tip, indexed, stored, txHeights, transfers, unwritten,
                  ladder, published, hidden, erased>>
    BY DEF PruneBodies
<1>6. NoOrphans' /\ FloorTruthful'
    BY <1>0, <1>4, <1>5 DEF NoOrphans, FloorTruthful
<1>7. LadderEnds' /\ ladder' \subseteq Nat /\ published' \in 0..Horizon /\ hidden' \in BOOLEAN
    BY <1>0, <1>5 DEF LadderEnds, Sizes, Tables
<1>8. Announced' /\ Swept' /\ run'.at \notin Cutting
    BY <1>3 DEF Announced, Swept, Cutting
<1> QED
    BY <1>3, <1>4, <1>5, <1>6, <1>7, <1>8, StageKeeps

\* The cutoff is published before anything below it is deleted.
LEMMA PublishCutoffKeeps ==
    ASSUME RetentionInv, PublishCutoff
    PROVE  RetentionInv'
<1>0. /\ Sizes /\ Tables /\ LadderEnds /\ NoOrphans /\ FloorTruthful
    BY TypeParts DEF RetentionInv
<1>1. run \in Runs /\ losses \in Nat /\ published \in 0..Horizon /\ hidden \in BOOLEAN
      /\ run.cut \in 0..Horizon /\ Horizon \in Nat
    BY <1>0 DEF Sizes, Runs
<1>2. /\ run' \in Runs /\ run'.compact = run.compact /\ run'.cut = run.cut
      /\ run.at = "publish" /\ run'.at = "sweep"
    BY <1>1, AtMoves DEF PublishCutoff
<1>3. UNCHANGED <<tip, indexed, stored, txHeights, bodies, transfers, unwritten, ladder, erased>>
    BY DEF PublishCutoff, rtData
<1>4. \/ /\ hidden' = hidden /\ losses' = losses /\ published' >= published
         /\ published' >= run.cut /\ published' \in 0..Horizon
      \/ hidden' = TRUE /\ losses' = losses + 1 /\ published' = published
    BY <1>1 DEF PublishCutoff, Loss
<1>5. published' \in 0..Horizon /\ hidden' \in BOOLEAN /\ losses' \in Nat
      /\ (losses' = 0 => losses = 0)
    <2>1. published' \in 0..Horizon /\ losses' \in Nat /\ (losses' = 0 => losses = 0)
        BY <1>1, <1>4
    <2>2. hidden' \in BOOLEAN
        BY <1>1, <1>4, Zenon
    <2> QED
        BY <2>1, <2>2
<1>6. FloorTruthful'
    <2>1. \A n \in erased : n \in Nat
        BY <1>0 DEF Tables
    <2> QED
        BY <1>0, <1>1, <1>3, <1>4, <2>1 DEF FloorTruthful
<1>7. NoOrphans'
    BY <1>0, <1>3, <1>5 DEF NoOrphans
<1>8. LadderEnds' /\ ladder' \subseteq Nat
    BY <1>0, <1>3 DEF LadderEnds, Tables
<1>9. Announced' /\ Swept'
    BY <1>2, <1>4 DEF Announced, Swept
<1> QED
    BY <1>2, <1>3, <1>5, <1>6, <1>7, <1>8, <1>9, StageKeeps DEF Cutting

\* Bodies below the cutoff go before their transactions.
LEMMA SweepBodiesKeeps ==
    ASSUME RetentionInv, SweepBodies
    PROVE  RetentionInv'
<1>0. /\ Sizes /\ Tables /\ LadderEnds /\ NoOrphans /\ FloorTruthful /\ Announced
    BY TypeParts DEF RetentionInv
<1>1. run \in Runs /\ losses \in Nat
    BY <1>0 DEF Sizes
<1>2. /\ run' \in Runs /\ run'.compact = run.compact /\ run'.cut = run.cut
      /\ run.at = "sweep" /\ run'.at = "partitions"
    BY <1>1, AtMoves DEF SweepBodies
<1>3. UNCHANGED <<tip, indexed, stored, txHeights, transfers, unwritten,
                  ladder, published, hidden, erased>>
    BY DEF SweepBodies
<1>4. /\ bodies' \subseteq bodies /\ losses' \in Nat /\ (losses' = 0 => losses = 0)
      /\ losses' = 0 => \A n \in bodies' : n >= run.cut
    <2>1. PICK left \in SUBSET bodies : Deletes(bodies, run.cut, left) /\ bodies' = left
        BY DEF SweepBodies
    <2> QED
        BY <1>1, <2>1, DeletesMoves
<1>5. NoOrphans' /\ FloorTruthful'
    BY <1>0, <1>3, <1>4 DEF NoOrphans, FloorTruthful
<1>6. LadderEnds' /\ ladder' \subseteq Nat /\ published' \in 0..Horizon /\ hidden' \in BOOLEAN
    BY <1>0, <1>3 DEF LadderEnds, Sizes, Tables
<1>7. Announced' /\ Swept'
    BY <1>0, <1>2, <1>3, <1>4 DEF Announced, Swept, Cutting
<1> QED
    BY <1>2, <1>3, <1>4, <1>5, <1>6, <1>7, StageKeeps DEF Cutting

-----------------------------------------------------------------------------
(* The steps that take compact rows. *)

\* A step of a published run that takes rows below the cutoff only.
LEMMA TakenIsBelow ==
    ASSUME RetentionInv, run.at \in Cutting \ {"publish"}, UNCHANGED <<published, hidden>>,
           \A n \in erased' : n \in erased \/ n < run.cut, erased' \subseteq 1..Horizon
    PROVE  FloorTruthful'
<1>1. /\ run.cut \in Nat /\ published \in Nat /\ Announced /\ FloorTruthful
      /\ \A n \in erased' : n \in Nat
    BY TypeParts, Windows DEF RetentionInv, Sizes, Runs
<1> QED
    BY <1>1 DEF Announced, FloorTruthful

\* Partitions that end at the cutoff or below it.
LEMMA DropPartitionsKeeps ==
    ASSUME RetentionInv, DropPartitions
    PROVE  RetentionInv'
<1>0. /\ Sizes /\ Tables /\ LadderEnds /\ NoOrphans /\ FloorTruthful /\ Announced /\ Swept
      /\ HeightsKnown
    BY TypeParts DEF RetentionInv
<1>1. run \in Runs /\ losses \in Nat /\ run.cut \in Nat
    BY <1>0, Windows DEF Sizes, Runs
<1>2. /\ run' \in Runs /\ run'.compact = run.compact /\ run'.cut = run.cut
      /\ run.at = "partitions" /\ run'.at = "transactions"
    BY <1>1, AtMoves DEF DropPartitions
<1>3. PICK gone \in SUBSET Expired :
          /\ IF gone = Expired THEN UNCHANGED losses ELSE Loss
          /\ ladder' = ladder \ gone
          /\ transfers' = {n \in transfers : ~In(gone, n)}
          /\ erased' = erased \cup {n \in transfers : In(gone, n)}
    BY DEF DropPartitions
<1>4. UNCHANGED <<tip, indexed, stored, txHeights, bodies, unwritten, published, hidden>>
    BY DEF DropPartitions
<1>5. losses' \in Nat /\ (losses' = 0 => losses = 0)
    BY <1>1, <1>3 DEF Loss
<1>6. ASSUME NEW n \in transfers, In(gone, n) PROVE n < run.cut
    <2>1. PICK i \in gone : n < Hi(i)
        BY <1>6 DEF In
    <2>2. i \in Nat /\ Hi(i) <= run.cut
        BY <1>0 DEF Expired, Tables
    <2>3. Hi(i) \in Nat
        BY <2>2, Windows DEF Hi
    <2>4. n \in Nat
        BY <1>0 DEF Tables
    <2> QED
        BY <1>1, <2>1, <2>2, <2>3, <2>4
<1>7. /\ \A n \in erased' : n \in erased \/ (n \in stored \cup erased /\ n < run.cut)
      /\ erased \subseteq erased' /\ erased' \subseteq 1..Horizon
    BY <1>0, <1>3, <1>6 DEF HeightsKnown, Tables
<1>8. FloorTruthful'
    BY <1>2, <1>4, <1>7, TakenIsBelow DEF Cutting
<1>9. NoOrphans'
    BY <1>0, <1>4, <1>5 DEF NoOrphans
<1>10. LadderEnds' /\ ladder' \subseteq Nat /\ transfers' \subseteq transfers
    BY <1>0, <1>3 DEF LadderEnds, Tables
<1>11. Announced' /\ Swept'
    BY <1>0, <1>2, <1>4, <1>5 DEF Announced, Swept, Cutting
<1>12. published' \in 0..Horizon /\ hidden' \in BOOLEAN
    BY <1>0, <1>4 DEF Sizes
<1> QED
    BY <1>2, <1>4, <1>5, <1>7, <1>8, <1>9, <1>10, <1>11, <1>12, StageKeeps DEF Cutting

\* Transactions below the cutoff, some of them or all.
LEMMA DeleteTransactionsKeeps ==
    ASSUME RetentionInv, DeleteTransactions
    PROVE  RetentionInv'
<1>0. /\ Sizes /\ Tables /\ LadderEnds /\ NoOrphans /\ Announced /\ Swept /\ HeightsKnown
    BY TypeParts DEF RetentionInv
<1>1. run \in Runs /\ losses \in Nat /\ run.cut \in Nat
    BY <1>0, Windows DEF Sizes, Runs
<1>2. /\ run' \in Runs /\ run'.compact = run.compact /\ run'.cut = run.cut
      /\ run.at = "transactions" /\ run'.at = "blocks"
    BY <1>1, AtMoves DEF DeleteTransactions
<1>3. PICK left \in SUBSET txHeights :
          /\ Deletes(txHeights, run.cut, left)
          /\ txHeights' = left /\ erased' = erased \cup (txHeights \ left)
    BY DEF DeleteTransactions
<1>4. UNCHANGED <<tip, indexed, stored, bodies, transfers, unwritten, ladder, published, hidden>>
    BY DEF DeleteTransactions
<1>5. /\ losses' \in Nat /\ (losses' = 0 => losses = 0) /\ left \subseteq txHeights
      /\ \A n \in txHeights : n >= run.cut => n \in left
    BY <1>1, <1>3, DeletesMoves
<1>6. \A n \in txHeights \ left : n < run.cut /\ n \in stored
    BY <1>0, <1>1, <1>5 DEF Tables, NoOrphans
<1>7. /\ \A n \in erased' : n \in erased \/ (n \in stored \cup erased /\ n < run.cut)
      /\ erased \subseteq erased' /\ erased' \subseteq 1..Horizon
    BY <1>0, <1>3, <1>6 DEF Tables
<1>8. FloorTruthful'
    BY <1>2, <1>4, <1>7, TakenIsBelow DEF Cutting
<1>9. NoOrphans'
    <2>1. ASSUME losses' = 0 PROVE bodies \subseteq left
        BY <1>0, <1>2, <1>5, <2>1 DEF NoOrphans, Swept
    <2> QED
        BY <1>0, <1>3, <1>4, <1>5, <2>1 DEF NoOrphans
<1>10. LadderEnds' /\ ladder' \subseteq Nat
    BY <1>0, <1>4 DEF LadderEnds, Tables
<1>11. Announced' /\ Swept'
    BY <1>0, <1>2, <1>4 DEF Announced, Swept, Cutting
<1>12. published' \in 0..Horizon /\ hidden' \in BOOLEAN
    BY <1>0, <1>4 DEF Sizes
<1> QED
    BY <1>2, <1>3, <1>4, <1>5, <1>7, <1>8, <1>9, <1>10, <1>11, <1>12, StageKeeps DEF Cutting

\* Blocks below the cutoff, after their transactions.
LEMMA DeleteBlocksKeeps ==
    ASSUME RetentionInv, DeleteBlocks
    PROVE  RetentionInv'
<1>0. /\ Sizes /\ Tables /\ LadderEnds /\ NoOrphans /\ Announced /\ HeightsKnown
    BY TypeParts DEF RetentionInv
<1>1. run \in Runs /\ losses \in Nat /\ run.cut \in Nat
    BY <1>0, Windows DEF Sizes, Runs
<1>2. /\ run' \in Runs /\ run'.compact = run.compact /\ run'.cut = run.cut
      /\ run.at = "blocks" /\ run'.at = "forward"
    BY <1>1, AtMoves DEF DeleteBlocks
<1>3. PICK gone \in SUBSET Childless :
          /\ IF gone = Childless THEN UNCHANGED losses ELSE Loss
          /\ stored' = stored \ gone /\ erased' = erased \cup gone
    BY DEF DeleteBlocks
<1>4. UNCHANGED <<tip, indexed, txHeights, bodies, transfers, unwritten,
                  ladder, published, hidden>>
    BY DEF DeleteBlocks
<1>5. losses' \in Nat /\ (losses' = 0 => losses = 0)
    BY <1>1, <1>3 DEF Loss
<1>6. \A n \in gone : n < run.cut /\ n \in stored /\ n \notin txHeights
    BY DEF Childless
<1>7. /\ \A n \in erased' : n \in erased \/ (n \in stored \cup erased /\ n < run.cut)
      /\ erased \subseteq erased' /\ erased' \subseteq 1..Horizon
      /\ stored \ stored' \subseteq erased'
    BY <1>0, <1>3, <1>6 DEF Tables
<1>8. FloorTruthful'
    BY <1>2, <1>4, <1>7, TakenIsBelow DEF Cutting
<1>9. NoOrphans'
    BY <1>0, <1>3, <1>4, <1>5, <1>6 DEF NoOrphans
<1>10. LadderEnds' /\ ladder' \subseteq Nat
    BY <1>0, <1>4 DEF LadderEnds, Tables
<1>11. Announced' /\ Swept' /\ run'.at \notin Cutting
    BY <1>2 DEF Announced, Swept, Cutting
<1>12. published' \in 0..Horizon /\ hidden' \in BOOLEAN
    BY <1>0, <1>4 DEF Sizes
<1> QED
    BY <1>2, <1>3, <1>4, <1>5, <1>7, <1>8, <1>9, <1>10, <1>11, <1>12, StageKeeps DEF Cutting

\* New partitions take no rows.
LEMMA EnsureForwardPartitionsKeeps ==
    ASSUME RetentionInv, EnsureForwardPartitions
    PROVE  RetentionInv'
<1> DEFINE newest == IF transfers = {} THEN 0 ELSE Max(transfers)
           last   == (newest + Ahead * Width) \div Width
<1>0. /\ Sizes /\ Tables /\ LadderEnds /\ NoOrphans /\ FloorTruthful
    BY TypeParts DEF RetentionInv
<1>1. run \in Runs /\ losses \in Nat
    BY <1>0 DEF Sizes
<1>2. /\ run' \in Runs /\ run'.compact = run.compact /\ run'.cut = run.cut
      /\ run.at = "forward" /\ run'.at = "decide"
    BY <1>1, AtMoves DEF EnsureForwardPartitions
<1>3. UNCHANGED <<tip, indexed, stored, txHeights, bodies, transfers, unwritten,
                  published, hidden, erased, losses>>
    BY DEF EnsureForwardPartitions, rtData
<1>4. newest \in Nat
    <2>1. transfers \in SUBSET (0..Horizon) /\ Horizon \in Nat
        BY <1>0, Windows DEF Tables
    <2>2. CASE transfers = {}
        BY <2>2
    <2>3. CASE transfers # {}
        <3>1. PICK top \in transfers : Max(transfers) = top
            BY <2>1, <2>3, GreatestOf
        <3> QED
            BY <2>1, <2>3, <3>1
    <2> QED
        BY <2>2, <2>3
<1>5. last \in Nat
    <2>1. Ahead * Width \in Nat
        BY Windows
    <2> HIDE DEF newest
    <2>2. newest + Ahead * Width \in Nat
        BY <1>4, <2>1
    <2> QED
        BY <2>2, Windows, SMTT(30)
<1>6. ladder' \subseteq Nat /\ LadderEnds'
    <2>1. CASE ladder = {}
        BY <2>1, Windows DEF EnsureForwardPartitions, Extended, LadderEnds
    <2>2. CASE ladder # {}
        <3>1. PICK end \in Nat : ladder \subseteq 0..end
            BY <1>0 DEF LadderEnds
        <3>2. Max(ladder) \in ladder
            BY <2>2, <3>1, GreatestOf
        <3>3. ladder' = ladder \cup (Max(ladder)..last)
            BY <2>2 DEF EnsureForwardPartitions, Extended
        <3>4. PICK most \in ladder : Max(ladder) = most
            BY <3>2
        <3> HIDE DEF last
        <3>5. most \in Nat /\ ladder' = ladder \cup (most..last)
            BY <3>1, <3>3, <3>4
        <3>6. ladder' \subseteq 0..(end + last) /\ end + last \in Nat
            BY <1>5, <3>1, <3>5
        <3>7. \E b \in Nat : ladder' \subseteq 0..b
            BY <3>6, Zenon
        <3>8. ladder' \subseteq Nat
            BY <3>6
        <3> QED
            BY <3>7, <3>8, Zenon DEF LadderEnds
    <2> QED
        BY <2>1, <2>2
<1>7. NoOrphans' /\ FloorTruthful'
    BY <1>0, <1>3 DEF NoOrphans, FloorTruthful
<1>8. Announced' /\ Swept' /\ run'.at \notin Cutting
    BY <1>2 DEF Announced, Swept, Cutting
<1>9. published' \in 0..Horizon /\ hidden' \in BOOLEAN /\ losses' \in Nat
    BY <1>0, <1>3 DEF Sizes
<1> QED
    BY <1>2, <1>3, <1>6, <1>7, <1>8, <1>9, StageKeeps

-----------------------------------------------------------------------------
(* The theorems. *)

\* The tables at the start.
LEMMA RetentionStart == RetentionInit => RetentionInv
<1> SUFFICES ASSUME RetentionInit PROVE RetentionInv
    OBVIOUS
<1>1. /\ Horizon \in Nat \ {0} /\ Start \in 1..Horizon /\ 1..Start \subseteq 1..Horizon
    BY Windows
<1>2. /\ tip = Start /\ indexed = Start /\ stored = 1..Start /\ txHeights = 1..Start
      /\ bodies = 1..Start /\ transfers = 1..Start /\ unwritten = {} /\ erased = {}
      /\ published = 0 /\ hidden = FALSE /\ losses = 0 /\ run = Quiescent
    BY DEF RetentionInit
<1>3. run \in Runs /\ run.at = "idle" /\ run.compact >= MinWindow
    BY <1>2, Windows DEF Quiescent, Runs
<1>4. LadderEnds /\ ladder \subseteq Nat
    <2> DEFINE last == (Start + Ahead * Width) \div Width
    <2>1. Ahead * Width \in Nat
        BY Windows
    <2>2. last \in Nat
        BY <1>1, <2>1, Windows, SMTT(30)
    <2> HIDE DEF last
    <2>3. ladder = 0..last
        BY DEF RetentionInit, last
    <2>4. ladder \subseteq Nat
        BY <2>2, <2>3
    <2>5. LadderEnds
        BY <2>2, <2>3, Zenon DEF LadderEnds
    <2> QED
        BY <2>4, <2>5
<1>5. Sizes
    <2>1. published \in 0..Horizon /\ losses \in Nat /\ tip \in 1..Horizon
          /\ indexed \in 1..Horizon
        BY <1>1, <1>2
    <2>2. hidden \in BOOLEAN
        BY <1>2
    <2> QED
        BY <1>1, <1>3, <2>1, <2>2 DEF Sizes
<1>6. Tables
    BY <1>1, <1>2, <1>4 DEF Tables
<1>7. HeightsKnown
    BY <1>1, <1>2, <1>3 DEF HeightsKnown
<1>8. CutKnown /\ Announced /\ Swept
    BY <1>3 DEF CutKnown, Announced, Swept, Cutting
<1>9. NoOrphans /\ FloorTruthful /\ RecentRowsKept
    BY <1>2 DEF NoOrphans, FloorTruthful, RecentRowsKept
<1> QED
    BY <1>4, <1>5, <1>6, <1>7, <1>8, <1>9, TypeParts DEF RetentionInv

(***************************************************************************)
(* The invariant of retention holds in every reachable state.              *)
(***************************************************************************)
THEOREM RetentionInvariance == RetentionSpec => []RetentionInv
<1>1. RetentionInit => RetentionInv
    BY RetentionStart
<1>2. RetentionInv /\ [RetentionNext]_rtVars => RetentionInv'
    <2> SUFFICES ASSUME RetentionInv, [RetentionNext]_rtVars PROVE RetentionInv'
        OBVIOUS
    <2>1. CASE Mine \/ IndexBlock \/ SkipAhead \/ WriteTransfers
        BY <2>1, IndexerKeeps
    <2>2. CASE StartRun
        BY <2>2, StartRunKeeps
    <2>3. CASE PruneBodies
        BY <2>3, PruneBodiesKeeps
    <2>4. CASE CompactCutoff
        BY <2>4, CompactCutoffKeeps
    <2>5. CASE PublishCutoff
        BY <2>5, PublishCutoffKeeps
    <2>6. CASE SweepBodies
        BY <2>6, SweepBodiesKeeps
    <2>7. CASE DropPartitions
        BY <2>7, DropPartitionsKeeps
    <2>8. CASE DeleteTransactions
        BY <2>8, DeleteTransactionsKeeps
    <2>9. CASE DeleteBlocks
        BY <2>9, DeleteBlocksKeeps
    <2>10. CASE EnsureForwardPartitions
        BY <2>10, EnsureForwardPartitionsKeeps
    <2>11. CASE Decide
        BY <2>11, DecideKeeps
    <2>12. CASE RunDies
        BY <2>12, RunDiesKeeps
    <2>13. CASE UNCHANGED rtVars
        BY <2>13 DEF rtVars, rtData, RetentionInv, RetentionTypeOK, LadderEnds, HeightsKnown,
                     CutKnown, CutSpares, Announced, Swept, NoOrphans, FloorTruthful,
                     RecentRowsKept
    <2> QED
        BY <2>1, <2>2, <2>3, <2>4, <2>5, <2>6, <2>7, <2>8, <2>9, <2>10, <2>11, <2>12, <2>13
           DEF RetentionNext, RunStep
<1> QED
    BY <1>1, <1>2, PTL DEF RetentionSpec

(***************************************************************************)
(* No transaction is ever left without its block, and as long as no        *)
(* statement failed no refetchable row without its transaction             *)
(* (retention-cleanup.ts:958-978, 1011-1021).                              *)
(***************************************************************************)
THEOREM NoOrphansSafe == RetentionSpec => []NoOrphans
<1>1. RetentionInv => NoOrphans
    BY DEF RetentionInv
<1> QED
    BY <1>1, RetentionInvariance, PTL

(***************************************************************************)
(* The published floor is above everything retention has taken, unless a   *)
(* run could not publish its cutoff (retention-cleanup.ts:930-957).        *)
(***************************************************************************)
THEOREM FloorTruthfulSafe == RetentionSpec => []FloorTruthful
<1>1. RetentionInv => FloorTruthful
    BY DEF RetentionInv
<1> QED
    BY <1>1, RetentionInvariance, PTL

(***************************************************************************)
(* No run takes the rows of the newest day, an emergency run included      *)
(* (retention-cleanup.ts:211-238, 577).                                    *)
(***************************************************************************)
THEOREM RecentRowsKeptSafe == RetentionSpec => []RecentRowsKept
<1>1. RetentionInv => RecentRowsKept
    BY DEF RetentionInv
<1> QED
    BY <1>1, RetentionInvariance, PTL

(***************************************************************************)
(* The health report.                                                      *)
(***************************************************************************)

Open(b) == b \in Span \ healedGaps /\ gapTo[b] # Null

\* Above the floor, a height the cursor has passed has its row, or an open
\* range holds it, or an unwind deleted it and the loop did not hear so.
PassedOrRecorded ==
    \A h \in Span : h >= cutoffAt /\ h <= cursorAt /\ h \notin rowsOf /\ h \notin dropped =>
        \E b \in Span : Open(b) /\ b <= h /\ h <= gapTo[b]

GapReportInv == GapReportTypeOK /\ PassedOrRecorded

(***************************************************************************)
(* The greatest of some heights, and the later of two.                     *)
(***************************************************************************)
LEMMA GreatestHeight ==
    ASSUME NEW S \in SUBSET Span, S # {}
    PROVE  Max(S) \in S /\ \A m \in S : m <= Max(S)
<1>1. MaxTop \in Nat /\ S \in SUBSET (0..MaxTop)
    BY GapReportAssumption DEF Span
<1> QED
    BY <1>1, GreatestOf

\* Later is the greater of two heights.
LEMMA LaterOf ==
    ASSUME NEW x \in 0..MaxTop, NEW y \in 0..MaxTop
    PROVE  Later(x, y) = IF x >= y THEN x ELSE y
<1>1. MaxTop \in Nat
    BY GapReportAssumption
<1>2. PICK n \in {x, y} : \A m \in {x, y} : n >= m
    BY <1>1
<1>3. Max({x, y}) \in {x, y} /\ \A m \in {x, y} : Max({x, y}) >= m
    BY <1>2 DEF Max
<1> QED
    BY <1>1, <1>3 DEF Later

\* The sizes the steps compute with.
LEMMA SpanSizes ==
    ASSUME GapReportTypeOK
    PROVE  /\ MaxTop \in Nat /\ MaxTop > 0 /\ Span = 1..MaxTop /\ Null = 0
           /\ cursorAt \in 0..MaxTop /\ cutoffAt \in 0..MaxTop
           /\ \A h \in Span : h \in Nat /\ gapTo[h] \in Nat
    BY GapReportAssumption DEF GapReportTypeOK, Span, Null

-----------------------------------------------------------------------------
(* The steps. *)

\* Recording a range opens it, and every range that was open still holds what
\* it held.
LEMMA Recorded ==
    ASSUME GapReportTypeOK, NEW from \in Span, NEW to \in Span, from <= to,
           recordIndexGap(from, to)
    PROVE  /\ gapTo' \in [Span -> 0..MaxTop] /\ \A b \in Span : gapTo'[b] = Null \/ b <= gapTo'[b]
           /\ healedGaps' \subseteq {b \in Span : gapTo'[b] # Null}
           /\ Open(from)' /\ to <= gapTo'[from]
           /\ \A b \in Span : Open(b) => Open(b)' /\ gapTo[b] <= gapTo'[b]
<1> DEFINE end == Later(gapTo[from], to)
<1>1. /\ gapTo \in [Span -> 0..MaxTop] /\ MaxTop \in Nat /\ from \in 1..MaxTop /\ to \in 1..MaxTop
      /\ healedGaps \subseteq {b \in Span : gapTo[b] # Null}
      /\ \A b \in Span : gapTo[b] = Null \/ b <= gapTo[b]
      /\ Null = 0
    BY GapReportAssumption DEF GapReportTypeOK, Span, Null
<1>2. gapTo[from] \in 0..MaxTop /\ to \in 0..MaxTop
    BY <1>1
<1>3. end = IF gapTo[from] >= to THEN gapTo[from] ELSE to
    BY <1>2, LaterOf
<1>4. end \in 0..MaxTop /\ end >= to /\ end >= gapTo[from] /\ end >= from /\ end # Null
    BY <1>1, <1>2, <1>3
<1>5. gapTo' = [gapTo EXCEPT ![from] = end] /\ healedGaps' = healedGaps \ {from}
    BY DEF recordIndexGap
<1> HIDE DEF end
<1>6. \A b \in Span : gapTo'[b] = IF b = from THEN end ELSE gapTo[b]
    BY <1>1, <1>5
<1>7. gapTo' \in [Span -> 0..MaxTop]
    BY <1>1, <1>4, <1>5
<1>8. \A b \in Span : gapTo'[b] = Null \/ b <= gapTo'[b]
    BY <1>1, <1>4, <1>6
<1>9. healedGaps' \subseteq {b \in Span : gapTo'[b] # Null}
    BY <1>1, <1>5, <1>6
<1>10. Open(from)' /\ to <= gapTo'[from]
    BY <1>4, <1>5, <1>6 DEF Open, Null, Span
<1>11. ASSUME NEW b \in Span, Open(b) PROVE Open(b)' /\ gapTo[b] <= gapTo'[b]
    <2>1. gapTo[b] \in 0..MaxTop
        BY <1>1
    <2>2. CASE b = from
        BY <1>4, <1>6, <1>10, <2>2
    <2>3. CASE b # from
        BY <1>5, <1>6, <1>11, <2>1, <2>3 DEF Open, Null, Span
    <2> QED
        BY <2>2, <2>3
<1> QED
    BY <1>7, <1>8, <1>9, <1>10, <1>11

\* One step per write of the ledger, the loop, retention and the cached report.
LEMMA GapReportStep ==
    ASSUME GapReportInv, [GapReportNext]_grVars
    PROVE  GapReportInv'
<1>0. /\ GapReportTypeOK /\ PassedOrRecorded
      /\ MaxTop \in Nat /\ MaxTop > 0 /\ Span = 1..MaxTop /\ Null = 0
      /\ cursorAt \in 0..MaxTop /\ cutoffAt \in 0..MaxTop
      /\ \A h \in Span : h \in Nat /\ gapTo[h] \in Nat
    BY SpanSizes DEF GapReportInv
<1>n. /\ rowsOf \subseteq Span /\ poisoned \subseteq Span /\ dropped \subseteq Span
      /\ rewinds \in Nat
    BY <1>0 DEF GapReportTypeOK
<1>1. CASE StoreNext
    <2>1. /\ cursorAt < MaxTop /\ cursorAt' = cursorAt + 1 /\ rowsOf' = rowsOf \cup {cursorAt + 1}
          /\ UNCHANGED <<gapTo, healedGaps, poisoned, tracked, cutoffAt, dropped, rewinds>>
        BY <1>1 DEF StoreNext
    <2>2. GapReportTypeOK'
        BY <1>0, <2>1 DEF GapReportTypeOK, Null, Span
    <2>3. PassedOrRecorded'
        <3> SUFFICES ASSUME NEW h \in Span, h >= cutoffAt, h <= cursorAt + 1, h \notin rowsOf',
                             h \notin dropped
                     PROVE  \E b \in Span : Open(b) /\ b <= h /\ h <= gapTo[b]
            BY <2>1 DEF PassedOrRecorded, Open, Null, Span
        <3>1. h \notin rowsOf /\ h <= cursorAt
            BY <1>0, <2>1
        <3> QED
            BY <1>0, <3>1 DEF PassedOrRecorded
    <2> QED
        BY <2>2, <2>3 DEF GapReportInv
<1>2. ASSUME NEW to \in Span, to > cursorAt, recordIndexGap(cursorAt + 1, to), cursorAt' = to,
             UNCHANGED <<rowsOf, tracked, cutoffAt, dropped, rewinds>>, poisoned' \subseteq Span
      PROVE  GapReportInv'
    <2>1. cursorAt + 1 \in Span /\ cursorAt + 1 <= to
        BY <1>0, <1>2
    <2>2. /\ gapTo' \in [Span -> 0..MaxTop] /\ \A b \in Span : gapTo'[b] = Null \/ b <= gapTo'[b]
          /\ healedGaps' \subseteq {b \in Span : gapTo'[b] # Null}
          /\ cursorAt + 1 \notin healedGaps' /\ gapTo'[cursorAt + 1] # Null
          /\ to <= gapTo'[cursorAt + 1]
          /\ \A b \in Span : Open(b) => Open(b)' /\ gapTo[b] <= gapTo'[b]
        <3> DEFINE from == cursorAt + 1
        <3>1. from \in Span /\ from <= to /\ recordIndexGap(from, to)
            BY <1>2, <2>1
        <3> HIDE DEF from
        <3>2. /\ gapTo' \in [Span -> 0..MaxTop]
              /\ \A b \in Span : gapTo'[b] = Null \/ b <= gapTo'[b]
              /\ healedGaps' \subseteq {b \in Span : gapTo'[b] # Null}
              /\ from \notin healedGaps' /\ gapTo'[from] # Null /\ to <= gapTo'[from]
              /\ \A b \in Span : Open(b) => Open(b)' /\ gapTo[b] <= gapTo'[b]
            BY <1>0, <1>2, <3>1, Recorded DEF Open, Null, Span
        <3> QED
            BY <3>2 DEF from
    <2>3. GapReportTypeOK'
        <3>1. /\ rowsOf' \subseteq Span /\ poisoned' \subseteq Span /\ dropped' \subseteq Span
              /\ tracked' \in 0..MaxTop /\ cutoffAt' \in 0..MaxTop /\ rewinds' \in Nat
            BY <1>0, <1>2 DEF GapReportTypeOK
        <3>2. cursorAt' \in 0..MaxTop
            BY <1>0, <1>2
        <3> QED
            BY <2>2, <3>1, <3>2 DEF GapReportTypeOK
    <2>4. PassedOrRecorded'
        <3> SUFFICES ASSUME NEW h \in Span, h >= cutoffAt, h <= to, h \notin rowsOf,
                             h \notin dropped
                     PROVE  \E b \in Span : Open(b)' /\ b <= h /\ h <= gapTo'[b]
            BY <1>2 DEF PassedOrRecorded, Open, Null, Span
        <3>1. CASE h <= cursorAt
            <4>1. PICK b \in Span : Open(b) /\ b <= h /\ h <= gapTo[b]
                BY <1>0, <3>1 DEF PassedOrRecorded
            <4>2. gapTo'[b] \in Nat
                BY <1>0, <2>2
            <4> QED
                BY <1>0, <2>2, <4>1, <4>2
        <3>2. CASE h > cursorAt
            <4>1. gapTo'[cursorAt + 1] \in Nat
                BY <1>0, <2>1, <2>2
            <4>2. cursorAt + 1 <= h /\ h <= gapTo'[cursorAt + 1]
                BY <1>0, <2>2, <3>2, <4>1
            <4> QED
                BY <2>1, <2>2, <4>2 DEF Open, Null, Span
        <3> QED
            BY <1>0, <3>1, <3>2
    <2> QED
        BY <2>3, <2>4 DEF GapReportInv
<1>3. ASSUME NEW h \in Span, SkipLag(h) PROVE GapReportInv'
    <2>1. /\ h > cursorAt /\ recordIndexGap(cursorAt + 1, h) /\ cursorAt' = h
          /\ UNCHANGED <<rowsOf, tracked, cutoffAt, dropped, rewinds>> /\ poisoned' = poisoned
        BY <1>0, <1>3 DEF SkipLag
    <2>2. poisoned' \subseteq Span
        BY <1>0, <2>1 DEF GapReportTypeOK
    <2> QED
        BY <1>2, <2>1, <2>2
<1>4. CASE QuarantineNext
    <2> DEFINE to == cursorAt + 1
    <2>1. /\ to \in Span /\ to > cursorAt /\ recordIndexGap(cursorAt + 1, to) /\ cursorAt' = to
          /\ UNCHANGED <<rowsOf, tracked, cutoffAt, dropped, rewinds>> /\ poisoned' = poisoned \cup {to}
        BY <1>0, <1>4 DEF QuarantineNext
    <2> HIDE DEF to
    <2>2. poisoned' \subseteq Span
        BY <1>0, <2>1 DEF GapReportTypeOK
    <2> QED
        BY <1>2, <2>1, <2>2
<1>5. CASE SeedTracking
    <2>1. /\ rowsOf # {} /\ tracked' = Max(rowsOf)
          /\ UNCHANGED <<cursorAt, rowsOf, gapTo, healedGaps, poisoned, cutoffAt, dropped, rewinds>>
        BY <1>5 DEF SeedTracking
    <2>2. Max(rowsOf) \in Span
        BY <1>0, <2>1, GreatestHeight DEF GapReportTypeOK
    <2> QED
        BY <1>0, <2>1, <2>2 DEF GapReportInv, GapReportTypeOK, PassedOrRecorded, Open, Null, Span
<1>6. ASSUME NEW c \in Span, PublishFloor(c) PROVE GapReportInv'
    <2>1. /\ c > cutoffAt /\ cutoffAt' = c /\ rowsOf' = rowsOf \ (1 .. c - 1)
          /\ UNCHANGED <<cursorAt, gapTo, healedGaps, poisoned, tracked, dropped, rewinds>>
        BY <1>6 DEF PublishFloor
    <2>2. GapReportTypeOK'
        BY <1>0, <1>6, <2>1 DEF GapReportTypeOK, Null, Span
    <2>3. PassedOrRecorded'
        <3> SUFFICES ASSUME NEW h \in Span, h >= c, h <= cursorAt, h \notin rowsOf',
                             h \notin dropped
                     PROVE  \E b \in Span : Open(b) /\ b <= h /\ h <= gapTo[b]
            BY <2>1 DEF PassedOrRecorded, Open, Null, Span
        <3>1. h \notin rowsOf /\ h >= cutoffAt
            BY <1>0, <2>1
        <3> QED
            BY <1>0, <3>1 DEF PassedOrRecorded
    <2> QED
        BY <2>2, <2>3 DEF GapReportInv
<1>7. ASSUME NEW b \in Span, HealHeight(b) PROVE GapReportInv'
    <2> DEFINE first == Min(Missing(b) \ poisoned)
    <2>1. /\ rowsOf' = rowsOf \cup {first} /\ Missing(b) \ poisoned # {}
          /\ dropped' = dropped \ {first}
          /\ UNCHANGED <<cursorAt, gapTo, healedGaps, poisoned, tracked, cutoffAt, rewinds>>
        BY <1>7 DEF HealHeight
    <2>2. Missing(b) \subseteq Span
        BY <1>0 DEF GapReportTypeOK, Missing
    <2>3. first \in Span
        <3>1. Missing(b) \ poisoned \in SUBSET Nat
            BY <1>0, <2>2
        <3> QED
            BY <2>1, <2>2, <3>1, LeastOf
    <2> HIDE DEF first
    <2>4. GapReportTypeOK'
        BY <1>0, <2>1, <2>3 DEF GapReportTypeOK, Null, Span
    <2>5. PassedOrRecorded'
        BY <1>0, <2>1 DEF PassedOrRecorded, Open, Null, Span
    <2> QED
        BY <2>4, <2>5 DEF GapReportInv
<1>8. ASSUME NEW b \in Span, StampHealed(b) PROVE GapReportInv'
    <2>1. /\ gapTo[b] # Null /\ Missing(b) = {} /\ healedGaps' = healedGaps \cup {b}
          /\ UNCHANGED <<cursorAt, rowsOf, gapTo, poisoned, tracked, cutoffAt, dropped, rewinds>>
        BY <1>8 DEF StampHealed, Healable
    <2>2. GapReportTypeOK'
        BY <1>0, <2>1 DEF GapReportTypeOK, Null, Span
    <2>3. PassedOrRecorded'
        <3> SUFFICES ASSUME NEW h \in Span, h >= cutoffAt, h <= cursorAt, h \notin rowsOf,
                             h \notin dropped
                     PROVE  \E d \in Span : Open(d)' /\ d <= h /\ h <= gapTo[d]
            BY <2>1 DEF PassedOrRecorded, Open, Null, Span
        <3>1. PICK d \in Span : Open(d) /\ d <= h /\ h <= gapTo[d]
            BY <1>0 DEF PassedOrRecorded
        <3>2. d # b
            BY <1>0, <2>1, <3>1 DEF Missing
        <3> QED
            BY <2>1, <3>1, <3>2 DEF Open, Null, Span
    <2> QED
        BY <2>2, <2>3 DEF GapReportInv
<1>9. ASSUME NEW f \in 0..MaxTop, RewindTo(f, {}) \/ RewindTo(f, {h \in Span : h > f})
      PROVE  GapReportInv'
    <2>1. PICK lost \in SUBSET Span : RewindTo(f, lost) /\ \A h \in lost : h > f
        BY <1>9
    <2>2. /\ f < cursorAt /\ cursorAt' = f /\ rowsOf' = rowsOf \ lost /\ poisoned' = poisoned \ lost
          /\ dropped' = {h \in dropped : h <= f}
          /\ rewinds' = rewinds + 1 /\ UNCHANGED <<gapTo, healedGaps, tracked, cutoffAt>>
        BY <2>1 DEF RewindTo
    <2>3. GapReportTypeOK'
        <3>1. /\ rowsOf' \subseteq Span /\ poisoned' \subseteq Span /\ dropped' \subseteq Span
            BY <1>n, <2>2
        <3>r. rewinds' \in Nat /\ cursorAt' \in 0..MaxTop
            BY <1>n, <1>9, <2>2
        <3>2. /\ gapTo' \in [Span -> 0..MaxTop] /\ \A b \in Span : gapTo'[b] = Null \/ b <= gapTo'[b]
              /\ healedGaps' \subseteq {b \in Span : gapTo'[b] # Null}
              /\ tracked' \in 0..MaxTop /\ cutoffAt' \in 0..MaxTop
            BY <1>0, <2>2 DEF GapReportTypeOK, Null, Span
        <3> QED
            BY <3>1, <3>r, <3>2 DEF GapReportTypeOK
    <2>4. PassedOrRecorded'
        <3> SUFFICES ASSUME NEW h \in Span, h >= cutoffAt, h <= f, h \notin rowsOf',
                             h \notin dropped'
                     PROVE  \E b \in Span : Open(b) /\ b <= h /\ h <= gapTo[b]
            BY <2>2 DEF PassedOrRecorded, Open, Null, Span
        <3>1. h \notin lost /\ h \notin dropped /\ h <= cursorAt
            BY <1>0, <2>1, <2>2
        <3> QED
            BY <1>0, <2>2, <3>1 DEF PassedOrRecorded
    <2> QED
        BY <2>3, <2>4 DEF GapReportInv
<1>u. ASSUME NEW f \in 0..MaxTop, UnwindAnswerLost(f) PROVE GapReportInv'
    <2>1. /\ rowsOf' = {h \in rowsOf : h <= f} /\ poisoned' = {h \in poisoned : h <= f}
          /\ dropped' = dropped \cup {h \in rowsOf : f < h /\ h <= cursorAt}
          /\ rewinds' = rewinds + 1 /\ UNCHANGED <<cursorAt, gapTo, healedGaps, tracked, cutoffAt>>
        BY <1>u DEF UnwindAnswerLost
    <2>2. GapReportTypeOK'
        <3>1. /\ rowsOf' \subseteq Span /\ poisoned' \subseteq Span /\ dropped' \subseteq Span
            BY <1>n, <2>1
        <3>r. rewinds' \in Nat
            BY <1>n, <2>1
        <3>2. /\ gapTo' \in [Span -> 0..MaxTop] /\ \A b \in Span : gapTo'[b] = Null \/ b <= gapTo'[b]
              /\ healedGaps' \subseteq {b \in Span : gapTo'[b] # Null}
              /\ tracked' \in 0..MaxTop /\ cutoffAt' \in 0..MaxTop /\ cursorAt' \in 0..MaxTop
            BY <1>0, <2>1 DEF GapReportTypeOK, Null, Span
        <3> QED
            BY <3>1, <3>r, <3>2 DEF GapReportTypeOK
    <2>3. PassedOrRecorded'
        <3> SUFFICES ASSUME NEW h \in Span, h >= cutoffAt, h <= cursorAt, h \notin rowsOf',
                            h \notin dropped'
                     PROVE  \E b \in Span : Open(b) /\ b <= h /\ h <= gapTo[b]
            BY <2>1 DEF PassedOrRecorded, Open, Null, Span
        <3>1. h \notin dropped /\ h \notin rowsOf
            BY <1>0, <1>u, <2>1
        <3> QED
            BY <1>0, <3>1 DEF PassedOrRecorded
    <2> QED
        BY <2>2, <2>3 DEF GapReportInv
<1>10. CASE UNCHANGED grVars
    BY <1>0, <1>10 DEF grVars, GapReportInv, GapReportTypeOK, PassedOrRecorded, Open, Null, Span
<1> QED
    BY <1>1, <1>3, <1>4, <1>5, <1>6, <1>7, <1>8, <1>9, <1>u, <1>10 DEF GapReportNext

-----------------------------------------------------------------------------
(* The theorems. *)

(***************************************************************************)
(* The invariant of the health report holds in every reachable state.      *)
(***************************************************************************)
THEOREM GapReportInvariance == GapReportSpec => []GapReportInv
<1>1. GapReportInit => GapReportInv
    <2> SUFFICES ASSUME GapReportInit PROVE GapReportInv
        OBVIOUS
    <2>1. GapReportTypeOK
        BY GapReportAssumption DEF GapReportInit, GapReportTypeOK, Null, Span
    <2>2. PassedOrRecorded
        BY SpanSizes, <2>1 DEF GapReportInit, PassedOrRecorded
    <2> QED
        BY <2>1, <2>2 DEF GapReportInv
<1>2. GapReportInv /\ [GapReportNext]_grVars => GapReportInv'
    BY GapReportStep
<1> QED
    BY <1>1, <1>2, PTL DEF GapReportSpec

-----------------------------------------------------------------------------
(***************************************************************************)
(* The merged rows of the report.  Rows stand in a total order; marks grow *)
(* along it, and a mark changes where a row opens a group, beyond the end  *)
(* of every row before it.  So a group covers a run of heights, and the    *)
(* heights around the run are in no row.                                   *)
(***************************************************************************)

\* What the rows of the report are made of.
LEMMA ClampedRows ==
    ASSUME GapReportTypeOK
    PROVE  /\ IsFiniteSet(clamped)
           /\ \A r \in clamped :
                 /\ r.from \in Span /\ r.to \in Span /\ r.key \in Span
                 /\ r.from <= r.to /\ cutoffAt <= r.from
           /\ \A q, r \in clamped : q.key = r.key => q = r
<1> DEFINE live == {c \in Span \ healedGaps : gapTo[c] # Null /\ gapTo[c] >= cutoffAt}
           row(b) == [from |-> Later(b, cutoffAt), to |-> gapTo[b], key |-> b]
           rowOf == [b \in live |-> row(b)]
<1>1. clamped = {row(b) : b \in live}
    BY DEF clamped
<1>2. live \in SUBSET Span
    OBVIOUS
<1>3. IsFiniteSet(clamped)
    <2>1. IsFiniteSet(Span)
        BY SpanSizes, FS_Interval
    <2> HIDE DEF live, row
    <2>2. IsFiniteSet(live)
        BY <2>1, <1>2, FS_Subset
    <2>3. rowOf \in Surjection(live, clamped)
        BY <1>1 DEF Surjection
    <2> HIDE DEF rowOf
    <2> QED
        BY <2>2, <2>3, FS_Surjection
<1>4. ASSUME NEW b \in live
      PROVE  /\ Later(b, cutoffAt) \in Span /\ gapTo[b] \in Span
             /\ Later(b, cutoffAt) <= gapTo[b] /\ cutoffAt <= Later(b, cutoffAt)
    <2>1. /\ MaxTop \in Nat /\ Span = 1..MaxTop /\ Null = 0 /\ cutoffAt \in 0..MaxTop
          /\ b \in 1..MaxTop /\ gapTo[b] \in 0..MaxTop /\ gapTo[b] # 0
          /\ b <= gapTo[b] /\ gapTo[b] >= cutoffAt
        BY SpanSizes DEF GapReportTypeOK
    <2>2. Later(b, cutoffAt) = IF b >= cutoffAt THEN b ELSE cutoffAt
        BY <2>1, LaterOf
    <2> QED
        BY <2>1, <2>2
<1>5. ASSUME NEW r \in clamped
      PROVE  \E b \in live : r = row(b)
    <2> HIDE DEF live, row
    <2> QED
        BY <1>1
<1>6. ASSUME NEW r \in clamped
      PROVE  /\ r.from \in Span /\ r.to \in Span /\ r.key \in Span
             /\ r.from <= r.to /\ cutoffAt <= r.from
    <2>1. PICK b \in live : r = row(b)
        BY <1>5
    <2>2. r.from = Later(b, cutoffAt) /\ r.to = gapTo[b] /\ r.key = b
        BY <2>1
    <2> QED
        BY <1>2, <1>4, <2>1, <2>2
<1>7. ASSUME NEW q \in clamped, NEW r \in clamped, q.key = r.key
      PROVE  q = r
    <2>1. PICK a \in live : q = row(a)
        BY <1>5
    <2>2. PICK b \in live : r = row(b)
        BY <1>5
    <2> QED
        BY <1>7, <2>1, <2>2
<1> QED
    BY <1>3, <1>6, <1>7

\* The same, as numbers.
LEMMA RowNumbers ==
    ASSUME GapReportTypeOK, NEW r \in clamped
    PROVE  /\ r.from \in Nat /\ r.to \in Nat /\ r.key \in Nat /\ r.from <= r.to
           /\ 1 <= r.from /\ cutoffAt \in Nat /\ cutoffAt <= r.from /\ r.to <= MaxTop
<1>1. r.from \in Span /\ r.to \in Span /\ r.key \in Span /\ r.from <= r.to /\ cutoffAt <= r.from
    BY ClampedRows
<1>2. MaxTop \in Nat /\ Span = 1..MaxTop /\ cutoffAt \in 0..MaxTop
    BY SpanSizes
<1> QED
    BY <1>1, <1>2

\* A height is reported if a row has it.
LEMMA ReportedRows ==
    ASSUME GapReportTypeOK
    PROVE  /\ Reported \in SUBSET Span
           /\ \A r \in clamped, h \in Nat : r.from <= h /\ h <= r.to => h \in Reported
           /\ \A h \in Reported : \E r \in clamped : r.from <= h /\ h <= r.to
<1>1. /\ MaxTop \in Nat /\ Span = 1..MaxTop /\ Null = 0 /\ cutoffAt \in 0..MaxTop
      /\ \A b \in Span : gapTo[b] \in 0..MaxTop
    BY SpanSizes DEF GapReportTypeOK
<1>2. ASSUME NEW r \in clamped, NEW h \in Nat, r.from <= h, h <= r.to
      PROVE  h \in Reported
    <2>1. PICK b \in Span \ healedGaps :
              /\ gapTo[b] # Null /\ gapTo[b] >= cutoffAt
              /\ r = [from |-> Later(b, cutoffAt), to |-> gapTo[b], key |-> b]
        BY DEF clamped
    <2>2. r.from = Later(b, cutoffAt) /\ r.to = gapTo[b]
        BY <2>1
    <2>3. Later(b, cutoffAt) = IF b >= cutoffAt THEN b ELSE cutoffAt
        BY <1>1, <2>1, LaterOf
    <2>4. h \in 1..MaxTop /\ h >= cutoffAt /\ h \in b .. gapTo[b]
        BY <1>1, <1>2, <2>1, <2>2, <2>3
    <2> QED
        BY <1>1, <2>1, <2>4 DEF Reported
<1>3. ASSUME NEW h \in Reported
      PROVE  \E r \in clamped : r.from <= h /\ h <= r.to
    <2>1. h \in 1..MaxTop /\ h >= cutoffAt
        BY <1>1 DEF Reported
    <2>2. PICK b \in Span \ healedGaps : gapTo[b] # Null /\ h \in b .. gapTo[b]
        BY DEF Reported
    <2>3. Later(b, cutoffAt) = IF b >= cutoffAt THEN b ELSE cutoffAt
        BY <1>1, <2>2, LaterOf
    <2>4. gapTo[b] \in 0..MaxTop /\ b \in 1..MaxTop
        BY <1>1
    <2>5. gapTo[b] >= cutoffAt /\ Later(b, cutoffAt) <= h /\ h <= gapTo[b]
        BY <1>1, <2>1, <2>2, <2>3, <2>4
    <2>6. [from |-> Later(b, cutoffAt), to |-> gapTo[b], key |-> b] \in clamped
        BY <2>2, <2>5 DEF clamped
    <2> QED
        BY <2>5, <2>6
<1>4. Reported \in SUBSET Span
    BY DEF Reported
<1> QED
    BY <1>2, <1>3, <1>4

(***************************************************************************)
(* The order of the rows is total.                                         *)
(***************************************************************************)
LEMMA RowsOrdered ==
    ASSUME GapReportTypeOK
    PROVE  /\ \A q, r \in clamped : q = r \/ Precedes(q, r) \/ Precedes(r, q)
           /\ \A q, r \in clamped : Precedes(q, r) => ~Precedes(r, q) /\ q # r /\ q.from <= r.from
           /\ \A p, q, r \in clamped : Precedes(p, q) /\ Precedes(q, r) => Precedes(p, r)
<1>1. ASSUME NEW q \in clamped, NEW r \in clamped
      PROVE  /\ q = r \/ Precedes(q, r) \/ Precedes(r, q)
             /\ Precedes(q, r) => ~Precedes(r, q) /\ q # r /\ q.from <= r.from
    <2>1. q.from \in Nat /\ q.to \in Nat /\ q.key \in Nat /\ r.from \in Nat /\ r.to \in Nat /\ r.key \in Nat
        BY RowNumbers
    <2>2. q.key = r.key => q = r
        BY ClampedRows
    <2> QED
        BY <2>1, <2>2 DEF Precedes
<1>2. ASSUME NEW p \in clamped, NEW q \in clamped, NEW r \in clamped, Precedes(p, q), Precedes(q, r)
      PROVE  Precedes(p, r)
    <2>1. /\ p.from \in Nat /\ p.to \in Nat /\ p.key \in Nat
          /\ q.from \in Nat /\ q.to \in Nat /\ q.key \in Nat
          /\ r.from \in Nat /\ r.to \in Nat /\ r.key \in Nat
        BY RowNumbers
    <2> QED
        BY <1>2, <2>1 DEF Precedes
<1> QED
    BY <1>1, <1>2

\* Of some rows one is the last of all, and one the first.
LEMMA LastRow ==
    ASSUME GapReportTypeOK, NEW T \in SUBSET clamped, T # {}
    PROVE  \E r \in T : \A q \in T : q = r \/ Precedes(q, r)
<1> DEFINE Wrong == {R \in SUBSET T : R # {} /\ ~ \E r \in R : \A q \in R : q = r \/ Precedes(q, r)}
<1>1. SUFFICES ASSUME Wrong # {} PROVE FALSE
    <2>1. T \notin Wrong
        BY <1>1
    <2> QED
        BY <2>1
<1>2. PICK R \in Wrong : \A x \in R : R \ {x} \notin Wrong
    <2>1. Wrong \in SUBSET SUBSET T /\ IsFiniteSet(T)
        BY ClampedRows, FS_Subset
    <2> HIDE DEF Wrong
    <2> QED
        BY <1>1, <2>1, MinimalSubset
<1>3. PICK x \in R : TRUE
    BY <1>2
<1>4. R \ {x} # {}
    BY <1>2, <1>3
<1>5. PICK y \in R \ {x} : \A q \in R \ {x} : q = y \/ Precedes(q, y)
    BY <1>2, <1>4
<1>6. \A q \in R : q \in clamped
    BY <1>2
<1>7. CASE Precedes(x, y)
    BY <1>2, <1>5, <1>7
<1>8. CASE Precedes(y, x)
    <2>1. \A q \in R : q = x \/ Precedes(q, x)
        BY <1>5, <1>6, <1>8, RowsOrdered
    <2> QED
        BY <1>2, <2>1
<1> QED
    BY <1>5, <1>6, <1>7, <1>8, RowsOrdered

\* The first of some rows.
LEMMA FirstRow ==
    ASSUME GapReportTypeOK, NEW T \in SUBSET clamped, T # {}
    PROVE  \E r \in T : \A q \in T : q = r \/ Precedes(r, q)
<1> DEFINE Wrong == {R \in SUBSET T : R # {} /\ ~ \E r \in R : \A q \in R : q = r \/ Precedes(r, q)}
<1>1. SUFFICES ASSUME Wrong # {} PROVE FALSE
    <2>1. T \notin Wrong
        BY <1>1
    <2> QED
        BY <2>1
<1>2. PICK R \in Wrong : \A x \in R : R \ {x} \notin Wrong
    <2>1. Wrong \in SUBSET SUBSET T /\ IsFiniteSet(T)
        BY ClampedRows, FS_Subset
    <2> HIDE DEF Wrong
    <2> QED
        BY <1>1, <2>1, MinimalSubset
<1>3. PICK x \in R : TRUE
    BY <1>2
<1>4. R \ {x} # {}
    BY <1>2, <1>3
<1>5. PICK y \in R \ {x} : \A q \in R \ {x} : q = y \/ Precedes(y, q)
    BY <1>2, <1>4
<1>6. \A q \in R : q \in clamped
    BY <1>2
<1>7. CASE Precedes(y, x)
    BY <1>2, <1>5, <1>7
<1>8. CASE Precedes(x, y)
    <2>1. \A q \in R : q = x \/ Precedes(x, q)
        BY <1>5, <1>6, <1>8, RowsOrdered
    <2> QED
        BY <1>2, <2>1
<1> QED
    BY <1>5, <1>6, <1>7, <1>8, RowsOrdered

(***************************************************************************)
(* A row opens a group when no row before it reaches it, not even to touch.*)
(***************************************************************************)
LEMMA OpensBeyond ==
    ASSUME GapReportTypeOK, NEW r \in clamped
    PROVE  Opens(r) <=> \A q \in clamped : Precedes(q, r) => q.to + 1 < r.from
<1> DEFINE before == UpTo(r) \ {r}
<1>1. \A q : q \in before <=> q \in clamped /\ Precedes(q, r)
    BY RowsOrdered DEF UpTo
<1>2. Opens(r) <=> before = {} \/ r.from > prevMax(before) + 1
    BY DEF Opens
<1>3. ASSUME before # {}
      PROVE  \E q \in before : prevMax(before) = q.to /\ \A p \in before : p.to <= q.to
    <2> DEFINE ends == {q.to : q \in before}
    <2>1. ends \in SUBSET Span /\ ends # {}
        BY <1>1, <1>3, ClampedRows
    <2>2. Max(ends) \in ends /\ \A m \in ends : m <= Max(ends)
        <3> HIDE DEF ends
        <3> QED
            BY <2>1, GreatestHeight
    <2>3. prevMax(before) = Max(ends)
        BY DEF prevMax
    <2> QED
        BY <2>2, <2>3
<1> HIDE DEF before
<1>4. \A q \in before : q.to \in Nat /\ r.from \in Nat
    BY <1>1, RowNumbers
<1>5. CASE before = {}
    BY <1>1, <1>2, <1>5
<1>6. CASE before # {}
    <2>1. PICK q \in before : prevMax(before) = q.to /\ \A p \in before : p.to <= q.to
        BY <1>3, <1>6
    <2>2. Opens(r) <=> q.to + 1 < r.from
        BY <1>2, <1>4, <1>6, <2>1
    <2>3. q.to + 1 < r.from => \A p \in before : p.to + 1 < r.from
        BY <1>4, <2>1
    <2> QED
        BY <1>1, <2>1, <2>2, <2>3
<1> QED
    BY <1>5, <1>6

\* The rows that opened a group no later than r.
Openers(r) == {q \in UpTo(r) : Opens(q)}

(***************************************************************************)
(* Of two rows the later has the mark of the earlier or a greater one, and *)
(* has the same if no row in between, itself included, opens a group.      *)
(***************************************************************************)
LEMMA MarksGrow ==
    ASSUME GapReportTypeOK, NEW q \in clamped, NEW r \in clamped, Precedes(q, r)
    PROVE  /\ marked(q) \in Nat /\ marked(r) \in Nat /\ marked(q) <= marked(r)
           /\ marked(q) = marked(r) => Openers(q) = Openers(r)
<1>1. Openers(q) \in SUBSET Openers(r)
    BY RowsOrdered DEF Openers, UpTo
<1>2. Openers(r) \in SUBSET clamped
    BY DEF Openers, UpTo
<1>3. IsFiniteSet(Openers(r)) /\ IsFiniteSet(Openers(q))
    <2>1. IsFiniteSet(Openers(r))
        BY <1>2, ClampedRows, FS_Subset
    <2> QED
        BY <1>1, <2>1, FS_Subset
<1>4. marked(q) = Cardinality(Openers(q)) /\ marked(r) = Cardinality(Openers(r))
    BY DEF marked, Openers
<1> QED
    BY <1>1, <1>3, <1>4, FS_CardinalityType, FS_Subset

\* A row in between has the same mark as both ends.
LEMMA MarksBetween ==
    ASSUME GapReportTypeOK, NEW p \in clamped, NEW q \in clamped, NEW r \in clamped,
           Precedes(p, q), Precedes(q, r), marked(p) = marked(r)
    PROVE  marked(q) = marked(r)
<1>1. marked(p) \in Nat /\ marked(q) \in Nat /\ marked(r) \in Nat /\ marked(p) <= marked(q)
      /\ marked(q) <= marked(r)
    BY MarksGrow
<1> QED
    BY <1>1

\* A row of the mark of an earlier one does not open a group.
LEMMA InsideGroup ==
    ASSUME GapReportTypeOK, NEW q \in clamped, NEW r \in clamped,
           Precedes(q, r), marked(q) = marked(r)
    PROVE  ~Opens(r)
<1>1. Openers(q) = Openers(r)
    BY MarksGrow
<1>2. r \notin UpTo(q)
    BY RowsOrdered DEF UpTo
<1> QED
    BY <1>1, <1>2 DEF Openers, UpTo

(***************************************************************************)
(* Between rows of different groups the later group was opened.            *)
(***************************************************************************)
LEMMA GroupOpened ==
    ASSUME GapReportTypeOK, NEW q \in clamped, NEW r \in clamped,
           Precedes(q, r), marked(q) # marked(r)
    PROVE  \E o \in clamped : /\ Opens(o) /\ Precedes(q, o) /\ (o = r \/ Precedes(o, r))
                              /\ marked(o) = marked(r)
<1> DEFINE late == Openers(r) \ Openers(q)
<1>1. late # {}
    <2>1. Openers(q) \subseteq Openers(r)
        BY RowsOrdered DEF Openers, UpTo
    <2>2. Openers(q) # Openers(r)
        BY DEF marked, Openers
    <2> QED
        BY <2>1, <2>2
<1>2. late \in SUBSET clamped
    BY DEF Openers, UpTo
<1>3. PICK o \in late : \A p \in late : p = o \/ Precedes(p, o)
    <2> HIDE DEF late
    <2> QED
        BY <1>1, <1>2, LastRow
<1>4. o \in clamped /\ Opens(o) /\ (o = r \/ Precedes(o, r)) /\ o # q /\ ~Precedes(o, q)
    BY <1>3 DEF Openers, UpTo
<1>5. Precedes(q, o)
    BY <1>4, RowsOrdered
<1>6. Openers(o) = Openers(r)
    <2>1. Openers(o) \subseteq Openers(r)
        BY <1>4, RowsOrdered DEF Openers, UpTo
    <2>2. ASSUME NEW p \in Openers(r) PROVE p \in Openers(o)
        <3>1. p \in clamped /\ Opens(p)
            BY DEF Openers, UpTo
        <3>2. CASE p \in Openers(q)
            BY <1>4, <1>5, <3>2, RowsOrdered DEF Openers, UpTo
        <3>3. CASE p \notin Openers(q)
            BY <1>3, <3>1, <3>3 DEF Openers, UpTo
        <3> QED
            BY <3>2, <3>3
    <2> QED
        BY <2>1, <2>2
<1>7. marked(o) = marked(r)
    BY <1>6 DEF marked, Openers
<1> QED
    BY <1>4, <1>5, <1>7

(***************************************************************************)
(* A merged row goes from the least beginning to the greatest end of its   *)
(* group.                                                                  *)
(***************************************************************************)
LEMMA JoinedEnds ==
    ASSUME GapReportTypeOK, NEW m \in merged
    PROVE  /\ m = [from |-> m.from, to |-> m.to]
           /\ m.from \in Span /\ m.to \in Span
           /\ \E first, last \in clamped :
                 /\ first.from = m.from /\ last.to = m.to /\ marked(first) = marked(last)
                 /\ \A r \in clamped : marked(r) = marked(last) => m.from <= r.from /\ r.to <= m.to
<1>1. PICK s \in clamped : m = joined(marked(s))
    BY DEF merged
<1> DEFINE froms == {r.from : r \in group(marked(s))}
           ends == {r.to : r \in group(marked(s))}
<1>2. \A r : r \in group(marked(s)) <=> r \in clamped /\ marked(r) = marked(s)
    BY DEF group
<1>3. froms \in SUBSET Span /\ froms # {} /\ ends \in SUBSET Span /\ ends # {}
    BY <1>2, ClampedRows
<1>4. m = [from |-> Min(froms), to |-> Max(ends)]
    BY <1>1 DEF joined
<1>5. Max(ends) \in ends /\ \A n \in ends : n <= Max(ends)
    <2> HIDE DEF ends
    <2> QED
        BY <1>3, GreatestHeight
<1>6. Min(froms) \in froms /\ \A n \in froms : Min(froms) <= n
    <2> HIDE DEF froms
    <2>1. froms \in SUBSET Nat
        BY <1>3, SpanSizes
    <2> QED
        BY <1>3, <2>1, LeastOf
<1>7. PICK first \in group(marked(s)) : first.from = Min(froms)
    BY <1>6
<1>8. PICK last \in group(marked(s)) : last.to = Max(ends)
    BY <1>5
<1>9. \A r \in group(marked(s)) : Min(froms) <= r.from /\ r.to <= Max(ends)
    BY <1>5, <1>6
<1>10. m.from = Min(froms) /\ m.to = Max(ends)
    BY <1>4
<1>11. Min(froms) \in Span /\ Max(ends) \in Span
    BY <1>3, <1>5, <1>6
<1> HIDE DEF froms, ends
<1> QED
    BY <1>2, <1>4, <1>7, <1>8, <1>9, <1>10, <1>11

\* The ends of a merged row as numbers.
LEMMA JoinedNumbers ==
    ASSUME GapReportTypeOK, NEW m \in merged
    PROVE  m.from \in Nat /\ m.to \in Nat /\ 1 <= m.from /\ m.from <= m.to /\ m.to <= MaxTop
<1>1. PICK first \in clamped, last \in clamped :
          /\ first.from = m.from /\ last.to = m.to /\ marked(first) = marked(last)
          /\ \A r \in clamped : marked(r) = marked(last) => m.from <= r.from /\ r.to <= m.to
    BY JoinedEnds
<1>2. m.from <= last.from /\ last.from <= last.to /\ last.from \in Nat
    BY <1>1, RowNumbers
<1>3. m.from \in 1..MaxTop /\ m.to \in 1..MaxTop /\ MaxTop \in Nat
    BY JoinedEnds, SpanSizes
<1> QED
    BY <1>1, <1>2, <1>3

\* Every reported height is in a merged row.
LEMMA ReportedIsMerged ==
    ASSUME GapReportTypeOK, NEW h \in Reported
    PROVE  \E m \in merged : m.from <= h /\ h <= m.to
<1>1. PICK r \in clamped : r.from <= h /\ h <= r.to
    BY ReportedRows
<1> DEFINE froms == {q.from : q \in group(marked(r))}
           ends == {q.to : q \in group(marked(r))}
           m == joined(marked(r))
<1>2. m \in merged
    BY DEF merged
<1>3. r \in group(marked(r))
    BY DEF group
<1>4. r.from \in froms /\ r.to \in ends /\ froms \in SUBSET Span /\ ends \in SUBSET Span
    BY <1>3, ClampedRows DEF group
<1>5. r.to <= Max(ends) /\ Max(ends) \in Span
    <2> HIDE DEF ends
    <2> QED
        BY <1>4, GreatestHeight
<1>6. Min(froms) <= r.from /\ Min(froms) \in Span
    <2> HIDE DEF froms
    <2>1. froms \in SUBSET Nat
        BY <1>4, SpanSizes
    <2> QED
        BY <1>4, <2>1, LeastOf
<1>7. m.from = Min(froms) /\ m.to = Max(ends)
    BY DEF joined
<1>8. r.from \in Nat /\ r.to \in Nat /\ h \in Nat
    BY RowNumbers, ReportedRows, SpanSizes
<1>9. Min(froms) \in Nat /\ Max(ends) \in Nat
    BY <1>5, <1>6, SpanSizes
<1>10. m.from <= h /\ h <= m.to
    <2> HIDE DEF froms, ends, m
    <2> QED
        BY <1>1, <1>5, <1>6, <1>7, <1>8, <1>9
<1> QED
    BY <1>2, <1>10

(***************************************************************************)
(* Every height of a merged row is reported: past a height that no row     *)
(* has, the next row would have opened a group of its own.                 *)
(***************************************************************************)
LEMMA MergedIsReported ==
    ASSUME GapReportTypeOK, NEW m \in merged, NEW h \in Nat, m.from <= h, h <= m.to
    PROVE  h \in Reported
<1>1. PICK first \in clamped, last \in clamped :
          /\ first.from = m.from /\ last.to = m.to /\ marked(first) = marked(last)
          /\ \A r \in clamped : marked(r) = marked(last) => m.from <= r.from /\ r.to <= m.to
    BY JoinedEnds
<1> DEFINE beyond == {r \in clamped : marked(r) = marked(last) /\ h < r.from}
<1>2. SUFFICES ASSUME h \notin Reported PROVE FALSE
    OBVIOUS
<1>3. \A r \in clamped : r.from <= h => r.to < h
    BY <1>2, ReportedRows, RowNumbers
<1>4. last \in beyond
    <2>1. last.from \in Nat /\ last.to \in Nat
        BY RowNumbers
    <2> QED
        BY <1>1, <1>3, <2>1
<1>5. PICK r \in beyond : \A q \in beyond : q = r \/ Precedes(r, q)
    <2>1. beyond \in SUBSET clamped /\ beyond # {}
        BY <1>4
    <2> HIDE DEF beyond
    <2> QED
        BY <2>1, FirstRow
<1>6. r.from \in Nat /\ first.from \in Nat /\ first.from < r.from
    BY <1>1, <1>5, RowNumbers
<1>7. Precedes(first, r) /\ ~Opens(r)
    <2>1. Precedes(first, r)
        BY <1>6 DEF Precedes
    <2> QED
        BY <1>1, <1>5, <2>1, InsideGroup
<1>8. PICK q \in clamped : Precedes(q, r) /\ ~(q.to + 1 < r.from)
    BY <1>5, <1>7, OpensBeyond
<1>9. q.from \in Nat /\ q.to \in Nat
    BY RowNumbers
<1>10. h < q.from
    BY <1>3, <1>5, <1>6, <1>8, <1>9
<1>11. Precedes(first, q)
    BY <1>1, <1>6, <1>9, <1>10 DEF Precedes
<1>12. marked(q) = marked(last)
    BY <1>1, <1>5, <1>8, <1>11, MarksBetween
<1>13. q = r \/ Precedes(r, q)
    BY <1>5, <1>10, <1>12
<1> QED
    BY <1>5, <1>8, <1>13, RowsOrdered

(***************************************************************************)
(* The height below a merged row is not reported, nor is the one above it. *)
(***************************************************************************)
LEMMA MergedIsMaximal ==
    ASSUME GapReportTypeOK, NEW m \in merged
    PROVE  m.from - 1 \notin Reported /\ m.to + 1 \notin Reported
<1>1. PICK first \in clamped, last \in clamped :
          /\ first.from = m.from /\ last.to = m.to /\ marked(first) = marked(last)
          /\ \A r \in clamped : marked(r) = marked(last) => m.from <= r.from /\ r.to <= m.to
    BY JoinedEnds
<1>2. m.from \in Nat /\ m.to \in Nat
    BY JoinedNumbers
<1>3. ASSUME NEW s \in clamped, NEW o \in clamped, Opens(o), Precedes(s, o)
      PROVE  s.to \in Nat /\ o.from \in Nat /\ o.to \in Nat /\ o.from <= o.to /\ s.to + 1 < o.from
    BY <1>3, OpensBeyond, RowNumbers
<1>4. ASSUME m.from - 1 \in Reported
      PROVE  FALSE
    <2>1. PICK s \in clamped : s.from <= m.from - 1 /\ m.from - 1 <= s.to
        BY <1>4, ReportedRows
    <2>2. s.from \in Nat /\ s.to \in Nat /\ s.from < first.from
        BY <1>1, <1>2, <2>1, RowNumbers
    <2>3. Precedes(s, first)
        BY <2>2 DEF Precedes
    <2>4. marked(s) # marked(first)
        BY <1>1, <1>2, <2>1, <2>2
    <2>5. PICK o \in clamped : /\ Opens(o) /\ Precedes(s, o) /\ (o = first \/ Precedes(o, first))
                               /\ marked(o) = marked(first)
        BY <2>3, <2>4, GroupOpened
    <2>6. s.to + 1 < o.from /\ o.from \in Nat
        BY <1>3, <2>5
    <2>7. o.from <= first.from
        <3>1. first.from \in Nat
            BY RowNumbers
        <3> QED
            BY <2>5, <3>1, RowsOrdered
    <2> QED
        BY <1>1, <1>2, <2>1, <2>2, <2>6, <2>7
<1>5. ASSUME m.to + 1 \in Reported
      PROVE  FALSE
    <2>1. PICK s \in clamped : s.from <= m.to + 1 /\ m.to + 1 <= s.to
        BY <1>5, ReportedRows
    <2>2. s.from \in Nat /\ s.to \in Nat
        BY RowNumbers
    <2>3. marked(s) # marked(last)
        BY <1>1, <1>2, <2>1, <2>2
    <2>4. CASE Precedes(s, last)
        <3>1. PICK o \in clamped : Opens(o) /\ Precedes(s, o) /\ marked(o) = marked(last)
            BY <2>3, <2>4, GroupOpened
        <3>2. s.to + 1 < o.from /\ o.from <= o.to /\ o.from \in Nat /\ o.to \in Nat /\ o.to <= m.to
            BY <1>1, <1>3, <3>1
        <3> QED
            BY <1>2, <2>1, <2>2, <3>2
    <2>5. CASE Precedes(last, s)
        <3>1. PICK o \in clamped : Opens(o) /\ Precedes(last, o) /\ (o = s \/ Precedes(o, s))
            BY <2>3, <2>5, GroupOpened
        <3>2. last.to + 1 < o.from /\ o.from \in Nat /\ last.to \in Nat
            BY <1>3, <3>1
        <3>3. o.from <= s.from
            BY <2>2, <3>1, RowsOrdered
        <3> QED
            BY <1>1, <1>2, <2>1, <2>2, <3>2, <3>3
    <2> QED
        BY <2>3, <2>4, <2>5, RowsOrdered
<1> QED
    BY <1>4, <1>5

\* Two merged rows that share a height are one.
LEMMA MergedApart ==
    ASSUME GapReportTypeOK, NEW m \in merged, NEW n \in merged, NEW h \in Nat,
           m.from <= h, h <= m.to, n.from <= h, h <= n.to
    PROVE  m = n
<1>1. \A k \in merged : /\ k.from \in Nat /\ k.to \in Nat /\ 1 <= k.from
                        /\ k.from - 1 \notin Reported /\ k.to + 1 \notin Reported
                        /\ \A i \in Nat : k.from <= i /\ i <= k.to => i \in Reported
                        /\ k = [from |-> k.from, to |-> k.to]
    BY JoinedNumbers, MergedIsMaximal, MergedIsReported, JoinedEnds
<1>2. ASSUME NEW k \in merged, NEW i \in merged, k.from <= h, h <= k.to, i.from <= h, h <= i.to
      PROVE  ~(k.from < i.from) /\ ~(k.to < i.to)
    <2>1. ~(k.from < i.from)
        <3>1. i.from - 1 \in Nat /\ i.from - 1 <= k.to
            BY <1>1, <1>2
        <3> QED
            BY <1>1, <3>1
    <2>2. ~(k.to < i.to)
        <3>1. k.to + 1 \in Nat /\ i.from <= k.to + 1
            BY <1>1, <1>2
        <3> QED
            BY <1>1, <3>1
    <2> QED
        BY <2>1, <2>2
<1>3. m.from = n.from /\ m.to = n.to
    BY <1>1, <1>2
<1> QED
    BY <1>1, <1>3

-----------------------------------------------------------------------------
\* The merged rows are finitely many.
LEMMA MergedFinite == ASSUME GapReportTypeOK PROVE IsFiniteSet(merged)
<1> DEFINE runOf == [r \in clamped |-> joined(marked(r))]
<1>1. runOf \in Surjection(clamped, merged)
    BY DEF merged, Surjection
<1> HIDE DEF runOf
<1> QED
    BY <1>1, ClampedRows, FS_Surjection

\* The report counts the runs: each is told by the height where it begins.
LEMMA GapsCounted ==
    ASSUME GapReportTypeOK
    PROVE  gapCount = Cardinality({h \in Reported : h - 1 \notin Reported})
<1> DEFINE begins == {h \in Reported : h - 1 \notin Reported}
           beginOf == [m \in merged |-> m.from]
<1>1. \A m \in merged : m.from \in begins
    BY MergedIsReported, MergedIsMaximal, JoinedNumbers
<1>2. \A m, n \in merged : m.from = n.from => m = n
    BY MergedApart, JoinedNumbers
<1>3. ASSUME NEW h \in begins
      PROVE  \E m \in merged : m.from = h
    <2>1. h \in Nat /\ 1 <= h
        BY ReportedRows, SpanSizes
    <2>2. PICK m \in merged : m.from <= h /\ h <= m.to
        BY ReportedIsMerged
    <2>3. m.from \in Nat /\ m.to \in Nat
        BY JoinedNumbers
    <2>4. ~(m.from < h)
        <3>1. ASSUME m.from < h PROVE h - 1 \in Reported
            <4>1. h - 1 \in Nat /\ m.from <= h - 1 /\ h - 1 <= m.to
                BY <2>1, <2>2, <2>3, <3>1
            <4> QED
                BY <4>1, MergedIsReported
        <3> QED
            BY <3>1
    <2> QED
        BY <2>1, <2>2, <2>3, <2>4
<1>4. beginOf \in Bijection(merged, begins)
    <2>1. beginOf \in [merged -> begins]
        BY <1>1
    <2>2. \A m, n \in merged : beginOf[m] = beginOf[n] => m = n
        BY <1>2
    <2>3. \A h \in begins : \E m \in merged : beginOf[m] = h
        BY <1>3
    <2> HIDE DEF beginOf, begins
    <2> QED
        BY <2>1, <2>2, <2>3 DEF Bijection, Injection, Surjection, IsInjective
<1>5. Cardinality(begins) = Cardinality(merged)
    <2> HIDE DEF beginOf, begins
    <2>1. ExistsBijection(merged, begins)
        BY <1>4 DEF ExistsBijection
    <2> QED
        BY <2>1, MergedFinite, FS_Bijection
<1> QED
    BY <1>5 DEF gapCount

\* The heights of some merged rows.
HeightsOf(T) == {h \in Span : \E m \in T : m.from <= h /\ h <= m.to}

\* The report counts the heights: the lengths of the runs, which share none.
LEMMA BlocksCounted ==
    ASSUME GapReportTypeOK
    PROVE  missingBlocks = Cardinality(Reported)
<1> DEFINE size == [m \in merged |-> m.to - m.from + 1]
<1>1. \A m \in merged : m.from \in Nat /\ m.to \in Nat /\ 1 <= m.from /\ m.from <= m.to /\ m.to <= MaxTop
    BY JoinedNumbers
<1>2. \A m \in merged : size[m] \in Nat /\ size[m] = m.to - m.from + 1
    BY <1>1
<1>3. missingBlocks = SumFunctionOnSet(size, merged)
    BY DEF missingBlocks, SumFunction
<1>4. IsFiniteSet(Span) /\ \A T : IsFiniteSet(HeightsOf(T))
    <2>1. IsFiniteSet(Span)
        BY SpanSizes, FS_Interval
    <2> QED
        BY <2>1, FS_Subset DEF HeightsOf
<1> HIDE DEF size
<1>5. SumFunctionOnSet(size, merged) = Cardinality(HeightsOf(merged))
    <2> DEFINE Wrong == {T \in SUBSET merged : SumFunctionOnSet(size, T) # Cardinality(HeightsOf(T))}
    <2>1. SUFFICES ASSUME Wrong # {} PROVE FALSE
        OBVIOUS
    <2>2. PICK T \in Wrong : \A x \in T : T \ {x} \notin Wrong
        <3>1. Wrong \in SUBSET SUBSET merged
            OBVIOUS
        <3> HIDE DEF Wrong
        <3> QED
            BY <2>1, <3>1, MergedFinite, MinimalSubset
    <2>3. T # {}
        <3>1. HeightsOf({}) = {}
            BY DEF HeightsOf
        <3> QED
            BY <2>2, <3>1, SumEmpty, FS_EmptySet
    <2>4. PICK m \in T : TRUE
        BY <2>3
    <2>5. T \in SUBSET merged /\ IsFiniteSet(T) /\ m \in merged
        BY <2>2, <2>4, MergedFinite, FS_Subset
    <2> DEFINE others == HeightsOf(T \ {m})
               own == m.from .. m.to
    <2>6. SumFunctionOnSet(size, T) = size[m] + SumFunctionOnSet(size, T \ {m})
        BY <1>2, <2>4, <2>5, SumRemove
    <2>7. SumFunctionOnSet(size, T \ {m}) = Cardinality(others)
        BY <2>2, <2>4
    <2>8. IsFiniteSet(own) /\ Cardinality(own) = size[m]
        <3>1. m.from \in Int /\ m.to \in Int /\ ~(m.from > m.to)
            BY <1>1, <2>5
        <3> QED
            BY <1>2, <2>5, <3>1, FS_Interval
    <2>9. HeightsOf(T) = others \cup own
        <3>1. own \subseteq Span
            BY <1>1, <2>5, SpanSizes
        <3>2. \A h \in Span : m.from <= h /\ h <= m.to <=> h \in own
            BY <1>1, <2>5, SpanSizes
        <3> HIDE DEF own
        <3> QED
            BY <2>4, <3>1, <3>2 DEF HeightsOf
    <2>10. others \cap own = {}
        <3> SUFFICES ASSUME NEW h \in others, h \in own PROVE FALSE
            OBVIOUS
        <3>1. PICK n \in T \ {m} : n.from <= h /\ h <= n.to
            BY DEF HeightsOf
        <3>2. h \in Nat /\ m.from <= h /\ h <= m.to
            BY <1>1, <2>5
        <3> QED
            BY <2>5, <3>1, <3>2, MergedApart
    <2>11. Cardinality(HeightsOf(T)) = Cardinality(others) + Cardinality(own)
        <3>1. IsFiniteSet(others) /\ Cardinality(others) \in Nat /\ Cardinality(own) \in Nat
            BY <1>4, <2>8, FS_CardinalityType
        <3> HIDE DEF others, own
        <3>2. Cardinality(others \cup own)
                = Cardinality(others) + Cardinality(own) - Cardinality(others \cap own)
            BY <2>8, <3>1, FS_Union
        <3>3. Cardinality(others \cap own) = 0
            BY <2>10, FS_EmptySet
        <3>4. Cardinality(others \cup own) = Cardinality(others) + Cardinality(own)
            BY <3>1, <3>2, <3>3
        <3> QED
            BY <2>9, <3>4
    <2>12. Cardinality(others) \in Nat /\ size[m] \in Nat
        BY <1>2, <1>4, <2>5, FS_CardinalityType
    <2> HIDE DEF others, own
    <2> QED
        BY <2>2, <2>6, <2>7, <2>8, <2>11, <2>12
<1>6. HeightsOf(merged) = Reported
    <2>1. ASSUME NEW h \in HeightsOf(merged) PROVE h \in Reported
        <3>1. h \in Nat
            BY SpanSizes DEF HeightsOf
        <3> QED
            BY <3>1, MergedIsReported DEF HeightsOf
    <2>2. ASSUME NEW h \in Reported PROVE h \in HeightsOf(merged)
        BY ReportedRows, ReportedIsMerged DEF HeightsOf
    <2> QED
        BY <2>1, <2>2
<1> QED
    BY <1>3, <1>5, <1>6

\* The oldest run begins at the least height reported.
LEMMA OldestReported ==
    ASSUME GapReportTypeOK
    PROVE  oldestFrom = IF Reported = {} THEN Null ELSE Min(Reported)
<1>1. merged = {} <=> Reported = {}
    BY ReportedIsMerged, MergedIsReported, JoinedNumbers
<1>2. CASE merged = {}
    BY <1>1, <1>2 DEF oldestFrom
<1>3. CASE merged # {}
    <2> DEFINE froms == {m.from : m \in merged}
    <2>1. froms \in SUBSET Nat /\ froms # {} /\ Reported \in SUBSET Nat /\ Reported # {}
        BY <1>1, <1>3, JoinedNumbers, ReportedRows, SpanSizes
    <2>2. Min(froms) \in froms /\ \A n \in froms : Min(froms) <= n
        <3> HIDE DEF froms
        <3> QED
            BY <2>1, LeastOf
    <2>3. Min(Reported) \in Reported /\ \A n \in Reported : Min(Reported) <= n
        BY <2>1, LeastOf
    <2>4. Min(froms) \in Reported
        BY <2>2, MergedIsReported, JoinedNumbers
    <2>5. PICK m \in merged : m.from <= Min(Reported)
        BY <2>3, ReportedIsMerged
    <2>6. Min(froms) <= m.from /\ m.from \in Nat
        BY <2>2, JoinedNumbers
    <2>7. Min(froms) \in Nat /\ Min(Reported) \in Nat
        BY <2>1, <2>2, <2>3
    <2>8. oldestFrom = Min(froms)
        BY <1>3 DEF oldestFrom
    <2> HIDE DEF froms
    <2>9. Min(froms) = Min(Reported)
        BY <2>3, <2>4, <2>5, <2>6, <2>7
    <2> QED
        BY <2>1, <2>8, <2>9
<1> QED
    BY <1>2, <1>3

(***************************************************************************)
(* What the health endpoint reports is exact (index-gaps.ts:103-168): the  *)
(* merged rows are the maximal runs of the heights some open range holds,  *)
(* in every table that skips, rollbacks, healed and abandoned ranges and a *)
(* rising floor leave, of any height.                                      *)
(***************************************************************************)
THEOREM ReportExactSafe == GapReportSpec => []ReportExact
<1>1. GapReportInv => ReportExact
    BY GapsCounted, BlocksCounted, OldestReported DEF GapReportInv, ReportExact
<1> QED
    BY <1>1, GapReportInvariance, PTL

\* No merged row, no open range above the floor.
LEMMA NothingMerged ==
    ASSUME GapReportTypeOK, ~(gapCount > 0)
    PROVE  clamped = {}
<1>1. Cardinality(merged) \in Nat
    BY MergedFinite, FS_CardinalityType
<1>2. merged = {}
    BY <1>1, MergedFinite, FS_EmptySet DEF gapCount
<1> QED
    BY <1>2 DEF merged

(***************************************************************************)
(* A green report is true (index-gaps.ts:30-33, 88-101): ok means that     *)
(* every height from trackedFromBlock to the cursor has its row, or lost   *)
(* it to an unwind that was reported failed.                               *)
(***************************************************************************)
THEOREM GreenIsTrueSafe == GapReportSpec => []GreenIsTrue
<1>1. GapReportInv => GreenIsTrue
    <2> SUFFICES ASSUME GapReportInv, completenessStatus = "ok",
                        NEW h \in trackedFromBlock .. cursorAt,
                        h \notin rowsOf, h \notin dropped
                 PROVE  FALSE
        BY DEF GreenIsTrue
    <2>1. ~(gapCount > 0) /\ trackedFromBlock # Null
        BY DEF completenessStatus
    <2>2. clamped = {}
        BY <2>1, NothingMerged DEF GapReportInv
    <2>3. /\ GapReportTypeOK /\ PassedOrRecorded
          /\ MaxTop \in Nat /\ Span = 1..MaxTop /\ Null = 0
          /\ cursorAt \in 0..MaxTop /\ cutoffAt \in 0..MaxTop /\ tracked \in 0..MaxTop
        BY SpanSizes DEF GapReportInv, GapReportTypeOK
    <2>4. h \in Span /\ h >= cutoffAt /\ h <= cursorAt
        <3>1. tracked # 0 /\ trackedFromBlock = Later(tracked, cutoffAt)
            BY <2>1, <2>3 DEF trackedFromBlock
        <3>2. trackedFromBlock = IF tracked >= cutoffAt THEN tracked ELSE cutoffAt
            BY <2>3, <3>1, LaterOf
        <3>3. trackedFromBlock \in Nat /\ trackedFromBlock >= 1 /\ trackedFromBlock >= cutoffAt
            BY <2>3, <3>1, <3>2
        <3> QED
            BY <2>3, <3>3
    <2>5. PICK b \in Span : Open(b) /\ b <= h /\ h <= gapTo[b]
        BY <2>3, <2>4 DEF PassedOrRecorded
    <2>6. gapTo[b] >= cutoffAt
        BY <2>3, <2>4, <2>5, SpanSizes
    <2>7. [from |-> Later(b, cutoffAt), to |-> gapTo[b], key |-> b] \in clamped
        BY <2>5, <2>6 DEF clamped, Open
    <2> QED
        BY <2>2, <2>7
<1> QED
    BY <1>1, GapReportInvariance, PTL
===============================================================================
