---------------------------- MODULE IndexerProofs ----------------------------
(***************************************************************************)
(* Theorems about Indexer, for every bound of the model: the indexer drives *)
(* its transfer writer only as TransferWriter allows, the types are right,  *)
(* the cursor is accounted for, and outside two named cases a restart       *)
(* loses nothing.                                                           *)
(*                                                                         *)
(* LoopInv is the invariant of the composition.  It holds the writer's own  *)
(* invariant, which TransferWriterProofs proves of every step of the        *)
(* writer; so the proof first shows that every step of the indexer is one   *)
(* of those, or leaves the writer alone.                                    *)
(***************************************************************************)
EXTENDS Indexer, WellFoundedInduction, FiniteSetTheorems, TLAPS

WP == INSTANCE TransferWriterProofs WITH Decodes <- Epochs

-----------------------------------------------------------------------------
(***************************************************************************)
(* The writer that Indexer composes is the one TransferWriterProofs is     *)
(* about.                                                                  *)
(***************************************************************************)
LEMMA WriterAssumptions ==
  WP!HeightAssumption /\ WP!BatchAssumption /\ WP!RowsAssumption
<1>1. WP!HeightAssumption
  BY BoundsAssumption DEF WP!HeightAssumption
<1>2. WP!BatchAssumption
  BY MarkersAssumption DEF WP!BatchAssumption, WP!Excuses
<1>3. WP!RowsAssumption
  BY BoundsAssumption DEF WP!RowsAssumption, RowsOf
<1>4. QED
  BY <1>1, <1>2, <1>3

(***************************************************************************)
(* The rows of a queue are counted alike.                                  *)
(***************************************************************************)
LEMMA RowsSame ==
  \A q, S : W!RowsIn(q, S) = WP!RowsIn(q, S)
BY Zenon DEF W!RowsIn, WP!RowsIn, W!SumFunctionOnSet, WP!SumFunctionOnSet,
   W!FoldFunctionOnSet, WP!FoldFunctionOnSet, W!MapThenFoldSet, WP!MapThenFoldSet,
   W!Heights, WP!Heights, W!BatchRows, WP!BatchRows, W!IsReal, WP!IsReal

(***************************************************************************)
(* Each action of the writer.                                              *)
(***************************************************************************)
LEMMA ActionsSame == W!Next <=> WP!Next
<1>1. \A seed : W!InitTransferWriter(seed) <=> WP!InitTransferWriter(seed)
  BY DEF W!InitTransferWriter, WP!InitTransferWriter, W!queueVars, WP!queueVars,
     W!Excuse, WP!Excuse, W!UpTo, WP!UpTo, W!Heights, WP!Heights
<1>2. \A m : W!AdoptMaxIndexed(m) <=> WP!AdoptMaxIndexed(m)
  BY DEF W!AdoptMaxIndexed, WP!AdoptMaxIndexed, W!memoryVars, WP!memoryVars,
     W!queueVars, WP!queueVars, W!Excuse, WP!Excuse, W!UpTo, WP!UpTo,
     W!Heights, WP!Heights
<1>3. \A n, d : W!EnqueueTransferWrite(n, d) <=> WP!EnqueueTransferWrite(n, d)
  BY DEF W!EnqueueTransferWrite, WP!EnqueueTransferWrite, W!RowsInstead,
     WP!RowsInstead, W!BatchRows, WP!BatchRows, W!IsReal, WP!IsReal,
     W!EvaluateHighWater, WP!EvaluateHighWater, W!RunTransferWriter,
     WP!RunTransferWriter, W!NoQueue, WP!NoQueue, W!Heights, WP!Heights,
     W!Queued, WP!Queued
<1>4. \A n : W!EnqueueQuarantinedBlock(n) <=> WP!EnqueueQuarantinedBlock(n)
  BY DEF W!EnqueueQuarantinedBlock, WP!EnqueueQuarantinedBlock, W!RowsInstead,
     WP!RowsInstead, W!BatchRows, WP!BatchRows, W!IsReal, WP!IsReal,
     W!EvaluateHighWater, WP!EvaluateHighWater, W!RunTransferWriter,
     WP!RunTransferWriter, W!NoQueue, WP!NoQueue, W!Heights, WP!Heights,
     W!Queued, WP!Queued, W!Excuse, WP!Excuse
<1>5. \A b : W!SetDurableFloor(b) <=> WP!SetDurableFloor(b)
  BY DEF W!SetDurableFloor, WP!SetDurableFloor, W!queueVars, WP!queueVars,
     W!Above, WP!Above, W!UpTo, WP!UpTo, W!Excuse, WP!Excuse, W!Heights,
     WP!Heights
<1>6. \A b : W!FloorPersistSettles(b) <=> WP!FloorPersistSettles(b)
  BY DEF W!FloorPersistSettles, WP!FloorPersistSettles, W!queueVars, WP!queueVars
<1>7. W!WriteCommits <=> WP!WriteCommits
  BY DEF W!WriteCommits, WP!WriteCommits, W!IsReal, WP!IsReal, W!Heights,
     WP!Heights
<1>8. W!WriteReturns <=> WP!WriteReturns
  BY DEF W!WriteReturns, WP!WriteReturns, W!Queued, WP!Queued, W!Heights,
     WP!Heights, W!Above, WP!Above, W!UpTo, WP!UpTo, W!FoldsTo, WP!FoldsTo,
     W!NextPass, WP!NextPass, W!RunTransferWriter, WP!RunTransferWriter,
     W!NoQueue, WP!NoQueue, W!EvaluateHighWater, WP!EvaluateHighWater
<1>9. W!PersistLands <=> WP!PersistLands
  BY DEF W!PersistLands, WP!PersistLands
<1>10. W!PersistReturns <=> WP!PersistReturns
  BY DEF W!PersistReturns, WP!PersistReturns, W!UpTo, WP!UpTo, W!Above, WP!Above,
     W!Heights, WP!Heights, W!NextPass, WP!NextPass, W!RunTransferWriter,
     WP!RunTransferWriter, W!NoQueue, WP!NoQueue, W!Queued, WP!Queued,
     W!EvaluateHighWater, WP!EvaluateHighWater
<1>11. W!PassFails <=> WP!PassFails
  BY RowsSame DEF W!PassFails, WP!PassFails, W!Requeued, WP!Requeued, W!Queued, WP!Queued,
     W!Heights, WP!Heights, W!EvaluateHighWater, WP!EvaluateHighWater,
     W!NoQueue, WP!NoQueue
<1>12. W!BackoffEnds <=> WP!BackoffEnds
  BY DEF W!BackoffEnds, WP!BackoffEnds, W!NextPass, WP!NextPass,
     W!RunTransferWriter, WP!RunTransferWriter, W!NoQueue, WP!NoQueue,
     W!Heights, WP!Heights, W!Queued, WP!Queued, W!EvaluateHighWater,
     WP!EvaluateHighWater
<1>13. \A f : W!RollbackBegins(f) <=> WP!RollbackBegins(f)
  BY DEF W!RollbackBegins, WP!RollbackBegins, W!queueVars, WP!queueVars
<1>14. W!RollbackPurges <=> WP!RollbackPurges
  BY RowsSame DEF W!RollbackPurges, WP!RollbackPurges, W!Above, WP!Above, W!UpTo, WP!UpTo,
     W!Heights, WP!Heights, W!EvaluateHighWater, WP!EvaluateHighWater,
     W!Rewound, WP!Rewound, W!Purged, WP!Purged, W!RunTransferWriter,
     WP!RunTransferWriter, W!NoQueue, WP!NoQueue, W!Queued, WP!Queued
<1>15. W!RollbackPersistSettles <=> WP!RollbackPersistSettles
  BY DEF W!RollbackPersistSettles, WP!RollbackPersistSettles, W!RunTransferWriter,
     WP!RunTransferWriter, W!NoQueue, WP!NoQueue, W!Heights, WP!Heights,
     W!Queued, WP!Queued
<1>16. W!UnwindDeletes <=> WP!UnwindDeletes
  BY DEF W!UnwindDeletes, WP!UnwindDeletes, W!queueVars, WP!queueVars, W!Heights,
     WP!Heights
<1>17. W!UnwindThrows <=> WP!UnwindThrows
  BY DEF W!UnwindThrows, WP!UnwindThrows, W!queueVars, WP!queueVars, W!Heights,
     WP!Heights
<1>18. W!Crash <=> WP!Crash
  BY DEF W!Crash, WP!Crash, W!NoQueue, WP!NoQueue, W!Heights, WP!Heights
<1>h. /\ W!Heights = WP!Heights
      /\ \A n : W!MayIndex(n) <=> WP!MayIndex(n)
      /\ \A n : W!MayQuarantine(n) <=> WP!MayQuarantine(n)
      /\ W!MayRaiseFloor <=> WP!MayRaiseFloor
  BY DEF W!Heights, WP!Heights, W!MayIndex, WP!MayIndex, W!MayQuarantine,
     WP!MayQuarantine, W!IsReal, WP!IsReal, W!MayRaiseFloor, WP!MayRaiseFloor
<1>d. W!Drainer <=> WP!Drainer
  BY <1>7, <1>8, <1>9, <1>10, <1>11, <1>12 DEF W!Drainer, WP!Drainer
<1>19. QED
  BY <1>1, <1>2, <1>3, <1>4, <1>5, <1>6, <1>13, <1>14, <1>15, <1>16, <1>17,
     <1>18, <1>h, <1>d DEF W!Next, WP!Next

(***************************************************************************)
(* The invariant and the variables.                                        *)
(***************************************************************************)
LEMMA InvariantsSame ==
  /\ WP!vars = W!vars /\ WP!vars' = W!vars'
  /\ WP!IInv <=> W!IInv
  /\ WP!IInv' <=> W!IInv'
<1>1. WP!vars = W!vars /\ WP!vars' = W!vars'
  BY DEF W!vars, WP!vars, W!memoryVars, WP!memoryVars, W!queueVars, WP!queueVars
<1>2. WP!IInv <=> W!IInv
  BY DEF W!IInv, WP!IInv, W!TypeOK, WP!TypeOK, W!Heights, WP!Heights, W!Batches,
     WP!Batches, W!Queues, WP!Queues, W!Excuses, WP!Excuses,
     W!WatermarkCovered, WP!WatermarkCovered, W!PersistedCovered,
     WP!PersistedCovered, W!WrittenCovered, WP!WrittenCovered,
     W!QuarantinesCovered, WP!QuarantinesCovered, W!BatchCovered,
     WP!BatchCovered, W!TargetCovered, WP!TargetCovered, W!FloorsCovered,
     WP!FloorsCovered, W!Covered, WP!Covered, W!Accounted, WP!Accounted,
     W!BelowFork, WP!BelowFork, W!Phases, WP!Phases, W!UpTo, WP!UpTo,
     W!Queued, WP!Queued
<1>3. WP!IInv' <=> W!IInv'
  BY DEF W!IInv, WP!IInv, W!TypeOK, WP!TypeOK, W!Heights, WP!Heights, W!Batches,
     WP!Batches, W!Queues, WP!Queues, W!Excuses, WP!Excuses,
     W!WatermarkCovered, WP!WatermarkCovered, W!PersistedCovered,
     WP!PersistedCovered, W!WrittenCovered, WP!WrittenCovered,
     W!QuarantinesCovered, WP!QuarantinesCovered, W!BatchCovered,
     WP!BatchCovered, W!TargetCovered, WP!TargetCovered, W!FloorsCovered,
     WP!FloorsCovered, W!Covered, WP!Covered, W!Accounted, WP!Accounted,
     W!BelowFork, WP!BelowFork, W!Phases, WP!Phases, W!UpTo, WP!UpTo,
     W!Queued, WP!Queued
<1>4. QED
  BY <1>1, <1>2, <1>3

(***************************************************************************)
(* So the writer's invariant holds in the composition as long as the steps *)
(* are steps of the writer.                                                *)
(***************************************************************************)
LEMMA WriterKeepsInvariant ==
  ASSUME W!IInv, [W!Next]_(W!vars)
  PROVE  W!IInv'
<1>1. WP!IInv /\ [WP!Next]_(WP!vars)
  <2>1. W!Next \/ W!vars' = W!vars
    OBVIOUS
  <2>2. WP!Next \/ WP!vars' = WP!vars
    BY <2>1, ActionsSame, InvariantsSame
  <2>3. QED
    BY <2>2, InvariantsSame
<1>2. WP!IInv'
  BY <1>1, WP!OtherStep, WP!UnwindStep, WriterAssumptions
<1>3. QED
  BY <1>2, InvariantsSame

-----------------------------------------------------------------------------
(***************************************************************************)
(* Heights, and the least and the greatest of a set of them.               *)
(***************************************************************************)
LEMMA Bounds ==
  /\ MaxHeight \in Nat
  /\ \A n : n \in Heights <=> n \in Int /\ 1 <= n /\ n <= MaxHeight
  /\ \A n : n \in 0..MaxHeight <=> n \in Int /\ 0 <= n /\ n <= MaxHeight
  /\ W!Heights = Heights
BY BoundsAssumption DEF Heights, W!Heights

(***************************************************************************)
(* A set of naturals that is not empty has a least element.                *)
(***************************************************************************)
LEMMA LeastOf ==
  ASSUME NEW S, S \subseteq Nat, S # {}
  PROVE  MinOf(S) \in S /\ \A m \in S : MinOf(S) <= m
<1> DEFINE Less == {pair \in Nat \X Nat : pair[1] < pair[2]}
<1>1. IsWellFoundedOn(Less, Nat)
  BY NatLessThanWellFounded DEF OpToRel
<1>2. \A x, y \in Nat : x < y => <<x, y>> \in Less
  OBVIOUS
<1> HIDE DEF Less
<1>3. PICK n \in S : \A m \in S : ~(<<m, n>> \in Less)
  BY <1>1, WFMin
<1>4. \A m \in S : m \in Nat /\ n \in Nat /\ ~(m < n)
  BY <1>2, <1>3
<1>5. \A m \in S : n <= m
  BY <1>4
<1>6. QED
  BY <1>5 DEF MinOf

(***************************************************************************)
(* A set of heights that is not empty has a greatest element.              *)
(***************************************************************************)
LEMMA GreatestOf ==
  ASSUME NEW S, S \subseteq 0..MaxHeight, S # {}
  PROVE  MaxOf(S) \in S /\ \A m \in S : m <= MaxOf(S)
<1> DEFINE Below == {MaxHeight - m : m \in S}
<1>1. \A m \in S : m \in Nat /\ MaxHeight - m \in Nat
  BY Bounds
<1>2. Below \subseteq Nat /\ Below # {}
  BY <1>1
<1>3. MinOf(Below) \in Below /\ \A b \in Below : MinOf(Below) <= b
  <2> HIDE DEF Below
  <2>1. QED
    BY <1>2, LeastOf
<1>4. PICK n \in S : MinOf(Below) = MaxHeight - n
  BY <1>3
<1>5. ASSUME NEW m \in S PROVE m <= n
  <2>1. MaxHeight - m \in Below
    OBVIOUS
  <2>2. MaxHeight - n <= MaxHeight - m
    BY <1>3, <1>4, <2>1
  <2>3. QED
    BY <1>1, <2>2, Bounds
<1>6. QED
  BY <1>5 DEF MaxOf

(***************************************************************************)
(* The cursors a boot computes.                                            *)
(***************************************************************************)
LEMMA ResumeTypes ==
  ASSUME TypeOK
  PROVE  /\ Stored \subseteq Heights
         /\ MaxIndexed \in 0..MaxHeight
         /\ Stored # {} => MaxIndexed \in Stored
         /\ Stored = {} => MaxIndexed = 0
         /\ \A n \in Stored : n <= MaxIndexed
         /\ SeedW \in 0..MaxHeight
         /\ Missing # {} => /\ MinOf(Missing) \in Missing
                            /\ \A n \in Missing : MinOf(Missing) <= n
         /\ ResumeBase \in 0..MaxHeight /\ ResumeBase <= MaxIndexed
         /\ ResumePoint \in 0..MaxHeight
         /\ ResumePoint <= ResumeBase /\ ResumePoint <= SeedW
<1>1. Stored \subseteq Heights /\ Stored \subseteq 0..MaxHeight
  BY Bounds DEF Stored
<1>2. Stored # {} => MaxIndexed \in Stored /\ \A n \in Stored : n <= MaxIndexed
  BY <1>1, GreatestOf DEF MaxIndexed
<1>3. Stored = {} => MaxIndexed = 0
  BY DEF MaxIndexed
<1>4. MaxIndexed \in 0..MaxHeight
  <2>1. 0 \in 0..MaxHeight
    BY Bounds
  <2>2. QED
    BY <1>1, <1>2, <1>3, <2>1
<1>5. persistedW \in 0..MaxHeight
  BY DEF TypeOK, W!TypeOK
<1>6. SeedW \in 0..MaxHeight
  BY <1>4, <1>5, Bounds DEF SeedW
<1>7. \A n \in Missing : n \in Nat /\ 1 <= n /\ n <= MaxIndexed
  BY <1>4, BoundsAssumption, Bounds DEF Missing, Larger
<1>8. Missing # {} => MinOf(Missing) \in Missing /\ \A n \in Missing : MinOf(Missing) <= n
  <2>1. Missing \subseteq Nat
    BY <1>7
  <2>2. QED
    BY <2>1, LeastOf
<1>9. ResumeBase \in 0..MaxHeight /\ ResumeBase <= MaxIndexed
  BY <1>4, <1>7, <1>8, Bounds DEF ResumeBase
<1>10. ResumePoint \in 0..MaxHeight /\ ResumePoint <= ResumeBase /\ ResumePoint <= SeedW
  BY <1>6, <1>9, Bounds DEF ResumePoint, Smaller
<1>11. QED
  BY <1>1, <1>2, <1>3, <1>4, <1>6, <1>8, <1>9, <1>10

(***************************************************************************)
(* The fork is not above the cursor.                                       *)
(***************************************************************************)
LEMMA ForkTypes ==
  ASSUME TypeOK
  PROVE  ForkPoint \in 0..MaxHeight /\ ForkPoint <= lastIndexed
<1> DEFINE floor == Larger(0, lastIndexed - ReorgDepth)
           agreed == {n \in Stored : n \in floor..lastIndexed /\ n <= tip
                                     /\ chain[n] = blocks[n]}
<1>1. lastIndexed \in 0..MaxHeight
  BY DEF TypeOK
<1>2. floor \in 0..MaxHeight /\ floor <= lastIndexed
  BY <1>1, BoundsAssumption, Bounds DEF Larger
<1>3. agreed \subseteq 0..MaxHeight /\ \A n \in agreed : n <= lastIndexed
  <2> HIDE DEF floor
  <2>1. QED
    BY <1>1, <1>2, Bounds DEF Stored
<1>4. ForkPoint = IF agreed = {} THEN floor ELSE MaxOf(agreed)
  BY DEF ForkPoint
<1>5. agreed # {} => MaxOf(agreed) \in agreed
  <2> HIDE DEF agreed
  <2>1. QED
    BY <1>3, GreatestOf
<1> HIDE DEF agreed, floor
<1>6. QED
  BY <1>1, <1>2, <1>3, <1>4, <1>5

(***************************************************************************)
(* The cursor advances over finished blocks only.                          *)
(***************************************************************************)
LEMMA AdvancedTypes ==
  ASSUME TypeOK, NEW done
  PROVE  /\ Advanced(done) \in 0..MaxHeight
         /\ lastIndexed <= Advanced(done)
         /\ (lastIndexed + 1)..Advanced(done) \subseteq done
<1> DEFINE S == {m \in 0..MaxHeight : m >= lastIndexed /\ (lastIndexed + 1)..m \subseteq done}
<1>1. lastIndexed \in 0..MaxHeight
  BY DEF TypeOK
<1>2. lastIndexed \in S
  BY <1>1, Bounds
<1>3. S \subseteq 0..MaxHeight /\ S # {}
  BY <1>2
<1>4. MaxOf(S) \in S
  <2> HIDE DEF S
  <2>1. QED
    BY <1>3, GreatestOf
<1>5. QED
  BY <1>1, <1>4, Bounds DEF Advanced

(***************************************************************************)
(* The MAX_LAG skip goes up.                                               *)
(***************************************************************************)
LEMMA SkipTypes ==
  ASSUME TypeOK, MustSkip
  PROVE  SkipTo \in Heights /\ lastIndexed < SkipTo
BY BoundsAssumption, Bounds DEF TypeOK, MustSkip, SkipTo

-----------------------------------------------------------------------------
(***************************************************************************)
(* Every step of the indexer is a step of the writer, with its callers'    *)
(* guarantees, or leaves it alone.                                         *)
(***************************************************************************)
LEMMA StepUsesWriter ==
  ASSUME LoopInv, [Next]_vars
  PROVE  [W!Next]_(W!vars)
<1>t. TypeOK /\ LoopPhases /\ BatchInOrder /\ QueuedStored /\ BlockerRecorded
  BY DEF LoopInv
<1>s. UNCHANGED writerVars => W!vars' = W!vars
  BY DEF writerVars, writerMemory, W!vars, W!memoryVars, W!queueVars
<1>a. /\ \A seed \in 0..MaxHeight : W!InitTransferWriter(seed) => W!Next
      /\ \A m \in Heights : W!AdoptMaxIndexed(m) => W!Next
      /\ \A n \in Heights, d \in Epochs :
            W!MayIndex(n) /\ W!EnqueueTransferWrite(n, d) => W!Next
      /\ \A n \in Heights : W!MayQuarantine(n) /\ W!EnqueueQuarantinedBlock(n) => W!Next
      /\ \A b \in Heights : W!MayRaiseFloor /\ W!SetDurableFloor(b) => W!Next
      /\ \A b \in 0..MaxHeight : W!FloorPersistSettles(b) => W!Next
      /\ \A f \in 0..MaxHeight : W!RollbackBegins(f) => W!Next
      /\ W!Drainer \/ W!RollbackPurges \/ W!RollbackPersistSettles => W!Next
      /\ W!UnwindDeletes \/ W!UnwindThrows \/ W!Crash => W!Next
  BY Bounds DEF W!Next
<1>1. ASSUME ChainGrows \/ \E f \in 0..MaxHeight : ChainReorgs(f)
      PROVE  UNCHANGED writerVars
  BY <1>1 DEF ChainGrows, ChainReorgs
<1>2. CASE BootAdoptsMaxIndexed
  <2>1. MaxIndexed \in Heights /\ W!AdoptMaxIndexed(MaxIndexed)
    BY <1>2, <1>t, ResumeTypes DEF BootAdoptsMaxIndexed
  <2>2. QED
    BY <2>1, <1>a
<1>3. CASE Boot
  <2>1. SeedW \in 0..MaxHeight /\ W!InitTransferWriter(SeedW)
    BY <1>3, <1>t, ResumeTypes DEF Boot
  <2>2. QED
    BY <2>1, <1>a
<1>4. CASE Crash
  BY <1>4, <1>a DEF Crash
<1>5. CASE HeadOfIteration
  <2>1. CASE IdleReorgCheck \/ BoundaryReorgCheck
    <3>1. ForkPoint \in 0..MaxHeight /\ W!RollbackBegins(ForkPoint)
      BY <2>1, <1>t, ForkTypes DEF IdleReorgCheck, BoundaryReorgCheck, RecoverFromReorg
    <3>2. QED
      BY <3>1, <1>a
  <2>2. CASE MaxLagSkip
    <3>1. SkipTo \in Heights
      BY <2>2, <1>t, SkipTypes DEF MaxLagSkip
    <3>2. W!MayRaiseFloor
      BY <2>2, <1>t DEF MaxLagSkip, ReadTip, LoopPhases, W!MayRaiseFloor
    <3>3. W!SetDurableFloor(SkipTo) \/ UNCHANGED writerVars
      BY <2>2 DEF MaxLagSkip
    <3>4. QED
      BY <3>1, <3>2, <3>3, <1>a, <1>s
  <2>3. ASSUME CaughtUp \/ Iterate \/ MaxLagSkipFails \/ ReorgCheckThrows
        PROVE  UNCHANGED writerVars
    BY <2>3 DEF CaughtUp, vars, Iterate, MaxLagSkipFails, ReorgCheckThrows
  <2>4. QED
    BY <1>5, <1>s, <2>1, <2>2, <2>3 DEF HeadOfIteration
<1>6. CASE Recovery
  <2>1. ASSUME UnwindPoison \/ UnwindBlocks \/ UnwindUnanswered
        PROVE  UNCHANGED writerVars
    BY <2>1 DEF UnwindPoison, UnwindBlocks, UnwindUnanswered
  <2>2. CASE RollbackPersistSettles \/ UnwindRows \/ UnwindThrows
    BY <2>2, <1>a, <1>s DEF RollbackPersistSettles, UnwindRows, UnwindThrows
  <2>3. QED
    BY <1>6, <1>s, <2>1, <2>2 DEF Recovery
<1>7. CASE Batch
  <2>1. ASSUME NEW n \in Heights, FinishBlock(n)
        PROVE  [W!Next]_(W!vars)
    <3>1. status[n] = "inserted"
      BY <2>1 DEF FinishBlock
    <3>2. fetched[n] \in Epochs
      BY <3>1, <1>t DEF TypeOK, BatchInOrder
    <3>3. status # NoBatch
      BY <3>1 DEF NoBatch
    <3>4. W!MayIndex(n)
      BY <3>3, <1>t DEF LoopPhases, W!MayIndex
    <3>5. W!EnqueueTransferWrite(n, fetched[n])
      BY <2>1 DEF FinishBlock
    <3>6. QED
      BY <3>2, <3>4, <3>5, <1>a
  <2>2. ASSUME NEW n \in Heights,
               Claim(n) \/ Fetch(n) \/ FailsClean(n) \/ InsertBlock(n) \/ FailsDirty(n)
        PROVE  UNCHANGED writerVars
    BY <2>2 DEF Claim, Fetch, FailsClean, InsertBlock, FailsDirty
  <2>3. ASSUME StartBatch \/ Park \/ ParkedReturns \/ EndBatch
        PROVE  UNCHANGED writerVars
    BY <2>3 DEF StartBatch, Park, ParkedReturns, EndBatch
  <2>4. QED
    BY <1>7, <1>s, <2>1, <2>2, <2>3 DEF Batch
<1>8. CASE Quarantine
  <2>1. ASSUME QuarantineRecorded \/ QuarantineRefused \/ QuarantineFails
        PROVE  UNCHANGED writerVars
    BY <2>1 DEF QuarantineRecorded, QuarantineRefused, QuarantineFails
  <2>2. CASE StepOverBlocker
    <3>1. pc = "quarantine" /\ W!EnqueueQuarantinedBlock(Blocker)
      BY <2>2 DEF StepOverBlocker
    <3>2. Blocker \in Heights /\ blocks[Blocker] = None /\ rphase = "none"
      BY <3>1, <1>t DEF BlockerRecorded, LoopPhases
    <3>3. W!MayQuarantine(Blocker)
      BY <3>2, <1>t DEF W!MayQuarantine, QueuedStored
    <3>4. QED
      BY <3>1, <3>2, <3>3, <1>a
  <2>3. QED
    BY <1>8, <1>s, <2>1, <2>2 DEF Quarantine
<1>9. CASE WriterProceeds \/ WriterPassFails
  BY <1>9, <1>a DEF WriterProceeds, WriterPassFails, W!Drainer
<1>10. CASE \E b \in 0..MaxHeight : FloorPersistSettles(b)
  BY <1>10, <1>a DEF FloorPersistSettles
<1>11. CASE UNCHANGED vars
  BY <1>11, <1>s DEF vars
<1>12. QED
  BY <1>s, <1>1, <1>2, <1>3, <1>4, <1>5, <1>6, <1>7, <1>8, <1>9, <1>10, <1>11
  DEF Next

(***************************************************************************)
(* The blocks in flight can be counted.                                    *)
(***************************************************************************)
LEMMA InFlightCounted == Cardinality(InFlight) \in Nat
<1>1. IsFiniteSet(Heights)
  BY FS_Interval, BoundsAssumption DEF Heights
<1>2. InFlight \subseteq Heights
  BY DEF InFlight, InState
<1>3. QED
  BY <1>1, <1>2, FS_Subset, FS_CardinalityType

(***************************************************************************)
(* Every step preserves the types.                                         *)
(***************************************************************************)
LEMMA TypeStep ==
  ASSUME LoopInv, [Next]_vars, W!TypeOK'
  PROVE  TypeOK'
<1>t. TypeOK /\ BatchInOrder /\ BlockerRecorded /\ LoopPhases
  BY DEF LoopInv
<1>z. /\ 0 \in 0..MaxHeight /\ 0 \in 0..QuarantineAfter /\ 0 \in 0..Concurrency
      /\ NoBatch \in [Heights -> {"none", "todo", "claimed", "fetched",
                                  "inserted", "done", "failed"}]
      /\ Nothing \in [Heights -> Epochs \cup {None}]
      /\ Zero \in [Heights -> 0..QuarantineAfter]
      /\ \A counts \in [Heights -> 0..QuarantineAfter] : \A cursor :
            Pruned(counts, cursor) \in [Heights -> 0..QuarantineAfter]
      /\ Heights \subseteq 0..MaxHeight
  BY BoundsAssumption, Bounds DEF NoBatch, Nothing, Zero, Pruned
<1>f. Fault => faults' \in 0..MaxFaults /\ crashes' \in 0..MaxCrashes
  BY <1>t, BoundsAssumption DEF Fault, TypeOK
<1>b. BackfillLeft \in 0..MaxHeight
  BY <1>t, <1>z DEF BackfillLeft, TypeOK
<1>w. \A n \in Heights : status[n] \in {"fetched", "inserted"} =>
          WithRow(n) \in [Heights -> Epochs \cup {None}]
  BY <1>t DEF WithRow, BatchInOrder, TypeOK
<1>1. CASE ChainGrows
  BY <1>1, <1>t, Bounds DEF ChainGrows, dbVars, loopVars, batchVars, bounds, TypeOK
<1>2. CASE \E f \in 0..MaxHeight : ChainReorgs(f)
  <2>1. chain' \in [Heights -> Epochs]
    <3>1. MaxHeight \in Heights => chain[MaxHeight] + 1 \in Epochs
      BY <1>2, <1>t, BoundsAssumption DEF ChainReorgs, TypeOK, Epochs
    <3>2. \A n \in Heights : MaxHeight \in Heights
      BY Bounds
    <3>3. QED
      BY <1>2, <1>t, <3>1, <3>2 DEF ChainReorgs, TypeOK
  <2>2. QED
    BY <1>2, <1>t, <2>1 DEF ChainReorgs, dbVars, loopVars, batchVars, bounds, TypeOK
<1>3. CASE BootAdoptsMaxIndexed
  BY <1>3, <1>t DEF BootAdoptsMaxIndexed, chainVars, dbVars, loopVars, batchVars,
     bounds, TypeOK
<1>4. CASE Boot
  <2>1. lastIndexed' \in 0..MaxHeight /\ backfillUntil' \in 0..MaxHeight
    BY <1>4, <1>t, <1>z, ResumeTypes DEF Boot
  <2>2. QED
    BY <1>4, <1>t, <2>1 DEF Boot, chainVars, dbVars, batchVars, bounds, TypeOK
<1>5. CASE Crash
  <2>1. crashes' \in 0..MaxCrashes
    BY <1>5, <1>t, BoundsAssumption DEF Crash, TypeOK
  <2>2. QED
    BY <1>5, <1>t, <1>z, <2>1 DEF Crash, chainVars, dbVars, TypeOK
<1>6. CASE HeadOfIteration
  <2>1. CASE IdleReorgCheck \/ BoundaryReorgCheck
    BY <2>1, <1>t, ForkTypes DEF IdleReorgCheck, BoundaryReorgCheck,
       RecoverFromReorg, chainVars, dbVars, batchVars, bounds, TypeOK
  <2>2. CASE CaughtUp
    BY <2>2, <1>t DEF CaughtUp, vars, chainVars, dbVars, loopVars, batchVars,
       bounds, TypeOK
  <2>3. CASE Iterate
    BY <2>3, <1>t, <1>b DEF Iterate, ReadTip, chainVars, dbVars, batchVars,
       bounds, TypeOK
  <2>4. CASE MaxLagSkip
    <3>1. SkipTo \in Heights /\ SkippedRange \subseteq Heights
      <4>1. SkipTo \in Heights
        BY <2>4, <1>t, SkipTypes DEF MaxLagSkip
      <4>2. lastIndexed \in 0..MaxHeight
        BY <1>t DEF TypeOK
      <4>3. QED
        BY <4>1, <4>2, Bounds DEF SkippedRange
    <3>2. QED
      BY <2>4, <1>t, <1>z, <1>b, <3>1 DEF MaxLagSkip, ReadTip, chainVars,
         batchVars, bounds, TypeOK
  <2>5. CASE MaxLagSkipFails
    <3>1. SkippedRange \subseteq Heights
      <4>1. SkipTo \in Heights
        BY <2>5, <1>t, SkipTypes DEF MaxLagSkipFails
      <4>2. lastIndexed \in 0..MaxHeight
        BY <1>t DEF TypeOK
      <4>3. QED
        BY <4>1, <4>2, Bounds DEF SkippedRange
    <3>2. QED
      BY <2>5, <1>t, <1>b, <1>f, <3>1 DEF MaxLagSkipFails, ReadTip, chainVars,
         batchVars, TypeOK
  <2>6. CASE ReorgCheckThrows
    BY <2>6, <1>t, <1>f DEF ReorgCheckThrows, chainVars, dbVars, batchVars, TypeOK
  <2>7. QED
    BY <1>6, <2>1, <2>2, <2>3, <2>4, <2>5, <2>6 DEF HeadOfIteration
<1>7. CASE Recovery
  <2>1. CASE RollbackPersistSettles
    BY <2>1, <1>t, <1>f DEF RollbackPersistSettles, NoFault, bounds, chainVars,
       dbVars, loopVars, batchVars, TypeOK
  <2>2. CASE UnwindPoison \/ UnwindRows
    BY <2>2, <1>t DEF UnwindPoison, UnwindRows, chainVars, dbVars, batchVars,
       bounds, TypeOK
  <2>u. Unwound \in [Heights -> Epochs \cup {None}]
    BY <1>t DEF Unwound, TypeOK
  <2>3. CASE UnwindBlocks
    BY <2>3, <2>u, <1>t, <1>z DEF UnwindBlocks, chainVars, batchVars, bounds, TypeOK
  <2>4. CASE UnwindThrows
    BY <2>4, <1>t, <1>f DEF UnwindThrows, chainVars, dbVars, batchVars, TypeOK
  <2>5. CASE UnwindUnanswered
    <3>1. (forkPoint + 1)..lastIndexed \subseteq Heights
      BY <1>t, Bounds DEF TypeOK
    <3>2. QED
      BY <2>5, <2>u, <3>1, <1>t, <1>f DEF UnwindUnanswered, chainVars, batchVars, TypeOK
  <2>6. QED
    BY <1>7, <2>1, <2>2, <2>3, <2>4, <2>5 DEF Recovery
<1>8. CASE Batch
  <2>1. CASE StartBatch
    BY <2>1, <1>t DEF StartBatch, chainVars, dbVars, bounds, TypeOK
  <2>p. CASE Park \/ ParkedReturns
    <3>1. parked' \in 0..Concurrency
      BY <2>p, <1>t, InFlightCounted, BoundsAssumption
      DEF Park, ParkedReturns, Idle, Awake, TypeOK
    <3>2. QED
      BY <2>p, <3>1, <1>t DEF Park, ParkedReturns, chainVars, dbVars, bounds, TypeOK
  <2>c. ASSUME NEW n \in Heights, Claim(n)
        PROVE  TypeOK'
    <3>1. parked' \in 0..Concurrency
      BY <2>c, <1>t, BoundsAssumption DEF Claim, Awake, TypeOK
    <3>2. QED
      BY <2>c, <3>1, <1>t DEF Claim, chainVars, dbVars, bounds, TypeOK
  <2>2. ASSUME NEW n \in Heights, Fetch(n)
        PROVE  TypeOK'
    BY <2>2, <1>t DEF Fetch, chainVars, dbVars, bounds, TypeOK
  <2>3. ASSUME NEW n \in Heights, FailsClean(n)
        PROVE  TypeOK'
    <3>1. cleanFailures' \in [Heights -> 0..QuarantineAfter]
      BY <2>3, <1>t, BoundsAssumption DEF FailsClean, Smaller, TypeOK
    <3>2. QED
      BY <2>3, <1>t, <1>f, <3>1 DEF FailsClean, NoFault, chainVars, dbVars, bounds,
         TypeOK
  <2>4. ASSUME NEW n \in Heights, InsertBlock(n)
        PROVE  TypeOK'
    BY <2>4, <1>t, <1>w DEF InsertBlock, chainVars, bounds, TypeOK
  <2>5. ASSUME NEW n \in Heights, FailsDirty(n)
        PROVE  TypeOK'
    BY <2>5, <1>t, <1>w, <1>z, <1>f DEF FailsDirty, chainVars, TypeOK
  <2>6. ASSUME NEW n \in Heights, FinishBlock(n)
        PROVE  TypeOK'
    BY <2>6, <1>t, <1>z, AdvancedTypes DEF FinishBlock, chainVars, dbVars, bounds,
       TypeOK
  <2>7. CASE EndBatch
    BY <2>7, <1>t, <1>z DEF EndBatch, chainVars, dbVars, bounds, TypeOK
  <2>8. QED
    BY <1>8, <2>1, <2>p, <2>c, <2>2, <2>3, <2>4, <2>5, <2>6, <2>7 DEF Batch
<1>9. CASE Quarantine
  <2>1. CASE QuarantineRecorded
    BY <2>1, <1>t DEF QuarantineRecorded, MayQuarantine, chainVars, batchVars,
       bounds, TypeOK
  <2>2. CASE QuarantineRefused
    BY <2>2, <1>t, <1>z DEF QuarantineRefused, chainVars, dbVars, bounds, TypeOK
  <2>3. CASE QuarantineFails
    BY <2>3, <1>t, <1>z, <1>f DEF QuarantineFails, MayQuarantine, chainVars, dbVars,
       TypeOK
  <2>4. CASE StepOverBlocker
    BY <2>4, <1>t, <1>z DEF StepOverBlocker, BlockerRecorded, chainVars, dbVars,
       bounds, TypeOK
  <2>5. QED
    BY <1>9, <2>1, <2>2, <2>3, <2>4 DEF Quarantine
<1>10. CASE WriterProceeds \/ WriterPassFails
  BY <1>10, <1>t, <1>f DEF WriterProceeds, WriterPassFails, chainVars, dbVars,
     loopVars, batchVars, bounds, TypeOK
<1>11. CASE \E b \in 0..MaxHeight : FloorPersistSettles(b)
  BY <1>11, <1>t, <1>f DEF FloorPersistSettles, NoFault, chainVars, dbVars,
     loopVars, batchVars, bounds, TypeOK
<1>12. CASE UNCHANGED vars
  BY <1>12, <1>t DEF vars, chainVars, dbVars, loopVars, batchVars, bounds, TypeOK
<1>13. QED
  BY <1>1, <1>2, <1>3, <1>4, <1>5, <1>6, <1>7, <1>8, <1>9, <1>10, <1>11, <1>12
  DEF Next

(***************************************************************************)
(* What the writer's steps leave alone, and how a rollback proceeds.       *)
(***************************************************************************)
LEMMA WriterFrames ==
  /\ W!Drainer => UNCHANGED <<up, rphase, fork>>
  /\ \A b : W!FloorPersistSettles(b) => UNCHANGED <<up, rphase, fork>>
  /\ \A b : W!SetDurableFloor(b) => UNCHANGED <<up, rphase, fork>>
  /\ \A n, d : W!EnqueueTransferWrite(n, d) => UNCHANGED <<up, rphase, fork>>
  /\ \A n : W!EnqueueQuarantinedBlock(n) => UNCHANGED <<up, rphase, fork>>
  /\ W!RollbackPurges \/ W!RollbackPersistSettles =>
        /\ UNCHANGED <<up, fork>>
        /\ rphase \in {"quiesce", "persist"} /\ rphase' \in {"persist", "unwind"}
<1>1. W!Drainer => UNCHANGED <<up, rphase, fork>>
  BY DEF W!Drainer, W!WriteCommits, W!WriteReturns, W!PersistLands, W!PersistReturns,
     W!PassFails, W!BackoffEnds
<1>2. /\ \A b : W!FloorPersistSettles(b) => UNCHANGED <<up, rphase, fork>>
      /\ \A b : W!SetDurableFloor(b) => UNCHANGED <<up, rphase, fork>>
      /\ \A n, d : W!EnqueueTransferWrite(n, d) => UNCHANGED <<up, rphase, fork>>
      /\ \A n : W!EnqueueQuarantinedBlock(n) => UNCHANGED <<up, rphase, fork>>
  BY DEF W!FloorPersistSettles, W!SetDurableFloor, W!EnqueueTransferWrite,
     W!EnqueueQuarantinedBlock
<1>3. W!RollbackPurges \/ W!RollbackPersistSettles =>
        /\ UNCHANGED <<up, fork>>
        /\ rphase \in {"quiesce", "persist"} /\ rphase' \in {"persist", "unwind"}
  BY DEF W!RollbackPurges, W!RollbackPersistSettles
<1>4. QED
  BY <1>1, <1>2, <1>3

(***************************************************************************)
(* Every step keeps the loop's phases in line with the rollback's.         *)
(***************************************************************************)
LEMMA PhasesStep ==
  ASSUME LoopInv, [Next]_vars
  PROVE  LoopPhases'
<1>t. TypeOK /\ LoopPhases
  BY DEF LoopInv
<1>n. \A n \in Heights : NoBatch[n] = "none"
  BY DEF NoBatch
<1>1. ASSUME UNCHANGED <<up, rphase, fork, pc, forkPoint, lastIndexed, status>>
      PROVE  LoopPhases'
  BY <1>1, <1>t DEF LoopPhases, InFlight, InState
<1>2. ASSUME NEW n \in Heights, status[n] \in {"claimed", "fetched", "inserted"}
      PROVE  pc = "batch"
  BY <1>2, <1>t, <1>n DEF LoopPhases, InFlight, InState
<1>3. ASSUME pc = "batch", UNCHANGED <<up, rphase, fork, pc>> PROVE LoopPhases'
  BY <1>3, <1>t DEF LoopPhases
<1>4. ASSUME ChainGrows \/ \E f \in 0..MaxHeight : ChainReorgs(f)
      PROVE  LoopPhases'
  BY <1>4, <1>1 DEF ChainGrows, ChainReorgs, writerVars, writerMemory, loopVars, batchVars
<1>5. CASE BootAdoptsMaxIndexed
  BY <1>5, <1>1 DEF BootAdoptsMaxIndexed, W!AdoptMaxIndexed, W!memoryVars, loopVars,
     batchVars
<1>6. CASE Boot
  BY <1>6, <1>t DEF Boot, W!InitTransferWriter, LoopPhases, batchVars
<1>7. CASE Crash
  BY <1>7 DEF Crash, W!Crash, LoopPhases
<1>8. CASE HeadOfIteration
  <2>1. CASE IdleReorgCheck \/ BoundaryReorgCheck
    BY <2>1, <1>t, ForkTypes DEF IdleReorgCheck, BoundaryReorgCheck,
       RecoverFromReorg, W!RollbackBegins, LoopPhases, batchVars
  <2>2. CASE CaughtUp
    BY <2>2, <1>1 DEF CaughtUp, vars, writerVars, writerMemory, loopVars, batchVars
  <2>3. CASE Iterate \/ MaxLagSkipFails
    BY <2>3, <1>t DEF Iterate, MaxLagSkipFails, ReadTip, LoopPhases, writerVars,
       writerMemory, batchVars
  <2>4. CASE MaxLagSkip
    <3>1. UNCHANGED <<up, rphase, fork>>
      BY <2>4, WriterFrames DEF MaxLagSkip, writerVars, writerMemory
    <3>2. QED
      BY <2>4, <1>t, <3>1 DEF MaxLagSkip, ReadTip, LoopPhases, batchVars
  <2>5. CASE ReorgCheckThrows
    BY <2>5, <1>t DEF ReorgCheckThrows, LoopPhases, writerVars, writerMemory, batchVars
  <2>6. QED
    BY <1>8, <2>1, <2>2, <2>3, <2>4, <2>5 DEF HeadOfIteration
<1>9. CASE Recovery
  <2>1. CASE RollbackPersistSettles
    BY <2>1, <1>t, WriterFrames DEF RollbackPersistSettles, LoopPhases, loopVars,
       batchVars, InFlight, InState
  <2>2. CASE UnwindPoison
    BY <2>2, <1>t DEF UnwindPoison, LoopPhases, writerVars, writerMemory, batchVars
  <2>3. CASE UnwindRows
    BY <2>3, <1>t DEF UnwindRows, W!UnwindDeletes, LoopPhases, batchVars
  <2>4. CASE UnwindBlocks
    BY <2>4, <1>t DEF UnwindBlocks, LoopPhases, writerVars, writerMemory, batchVars
  <2>5. CASE UnwindThrows \/ UnwindUnanswered
    BY <2>5, <1>t DEF UnwindThrows, UnwindUnanswered, W!UnwindThrows, LoopPhases,
       writerVars, writerMemory, batchVars
  <2>6. QED
    BY <1>9, <2>1, <2>2, <2>3, <2>4, <2>5 DEF Recovery
<1>10. CASE Batch
  <2>1. CASE StartBatch
    BY <2>1, <1>t DEF StartBatch, LoopPhases, writerVars, writerMemory
  <2>2. ASSUME NEW n \in Heights,
               Claim(n) \/ Fetch(n) \/ FailsClean(n) \/ InsertBlock(n) \/ FailsDirty(n)
        PROVE  LoopPhases'
    BY <2>2, <1>2, <1>3 DEF Claim, Fetch, FailsClean, InsertBlock, FailsDirty,
       writerVars, writerMemory
  <2>3. ASSUME NEW n \in Heights, FinishBlock(n)
        PROVE  LoopPhases'
    BY <2>3, <1>2, <1>3, WriterFrames DEF FinishBlock
  <2>4. CASE EndBatch
    BY <2>4, <1>t DEF EndBatch, BatchOver, LoopPhases, writerVars, writerMemory
  <2>5. CASE Park \/ ParkedReturns
    BY <2>5, <1>3 DEF Park, ParkedReturns, writerVars, writerMemory
  <2>6. QED
    BY <1>10, <2>1, <2>2, <2>3, <2>4, <2>5 DEF Batch
<1>11. CASE Quarantine
  <2>1. CASE QuarantineRecorded
    BY <2>1, <1>t DEF QuarantineRecorded, BatchOver, LoopPhases, InFlight, InState,
       writerVars, writerMemory, batchVars
  <2>2. CASE QuarantineRefused \/ QuarantineFails
    BY <2>2, <1>t DEF QuarantineRefused, QuarantineFails, BatchOver, LoopPhases,
       writerVars, writerMemory
  <2>3. CASE StepOverBlocker
    <3>1. pc = "quarantine" /\ pc' = "top" /\ status' = NoBatch
      BY <2>3 DEF StepOverBlocker
    <3>2. UNCHANGED <<up, rphase, fork>>
      BY <2>3, WriterFrames DEF StepOverBlocker
    <3>3. QED
      BY <3>1, <3>2, <1>t DEF LoopPhases
  <2>4. QED
    BY <1>11, <2>1, <2>2, <2>3 DEF Quarantine
<1>12. CASE WriterProceeds
  <2>1. CASE W!RollbackPurges
    BY <1>12, <2>1, <1>t, WriterFrames DEF WriterProceeds, LoopPhases, loopVars,
       batchVars, InFlight, InState
  <2>2. CASE W!Drainer
    BY <1>12, <2>2, <1>1, WriterFrames DEF WriterProceeds, loopVars, batchVars
  <2>3. QED
    BY <1>12, <2>1, <2>2 DEF WriterProceeds, W!Drainer
<1>13. CASE WriterPassFails
  BY <1>13, <1>1, WriterFrames DEF WriterPassFails, W!Drainer, loopVars, batchVars
<1>14. CASE \E b \in 0..MaxHeight : FloorPersistSettles(b)
  BY <1>14, <1>1, WriterFrames DEF FloorPersistSettles, loopVars, batchVars
<1>15. CASE UNCHANGED vars
  BY <1>15, <1>1 DEF vars, writerVars, writerMemory, loopVars, batchVars
<1>16. QED
  BY <1>4, <1>5, <1>6, <1>7, <1>8, <1>9, <1>10, <1>11, <1>12, <1>13, <1>14, <1>15
  DEF Next

(***************************************************************************)
(* What a step does to the queue and to the drainer's batch: it moves      *)
(* batches between them or drops them; only the two calls of the loop add  *)
(* one.                                                                    *)
(***************************************************************************)
Shuffled ==
  \A n \in Heights : /\ pending'[n] \in {None, pending[n], drained[n]}
                     /\ drained'[n] \in {None, pending[n], drained[n]}

(***************************************************************************)
(* A run of the drainer takes the whole queue or leaves it.                *)
(***************************************************************************)
LEMMA RunParts ==
  ASSUME NEW q, NEW rows, NEW stopped, NEW held,
         W!RunTransferWriter(q, rows, stopped, held)
  PROVE  \/ pending' = W!NoQueue /\ drained' = q
         \/ pending' = q /\ drained' \in {W!NoQueue, drained}
BY DEF W!RunTransferWriter

(***************************************************************************)
(* The steps of the drainer and of a rollback move batches or drop them.   *)
(***************************************************************************)
LEMMA WriterShuffles ==
  ASSUME \/ W!Drainer \/ W!RollbackPurges \/ W!RollbackPersistSettles
         \/ UNCHANGED <<pending, drained>>
  PROVE  Shuffled
<1>n. \A n \in Heights : W!NoQueue[n] = None
  BY Bounds DEF W!NoQueue
<1>1. CASE UNCHANGED <<pending, drained>>
  BY <1>1 DEF Shuffled
<1>2. ASSUME W!NextPass PROVE Shuffled
  BY <1>2, <1>n, RunParts DEF W!NextPass, Shuffled
<1>3. CASE W!Drainer
  <2>1. CASE W!WriteCommits \/ W!PersistLands
    BY <2>1, <1>1 DEF W!WriteCommits, W!PersistLands
  <2>2. CASE W!WriteReturns \/ W!PersistReturns \/ W!BackoffEnds
    BY <2>2, <1>1, <1>2 DEF W!WriteReturns, W!PersistReturns, W!BackoffEnds
  <2>3. CASE W!PassFails
    BY <2>3, <1>n, Bounds DEF W!PassFails, W!Requeued, Shuffled
  <2>4. QED
    BY <1>3, <2>1, <2>2, <2>3 DEF W!Drainer
<1>4. CASE W!RollbackPurges
  <2>1. \A n \in Heights : W!Purged[n] \in {None, pending[n]}
    BY Bounds DEF W!Purged
  <2>2. W!RunTransferWriter(W!Purged, pendingRows - W!RowsIn(pending, W!Above(fork)),
                            TRUE, durableBlock > fork)
    BY <1>4 DEF W!RollbackPurges
  <2>3. \/ pending' = W!NoQueue /\ drained' = W!Purged
        \/ pending' = W!Purged /\ drained' \in {W!NoQueue, drained}
    BY <2>2, RunParts
  <2>4. QED
    BY <2>1, <2>3, <1>n DEF Shuffled
<1>5. CASE W!RollbackPersistSettles
  <2>1. W!RunTransferWriter(pending, pendingRows, TRUE, FALSE)
    BY <1>5 DEF W!RollbackPersistSettles
  <2>2. QED
    BY <2>1, <1>n, RunParts DEF Shuffled
<1>6. QED
  BY <1>1, <1>3, <1>4, <1>5

(***************************************************************************)
(* The queue, through every step of the indexer.                           *)
(***************************************************************************)
LEMMA QueueStep ==
  ASSUME LoopInv, [Next]_vars
  PROVE  \/ Shuffled
         \/ \E n \in Heights :
               FinishBlock(n) /\ W!EnqueueTransferWrite(n, fetched[n])
         \/ StepOverBlocker /\ W!EnqueueQuarantinedBlock(Blocker)
<1>u. ASSUME UNCHANGED writerVars PROVE Shuffled
  BY <1>u, WriterShuffles DEF writerVars, writerMemory
<1>n. \A n \in Heights : W!NoQueue[n] = None
  BY Bounds DEF W!NoQueue
<1>1. ASSUME ChainGrows \/ \E f \in 0..MaxHeight : ChainReorgs(f)
      PROVE  Shuffled
  BY <1>1, <1>u DEF ChainGrows, ChainReorgs
<1>2. CASE BootAdoptsMaxIndexed \/ Boot
  BY <1>2, WriterShuffles DEF BootAdoptsMaxIndexed, Boot, W!AdoptMaxIndexed,
     W!InitTransferWriter, W!memoryVars, W!queueVars
<1>3. CASE Crash
  BY <1>3, <1>n DEF Crash, W!Crash, Shuffled
<1>4. CASE HeadOfIteration
  <2>1. CASE IdleReorgCheck \/ BoundaryReorgCheck
    BY <2>1, WriterShuffles DEF IdleReorgCheck, BoundaryReorgCheck, RecoverFromReorg,
       W!RollbackBegins, W!queueVars
  <2>2. CASE MaxLagSkip
    <3>1. W!SetDurableFloor(SkipTo) \/ UNCHANGED writerVars
      BY <2>2 DEF MaxLagSkip
    <3>2. QED
      BY <3>1, <1>u, WriterShuffles DEF W!SetDurableFloor, W!queueVars
  <2>3. ASSUME CaughtUp \/ Iterate \/ MaxLagSkipFails \/ ReorgCheckThrows
        PROVE  Shuffled
    BY <2>3, <1>u DEF CaughtUp, vars, Iterate, MaxLagSkipFails, ReorgCheckThrows
  <2>4. QED
    BY <1>4, <2>1, <2>2, <2>3 DEF HeadOfIteration
<1>5. CASE Recovery
  <2>1. ASSUME UnwindPoison \/ UnwindBlocks \/ UnwindUnanswered
        PROVE  Shuffled
    BY <2>1, <1>u DEF UnwindPoison, UnwindBlocks, UnwindUnanswered
  <2>2. CASE RollbackPersistSettles
    BY <2>2, WriterShuffles DEF RollbackPersistSettles
  <2>3. CASE UnwindRows \/ UnwindThrows
    BY <2>3, <1>u, WriterShuffles DEF UnwindRows, UnwindThrows, W!UnwindDeletes,
       W!UnwindThrows, W!queueVars
  <2>4. QED
    BY <1>5, <2>1, <2>2, <2>3 DEF Recovery
<1>6. CASE Batch
  <2>1. ASSUME NEW n \in Heights, FinishBlock(n)
        PROVE  W!EnqueueTransferWrite(n, fetched[n])
    BY <2>1 DEF FinishBlock
  <2>2. ASSUME NEW n \in Heights,
               Claim(n) \/ Fetch(n) \/ FailsClean(n) \/ InsertBlock(n) \/ FailsDirty(n)
        PROVE  Shuffled
    BY <2>2, <1>u DEF Claim, Fetch, FailsClean, InsertBlock, FailsDirty
  <2>3. ASSUME StartBatch \/ Park \/ ParkedReturns \/ EndBatch
        PROVE  Shuffled
    BY <2>3, <1>u DEF StartBatch, Park, ParkedReturns, EndBatch
  <2>4. QED
    BY <1>6, <2>1, <2>2, <2>3 DEF Batch
<1>7. CASE Quarantine
  <2>1. ASSUME QuarantineRecorded \/ QuarantineRefused \/ QuarantineFails
        PROVE  Shuffled
    BY <2>1, <1>u DEF QuarantineRecorded, QuarantineRefused, QuarantineFails
  <2>2. ASSUME StepOverBlocker PROVE W!EnqueueQuarantinedBlock(Blocker)
    BY <2>2 DEF StepOverBlocker
  <2>3. QED
    BY <1>7, <2>1, <2>2 DEF Quarantine
<1>8. CASE WriterProceeds \/ WriterPassFails
  BY <1>8, WriterShuffles DEF WriterProceeds, WriterPassFails, W!Drainer
<1>9. CASE \E b \in 0..MaxHeight : FloorPersistSettles(b)
  BY <1>9, WriterShuffles DEF FloorPersistSettles, W!FloorPersistSettles, W!queueVars
<1>10. CASE UNCHANGED vars
  BY <1>10, <1>u DEF vars
<1>11. QED
  BY <1>1, <1>2, <1>3, <1>4, <1>5, <1>6, <1>7, <1>8, <1>9, <1>10 DEF Next

(***************************************************************************)
(* Every step keeps the batch in order.                                    *)
(***************************************************************************)
LEMMA BatchStep ==
  ASSUME LoopInv, [Next]_vars
  PROVE  BatchInOrder'
<1>t. TypeOK /\ LoopPhases /\ BatchInOrder
  BY DEF LoopInv
<1>n. \A n \in Heights : NoBatch[n] = "none" /\ n \in Int
  BY Bounds DEF NoBatch
<1>i. lastIndexed \in Int /\ BatchSize \in Int
  BY <1>t, BoundsAssumption, Bounds DEF TypeOK
<1>1. ASSUME status' = NoBatch PROVE BatchInOrder'
  BY <1>1, <1>n DEF BatchInOrder
<1>2. ASSUME UNCHANGED <<status, fetched, blocks, lastIndexed>> PROVE BatchInOrder'
  BY <1>2, <1>t DEF BatchInOrder
<1>3. ASSUME pc \notin {"batch", "quarantine"}, UNCHANGED status PROVE BatchInOrder'
  BY <1>1, <1>3, <1>t DEF LoopPhases
<1>4. ASSUME ChainGrows \/ \E f \in 0..MaxHeight : ChainReorgs(f)
      PROVE  BatchInOrder'
  BY <1>4, <1>2 DEF ChainGrows, ChainReorgs, dbVars, loopVars, batchVars
<1>5. CASE BootAdoptsMaxIndexed \/ Boot
  BY <1>5, <1>3 DEF BootAdoptsMaxIndexed, Boot, loopVars, batchVars
<1>6. CASE Crash
  BY <1>6, <1>1 DEF Crash
<1>7. CASE HeadOfIteration
  <2>1. CASE CaughtUp
    BY <2>1, <1>2 DEF CaughtUp, vars, dbVars, loopVars, batchVars
  <2>2. ASSUME \/ IdleReorgCheck \/ Iterate \/ MaxLagSkip \/ MaxLagSkipFails
               \/ BoundaryReorgCheck \/ ReorgCheckThrows
        PROVE  pc \notin {"batch", "quarantine"} /\ UNCHANGED status
    BY <2>2 DEF IdleReorgCheck, Iterate, MaxLagSkip, MaxLagSkipFails, ReadTip,
       BoundaryReorgCheck, ReorgCheckThrows, batchVars
  <2>3. QED
    BY <1>7, <1>3, <2>1, <2>2 DEF HeadOfIteration
<1>8. CASE Recovery
  <2>1. CASE RollbackPersistSettles
    BY <2>1, <1>2 DEF RollbackPersistSettles, dbVars, loopVars, batchVars
  <2>2. ASSUME \/ UnwindPoison \/ UnwindRows \/ UnwindBlocks
               \/ UnwindUnanswered \/ UnwindThrows
        PROVE  pc \notin {"batch", "quarantine"} /\ UNCHANGED status
    BY <2>2 DEF UnwindPoison, UnwindRows, UnwindBlocks, UnwindUnanswered, UnwindThrows,
       batchVars
  <2>3. QED
    BY <1>8, <1>3, <2>1, <2>2 DEF Recovery
<1>9. CASE Batch
  <2>1. CASE StartBatch
    <3>1. latest \in Int
      BY <1>t, Bounds DEF TypeOK
    <3>2. \A n \in Heights : /\ status'[n] \in {"todo", "none"}
                             /\ status'[n] # "none" => n <= lastIndexed + BatchSize
      BY <2>1, <3>1, <1>n, <1>i DEF StartBatch, Smaller
    <3>3. lastIndexed' = lastIndexed
      BY <2>1 DEF StartBatch
    <3>4. QED
      BY <3>2, <3>3 DEF BatchInOrder
  <2>2. ASSUME NEW n \in Heights, Claim(n)
        PROVE  BatchInOrder'
    <3>1. /\ status[n] = "todo" /\ status' = [status EXCEPT ![n] = "claimed"]
          /\ UNCHANGED <<fetched, blocks, lastIndexed>>
      BY <2>2 DEF Claim, Todo, InState, dbVars
    <3>2. QED
      BY <3>1, <1>t DEF BatchInOrder, TypeOK
  <2>3. ASSUME NEW n \in Heights, Fetch(n)
        PROVE  BatchInOrder'
    <3>1. /\ status[n] = "claimed" /\ status' = [status EXCEPT ![n] = "fetched"]
          /\ fetched' = [fetched EXCEPT ![n] = chain[n]]
          /\ UNCHANGED <<blocks, lastIndexed>>
      BY <2>3 DEF Fetch, dbVars
    <3>2. chain[n] # None
      BY <1>t, MarkersAssumption DEF TypeOK
    <3>3. QED
      BY <3>1, <3>2, <1>t DEF BatchInOrder, TypeOK
  <2>4. ASSUME NEW n \in Heights, FailsClean(n)
        PROVE  BatchInOrder'
    <3>1. /\ status[n] = "claimed" /\ status' = [status EXCEPT ![n] = "failed"]
          /\ UNCHANGED <<fetched, blocks, lastIndexed>>
      BY <2>4 DEF FailsClean, dbVars
    <3>2. QED
      BY <3>1, <1>t DEF BatchInOrder, TypeOK
  <2>5. ASSUME NEW n \in Heights, InsertBlock(n)
        PROVE  BatchInOrder'
    <3>1. /\ status[n] = "fetched" /\ status' = [status EXCEPT ![n] = "inserted"]
          /\ blocks' = WithRow(n)
          /\ UNCHANGED <<fetched, lastIndexed>>
      BY <2>5 DEF InsertBlock
    <3>2. QED
      BY <3>1, <1>t DEF BatchInOrder, TypeOK, WithRow
  <2>6. ASSUME NEW n \in Heights, FailsDirty(n)
        PROVE  BatchInOrder'
    <3>1. /\ status[n] \in {"fetched", "inserted"}
          /\ status' = [status EXCEPT ![n] = "failed"]
          /\ fetched' = [fetched EXCEPT ![n] = None]
          /\ blocks' \in {blocks, WithRow(n)}
          /\ UNCHANGED lastIndexed
      BY <2>6 DEF FailsDirty
    <3>2. QED
      BY <3>1, <1>t DEF BatchInOrder, TypeOK, WithRow
  <2>7. ASSUME NEW n \in Heights, FinishBlock(n)
        PROVE  BatchInOrder'
    <3>1. /\ status[n] = "inserted" /\ status' = [status EXCEPT ![n] = "done"]
          /\ fetched' = [fetched EXCEPT ![n] = None]
          /\ lastIndexed' = Advanced(InState("done") \cup {n})
          /\ UNCHANGED blocks
      BY <2>7 DEF FinishBlock, dbVars
    <3>2. lastIndexed' \in 0..MaxHeight /\ lastIndexed <= lastIndexed'
      BY <3>1, <1>t, AdvancedTypes
    <3>3. lastIndexed' \in Int
      BY <3>2, Bounds
    <3>4. \A m \in Heights : m <= lastIndexed + BatchSize => m <= lastIndexed' + BatchSize
      BY <3>2, <3>3, <1>i, <1>n
    <3>5. QED
      BY <3>1, <3>4, <1>t DEF BatchInOrder, TypeOK
  <2>8. CASE EndBatch
    BY <2>8, <1>1 DEF EndBatch
  <2>9. CASE Park \/ ParkedReturns
    BY <2>9, <1>2 DEF Park, ParkedReturns, dbVars
  <2>10. QED
    BY <1>9, <2>1, <2>2, <2>3, <2>4, <2>5, <2>6, <2>7, <2>8, <2>9 DEF Batch
<1>10. CASE Quarantine
  <2>1. CASE QuarantineRecorded
    BY <2>1, <1>2 DEF QuarantineRecorded, batchVars
  <2>2. CASE QuarantineRefused \/ QuarantineFails \/ StepOverBlocker
    BY <2>2, <1>1 DEF QuarantineRefused, QuarantineFails, StepOverBlocker
  <2>3. QED
    BY <1>10, <2>1, <2>2 DEF Quarantine
<1>11. CASE WriterProceeds \/ WriterPassFails \/ \E b \in 0..MaxHeight : FloorPersistSettles(b)
  BY <1>11, <1>2 DEF WriterProceeds, WriterPassFails, FloorPersistSettles, dbVars,
     loopVars, batchVars
<1>12. CASE UNCHANGED vars
  BY <1>12, <1>2 DEF vars, dbVars, loopVars, batchVars
<1>13. QED
  BY <1>4, <1>5, <1>6, <1>7, <1>8, <1>9, <1>10, <1>11, <1>12 DEF Next

(***************************************************************************)
(* What a step does to the block rows and to the gaps.                     *)
(***************************************************************************)
Inserts(n) ==
  /\ status[n] \in {"fetched", "inserted"}
  /\ blocks' = WithRow(n)
  /\ UNCHANGED <<gaps, lastIndexed, pc, pending, drained>>

LEMMA RowsStep ==
  ASSUME LoopInv, [Next]_vars
  PROVE  /\ \/ UnwindBlocks \/ UnwindUnanswered \/ UNCHANGED blocks
            \/ \E n \in Heights : Inserts(n)
         /\ gaps \subseteq gaps'
<1>1. ASSUME ChainGrows \/ \E f \in 0..MaxHeight : ChainReorgs(f)
      PROVE  UNCHANGED <<blocks, gaps>>
  BY <1>1 DEF ChainGrows, ChainReorgs, dbVars
<1>2. ASSUME BootAdoptsMaxIndexed \/ Boot \/ Crash
      PROVE  UNCHANGED <<blocks, gaps>>
  BY <1>2 DEF BootAdoptsMaxIndexed, Boot, Crash, dbVars
<1>3. ASSUME HeadOfIteration
      PROVE  UNCHANGED blocks /\ gaps \subseteq gaps'
  BY <1>3 DEF HeadOfIteration, CaughtUp, vars, IdleReorgCheck, Iterate, MaxLagSkip,
     MaxLagSkipFails, BoundaryReorgCheck, ReorgCheckThrows, dbVars
<1>4. ASSUME Recovery
      PROVE  /\ UnwindBlocks \/ UnwindUnanswered \/ UNCHANGED blocks
             /\ gaps \subseteq gaps'
  BY <1>4 DEF Recovery, RollbackPersistSettles, UnwindPoison, UnwindRows, UnwindBlocks,
     UnwindUnanswered, UnwindThrows, dbVars
<1>5. ASSUME Batch
      PROVE  /\ UNCHANGED blocks \/ \E n \in Heights : Inserts(n)
             /\ gaps \subseteq gaps'
  <2>1. ASSUME NEW n \in Heights, InsertBlock(n)
        PROVE  Inserts(n)
    BY <2>1 DEF InsertBlock, Inserts, writerVars, writerMemory
  <2>2. ASSUME NEW n \in Heights, FailsDirty(n)
        PROVE  UNCHANGED gaps /\ (UNCHANGED blocks \/ Inserts(n))
    BY <2>2 DEF FailsDirty, Inserts, writerVars, writerMemory
  <2>3. ASSUME NEW n \in Heights, Claim(n) \/ Fetch(n) \/ FailsClean(n) \/ FinishBlock(n)
        PROVE  UNCHANGED <<blocks, gaps>>
    BY <2>3 DEF Claim, Fetch, FailsClean, FinishBlock, dbVars
  <2>4. ASSUME StartBatch \/ Park \/ ParkedReturns \/ EndBatch
        PROVE  UNCHANGED <<blocks, gaps>>
    BY <2>4 DEF StartBatch, Park, ParkedReturns, EndBatch, dbVars
  <2>5. \A n : Inserts(n) => UNCHANGED gaps
    BY DEF Inserts
  <2>6. QED
    BY <1>5, <2>1, <2>2, <2>3, <2>4, <2>5 DEF Batch
<1>6. ASSUME Quarantine
      PROVE  UNCHANGED blocks /\ gaps \subseteq gaps'
  BY <1>6 DEF Quarantine, QuarantineRecorded, QuarantineRefused, QuarantineFails,
     StepOverBlocker, dbVars
<1>7. ASSUME WriterProceeds \/ WriterPassFails \/ \E b \in 0..MaxHeight : FloorPersistSettles(b)
      PROVE  UNCHANGED <<blocks, gaps>>
  BY <1>7 DEF WriterProceeds, WriterPassFails, FloorPersistSettles, dbVars
<1>8. ASSUME UNCHANGED vars PROVE UNCHANGED <<blocks, gaps>>
  BY <1>8 DEF vars, dbVars
<1>9. QED
  BY <1>1, <1>2, <1>3, <1>4, <1>5, <1>6, <1>7, <1>8 DEF Next

(***************************************************************************)
(* An insert gives a row to a height and keeps every other.                *)
(***************************************************************************)
LEMMA InsertKeeps ==
  ASSUME LoopInv, NEW n \in Heights, Inserts(n)
  PROVE  /\ \A m \in Heights : blocks[m] # None => blocks'[m] # None
         /\ \A m \in Heights : m # n \/ blocks[m] # None => blocks'[m] = blocks[m]
         /\ pc = "batch"
<1>1. TypeOK /\ BatchInOrder /\ LoopPhases
  BY DEF LoopInv
<1>2. pc = "batch"
  BY <1>1 DEF Inserts, LoopPhases, NoBatch, InFlight, InState
<1>3. QED
  BY <1>1, <1>2 DEF Inserts, WithRow, BatchInOrder, TypeOK

(***************************************************************************)
(* A decode that waits or is written has its block row.                    *)
(***************************************************************************)
LEMMA QueuedStep ==
  ASSUME LoopInv, [Next]_vars
  PROVE  QueuedStored'
<1>t. TypeOK /\ LoopPhases /\ BatchInOrder /\ QueuedStored /\ QueueBelowFork /\ BlockerRecorded
  BY DEF LoopInv
<1>d. ASSUME NEW b PROVE W!IsReal(b) <=> b \in Epochs
  BY DEF W!IsReal
<1>m. /\ None \notin Epochs /\ Quarantined \notin Epochs
      /\ \A n \in Heights : W!NoQueue[n] = None
  BY MarkersAssumption, Bounds DEF W!NoQueue
<1>1. CASE UnwindBlocks \/ UnwindUnanswered
  <2>1. UNCHANGED <<pending, drained>> /\ pc = "unwindBlocks"
        /\ blocks' = [n \in Heights |-> IF n > forkPoint THEN None ELSE blocks[n]]
    BY <1>1 DEF UnwindBlocks, UnwindUnanswered, Unwound, writerVars, writerMemory
  <2>2. ASSUME NEW n \in Heights, W!IsReal(pending[n]) \/ W!IsReal(drained[n])
        PROVE  blocks'[n] # None
    <3>1. pending[n] # None \/ drained[n] # None
      BY <2>2, <1>m DEF W!IsReal
    <3>2. n \in W!UpTo(forkPoint)
      BY <3>1, <2>1, <1>t, Bounds DEF QueueBelowFork, W!Queued
    <3>3. n <= forkPoint /\ forkPoint \in Int /\ n \in Int
      BY <3>2, <1>t, Bounds DEF W!UpTo, TypeOK
    <3>4. QED
      BY <2>1, <2>2, <3>3, <1>t DEF QueuedStored
  <2>3. QED
    BY <2>1, <2>2 DEF QueuedStored, W!IsReal
<1>2. CASE ~UnwindBlocks /\ ~UnwindUnanswered
  <2>r. \A n \in Heights : blocks[n] # None => blocks'[n] # None
    BY <1>2, RowsStep, InsertKeeps
  <2>1. CASE Shuffled
    <3>1. \A n \in Heights : pending'[n] \in Epochs \/ drained'[n] \in Epochs =>
                                pending[n] \in Epochs \/ drained[n] \in Epochs
      BY <2>1, <1>m DEF Shuffled
    <3>2. QED
      BY <3>1, <2>r, <1>t DEF QueuedStored, W!IsReal
  <2>2. ASSUME NEW n \in Heights, FinishBlock(n), W!EnqueueTransferWrite(n, fetched[n])
        PROVE  QueuedStored'
    <3>1. blocks[n] # None
      BY <2>2, <1>t DEF FinishBlock, BatchInOrder
    <3>2. W!RunTransferWriter([pending EXCEPT ![n] = fetched[n]],
                              W!RowsInstead(n, fetched[n]), wpc = "idle", paused)
      BY <2>2 DEF W!EnqueueTransferWrite
    <3>3. \A m \in Heights : m # n =>
             /\ pending'[m] \in {None, pending[m], drained[m]}
             /\ drained'[m] \in {None, pending[m], drained[m]}
      <4>1. pending \in [Heights -> Epochs \cup {Quarantined, None}]
        BY <1>t, Bounds DEF TypeOK, W!TypeOK, W!Queues, W!Batches
      <4>2. \/ pending' = W!NoQueue /\ drained' = [pending EXCEPT ![n] = fetched[n]]
            \/ /\ pending' = [pending EXCEPT ![n] = fetched[n]]
               /\ drained' \in {W!NoQueue, drained}
        BY <3>2, RunParts
      <4>3. QED
        BY <4>1, <4>2, <1>m
    <3>4. QED
      BY <3>1, <3>3, <2>r, <1>t, <1>m DEF QueuedStored, W!IsReal
  <2>3. ASSUME StepOverBlocker, W!EnqueueQuarantinedBlock(Blocker)
        PROVE  QueuedStored'
    <3>1. Blocker \in Heights
      BY <2>3, <1>t DEF StepOverBlocker, BlockerRecorded
    <3>2. W!RunTransferWriter([pending EXCEPT ![Blocker] = Quarantined],
                              W!RowsInstead(Blocker, Quarantined), wpc = "idle", paused)
      BY <2>3 DEF W!EnqueueQuarantinedBlock
    <3>3. \A m \in Heights :
             /\ pending'[m] \in {None, Quarantined, pending[m], drained[m]}
             /\ drained'[m] \in {None, Quarantined, pending[m], drained[m]}
      <4>1. pending \in [Heights -> Epochs \cup {Quarantined, None}]
        BY <1>t, Bounds DEF TypeOK, W!TypeOK, W!Queues, W!Batches
      <4>2. \/ /\ pending' = W!NoQueue
               /\ drained' = [pending EXCEPT ![Blocker] = Quarantined]
            \/ /\ pending' = [pending EXCEPT ![Blocker] = Quarantined]
               /\ drained' \in {W!NoQueue, drained}
        BY <3>2, RunParts
      <4>3. QED
        BY <3>1, <4>1, <4>2, <1>m
    <3>4. QED
      BY <3>3, <2>r, <1>t, <1>m DEF QueuedStored, W!IsReal
  <2>4. QED
    BY <2>1, <2>2, <2>3, QueueStep
<1>3. QED
  BY <1>1, <1>2

(***************************************************************************)
(* A loop about to delete block rows, or to step over a block, just got    *)
(* there or rests: nothing it relies on changes under it.                  *)
(***************************************************************************)
LEMMA LoopRests ==
  ASSUME LoopInv, [Next]_vars, pc' \in {"unwindBlocks", "quarantine"}
  PROVE  UnwindRows \/ QuarantineRecorded
         \/ UNCHANGED <<pc, forkPoint, lastIndexed, dbVars, status>>
<1> DEFINE Rests == UNCHANGED <<pc, forkPoint, lastIndexed, dbVars, status>>
<1>t. TypeOK /\ LoopPhases
  BY DEF LoopInv
<1>2. ASSUME NEW n \in Heights, status[n] \in {"claimed", "fetched", "inserted"}
      PROVE  pc = "batch"
  BY <1>2, <1>t DEF LoopPhases, NoBatch, InFlight, InState
<1>3. CASE ChainGrows \/ \E f \in 0..MaxHeight : ChainReorgs(f)
  BY <1>3 DEF ChainGrows, ChainReorgs, loopVars, batchVars
<1>4. CASE BootAdoptsMaxIndexed \/ Boot \/ Crash
  BY <1>4 DEF BootAdoptsMaxIndexed, Boot, Crash, loopVars, batchVars
<1>5. CASE HeadOfIteration
  BY <1>5 DEF HeadOfIteration, IdleReorgCheck, CaughtUp, Iterate, MaxLagSkip,
     MaxLagSkipFails, BoundaryReorgCheck, ReorgCheckThrows, RecoverFromReorg, ReadTip,
     vars, loopVars, batchVars
<1>6. CASE Recovery
  BY <1>6 DEF Recovery, RollbackPersistSettles, UnwindPoison, UnwindBlocks,
     UnwindUnanswered, UnwindThrows, loopVars, batchVars
<1>7. CASE Batch
  <2>1. ASSUME NEW n \in Heights,
               Claim(n) \/ Fetch(n) \/ FailsClean(n) \/ InsertBlock(n) \/ FailsDirty(n)
                  \/ FinishBlock(n)
        PROVE  FALSE
    BY <2>1, <1>2 DEF Claim, Fetch, FailsClean, InsertBlock, FailsDirty, FinishBlock
  <2>2. ~StartBatch /\ ~Park /\ ~ParkedReturns /\ ~EndBatch
    BY DEF StartBatch, Park, ParkedReturns, EndBatch
  <2>3. QED
    BY <1>7, <2>1, <2>2 DEF Batch
<1>8. CASE Quarantine
  BY <1>8 DEF Quarantine, QuarantineRefused, QuarantineFails, StepOverBlocker
<1>9. CASE WriterProceeds \/ WriterPassFails \/ \E b \in 0..MaxHeight : FloorPersistSettles(b)
  BY <1>9 DEF WriterProceeds, WriterPassFails, FloorPersistSettles, loopVars, batchVars
<1>10. CASE UNCHANGED vars
  BY <1>10 DEF vars, loopVars, batchVars
<1>11. QED
  BY <1>3, <1>4, <1>5, <1>6, <1>7, <1>8, <1>9, <1>10 DEF Next

(***************************************************************************)
(* Nothing above the fork is queued when the block rows above it go.       *)
(***************************************************************************)
LEMMA QueueBelowForkStep ==
  ASSUME LoopInv, [Next]_vars
  PROVE  QueueBelowFork'
<1> SUFFICES ASSUME pc' = "unwindBlocks"
             PROVE  W!Queued(pending') \cup W!Queued(drained') \subseteq W!UpTo(forkPoint')
  BY DEF QueueBelowFork, W!Queued, W!UpTo, W!Heights
<1>t. TypeOK /\ LoopPhases /\ QueueBelowFork /\ W!IInv
  BY DEF LoopInv
<1>1. CASE UnwindRows
  <2>1. /\ UNCHANGED <<pending, drained, forkPoint>>
        /\ rphase = "unwind" /\ fork = forkPoint
    BY <1>1, <1>t DEF UnwindRows, W!UnwindDeletes, W!queueVars, LoopPhases
  <2>2. W!Queued(pending) \cup W!Queued(drained) \subseteq W!UpTo(fork)
    BY <2>1, <1>t DEF W!IInv, W!BelowFork
  <2>3. QED
    BY <2>1, <2>2
<1>2. CASE ~UnwindRows
  <2>1. pc = "unwindBlocks" /\ UNCHANGED <<pc, forkPoint, status>>
    BY <1>2, LoopRests DEF QuarantineRecorded
  <2>2. status = NoBatch
    BY <2>1, <1>t DEF LoopPhases
  <2>3. \A n \in Heights : ~FinishBlock(n)
    BY <2>2 DEF FinishBlock, NoBatch
  <2>4. Shuffled
    BY <2>1, <2>3, QueueStep DEF StepOverBlocker
  <2>5. W!Queued(pending') \cup W!Queued(drained')
           \subseteq W!Queued(pending) \cup W!Queued(drained)
    BY <2>4, Bounds DEF Shuffled, W!Queued
  <2>6. QED
    BY <2>1, <2>5, <1>t DEF QueueBelowFork
<1>3. QED
  BY <1>1, <1>2

(***************************************************************************)
(* The block about to be stepped over stays absent and recorded.           *)
(***************************************************************************)
LEMMA BlockerStep ==
  ASSUME LoopInv, [Next]_vars
  PROVE  BlockerRecorded'
<1> SUFFICES ASSUME pc' = "quarantine"
             PROVE  (Blocker \in Heights /\ blocks[Blocker] = None /\ Blocker \in gaps)'
  BY DEF BlockerRecorded
<1>1. CASE QuarantineRecorded
  BY <1>1 DEF QuarantineRecorded, MayQuarantine, Blocker
<1>2. CASE ~QuarantineRecorded
  BY <1>2, LoopRests DEF LoopInv, BlockerRecorded, Blocker, dbVars, UnwindRows
<1>3. QED
  BY <1>1, <1>2

-----------------------------------------------------------------------------
(***************************************************************************)
(* The invariant of the composition.                                       *)
(***************************************************************************)
LEMMA InitWriter == Init => W!Init
<1> SUFFICES ASSUME Init PROVE W!Init
  OBVIOUS
<1>1. Nothing = W!NoQueue
  BY Bounds DEF Nothing, W!NoQueue
<1>2. tt \in [W!Heights -> Epochs \cup {None}]
  BY Bounds, BoundsAssumption DEF Init, Epochs
<1>3. persistedW \in {w \in 0..MaxHeight : \A n \in W!UpTo(w) : tt[n] # None}
  <2>1. \A n \in W!UpTo(InitialHeight) : tt[n] = 0
    BY Bounds DEF Init, W!UpTo
  <2>2. 0 # None
    BY MarkersAssumption, BoundsAssumption DEF Epochs
  <2>3. QED
    BY <2>1, <2>2, BoundsAssumption DEF Init
<1>4. QED
  BY <1>1, <1>2, <1>3 DEF Init, W!Init

(***************************************************************************)
(* The invariant of the composition holds at first.                        *)
(***************************************************************************)
LEMMA InitLoopInv == Init => LoopInv
<1> SUFFICES ASSUME Init PROVE LoopInv
  OBVIOUS
<1> USE DEF Init
<1>1. W!IInv
  <2>1. WP!Init
    BY InitWriter DEF W!Init, WP!Init, W!NoQueue, WP!NoQueue, W!Heights, WP!Heights,
       W!UpTo, WP!UpTo
  <2>2. WP!IInv
    BY <2>1, WP!InitInvariant, WriterAssumptions
  <2>3. QED
    BY <2>2, InvariantsSame
<1>2. TypeOK
  <2>1. 0 \in Epochs /\ 0 \in 0..MaxHeight /\ 0 \in 0..QuarantineAfter /\ 0 \in 0..MaxCrashes
        /\ 0 \in 0..MaxFaults /\ 0 \in 0..Concurrency
    BY BoundsAssumption DEF Epochs
  <2>2. tip \in 0..MaxHeight
    BY BoundsAssumption
  <2>3. blocks \in [Heights -> Epochs \cup {None}]
    BY <2>1
  <2>4. QED
    BY <1>1, <2>1, <2>2, <2>3 DEF TypeOK, W!IInv, NoBatch, Nothing, Zero
<1>3. LoopPhases /\ BatchInOrder /\ QueueBelowFork /\ BlockerRecorded
  BY DEF LoopPhases, BatchInOrder, NoBatch, QueueBelowFork, BlockerRecorded
<1>4. QueuedStored
  BY MarkersAssumption DEF QueuedStored, Nothing, W!IsReal
<1>5. QED
  BY <1>1, <1>2, <1>3, <1>4 DEF LoopInv

(***************************************************************************)
(* Every step keeps it.                                                    *)
(***************************************************************************)
LEMMA LoopInvStep ==
  ASSUME LoopInv, [Next]_vars
  PROVE  LoopInv'
<1>1. W!IInv'
  BY StepUsesWriter, WriterKeepsInvariant DEF LoopInv
<1>2. TypeOK'
  BY <1>1, TypeStep DEF W!IInv
<1>3. QED
  BY <1>1, <1>2, PhasesStep, BatchStep, QueuedStep, QueueBelowForkStep, BlockerStep
  DEF LoopInv

(***************************************************************************)
(* The inductive invariant of the composed indexer holds.                  *)
(***************************************************************************)
THEOREM IndexerInvariance == Spec => []LoopInv
<1>1. LoopInv /\ [Next]_vars => LoopInv'
  BY LoopInvStep
<1>2. QED
  BY <1>1, InitLoopInv, PTL DEF Spec

(***************************************************************************)
(* Every variable of the composed indexer keeps its type.                  *)
(***************************************************************************)
THEOREM IndexerTypeCorrect == Spec => []TypeOK
<1>1. LoopInv => TypeOK
  BY DEF LoopInv
<1>2. QED
  BY <1>1, IndexerInvariance, PTL

(***************************************************************************)
(* The indexer implements the writer's environment: whatever the chain,    *)
(* the crashes and the failed calls, it uses the writer as TransferWriter  *)
(* assumes of its callers.                                                 *)
(***************************************************************************)
THEOREM UsesWriterSafe == Spec => UsesWriter
<1>1. LoopInv /\ [Next]_vars => [W!Next]_(W!vars)
  BY StepUsesWriter
<1>2. QED
  BY <1>1, InitWriter, IndexerInvariance, PTL DEF Spec, UsesWriter, W!Spec

(***************************************************************************)
(* In the composed indexer, every height at or below the watermark in      *)
(* memory, and at or below the one a restart would read, has its transfers *)
(* in the database or a reason not to that Excuses names.                  *)
(***************************************************************************)
THEOREM IndexerWatermarksSafe == Spec => [](W!WatermarkCovered /\ W!PersistedCovered)
<1>1. LoopInv => W!WatermarkCovered /\ W!PersistedCovered
  BY DEF LoopInv, W!IInv
<1>2. QED
  BY <1>1, IndexerInvariance, PTL

-----------------------------------------------------------------------------
(***************************************************************************)
(* The gaps.                                                               *)
(***************************************************************************)

(***************************************************************************)
(* A height is in poison_blocks only while index_gaps records it too.      *)
(***************************************************************************)
LEMMA PoisonStep ==
  ASSUME LoopInv, [Next]_vars, poison \subseteq gaps
  PROVE  poison' \subseteq gaps'
<1>g. gaps \subseteq gaps'
  BY RowsStep
<1>1. ASSUME UNCHANGED poison PROVE poison' \subseteq gaps'
  BY <1>1, <1>g
<1>2. CASE ChainGrows \/ \E f \in 0..MaxHeight : ChainReorgs(f)
  BY <1>2, <1>1 DEF ChainGrows, ChainReorgs, dbVars
<1>3. CASE BootAdoptsMaxIndexed \/ Boot \/ Crash
  BY <1>3, <1>1 DEF BootAdoptsMaxIndexed, Boot, Crash, dbVars
<1>4. CASE HeadOfIteration
  BY <1>4, <1>1 DEF HeadOfIteration, IdleReorgCheck, CaughtUp, Iterate, MaxLagSkip,
     MaxLagSkipFails, BoundaryReorgCheck, ReorgCheckThrows, vars, dbVars
<1>5. CASE Recovery
  <2>1. CASE UnwindPoison
    BY <2>1, <1>g DEF UnwindPoison
  <2>2. CASE ~UnwindPoison
    BY <1>5, <2>2, <1>1 DEF Recovery, RollbackPersistSettles, UnwindRows, UnwindBlocks,
       UnwindUnanswered, UnwindThrows, dbVars
  <2>3. QED
    BY <2>1, <2>2
<1>6. CASE Batch
  BY <1>6, <1>1 DEF Batch, StartBatch, Park, ParkedReturns, Claim, Fetch, FailsClean,
     InsertBlock, FailsDirty, FinishBlock, EndBatch, dbVars
<1>7. CASE Quarantine
  BY <1>7, <1>1 DEF Quarantine, QuarantineRecorded, QuarantineRefused, QuarantineFails,
     StepOverBlocker, dbVars
<1>8. CASE WriterProceeds \/ WriterPassFails \/ \E b \in 0..MaxHeight : FloorPersistSettles(b)
  BY <1>8, <1>1 DEF WriterProceeds, WriterPassFails, FloorPersistSettles, dbVars
<1>9. CASE UNCHANGED vars
  BY <1>9, <1>1 DEF vars, dbVars
<1>10. QED
  BY <1>2, <1>3, <1>4, <1>5, <1>6, <1>7, <1>8, <1>9 DEF Next

(***************************************************************************)
(* A height is forgotten by an unwind that got no answer; it stays so      *)
(* until its row is back, a boot's scan finds the hole, or an unwind takes *)
(* the cursor below it.                                                    *)
(***************************************************************************)
LEMMA ForgottenStep ==
  ASSUME LoopInv, [Next]_vars
  PROVE  /\ UnwindBlocks \/ Boot
            \/ \A m \in forgotten : m \in forgotten' \/ blocks'[m] # None
         /\ \A m \in forgotten' :
               \/ m \in forgotten /\ (blocks[m] = None => blocks'[m] = None)
               \/ UnwindUnanswered /\ m \in (forkPoint + 1)..lastIndexed
<1> DEFINE Goal == /\ UnwindBlocks \/ Boot
                      \/ \A m \in forgotten : m \in forgotten' \/ blocks'[m] # None
                   /\ \A m \in forgotten' :
                         \/ m \in forgotten /\ (blocks[m] = None => blocks'[m] = None)
                         \/ UnwindUnanswered /\ m \in (forkPoint + 1)..lastIndexed
<1>t. TypeOK /\ BatchInOrder
  BY DEF LoopInv
<1>u. ASSUME UNCHANGED <<blocks, forgotten>> PROVE Goal
  BY <1>u
<1>1. CASE ChainGrows \/ \E f \in 0..MaxHeight : ChainReorgs(f)
  BY <1>1, <1>u DEF ChainGrows, ChainReorgs, dbVars
<1>2. CASE BootAdoptsMaxIndexed \/ Crash
  BY <1>2, <1>u DEF BootAdoptsMaxIndexed, Crash, dbVars
<1>3. CASE Boot
  BY <1>3 DEF Boot
<1>4. CASE HeadOfIteration
  BY <1>4, <1>u DEF HeadOfIteration, CaughtUp, vars, IdleReorgCheck, Iterate, MaxLagSkip,
     MaxLagSkipFails, BoundaryReorgCheck, ReorgCheckThrows, dbVars
<1>5. CASE UnwindBlocks
  BY <1>5, <1>t DEF UnwindBlocks, Unwound, TypeOK
<1>6. CASE UnwindUnanswered
  BY <1>6, <1>t DEF UnwindUnanswered, Unwound, TypeOK
<1>7. CASE Recovery /\ ~UnwindBlocks /\ ~UnwindUnanswered
  BY <1>7, <1>u DEF Recovery, RollbackPersistSettles, UnwindPoison, UnwindRows,
     UnwindThrows, dbVars
<1>8. CASE Batch
  <2>1. ASSUME NEW n \in Heights, InsertBlock(n)
        PROVE  Goal
    <3>1. /\ forgotten' = forgotten \ {n} /\ blocks' = WithRow(n)
          /\ fetched[n] # None
      BY <2>1, <1>t DEF InsertBlock, BatchInOrder
    <3>2. blocks'[n] # None /\ \A m \in Heights \ {n} : blocks'[m] = blocks[m]
      BY <3>1, <1>t DEF WithRow, TypeOK
    <3>3. QED
      BY <3>1, <3>2, <1>t DEF TypeOK
  <2>2. ASSUME NEW n \in Heights, FailsDirty(n)
        PROVE  Goal
    BY <2>2 DEF FailsDirty
  <2>3. ASSUME NEW n \in Heights, Claim(n) \/ Fetch(n) \/ FailsClean(n) \/ FinishBlock(n)
        PROVE  UNCHANGED <<blocks, forgotten>>
    BY <2>3 DEF Claim, Fetch, FailsClean, FinishBlock, dbVars
  <2>4. ASSUME StartBatch \/ Park \/ ParkedReturns \/ EndBatch
        PROVE  UNCHANGED <<blocks, forgotten>>
    BY <2>4 DEF StartBatch, Park, ParkedReturns, EndBatch, dbVars
  <2>5. QED
    BY <1>8, <1>u, <2>1, <2>2, <2>3, <2>4 DEF Batch
<1>9. CASE Quarantine
  BY <1>9, <1>u DEF Quarantine, QuarantineRecorded, QuarantineRefused, QuarantineFails,
     StepOverBlocker, dbVars
<1>10. CASE WriterProceeds \/ WriterPassFails \/ \E b \in 0..MaxHeight : FloorPersistSettles(b)
  BY <1>10, <1>u DEF WriterProceeds, WriterPassFails, FloorPersistSettles, dbVars
<1>11. CASE UNCHANGED vars
  BY <1>11, <1>u DEF vars, dbVars
<1>12. QED
  BY <1>1, <1>2, <1>3, <1>4, <1>5, <1>6, <1>7, <1>8, <1>9, <1>10, <1>11 DEF Next

(***************************************************************************)
(* What is accounted for stays so, unless a reorg's unwind deletes it; a   *)
(* boot's scan and an unwind without an answer keep it up to their cursor. *)
(***************************************************************************)
LEMMA AccountsStay ==
  ASSUME LoopInv, [Next]_vars, ~UnwindBlocks, NEW n \in Heights, AccountedFor(n),
         Boot => n <= ResumeBase, UnwindUnanswered => n <= lastIndexed
  PROVE  AccountedFor(n)'
<1>t. TypeOK
  BY DEF LoopInv
<1>1. CASE Boot
  BY <1>1 DEF Boot, AccountedFor
<1>2. CASE UnwindUnanswered
  <2>1. /\ blocks' = [k \in Heights |-> IF k > forkPoint THEN None ELSE blocks[k]]
        /\ forgotten' = forgotten \cup (forkPoint + 1)..lastIndexed
        /\ UNCHANGED gaps /\ n <= lastIndexed
    BY <1>2 DEF UnwindUnanswered, Unwound
  <2>2. n > forkPoint => n \in (forkPoint + 1)..lastIndexed
    BY <2>1, <1>t, Bounds DEF TypeOK
  <2>3. QED
    BY <2>1, <2>2 DEF AccountedFor
<1>3. CASE ~Boot /\ ~UnwindUnanswered
  BY <1>3, RowsStep, ForgottenStep, InsertKeeps DEF AccountedFor
<1>4. QED
  BY <1>1, <1>2, <1>3

(***************************************************************************)
(* The recorded gaps, the quarantines and the scan of a boot together      *)
(* account for every height at or below the block cursor of the boot.      *)
(***************************************************************************)
LEMMA ResumeAccounted ==
  ASSUME TypeOK, poison \subseteq gaps, WindowAccounted,
         NEW n \in Heights, n <= ResumeBase
  PROVE  AccountedFor(n)
<1> SUFFICES ASSUME blocks[n] = None, n \notin gaps, n \notin forgotten
             PROVE  FALSE
  BY DEF AccountedFor
<1>1. n \in Int /\ 1 <= n /\ ResumeBase \in Int /\ MaxIndexed \in Int
      /\ n <= MaxIndexed /\ ResumeGapScan \in Nat
  BY ResumeTypes, Bounds, BoundsAssumption
<1>2. n \notin Missing
  <2>1. CASE Missing = {}
    BY <2>1
  <2>2. CASE Missing # {}
    <3>1. MinOf(Missing) \in Missing /\ \A m \in Missing : MinOf(Missing) <= m
      BY <2>2, ResumeTypes
    <3>2. ResumeBase = MinOf(Missing) - 1
      BY <2>2 DEF ResumeBase
    <3>3. MinOf(Missing) \in Int
      BY <3>1, <1>1, BoundsAssumption DEF Missing, Larger
    <3>4. ~(MinOf(Missing) <= n)
      BY <3>2, <3>3, <1>1
    <3>5. QED
      BY <3>1, <3>4
  <2>3. QED
    BY <2>1, <2>2
<1>3. n < Larger(1, MaxIndexed - ResumeGapScan)
  BY <1>1, <1>2, BoundsAssumption DEF Missing, Larger
<1>4. n < MaxIndexed - ResumeGapScan
  BY <1>1, <1>3 DEF Larger
<1>5. MaxIndexed \in Stored
  BY <1>1, ResumeTypes
<1>6. QED
  BY <1>4, <1>5 DEF WindowAccounted, AccountedFor

(***************************************************************************)
(* Only a boot gets a dead process running.                                *)
(***************************************************************************)
LEMMA OnlyBootStarts ==
  ASSUME LoopInv, [Next]_vars
  PROVE  ~up' \/ Boot \/ up
<1> SUFFICES ASSUME pc = "down", ~Boot
             PROVE  pc' = "down"
  BY PhasesStep DEF LoopInv, LoopPhases
<1>1. status = NoBatch /\ rphase = "none"
  BY DEF LoopInv, LoopPhases
<1>2. CASE ChainGrows \/ \E f \in 0..MaxHeight : ChainReorgs(f)
  BY <1>2 DEF ChainGrows, ChainReorgs, loopVars
<1>3. CASE BootAdoptsMaxIndexed \/ Crash
  BY <1>3 DEF BootAdoptsMaxIndexed, Crash, loopVars
<1>4. ~HeadOfIteration
  BY DEF HeadOfIteration, IdleReorgCheck, CaughtUp, Iterate, MaxLagSkip,
     MaxLagSkipFails, BoundaryReorgCheck, ReorgCheckThrows, ReadTip
<1>5. CASE Recovery
  BY <1>1, <1>5 DEF Recovery, RollbackPersistSettles, W!RollbackPersistSettles,
     UnwindPoison, UnwindRows, UnwindBlocks, UnwindUnanswered, UnwindThrows
<1>6. ~Batch
  BY <1>1 DEF Batch, StartBatch, Park, ParkedReturns, Claim, Fetch, FailsClean, InsertBlock, FailsDirty,
     FinishBlock, EndBatch, BatchOver, NoBatch
<1>7. ~Quarantine
  BY DEF Quarantine, QuarantineRecorded, QuarantineRefused, QuarantineFails, BatchOver,
     StepOverBlocker
<1>8. CASE WriterProceeds \/ WriterPassFails \/ \E b \in 0..MaxHeight : FloorPersistSettles(b)
  BY <1>8 DEF WriterProceeds, WriterPassFails, FloorPersistSettles, loopVars
<1>9. CASE UNCHANGED vars
  BY <1>9 DEF vars, loopVars
<1>10. QED
  BY <1>2, <1>3, <1>4, <1>5, <1>6, <1>7, <1>8, <1>9 DEF Next

(***************************************************************************)
(* Where the cursor goes, it goes over heights that are stored or recorded.*)
(***************************************************************************)
LEMMA CursorMoves ==
  ASSUME LoopInv, [Next]_vars
  PROVE  \/ ~up' \/ Boot \/ UnwindBlocks
         \/ /\ up
            /\ \A n \in Heights : lastIndexed < n /\ n <= lastIndexed' => AccountedFor(n)'
<1>t. TypeOK /\ LoopPhases /\ BatchInOrder /\ BlockerRecorded
  BY DEF LoopInv
<1>i. lastIndexed \in Int
  BY <1>t, Bounds DEF TypeOK
<1>w. ~up' \/ Boot \/ up
  BY OnlyBootStarts
<1>1. ASSUME UNCHANGED lastIndexed, NEW n \in Heights, lastIndexed < n, n <= lastIndexed'
      PROVE  FALSE
  BY <1>1, <1>i, Bounds
<1>2. CASE ChainGrows \/ \E f \in 0..MaxHeight : ChainReorgs(f)
  BY <1>2, <1>w, <1>1 DEF ChainGrows, ChainReorgs, loopVars
<1>3. CASE BootAdoptsMaxIndexed \/ Boot \/ Crash
  BY <1>3, <1>w, <1>1 DEF BootAdoptsMaxIndexed, Crash, W!Crash, loopVars
<1>4. CASE MaxLagSkip
  <2>1. \A n \in Heights : lastIndexed < n /\ n <= lastIndexed' => n \in gaps'
    BY <1>4, <1>i, SkipTypes, <1>t, Bounds DEF MaxLagSkip, SkippedRange
  <2>2. QED
    BY <1>4, <1>w, <2>1 DEF AccountedFor
<1>5. CASE HeadOfIteration /\ ~MaxLagSkip
  BY <1>5, <1>w, <1>1 DEF HeadOfIteration, IdleReorgCheck, CaughtUp, Iterate,
     MaxLagSkipFails, BoundaryReorgCheck, ReorgCheckThrows, vars, loopVars
<1>6. CASE Recovery
  BY <1>6, <1>w, <1>1 DEF Recovery, RollbackPersistSettles, UnwindPoison, UnwindRows,
     UnwindUnanswered, UnwindThrows, loopVars
<1>7. CASE Batch
  <2>1. ASSUME NEW n \in Heights, FinishBlock(n)
        PROVE  \A m \in Heights : lastIndexed < m /\ m <= lastIndexed' => AccountedFor(m)'
    <3>1. lastIndexed' = Advanced(InState("done") \cup {n}) /\ UNCHANGED blocks
          /\ status[n] = "inserted"
      BY <2>1 DEF FinishBlock, dbVars
    <3>2. lastIndexed' \in Int
          /\ (lastIndexed + 1)..lastIndexed' \subseteq InState("done") \cup {n}
      BY <3>1, <1>t, AdvancedTypes, Bounds
    <3>3. ASSUME NEW m \in Heights, lastIndexed < m, m <= lastIndexed'
          PROVE  status[m] \in {"inserted", "done"}
      <4>1. m \in (lastIndexed + 1)..lastIndexed'
        BY <3>2, <3>3, <1>i, Bounds
      <4>2. QED
        BY <3>1, <3>2, <4>1 DEF InState
    <3>4. QED
      BY <3>1, <3>3, <1>t DEF BatchInOrder, AccountedFor
  <2>2. ASSUME NEW n \in Heights,
               Claim(n) \/ Fetch(n) \/ FailsClean(n) \/ InsertBlock(n) \/ FailsDirty(n)
        PROVE  UNCHANGED lastIndexed
    BY <2>2 DEF Claim, Fetch, FailsClean, InsertBlock, FailsDirty
  <2>3. ASSUME StartBatch \/ Park \/ ParkedReturns \/ EndBatch
        PROVE  UNCHANGED lastIndexed
    BY <2>3 DEF StartBatch, Park, ParkedReturns, EndBatch
  <2>4. QED
    BY <1>7, <1>w, <1>1, <2>1, <2>2, <2>3 DEF Batch
<1>8. CASE StepOverBlocker
  <2>1. lastIndexed' = Blocker /\ Blocker \in gaps'
    BY <1>8, <1>t DEF StepOverBlocker, BlockerRecorded, dbVars
  <2>2. \A n \in Heights : lastIndexed < n /\ n <= lastIndexed' => n = Blocker
    BY <2>1, <1>i, Bounds DEF Blocker
  <2>3. QED
    BY <1>w, <2>1, <2>2 DEF AccountedFor
<1>9. CASE Quarantine /\ ~StepOverBlocker
  BY <1>9, <1>w, <1>1 DEF Quarantine, QuarantineRecorded, QuarantineRefused, QuarantineFails
<1>10. CASE WriterProceeds \/ WriterPassFails \/ \E b \in 0..MaxHeight : FloorPersistSettles(b)
  BY <1>10, <1>w, <1>1 DEF WriterProceeds, WriterPassFails, FloorPersistSettles, loopVars
<1>11. CASE UNCHANGED vars
  BY <1>11, <1>w, <1>1 DEF vars, loopVars
<1>12. QED
  BY <1>2, <1>3, <1>4, <1>5, <1>6, <1>7, <1>8, <1>9, <1>10, <1>11 DEF Next

(***************************************************************************)
(* A height that the scan of a boot does not reach is below the block      *)
(* cursor of the boot.                                                     *)
(***************************************************************************)
LEMMA BeyondScan ==
  ASSUME TypeOK, NEW n \in Heights, NEW m \in Stored, n < m - ResumeGapScan
  PROVE  n <= ResumeBase
<1>1. /\ n \in Int /\ m \in Int /\ m <= MaxIndexed /\ MaxIndexed \in Int
      /\ ResumeGapScan \in Nat
  BY ResumeTypes, Bounds, BoundsAssumption DEF Stored
<1>2. n < MaxIndexed - ResumeGapScan /\ n <= MaxIndexed
  BY <1>1
<1>3. \A k \in Missing : k \in Int /\ n < k
  BY <1>1, <1>2, BoundsAssumption, Bounds DEF Missing, Larger
<1>4. Missing # {} => MinOf(Missing) \in Missing
  BY ResumeTypes
<1>5. QED
  BY <1>1, <1>2, <1>3, <1>4 DEF ResumeBase

(***************************************************************************)
(* A stored height with a hole far below it.                               *)
(***************************************************************************)
LEMMA WindowStep ==
  ASSUME ScanCoversBatch, LoopInv, CursorInv, [Next]_vars
  PROVE  WindowAccounted'
<1> SUFFICES ASSUME NEW n \in Heights, NEW m \in Heights, blocks'[m] # None,
                    n < m - ResumeGapScan
             PROVE  AccountedFor(n)'
  BY DEF WindowAccounted, Stored
<1>t. TypeOK /\ LoopPhases /\ BatchInOrder /\ CursorAccounted /\ WindowAccounted
  BY DEF LoopInv, CursorInv
<1>i. n \in Int /\ m \in Int /\ 1 <= n /\ lastIndexed \in Int /\ forkPoint \in Int
  BY <1>t, Bounds DEF TypeOK
<1>1. CASE UnwindBlocks \/ UnwindUnanswered
  <2>1. /\ blocks' = [k \in Heights |-> IF k > forkPoint THEN None ELSE blocks[k]]
        /\ \A k \in forgotten : k <= forkPoint => k \in forgotten'
        /\ UNCHANGED gaps
    BY <1>1 DEF UnwindBlocks, UnwindUnanswered, Unwound
  <2>2. m <= forkPoint /\ blocks[m] # None
    BY <2>1, <1>i
  <2>3. n <= forkPoint
    BY <2>2, <1>i, BoundsAssumption
  <2>4. AccountedFor(n)
    BY <2>2, <1>t DEF WindowAccounted, Stored
  <2>5. QED
    BY <2>1, <2>3, <2>4, <1>i DEF AccountedFor
<1>2. CASE ~UnwindBlocks /\ ~UnwindUnanswered /\ blocks[m] # None
  <2>1. AccountedFor(n)
    BY <1>2, <1>t DEF WindowAccounted, Stored
  <2>2. n <= ResumeBase
    BY <1>2, <1>t, BeyondScan DEF Stored
  <2>3. QED
    BY <1>2, <2>1, <2>2, AccountsStay
<1>3. CASE ~UnwindBlocks /\ ~UnwindUnanswered /\ blocks[m] = None
  <2>1. Inserts(m)
    BY <1>3, RowsStep, InsertKeeps
  <2>2. up /\ status[m] # "none"
    BY <2>1, <1>t, InsertKeeps DEF LoopPhases, Inserts
  <2>3. m <= lastIndexed + BatchSize
    BY <2>2, <1>t DEF BatchInOrder
  <2>4. n <= lastIndexed
    BY <2>3, <1>i, BoundsAssumption DEF ScanCoversBatch
  <2>5. n \in 1..lastIndexed
    BY <2>4, <1>i
  <2>6. AccountedFor(n)
    BY <2>2, <2>5, <1>t DEF CursorAccounted, AccountedFor
  <2>7. ~Boot
    BY <2>1, InsertKeeps DEF Boot
  <2>8. QED
    BY <1>3, <2>6, <2>7, AccountsStay
<1>4. QED
  BY <1>1, <1>2, <1>3

(***************************************************************************)
(* The running cursor, through every step.                                 *)
(***************************************************************************)
LEMMA CursorStep ==
  ASSUME LoopInv, CursorInv, [Next]_vars, TypeOK'
  PROVE  CursorAccounted'
<1> SUFFICES ASSUME up', NEW n \in Heights, n <= lastIndexed'
             PROVE  AccountedFor(n)'
  BY Bounds DEF CursorAccounted, AccountedFor, TypeOK
<1>t. TypeOK /\ LoopPhases /\ CursorAccounted /\ WindowAccounted /\ poison \subseteq gaps
  BY DEF LoopInv, CursorInv
<1>i. n \in Int /\ 1 <= n /\ lastIndexed \in Int /\ forkPoint \in Int
  BY <1>t, Bounds DEF TypeOK
<1>a. up /\ n <= lastIndexed => AccountedFor(n)
  BY <1>t, <1>i DEF CursorAccounted, AccountedFor
<1>1. CASE Boot
  <2>1. lastIndexed' = ResumePoint
    BY <1>1 DEF Boot
  <2>2. n <= ResumeBase
    BY <2>1, <1>t, <1>i, ResumeTypes, Bounds
  <2>3. AccountedFor(n)
    BY <2>2, <1>t, ResumeAccounted
  <2>4. ~UnwindBlocks /\ ~UnwindUnanswered
    BY <1>1 DEF Boot, UnwindBlocks, UnwindUnanswered
  <2>5. QED
    BY <2>2, <2>3, <2>4, AccountsStay
<1>2. CASE UnwindBlocks
  <2>1. /\ blocks' = [k \in Heights |-> IF k > forkPoint THEN None ELSE blocks[k]]
        /\ forgotten' = {k \in forgotten : k <= forkPoint}
        /\ lastIndexed' = forkPoint /\ pc = "unwindBlocks" /\ UNCHANGED gaps
    BY <1>2 DEF UnwindBlocks, Unwound
  <2>2. up /\ forkPoint <= lastIndexed
    BY <2>1, <1>t DEF LoopPhases
  <2>3. AccountedFor(n)
    BY <1>a, <2>1, <2>2, <1>i
  <2>4. QED
    BY <2>1, <2>3, <1>i DEF AccountedFor
<1>3. CASE UnwindUnanswered /\ ~UnwindBlocks
  <2>1. UNCHANGED lastIndexed /\ pc = "unwindBlocks" /\ ~Boot
    BY <1>3 DEF UnwindUnanswered, Boot
  <2>2. AccountedFor(n)
    BY <2>1, <1>a, <1>t DEF LoopPhases
  <2>3. QED
    BY <1>3, <2>1, <2>2, AccountsStay
<1>4. CASE ~Boot /\ ~UnwindBlocks /\ ~UnwindUnanswered
  BY <1>4, <1>a, <1>i, CursorMoves, AccountsStay
<1>5. QED
  BY <1>1, <1>2, <1>3, <1>4

(***************************************************************************)
(* What the running cursor relies on is kept by every step.                *)
(***************************************************************************)
LEMMA CursorInvariance ==
  ASSUME ScanCoversBatch
  PROVE  Spec => []CursorInv
<1>1. Init => CursorInv
  <2> SUFFICES ASSUME Init PROVE CursorInv
    OBVIOUS
  <2>1. 0 # None
    BY MarkersAssumption, BoundsAssumption DEF Epochs
  <2>2. WindowAccounted
    BY <2>1, Bounds, BoundsAssumption DEF Init, WindowAccounted, Stored, AccountedFor
  <2>3. QED
    BY <2>2 DEF Init, CursorInv, CursorAccounted
<1>2. LoopInv /\ CursorInv /\ [Next]_vars /\ LoopInv' => CursorInv'
  BY WindowStep, CursorStep, PoisonStep DEF CursorInv, LoopInv
<1>3. QED
  BY <1>1, <1>2, IndexerInvariance, PTL DEF Spec

(***************************************************************************)
(* Whatever skips, quarantines, failed batches, crashes and reorgs it went *)
(* through, the running cursor never stands above a height that is neither *)
(* stored nor recorded as a gap, but for the rows that an unwind deleted   *)
(* without an answer, provided that a batch is no longer than the window a *)
(* boot scans.                                                             *)
(***************************************************************************)
THEOREM CursorAccountedSafe ==
  ASSUME ScanCoversBatch
  PROVE  Spec => []CursorAccounted
<1>1. CursorInv => CursorAccounted
  BY DEF CursorInv
<1>2. QED
  BY <1>1, CursorInvariance, PTL

-----------------------------------------------------------------------------
(***************************************************************************)
(* Nothing is lost silently.  A database that is not empty at first, a     *)
(* first block that no reorg replaces, no MAX_LAG skip over queued         *)
(* transfers, and no late indexing of a height that the watermark has      *)
(* already covered as quarantined.                                         *)
(***************************************************************************)
(***************************************************************************)
(* A fork is never below the first block.                                  *)
(***************************************************************************)
LEMMA ForkAboveFirst ==
  ASSUME NotFromScratch, TypeOK, FirstBlockFinal, Reorged
  PROVE  ForkPoint >= 1
<1> DEFINE floor == Larger(0, lastIndexed - ReorgDepth)
           agreed == {n \in Stored : n \in floor..lastIndexed /\ n <= tip
                                     /\ chain[n] = blocks[n]}
<1>1. /\ lastIndexed \in Int /\ lastIndexed > 1 /\ tip \in Int /\ tip >= lastIndexed
      /\ floor \in Int /\ floor <= lastIndexed
  BY BoundsAssumption, Bounds DEF TypeOK, Reorged, Larger
<1>2. ForkPoint = IF agreed = {} THEN floor ELSE MaxOf(agreed)
  BY DEF ForkPoint
<1>3. agreed \subseteq 0..MaxHeight
  BY Bounds DEF Stored
<1> HIDE DEF floor
<1>4. CASE floor <= 1
  <2>1. 1 \in Stored
    <3>1. 1 \in Heights
      BY BoundsAssumption, Bounds DEF NotFromScratch
    <3>2. blocks[1] # None
      BY MarkersAssumption, BoundsAssumption DEF FirstBlockFinal, Epochs
    <3>3. QED
      BY <3>1, <3>2 DEF Stored
  <2>2. 1 \in agreed
    BY <1>1, <1>4, <2>1 DEF FirstBlockFinal
  <2>3. 1 <= MaxOf(agreed)
    <3> HIDE DEF agreed
    <3>1. QED
      BY <1>3, <2>2, GreatestOf
  <2>4. MaxOf(agreed) \in agreed
    <3> HIDE DEF agreed
    <3>1. QED
      BY <1>3, <2>2, GreatestOf
  <2>5. QED
    BY <1>2, <1>3, <2>2, <2>3, <2>4, Bounds
<1>5. CASE ~(floor <= 1)
  <2>1. agreed # {} => MaxOf(agreed) \in agreed
    <3> HIDE DEF agreed
    <3>1. QED
      BY <1>3, GreatestOf
  <2>2. \A n \in agreed : n >= 1
    BY <1>1, <1>5, Bounds DEF Stored
  <2>3. QED
    BY <1>1, <1>2, <1>5, <2>1, <2>2
<1>6. QED
  BY <1>4, <1>5

(***************************************************************************)
(* The fork of a rollback, and of the unwind that follows it.              *)
(***************************************************************************)
LEMMA ForkStep ==
  ASSUME NotFromScratch, LoopInv, FirstBlockFinal, [Next]_vars
  PROVE  /\ (rphase # "none" => fork >= 1)'
         /\ (pc \in {"recover", "unwindRows", "unwindBlocks"} => forkPoint >= 1)'
<1> DEFINE Above1 == /\ (rphase # "none" => fork >= 1)'
                     /\ (pc \in {"recover", "unwindRows", "unwindBlocks"} => forkPoint >= 1)'
<1>t. TypeOK /\ LoopPhases /\ LoopPhases'
  BY PhasesStep DEF LoopInv
<1>p. ASSUME pc' \in {"recover", "unwindRows", "unwindBlocks"} => forkPoint' >= 1
      PROVE  Above1
  BY <1>p, <1>t DEF LoopPhases
<1>u. ASSUME UNCHANGED <<pc, forkPoint>> PROVE Above1
  BY <1>u, <1>p DEF FirstBlockFinal
<1>o. ASSUME pc' \notin {"recover", "unwindRows", "unwindBlocks"} PROVE Above1
  BY <1>o, <1>p
<1>b. ASSUME NEW n \in Heights, status[n] \in {"claimed", "fetched", "inserted"}
      PROVE  pc = "batch"
  BY <1>b, <1>t DEF LoopPhases, NoBatch, InFlight, InState
<1>1. CASE ChainGrows \/ \E f \in 0..MaxHeight : ChainReorgs(f)
  BY <1>1, <1>u DEF ChainGrows, ChainReorgs, loopVars
<1>2. CASE BootAdoptsMaxIndexed \/ Boot \/ Crash
  BY <1>2, <1>u, <1>o DEF BootAdoptsMaxIndexed, Boot, Crash, loopVars
<1>3. CASE IdleReorgCheck \/ BoundaryReorgCheck
  <2>1. Reorged /\ forkPoint' = ForkPoint
    BY <1>3 DEF IdleReorgCheck, BoundaryReorgCheck, RecoverFromReorg
  <2>2. QED
    BY <2>1, <1>p, <1>t, ForkAboveFirst
<1>4. CASE HeadOfIteration /\ ~(IdleReorgCheck \/ BoundaryReorgCheck)
  BY <1>4, <1>u, <1>o DEF HeadOfIteration, CaughtUp, Iterate, MaxLagSkip,
     MaxLagSkipFails, ReorgCheckThrows, ReadTip, vars, loopVars
<1>5. CASE Recovery
  <2>1. CASE RollbackPersistSettles
    BY <2>1, <1>u DEF RollbackPersistSettles, loopVars
  <2>2. CASE UnwindPoison \/ UnwindRows
    BY <2>2, <1>p DEF UnwindPoison, UnwindRows, FirstBlockFinal
  <2>3. CASE UnwindBlocks \/ UnwindUnanswered \/ UnwindThrows
    BY <2>3, <1>o DEF UnwindBlocks, UnwindUnanswered, UnwindThrows
  <2>4. QED
    BY <1>5, <2>1, <2>2, <2>3 DEF Recovery
<1>6. CASE Batch
  <2>1. ASSUME NEW n \in Heights, Claim(n) \/ Fetch(n) \/ FailsClean(n) \/ InsertBlock(n)
                                  \/ FailsDirty(n) \/ FinishBlock(n)
        PROVE  UNCHANGED <<pc, forkPoint>>
    BY <2>1 DEF Claim, Fetch, FailsClean, InsertBlock, FailsDirty, FinishBlock
  <2>2. CASE StartBatch \/ EndBatch
    BY <2>2, <1>o DEF StartBatch, EndBatch
  <2>3. CASE Park \/ ParkedReturns
    BY <2>3, <1>u DEF Park, ParkedReturns
  <2>4. QED
    BY <1>6, <1>u, <2>1, <2>2, <2>3 DEF Batch
<1>7. CASE Quarantine
  BY <1>7, <1>o DEF Quarantine, QuarantineRecorded, QuarantineRefused, QuarantineFails,
     StepOverBlocker
<1>8. CASE WriterProceeds \/ WriterPassFails \/ \E b \in 0..MaxHeight : FloorPersistSettles(b)
  BY <1>8, <1>u DEF WriterProceeds, WriterPassFails, FloorPersistSettles, loopVars
<1>9. CASE UNCHANGED vars
  BY <1>9, <1>u DEF vars, loopVars
<1>10. QED
  BY <1>1, <1>2, <1>3, <1>4, <1>5, <1>6, <1>7, <1>8, <1>9 DEF Next

(***************************************************************************)
(* The persisted watermark is never zero, and no floor is on its way.      *)
(***************************************************************************)
LEMMA WatermarkStep ==
  ASSUME LoopInv, LossInv, [Next]_vars, ~MaxLagSkip
  PROVE  /\ persistedW' >= 1 /\ floorPersists' = {}
         /\ wpc' = "persist" => target' >= 1
<1> DEFINE Goal == /\ persistedW' >= 1 /\ floorPersists' = {}
                   /\ wpc' = "persist" => target' >= 1
<1>t. TypeOK /\ LoopPhases
  BY DEF LoopInv
<1>l. /\ persistedW >= 1 /\ floorPersists = {}
      /\ wpc = "persist" => target >= 1
      /\ rphase # "none" => fork >= 1
  BY DEF LossInv, FirstBlockFinal, ExcusesNarrow
<1>u. ASSUME UNCHANGED <<persistedW, floorPersists>>,
             wpc' = "persist" => wpc = "persist" /\ UNCHANGED target
      PROVE  Goal
  BY <1>u, <1>l
<1>r. ASSUME NEW q, NEW rows, NEW stopped, NEW held,
             W!RunTransferWriter(q, rows, stopped, held)
      PROVE  wpc' \in {"write", "idle"} \/ (~stopped /\ wpc' = wpc)
  BY <1>r DEF W!RunTransferWriter
<1>n. W!NextPass => wpc' \in {"write", "idle"}
  BY <1>r DEF W!NextPass
<1>1. ASSUME UNCHANGED writerVars PROVE Goal
  BY <1>1, <1>u DEF writerVars, writerMemory
<1>2. CASE ChainGrows \/ \E f \in 0..MaxHeight : ChainReorgs(f)
  BY <1>2, <1>1 DEF ChainGrows, ChainReorgs
<1>3. CASE BootAdoptsMaxIndexed
  BY <1>3, <1>l DEF BootAdoptsMaxIndexed, W!AdoptMaxIndexed
<1>4. CASE Boot
  BY <1>4, <1>u DEF Boot, W!InitTransferWriter, W!queueVars
<1>5. CASE Crash
  BY <1>5, <1>l DEF Crash, W!Crash
<1>6. CASE IdleReorgCheck \/ BoundaryReorgCheck
  BY <1>6, <1>u DEF IdleReorgCheck, BoundaryReorgCheck, RecoverFromReorg,
     W!RollbackBegins, W!queueVars
<1>7. CASE HeadOfIteration /\ ~(IdleReorgCheck \/ BoundaryReorgCheck)
  BY <1>7, <1>1 DEF HeadOfIteration, CaughtUp, Iterate, MaxLagSkipFails,
     ReorgCheckThrows, vars
<1>8. CASE RollbackPersistSettles
  <2>1. /\ rphase = "persist" /\ persistedW' \in {persistedW, fork}
        /\ UNCHANGED floorPersists
        /\ W!RunTransferWriter(pending, pendingRows, TRUE, FALSE)
    BY <1>8 DEF RollbackPersistSettles, W!RollbackPersistSettles
  <2>2. QED
    BY <2>1, <1>l, <1>r
<1>9. CASE Recovery /\ ~RollbackPersistSettles
  BY <1>9, <1>1, <1>u DEF Recovery, UnwindPoison, UnwindRows, UnwindBlocks,
     UnwindUnanswered, UnwindThrows, W!UnwindDeletes, W!UnwindThrows, W!queueVars
<1>10. CASE Batch
  <2>1. ASSUME NEW n \in Heights, FinishBlock(n)
        PROVE  Goal
    <3>1. /\ UNCHANGED <<persistedW, floorPersists, target>>
          /\ wpc' \in {"write", "idle", wpc}
      BY <2>1, <1>r DEF FinishBlock, W!EnqueueTransferWrite
    <3>2. QED
      BY <3>1, <1>u
  <2>2. ASSUME NEW n \in Heights, Claim(n) \/ Fetch(n) \/ FailsClean(n) \/ InsertBlock(n)
                                  \/ FailsDirty(n)
        PROVE  Goal
    BY <2>2, <1>1 DEF Claim, Fetch, FailsClean, InsertBlock, FailsDirty
  <2>3. CASE StartBatch \/ Park \/ ParkedReturns \/ EndBatch
    BY <2>3, <1>1 DEF StartBatch, Park, ParkedReturns, EndBatch
  <2>4. QED
    BY <1>10, <2>1, <2>2, <2>3 DEF Batch
<1>11. CASE StepOverBlocker
  <2>1. /\ UNCHANGED <<persistedW, floorPersists, target>>
        /\ wpc' \in {"write", "idle", wpc}
    BY <1>11, <1>r DEF StepOverBlocker, W!EnqueueQuarantinedBlock
  <2>2. QED
    BY <2>1, <1>u
<1>12. CASE Quarantine /\ ~StepOverBlocker
  BY <1>12, <1>1 DEF Quarantine, QuarantineRecorded, QuarantineRefused, QuarantineFails
<1>13. CASE WriterProceeds \/ WriterPassFails
  <2>1. CASE W!WriteCommits \/ W!PersistLands \/ W!BackoffEnds \/ W!PassFails
    BY <2>1, <1>l, <1>n DEF W!WriteCommits, W!PersistLands, W!BackoffEnds, W!PassFails
  <2>2. CASE W!PersistReturns
    BY <2>2, <1>l, <1>n DEF W!PersistReturns
  <2>3. CASE W!RollbackPurges
    BY <2>3, <1>l, <1>r DEF W!RollbackPurges
  <2>4. CASE W!WriteReturns
    <3>1. UNCHANGED <<persistedW, floorPersists>>
      BY <2>4 DEF W!WriteReturns
    <3>2. PICK m \in 0..MaxHeight :
             IF m > durableBlock THEN target' = m ELSE UNCHANGED target /\ W!NextPass
      BY <2>4 DEF W!WriteReturns
    <3>3. durableBlock \in Int /\ durableBlock >= 0 /\ m \in Int
      BY <1>t, Bounds DEF TypeOK, W!TypeOK
    <3>4. QED
      BY <3>1, <3>2, <3>3, <1>l, <1>n
  <2>5. QED
    BY <1>13, <2>1, <2>2, <2>3, <2>4 DEF WriterProceeds, WriterPassFails
<1>14. CASE \E b \in 0..MaxHeight : FloorPersistSettles(b)
  BY <1>14, <1>l DEF FloorPersistSettles, W!FloorPersistSettles
<1>15. CASE UNCHANGED vars
  BY <1>15, <1>1 DEF vars
<1>16. QED
  BY <1>2, <1>3, <1>4, <1>5, <1>6, <1>7, <1>8, <1>9, <1>10, <1>11, <1>12, <1>13, <1>14,
     <1>15 DEF Next

(***************************************************************************)
(* A height gets an excuse only when a rollback unwinds its rows or its    *)
(* block, still absent and recorded, is stepped over.                      *)
(***************************************************************************)
LEMMA ExcusesStep ==
  ASSUME NotFromScratch, LoopInv, LossInv, [Next]_vars, ~MaxLagSkip, NEW n \in Heights
  PROVE  \/ excuse'[n] \in {None, "unwind", "unseen", excuse[n]}
         \/ excuse'[n] = "quarantine" /\ blocks'[n] = None /\ n \in gaps'
<1> DEFINE Goal == \/ excuse'[n] \in {None, "unwind", "unseen", excuse[n]}
                   \/ excuse'[n] = "quarantine" /\ blocks'[n] = None /\ n \in gaps'
<1>u. ASSUME UNCHANGED excuse PROVE Goal
  BY <1>u
<1>1. ASSUME UNCHANGED writerVars PROVE Goal
  BY <1>1, <1>u DEF writerVars
<1>2. CASE ChainGrows \/ \E f \in 0..MaxHeight : ChainReorgs(f)
  BY <1>2, <1>1 DEF ChainGrows, ChainReorgs
<1>3. CASE BootAdoptsMaxIndexed
  BY <1>3, Bounds DEF BootAdoptsMaxIndexed, W!AdoptMaxIndexed, LossInv, FirstBlockFinal,
     TypeOK, LoopInv, W!TypeOK
<1>4. CASE Boot
  <2>1. Stored # {}
    <3>1. 1 \in Heights /\ blocks[1] # None
      BY MarkersAssumption, BoundsAssumption, Bounds
      DEF LossInv, FirstBlockFinal, NotFromScratch, Epochs
    <3>2. QED
      BY <3>1 DEF Stored
  <2>2. persistedW > 0
    BY Bounds DEF LossInv, FirstBlockFinal, LoopInv, TypeOK, W!TypeOK
  <2>3. QED
    BY <1>4, <1>u, <2>1, <2>2 DEF Boot, SeedW, W!InitTransferWriter
<1>5. CASE Crash
  BY <1>5, <1>u DEF Crash, W!Crash
<1>6. CASE IdleReorgCheck \/ BoundaryReorgCheck
  BY <1>6, <1>u DEF IdleReorgCheck, BoundaryReorgCheck, RecoverFromReorg, W!RollbackBegins
<1>7. CASE HeadOfIteration /\ ~(IdleReorgCheck \/ BoundaryReorgCheck)
  BY <1>7, <1>1 DEF HeadOfIteration, CaughtUp, Iterate, MaxLagSkipFails,
     ReorgCheckThrows, vars
<1>8. CASE UnwindRows \/ RollbackPersistSettles
  BY <1>8, Bounds DEF UnwindRows, W!UnwindDeletes, RollbackPersistSettles,
     W!RollbackPersistSettles
<1>9. CASE Recovery /\ ~UnwindRows /\ ~RollbackPersistSettles
  <2>1. CASE W!UnwindThrows
    BY <2>1, Bounds DEF W!UnwindThrows
  <2>2. CASE ~W!UnwindThrows
    BY <1>9, <2>2, <1>1, <1>u DEF Recovery, UnwindPoison, UnwindBlocks,
       UnwindUnanswered, UnwindThrows
  <2>3. QED
    BY <2>1, <2>2
<1>10. CASE Batch
  BY <1>10, <1>1, <1>u DEF Batch, StartBatch, Park, ParkedReturns, Claim, Fetch, FailsClean, InsertBlock,
     FailsDirty, FinishBlock, W!EnqueueTransferWrite, EndBatch
<1>11. CASE StepOverBlocker
  <2>1. /\ excuse' = W!Excuse({Blocker}, "quarantine")
        /\ blocks' = blocks /\ blocks[Blocker] = None /\ Blocker \in gaps'
    BY <1>11 DEF StepOverBlocker, W!EnqueueQuarantinedBlock, dbVars, LoopInv, BlockerRecorded
  <2>2. QED
    BY <2>1, Bounds DEF W!Excuse
<1>12. CASE Quarantine /\ ~StepOverBlocker
  BY <1>12, <1>1 DEF Quarantine, QuarantineRecorded, QuarantineRefused, QuarantineFails
<1>13. CASE WriterProceeds \/ WriterPassFails
  <2>1. CASE W!WriteCommits
    BY <2>1, Bounds DEF W!WriteCommits
  <2>2. CASE ~W!WriteCommits
    BY <1>13, <2>2, <1>u DEF WriterProceeds, WriterPassFails, W!PersistLands, W!BackoffEnds,
       W!PassFails, W!PersistReturns, W!RollbackPurges, W!WriteReturns
  <2>3. QED
    BY <2>1, <2>2
<1>14. CASE \E b \in 0..MaxHeight : FloorPersistSettles(b)
  BY <1>14, <1>u DEF FloorPersistSettles, W!FloorPersistSettles
<1>15. CASE UNCHANGED vars
  BY <1>15, <1>1 DEF vars
<1>16. QED
  BY <1>2, <1>3, <1>4, <1>5, <1>6, <1>7, <1>8, <1>9, <1>10, <1>11, <1>12, <1>13, <1>14,
     <1>15 DEF Next

(***************************************************************************)
(* The first block stays as it is.                                         *)
(***************************************************************************)
LEMMA FirstBlockStep ==
  ASSUME NotFromScratch, LoopInv, LossInv, [Next]_vars
  PROVE  chain'[1] = 0 /\ blocks'[1] = 0
<1>1. chain[1] = 0 /\ blocks[1] = 0 /\ 1 \in Heights /\ 0 # None
  BY BoundsAssumption, MarkersAssumption, Bounds
  DEF LossInv, FirstBlockFinal, NotFromScratch, Epochs
<1>2. chain'[1] = 0
  <2>1. ASSUME NEW f \in 0..MaxHeight, ChainReorgs(f)
        PROVE  chain'[1] = 0
    <3>1. ~(1 > f)
      BY <2>1, BoundsAssumption DEF ChainReorgs, NotFromScratch
    <3>2. QED
      BY <2>1, <3>1, <1>1 DEF ChainReorgs
  <2>2. ASSUME ~\E f \in 0..MaxHeight : ChainReorgs(f)
        PROVE  UNCHANGED chain
    BY <2>2 DEF Next, ChainGrows, BootAdoptsMaxIndexed, Boot, Crash, HeadOfIteration,
       IdleReorgCheck, CaughtUp, Iterate, MaxLagSkip, MaxLagSkipFails, BoundaryReorgCheck,
       ReorgCheckThrows, Recovery, RollbackPersistSettles, UnwindPoison, UnwindRows,
       UnwindBlocks, UnwindUnanswered, UnwindThrows, Batch, StartBatch, Park,
       ParkedReturns, Claim, Fetch, FailsClean, InsertBlock,
       FailsDirty, FinishBlock, EndBatch, Quarantine, QuarantineRecorded, QuarantineRefused,
       QuarantineFails, StepOverBlocker, WriterProceeds, WriterPassFails,
       FloorPersistSettles, vars, chainVars
  <2>3. QED
    BY <2>1, <2>2, <1>1
<1>3. blocks'[1] = 0
  <2>1. CASE UnwindBlocks \/ UnwindUnanswered
    <3>1. forkPoint >= 1 /\ forkPoint \in Int
      BY <2>1, Bounds DEF UnwindBlocks, UnwindUnanswered, LossInv, FirstBlockFinal,
         LoopInv, TypeOK
    <3>2. QED
      BY <2>1, <3>1, <1>1 DEF UnwindBlocks, UnwindUnanswered, Unwound
  <2>2. CASE ~UnwindBlocks /\ ~UnwindUnanswered
    BY <2>2, <1>1, RowsStep, InsertKeeps
  <2>3. QED
    BY <2>1, <2>2
<1>4. QED
  BY <1>2, <1>3

(***************************************************************************)
(* The transfers of a height come only from a batch that is being written. *)
(***************************************************************************)
LEMMA TransfersStep ==
  ASSUME LoopInv, [Next]_vars, NEW n \in Heights, tt[n] = None
  PROVE  tt'[n] = None \/ W!IsReal(drained[n])
<1> DEFINE Goal == tt'[n] = None \/ W!IsReal(drained[n])
<1>u. ASSUME UNCHANGED tt PROVE Goal
  BY <1>u
<1>1. ASSUME UNCHANGED writerVars PROVE Goal
  BY <1>1, <1>u DEF writerVars
<1>2. CASE ChainGrows \/ \E f \in 0..MaxHeight : ChainReorgs(f)
  BY <1>2, <1>1 DEF ChainGrows, ChainReorgs
<1>3. CASE BootAdoptsMaxIndexed \/ Boot \/ Crash
  BY <1>3, <1>u DEF BootAdoptsMaxIndexed, Boot, Crash, W!AdoptMaxIndexed,
     W!InitTransferWriter, W!Crash, W!memoryVars, W!queueVars
<1>4. CASE HeadOfIteration
  <2>1. CASE IdleReorgCheck \/ BoundaryReorgCheck
    BY <2>1, <1>u DEF IdleReorgCheck, BoundaryReorgCheck, RecoverFromReorg,
       W!RollbackBegins
  <2>2. CASE MaxLagSkip
    BY <2>2, <1>1, <1>u DEF MaxLagSkip, W!SetDurableFloor
  <2>3. CASE CaughtUp \/ Iterate \/ MaxLagSkipFails \/ ReorgCheckThrows
    BY <2>3, <1>1 DEF CaughtUp, vars, Iterate, MaxLagSkipFails, ReorgCheckThrows
  <2>4. QED
    BY <1>4, <2>1, <2>2, <2>3 DEF HeadOfIteration
<1>5. CASE UnwindRows
  BY <1>5, Bounds DEF UnwindRows, W!UnwindDeletes
<1>6. CASE Recovery /\ ~UnwindRows
  BY <1>6, <1>1, <1>u DEF Recovery, RollbackPersistSettles, W!RollbackPersistSettles,
     UnwindPoison, UnwindBlocks, UnwindUnanswered, UnwindThrows, W!UnwindThrows
<1>7. CASE Batch
  BY <1>7, <1>1, <1>u DEF Batch, StartBatch, Park, ParkedReturns, Claim, Fetch,
     FailsClean, InsertBlock, FailsDirty, FinishBlock, W!EnqueueTransferWrite, EndBatch
<1>8. CASE Quarantine
  BY <1>8, <1>1, <1>u DEF Quarantine, QuarantineRecorded, QuarantineRefused,
     QuarantineFails, StepOverBlocker, W!EnqueueQuarantinedBlock
<1>9. CASE WriterProceeds \/ WriterPassFails
  <2>1. CASE W!WriteCommits
    BY <2>1, Bounds DEF W!WriteCommits
  <2>2. CASE ~W!WriteCommits
    BY <1>9, <2>2, <1>u DEF WriterProceeds, WriterPassFails, W!PersistLands, W!BackoffEnds,
       W!PassFails, W!PersistReturns, W!RollbackPurges, W!WriteReturns
  <2>3. QED
    BY <2>1, <2>2
<1>10. CASE \E b \in 0..MaxHeight : FloorPersistSettles(b)
  BY <1>10, <1>u DEF FloorPersistSettles, W!FloorPersistSettles
<1>11. CASE UNCHANGED vars
  BY <1>11, <1>1 DEF vars
<1>12. QED
  BY <1>2, <1>3, <1>4, <1>5, <1>6, <1>7, <1>8, <1>9, <1>10, <1>11 DEF Next

(***************************************************************************)
(* A forgotten height stays without rows and without transfers.            *)
(***************************************************************************)
LEMMA BareStep ==
  ASSUME LoopInv, ForgottenBare, [Next]_vars
  PROVE  ForgottenBare'
<1>t. TypeOK /\ LoopPhases /\ QueuedStored /\ QueueBelowFork
  BY DEF LoopInv
<1>m. \A b : W!IsReal(b) => b # None
  BY MarkersAssumption DEF W!IsReal
<1>1. ASSUME NEW n \in forgotten'
      PROVE  blocks'[n] = None /\ tt'[n] = None
  <2>1. CASE n \in forgotten /\ (blocks[n] = None => blocks'[n] = None)
    <3>1. n \in Heights /\ blocks[n] = None /\ tt[n] = None
      BY <2>1, <1>t DEF ForgottenBare, TypeOK
    <3>2. ~W!IsReal(drained[n])
      BY <3>1, <1>t DEF QueuedStored
    <3>3. QED
      BY <2>1, <3>1, <3>2, TransfersStep
  <2>2. CASE UnwindUnanswered /\ n \in (forkPoint + 1)..lastIndexed
    <3>1. n \in Heights /\ n > forkPoint
      BY <2>2, <1>t, Bounds DEF TypeOK
    <3>2. pc = "unwindBlocks" /\ blocks'[n] = None /\ UNCHANGED tt
      BY <2>2, <3>1 DEF UnwindUnanswered, Unwound, writerVars
    <3>3. QED
      BY <3>1, <3>2 DEF ForgottenBare
  <2>3. QED
    BY <2>1, <2>2, ForgottenStep
<1>2. ASSUME pc' = "unwindBlocks", NEW n \in Heights, n > forkPoint'
      PROVE  tt'[n] = None
  <2>1. CASE UnwindRows
    <3>1. fork = forkPoint /\ UNCHANGED forkPoint
      BY <2>1, <1>t DEF UnwindRows, W!UnwindDeletes, LoopPhases
    <3>2. QED
      BY <1>2, <2>1, <3>1, Bounds DEF UnwindRows, W!UnwindDeletes
  <2>2. CASE ~UnwindRows
    <3>1. pc = "unwindBlocks" /\ UNCHANGED forkPoint
      BY <1>2, <2>2, LoopRests DEF QuarantineRecorded
    <3>2. tt[n] = None
      BY <1>2, <3>1 DEF ForgottenBare
    <3>3. n \notin W!Queued(drained)
      BY <1>2, <3>1, <1>t, Bounds DEF QueueBelowFork, W!UpTo, TypeOK
    <3>4. ~W!IsReal(drained[n])
      BY <3>3, <1>m, Bounds DEF W!Queued
    <3>5. QED
      BY <3>2, <3>4, TransfersStep
  <2>3. QED
    BY <2>1, <2>2
<1>3. QED
  BY <1>1, <1>2 DEF ForgottenBare

(***************************************************************************)
(* What NoSilentLoss needs besides is kept.                                *)
(***************************************************************************)
LEMMA LossStep ==
  ASSUME NotFromScratch, LoopInv, LossInv, [Next]_vars, NeitherSkipNorLateBlock
  PROVE  LossInv'
<1>1. ~MaxLagSkip /\ \A n \in Heights : excuse[n] = "quarantine" /\ blocks[n] = None
                                           => blocks'[n] = None
  BY DEF NeitherSkipNorLateBlock, LateBlock
<1>2. FirstBlockFinal'
  BY <1>1, FirstBlockStep, ForkStep, WatermarkStep DEF LossInv, FirstBlockFinal
<1>3. ExcusesNarrow'
  <2>1. floorPersists' = {}
    BY <1>1, WatermarkStep
  <2>2. ASSUME NEW n \in Heights
        PROVE  /\ excuse'[n] \notin {"skip", "seed"}
               /\ excuse'[n] = "quarantine" => blocks'[n] = None /\ n \in gaps'
    <3>1. /\ excuse[n] \notin {"skip", "seed"}
          /\ excuse[n] = "quarantine" => blocks[n] = None /\ n \in gaps
      BY DEF LossInv, ExcusesNarrow
    <3>2. None \notin {"quarantine", "skip", "seed"} /\ gaps \subseteq gaps'
      BY MarkersAssumption, RowsStep
    <3>3. QED
      BY <1>1, <3>1, <3>2, ExcusesStep
  <2>3. QED
    BY <2>1, <2>2 DEF ExcusesNarrow
<1>4. ForgottenBare'
  BY BareStep DEF LossInv
<1>5. QED
  BY <1>2, <1>3, <1>4 DEF LossInv

(***************************************************************************)
(* It holds at first.                                                      *)
(***************************************************************************)
LEMMA InitLoss ==
  ASSUME NotFromScratch, Init
  PROVE  LossInv
<1>1. 1 \in Heights /\ 1 <= InitialHeight
  BY BoundsAssumption, Bounds DEF NotFromScratch
<1>2. FirstBlockFinal
  BY <1>1, BoundsAssumption DEF Init, FirstBlockFinal, Zero, NotFromScratch
<1>3. ExcusesNarrow
  BY MarkersAssumption DEF Init, ExcusesNarrow, Nothing
<1>4. ForgottenBare
  BY DEF Init, ForgottenBare
<1>5. QED
  BY <1>2, <1>3, <1>4 DEF LossInv

(***************************************************************************)
(* What a boot would take as finished is finished.                         *)
(***************************************************************************)
LEMMA ResumeFinished ==
  ASSUME NotFromScratch, LoopInv, CursorInv, LossInv
  PROVE  NoSilentLoss
<1> SUFFICES ASSUME NEW n \in 1..ResumePoint
             PROVE  IF blocks[n] = None
                    THEN n \in gaps \/ (n \in forgotten /\ UnwoundBelowW(n))
                    ELSE tt[n] # None \/ UnwoundBelowW(n)
  BY DEF NoSilentLoss
<1>t. TypeOK /\ W!IInv
  BY DEF LoopInv
<1>1. n \in Heights /\ n <= ResumeBase /\ n <= SeedW
  BY <1>t, ResumeTypes, Bounds
<1>2. SeedW = persistedW
  <2>1. 1 \in Heights /\ blocks[1] # None
    BY MarkersAssumption, BoundsAssumption, Bounds
    DEF LossInv, FirstBlockFinal, NotFromScratch, Epochs
  <2>2. persistedW > 0
    BY <1>t, Bounds DEF LossInv, FirstBlockFinal, TypeOK, W!TypeOK
  <2>3. QED
    BY <2>1, <2>2 DEF SeedW, Stored
<1>3. W!Accounted(n)
  <2>1. n \in W!UpTo(persistedW)
    BY <1>1, <1>2, Bounds DEF W!UpTo
  <2>2. QED
    BY <2>1, <1>t DEF W!IInv, W!PersistedCovered
<1>4. excuse[n] \in {"quarantine", "unwind", "unseen", None}
  BY <1>1, <1>t, Bounds DEF TypeOK, W!TypeOK, W!Excuses, LossInv, ExcusesNarrow
<1>5. excuse[n] = "quarantine" => blocks[n] = None /\ n \in gaps
  BY <1>1 DEF LossInv, ExcusesNarrow
<1>6. CASE blocks[n] = None
  <2>1. n \in gaps \/ n \in forgotten
    BY <1>6, <1>1, <1>t, ResumeAccounted DEF CursorInv, AccountedFor
  <2>2. n \in forgotten => tt[n] = None
    BY DEF LossInv, ForgottenBare
  <2>3. QED
    BY <1>3, <1>4, <1>5, <1>6, <2>1, <2>2 DEF W!Accounted, UnwoundBelowW
<1>7. CASE blocks[n] # None
  BY <1>3, <1>4, <1>5, <1>7 DEF W!Accounted, UnwoundBelowW
<1>8. QED
  BY <1>6, <1>7

(***************************************************************************)
(* Whenever the process dies, the next boot replays every height that is   *)
(* not finished, but for those unwound under a persisted watermark that    *)
(* stayed above them: its rewind failed, or the rollback had not seen it   *)
(* land.  Each hypothesis excludes one way to lose a height: a batch       *)
(* longer than the scanned window, a boot on an empty database, a MAX_LAG  *)
(* skip over queued transfers, and a quarantined height that is indexed    *)
(* after the watermark has covered it.                                     *)
(***************************************************************************)
THEOREM NoSilentLossSafe ==
  ASSUME ScanCoversBatch, NotFromScratch
  PROVE  Spec /\ [][NeitherSkipNorLateBlock]_vars => []NoSilentLoss
<1>1. Init => LossInv
  BY InitLoss
<1>2. LoopInv /\ LossInv /\ [Next]_vars /\ [NeitherSkipNorLateBlock]_vars => LossInv'
  <2> SUFFICES ASSUME LoopInv, LossInv, [Next]_vars, [NeitherSkipNorLateBlock]_vars
               PROVE  LossInv'
    OBVIOUS
  <2>1. CASE NeitherSkipNorLateBlock
    BY <2>1, LossStep
  <2>2. CASE UNCHANGED vars
    BY <2>2 DEF vars, writerVars, writerMemory, chainVars, dbVars, loopVars, LossInv,
       FirstBlockFinal, ExcusesNarrow, ForgottenBare
  <2>3. QED
    BY <2>1, <2>2
<1>3. LoopInv /\ CursorInv /\ LossInv => NoSilentLoss
  BY ResumeFinished
<1>4. QED
  BY <1>1, <1>2, <1>3, IndexerInvariance, CursorInvariance, PTL DEF Spec

=============================================================================
