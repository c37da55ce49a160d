------------------------ MODULE TransferWriterProofs ------------------------
(***************************************************************************)
(* Proofs about TransferWriter, for every number of heights, every set of  *)
(* decodes, every bound of the queue and every interleaving.               *)
(*                                                                         *)
(* IInv is inductive: a watermark only moves to a target that was covered  *)
(* when it was computed, and nothing that happens meanwhile uncovers a     *)
(* height, except an unwind, and that only above the fork, where the       *)
(* rollback left nothing that could be used.                               *)
(***************************************************************************)
EXTENDS TransferWriter, SumProofs

\* No step but an unwind takes an account from a height.
Keeps == \A n \in Heights : Accounted(n) => Accounted(n)'

(***************************************************************************)
(* What a start of the drainer does to the queue: it moves it, whole, to   *)
(* the drainer's batch, or leaves it alone.                                *)
(***************************************************************************)
LEMMA RunMoves ==
  ASSUME TypeOK, NEW q \in Queues, NEW rows, NEW stopped \in BOOLEAN,
         NEW held \in BOOLEAN, RunTransferWriter(q, rows, stopped, held)
  PROVE  /\ pending' \in Queues
         /\ drained' \in Queues
         /\ \/ pending' = NoQueue /\ drained' = q /\ wpc' = "write" /\ stopped /\ ~held
            \/ pending' = q /\ drained' = NoQueue /\ wpc' = "idle" /\ stopped
            \/ pending' = q /\ drained' = drained /\ wpc' = wpc /\ ~stopped
<1>1. NoQueue \in Queues
  BY DEF NoQueue, Queues
<1>2. QED
  BY <1>1 DEF RunTransferWriter, TypeOK

(***************************************************************************)
(* The invariant holds before the first boot.                              *)
(***************************************************************************)
LEMMA InitInvariant == Init => IInv
<1> SUFFICES ASSUME Init PROVE IInv
  OBVIOUS
<1> USE DEF Init
<1>1. NoQueue \in Queues /\ NoQueue \in [Heights -> Excuses \cup {None}]
                         /\ NoQueue \in [Heights -> Decodes \cup {None}]
  BY DEF NoQueue, Queues
<1>2. TypeOK
  <2>1. /\ {} \subseteq Heights /\ {} \subseteq 0..MaxHeight /\ 0 \in 0..MaxHeight
    BY HeightAssumption
  <2>2. persistedW \in 0..MaxHeight
    OBVIOUS
  <2>3. QED
    BY <1>1, <2>1, <2>2 DEF TypeOK
<1>3. PersistedCovered /\ WatermarkCovered
  BY HeightAssumption DEF PersistedCovered, WatermarkCovered, Accounted, UpTo, Heights
<1>4. /\ WrittenCovered /\ QuarantinesCovered /\ BatchCovered
      /\ TargetCovered /\ FloorsCovered
  BY BatchAssumption DEF WrittenCovered, QuarantinesCovered, BatchCovered,
     TargetCovered, FloorsCovered, NoQueue
<1>5. BelowFork /\ Phases
  BY DEF BelowFork, Phases
<1>6. QED
  BY <1>2, <1>3, <1>4, <1>5 DEF IInv

(***************************************************************************)
(* Every step preserves the types.                                         *)
(***************************************************************************)
LEMMA TypeStep == TypeOK /\ [Next]_vars => TypeOK'
<1> SUFFICES ASSUME TypeOK, [Next]_vars PROVE TypeOK'
  OBVIOUS
<1>0. NoQueue \in Queues /\ NoQueue \in [Heights -> Excuses \cup {None}]
                         /\ NoQueue \in [Heights -> Decodes \cup {None}]
  BY DEF NoQueue, Queues
<1>e. ASSUME NEW S, NEW why \in Excuses
      PROVE Excuse(S, why) \in [Heights -> Excuses \cup {None}]
  BY DEF Excuse, TypeOK
<1>q. ASSUME NextPass
      PROVE /\ pending' \in Queues /\ drained' \in Queues
            /\ wpc' \in {"idle", "write"} /\ overHighWater' \in BOOLEAN
  <2>1. pending \in Queues /\ TRUE \in BOOLEAN /\ paused \in BOOLEAN
    BY DEF TypeOK
  <2>2. RunTransferWriter(pending, pendingRows, TRUE, paused)
    BY <1>q DEF NextPass
  <2>3. pending' \in Queues /\ drained' \in Queues /\ wpc' \in {"idle", "write"}
    BY <2>1, <2>2, RunMoves
  <2>4. QED
    BY <1>q, <2>3 DEF NextPass, EvaluateHighWater, TypeOK
<1>1. ASSUME NEW seed \in 0..MaxHeight, InitTransferWriter(seed)
      PROVE TypeOK'
  BY <1>1, <1>e DEF InitTransferWriter, queueVars, TypeOK, Excuses
<1>2. ASSUME NEW m \in Heights, AdoptMaxIndexed(m)
      PROVE TypeOK'
  <2>1. m \in 0..MaxHeight
    BY HeightAssumption DEF Heights
  <2>2. excuse' \in [Heights -> Excuses \cup {None}]
    BY <1>2, <1>e DEF AdoptMaxIndexed, Excuses
  <2>3. QED
    BY <1>2, <2>1, <2>2 DEF AdoptMaxIndexed, memoryVars, queueVars, TypeOK
<1>3. ASSUME NEW n \in Heights, NEW d \in Decodes, EnqueueTransferWrite(n, d)
      PROVE TypeOK'
  <2> DEFINE q == [pending EXCEPT ![n] = d]
  <2> DEFINE rows == RowsInstead(n, d)
  <2>1. q \in Queues /\ (wpc = "idle") \in BOOLEAN /\ paused \in BOOLEAN
    BY DEF TypeOK, Queues, Batches
  <2>2. RunTransferWriter(q, rows, wpc = "idle", paused)
        /\ overHighWater' = EvaluateHighWater(overHighWater, rows)
    BY <1>3 DEF EnqueueTransferWrite
  <2> HIDE DEF q, rows
  <2>3. pending' \in Queues /\ drained' \in Queues
        /\ (wpc' = wpc \/ wpc' \in {"idle", "write"})
    BY <2>1, <2>2, RunMoves
  <2>4. overHighWater' \in BOOLEAN
    BY <2>2 DEF EvaluateHighWater
  <2>5. QED
    BY <1>3, <2>3, <2>4 DEF EnqueueTransferWrite, TypeOK
<1>4. ASSUME NEW n \in Heights, EnqueueQuarantinedBlock(n)
      PROVE TypeOK'
  <2> DEFINE q == [pending EXCEPT ![n] = Quarantined]
  <2> DEFINE rows == RowsInstead(n, Quarantined)
  <2>1. q \in Queues /\ (wpc = "idle") \in BOOLEAN /\ paused \in BOOLEAN
    BY DEF TypeOK, Queues, Batches
  <2>2. RunTransferWriter(q, rows, wpc = "idle", paused)
        /\ overHighWater' = EvaluateHighWater(overHighWater, rows)
    BY <1>4 DEF EnqueueQuarantinedBlock
  <2> HIDE DEF q, rows
  <2>3. pending' \in Queues /\ drained' \in Queues
        /\ (wpc' = wpc \/ wpc' \in {"idle", "write"})
    BY <2>1, <2>2, RunMoves
  <2>4. overHighWater' \in BOOLEAN
    BY <2>2 DEF EvaluateHighWater
  <2>5. QED
    BY <1>4, <2>3, <2>4, <1>e DEF EnqueueQuarantinedBlock, TypeOK, Excuses
<1>5. ASSUME NEW b \in Heights, SetDurableFloor(b)
      PROVE TypeOK'
  <2>1. b \in 0..MaxHeight
    BY HeightAssumption DEF Heights
  <2>2. excuse' \in [Heights -> Excuses \cup {None}]
    BY <1>5, <1>e DEF SetDurableFloor, Excuses
  <2>3. QED
    BY <1>5, <2>1, <2>2 DEF SetDurableFloor, queueVars, TypeOK
<1>6. ASSUME NEW b \in 0..MaxHeight, FloorPersistSettles(b)
      PROVE TypeOK'
  BY <1>6 DEF FloorPersistSettles, queueVars, TypeOK
<1>7. CASE WriteCommits
  BY <1>7 DEF WriteCommits, TypeOK, IsReal
<1>8. CASE WriteReturns
  <2>1. written' \subseteq Heights
    BY <1>8 DEF WriteReturns, TypeOK, Above
  <2>2. CASE NextPass /\ UNCHANGED target
    BY <1>8, <2>1, <2>2, <1>q DEF WriteReturns, TypeOK
  <2>3. CASE /\ target' \in 0..MaxHeight
             /\ wpc' = "persist"
             /\ UNCHANGED <<pending, pendingRows, drained, overHighWater>>
    BY <1>8, <2>1, <2>3 DEF WriteReturns, TypeOK
  <2>4. QED
    BY <1>8, <2>2, <2>3 DEF WriteReturns
<1>9. CASE PersistLands
  BY <1>9 DEF PersistLands, TypeOK
<1>10. CASE PersistReturns
  BY <1>10, <1>q, HeightAssumption DEF PersistReturns, TypeOK
<1>11. CASE PassFails
  <2>1. Requeued \in Queues
    BY DEF Requeued, TypeOK, Queues
  <2>2. overHighWater' \in BOOLEAN
    BY <1>11 DEF PassFails, EvaluateHighWater
  <2>3. QED
    BY <1>11, <1>0, <2>1, <2>2, HeightAssumption DEF PassFails, TypeOK
<1>12. CASE BackoffEnds
  BY <1>12, <1>q DEF BackoffEnds, TypeOK
<1>13. ASSUME NEW f \in 0..MaxHeight, RollbackBegins(f)
       PROVE TypeOK'
  BY <1>13 DEF RollbackBegins, queueVars, TypeOK
<1>14. CASE RollbackPurges
  <2> DEFINE rows == pendingRows - RowsIn(pending, Above(fork))
  <2>1. Purged \in Queues /\ TRUE \in BOOLEAN /\ (durableBlock > fork) \in BOOLEAN
    BY DEF Purged, TypeOK, Queues
  <2>2. RunTransferWriter(Purged, rows, TRUE, durableBlock > fork)
    BY <1>14 DEF RollbackPurges
  <2> HIDE DEF rows
  <2>3. pending' \in Queues /\ drained' \in Queues /\ wpc' \in {"idle", "write"}
    BY <2>1, <2>2, RunMoves
  <2>4. overHighWater' \in BOOLEAN
    BY <1>14 DEF RollbackPurges, Rewound, EvaluateHighWater, TypeOK
  <2>5. newest' \in [Heights -> Decodes \cup {None}]
    BY <1>14 DEF RollbackPurges, Rewound, TypeOK
  <2>6. QED
    BY <1>14, <2>3, <2>4, <2>5 DEF RollbackPurges, Rewound, TypeOK
<1>15. CASE RollbackPersistSettles
  <2>1. pending \in Queues /\ TRUE \in BOOLEAN /\ FALSE \in BOOLEAN
    BY DEF TypeOK
  <2>2. RunTransferWriter(pending, pendingRows, TRUE, FALSE)
    BY <1>15 DEF RollbackPersistSettles
  <2>3. pending' \in Queues /\ drained' \in Queues /\ wpc' \in {"idle", "write"}
    BY <2>1, <2>2, RunMoves
  <2>4. excuse' \in [Heights -> Excuses \cup {None}]
    BY <1>15 DEF RollbackPersistSettles, TypeOK, Excuses
  <2>5. QED
    BY <1>15, <2>3, <2>4 DEF RollbackPersistSettles, TypeOK
<1>16. CASE UnwindDeletes
  <2>1. tt' \in [Heights -> Decodes \cup {None}]
    BY <1>16 DEF UnwindDeletes, TypeOK
  <2>2. excuse' \in [Heights -> Excuses \cup {None}]
    BY <1>16 DEF UnwindDeletes, TypeOK, Excuses
  <2>3. QED
    BY <1>16, <2>1, <2>2, HeightAssumption DEF UnwindDeletes, queueVars, TypeOK
<1>17. CASE UnwindThrows
  BY <1>17, HeightAssumption DEF UnwindThrows, queueVars, TypeOK
<1>18. CASE Crash
  <2>1. /\ {} \subseteq Heights /\ {} \subseteq 0..MaxHeight /\ 0 \in 0..MaxHeight
    BY HeightAssumption
  <2>2. QED
    BY <1>18, <1>0, <2>1 DEF Crash, TypeOK
<1>19. CASE UNCHANGED vars
  BY <1>19 DEF vars, memoryVars, queueVars, TypeOK
<1>20. QED
  BY <1>1, <1>2, <1>3, <1>4, <1>5, <1>6, <1>7, <1>8, <1>9, <1>10, <1>11,
     <1>12, <1>13, <1>14, <1>15, <1>16, <1>17, <1>18, <1>19
  DEF Next, Drainer

(***************************************************************************)
(* The writer's state is always of its type.                               *)
(***************************************************************************)
THEOREM TypeCorrect == Spec => []TypeOK
<1>1. Init => TypeOK
  BY InitInvariant DEF IInv
<1>2. QED
  BY <1>1, TypeStep, PTL DEF Spec

(***************************************************************************)
(* Every step but UnwindDeletes keeps every account.                       *)
(***************************************************************************)
LEMMA AccountsKept ==
  ASSUME TypeOK, [Next]_vars, ~UnwindDeletes
  PROVE  Keeps
<1> USE DEF Keeps, Accounted
<1>e. ASSUME NEW S, NEW why \in Excuses,
             excuse' = Excuse(S, why), UNCHANGED tt
      PROVE  Keeps
  BY <1>e, BatchAssumption DEF Excuse
<1>u. CASE UNCHANGED <<tt, excuse>>
  BY <1>u
<1>1. ASSUME NEW seed \in 0..MaxHeight, InitTransferWriter(seed)
      PROVE Keeps
  <2>1. CASE seed = persistedW
    BY <1>1, <2>1 DEF InitTransferWriter
  <2>2. CASE seed # persistedW
    BY <1>1, <2>2, <1>e DEF InitTransferWriter, Excuses
  <2>3. QED
    BY <2>1, <2>2
<1>2. ASSUME NEW m \in Heights, AdoptMaxIndexed(m)
      PROVE Keeps
  BY <1>2, <1>e DEF AdoptMaxIndexed, Excuses
<1>3. ASSUME NEW n \in Heights, NEW d \in Decodes, EnqueueTransferWrite(n, d)
      PROVE Keeps
  BY <1>3, <1>u DEF EnqueueTransferWrite
<1>4. ASSUME NEW n \in Heights, EnqueueQuarantinedBlock(n)
      PROVE Keeps
  BY <1>4, <1>e DEF EnqueueQuarantinedBlock, Excuses
<1>5. ASSUME NEW b \in Heights, SetDurableFloor(b)
      PROVE Keeps
  BY <1>5, <1>e DEF SetDurableFloor, Excuses
<1>6. ASSUME NEW b \in 0..MaxHeight, FloorPersistSettles(b)
      PROVE Keeps
  BY <1>6, <1>u DEF FloorPersistSettles
<1>7. CASE WriteCommits
  BY <1>7, BatchAssumption DEF WriteCommits, IsReal, TypeOK
<1>8. CASE \/ WriteReturns \/ PersistLands \/ PersistReturns \/ PassFails
           \/ BackoffEnds \/ UnwindThrows \/ RollbackPurges
  BY <1>8, <1>u DEF WriteReturns, PersistLands, PersistReturns, PassFails,
     BackoffEnds, UnwindThrows, RollbackPurges
<1>9. ASSUME NEW f \in 0..MaxHeight, RollbackBegins(f)
      PROVE Keeps
  BY <1>9, <1>u DEF RollbackBegins
<1>10. CASE Crash
  BY <1>10, <1>u DEF Crash
<1>11. CASE RollbackPersistSettles
  BY <1>11, BatchAssumption DEF RollbackPersistSettles, Excuses
<1>12. CASE UNCHANGED vars
  BY <1>12, <1>u DEF vars
<1>13. QED
  BY <1>1, <1>2, <1>3, <1>4, <1>5, <1>6, <1>7, <1>8, <1>9, <1>10, <1>11, <1>12
  DEF Next, Drainer

(***************************************************************************)
(* What a step that keeps the accounts cannot break, by what it leaves     *)
(* alone.                                                                  *)
(***************************************************************************)
LEMMA Undisturbed ==
  ASSUME IInv, TypeOK', Keeps
  PROVE  /\ durableBlock' = durableBlock => WatermarkCovered'
         /\ persistedW' = persistedW => PersistedCovered'
         /\ written' \subseteq written => WrittenCovered'
         /\ (\A n \in Heights :
               pending'[n] = Quarantined \/ drained'[n] = Quarantined =>
                 pending[n] = Quarantined \/ drained[n] = Quarantined)
            => QuarantinesCovered'
         /\ wpc' # "wrote" \/ (wpc' = wpc /\ drained' = drained) => BatchCovered'
         /\ wpc' \notin {"persist", "persisted"} \/ (wpc' = wpc /\ target' = target)
            => TargetCovered'
         /\ floorPersists' \subseteq floorPersists => FloorsCovered'
<1> USE DEF IInv, Keeps
<1>1. durableBlock' = durableBlock => WatermarkCovered'
  BY DEF WatermarkCovered, UpTo
<1>2. persistedW' = persistedW => PersistedCovered'
  BY DEF PersistedCovered, UpTo
<1>3. written' \subseteq written => WrittenCovered'
  BY DEF WrittenCovered, TypeOK
<1>4. (\A n \in Heights :
         pending'[n] = Quarantined \/ drained'[n] = Quarantined =>
           pending[n] = Quarantined \/ drained[n] = Quarantined)
      => QuarantinesCovered'
  BY DEF QuarantinesCovered
<1>5. wpc' # "wrote" \/ (wpc' = wpc /\ drained' = drained) => BatchCovered'
  BY DEF BatchCovered, Queued
<1>6. wpc' \notin {"persist", "persisted"} \/ (wpc' = wpc /\ target' = target)
      => TargetCovered'
  BY DEF TargetCovered, Covered, UpTo
<1>7. floorPersists' \subseteq floorPersists => FloorsCovered'
  BY DEF FloorsCovered, Covered, UpTo
<1>8. QED
  BY <1>1, <1>2, <1>3, <1>4, <1>5, <1>6, <1>7

(***************************************************************************)
(* Every step but UnwindDeletes preserves the invariant.  A case says what *)
(* the action moves; <1>u has the rest.                                    *)
(***************************************************************************)
LEMMA OtherStep ==
  ASSUME IInv, [Next]_vars, ~UnwindDeletes
  PROVE  IInv'
<1>t. TypeOK /\ TypeOK'
  BY TypeStep DEF IInv
<1>k. Keeps
  BY <1>t, AccountsKept
<1>u. /\ durableBlock' = durableBlock => WatermarkCovered'
      /\ persistedW' = persistedW => PersistedCovered'
      /\ written' \subseteq written => WrittenCovered'
      /\ (\A n \in Heights :
            pending'[n] = Quarantined \/ drained'[n] = Quarantined =>
              pending[n] = Quarantined \/ drained[n] = Quarantined)
         => QuarantinesCovered'
      /\ wpc' # "wrote" \/ (wpc' = wpc /\ drained' = drained) => BatchCovered'
      /\ wpc' \notin {"persist", "persisted"} \/ (wpc' = wpc /\ target' = target)
         => TargetCovered'
      /\ floorPersists' \subseteq floorPersists => FloorsCovered'
  BY <1>t, <1>k, Undisturbed
<1>i. IInv
  OBVIOUS
<1>1. ASSUME NEW seed \in 0..MaxHeight, InitTransferWriter(seed)
      PROVE IInv'
  <2>1. WatermarkCovered'
    <3>1. CASE seed = persistedW
      BY <1>1, <1>k, <1>i, <3>1
      DEF InitTransferWriter, WatermarkCovered, PersistedCovered, UpTo, Keeps, IInv
    <3>2. CASE seed # persistedW
      BY <1>1, <1>t, <3>2, BatchAssumption
      DEF InitTransferWriter, WatermarkCovered, UpTo, Accounted, Excuse, Excuses
    <3>3. QED
      BY <3>1, <3>2
  <2>2. BelowFork' /\ Phases'
    BY <1>1, <1>i DEF InitTransferWriter, BelowFork, Phases, queueVars, IInv
  <2>3. QED
    BY <1>1, <1>t, <1>u, <2>1, <2>2 DEF InitTransferWriter, queueVars, IInv
<1>2. ASSUME NEW m \in Heights, AdoptMaxIndexed(m)
      PROVE IInv'
  <2>1. PersistedCovered'
    BY <1>2, <1>t, BatchAssumption
    DEF AdoptMaxIndexed, PersistedCovered, UpTo, Accounted, Excuse, Excuses
  <2>2. BelowFork' /\ Phases'
    BY <1>2, <1>i
    DEF AdoptMaxIndexed, memoryVars, queueVars, BelowFork, Phases, UpTo, Queued, IInv
  <2>3. QED
    BY <1>2, <1>t, <1>u, <2>1, <2>2
    DEF AdoptMaxIndexed, memoryVars, queueVars, IInv
<1>3. ASSUME NEW n \in Heights, NEW d \in Decodes, MayIndex(n), EnqueueTransferWrite(n, d)
      PROVE IInv'
  <2> DEFINE q == [pending EXCEPT ![n] = d]
  <2> DEFINE rows == RowsInstead(n, d)
  <2>1. q \in Queues /\ (wpc = "idle") \in BOOLEAN /\ paused \in BOOLEAN
    BY <1>t DEF TypeOK, Queues, Batches
  <2>2. RunTransferWriter(q, rows, wpc = "idle", paused)
    BY <1>3 DEF EnqueueTransferWrite
  <2>3. \A k \in Heights : /\ q[k] = Quarantined => pending[k] = Quarantined
                           /\ q[k] # None => pending[k] # None \/ k = n
    BY <1>t, BatchAssumption DEF TypeOK, Queues
  <2> HIDE DEF q, rows
  <2>4. \/ pending' = NoQueue /\ drained' = q /\ wpc' = "write" /\ wpc = "idle" /\ ~paused
        \/ pending' = q /\ drained' = NoQueue /\ wpc' = "idle" /\ wpc = "idle"
        \/ pending' = q /\ drained' = drained /\ wpc' = wpc
    BY <1>t, <2>1, <2>2, RunMoves, ZenonT(40)
  <2>5. QuarantinesCovered'
    BY <1>u, <2>3, <2>4, BatchAssumption DEF NoQueue
  <2>6. BelowFork'
    BY <1>3, <1>i, <2>3, <2>4
    DEF EnqueueTransferWrite, MayIndex, BelowFork, Queued, UpTo, NoQueue, IInv
  <2>7. Phases'
    BY <1>3, <1>i, <2>4 DEF EnqueueTransferWrite, Phases, IInv
  <2>8. QED
    BY <1>3, <1>t, <1>u, <2>4, <2>5, <2>6, <2>7 DEF EnqueueTransferWrite, IInv
<1>4. ASSUME NEW n \in Heights, MayQuarantine(n), EnqueueQuarantinedBlock(n)
      PROVE IInv'
  <2> DEFINE q == [pending EXCEPT ![n] = Quarantined]
  <2> DEFINE rows == RowsInstead(n, Quarantined)
  <2>1. q \in Queues /\ (wpc = "idle") \in BOOLEAN /\ paused \in BOOLEAN
    BY <1>t DEF TypeOK, Queues, Batches
  <2>2. RunTransferWriter(q, rows, wpc = "idle", paused)
    BY <1>4 DEF EnqueueQuarantinedBlock
  <2>3. \A k \in Heights : q[k] = Quarantined => pending[k] = Quarantined \/ k = n
    BY <1>t DEF TypeOK, Queues
  <2> HIDE DEF q, rows
  <2>4. \/ pending' = NoQueue /\ drained' = q /\ wpc' = "write" /\ wpc = "idle"
        \/ pending' = q /\ drained' = NoQueue /\ wpc' = "idle" /\ wpc = "idle"
        \/ pending' = q /\ drained' = drained /\ wpc' = wpc
    BY <1>t, <2>1, <2>2, RunMoves, ZenonT(40)
  <2>5. Accounted(n)'
    BY <1>4, <1>t, BatchAssumption
    DEF EnqueueQuarantinedBlock, Accounted, Excuse, Excuses
  <2>6. QuarantinesCovered'
    BY <1>k, <1>i, <2>3, <2>4, <2>5, BatchAssumption
    DEF QuarantinesCovered, Keeps, NoQueue, IInv
  <2>7. BelowFork' /\ Phases'
    BY <1>4, <1>i, <2>4
    DEF EnqueueQuarantinedBlock, MayQuarantine, BelowFork, Phases, IInv
  <2>8. QED
    BY <1>4, <1>t, <1>u, <2>4, <2>6, <2>7 DEF EnqueueQuarantinedBlock, IInv
<1>5. ASSUME NEW b \in Heights, MayRaiseFloor, SetDurableFloor(b)
      PROVE IInv'
  <2>1. \A n \in UpTo(b) : Accounted(n)'
    <3> SUFFICES ASSUME NEW n \in UpTo(b) PROVE Accounted(n)'
      OBVIOUS
    <3>1. CASE n <= durableBlock
      BY <1>k, <1>i, <3>1 DEF WatermarkCovered, UpTo, Keeps, IInv
    <3>2. CASE ~(n <= durableBlock)
      <4>1. n \in UpTo(b) \cap Above(durableBlock)
        BY <1>t, <3>2, HeightAssumption DEF UpTo, Above, TypeOK, Heights
      <4>2. QED
        BY <1>5, <1>t, <4>1, BatchAssumption
        DEF SetDurableFloor, Accounted, Excuse, Excuses, UpTo
    <3>3. QED
      BY <3>1, <3>2
  <2>2. WatermarkCovered'
    BY <1>5, <2>1 DEF SetDurableFloor, WatermarkCovered, UpTo
  <2>3. FloorsCovered'
    BY <1>5, <1>k, <1>i, <2>1 DEF SetDurableFloor, FloorsCovered, Covered, UpTo, Keeps, IInv
  <2>4. BelowFork' /\ Phases'
    BY <1>5, <1>i DEF SetDurableFloor, MayRaiseFloor, queueVars, BelowFork, Phases, IInv
  <2>5. QED
    BY <1>5, <1>t, <1>u, <2>2, <2>3, <2>4 DEF SetDurableFloor, queueVars, IInv
<1>6. ASSUME NEW b \in 0..MaxHeight, FloorPersistSettles(b)
      PROVE IInv'
  <2>1. PersistedCovered'
    BY <1>6, <1>k, <1>i
    DEF FloorPersistSettles, PersistedCovered, FloorsCovered, Covered, UpTo, Keeps, IInv
  <2>2. BelowFork' /\ Phases'
    BY <1>6, <1>i DEF FloorPersistSettles, queueVars, BelowFork, Phases, Queued, UpTo, IInv
  <2>3. QED
    BY <1>6, <1>t, <1>u, <2>1, <2>2 DEF FloorPersistSettles, queueVars, IInv
<1>n. ASSUME NextPass
      PROVE \/ pending' = NoQueue /\ drained' = pending /\ wpc' = "write" /\ ~paused
            \/ pending' = pending /\ drained' = NoQueue /\ wpc' = "idle"
  <2>1. pending \in Queues /\ TRUE \in BOOLEAN /\ paused \in BOOLEAN
    BY <1>t DEF TypeOK
  <2>2. QED
    BY <1>n, <1>t, <2>1, RunMoves DEF NextPass
<1>7. CASE WriteCommits
  <2>1. BatchCovered'
    <3> SUFFICES ASSUME NEW n \in Heights, drained[n] # None PROVE Accounted(n)'
      BY <1>7 DEF WriteCommits, BatchCovered, Queued
    <3>1. CASE IsReal(drained[n])
      BY <1>7, <3>1, BatchAssumption DEF WriteCommits, Accounted, IsReal
    <3>2. CASE drained[n] = Quarantined
      BY <1>k, <1>i, <3>2 DEF QuarantinesCovered, Keeps, IInv
    <3>3. QED
      BY <1>t, <3>1, <3>2 DEF TypeOK, Queues, Batches, IsReal
  <2>2. BelowFork' /\ Phases'
    BY <1>7, <1>i DEF WriteCommits, BelowFork, Phases, Queued, UpTo, IInv
  <2>3. QED
    BY <1>7, <1>t, <1>u, <2>1, <2>2 DEF WriteCommits, IInv
<1>8. CASE WriteReturns
  <2>1. /\ written' = written \cup (Queued(drained) \cap Above(durableBlock))
        /\ UNCHANGED <<up, durableBlock, paused, rphase, fork, floorPersists,
                       persistedW>>
    BY <1>8 DEF WriteReturns
  <2>2. \A n \in written' : Accounted(n)'
    BY <1>8, <1>t, <1>k, <1>i, <2>1
    DEF WriteReturns, WrittenCovered, BatchCovered, Queued, Keeps, TypeOK, IInv
  <2>3. WrittenCovered'
    BY <2>2 DEF WrittenCovered
  <2>4. rphase # "persist"
    BY <1>8, <1>i DEF WriteReturns, Phases, IInv
  <2>5. rphase = "unwind" => /\ durableBlock <= fork
                            /\ Queued(pending) \subseteq UpTo(fork)
                            /\ Queued(drained) \subseteq UpTo(fork)
                            /\ written' \subseteq UpTo(fork)
    BY <1>i, <2>1 DEF BelowFork, IInv
  <2>6. CASE NextPass /\ UNCHANGED target
    <3>1. QuarantinesCovered'
      BY <1>n, <1>u, <2>6, BatchAssumption DEF NoQueue
    <3>2. target' = 0
      BY <1>8, <1>i, <2>6 DEF WriteReturns, Phases, IInv
    <3>3. BelowFork'
      BY <1>t, <1>n, <2>1, <2>4, <2>5, <2>6, <3>2
      DEF BelowFork, Queued, NoQueue, TypeOK
    <3>4. Phases'
      BY <1>i, <1>n, <2>1, <2>4, <2>6, <3>2 DEF Phases, IInv
    <3>5. QED
      BY <1>t, <1>n, <1>u, <2>1, <2>3, <2>6, <3>1, <3>3, <3>4 DEF IInv
  <2>7. ASSUME NEW m \in 0..MaxHeight, FoldsTo(m, written'), m > durableBlock,
               target' = m, wpc' = "persist", UNCHANGED <<pending, drained>>
        PROVE  IInv'
    <3>1. \A n \in UpTo(m) : n <= durableBlock \/ n \in written'
      <4>1. \A n \in Heights : n <= durableBlock \/ n > durableBlock
        BY <1>t, HeightAssumption DEF TypeOK, Heights
      <4>2. QED
        BY <2>7, <4>1 DEF FoldsTo, UpTo, Above
    <3>2. TargetCovered'
      <4>1. \A n \in UpTo(m) : Accounted(n)'
        BY <1>k, <1>i, <2>2, <3>1 DEF WatermarkCovered, UpTo, Keeps, IInv
      <4>2. QED
        BY <2>7, <4>1 DEF TargetCovered, Covered, UpTo
    <3>3. m \in UpTo(m)
      BY <1>t, <2>7, HeightAssumption DEF UpTo, Heights, TypeOK
    <3>4. m \in written'
      BY <1>t, <2>7, <3>1, <3>3, HeightAssumption DEF TypeOK
    <3>5. BelowFork'
      BY <2>1, <2>4, <2>5, <2>7, <3>4 DEF BelowFork, Queued, UpTo
    <3>6. Phases'
      BY <1>i, <2>1, <2>4, <2>7 DEF Phases, IInv
    <3>7. QED
      BY <1>t, <1>u, <2>1, <2>3, <2>7, <3>2, <3>5, <3>6 DEF IInv
  <2>8. QED
    BY <1>8, <2>6, <2>7 DEF WriteReturns
<1>9. CASE PersistLands
  <2>1. PersistedCovered'
    BY <1>9, <1>k, <1>i
    DEF PersistLands, PersistedCovered, TargetCovered, Covered, UpTo, Keeps, IInv
  <2>2. TargetCovered'
    BY <1>9, <1>k, <1>i DEF PersistLands, TargetCovered, Covered, UpTo, Keeps, IInv
  <2>3. BelowFork' /\ Phases'
    BY <1>9, <1>i DEF PersistLands, BelowFork, Phases, Queued, UpTo, IInv
  <2>4. QED
    BY <1>9, <1>t, <1>u, <2>1, <2>2, <2>3 DEF PersistLands, IInv
<1>10. CASE PersistReturns
  <2>1. WatermarkCovered'
    BY <1>10, <1>k, <1>i
    DEF PersistReturns, WatermarkCovered, TargetCovered, Covered, UpTo, Keeps, IInv
  <2>2. QuarantinesCovered'
    BY <1>10, <1>n, <1>u, BatchAssumption DEF PersistReturns, NoQueue
  <2>3. rphase # "persist"
    BY <1>10, <1>i DEF PersistReturns, Phases, IInv
  <2>4. BelowFork'
    BY <1>10, <1>t, <1>i, <1>n, <2>3
    DEF PersistReturns, BelowFork, Queued, NoQueue, TypeOK, IInv
  <2>5. Phases'
    BY <1>10, <1>i, <1>n, <2>3 DEF PersistReturns, Phases, IInv
  <2>6. QED
    BY <1>10, <1>t, <1>n, <1>u, <2>1, <2>2, <2>4, <2>5 DEF PersistReturns, IInv
<1>11. CASE PassFails
  <2>1. QuarantinesCovered'
    BY <1>11, <1>u, BatchAssumption DEF PassFails, Requeued, NoQueue
  <2>2. rphase # "persist"
    BY <1>11, <1>i DEF PassFails, Phases, IInv
  <2>3. BelowFork'
    BY <1>11, <1>t, <1>i, <2>2
    DEF PassFails, Requeued, BelowFork, Queued, NoQueue, TypeOK, IInv
  <2>4. Phases'
    BY <1>11, <1>i, <2>2 DEF PassFails, Phases, IInv
  <2>5. QED
    BY <1>11, <1>t, <1>u, <2>1, <2>3, <2>4 DEF PassFails, IInv
<1>12. CASE BackoffEnds
  <2>1. QuarantinesCovered'
    BY <1>12, <1>n, <1>u, BatchAssumption DEF BackoffEnds, NoQueue
  <2>2. rphase # "persist"
    BY <1>12, <1>i DEF BackoffEnds, Phases, IInv
  <2>3. BelowFork'
    BY <1>12, <1>t, <1>i, <1>n, <2>2
    DEF BackoffEnds, BelowFork, Queued, NoQueue, TypeOK, IInv
  <2>4. Phases'
    BY <1>12, <1>i, <1>n, <2>2 DEF BackoffEnds, Phases, IInv
  <2>5. QED
    BY <1>12, <1>t, <1>n, <1>u, <2>1, <2>3, <2>4 DEF BackoffEnds, IInv
<1>13. ASSUME NEW f \in 0..MaxHeight, RollbackBegins(f)
       PROVE IInv'
  <2>1. BelowFork' /\ Phases'
    BY <1>13, <1>i DEF RollbackBegins, queueVars, BelowFork, Phases, IInv
  <2>2. QED
    BY <1>13, <1>t, <1>u, <2>1 DEF RollbackBegins, queueVars, IInv
<1>14. CASE RollbackPurges
  <2> DEFINE rows == pendingRows - RowsIn(pending, Above(fork))
  <2>1. Purged \in Queues /\ TRUE \in BOOLEAN /\ (durableBlock > fork) \in BOOLEAN
    BY <1>t DEF Purged, TypeOK, Queues
  <2>2. RunTransferWriter(Purged, rows, TRUE, durableBlock > fork)
    BY <1>14 DEF RollbackPurges
  <2> HIDE DEF rows
  <2>3. \/ pending' = NoQueue /\ drained' = Purged /\ wpc' = "write" /\ ~(durableBlock > fork)
        \/ pending' = Purged /\ drained' = NoQueue /\ wpc' = "idle"
    BY <1>t, <2>1, <2>2, RunMoves, ZenonT(40)
  <2>4. WatermarkCovered'
    BY <1>14, <1>t, <1>k, <1>i, HeightAssumption
    DEF RollbackPurges, Rewound, WatermarkCovered, UpTo, Heights, TypeOK, Keeps, IInv
  <2>5. QuarantinesCovered'
    BY <1>u, <2>3, BatchAssumption DEF Purged, NoQueue
  <2>6. target' = 0
    BY <1>14, <1>i DEF RollbackPurges, Rewound, Phases, IInv
  <2>7. BelowFork'
    <3>1. durableBlock' <= fork' /\ target' <= fork'
      BY <1>14, <1>t, <2>6, HeightAssumption DEF RollbackPurges, Rewound, TypeOK
    <3>2. Queued(pending') \subseteq UpTo(fork) /\ Queued(drained') \subseteq UpTo(fork)
      BY <1>t, <2>3, HeightAssumption
      DEF Queued, Purged, NoQueue, UpTo, Heights, TypeOK
    <3>3. written' \subseteq UpTo(fork) /\ fork' = fork
      BY <1>14 DEF RollbackPurges
    <3>4. QED
      BY <3>1, <3>2, <3>3 DEF BelowFork, Queued
  <2>8. Phases'
    BY <1>14, <1>t, <1>i, <2>3, <2>6 DEF RollbackPurges, Rewound, Phases, IInv
  <2>9. QED
    BY <1>14, <1>t, <1>u, <2>3, <2>4, <2>5, <2>7, <2>8 DEF RollbackPurges, Rewound, IInv
<1>15. CASE RollbackPersistSettles
  <2>1. pending \in Queues /\ TRUE \in BOOLEAN /\ FALSE \in BOOLEAN
    BY <1>t DEF TypeOK
  <2>2. RunTransferWriter(pending, pendingRows, TRUE, FALSE)
    BY <1>15 DEF RollbackPersistSettles
  <2>3. \/ pending' = NoQueue /\ drained' = pending /\ wpc' = "write"
        \/ pending' = pending /\ drained' = NoQueue /\ wpc' = "idle"
    BY <1>t, <2>1, <2>2, RunMoves, ZenonT(40)
  <2>4. PersistedCovered'
    BY <1>15, <1>k, <1>i
    DEF RollbackPersistSettles, PersistedCovered, WatermarkCovered, Phases, UpTo, Keeps, IInv
  <2>5. QuarantinesCovered'
    BY <1>u, <2>3, BatchAssumption DEF NoQueue
  <2>6. BelowFork'
    BY <1>15, <1>t, <1>i, <2>3
    DEF RollbackPersistSettles, BelowFork, Queued, NoQueue, TypeOK, IInv
  <2>7. Phases'
    BY <1>15, <1>i, <2>3 DEF RollbackPersistSettles, Phases, IInv
  <2>8. QED
    BY <1>15, <1>t, <1>u, <2>3, <2>4, <2>5, <2>6, <2>7 DEF RollbackPersistSettles, IInv
<1>16. CASE UnwindThrows
  <2>1. BelowFork' /\ Phases'
    BY <1>16, <1>i DEF UnwindThrows, queueVars, BelowFork, Phases, IInv
  <2>2. QED
    BY <1>16, <1>t, <1>u, <2>1 DEF UnwindThrows, queueVars, IInv
<1>17. CASE Crash
  <2>1. WatermarkCovered' /\ WrittenCovered' /\ FloorsCovered'
    BY <1>17, HeightAssumption
    DEF Crash, WatermarkCovered, WrittenCovered, FloorsCovered, UpTo, Heights
  <2>2. QuarantinesCovered'
    BY <1>17, BatchAssumption DEF Crash, QuarantinesCovered, NoQueue
  <2>3. BelowFork' /\ Phases'
    BY <1>17 DEF Crash, BelowFork, Phases
  <2>4. QED
    BY <1>17, <1>t, <1>u, <2>1, <2>2, <2>3 DEF Crash, IInv
<1>18. CASE UNCHANGED vars
  <2>1. BelowFork' /\ Phases'
    BY <1>18, <1>i
    DEF vars, memoryVars, queueVars, BelowFork, Phases, Queued, UpTo, IInv
  <2>2. QED
    BY <1>18, <1>t, <1>u, <2>1 DEF vars, memoryVars, queueVars, IInv
<1>19. QED
  BY <1>1, <1>2, <1>3, <1>4, <1>5, <1>6, <1>7, <1>8, <1>9, <1>10, <1>11,
     <1>12, <1>13, <1>14, <1>15, <1>16, <1>17, <1>18
  DEF Next, Drainer

(***************************************************************************)
(* An unwind takes accounts above the fork only, where BelowFork leaves    *)
(* nothing but the persisted watermark and floors on their way; those get  *)
(* their excuse from it.                                                   *)
(***************************************************************************)
LEMMA UnwindStep ==
  ASSUME IInv, UnwindDeletes
  PROVE  IInv'
<1>t. TypeOK /\ TypeOK'
  BY TypeStep DEF IInv, Next
<1>k. \A n \in UpTo(fork) : Accounted(n) => Accounted(n)'
  <2>1. \A n \in UpTo(fork) : n \in Heights /\ ~(n > fork) /\ n <= fork
    BY <1>t, HeightAssumption DEF UpTo, Heights, TypeOK
  <2>2. QED
    BY <2>1 DEF UnwindDeletes, Accounted
<1>e. \A n \in Above(fork), w \in floorPersists \cup {persistedW} :
        n <= w => Accounted(n)'
  <2> SUFFICES ASSUME NEW n \in Above(fork), NEW w \in floorPersists \cup {persistedW},
                      n <= w
               PROVE  excuse'[n] # None
    BY DEF Accounted
  <2>1. n \in Heights /\ ~(n <= fork) /\ ~(w < n)
    BY <1>t, HeightAssumption DEF Above, Heights, TypeOK
  <2>2. excuse'[n] \in {"unwind", "unseen"}
    BY <2>1 DEF UnwindDeletes
  <2>3. QED
    BY <2>2, BatchAssumption DEF Excuses
<1>h. \A n \in Heights : n \in UpTo(fork) \/ n \in Above(fork)
  BY <1>t, HeightAssumption DEF UpTo, Above, TypeOK, Heights
<1>f. /\ durableBlock <= fork /\ target <= fork
      /\ Queued(pending) \cup Queued(drained) \cup written \subseteq UpTo(fork)
  BY DEF UnwindDeletes, BelowFork, IInv
<1>l. \A w \in 0..MaxHeight : w <= fork => UpTo(w) \subseteq UpTo(fork)
  BY <1>t, HeightAssumption DEF UpTo, TypeOK, Heights
<1>1. WatermarkCovered'
  BY <1>t, <1>k, <1>f, <1>l
  DEF UnwindDeletes, WatermarkCovered, UpTo, TypeOK, IInv
<1>2. PersistedCovered'
  BY <1>k, <1>e, <1>h DEF UnwindDeletes, PersistedCovered, UpTo, IInv
<1>3. WrittenCovered'
  BY <1>k, <1>f DEF UnwindDeletes, WrittenCovered, IInv
<1>4. QuarantinesCovered'
  BY <1>k, <1>f, BatchAssumption
  DEF UnwindDeletes, queueVars, QuarantinesCovered, Queued, IInv
<1>5. BatchCovered'
  BY <1>k, <1>f DEF UnwindDeletes, queueVars, BatchCovered, Queued, IInv
<1>6. TargetCovered'
  BY <1>t, <1>k, <1>f, <1>l
  DEF UnwindDeletes, queueVars, TargetCovered, Covered, UpTo, TypeOK, IInv
<1>7. FloorsCovered'
  BY <1>k, <1>e, <1>h DEF UnwindDeletes, FloorsCovered, Covered, UpTo, IInv
<1>8. BelowFork' /\ Phases'
  BY DEF UnwindDeletes, queueVars, BelowFork, Phases, IInv
<1>9. QED
  BY <1>t, <1>1, <1>2, <1>3, <1>4, <1>5, <1>6, <1>7, <1>8 DEF IInv

(***************************************************************************)
(* The invariant holds in every reachable state.                           *)
(***************************************************************************)
THEOREM Invariance == Spec => []IInv
<1>1. IInv /\ [Next]_vars => IInv'
  BY OtherStep, UnwindStep
<1>2. QED
  BY <1>1, InitInvariant, PTL DEF Spec

(***************************************************************************)
(* The watermark in memory covers what it claims                           *)
(* (block-processor.ts:944-956).                                           *)
(***************************************************************************)
THEOREM WatermarkSafe == Spec => []WatermarkCovered
<1>1. IInv => WatermarkCovered
  BY DEF IInv
<1>2. QED
  BY <1>1, Invariance, PTL

(***************************************************************************)
(* So does the watermark a restart will read, at every moment in which the *)
(* process could die (block-processor.ts:1446-1552).                       *)
(***************************************************************************)
THEOREM PersistedSafe == Spec => []PersistedCovered
<1>1. IInv => PersistedCovered
  BY DEF IInv
<1>2. QED
  BY <1>1, Invariance, PTL

(***************************************************************************)
(* When unwindFrom deletes, the writer is below the fork.                  *)
(***************************************************************************)
THEOREM RollbackSafe == Spec => []NothingAboveFork
<1>1. IInv => NothingAboveFork
  BY DEF IInv, BelowFork, NothingAboveFork
<1>2. QED
  BY <1>1, Invariance, PTL

(***************************************************************************)
(* A new pass, from a batch whose decodes are all in the database, keeps   *)
(* the newest decode of every height.                                      *)
(***************************************************************************)
LEMMA PassKeeps ==
  ASSUME TypeOK, DecodeInv, NextPass, UNCHANGED <<tt, newest, rphase, fork>>,
         \A n \in Heights : IsReal(drained[n]) => tt[n] = drained[n]
  PROVE  DecodeInv'
<1>1. pending \in Queues /\ TRUE \in BOOLEAN /\ paused \in BOOLEAN
  BY DEF TypeOK
<1>2. \/ pending' = NoQueue /\ drained' = pending /\ wpc' = "write"
      \/ pending' = pending /\ drained' = NoQueue /\ wpc' = "idle"
  BY <1>1, RunMoves DEF NextPass
<1>3. ~IsReal(None) /\ ~IsReal(Quarantined) /\ None # Quarantined
  BY BatchAssumption DEF IsReal
<1>4. \A n \in Heights : Kept(n)' = Kept(n)
  BY <1>2, <1>3 DEF Kept, NoQueue, IsReal
<1>5. NoDecodeLost'
  BY <1>4 DEF DecodeInv, NoDecodeLost
<1>6. EmptyBatch' /\ BatchCommitted'
  BY <1>2 DEF EmptyBatch, BatchCommitted
<1>7. QuarantineYields'
  BY <1>2, <1>3 DEF QuarantineYields, NoQueue, IsReal
<1>8. ForkForgotten'
  BY DEF DecodeInv, ForkForgotten, Above
<1>9. QED
  BY <1>5, <1>6, <1>7, <1>8 DEF DecodeInv

(***************************************************************************)
(* A step that leaves the queue, the batch, the rows and the history alone *)
(* keeps the decodes, whatever else it does.                               *)
(***************************************************************************)
LEMMA DecodesUntouched ==
  ASSUME DecodeInv, UNCHANGED <<pending, drained, tt, newest, wpc>>,
         rphase' \in {"persist", "unwind"} =>
           rphase \in {"persist", "unwind"} /\ fork' = fork
  PROVE  DecodeInv'
<1>1. NoDecodeLost'
  BY DEF DecodeInv, NoDecodeLost, Kept
<1>2. EmptyBatch' /\ BatchCommitted' /\ QuarantineYields'
  BY DEF DecodeInv, EmptyBatch, BatchCommitted, QuarantineYields
<1>3. ForkForgotten'
  BY DEF DecodeInv, ForkForgotten, Above
<1>4. QED
  BY <1>1, <1>2, <1>3 DEF DecodeInv

(***************************************************************************)
(* Every step keeps the newest decodes.                                    *)
(***************************************************************************)
LEMMA DecodeStep ==
  ASSUME IInv, DecodeInv, [Next]_vars
  PROVE  DecodeInv'
<1>t. TypeOK
  BY DEF IInv
<1>r. ~IsReal(None) /\ ~IsReal(Quarantined) /\ None # Quarantined
  BY BatchAssumption DEF IsReal
<1>1. ASSUME NEW seed \in 0..MaxHeight, InitTransferWriter(seed)
      PROVE DecodeInv'
  BY <1>1, DecodesUntouched DEF InitTransferWriter, queueVars
<1>2. ASSUME NEW m \in Heights, AdoptMaxIndexed(m)
      PROVE DecodeInv'
  BY <1>2, DecodesUntouched DEF AdoptMaxIndexed, memoryVars, queueVars
<1>3. ASSUME NEW n \in Heights, NEW d \in Decodes, MayIndex(n), EnqueueTransferWrite(n, d)
      PROVE DecodeInv'
  <2> DEFINE q == [pending EXCEPT ![n] = d]
  <2> DEFINE rows == RowsInstead(n, d)
  <2>1. q \in Queues /\ (wpc = "idle") \in BOOLEAN /\ paused \in BOOLEAN
    BY <1>t DEF TypeOK, Queues, Batches
  <2>2. RunTransferWriter(q, rows, wpc = "idle", paused)
    BY <1>3 DEF EnqueueTransferWrite
  <2>3. q[n] = d /\ \A k \in Heights : k # n => q[k] = pending[k]
    BY <1>t DEF TypeOK, Queues
  <2> HIDE DEF q, rows
  <2>4. \/ pending' = NoQueue /\ drained' = q /\ wpc' = "write" /\ wpc = "idle"
        \/ pending' = q /\ drained' = NoQueue /\ wpc' = "idle" /\ wpc = "idle"
        \/ pending' = q /\ drained' = drained /\ wpc' = wpc
    BY <1>t, <2>1, <2>2, RunMoves, ZenonT(40)
  <2>5. /\ newest' = [newest EXCEPT ![n] = d] /\ IsReal(d)
        /\ UNCHANGED <<tt, rphase, fork>>
    BY <1>3 DEF EnqueueTransferWrite, IsReal
  <2>6. wpc = "idle" => drained = NoQueue
    BY DEF DecodeInv, EmptyBatch
  <2>7. NoDecodeLost'
    <3> SUFFICES ASSUME NEW k \in Heights, newest'[k] # None
                 PROVE  newest'[k] = Kept(k)'
      BY DEF NoDecodeLost
    <3>1. CASE k = n
      BY <1>t, <1>r, <2>3, <2>4, <2>5, <3>1 DEF Kept, NoQueue, TypeOK
    <3>2. CASE k # n
      <4>1. newest'[k] = Kept(k)
        BY <1>t, <2>5, <3>2 DEF DecodeInv, NoDecodeLost, TypeOK
      <4>2. Kept(k)' = Kept(k)
        BY <1>r, <2>3, <2>4, <2>5, <2>6, <3>2 DEF Kept, NoQueue
      <4>3. QED
        BY <4>1, <4>2
    <3>3. QED
      BY <3>1, <3>2
  <2>8. EmptyBatch' /\ BatchCommitted'
    BY <2>4, <2>5 DEF DecodeInv, EmptyBatch, BatchCommitted
  <2>9. QuarantineYields'
    BY <1>r, <2>3, <2>4, <2>5 DEF DecodeInv, QuarantineYields, NoQueue
  <2>10. ForkForgotten'
    BY <1>t, <1>3, <2>5, HeightAssumption
    DEF DecodeInv, ForkForgotten, MayIndex, Above, TypeOK, Heights
  <2>11. QED
    BY <2>7, <2>8, <2>9, <2>10 DEF DecodeInv
<1>4. ASSUME NEW n \in Heights, MayQuarantine(n), EnqueueQuarantinedBlock(n)
      PROVE DecodeInv'
  <2> DEFINE q == [pending EXCEPT ![n] = Quarantined]
  <2> DEFINE rows == RowsInstead(n, Quarantined)
  <2>1. q \in Queues /\ (wpc = "idle") \in BOOLEAN /\ paused \in BOOLEAN
    BY <1>t DEF TypeOK, Queues, Batches
  <2>2. RunTransferWriter(q, rows, wpc = "idle", paused)
    BY <1>4 DEF EnqueueQuarantinedBlock
  <2>3. q[n] = Quarantined /\ \A k \in Heights : k # n => q[k] = pending[k]
    BY <1>t DEF TypeOK, Queues
  <2> HIDE DEF q, rows
  <2>4. \/ pending' = NoQueue /\ drained' = q /\ wpc' = "write" /\ wpc = "idle"
        \/ pending' = q /\ drained' = NoQueue /\ wpc' = "idle" /\ wpc = "idle"
        \/ pending' = q /\ drained' = drained /\ wpc' = wpc
    BY <1>t, <2>1, <2>2, RunMoves, ZenonT(40)
  <2>5. /\ ~IsReal(pending[n]) /\ ~IsReal(drained[n])
        /\ UNCHANGED <<tt, newest, rphase, fork>>
    BY <1>4 DEF EnqueueQuarantinedBlock, MayQuarantine
  <2>6. wpc = "idle" => drained = NoQueue
    BY DEF DecodeInv, EmptyBatch
  <2>7. \A k \in Heights : Kept(k)' = Kept(k)
    BY <1>r, <2>3, <2>4, <2>5, <2>6 DEF Kept, NoQueue
  <2>8. NoDecodeLost'
    BY <2>5, <2>7 DEF DecodeInv, NoDecodeLost
  <2>9. EmptyBatch' /\ BatchCommitted'
    BY <2>4, <2>5 DEF DecodeInv, EmptyBatch, BatchCommitted
  <2>10. QuarantineYields'
    BY <1>r, <2>3, <2>4, <2>5 DEF DecodeInv, QuarantineYields, NoQueue
  <2>11. ForkForgotten'
    BY <2>5 DEF DecodeInv, ForkForgotten, Above
  <2>12. QED
    BY <2>8, <2>9, <2>10, <2>11 DEF DecodeInv
<1>5. ASSUME NEW b \in Heights, SetDurableFloor(b)
      PROVE DecodeInv'
  BY <1>5, DecodesUntouched DEF SetDurableFloor, queueVars
<1>6. ASSUME NEW b \in 0..MaxHeight, FloorPersistSettles(b)
      PROVE DecodeInv'
  BY <1>6, DecodesUntouched DEF FloorPersistSettles, queueVars
<1>7. CASE WriteCommits
  <2>1. \A n \in Heights : Kept(n)' = Kept(n)
    BY <1>7 DEF WriteCommits, Kept
  <2>2. NoDecodeLost'
    BY <1>7, <2>1 DEF WriteCommits, DecodeInv, NoDecodeLost
  <2>3. EmptyBatch' /\ BatchCommitted' /\ QuarantineYields' /\ ForkForgotten'
    BY <1>7 DEF WriteCommits, DecodeInv, EmptyBatch, BatchCommitted,
       QuarantineYields, ForkForgotten, Above
  <2>4. QED
    BY <2>2, <2>3 DEF DecodeInv
<1>8. CASE WriteReturns
  <2>1. \A n \in Heights : IsReal(drained[n]) => tt[n] = drained[n]
    BY <1>8 DEF WriteReturns, DecodeInv, BatchCommitted
  <2>2. CASE NextPass
    BY <1>8, <1>t, <2>1, <2>2, PassKeeps DEF WriteReturns
  <2>3. CASE wpc' = "persist" /\ UNCHANGED <<pending, pendingRows, drained, overHighWater>>
    <3>1. NoDecodeLost'
      BY <1>8, <2>3 DEF WriteReturns, DecodeInv, NoDecodeLost, Kept
    <3>2. EmptyBatch' /\ BatchCommitted' /\ QuarantineYields' /\ ForkForgotten'
      BY <1>8, <2>1, <2>3 DEF WriteReturns, DecodeInv, EmptyBatch, BatchCommitted,
         QuarantineYields, ForkForgotten, Above
    <3>3. QED
      BY <3>1, <3>2 DEF DecodeInv
  <2>4. QED
    BY <1>8, <2>2, <2>3 DEF WriteReturns
<1>9. CASE PersistLands
  <2>1. NoDecodeLost'
    BY <1>9 DEF PersistLands, DecodeInv, NoDecodeLost, Kept
  <2>2. EmptyBatch' /\ BatchCommitted' /\ QuarantineYields' /\ ForkForgotten'
    BY <1>9 DEF PersistLands, DecodeInv, EmptyBatch, BatchCommitted,
       QuarantineYields, ForkForgotten, Above
  <2>3. QED
    BY <2>1, <2>2 DEF DecodeInv
<1>10. CASE PersistReturns
  <2>1. \A n \in Heights : IsReal(drained[n]) => tt[n] = drained[n]
    BY <1>10 DEF PersistReturns, DecodeInv, BatchCommitted
  <2>2. QED
    BY <1>10, <1>t, <2>1, PassKeeps DEF PersistReturns
<1>11. CASE PassFails
  <2>1. pending' = Requeued /\ drained' = NoQueue /\ wpc' = "backoff"
        /\ UNCHANGED <<tt, newest, rphase, fork>>
    BY <1>11 DEF PassFails
  <2>2. \A n \in Heights : Kept(n)' = Kept(n)
    <3> SUFFICES ASSUME NEW n \in Heights PROVE Kept(n)' = Kept(n)
      OBVIOUS
    <3>1. CASE pending[n] = None
      BY <1>r, <2>1, <3>1 DEF Kept, Requeued, NoQueue
    <3>2. CASE pending[n] # None
      <4>1. IsReal(pending[n]) \/ ~IsReal(drained[n])
        BY <1>t, <3>2 DEF DecodeInv, QuarantineYields, TypeOK, Queues, Batches, IsReal
      <4>2. QED
        BY <1>r, <2>1, <3>2, <4>1 DEF Kept, Requeued, NoQueue
    <3>3. QED
      BY <3>1, <3>2
  <2>3. NoDecodeLost'
    BY <2>1, <2>2 DEF DecodeInv, NoDecodeLost
  <2>4. EmptyBatch' /\ BatchCommitted' /\ QuarantineYields' /\ ForkForgotten'
    BY <1>r, <2>1 DEF DecodeInv, EmptyBatch, BatchCommitted, QuarantineYields,
       ForkForgotten, Above, NoQueue
  <2>5. QED
    BY <2>3, <2>4 DEF DecodeInv
<1>12. CASE BackoffEnds
  <2>1. \A n \in Heights : IsReal(drained[n]) => tt[n] = drained[n]
    BY <1>12, <1>r DEF BackoffEnds, DecodeInv, EmptyBatch, NoQueue
  <2>2. QED
    BY <1>12, <1>t, <2>1, PassKeeps DEF BackoffEnds
<1>13. ASSUME NEW f \in 0..MaxHeight, RollbackBegins(f)
       PROVE DecodeInv'
  BY <1>13, DecodesUntouched DEF RollbackBegins, queueVars
<1>14. CASE RollbackPurges
  <2> DEFINE rows == pendingRows - RowsIn(pending, Above(fork))
  <2>1. Purged \in Queues /\ TRUE \in BOOLEAN /\ (durableBlock > fork) \in BOOLEAN
    BY <1>t DEF Purged, TypeOK, Queues
  <2>2. RunTransferWriter(Purged, rows, TRUE, durableBlock > fork)
    BY <1>14 DEF RollbackPurges
  <2> HIDE DEF rows
  <2>3. \/ pending' = NoQueue /\ drained' = Purged /\ wpc' = "write"
        \/ pending' = Purged /\ drained' = NoQueue /\ wpc' = "idle"
    BY <1>t, <2>1, <2>2, RunMoves, ZenonT(40)
  <2>4. drained = NoQueue
    BY <1>14 DEF RollbackPurges, Rewound, DecodeInv, EmptyBatch
  <2>5. /\ newest' = [n \in Heights |-> IF n > fork THEN None ELSE newest[n]]
        /\ UNCHANGED <<tt, fork>>
    BY <1>14 DEF RollbackPurges
  <2>6. NoDecodeLost'
    <3> SUFFICES ASSUME NEW n \in Heights, newest'[n] # None
                 PROVE  newest'[n] = Kept(n)'
      BY DEF NoDecodeLost
    <3>1. ~(n > fork) /\ newest'[n] = newest[n]
      BY <2>5
    <3>2. Purged[n] = pending[n]
      BY <3>1 DEF Purged
    <3>3. Kept(n)' = Kept(n)
      BY <1>r, <2>3, <2>4, <2>5, <3>2 DEF Kept, NoQueue
    <3>4. QED
      BY <3>1, <3>3 DEF DecodeInv, NoDecodeLost
  <2>7. EmptyBatch' /\ BatchCommitted'
    BY <2>3 DEF EmptyBatch, BatchCommitted
  <2>8. QuarantineYields'
    BY <1>r, <2>3 DEF QuarantineYields, NoQueue
  <2>9. ForkForgotten'
    BY <2>5 DEF ForkForgotten, Above
  <2>10. QED
    BY <2>6, <2>7, <2>8, <2>9 DEF DecodeInv
<1>15. CASE RollbackPersistSettles
  <2>1. pending \in Queues /\ TRUE \in BOOLEAN /\ FALSE \in BOOLEAN
    BY <1>t DEF TypeOK
  <2>2. RunTransferWriter(pending, pendingRows, TRUE, FALSE)
    BY <1>15 DEF RollbackPersistSettles
  <2>3. \/ pending' = NoQueue /\ drained' = pending /\ wpc' = "write"
        \/ pending' = pending /\ drained' = NoQueue /\ wpc' = "idle"
    BY <1>t, <2>1, <2>2, RunMoves, ZenonT(40)
  <2>4. drained = NoQueue /\ rphase = "persist" /\ UNCHANGED <<tt, newest, fork>>
    BY <1>15 DEF RollbackPersistSettles, DecodeInv, EmptyBatch, IInv, Phases
  <2>5. \A n \in Heights : Kept(n)' = Kept(n)
    BY <1>r, <2>3, <2>4 DEF Kept, NoQueue
  <2>6. NoDecodeLost'
    BY <2>4, <2>5 DEF DecodeInv, NoDecodeLost
  <2>7. EmptyBatch' /\ BatchCommitted'
    BY <2>3 DEF EmptyBatch, BatchCommitted
  <2>8. QuarantineYields'
    BY <1>r, <2>3 DEF QuarantineYields, NoQueue
  <2>9. ForkForgotten'
    BY <2>4 DEF DecodeInv, ForkForgotten, Above
  <2>10. QED
    BY <2>6, <2>7, <2>8, <2>9 DEF DecodeInv
<1>16. CASE UnwindDeletes
  <2>1. /\ tt' = [n \in Heights |-> IF n > fork THEN None ELSE tt[n]]
        /\ rphase = "unwind" /\ rphase' = "none"
        /\ UNCHANGED <<pending, drained, wpc, newest>>
    BY <1>16 DEF UnwindDeletes, queueVars
  <2>2. NoDecodeLost'
    <3> SUFFICES ASSUME NEW n \in Heights, newest[n] # None
                 PROVE  newest[n] = Kept(n)'
      BY <2>1 DEF NoDecodeLost
    <3>1. ~(n > fork)
      BY <2>1 DEF DecodeInv, ForkForgotten, Above
    <3>2. Kept(n)' = Kept(n)
      BY <2>1, <3>1 DEF Kept
    <3>3. QED
      BY <3>2 DEF DecodeInv, NoDecodeLost
  <2>3. BatchCommitted'
    <3> SUFFICES ASSUME NEW n \in Heights, IsReal(drained[n]),
                        wpc \in {"wrote", "persist", "persisted"}
                 PROVE  tt'[n] = drained[n]
      BY <2>1 DEF BatchCommitted
    <3>1. n \in UpTo(fork)
      BY <1>r, <2>1 DEF IInv, BelowFork, Queued
    <3>2. ~(n > fork)
      BY <1>t, <3>1, HeightAssumption DEF UpTo, Heights, TypeOK
    <3>3. QED
      BY <2>1, <3>2 DEF DecodeInv, BatchCommitted
  <2>4. EmptyBatch' /\ QuarantineYields' /\ ForkForgotten'
    BY <2>1 DEF DecodeInv, EmptyBatch, QuarantineYields, ForkForgotten
  <2>5. QED
    BY <2>2, <2>3, <2>4 DEF DecodeInv
<1>17. CASE UnwindThrows
  BY <1>17, DecodesUntouched DEF UnwindThrows, queueVars
<1>18. CASE Crash
  <2>1. NoDecodeLost'
    BY <1>18 DEF Crash, NoDecodeLost, NoQueue
  <2>2. EmptyBatch' /\ BatchCommitted' /\ QuarantineYields' /\ ForkForgotten'
    BY <1>18, <1>r DEF Crash, EmptyBatch, BatchCommitted, QuarantineYields,
       ForkForgotten, NoQueue
  <2>3. QED
    BY <2>1, <2>2 DEF DecodeInv
<1>19. CASE UNCHANGED vars
  BY <1>19, DecodesUntouched DEF vars, memoryVars, queueVars
<1>20. QED
  BY <1>1, <1>2, <1>3, <1>4, <1>5, <1>6, <1>7, <1>8, <1>9, <1>10, <1>11,
     <1>12, <1>13, <1>14, <1>15, <1>16, <1>17, <1>18, <1>19
  DEF Next, Drainer

(***************************************************************************)
(* The latest decode of a block wins: no failed pass, quarantine, rollback *)
(* or drain of an older batch makes the writer forget a newer decode       *)
(* (block-processor.ts:1511-1522).                                         *)
(***************************************************************************)
THEOREM DecodesSafe == Spec => []NoDecodeLost
<1>1. Init => DecodeInv
  BY BatchAssumption DEF Init, DecodeInv, NoDecodeLost, EmptyBatch, BatchCommitted,
     QuarantineYields, ForkForgotten, NoQueue, IsReal
<1>2. IInv /\ DecodeInv /\ [Next]_vars => DecodeInv'
  BY DecodeStep
<1>3. DecodeInv => NoDecodeLost
  BY DEF DecodeInv
<1>4. QED
  BY <1>1, <1>2, <1>3, Invariance, PTL DEF Spec

-----------------------------------------------------------------------------
(***************************************************************************)
(* The rows of a queue, height by height.                                  *)
(***************************************************************************)
RowsBy(q) == [n \in Heights |-> BatchRows(q[n])]

LEMMA RowsType ==
  ASSUME NEW q \in Queues, NEW S \in SUBSET Heights
  PROVE  /\ IsFiniteSet(Heights) /\ IsFiniteSet(S)
         /\ \A n \in Heights : RowsBy(q)[n] = BatchRows(q[n]) /\ RowsBy(q)[n] \in Nat
         /\ RowsIn(q, S) = SumFunctionOnSet(RowsBy(q), S)
         /\ RowsIn(q, S) \in Nat
<1>1. IsFiniteSet(Heights)
  BY HeightAssumption, FS_Interval DEF Heights
<1>2. IsFiniteSet(S)
  BY <1>1, FS_Subset
<1>3. \A n \in Heights : RowsBy(q)[n] = BatchRows(q[n]) /\ RowsBy(q)[n] \in Nat
  BY RowsAssumption DEF RowsBy, BatchRows, IsReal
<1>4. RowsIn(q, S) = SumFunctionOnSet(RowsBy(q), S)
  BY DEF RowsIn, RowsBy
<1>5. SumFunctionOnSet(RowsBy(q), S) \in Nat
  <2>1. \A n \in S : RowsBy(q)[n] \in Nat
    BY <1>3
  <2>2. QED
    BY <1>2, <2>1, SumType
<1>6. QED
  BY <1>1, <1>2, <1>3, <1>4, <1>5

\* Queues that agree on a set of heights have the same rows there.
LEMMA RowsSame ==
  ASSUME NEW q \in Queues, NEW r \in Queues, NEW S \in SUBSET Heights,
         \A n \in S : BatchRows(q[n]) = BatchRows(r[n])
  PROVE  RowsIn(q, S) = RowsIn(r, S)
<1>1. \A n \in S : RowsBy(q)[n] = RowsBy(r)[n]
  BY RowsType
<1>2. IsFiniteSet(S)
  BY RowsType
<1>3. SumFunctionOnSet(RowsBy(q), S) = SumFunctionOnSet(RowsBy(r), S)
  BY <1>1, <1>2, SumSame
<1>4. QED
  BY <1>3, RowsType

\* Heights without a decode have no rows.
LEMMA RowsNone ==
  ASSUME NEW q \in Queues, NEW S \in SUBSET Heights, \A n \in S : BatchRows(q[n]) = 0
  PROVE  RowsIn(q, S) = 0
<1>1. \A n \in S : RowsBy(q)[n] = 0
  BY RowsType
<1>2. IsFiniteSet(S)
  BY RowsType
<1>3. SumFunctionOnSet(RowsBy(q), S) = 0
  BY <1>1, <1>2, SumZero
<1>4. QED
  BY <1>3, RowsType

\* The rows of a queue are those of one part of the heights and of the rest.
LEMMA RowsSplit ==
  ASSUME NEW q \in Queues, NEW A \in SUBSET Heights
  PROVE  RowsIn(q, Heights) = RowsIn(q, A) + RowsIn(q, Heights \ A)
<1>1. IsFiniteSet(Heights) /\ \A n \in Heights : RowsBy(q)[n] \in Nat
  BY RowsType
<1>2. SumFunctionOnSet(RowsBy(q), Heights)
        = SumFunctionOnSet(RowsBy(q), A) + SumFunctionOnSet(RowsBy(q), Heights \ A)
  BY <1>1, SumSplit
<1>3. QED
  BY <1>2, RowsType

\* One batch is replaced.
LEMMA RowsReplaced ==
  ASSUME NEW q \in Queues, NEW n \in Heights, NEW b \in Batches
  PROVE  /\ [q EXCEPT ![n] = b] \in Queues
         /\ RowsIn([q EXCEPT ![n] = b], Heights)
              = RowsIn(q, Heights) - BatchRows(q[n]) + BatchRows(b)
<1>1. PICK r : r = [q EXCEPT ![n] = b]
  OBVIOUS
<1>2. r \in Queues /\ r[n] = b /\ \A m \in Heights \ {n} : r[m] = q[m]
  BY <1>1 DEF Queues
<1>3. IsFiniteSet(Heights) /\ \A m \in Heights : RowsBy(q)[m] \in Nat /\ RowsBy(r)[m] \in Nat
  BY <1>2, RowsType
<1>4. RowsIn(q, Heights) = BatchRows(q[n]) + RowsIn(q, Heights \ {n})
  <2>1. SumFunctionOnSet(RowsBy(q), Heights)
          = RowsBy(q)[n] + SumFunctionOnSet(RowsBy(q), Heights \ {n})
    BY <1>3, SumRemove
  <2>2. QED
    BY <2>1, RowsType
<1>5. RowsIn(r, Heights) = BatchRows(b) + RowsIn(r, Heights \ {n})
  <2>1. SumFunctionOnSet(RowsBy(r), Heights)
          = RowsBy(r)[n] + SumFunctionOnSet(RowsBy(r), Heights \ {n})
    BY <1>3, SumRemove
  <2>2. RowsBy(r)[n] = BatchRows(b)
    BY <1>2, RowsType
  <2>3. QED
    BY <1>2, <2>1, <2>2, RowsType
<1>6. RowsIn(r, Heights \ {n}) = RowsIn(q, Heights \ {n})
  BY <1>2, RowsSame
<1>7. PICK x : x = RowsIn(q, Heights \ {n})
  OBVIOUS
<1>8. x \in Nat /\ BatchRows(q[n]) \in Nat /\ BatchRows(b) \in Nat
  BY <1>2, <1>7, RowsType, RowsAssumption DEF BatchRows, IsReal
<1>9. RowsIn(r, Heights) = RowsIn(q, Heights) - BatchRows(q[n]) + BatchRows(b)
  BY <1>4, <1>5, <1>6, <1>7, <1>8
<1>10. QED
  BY <1>1, <1>2, <1>9

(***************************************************************************)
(* The counter and the alert, in values: rows is what the queue q holds,   *)
(* and a drainer that is not suspended has left the flag as it should be.  *)
(***************************************************************************)
Counted(q, rows) == rows = RowsIn(q, Heights)
Alerted(pc, rows, over) ==
    pc = "idle" => (rows > AlertRows => over) /\ (rows <= HighWaterRows => ~over)

LEMMA RowsAccountedIs ==
  RowsAccounted <=> Counted(pending, pendingRows) /\ Alerted(wpc, pendingRows, overHighWater)
BY DEF RowsAccounted, AlertInSync, Counted, Alerted

\* An evaluation sets the flag as it should be.
LEMMA Evaluated ==
  ASSUME NEW pc, NEW over \in BOOLEAN, NEW rows \in Nat
  PROVE  Alerted(pc, rows, EvaluateHighWater(over, rows))
BY RowsAssumption DEF Alerted, EvaluateHighWater

\* A queue without batches has no rows, and is not above the high water.
LEMMA NoRows == NoQueue \in Queues /\ RowsIn(NoQueue, Heights) = 0
<1>1. NoQueue \in Queues
  BY DEF NoQueue, Queues
<1>2. \A n \in Heights : BatchRows(NoQueue[n]) = 0
  BY BatchAssumption DEF NoQueue, BatchRows, IsReal
<1>3. QED
  BY <1>1, <1>2, RowsNone

(***************************************************************************)
(* A start of the drainer takes the counter along with the queue.          *)
(***************************************************************************)
LEMMA RunCounts ==
  ASSUME NEW q \in Queues, NEW rows, NEW stopped \in BOOLEAN, NEW held \in BOOLEAN,
         RunTransferWriter(q, rows, stopped, held), Counted(q, rows)
  PROVE  /\ Counted(pending', pendingRows')
         /\ \/ wpc' = "write"
            \/ pending' = q /\ pendingRows' = rows /\ wpc' = (IF stopped THEN "idle" ELSE wpc)
<1>1. CASE stopped /\ ~held /\ Queued(q) # {}
  <2>1. pending' = NoQueue /\ pendingRows' = 0 /\ wpc' = "write"
    BY <1>1 DEF RunTransferWriter
  <2>2. QED
    BY <2>1, NoRows DEF Counted
<1>2. CASE ~(stopped /\ ~held /\ Queued(q) # {})
  BY <1>2 DEF RunTransferWriter
<1>3. QED
  BY <1>1, <1>2

LEMMA PassCounts ==
  ASSUME TypeOK, RowsAccounted, NextPass
  PROVE  RowsAccounted'
<1>1. pending \in Queues /\ paused \in BOOLEAN /\ TRUE \in BOOLEAN /\ overHighWater \in BOOLEAN
  BY DEF TypeOK
<1>2. /\ RunTransferWriter(pending, pendingRows, TRUE, paused)
      /\ overHighWater' = IF wpc' = "idle" THEN EvaluateHighWater(overHighWater, pendingRows)
                          ELSE overHighWater
  BY DEF NextPass
<1>3. Counted(pending, pendingRows) /\ pendingRows \in Nat
  BY <1>1, RowsAccountedIs, RowsType DEF Counted
<1>4. /\ Counted(pending', pendingRows')
      /\ wpc' = "write" \/ (pendingRows' = pendingRows /\ wpc' = "idle")
  BY <1>1, <1>2, <1>3, RunCounts
<1>5. Alerted(wpc', pendingRows', overHighWater')
  <2>1. CASE wpc' = "write"
    BY <2>1 DEF Alerted
  <2>2. CASE pendingRows' = pendingRows /\ wpc' = "idle"
    BY <2>2, <1>1, <1>2, <1>3, Evaluated
  <2>3. QED
    BY <1>4, <2>1, <2>2
<1>6. QED
  BY <1>4, <1>5 DEF RowsAccounted, AlertInSync, Counted, Alerted

\* A new batch, with the counter moved by the difference.
LEMMA EnqueueCounts ==
  ASSUME TypeOK, RowsAccounted, NEW n \in Heights, NEW b \in Batches,
         overHighWater' = EvaluateHighWater(overHighWater, RowsInstead(n, b)),
         RunTransferWriter([pending EXCEPT ![n] = b], RowsInstead(n, b), wpc = "idle", paused)
  PROVE  RowsAccounted'
<1>1. pending \in Queues /\ paused \in BOOLEAN /\ (wpc = "idle") \in BOOLEAN
      /\ overHighWater \in BOOLEAN
  BY DEF TypeOK
<1>2. PICK q : q = [pending EXCEPT ![n] = b]
  OBVIOUS
<1>3. PICK rows : rows = RowsInstead(n, b)
  OBVIOUS
<1>4. q \in Queues /\ Counted(q, rows)
  BY <1>1, <1>2, <1>3, RowsReplaced, RowsAccountedIs DEF Counted, RowsInstead
<1>5. rows \in Nat
  BY <1>4, RowsType DEF Counted
<1>6. RunTransferWriter(q, rows, wpc = "idle", paused)
      /\ overHighWater' = EvaluateHighWater(overHighWater, rows)
  BY <1>2, <1>3
<1>7. /\ Counted(pending', pendingRows')
      /\ wpc' = "write" \/ pendingRows' = rows
  BY <1>1, <1>4, <1>6, RunCounts
<1>8. Alerted(wpc', pendingRows', overHighWater')
  <2>1. CASE wpc' = "write"
    BY <2>1 DEF Alerted
  <2>2. CASE pendingRows' = rows
    BY <2>2, <1>1, <1>5, <1>6, Evaluated
  <2>3. QED
    BY <1>7, <2>1, <2>2
<1>9. QED
  BY <1>7, <1>8 DEF RowsAccounted, AlertInSync, Counted, Alerted

\* A failed batch comes back to the heights nothing newer is queued for.
LEMMA RequeueCounts ==
  ASSUME TypeOK, RowsAccounted, PassFails
  PROVE  RowsAccounted'
<1>1. pending \in Queues /\ drained \in Queues /\ overHighWater \in BOOLEAN
  BY DEF TypeOK
<1>2. /\ pending' = Requeued /\ wpc' = "backoff"
      /\ pendingRows' = pendingRows + RowsIn(drained, Heights \ Queued(pending))
  BY DEF PassFails
<1>3. PICK r : r = Requeued
  OBVIOUS
<1>4. PICK A : A = Queued(pending)
  OBVIOUS
<1>5. /\ A \in SUBSET Heights /\ r \in Queues
      /\ \A n \in A : r[n] = pending[n]
      /\ \A n \in Heights \ A : r[n] = drained[n] /\ pending[n] = None
  BY <1>1, <1>3, <1>4 DEF Queued, Requeued, Queues
<1>6. RowsIn(r, Heights) = RowsIn(r, A) + RowsIn(r, Heights \ A)
  BY <1>5, RowsSplit
<1>7. RowsIn(pending, Heights) = RowsIn(pending, A) + RowsIn(pending, Heights \ A)
  BY <1>1, <1>5, RowsSplit
<1>8. RowsIn(r, A) = RowsIn(pending, A)
  BY <1>1, <1>5, RowsSame
<1>9. RowsIn(r, Heights \ A) = RowsIn(drained, Heights \ A)
  BY <1>1, <1>5, RowsSame
<1>10. RowsIn(pending, Heights \ A) = 0
  <2>1. \A n \in Heights \ A : BatchRows(pending[n]) = 0
    BY <1>5, BatchAssumption DEF BatchRows, IsReal
  <2>2. QED
    BY <1>1, <1>5, <2>1, RowsNone
<1>11. RowsIn(pending, A) \in Nat /\ RowsIn(drained, Heights \ A) \in Nat
  BY <1>1, <1>5, RowsType
<1>12. RowsIn(r, Heights) = RowsIn(pending, Heights) + RowsIn(drained, Heights \ A)
  BY <1>6, <1>7, <1>8, <1>9, <1>10, <1>11
<1>13. Counted(pending', pendingRows')
  BY <1>2, <1>3, <1>4, <1>12, RowsAccountedIs DEF Counted
<1>14. Alerted(wpc', pendingRows', overHighWater')
  BY <1>2 DEF Alerted
<1>15. QED
  BY <1>13, <1>14 DEF RowsAccounted, AlertInSync, Counted, Alerted

\* The purge takes the rows above the fork from the counter.
LEMMA PurgeCounts ==
  ASSUME TypeOK, RowsAccounted, RollbackPurges
  PROVE  RowsAccounted'
<1>1. pending \in Queues /\ overHighWater \in BOOLEAN /\ TRUE \in BOOLEAN
      /\ (durableBlock > fork) \in BOOLEAN
  BY DEF TypeOK
<1>2. PICK dropped : dropped = RowsIn(pending, Above(fork))
  OBVIOUS
<1>3. PICK rows : rows = pendingRows - dropped
  OBVIOUS
<1>4. /\ wpc = "idle"
      /\ overHighWater' = IF dropped > 0 THEN EvaluateHighWater(overHighWater, rows)
                          ELSE overHighWater
      /\ RunTransferWriter(Purged, rows, TRUE, durableBlock > fork)
  BY <1>2, <1>3 DEF RollbackPurges
<1>5. PICK r : r = Purged
  OBVIOUS
<1>6. PICK A : A = Above(fork)
  OBVIOUS
<1>7. /\ A \in SUBSET Heights /\ r \in Queues
      /\ \A n \in A : r[n] = None
      /\ \A n \in Heights \ A : r[n] = pending[n]
  BY <1>1, <1>5, <1>6 DEF Above, Purged, Queues
<1>8. RowsIn(r, Heights) = RowsIn(r, A) + RowsIn(r, Heights \ A)
  BY <1>7, RowsSplit
<1>9. RowsIn(pending, Heights) = RowsIn(pending, A) + RowsIn(pending, Heights \ A)
  BY <1>1, <1>7, RowsSplit
<1>10. RowsIn(r, Heights \ A) = RowsIn(pending, Heights \ A)
  BY <1>1, <1>7, RowsSame
<1>11. RowsIn(r, A) = 0
  <2>1. \A n \in A : BatchRows(r[n]) = 0
    BY <1>7, BatchAssumption DEF BatchRows, IsReal
  <2>2. QED
    BY <1>7, <2>1, RowsNone
<1>12. RowsIn(pending, A) \in Nat /\ RowsIn(pending, Heights \ A) \in Nat
  BY <1>1, <1>7, RowsType
<1>13. pendingRows = RowsIn(pending, Heights)
  BY RowsAccountedIs DEF Counted
<1>14. Counted(r, rows) /\ rows \in Nat
  BY <1>2, <1>3, <1>6, <1>8, <1>9, <1>10, <1>11, <1>12, <1>13 DEF Counted
<1>15. /\ Counted(pending', pendingRows')
       /\ wpc' = "write" \/ pendingRows' = rows
  BY <1>1, <1>4, <1>5, <1>7, <1>14, RunCounts
<1>16. Alerted(wpc', pendingRows', overHighWater')
  <2>1. CASE wpc' = "write"
    BY <2>1 DEF Alerted
  <2>2. CASE pendingRows' = rows /\ dropped > 0
    BY <2>2, <1>1, <1>4, <1>14, Evaluated
  <2>3. CASE pendingRows' = rows /\ ~(dropped > 0)
    <3>1. rows = pendingRows
      BY <2>3, <1>2, <1>3, <1>6, <1>9, <1>12, <1>13
    <3>2. Alerted(wpc, pendingRows, overHighWater)
      BY RowsAccountedIs
    <3>3. QED
      BY <2>3, <3>1, <3>2, <1>4 DEF Alerted
  <2>4. QED
    BY <1>15, <2>1, <2>2, <2>3
<1>17. QED
  BY <1>15, <1>16 DEF RowsAccounted, AlertInSync, Counted, Alerted

\* The rewound watermark is persisted, and the drainer may go on.
LEMMA ResumeCounts ==
  ASSUME TypeOK, Phases, RowsAccounted, RollbackPersistSettles
  PROVE  RowsAccounted'
<1>1. pending \in Queues /\ TRUE \in BOOLEAN /\ FALSE \in BOOLEAN
  BY DEF TypeOK
<1>2. /\ wpc = "idle" /\ overHighWater' = overHighWater
      /\ RunTransferWriter(pending, pendingRows, TRUE, FALSE)
  BY DEF RollbackPersistSettles, Phases
<1>3. Counted(pending, pendingRows) /\ Alerted(wpc, pendingRows, overHighWater)
  BY RowsAccountedIs
<1>4. /\ Counted(pending', pendingRows')
      /\ wpc' = "write" \/ pendingRows' = pendingRows
  BY <1>1, <1>2, <1>3, RunCounts
<1>5. Alerted(wpc', pendingRows', overHighWater')
  BY <1>2, <1>3, <1>4 DEF Alerted
<1>6. QED
  BY <1>4, <1>5 DEF RowsAccounted, AlertInSync, Counted, Alerted

\* A step that leaves the queue alone, or suspends the drainer.
LEMMA RowsUntouched ==
  ASSUME RowsAccounted, UNCHANGED <<pending, pendingRows, overHighWater>>,
         wpc' = "idle" => wpc = "idle"
  PROVE  RowsAccounted'
BY DEF RowsAccounted, AlertInSync

(***************************************************************************)
(* Every step keeps the account of the rows.                               *)
(***************************************************************************)
LEMMA RowsStep ==
  ASSUME IInv, RowsAccounted, [Next]_vars
  PROVE  RowsAccounted'
<1>t. TypeOK /\ Phases
  BY DEF IInv
<1>1. ASSUME NEW seed \in 0..MaxHeight, InitTransferWriter(seed)
      PROVE RowsAccounted'
  BY <1>1, RowsUntouched DEF InitTransferWriter, queueVars
<1>2. ASSUME NEW m \in Heights, AdoptMaxIndexed(m)
      PROVE RowsAccounted'
  BY <1>2, RowsUntouched DEF AdoptMaxIndexed, memoryVars, queueVars
<1>3. ASSUME NEW n \in Heights, NEW d \in Decodes, EnqueueTransferWrite(n, d)
      PROVE RowsAccounted'
  <2>1. d \in Batches
    BY DEF Batches
  <2>2. QED
    BY <1>3, <1>t, <2>1, EnqueueCounts DEF EnqueueTransferWrite
<1>4. ASSUME NEW n \in Heights, EnqueueQuarantinedBlock(n)
      PROVE RowsAccounted'
  <2>1. Quarantined \in Batches
    BY DEF Batches
  <2>2. QED
    BY <1>4, <1>t, <2>1, EnqueueCounts DEF EnqueueQuarantinedBlock
<1>5. ASSUME NEW b \in Heights, SetDurableFloor(b)
      PROVE RowsAccounted'
  BY <1>5, RowsUntouched DEF SetDurableFloor, queueVars
<1>6. ASSUME NEW b \in 0..MaxHeight, FloorPersistSettles(b)
      PROVE RowsAccounted'
  BY <1>6, RowsUntouched DEF FloorPersistSettles, queueVars
<1>7. CASE WriteCommits
  BY <1>7, RowsUntouched DEF WriteCommits
<1>8. CASE WriteReturns
  <2>1. \/ wpc' = "persist" /\ UNCHANGED <<pending, pendingRows, overHighWater>>
        \/ NextPass
    BY <1>8 DEF WriteReturns
  <2>2. QED
    BY <1>t, <2>1, RowsUntouched, PassCounts
<1>9. CASE PersistLands
  BY <1>9, RowsUntouched DEF PersistLands
<1>10. CASE PersistReturns
  BY <1>10, <1>t, PassCounts DEF PersistReturns
<1>11. CASE PassFails
  BY <1>11, <1>t, RequeueCounts
<1>12. CASE BackoffEnds
  BY <1>12, <1>t, PassCounts DEF BackoffEnds
<1>13. ASSUME NEW f \in 0..MaxHeight, RollbackBegins(f)
       PROVE RowsAccounted'
  BY <1>13, RowsUntouched DEF RollbackBegins, queueVars
<1>14. CASE RollbackPurges
  BY <1>14, <1>t, PurgeCounts
<1>15. CASE RollbackPersistSettles
  BY <1>15, <1>t, ResumeCounts
<1>16. CASE UnwindDeletes
  BY <1>16, RowsUntouched DEF UnwindDeletes, queueVars
<1>17. CASE UnwindThrows
  BY <1>17, RowsUntouched DEF UnwindThrows, queueVars
<1>18. CASE Crash
  <2>1. pending' = NoQueue /\ pendingRows' = 0 /\ overHighWater' = FALSE
    BY <1>18 DEF Crash
  <2>2. Counted(pending', pendingRows')
    BY <2>1, NoRows DEF Counted
  <2>3. Alerted(wpc', pendingRows', overHighWater')
    BY <2>1, RowsAssumption DEF Alerted
  <2>4. QED
    BY <2>2, <2>3 DEF RowsAccounted, AlertInSync, Counted, Alerted
<1>19. CASE UNCHANGED vars
  BY <1>19, RowsUntouched DEF vars, memoryVars, queueVars
<1>20. QED
  BY <1>1, <1>2, <1>3, <1>4, <1>5, <1>6, <1>7, <1>8, <1>9, <1>10, <1>11,
     <1>12, <1>13, <1>14, <1>15, <1>16, <1>17, <1>18, <1>19
  DEF Next, Drainer

(***************************************************************************)
(* The row counter is exactly the rows of the queue, and the alert neither *)
(* sticks nor misses a breach, for any number of heights, rows and bounds  *)
(* (block-processor.ts:1317-1444).                                         *)
(***************************************************************************)
THEOREM RowsSafe == Spec => []RowsAccounted
<1>1. Init => RowsAccounted
  <2> SUFFICES ASSUME Init PROVE RowsAccounted
    OBVIOUS
  <2>1. pending = NoQueue /\ pendingRows = 0 /\ overHighWater = FALSE
    BY DEF Init
  <2>2. Counted(pending, pendingRows)
    BY <2>1, NoRows DEF Counted
  <2>3. Alerted(wpc, pendingRows, overHighWater)
    BY <2>1, RowsAssumption DEF Alerted
  <2>4. QED
    BY <2>2, <2>3, RowsAccountedIs
<1>2. IInv /\ RowsAccounted /\ [Next]_vars => RowsAccounted'
  BY RowsStep
<1>3. QED
  BY <1>1, <1>2, Invariance, PTL DEF Spec

-----------------------------------------------------------------------------
(***************************************************************************)
(* The contract.  Every step of the writer is a step of AsyncStore or      *)
(* leaves it alone.                                                        *)
(***************************************************************************)

\* A dead process holds nothing and does nothing.
LEMMA DeadStep ==
  ASSUME IInv, DeadIsEmpty, [Next]_vars
  PROVE  DeadIsEmpty'
<1>1. CASE up' = TRUE
  BY <1>1 DEF DeadIsEmpty
<1>2. CASE Crash
  BY <1>2 DEF Crash, DeadIsEmpty
<1>3. CASE up' # TRUE /\ ~Crash
  <2>1. ~up /\ wpc = "idle" /\ floorPersists = {} /\ rphase = "none"
    BY <1>3 DEF IInv, TypeOK, Phases, DeadIsEmpty, Next, vars, memoryVars, Drainer,
       InitTransferWriter, AdoptMaxIndexed, EnqueueTransferWrite, EnqueueQuarantinedBlock,
       SetDurableFloor, FloorPersistSettles, WriteCommits, WriteReturns, PersistLands,
       PersistReturns, PassFails, BackoffEnds, RollbackBegins, RollbackPurges,
       RollbackPersistSettles, UnwindDeletes, UnwindThrows
  <2>2. UNCHANGED memoryVars
    BY <1>3, <2>1 DEF Next, vars, memoryVars, Drainer,
       InitTransferWriter, AdoptMaxIndexed, EnqueueTransferWrite, EnqueueQuarantinedBlock,
       SetDurableFloor, FloorPersistSettles, WriteCommits, WriteReturns, PersistLands,
       PersistReturns, PassFails, BackoffEnds, RollbackBegins, RollbackPurges,
       RollbackPersistSettles, UnwindDeletes, UnwindThrows
  <2>3. QED
    BY <2>1, <2>2 DEF DeadIsEmpty, memoryVars, queueVars
<1>4. QED
  BY <1>1, <1>2, <1>3

\* The contract counts heights as the writer does.
LEMMA PrefixIsUpTo ==
  /\ Contract!Height = Heights
  /\ \A w : Contract!Prefix(w) = UpTo(w)
BY DEF Contract!Height, Contract!Prefix, Heights, UpTo

\* A true watermark is a prefix of what is kept.
LEMMA CoveredIsKept == \A w : Covered(w) <=> UpTo(w) \subseteq KeptHeights
BY DEF Covered, KeptHeights, UpTo

\* What an excuse for the heights of S does to what is kept.
LEMMA ExcusedIsKept ==
  ASSUME TypeOK, NEW S \in SUBSET Heights, NEW why \in Excuses,
         excuse' = Excuse(S, why), tt' = tt
  PROVE  KeptHeights' = KeptHeights \cup S
<1>1. why # None
  BY BatchAssumption
<1>2. \A n \in Heights : Accounted(n)' <=> Accounted(n) \/ n \in S
  BY <1>1 DEF Accounted, Excuse, TypeOK
<1>3. QED
  BY <1>2 DEF KeptHeights

\* What a start of the drainer on the queue q leaves owed.
LEMMA OwedOfRun ==
  ASSUME TypeOK, NEW q \in Queues, NEW rows, NEW stopped \in BOOLEAN,
         NEW held \in BOOLEAN, RunTransferWriter(q, rows, stopped, held),
         stopped => wpc # "write"
  PROVE  Owed' = {n \in Heights : IsReal(q[n]) \/ (wpc = "write" /\ IsReal(drained[n]))}
<1>1. \/ pending' = NoQueue /\ drained' = q /\ wpc' = "write" /\ stopped /\ ~held
      \/ pending' = q /\ drained' = NoQueue /\ wpc' = "idle" /\ stopped
      \/ pending' = q /\ drained' = drained /\ wpc' = wpc /\ ~stopped
  BY RunMoves
<1>2. ~IsReal(None)
  BY BatchAssumption DEF IsReal
<1>3. QED
  BY <1>1, <1>2 DEF Owed, NoQueue, IsReal

\* The next pass owes what is queued.
LEMMA OwedOfPass ==
  ASSUME TypeOK, wpc # "write", NextPass
  PROVE  Owed' = Owed
<1>1. pending \in Queues /\ TRUE \in BOOLEAN /\ paused \in BOOLEAN
  BY DEF TypeOK
<1>2. Owed' = {n \in Heights : IsReal(pending[n]) \/ (wpc = "write" /\ IsReal(drained[n]))}
  BY <1>1, OwedOfRun DEF NextPass
<1>3. QED
  BY <1>2 DEF Owed

\* The steps of the contract, one by one.
LEMMA ContractSteps ==
  /\ \A n \in Heights : Contract!Accept(n) \/ Contract!Waive(n) => Contract!StoreNext
  /\ \A S \in SUBSET Heights : Contract!Repeat(S) => Contract!StoreNext
  /\ \A S \in SUBSET Heights, newer \in SUBSET Heights :
       newer \subseteq S /\ Contract!Keep(S, newer) => Contract!StoreNext
  /\ \A w \in 0..MaxHeight :
       Contract!Start(w) \/ Contract!Trust(w) \/ Contract!Skip(w) \/ Contract!Move(w)
          \/ Contract!Rollback(w) => Contract!StoreNext
  /\ \A f, w \in 0..MaxHeight : Contract!Unwind(f, w) => Contract!StoreNext
  /\ Contract!Die => Contract!StoreNext
BY PrefixIsUpTo DEF Contract!StoreNext

Simulated == [Contract!StoreNext]_(Contract!storeVars)

\* A step the contract does not see.
LEMMA Unseen ==
  ASSUME UNCHANGED <<up, Owed, KeptHeights, durableBlock, persistedW>>
  PROVE  Simulated
BY DEF Simulated, Contract!storeVars

\* Rows and excuses that stay keep what is kept.
LEMMA SameKept == UNCHANGED <<tt, excuse>> => KeptHeights' = KeptHeights
BY DEF KeptHeights, Accounted

\* Queue and batch that stay owe the same.
LEMMA SameOwed == UNCHANGED <<pending, drained, wpc>> => Owed' = Owed
BY DEF Owed

\* A boot, and the adoption of an old database.
LEMMA BootSimulated ==
  ASSUME ContractInv, NEW w \in 0..MaxHeight,
         InitTransferWriter(w) \/ (w \in Heights /\ AdoptMaxIndexed(w))
  PROVE  Simulated
<1>1. TypeOK /\ PersistedCovered /\ "seed" \in Excuses
  BY DEF ContractInv, IInv, Excuses
<1>2. UpTo(w) \in SUBSET Heights
  BY DEF UpTo
<1>3. CASE InitTransferWriter(w)
  <2>1. Owed' = Owed
    BY <1>3, SameOwed DEF InitTransferWriter, queueVars
  <2>2. KeptHeights' = KeptHeights \cup UpTo(w)
    <3>1. CASE w = persistedW
      <4>1. UpTo(w) \subseteq KeptHeights
        BY <1>1, <3>1 DEF PersistedCovered, KeptHeights, UpTo
      <4>2. QED
        BY <1>3, <3>1, <4>1, SameKept DEF InitTransferWriter
    <3>2. CASE w # persistedW
      BY <1>1, <1>2, <1>3, <3>2, ExcusedIsKept DEF InitTransferWriter
    <3>3. QED
      BY <3>1, <3>2
  <2>3. Contract!Start(w)
    BY <1>3, <2>1, <2>2, PrefixIsUpTo DEF Contract!Start, InitTransferWriter
  <2>4. QED
    BY <2>3, ContractSteps DEF Simulated
<1>4. CASE w \in Heights /\ AdoptMaxIndexed(w)
  <2>1. Owed' = Owed /\ UNCHANGED <<up, durableBlock>>
    BY <1>4, SameOwed DEF AdoptMaxIndexed, memoryVars, queueVars
  <2>2. KeptHeights' = KeptHeights \cup UpTo(w)
    BY <1>1, <1>2, <1>4, ExcusedIsKept DEF AdoptMaxIndexed
  <2>3. Contract!Trust(w)
    BY <1>4, <2>1, <2>2, PrefixIsUpTo DEF Contract!Trust, AdoptMaxIndexed
  <2>4. QED
    BY <2>3, ContractSteps DEF Simulated
<1>5. QED
  BY <1>3, <1>4

\* A decode is accepted.
LEMMA EnqueueSimulated ==
  ASSUME ContractInv, NEW n \in Heights, NEW d \in Decodes, EnqueueTransferWrite(n, d)
  PROVE  Simulated
<1>1. TypeOK
  BY DEF ContractInv, IInv
<1>2. PICK q : q = [pending EXCEPT ![n] = d]
  OBVIOUS
<1>3. q \in Queues /\ (wpc = "idle") \in BOOLEAN /\ paused \in BOOLEAN
  BY <1>1, <1>2 DEF TypeOK, Queues, Batches
<1>4. \E rows : RunTransferWriter(q, rows, wpc = "idle", paused)
  BY <1>2 DEF EnqueueTransferWrite
<1>5. Owed' = {m \in Heights : IsReal(q[m]) \/ (wpc = "write" /\ IsReal(drained[m]))}
  BY <1>1, <1>3, <1>4, OwedOfRun
<1>6. Owed' = Owed \cup {n}
  BY <1>1, <1>2, <1>5 DEF Owed, IsReal, TypeOK, Queues
<1>7. KeptHeights' = KeptHeights
  BY SameKept DEF EnqueueTransferWrite
<1>8. Contract!Accept(n)
  BY <1>6, <1>7 DEF Contract!Accept, EnqueueTransferWrite
<1>9. QED
  BY <1>8, ContractSteps DEF Simulated

\* A height is waived.
LEMMA QuarantineSimulated ==
  ASSUME ContractInv, NEW n \in Heights, EnqueueQuarantinedBlock(n)
  PROVE  Simulated
<1>1. TypeOK /\ "quarantine" \in Excuses /\ {n} \in SUBSET Heights
  BY DEF ContractInv, IInv, Excuses
<1>2. PICK q : q = [pending EXCEPT ![n] = Quarantined]
  OBVIOUS
<1>3. q \in Queues /\ (wpc = "idle") \in BOOLEAN /\ paused \in BOOLEAN
  BY <1>1, <1>2 DEF TypeOK, Queues, Batches
<1>4. \E rows : RunTransferWriter(q, rows, wpc = "idle", paused)
  BY <1>2 DEF EnqueueQuarantinedBlock
<1>5. Owed' = {m \in Heights : IsReal(q[m]) \/ (wpc = "write" /\ IsReal(drained[m]))}
  BY <1>1, <1>3, <1>4, OwedOfRun
<1>6. ~IsReal(Quarantined) /\ ~IsReal(pending[n])
  BY BatchAssumption DEF IsReal, EnqueueQuarantinedBlock
<1>7. \A m \in Heights : IsReal(q[m]) <=> IsReal(pending[m])
  BY <1>1, <1>2, <1>6 DEF TypeOK, Queues
<1>8. Owed' = Owed
  BY <1>5, <1>7 DEF Owed
<1>9. KeptHeights' = KeptHeights \cup {n}
  BY <1>1, ExcusedIsKept DEF EnqueueQuarantinedBlock
<1>10. Contract!Waive(n)
  BY <1>8, <1>9 DEF Contract!Waive, EnqueueQuarantinedBlock
<1>11. QED
  BY <1>10, ContractSteps DEF Simulated

\* The floor is raised, and its persist settles.
LEMMA FloorSimulated ==
  ASSUME ContractInv, NEW b \in 0..MaxHeight,
         (b \in Heights /\ SetDurableFloor(b)) \/ FloorPersistSettles(b)
  PROVE  Simulated
<1>1. /\ TypeOK /\ WatermarkCovered /\ FloorsCovered /\ PersistedCovered
      /\ DeadIsEmpty /\ "skip" \in Excuses
  BY DEF ContractInv, IInv, Excuses
<1>2. CASE b \in Heights /\ SetDurableFloor(b)
  <2>1. Owed' = Owed
    BY <1>2, SameOwed DEF SetDurableFloor, queueVars
  <2>2. UpTo(b) \cap Above(durableBlock) \in SUBSET Heights
    BY DEF UpTo
  <2>3. KeptHeights' = KeptHeights \cup (UpTo(b) \cap Above(durableBlock))
    BY <1>1, <1>2, <2>2, ExcusedIsKept DEF SetDurableFloor
  <2>4. UpTo(b) \ Above(durableBlock) \subseteq KeptHeights
    <3>1. \A n \in UpTo(b) \ Above(durableBlock) : n \in UpTo(durableBlock)
      BY <1>1, HeightAssumption DEF UpTo, Above, Heights, TypeOK
    <3>2. QED
      BY <1>1, <3>1 DEF WatermarkCovered, KeptHeights, UpTo
  <2>5. KeptHeights' = KeptHeights \cup UpTo(b)
    BY <2>3, <2>4
  <2>6. Contract!Skip(b)
    BY <1>2, <2>1, <2>5, PrefixIsUpTo DEF Contract!Skip, SetDurableFloor
  <2>7. QED
    BY <2>6, ContractSteps DEF Simulated
<1>3. CASE FloorPersistSettles(b)
  <2>1. Owed' = Owed /\ KeptHeights' = KeptHeights
    BY <1>3, SameOwed, SameKept DEF FloorPersistSettles, queueVars
  <2>2. up /\ UpTo(b) \subseteq KeptHeights
    BY <1>1, <1>3, CoveredIsKept DEF FloorPersistSettles, FloorsCovered, DeadIsEmpty
  <2>3. CASE persistedW' = b
    <3>1. Contract!Move(b)
      BY <1>3, <2>1, <2>2, <2>3, PrefixIsUpTo DEF Contract!Move, FloorPersistSettles
    <3>2. QED
      BY <3>1, ContractSteps DEF Simulated
  <2>4. CASE persistedW' = persistedW
    BY <1>3, <2>1, <2>4, Unseen DEF FloorPersistSettles
  <2>5. QED
    BY <1>3, <2>3, <2>4 DEF FloorPersistSettles
<1>4. QED
  BY <1>2, <1>3

\* The batch commits, and its transaction returns.
LEMMA WriteSimulated ==
  ASSUME ContractInv, WriteCommits \/ WriteReturns
  PROVE  Simulated
<1>1. TypeOK /\ DeadIsEmpty
  BY DEF ContractInv, IInv
<1>2. CASE WriteCommits
  <2>1. PICK S : S = {n \in Heights : IsReal(drained[n])}
    OBVIOUS
  <2>2. PICK newer : newer = {n \in S : IsReal(pending[n])}
    OBVIOUS
  <2>3. S \in SUBSET Heights /\ newer \in SUBSET Heights /\ newer \subseteq S
    BY <2>1, <2>2
  <2>4. wpc = "write" /\ wpc' = "wrote" /\ up /\ UNCHANGED <<up, pending>>
    BY <1>1, <1>2 DEF WriteCommits, DeadIsEmpty
  <2>5. S \subseteq Owed
    BY <2>1, <2>4 DEF Owed
  <2>6. Owed' = (Owed \ S) \cup newer
    BY <2>1, <2>2, <2>4 DEF Owed
  <2>7. KeptHeights' = KeptHeights \cup S
    <3>1. \A n \in S : tt'[n] # None
      BY <1>2, <2>1, BatchAssumption DEF WriteCommits, IsReal
    <3>2. \A n \in Heights \ S : tt'[n] = tt[n] /\ excuse'[n] = excuse[n]
      BY <1>2, <2>1 DEF WriteCommits
    <3>3. QED
      BY <2>3, <3>1, <3>2 DEF KeptHeights, Accounted
  <2>8. Contract!Keep(S, newer)
    BY <1>2, <2>3, <2>4, <2>5, <2>6, <2>7 DEF Contract!Keep, WriteCommits
  <2>9. QED
    BY <2>3, <2>8, ContractSteps DEF Simulated
<1>3. CASE WriteReturns
  <2>1. wpc = "wrote"
    BY <1>3 DEF WriteReturns
  <2>2. \/ wpc' = "persist" /\ UNCHANGED <<pending, drained>>
        \/ NextPass
    BY <1>3 DEF WriteReturns
  <2>3. Owed' = Owed
    <3>1. CASE wpc' = "persist" /\ UNCHANGED <<pending, drained>>
      BY <2>1, <3>1 DEF Owed
    <3>2. CASE NextPass
      BY <1>1, <2>1, <3>2, OwedOfPass
    <3>3. QED
      BY <2>2, <3>1, <3>2
  <2>4. KeptHeights' = KeptHeights
    BY <1>3, SameKept DEF WriteReturns
  <2>5. QED
    BY <1>3, <2>3, <2>4, Unseen DEF WriteReturns
<1>4. QED
  BY <1>2, <1>3

\* The watermark is persisted, and the persist returns.
LEMMA PersistSimulated ==
  ASSUME ContractInv, PersistLands \/ PersistReturns
  PROVE  Simulated
<1>1. /\ TypeOK /\ TargetCovered /\ DeadIsEmpty
      /\ wpc \in {"persist", "persisted"}
  BY DEF ContractInv, IInv, PersistLands, PersistReturns
<1>2. up /\ UpTo(target) \subseteq KeptHeights /\ target \in 0..MaxHeight
  BY <1>1, CoveredIsKept DEF TargetCovered, DeadIsEmpty, TypeOK
<1>3. KeptHeights' = KeptHeights
  BY SameKept DEF PersistLands, PersistReturns
<1>4. CASE PersistLands
  <2>1. Owed' = Owed
    BY <1>4 DEF Owed, PersistLands
  <2>2. Contract!Move(target)
    BY <1>2, <1>3, <1>4, <2>1, PrefixIsUpTo DEF Contract!Move, PersistLands
  <2>3. QED
    BY <1>2, <2>2, ContractSteps DEF Simulated
<1>5. CASE PersistReturns
  <2>1. Owed' = Owed
    BY <1>1, <1>5, OwedOfPass DEF PersistReturns
  <2>2. Contract!Move(target)
    BY <1>2, <1>3, <1>5, <2>1, PrefixIsUpTo DEF Contract!Move, PersistReturns
  <2>3. QED
    BY <1>2, <2>2, ContractSteps DEF Simulated
<1>6. QED
  BY <1>4, <1>5

\* A failed pass puts its batch back, and the next one takes it again.
LEMMA FailureSimulated ==
  ASSUME ContractInv, PassFails \/ BackoffEnds
  PROVE  Simulated
<1>1. TypeOK /\ DeadIsEmpty /\ BatchCommitted /\ QuarantineYields
  BY DEF ContractInv, IInv, DecodeInv
<1>2. KeptHeights' = KeptHeights
  BY SameKept DEF PassFails, BackoffEnds
<1>3. CASE PassFails
  <2>1. PICK S : S = {n \in Heights : pending[n] = None /\ IsReal(drained[n])}
    OBVIOUS
  <2>2. S \in SUBSET Heights
    BY <2>1
  <2>3. ~IsReal(None) /\ \A n \in Heights : pending[n] = Quarantined => ~IsReal(drained[n])
    BY <1>1, BatchAssumption DEF IsReal, QuarantineYields
  <2>4. \A n \in Heights :
          IsReal(pending'[n]) <=> IsReal(pending[n]) \/ (pending[n] = None /\ IsReal(drained[n]))
    BY <1>3, <2>3 DEF PassFails, Requeued
  <2>5. wpc' = "backoff" /\ wpc \in {"write", "wrote", "persist", "persisted"} /\ up /\ up' = up
    BY <1>1, <1>3 DEF PassFails, DeadIsEmpty
  <2>6. Owed' = {n \in Heights : IsReal(pending[n])} \cup S
    BY <2>1, <2>4, <2>5 DEF Owed
  <2>7. CASE wpc = "write"
    <3>1. \A n \in Heights : IsReal(drained[n]) => IsReal(pending[n]) \/ n \in S
      BY <1>1, <2>1, <2>3 DEF TypeOK, Queues, Batches, IsReal
    <3>2. Owed' = Owed
      BY <2>1, <2>6, <2>7, <3>1 DEF Owed
    <3>3. QED
      BY <1>2, <1>3, <3>2, Unseen DEF PassFails
  <2>8. CASE wpc # "write"
    <3>1. Owed' = Owed \cup S
      BY <2>6, <2>8 DEF Owed
    <3>2. S \subseteq KeptHeights
      BY <1>1, <2>1, <2>3, <2>5, <2>8 DEF BatchCommitted, KeptHeights, Accounted
    <3>3. Contract!Repeat(S)
      BY <1>2, <1>3, <2>5, <3>1, <3>2 DEF Contract!Repeat, PassFails
    <3>4. QED
      BY <2>2, <3>3, ContractSteps DEF Simulated
  <2>9. QED
    BY <2>7, <2>8
<1>4. CASE BackoffEnds
  <2>1. Owed' = Owed
    BY <1>1, <1>4, OwedOfPass DEF BackoffEnds
  <2>2. QED
    BY <1>2, <1>4, <2>1, Unseen DEF BackoffEnds
<1>5. QED
  BY <1>3, <1>4

\* A rollback begins, purges the queue, and persists the rewound watermark.
LEMMA RollbackSimulated ==
  ASSUME ContractInv, (\E f \in 0..MaxHeight : RollbackBegins(f)) \/ RollbackPurges
                         \/ RollbackPersistSettles
  PROVE  Simulated
<1>1. TypeOK /\ WatermarkCovered /\ PersistedCovered /\ BelowFork /\ Phases
  BY DEF ContractInv, IInv
<1>2. KeptHeights' = KeptHeights
  <2>1. CASE RollbackPersistSettles
    <3>1. \A n \in Heights : Accounted(n)' <=> Accounted(n)
      <4> SUFFICES ASSUME NEW n \in Heights PROVE Accounted(n)' <=> Accounted(n)
        OBVIOUS
      <4>1. /\ excuse'[n] = IF fork < n /\ n <= persistedW' THEN "unwind" ELSE excuse[n]
            /\ tt' = tt
        BY <2>1 DEF RollbackPersistSettles
      <4>2. CASE fork < n /\ n <= persistedW'
        <5>1. persistedW' = persistedW /\ n \in UpTo(persistedW)
          BY <1>1, <2>1, <4>2, HeightAssumption
          DEF RollbackPersistSettles, UpTo, Heights, TypeOK
        <5>2. Accounted(n)
          BY <1>1, <5>1 DEF PersistedCovered
        <5>3. QED
          BY <4>1, <4>2, <5>2, BatchAssumption DEF Accounted, Excuses
      <4>3. CASE ~(fork < n /\ n <= persistedW')
        BY <4>1, <4>3 DEF Accounted
      <4>4. QED
        BY <4>2, <4>3
    <3>2. QED
      BY <3>1 DEF KeptHeights
  <2>2. QED
    BY <2>1, SameKept DEF RollbackBegins, RollbackPurges
<1>3. ASSUME NEW f \in 0..MaxHeight, RollbackBegins(f) PROVE Simulated
  BY <1>2, <1>3, SameOwed, Unseen DEF RollbackBegins, queueVars
<1>4. CASE RollbackPurges
  <2>1. up /\ up' = up /\ persistedW' = persistedW /\ wpc = "idle" /\ fork \in 0..MaxHeight
    BY <1>1, <1>4 DEF RollbackPurges, Phases, TypeOK
  <2>2. PICK q : q = Purged
    OBVIOUS
  <2>3. q \in Queues /\ TRUE \in BOOLEAN /\ (durableBlock > fork) \in BOOLEAN
    BY <1>1, <2>2 DEF Purged, Queues, TypeOK
  <2>4. \E rows : RunTransferWriter(q, rows, TRUE, durableBlock > fork)
    BY <1>4, <2>2 DEF RollbackPurges
  <2>5. Owed' = {n \in Heights : IsReal(q[n]) \/ (wpc = "write" /\ IsReal(drained[n]))}
    BY <1>1, <2>1, <2>3, <2>4, OwedOfRun
  <2>6. \A n \in Heights : IsReal(q[n]) <=> IsReal(pending[n]) /\ n \in UpTo(fork)
    <3>1. \A n \in Heights : n \in UpTo(fork) <=> ~(n > fork)
      BY <2>1, HeightAssumption DEF UpTo, Heights
    <3>2. QED
      BY <2>2, <3>1, BatchAssumption DEF Purged, IsReal
  <2>7. Owed' = Owed \cap UpTo(fork)
    BY <2>1, <2>5, <2>6 DEF Owed
  <2>8. durableBlock' = IF durableBlock > fork THEN fork ELSE durableBlock
    BY <1>4 DEF RollbackPurges, Rewound
  <2>9. Contract!Rollback(fork)
    BY <1>2, <2>1, <2>7, <2>8, PrefixIsUpTo DEF Contract!Rollback
  <2>10. QED
    BY <2>1, <2>9, ContractSteps DEF Simulated
<1>5. CASE RollbackPersistSettles
  <2>1. /\ up /\ wpc = "idle" /\ durableBlock = fork /\ fork \in 0..MaxHeight
        /\ UNCHANGED <<up, durableBlock>>
    BY <1>1, <1>5 DEF RollbackPersistSettles, Phases, TypeOK
  <2>2. Owed' = Owed
    <3>1. pending \in Queues /\ TRUE \in BOOLEAN /\ FALSE \in BOOLEAN
      BY <1>1 DEF TypeOK
    <3>2. RunTransferWriter(pending, pendingRows, TRUE, FALSE)
      BY <1>5 DEF RollbackPersistSettles
    <3>3. Owed' = {n \in Heights : IsReal(pending[n]) \/ (wpc = "write" /\ IsReal(drained[n]))}
      BY <1>1, <2>1, <3>1, <3>2, OwedOfRun
    <3>4. QED
      BY <3>3 DEF Owed
  <2>3. UpTo(fork) \subseteq KeptHeights
    BY <1>1, <2>1 DEF WatermarkCovered, KeptHeights, UpTo
  <2>4. CASE persistedW' = fork
    <3>1. Contract!Move(fork)
      BY <1>2, <2>1, <2>2, <2>3, <2>4, PrefixIsUpTo DEF Contract!Move
    <3>2. QED
      BY <2>1, <3>1, ContractSteps DEF Simulated
  <2>5. CASE persistedW' = persistedW
    BY <1>2, <2>1, <2>2, <2>5, Unseen
  <2>6. QED
    BY <1>5, <2>4, <2>5 DEF RollbackPersistSettles
<1>6. QED
  BY <1>3, <1>4, <1>5

\* The greatest of the watermarks that a restart reads now or may read once
\* the persists on their way have landed.
LEMMA GreatestClaim ==
  ASSUME TypeOK
  PROVE  \E w \in floorPersists \cup {persistedW} :
            \A v \in floorPersists \cup {persistedW} : v <= w
<1>1. PICK T : T = floorPersists \cup {persistedW}
  OBVIOUS
<1>2. T # {} /\ T \subseteq 0..MaxHeight
  BY <1>1 DEF TypeOK
<1>3. PICK D : D = {MaxHeight - v : v \in T}
  OBVIOUS
<1>4. D \in SUBSET Nat /\ D # {}
  BY <1>2, <1>3, HeightAssumption
<1>5. PICK d \in D : \A e \in D : d <= e
  BY <1>4, LeastNumber
<1>6. PICK w \in T : d = MaxHeight - w
  BY <1>3
<1>7. \A v \in T : v <= w
  BY <1>2, <1>3, <1>5, <1>6, HeightAssumption
<1>8. QED
  BY <1>1, <1>6, <1>7

\* The rows above the fork go; what a watermark still claims is excused.
LEMMA UnwindSimulated ==
  ASSUME ContractInv, UnwindDeletes
  PROVE  Simulated
<1>1. /\ TypeOK /\ BelowFork /\ Phases /\ FloorsCovered /\ PersistedCovered
      /\ rphase = "unwind"
  BY DEF ContractInv, IInv, UnwindDeletes
<1>2. PICK w \in floorPersists \cup {persistedW} :
        \A v \in floorPersists \cup {persistedW} : v <= w
  BY <1>1, GreatestClaim
<1>3. w \in 0..MaxHeight /\ persistedW \in 0..MaxHeight /\ fork \in 0..MaxHeight
  BY <1>1 DEF TypeOK
<1>4. up /\ durableBlock <= fork /\ Owed \subseteq UpTo(fork)
  <2>1. \A n \in Owed : pending[n] # None \/ drained[n] # None
    BY BatchAssumption DEF Owed, IsReal
  <2>2. QED
    BY <1>1, <2>1 DEF BelowFork, Phases, Owed, Queued
<1>5. UpTo(w) \subseteq KeptHeights
  BY <1>1, CoveredIsKept DEF FloorsCovered, PersistedCovered, Covered
<1>6. KeptHeights' = (KeptHeights \cap UpTo(fork)) \cup UpTo(w)
  <2>1. \A n \in UpTo(fork) : n \in Heights /\ tt'[n] = tt[n] /\ excuse'[n] = excuse[n]
    BY <1>3, HeightAssumption DEF UnwindDeletes, UpTo, Heights
  <2>2. \A n \in Heights \ UpTo(fork) : n > fork
    BY <1>3, HeightAssumption DEF UpTo, Heights
  <2>3. ASSUME NEW n \in Heights \ UpTo(fork)
        PROVE  Accounted(n)' <=> n \in UpTo(w)
    <3>1. tt'[n] = None
      BY <2>2 DEF UnwindDeletes
    <3>2. excuse'[n] = IF \A v \in floorPersists \cup {persistedW} : v < n THEN None
                       ELSE IF excuse[n] = "unwind" THEN "unwind" ELSE "unseen"
      BY <1>3, <2>2, <2>3, HeightAssumption DEF UnwindDeletes, Heights
    <3>3. "unwind" # None /\ "unseen" # None
      BY BatchAssumption DEF Excuses
    <3>4. (\A v \in floorPersists \cup {persistedW} : v < n) <=> ~(n <= w)
      BY <1>1, <1>2, <1>3, <2>3, HeightAssumption DEF Heights, TypeOK
    <3>5. QED
      BY <2>3, <3>1, <3>2, <3>3, <3>4 DEF Accounted, UpTo
  <2>4. ASSUME NEW n \in UpTo(fork) PROVE Accounted(n)' <=> Accounted(n)
    BY <2>1, <2>4 DEF Accounted
  <2>5. \A n \in Heights : n \in KeptHeights' <=> Accounted(n)'
    BY DEF KeptHeights
  <2>6. KeptHeights' \subseteq Heights /\ UpTo(w) \subseteq Heights
    BY DEF KeptHeights, UpTo
  <2>7. QED
    BY <1>5, <2>1, <2>3, <2>4, <2>5, <2>6 DEF KeptHeights
<1>7. Owed' = Owed
  BY SameOwed DEF UnwindDeletes, queueVars
<1>8. w >= persistedW
  BY <1>2, <1>3
<1>9. Contract!Unwind(fork, w)
  BY <1>4, <1>5, <1>6, <1>7, <1>8, PrefixIsUpTo DEF Contract!Unwind, UnwindDeletes
<1>10. QED
  BY <1>3, <1>9, ContractSteps DEF Simulated

\* A death, and the steps the contract does not see.
LEMMA DeathSimulated ==
  ASSUME ContractInv, Crash \/ UnwindThrows \/ UNCHANGED vars
  PROVE  Simulated
<1>1. CASE Crash
  <2>1. Owed' = {}
    BY <1>1, BatchAssumption DEF Crash, Owed, NoQueue, IsReal
  <2>2. KeptHeights' = KeptHeights
    BY <1>1, SameKept DEF Crash
  <2>3. Contract!Die
    BY <1>1, <2>1, <2>2 DEF Contract!Die, Crash
  <2>4. QED
    BY <2>3, ContractSteps DEF Simulated
<1>2. CASE UnwindThrows
  <2>1. KeptHeights' = KeptHeights
    BY <1>2 DEF UnwindThrows, KeptHeights, Accounted
  <2>2. QED
    BY <1>2, <2>1, SameOwed, Unseen DEF UnwindThrows, queueVars
<1>3. CASE UNCHANGED vars
  BY <1>3, SameKept, SameOwed, Unseen DEF vars, memoryVars, queueVars
<1>4. QED
  BY <1>1, <1>2, <1>3

(***************************************************************************)
(* Whatever fails, is redone, rolled back or lost, the writer stays within *)
(* the contract that block-processor.ts:943-957 states and that AsyncStore *)
(* specifies: initial states map to initial states, and every step to a    *)
(* step of the contract or to none.                                        *)
(***************************************************************************)
THEOREM ContractImplemented == Spec => ContractKept
<1>1. Init => ContractInv
  <2>1. Init => DecodeInv
    BY BatchAssumption DEF Init, DecodeInv, NoDecodeLost, EmptyBatch, BatchCommitted,
       QuarantineYields, ForkForgotten, NoQueue, IsReal
  <2>2. Init => DeadIsEmpty
    BY DEF Init, DeadIsEmpty
  <2>3. QED
    BY <2>1, <2>2, InitInvariant DEF ContractInv
<1>2. ContractInv /\ [Next]_vars => ContractInv'
  BY OtherStep, UnwindStep, DecodeStep, DeadStep DEF ContractInv
<1>3. Init => Contract!StoreInit
  <2> SUFFICES ASSUME Init PROVE Contract!StoreInit
    OBVIOUS
  <2>1. Owed = {}
    BY BatchAssumption DEF Init, Owed, NoQueue, IsReal
  <2>2. KeptHeights \in SUBSET Heights
    BY DEF KeptHeights
  <2>3. persistedW \in 0..MaxHeight /\ UpTo(persistedW) \subseteq KeptHeights
    BY DEF Init, KeptHeights, Accounted, UpTo
  <2>4. QED
    BY <2>1, <2>2, <2>3, PrefixIsUpTo DEF Contract!StoreInit, Init
<1>4. ContractInv /\ [Next]_vars => [Contract!StoreNext]_(Contract!storeVars)
  <2> SUFFICES ASSUME ContractInv, [Next]_vars PROVE Simulated
    BY DEF Simulated
  <2>1. CASE Next
    BY <2>1, BootSimulated, EnqueueSimulated, QuarantineSimulated, FloorSimulated,
       WriteSimulated, PersistSimulated, FailureSimulated, RollbackSimulated,
       UnwindSimulated, DeathSimulated, HeightAssumption DEF Next, Drainer, Heights
  <2>2. CASE UNCHANGED vars
    BY <2>2, DeathSimulated
  <2>3. QED
    BY <2>1, <2>2
<1>5. QED
  BY <1>1, <1>2, <1>3, <1>4, PTL DEF Spec, ContractKept, Contract!StoreSpec
=============================================================================
