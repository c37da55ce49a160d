--------------------------- MODULE TransferWriter ---------------------------
(***************************************************************************)
(* The asynchronous token-transfer writer of the indexer                   *)
(* (apps/indexer/src/block-processor.ts, lines 943-1643).                  *)
(*                                                                         *)
(* Block workers hand the decoded transfers of a height to a queue.  One   *)
(* drainer moves the whole queue into a local batch, writes it in one      *)
(* transaction, folds the written heights into the durable watermark W     *)
(* through their contiguous prefix, and persists W in indexer_cursor.      *)
(* After a crash the indexer resumes at min(block cursor, W), so a height  *)
(* at or below the persisted W whose transfers are not in the database is  *)
(* lost for good.                                                          *)
(*                                                                         *)
(* JavaScript runs to completion between two awaits, so one action is the  *)
(* code between two awaits; a database call is split into the moment it    *)
(* takes effect and the moment its promise settles, so that a call may     *)
(* take effect and still be reported as failed.                            *)
(*                                                                         *)
(* Abstracted: the content of a decode (a value of Decodes, with a number  *)
(* of rows), SQL chunking, logging, the TT_WRITER_PROFILE diagnostics and  *)
(* the failure counter, which only drives log lines.                       *)
(***************************************************************************)
EXTENDS Integers, Functions

CONSTANTS
    MaxHeight,      \* bound: the highest block of the model
    Decodes,        \* the decodes a block can have
    RowsOf,         \* RowsOf[d]: the number of transfer rows in decode d
    Quarantined,    \* the batch that claims nothing about its block
    None,           \* no batch, no rows
    HighWaterRows,  \* TT_QUEUE_HIGH_WATER_ROWS, the backpressure bound
    AlertRows       \* TT_QUEUE_ALERT_ROWS, floored at HighWaterRows

\* A quarantined block, a MAX_LAG skip, a seed taken on trust, an unwind below
\* a persisted watermark whose rewind failed, an unwind below one that was
\* persisted, or is being persisted, without the rollback seeing it: its W in
\* memory is at or below the fork, so it attempts no rewind
\* (block-processor.ts:1357).
Excuses == {"quarantine", "skip", "seed", "unwind", "unseen"}

ASSUME HeightAssumption == MaxHeight \in Nat
ASSUME BatchAssumption ==
    /\ Quarantined \notin Decodes
    /\ None \notin Decodes \cup Excuses
    /\ Quarantined # None
ASSUME RowsAssumption ==
    /\ RowsOf \in [Decodes -> Nat]
    /\ HighWaterRows \in Nat
    /\ AlertRows \in Nat
    /\ HighWaterRows <= AlertRows

Heights == 1..MaxHeight

Batches == Decodes \cup {Quarantined}
Queues  == [Heights -> Batches \cup {None}]
NoQueue == [n \in Heights |-> None]

VARIABLES
    up,             \* the process runs and initTransferWriter has seeded W
    pending,        \* transferPending: height -> queued batch
    pendingRows,    \* transferPendingRows
    overHighWater,  \* ttQueueOverHighWater, the edge-triggered alert flag
    drained,        \* the drainer's local batch
    written,        \* transferWritten: committed heights not yet folded
    durableBlock,   \* the in-memory watermark W
    wpc,            \* where the drainer is suspended
    target,         \* newDurable, the watermark the drainer is persisting
    paused,         \* transferWriterPaused
    rphase,         \* where rollbackTransferWriterTo / unwindFrom is suspended
    fork,           \* its fork point
    floorPersists,  \* persists that setDurableFloor fired and did not await
    tt,             \* token_transfers: height -> the decode committed for it
    persistedW,     \* indexer_cursor.transfers_durable_block
    excuse,         \* history: why W may cover a height without rows, if it may
    newest          \* history: the newest decode this process queued

queueVars  == <<pending, pendingRows, drained, wpc>>
memoryVars == <<up, queueVars, overHighWater, written, durableBlock, target,
                paused, rphase, fork, floorPersists>>
vars == <<memoryVars, tt, persistedW, excuse, newest>>

IsReal(b) == b \in Decodes
Queued(q) == {n \in Heights : q[n] # None}
Above(f)  == {n \in Heights : n > f}
UpTo(w)   == {n \in Heights : n <= w}

\* The excuses after the heights of S that have no rows are given reason why.
Excuse(S, why) ==
    [n \in Heights |-> IF n \in S /\ tt[n] = None THEN why ELSE excuse[n]]

BatchRows(b) == IF IsReal(b) THEN RowsOf[b] ELSE 0
RowsIn(q, S) == SumFunctionOnSet([n \in Heights |-> BatchRows(q[n])], S)

TypeOK ==
    /\ up \in BOOLEAN
    /\ pending \in Queues
    /\ overHighWater \in BOOLEAN
    /\ drained \in Queues
    /\ written \subseteq Heights
    /\ durableBlock \in 0..MaxHeight
    /\ wpc \in {"idle", "write", "wrote", "persist", "persisted", "backoff"}
    /\ target \in 0..MaxHeight
    /\ paused \in BOOLEAN
    /\ rphase \in {"none", "quiesce", "persist", "unwind"}
    /\ fork \in 0..MaxHeight
    /\ floorPersists \subseteq 0..MaxHeight
    /\ tt \in [Heights -> Decodes \cup {None}]
    /\ persistedW \in 0..MaxHeight
    /\ excuse \in [Heights -> Excuses \cup {None}]
    /\ newest \in [Heights -> Decodes \cup {None}]

\* A process about to boot on a database in which the watermark holds.
Init ==
    /\ up = FALSE
    /\ pending = NoQueue
    /\ pendingRows = 0
    /\ overHighWater = FALSE
    /\ drained = NoQueue
    /\ written = {}
    /\ durableBlock = 0
    /\ wpc = "idle"
    /\ target = 0
    /\ paused = FALSE
    /\ rphase = "none"
    /\ fork = 0
    /\ floorPersists = {}
    /\ tt \in [Heights -> Decodes \cup {None}]
    /\ persistedW \in {w \in 0..MaxHeight : \A n \in UpTo(w) : tt[n] # None}
    /\ excuse = NoQueue
    /\ newest = NoQueue

-----------------------------------------------------------------------------
(***************************************************************************)
(* The alert flag: raised above the alert bound, cleared at or below the   *)
(* backpressure bound.                                                     *)
(***************************************************************************)
\* Wrong on purpose: the alert is never cleared.
EvaluateHighWaterNeverClears(over, rows) == rows > AlertRows \/ over

EvaluateHighWater(over, rows) ==
    \/ rows > AlertRows
    \/ over /\ rows > HighWaterRows

(***************************************************************************)
(* runTransferWriter with the queue q of rows rows: if no drainer is       *)
(* suspended (stopped) and no rollback holds the writer (held), a drainer  *)
(* takes the whole queue and suspends in the write transaction.            *)
(***************************************************************************)
RunTransferWriter(q, rows, stopped, held) ==
    IF stopped /\ ~held /\ Queued(q) # {}
    THEN /\ pending' = NoQueue
         /\ pendingRows' = 0
         /\ drained' = q
         /\ wpc' = "write"
    ELSE /\ pending' = q
         /\ pendingRows' = rows
         /\ drained' = IF stopped THEN NoQueue ELSE drained
         /\ wpc' = IF stopped THEN "idle" ELSE wpc

(***************************************************************************)
(* The drainer's loop condition: another pass, or leave the loop, and then *)
(* re-evaluate the alert.                                                  *)
(***************************************************************************)
\* Wrong on purpose: the loop condition forgets the pause.
NextPassThroughPause ==
    /\ RunTransferWriter(pending, pendingRows, TRUE, FALSE)
    /\ overHighWater' = IF wpc' = "idle"
                        THEN EvaluateHighWater(overHighWater, pendingRows)
                        ELSE overHighWater

NextPass ==
    /\ RunTransferWriter(pending, pendingRows, TRUE, paused)
    /\ overHighWater' = IF wpc' = "idle"
                        THEN EvaluateHighWater(overHighWater, pendingRows)
                        ELSE overHighWater

-----------------------------------------------------------------------------
(***************************************************************************)
(* Calls made by the poll loop, the block workers and the gap healer.      *)
(***************************************************************************)

\* initTransferWriter at boot.  A seed other than the persisted watermark
\* (an empty database, FORCE_START_BLOCK) is taken on trust.
InitTransferWriter(seed) ==
    /\ ~up
    /\ up' = TRUE
    /\ durableBlock' = seed
    /\ excuse' = IF seed = persistedW THEN excuse ELSE Excuse(UpTo(seed), "seed")
    /\ UNCHANGED <<queueVars, overHighWater, written, target, paused, rphase,
                   fork, floorPersists, tt, persistedW, newest>>

\* getOrInitDurableBlock with a zero watermark: every block already in the
\* database is taken to have its transfers.
AdoptMaxIndexed(m) ==
    /\ ~up
    /\ persistedW = 0
    /\ persistedW' = m
    /\ excuse' = Excuse(UpTo(m), "seed")
    /\ UNCHANGED <<memoryVars, tt, newest>>

\* The row count once batch b replaces that of height n.
RowsOnTop(n, b)   == pendingRows + BatchRows(b)     \* wrong on purpose
RowsInstead(n, b) == pendingRows - BatchRows(pending[n]) + BatchRows(b)

EnqueueTransferWrite(n, d) ==
    /\ up
    /\ LET q    == [pending EXCEPT ![n] = d]
           rows == RowsInstead(n, d)
       IN /\ overHighWater' = EvaluateHighWater(overHighWater, rows)
          /\ RunTransferWriter(q, rows, wpc = "idle", paused)
    /\ newest' = [newest EXCEPT ![n] = d]
    /\ UNCHANGED <<up, written, durableBlock, target, paused, rphase, fork,
                   floorPersists, tt, persistedW, excuse>>

\* A queued decode outranks the quarantine of its height.
EnqueueQuarantinedBlock(n) ==
    /\ up
    /\ ~IsReal(pending[n])
    /\ LET q    == [pending EXCEPT ![n] = Quarantined]
           rows == RowsInstead(n, Quarantined)
       IN /\ overHighWater' = EvaluateHighWater(overHighWater, rows)
          /\ RunTransferWriter(q, rows, wpc = "idle", paused)
    /\ excuse' = Excuse({n}, "quarantine")
    /\ UNCHANGED <<up, written, durableBlock, target, paused, rphase, fork,
                   floorPersists, tt, persistedW, newest>>

\* The MAX_LAG skip abandons the heights up to b.  The persist is fired and
\* not awaited.
SetDurableFloor(b) ==
    /\ up
    /\ b > durableBlock
    /\ durableBlock' = b
    /\ written' = written \cap Above(b)
    /\ floorPersists' = floorPersists \cup {b}
    /\ excuse' = Excuse(UpTo(b) \cap Above(durableBlock), "skip")
    /\ UNCHANGED <<up, queueVars, overHighWater, target, paused, rphase, fork,
                   tt, persistedW, newest>>

FloorPersistSettles(b) ==
    /\ b \in floorPersists
    /\ floorPersists' = floorPersists \ {b}
    /\ persistedW' \in {persistedW, b}
    /\ UNCHANGED <<up, queueVars, overHighWater, written, durableBlock, target,
                   paused, rphase, fork, tt, excuse, newest>>

-----------------------------------------------------------------------------
(***************************************************************************)
(* The drainer.                                                            *)
(***************************************************************************)

\* The DELETE + INSERT transaction commits; a quarantined height is neither
\* deleted nor inserted.
WriteCommits ==
    /\ wpc = "write"
    /\ wpc' = "wrote"
    /\ tt' = [n \in Heights |-> IF IsReal(drained[n]) THEN drained[n] ELSE tt[n]]
    /\ excuse' = [n \in Heights |-> IF IsReal(drained[n]) THEN None ELSE excuse[n]]
    /\ UNCHANGED <<up, pending, pendingRows, drained, overHighWater, written,
                   durableBlock, target, paused, rphase, fork, floorPersists,
                   persistedW, newest>>

\* m is W after the fold of the heights in S.
\* Wrong on purpose: the fold jumps over holes.
FoldsToLargest(m, S) == m >= durableBlock /\ m \in S \cup {durableBlock}

FoldsTo(m, S) ==
    /\ m >= durableBlock
    /\ UpTo(m) \cap Above(durableBlock) \subseteq S
    /\ m + 1 \notin S

\* The write returns: the drained heights above W are written, and W may
\* move through their contiguous prefix once that is persisted.
WriteReturns ==
    /\ wpc = "wrote"
    /\ written' = written \cup (Queued(drained) \cap Above(durableBlock))
    /\ \E m \in 0..MaxHeight :
          /\ FoldsTo(m, written')
          /\ IF m > durableBlock
             THEN /\ target' = m
                  /\ wpc' = "persist"
                  /\ UNCHANGED <<pending, pendingRows, drained, overHighWater>>
             ELSE /\ UNCHANGED target
                  /\ NextPass
    /\ UNCHANGED <<up, durableBlock, paused, rphase, fork, floorPersists, tt,
                   persistedW, excuse, newest>>

PersistLands ==
    /\ wpc = "persist"
    /\ wpc' = "persisted"
    /\ persistedW' = target
    /\ UNCHANGED <<up, pending, pendingRows, drained, overHighWater, written,
                   durableBlock, target, paused, rphase, fork, floorPersists,
                   tt, excuse, newest>>

\* The persist returns: W moves to the watermark computed before the await.
PersistReturns ==
    /\ wpc = "persisted"
    /\ written' = written \ (UpTo(target) \cap Above(durableBlock))
    /\ durableBlock' = target
    /\ target' = 0
    /\ NextPass
    /\ UNCHANGED <<up, paused, rphase, fork, floorPersists, tt, persistedW,
                   excuse, newest>>

\* The queue after a failed pass: a newer batch of a height is kept.
\* Wrong on purpose: the failed batch is forgotten.
RequeuedNothing == pending

\* Wrong on purpose: the failed batch replaces the newer one.
RequeuedOverNewer == [n \in Heights |-> IF drained[n] # None THEN drained[n] ELSE pending[n]]

Requeued == [n \in Heights |-> IF pending[n] # None THEN pending[n] ELSE drained[n]]

\* A pass fails, whether or not its last database call took effect.
PassFails ==
    /\ wpc \in {"write", "wrote", "persist", "persisted"}
    /\ wpc' = "backoff"
    /\ pending' = Requeued
    /\ pendingRows' = pendingRows + RowsIn(drained, Heights \ Queued(pending))
    /\ overHighWater' = EvaluateHighWater(overHighWater, pendingRows')
    /\ drained' = NoQueue
    /\ target' = 0
    /\ UNCHANGED <<up, written, durableBlock, paused, rphase, fork,
                   floorPersists, tt, persistedW, excuse, newest>>

BackoffEnds ==
    /\ wpc = "backoff"
    /\ NextPass
    /\ UNCHANGED <<up, written, durableBlock, target, paused, rphase, fork,
                   floorPersists, tt, persistedW, excuse, newest>>

Drainer ==
    \/ WriteCommits \/ WriteReturns \/ PersistLands \/ PersistReturns
    \/ PassFails \/ BackoffEnds

-----------------------------------------------------------------------------
(***************************************************************************)
(* rollbackTransferWriterTo(f), then the token_transfers part of           *)
(* unwindFrom(f + 1), as recoverFromReorg calls them.                      *)
(***************************************************************************)

RollbackBegins(f) ==
    /\ up
    /\ rphase = "none"
    /\ rphase' = "quiesce"
    /\ fork' = f
    /\ paused' = TRUE
    /\ UNCHANGED <<up, queueVars, overHighWater, written, durableBlock, target,
                   floorPersists, tt, persistedW, excuse, newest>>

\* purgeTransferQueueAbove: the queue without the heights above the fork.
\* Wrong on purpose: an off-by-one keeps the first orphaned height.
PurgedAboveNext == [n \in Heights |-> IF n > fork + 1 THEN None ELSE pending[n]]

Purged == [n \in Heights |-> IF n > fork THEN None ELSE pending[n]]

Rewound == IF durableBlock > fork THEN fork ELSE durableBlock

\* No drainer is left: purge and rewind W in memory; without a rewind the
\* writer resumes at once, otherwise the rewound W is persisted first.
RollbackPurges ==
    /\ rphase = "quiesce"
    /\ wpc = "idle"
    /\ LET dropped == RowsIn(pending, Above(fork))
           rows    == pendingRows - dropped
           rewind  == durableBlock > fork
       IN /\ overHighWater' = IF dropped > 0
                              THEN EvaluateHighWater(overHighWater, rows)
                              ELSE overHighWater
          /\ durableBlock' = Rewound
          /\ rphase' = IF rewind THEN "persist" ELSE "unwind"
          /\ paused' = rewind
          /\ RunTransferWriter(Purged, rows, TRUE, rewind)
    /\ written' = written \cap UpTo(fork)
    /\ newest' = [n \in Heights |-> IF n > fork THEN None ELSE newest[n]]
    /\ UNCHANGED <<up, target, fork, floorPersists, tt, persistedW, excuse>>

\* The persist of the rewound W settles; its failure is logged, not fatal, and
\* leaves the heights that the persisted W covers above the fork to the unwind.
RollbackPersistSettles ==
    /\ rphase = "persist"
    /\ persistedW' \in {persistedW, fork}
    /\ excuse' = [n \in Heights |->
                    IF fork < n /\ n <= persistedW' THEN "unwind" ELSE excuse[n]]
    /\ rphase' = "unwind"
    /\ paused' = FALSE
    /\ RunTransferWriter(pending, pendingRows, TRUE, FALSE)
    /\ UNCHANGED <<up, overHighWater, written, durableBlock, target, fork,
                   floorPersists, tt, newest>>

\* Rows above the fork are deleted.  A persisted watermark, or one on its
\* way, that is still above the fork now covers heights without rows: the
\* rollback failed to rewind it, or never tried.
UnwindDeletes ==
    /\ rphase = "unwind"
    /\ tt' = [n \in Heights |-> IF n > fork THEN None ELSE tt[n]]
    /\ excuse' = [n \in Heights |->
                    IF n <= fork THEN excuse[n]
                    ELSE IF \A w \in floorPersists \cup {persistedW} : w < n
                         THEN None
                    ELSE IF excuse[n] = "unwind" THEN "unwind" ELSE "unseen"]
    /\ rphase' = "none"
    /\ fork' = 0
    /\ UNCHANGED <<up, queueVars, overHighWater, written, durableBlock, target,
                   paused, floorPersists, persistedW, newest>>

\* unwindFrom throws before it reaches token_transfers; the poll loop will
\* detect the reorg again.  Heights that keep their rows need no excuse.
UnwindThrows ==
    /\ rphase = "unwind"
    /\ excuse' = [n \in Heights |-> IF tt[n] # None THEN None ELSE excuse[n]]
    /\ rphase' = "none"
    /\ fork' = 0
    /\ UNCHANGED <<up, queueVars, overHighWater, written, durableBlock, target,
                   paused, floorPersists, tt, persistedW, newest>>

-----------------------------------------------------------------------------
\* The process dies: memory is lost, the database stays.
Crash ==
    /\ up
    /\ up' = FALSE
    /\ pending' = NoQueue
    /\ pendingRows' = 0
    /\ overHighWater' = FALSE
    /\ drained' = NoQueue
    /\ written' = {}
    /\ durableBlock' = 0
    /\ wpc' = "idle"
    /\ target' = 0
    /\ paused' = FALSE
    /\ rphase' = "none"
    /\ fork' = 0
    /\ floorPersists' = {}
    /\ newest' = NoQueue
    /\ UNCHANGED <<tt, persistedW, excuse>>

(***************************************************************************)
(* What the callers guarantee.  While a reorg is being recovered the poll  *)
(* loop awaits it and the gap healer only works far below the tip.  A      *)
(* height is quarantined only while its block row is absent, and the row   *)
(* is inserted before the decode is queued: no decode of it is in flight.  *)
(***************************************************************************)
MayIndex(n)      == rphase # "none" => n <= fork
MayQuarantine(n) == rphase = "none" /\ ~IsReal(drained[n])
MayRaiseFloor    == rphase = "none"

Next ==
    \/ \E seed \in 0..MaxHeight : InitTransferWriter(seed)
    \/ \E m \in Heights : AdoptMaxIndexed(m)
    \/ \E n \in Heights, d \in Decodes : MayIndex(n) /\ EnqueueTransferWrite(n, d)
    \/ \E n \in Heights : MayQuarantine(n) /\ EnqueueQuarantinedBlock(n)
    \/ \E b \in Heights : MayRaiseFloor /\ SetDurableFloor(b)
    \/ \E b \in 0..MaxHeight : FloorPersistSettles(b)
    \/ Drainer
    \/ \E f \in 0..MaxHeight : RollbackBegins(f)
    \/ RollbackPurges
    \/ RollbackPersistSettles
    \/ UnwindDeletes
    \/ UnwindThrows
    \/ Crash

Spec == Init /\ [][Next]_vars

(***************************************************************************)
(* Every database call settles and every timer fires, so a suspended       *)
(* drainer goes on, and a rollback that finds it at rest.  Nothing makes a *)
(* call succeed.                                                           *)
(***************************************************************************)
Fairness ==
    /\ WF_vars(Drainer)
    /\ WF_vars(RollbackPurges)

FairSpec == Spec /\ Fairness

-----------------------------------------------------------------------------
(***************************************************************************)
(* Properties.                                                             *)
(***************************************************************************)

Accounted(n) == tt[n] # None \/ excuse[n] # None

(***************************************************************************)
(* W means what block-processor.ts:952 says: every height at or below the  *)
(* in-memory watermark has its transfers committed.  The heights the code  *)
(* covers on trust have an excuse, given by the action that does so and    *)
(* gone with the first commit: a quarantine, a MAX_LAG skip, a seed, the   *)
(* failed rewind of a rollback, or an unwind below a persisted W that the  *)
(* rollback did not try to rewind.                                         *)
(***************************************************************************)
WatermarkCovered == \A n \in UpTo(durableBlock) : Accounted(n)

(***************************************************************************)
(* The same of the watermark a restart will read, in every state in which  *)
(* the process could die: in the middle of a pass, of a rollback, or with  *)
(* persists on their way (block-processor.ts:1351-1371, 1446-1552).        *)
(***************************************************************************)
PersistedCovered == \A n \in UpTo(persistedW) : Accounted(n)

(***************************************************************************)
(* The newest decode queued for a height is never dropped: it is queued,   *)
(* or in the drainer's batch, or in the database (requeue after a failed   *)
(* pass, block-processor.ts:1511-1522; "latest decode of a block wins").   *)
(***************************************************************************)
Kept(n) == IF IsReal(pending[n]) THEN pending[n]
           ELSE IF IsReal(drained[n]) THEN drained[n]
           ELSE tt[n]

NoDecodeLost == \A n \in Heights : newest[n] # None => newest[n] = Kept(n)

(***************************************************************************)
(* Between the rollback of the writer and the deletes of unwindFrom, there *)
(* is no way left for a height above the fork to be written or for W to be *)
(* above it (block-processor.ts:1337-1350).                                *)
(***************************************************************************)
NothingAboveFork ==
    rphase = "unwind" =>
        /\ durableBlock <= fork
        /\ Queued(pending) \cup Queued(drained) \cup written \subseteq UpTo(fork)
        /\ target <= fork

(***************************************************************************)
(* What backpressure and the alert go by is true                           *)
(* (block-processor.ts:1317-1444): the row counter is exactly the rows of  *)
(* the queue, through replacement, drain, requeue and purge, and with no   *)
(* drainer suspended the alert flag agrees with it; it neither sticks      *)
(* after a recovery nor misses a breach ("otherwise the flag desyncs").    *)
(***************************************************************************)
AlertInSync ==
    wpc = "idle" =>
        /\ pendingRows > AlertRows => overHighWater
        /\ pendingRows <= HighWaterRows => ~overHighWater
RowsAccounted == pendingRows = RowsIn(pending, Heights) /\ AlertInSync

(***************************************************************************)
(* The contract of block-processor.ts:943-957, as AsyncStore states it: a  *)
(* height that was enqueued is owed while a decode of it is queued or on   *)
(* its way into the database, kept once it is accounted for.  Requeues,    *)
(* redone passes, lost answers, rollbacks and deaths all take place within *)
(* the contract: nothing owed is dropped, nothing kept is lost but by the  *)
(* unwind, which has its ground cleared, and a watermark only ever moves   *)
(* to where everything is kept.                                            *)
(***************************************************************************)
Owed        == {n \in Heights : IsReal(pending[n]) \/ (wpc = "write" /\ IsReal(drained[n]))}
KeptHeights == {n \in Heights : Accounted(n)}

Contract == INSTANCE AsyncStore WITH
    running <- up,
    owed    <- Owed,
    kept    <- KeptHeights,
    mark    <- durableBlock,
    disk    <- persistedW

ContractKept == Contract!StoreSpec

(***************************************************************************)
(* A rollback that waits for the drainer gets its turn, although enqueues  *)
(* below the fork go on and the drainer would loop while the queue is not  *)
(* empty (block-processor.ts:1354, 1456).                                  *)
(***************************************************************************)
RollbackGetsItsTurn == rphase = "quiesce" ~> rphase # "quiesce"

-----------------------------------------------------------------------------
(***************************************************************************)
(* The inductive invariant: what every stage of the writer may rely on.    *)
(***************************************************************************)
Covered(w) == \A n \in UpTo(w) : Accounted(n)

\* A height is safe before anything that can move a watermark holds it.
WrittenCovered     == \A n \in written : Accounted(n)
QuarantinesCovered == \A n \in Heights :
                         pending[n] = Quarantined \/ drained[n] = Quarantined => Accounted(n)
BatchCovered       == wpc = "wrote" => \A n \in Queued(drained) : Accounted(n)
TargetCovered      == wpc \in {"persist", "persisted"} => Covered(target)
FloorsCovered      == \A b \in floorPersists : Covered(b)

\* From its purge on, a rollback has the writer below the fork.
BelowFork ==
    rphase \in {"persist", "unwind"} =>
        /\ durableBlock <= fork
        /\ Queued(pending) \cup Queued(drained) \cup written \subseteq UpTo(fork)
        /\ target <= fork

\* How the program counters and the data agree.
Phases ==
    /\ ~up => rphase = "none"
    /\ wpc \notin {"persist", "persisted"} => target = 0
    /\ rphase = "persist" => wpc = "idle" /\ paused /\ durableBlock = fork

IInv ==
    /\ TypeOK
    /\ WatermarkCovered /\ PersistedCovered
    /\ WrittenCovered /\ QuarantinesCovered /\ BatchCovered /\ TargetCovered
    /\ FloorsCovered
    /\ BelowFork /\ Phases

\* What NoDecodeLost needs besides: a decode leaves the batch only after its
\* commit or back into the queue, a quarantine never waits behind a decode in
\* the batch, and a rollback forgets the decodes above the fork.
EmptyBatch       == wpc \in {"idle", "backoff"} => drained = NoQueue
BatchCommitted   == wpc \in {"wrote", "persist", "persisted"} =>
                       \A n \in Heights : IsReal(drained[n]) => tt[n] = drained[n]
QuarantineYields == \A n \in Heights : pending[n] = Quarantined => ~IsReal(drained[n])
ForkForgotten    == rphase \in {"persist", "unwind"} => \A n \in Above(fork) : newest[n] = None

DecodeInv ==
    NoDecodeLost /\ EmptyBatch /\ BatchCommitted /\ QuarantineYields /\ ForkForgotten

\* What the contract needs besides: a dead process holds and does nothing.
DeadIsEmpty ==
    ~up => pending = NoQueue /\ wpc = "idle" /\ floorPersists = {} /\ durableBlock = 0

ContractInv == IInv /\ DecodeInv /\ DeadIsEmpty
=============================================================================
