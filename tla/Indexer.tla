------------------------------ MODULE Indexer ------------------------------
(***************************************************************************)
(* The live indexer of one chain (apps/indexer/src/index.ts) composed with *)
(* its asynchronous transfer writer (module TransferWriter): boot and      *)
(* resume, the poll loop, the MAX_LAG skip, the batch worker pool, block   *)
(* processing, reorg detection and recovery, and the quarantine of blocks  *)
(* that no endpoint can serve.                                             *)
(*                                                                         *)
(* A block is its height and the epoch in which the chain produced it: a   *)
(* reorg at f gives every height above f a new epoch, and the parent hash  *)
(* of the block at n + 1 is the epoch of the block at n.  The decode of a  *)
(* block is its epoch.                                                     *)
(*                                                                         *)
(* Abstracted: transactions, logs and trades follow the block row; the     *)
(* reads of one reorg check come from one pinned endpoint and are taken at *)
(* one instant.                                                            *)
(***************************************************************************)
EXTENDS Integers, FiniteSets

CONSTANTS
    MaxHeight,          \* bound: the highest block of the model
    MaxEpoch,           \* bound: the number of reorgs
    MaxCrashes,         \* bound: the number of process deaths
    MaxFaults,          \* bound: the number of failed calls
    InitialHeight,      \* blocks 1..InitialHeight are indexed and durable at first
    FinalHeight,        \* bound: no reorg replaces a block at or below it
    BatchSize,          \* INDEXER_BATCH_SIZE
    Concurrency,        \* worker pool size
    MaxLag,             \* MAX_LAG_BLOCKS
    SkipMargin,         \* the 200 of `latest - 200`
    ReorgDepth,         \* K, the bound of the fork walk
    ResumeGapScan,      \* RESUME_GAP_SCAN_BLOCKS
    QuarantineAfter,    \* clean failures before a block is stepped over
    BadBlocks,          \* heights that no endpoint serves
    Quarantined,
    None,
    HighWaterRows,
    HighWaterBlocks,
    AlertRows

ASSUME BoundsAssumption ==
    /\ MaxHeight \in Nat /\ MaxEpoch \in Nat
    /\ InitialHeight \in 0..MaxHeight /\ FinalHeight \in 0..MaxHeight
    /\ BatchSize \in Nat \ {0} /\ Concurrency \in Nat \ {0}
    /\ SkipMargin \in Nat /\ MaxLag \in Nat /\ SkipMargin < MaxLag
    /\ ReorgDepth \in Nat /\ ResumeGapScan \in Nat
    /\ ReorgDepth < ResumeGapScan
    /\ QuarantineAfter \in Nat \ {0}
    /\ MaxCrashes \in Nat /\ MaxFaults \in Nat
    /\ HighWaterRows \in Nat /\ HighWaterBlocks \in Nat /\ AlertRows \in Nat
    /\ HighWaterRows <= AlertRows

Epochs == 0..MaxEpoch

ASSUME MarkersAssumption ==
    /\ Quarantined \notin Epochs
    /\ None \notin Epochs
    /\ None \notin {"quarantine", "skip", "seed", "unwind", "unseen"}
    /\ Quarantined # None

RowsOf == [e \in Epochs |-> 1]

VARIABLES
    \* the transfer writer, see TransferWriter
    up, pending, pendingRows, overHighWater, drained, written, durableBlock,
    wpc, target, paused, rphase, fork, floorPersists, tt, persistedW, excuse,
    newest,
    \* the chain as the RPC endpoints serve it
    chain,          \* height -> epoch of its canonical block
    tip,            \* the highest block
    \* the database
    blocks,         \* height -> epoch of the stored block row
    gaps,           \* heights covered by an index_gaps row
    poison,         \* heights in poison_blocks
    forgotten,      \* history: heights an unwind deleted under a cursor it left
    \* the poll loop
    pc,             \* where the poll loop is suspended
    lastIndexed,
    backfillUntil,  \* resumeGapBackfillUntil, 0 for null
    latest,         \* the tip read in this iteration
    forkPoint,      \* of the reorg being recovered
    status,         \* height -> state of its block in the current batch
    fetched,        \* height -> epoch a worker fetched
    parked,         \* the number of workers parked on backpressure
    cleanFailures,  \* PoisonBlockTracker: consecutive clean failures
    \* bounds
    crashes, faults

W == INSTANCE TransferWriter WITH Decodes <- Epochs

writerMemory == <<up, pending, pendingRows, overHighWater, drained, written,
                  durableBlock, wpc, target, paused, rphase, fork,
                  floorPersists>>
writerVars == <<writerMemory, tt, persistedW, excuse, newest>>
chainVars  == <<chain, tip>>
dbVars     == <<blocks, gaps, poison, forgotten>>
batchVars  == <<status, fetched, parked>>
loopVars   == <<pc, lastIndexed, backfillUntil, latest, forkPoint, batchVars,
                cleanFailures>>
bounds     == <<crashes, faults>>
vars       == <<writerVars, chainVars, dbVars, loopVars, bounds>>

Heights == 1..MaxHeight
NoBatch == [n \in Heights |-> "none"]
Nothing == [n \in Heights |-> None]
Zero    == [n \in Heights |-> 0]

Stored   == {n \in Heights : blocks[n] # None}
MaxOf(S) == CHOOSE n \in S : \A m \in S : m <= n
MinOf(S) == CHOOSE n \in S : \A m \in S : n <= m
Larger(a, b)  == IF a > b THEN a ELSE b
Smaller(a, b) == IF a < b THEN a ELSE b

TypeOK ==
    /\ W!TypeOK
    /\ chain \in [Heights -> Epochs]
    /\ tip \in 0..MaxHeight
    /\ blocks \in [Heights -> Epochs \cup {None}]
    /\ gaps \subseteq Heights
    /\ poison \subseteq Heights
    /\ forgotten \subseteq Heights
    /\ pc \in {"down", "top", "check", "batch", "quarantine", "recover",
               "unwindRows", "unwindBlocks"}
    /\ lastIndexed \in 0..MaxHeight
    /\ backfillUntil \in 0..MaxHeight
    /\ latest \in 0..MaxHeight
    /\ forkPoint \in 0..MaxHeight
    /\ status \in [Heights -> {"none", "todo", "claimed", "fetched",
                             "inserted", "done", "failed"}]
    /\ fetched \in [Heights -> Epochs \cup {None}]
    /\ parked \in 0..Concurrency
    /\ cleanFailures \in [Heights -> 0..QuarantineAfter]
    /\ crashes \in 0..MaxCrashes
    /\ faults \in 0..MaxFaults

\* A process about to boot on a database that is complete up to InitialHeight.
Init ==
    /\ up = FALSE
    /\ pending = Nothing /\ pendingRows = 0 /\ overHighWater = FALSE
    /\ drained = Nothing /\ written = {} /\ durableBlock = 0
    /\ wpc = "idle" /\ target = 0 /\ paused = FALSE
    /\ rphase = "none" /\ fork = 0 /\ floorPersists = {}
    /\ tt = [n \in Heights |-> IF n <= InitialHeight THEN 0 ELSE None]
    /\ persistedW = InitialHeight
    /\ excuse = Nothing /\ newest = Nothing
    /\ chain = Zero
    /\ tip = InitialHeight
    /\ blocks = tt
    /\ gaps = {} /\ poison = {} /\ forgotten = {}
    /\ pc = "down"
    /\ lastIndexed = 0 /\ backfillUntil = 0 /\ latest = 0 /\ forkPoint = 0
    /\ status = NoBatch /\ fetched = Nothing /\ parked = 0
    /\ cleanFailures = Zero
    /\ crashes = 0 /\ faults = 0

\* A call fails.
Fault   == faults < MaxFaults /\ faults' = faults + 1 /\ UNCHANGED crashes
NoFault == UNCHANGED bounds

-----------------------------------------------------------------------------
(***************************************************************************)
(* The chain.  A reorg replaces every block above f, at most K deep.       *)
(***************************************************************************)
ChainGrows ==
    /\ tip < MaxHeight
    /\ tip' = tip + 1
    /\ UNCHANGED <<writerVars, chain, dbVars, loopVars, bounds>>

ChainReorgs(f) ==
    /\ f >= tip - ReorgDepth /\ f >= FinalHeight /\ f < tip
    /\ chain[MaxHeight] < MaxEpoch
    /\ chain' = [n \in Heights |-> IF n > f THEN chain[MaxHeight] + 1 ELSE chain[n]]
    /\ UNCHANGED <<writerVars, tip, dbVars, loopVars, bounds>>

-----------------------------------------------------------------------------
(***************************************************************************)
(* Boot: getResumeCursor and getOrInitDurableBlock.  The start block is 1. *)
(***************************************************************************)
MaxIndexed == IF Stored = {} THEN 0 ELSE MaxOf(Stored)

\* The gap scan of the recent window, without the quarantined heights.
Missing == {n \in Larger(1, MaxIndexed - ResumeGapScan)..MaxIndexed :
                blocks[n] = None /\ n \notin poison}

ResumeBase  == IF Missing # {} THEN MinOf(Missing) - 1 ELSE MaxIndexed
SeedW       == IF Stored = {} THEN 0
               ELSE IF persistedW > 0 THEN persistedW ELSE MaxIndexed
\* Wrong on purpose: the resume point trusts the block rows alone.
ResumeIgnoringW == ResumeBase
ResumePoint     == Smaller(ResumeBase, SeedW)

BootAdoptsMaxIndexed ==
    /\ pc = "down"
    /\ Stored # {}
    /\ W!AdoptMaxIndexed(MaxIndexed)
    /\ UNCHANGED <<chainVars, dbVars, loopVars, bounds>>

Boot ==
    /\ pc = "down"
    /\ Stored = {} \/ persistedW > 0
    /\ W!InitTransferWriter(SeedW)
    /\ pc' = "top"
    /\ lastIndexed' = ResumePoint
    /\ backfillUntil' = IF ResumePoint < MaxIndexed THEN MaxIndexed ELSE 0
    /\ forgotten' = {n \in forgotten : n <= ResumeBase}
    /\ UNCHANGED <<chainVars, blocks, gaps, poison, latest, forkPoint,
                   batchVars, cleanFailures, bounds>>

Crash ==
    /\ crashes < MaxCrashes
    /\ W!Crash
    /\ pc' = "down"
    /\ lastIndexed' = 0 /\ backfillUntil' = 0 /\ latest' = 0 /\ forkPoint' = 0
    /\ status' = NoBatch /\ fetched' = Nothing /\ parked' = 0
    /\ cleanFailures' = Zero
    /\ crashes' = crashes + 1
    /\ UNCHANGED <<chainVars, dbVars, faults>>

-----------------------------------------------------------------------------
(***************************************************************************)
(* The head of an iteration: the tip, the MAX_LAG skip, the reorg check.   *)
(***************************************************************************)

\* detectReorg: boundary mode when the chain has lastIndexed + 1, tip mode
\* when it ends at lastIndexed; an absent row validates nothing.
Reorged ==
    /\ lastIndexed > 1
    /\ blocks[lastIndexed] # None
    /\ tip >= lastIndexed
    /\ chain[lastIndexed] # blocks[lastIndexed]

\* findForkPoint: the last agreement, at most K below lastIndexed.
\* Wrong on purpose: the walk stops at the first stored row.
ForkPointWithoutHash ==
    LET floor == Larger(0, lastIndexed - ReorgDepth)
        kept  == {n \in Stored : n \in floor..lastIndexed /\ n <= tip}
    IN IF kept = {} THEN floor ELSE MaxOf(kept)

ForkPoint ==
    LET floor  == Larger(0, lastIndexed - ReorgDepth)
        agreed == {n \in Stored : n \in floor..lastIndexed /\ n <= tip
                                  /\ chain[n] = blocks[n]}
    IN IF agreed = {} THEN floor ELSE MaxOf(agreed)

RecoverFromReorg ==
    /\ Reorged
    /\ W!RollbackBegins(ForkPoint)
    /\ forkPoint' = ForkPoint
    /\ pc' = "recover"

IdleReorgCheck ==
    /\ pc = "top"
    /\ tip <= lastIndexed
    /\ RecoverFromReorg
    /\ UNCHANGED <<chainVars, dbVars, lastIndexed, backfillUntil, latest,
                   batchVars, cleanFailures, bounds>>

\* Nothing new: sleep and poll again.
CaughtUp ==
    /\ pc = "top"
    /\ tip <= lastIndexed
    /\ UNCHANGED vars

BackfillLeft == IF lastIndexed >= backfillUntil THEN 0 ELSE backfillUntil
MustSkip     == BackfillLeft = 0 /\ tip - lastIndexed > MaxLag
SkipTo       == tip - SkipMargin
\* Wrong on purpose: the last abandoned height is not recorded.
SkippedRangeOpen == (lastIndexed + 1)..(SkipTo - 1)
SkippedRange     == (lastIndexed + 1)..SkipTo

ReadTip ==
    /\ pc = "top"
    /\ tip > lastIndexed
    /\ latest' = tip
    /\ backfillUntil' = BackfillLeft

Iterate ==
    /\ ReadTip
    /\ ~MustSkip
    /\ pc' = "check"
    /\ UNCHANGED <<writerVars, chainVars, dbVars, lastIndexed, forkPoint,
                   batchVars, cleanFailures, bounds>>

\* The abandoned range is recorded, then the cursor and W jump over it.
MaxLagSkip ==
    /\ ReadTip
    /\ MustSkip
    /\ gaps' = gaps \cup SkippedRange
    /\ lastIndexed' = SkipTo
    /\ IF SkipTo > durableBlock THEN W!SetDurableFloor(SkipTo)
                                ELSE UNCHANGED writerVars
    /\ pc' = "check"
    /\ UNCHANGED <<chainVars, blocks, poison, forgotten, forkPoint,
                   batchVars, cleanFailures, bounds>>

\* The range could not be recorded, or the answer was lost: no skip.
MaxLagSkipFails ==
    /\ ReadTip
    /\ MustSkip
    /\ gaps' \in {gaps, gaps \cup SkippedRange}
    /\ Fault
    /\ UNCHANGED <<writerVars, chainVars, blocks, poison, forgotten, pc,
                   lastIndexed, forkPoint, batchVars, cleanFailures>>

\* Wrong on purpose: recovery starts under running workers.
BoundaryReorgCheckInBatch ==
    /\ pc \in {"check", "batch"}
    /\ RecoverFromReorg
    /\ UNCHANGED <<chainVars, dbVars, lastIndexed, backfillUntil, latest,
                   batchVars, cleanFailures, bounds>>

BoundaryReorgCheck ==
    /\ pc = "check"
    /\ RecoverFromReorg
    /\ UNCHANGED <<chainVars, dbVars, lastIndexed, backfillUntil, latest,
                   batchVars, cleanFailures, bounds>>

ReorgCheckThrows ==
    /\ pc = "check"
    /\ pc' = "top"
    /\ Fault
    /\ UNCHANGED <<writerVars, chainVars, dbVars, lastIndexed, backfillUntil,
                   latest, forkPoint, batchVars, cleanFailures>>

-----------------------------------------------------------------------------
(***************************************************************************)
(* recoverFromReorg: the writer is rolled back, then unwindFrom deletes,   *)
(* poison rows first and block rows last, then the cursor moves back.      *)
(***************************************************************************)
RollbackPersistSettles ==
    /\ W!RollbackPersistSettles
    /\ IF persistedW' = fork THEN NoFault ELSE Fault
    /\ UNCHANGED <<chainVars, dbVars, loopVars>>

UnwindPoison ==
    /\ pc = "recover"
    /\ rphase = "unwind"
    /\ poison' = {n \in poison : n <= forkPoint}
    /\ pc' = "unwindRows"
    /\ UNCHANGED <<writerVars, chainVars, blocks, gaps, forgotten, lastIndexed,
                   backfillUntil, latest, forkPoint, batchVars, cleanFailures,
                   bounds>>

UnwindRows ==
    /\ pc = "unwindRows"
    /\ W!UnwindDeletes
    /\ pc' = "unwindBlocks"
    /\ UNCHANGED <<chainVars, dbVars, lastIndexed, backfillUntil, latest,
                   forkPoint, batchVars, cleanFailures, bounds>>

\* The block rows without those above the fork.
Unwound == [n \in Heights |-> IF n > forkPoint THEN None ELSE blocks[n]]

UnwindBlocks ==
    /\ pc = "unwindBlocks"
    /\ blocks' = Unwound
    /\ forgotten' = {n \in forgotten : n <= forkPoint}
    /\ lastIndexed' = forkPoint
    /\ cleanFailures' = [n \in Heights |-> IF n > forkPoint THEN 0 ELSE cleanFailures[n]]
    /\ pc' = "top"
    /\ UNCHANGED <<writerVars, chainVars, gaps, poison, backfillUntil, latest,
                   forkPoint, batchVars, bounds>>

\* The last delete commits and its answer is lost: the throw leaves the cursor
\* above heights whose rows are gone.  The next check finds no hash of the
\* block under the cursor, which validates nothing, and reports no reorg.
UnwindUnanswered ==
    /\ pc = "unwindBlocks"
    /\ blocks' = Unwound
    /\ forgotten' = forgotten \cup (forkPoint + 1)..lastIndexed
    /\ pc' = "top"
    /\ Fault
    /\ UNCHANGED <<writerVars, chainVars, gaps, poison, lastIndexed,
                   backfillUntil, latest, forkPoint, batchVars, cleanFailures>>

\* A call fails and what it was to delete stays.
UnwindThrows ==
    /\ \/ pc \in {"recover", "unwindRows"} /\ W!UnwindThrows
       \/ pc = "unwindBlocks" /\ UNCHANGED writerVars
    /\ pc' = "top"
    /\ Fault
    /\ UNCHANGED <<chainVars, dbVars, lastIndexed, backfillUntil, latest,
                   forkPoint, batchVars, cleanFailures>>

-----------------------------------------------------------------------------
(***************************************************************************)
(* The batch.  Workers claim the next block while nothing has failed and   *)
(* the writer's queue is within its bounds, fetch it, insert its row and   *)
(* queue its decode.  A worker that finds the queue over its bounds parks; *)
(* a failure wakes it too, and it claims without asking again.             *)
(***************************************************************************)
InState(s) == {n \in Heights : status[n] = s}
Todo       == InState("todo")
InFlight   == InState("claimed") \cup InState("fetched") \cup InState("inserted")
Failure    == InState("failed") # {}
Throttled  == \/ pendingRows > HighWaterRows
              \/ Cardinality({n \in Heights : pending[n] # None}) > HighWaterBlocks

StartBatch ==
    /\ pc = "check"
    /\ ~Reorged
    /\ LET to == Smaller(lastIndexed + BatchSize, latest)
       IN status' = [n \in Heights |-> IF n \in (lastIndexed + 1)..to THEN "todo" ELSE "none"]
    /\ pc' = "batch"
    /\ UNCHANGED <<writerVars, chainVars, dbVars, lastIndexed, backfillUntil,
                   latest, forkPoint, fetched, parked, cleanFailures, bounds>>

\* Some worker is neither at a block nor parked; some parked worker may go on.
Idle  == Cardinality(InFlight) + parked < Concurrency
Awake == parked > 0 /\ (Failure \/ ~Throttled)

Park ==
    /\ pc = "batch"
    /\ Idle /\ ~Failure /\ Throttled
    /\ parked' = parked + 1
    /\ UNCHANGED <<writerVars, chainVars, dbVars, pc, lastIndexed,
                   backfillUntil, latest, forkPoint, status, fetched,
                   cleanFailures, bounds>>

\* claimNext, in the order of heights.
Claim(n) ==
    /\ pc = "batch"
    /\ n \in Todo /\ \A m \in Todo : n <= m
    /\ \/ Idle /\ ~Failure /\ ~Throttled /\ UNCHANGED parked
       \/ Awake /\ parked' = parked - 1
    /\ status' = [status EXCEPT ![n] = "claimed"]
    /\ UNCHANGED <<writerVars, chainVars, dbVars, pc, lastIndexed,
                   backfillUntil, latest, forkPoint, fetched, cleanFailures,
                   bounds>>

\* Nothing is left for a parked worker.
ParkedReturns ==
    /\ pc = "batch"
    /\ Todo = {}
    /\ Awake
    /\ parked' = parked - 1
    /\ UNCHANGED <<writerVars, chainVars, dbVars, pc, lastIndexed,
                   backfillUntil, latest, forkPoint, status, fetched,
                   cleanFailures, bounds>>

Fetch(n) ==
    /\ status[n] = "claimed"
    /\ n \notin BadBlocks
    /\ status' = [status EXCEPT ![n] = "fetched"]
    /\ fetched' = [fetched EXCEPT ![n] = chain[n]]
    /\ UNCHANGED <<writerVars, chainVars, dbVars, pc, lastIndexed, parked,
                   backfillUntil, latest, forkPoint, cleanFailures, bounds>>

\* Every endpoint failed before anything was written.
FailsClean(n) ==
    /\ status[n] = "claimed"
    /\ IF n \in BadBlocks THEN NoFault ELSE Fault
    /\ status' = [status EXCEPT ![n] = "failed"]
    /\ cleanFailures' = [cleanFailures EXCEPT ![n] = Smaller(@ + 1, QuarantineAfter)]
    /\ UNCHANGED <<writerVars, chainVars, dbVars, pc, lastIndexed, parked,
                   backfillUntil, latest, forkPoint, fetched>>

\* The row of an already stored height is kept (onConflictDoNothing).
WithRow(n) == [blocks EXCEPT ![n] = IF @ = None THEN fetched[n] ELSE @]

InsertBlock(n) ==
    /\ status[n] = "fetched"
    /\ status' = [status EXCEPT ![n] = "inserted"]
    /\ blocks' = WithRow(n)
    /\ forgotten' = forgotten \ {n}
    /\ UNCHANGED <<writerVars, chainVars, gaps, poison, pc, lastIndexed,
                   backfillUntil, latest, forkPoint, fetched, parked,
                   cleanFailures, bounds>>

\* A write failed: the block may be half written.
FailsDirty(n) ==
    /\ status[n] \in {"fetched", "inserted"}
    /\ Fault
    /\ blocks' \in {blocks, WithRow(n)}
    /\ forgotten' = {m \in forgotten : blocks'[m] = None}
    /\ status' = [status EXCEPT ![n] = "failed"]
    /\ fetched' = [fetched EXCEPT ![n] = None]
    /\ cleanFailures' = [cleanFailures EXCEPT ![n] = 0]
    /\ UNCHANGED <<writerVars, chainVars, gaps, poison, pc, lastIndexed,
                   parked, backfillUntil, latest, forkPoint>>

\* advanceLastIndexed: through the consecutive done blocks.
\* Wrong on purpose: the cursor stops one past the prefix.
AdvancedOnePast(done) ==
    MaxOf({m \in 0..MaxHeight : m >= lastIndexed /\ (lastIndexed + 1)..m \subseteq done}) + 1

Advanced(done) ==
    MaxOf({m \in 0..MaxHeight : m >= lastIndexed /\ (lastIndexed + 1)..m \subseteq done})

FinishBlock(n) ==
    /\ status[n] = "inserted"
    /\ W!EnqueueTransferWrite(n, fetched[n])
    /\ status' = [status EXCEPT ![n] = "done"]
    /\ fetched' = [fetched EXCEPT ![n] = None]
    /\ lastIndexed' = Advanced(InState("done") \cup {n})
    /\ cleanFailures' = [cleanFailures EXCEPT ![n] = 0]
    /\ UNCHANGED <<chainVars, dbVars, pc, backfillUntil, latest, forkPoint,
                   parked, bounds>>

BatchOver == pc = "batch" /\ InFlight = {} /\ parked = 0 /\ (Todo = {} \/ Failure)

\* shouldQuarantine, and during a resume backfill only a recorded block.
Blocker == lastIndexed + 1
MayQuarantine ==
    /\ Failure
    /\ Blocker \in Heights
    /\ cleanFailures[Blocker] >= QuarantineAfter
    /\ backfillUntil = 0 \/ Blocker \in poison

\* The counts of the heights the cursor has passed are pruned.
\* Wrong on purpose: every count is dropped at the end of a batch.
PrunedEachPass(counts, cursor) == Zero

Pruned(counts, cursor) == [n \in Heights |-> IF n <= cursor THEN 0 ELSE counts[n]]

EndBatch ==
    /\ BatchOver
    /\ ~MayQuarantine
    /\ pc' = "top"
    /\ status' = NoBatch
    /\ cleanFailures' = Pruned(cleanFailures, lastIndexed)
    /\ UNCHANGED <<writerVars, chainVars, dbVars, lastIndexed, backfillUntil,
                   latest, forkPoint, fetched, parked, bounds>>

\* recordPoisonGapIfAbsent: one statement tests absence and records.
QuarantineRecorded ==
    /\ BatchOver
    /\ MayQuarantine
    /\ blocks[Blocker] = None
    /\ gaps' = gaps \cup {Blocker}
    /\ poison' = poison \cup {Blocker}
    /\ pc' = "quarantine"
    /\ UNCHANGED <<writerVars, chainVars, blocks, forgotten, lastIndexed,
                   backfillUntil, latest, forkPoint, batchVars, cleanFailures,
                   bounds>>

\* The row is there: the block is half written and is retried.
QuarantineRefused ==
    /\ BatchOver
    /\ MayQuarantine
    /\ blocks[Blocker] # None
    /\ pc' = "top"
    /\ status' = NoBatch
    /\ cleanFailures' = [Pruned(cleanFailures, lastIndexed) EXCEPT ![Blocker] = 0]
    /\ UNCHANGED <<writerVars, chainVars, dbVars, lastIndexed, backfillUntil,
                   latest, forkPoint, fetched, parked, bounds>>

QuarantineFails ==
    /\ BatchOver
    /\ MayQuarantine
    /\ Fault
    /\ \/ UNCHANGED dbVars
       \/ /\ blocks[Blocker] = None
          /\ gaps' = gaps \cup {Blocker}
          /\ poison' = poison \cup {Blocker}
          /\ UNCHANGED <<blocks, forgotten>>
    /\ pc' = "top"
    /\ status' = NoBatch
    /\ cleanFailures' = Pruned(cleanFailures, lastIndexed)
    /\ UNCHANGED <<writerVars, chainVars, lastIndexed, backfillUntil, latest,
                   forkPoint, fetched, parked>>

\* Wrong on purpose: the step over raises the watermark floor.
StepOverWithFloor ==
    /\ pc = "quarantine"
    /\ lastIndexed' = Blocker
    /\ IF Blocker > durableBlock THEN W!SetDurableFloor(Blocker)
                                 ELSE UNCHANGED writerVars
    /\ pc' = "top"
    /\ status' = NoBatch
    /\ cleanFailures' = Pruned(cleanFailures, Blocker)
    /\ UNCHANGED <<chainVars, dbVars, backfillUntil, latest, forkPoint,
                   fetched, parked, bounds>>

StepOverBlocker ==
    /\ pc = "quarantine"
    /\ lastIndexed' = Blocker
    /\ W!EnqueueQuarantinedBlock(Blocker)
    /\ pc' = "top"
    /\ status' = NoBatch
    /\ cleanFailures' = Pruned(cleanFailures, Blocker)
    /\ UNCHANGED <<chainVars, dbVars, backfillUntil, latest, forkPoint,
                   fetched, parked, bounds>>

-----------------------------------------------------------------------------
(***************************************************************************)
(* The writer's own steps, while the loop is anywhere.                     *)
(***************************************************************************)
WriterProceeds ==
    /\ \/ W!WriteCommits \/ W!WriteReturns \/ W!PersistLands
       \/ W!PersistReturns \/ W!BackoffEnds \/ W!RollbackPurges
    /\ UNCHANGED <<chainVars, dbVars, loopVars, bounds>>

WriterPassFails ==
    /\ W!PassFails
    /\ Fault
    /\ UNCHANGED <<chainVars, dbVars, loopVars>>

FloorPersistSettles(b) ==
    /\ W!FloorPersistSettles(b)
    /\ IF persistedW' = b THEN NoFault ELSE Fault
    /\ UNCHANGED <<chainVars, dbVars, loopVars>>

HeadOfIteration ==
    \/ IdleReorgCheck \/ CaughtUp \/ Iterate \/ MaxLagSkip \/ MaxLagSkipFails
    \/ BoundaryReorgCheck \/ ReorgCheckThrows
Recovery ==
    \/ RollbackPersistSettles
    \/ UnwindPoison \/ UnwindRows \/ UnwindBlocks
    \/ UnwindUnanswered \/ UnwindThrows
Batch ==
    \/ StartBatch \/ Park \/ ParkedReturns
    \/ \E n \in Heights : Claim(n) \/ Fetch(n) \/ FailsClean(n)
    \/ \E n \in Heights : InsertBlock(n) \/ FailsDirty(n) \/ FinishBlock(n)
    \/ EndBatch
Quarantine ==
    QuarantineRecorded \/ QuarantineRefused \/ QuarantineFails \/ StepOverBlocker

Next ==
    \/ ChainGrows
    \/ \E f \in 0..MaxHeight : ChainReorgs(f)
    \/ BootAdoptsMaxIndexed \/ Boot \/ Crash
    \/ HeadOfIteration \/ Recovery \/ Batch \/ Quarantine
    \/ WriterProceeds \/ WriterPassFails
    \/ \E b \in 0..MaxHeight : FloorPersistSettles(b)

Spec == Init /\ [][Next]_vars

(***************************************************************************)
(* The chain goes on, the platform restarts a dead process, the poll loop  *)
(* and its workers run, and every call of the writer settles.  Calls fail  *)
(* and processes die at most MaxFaults and MaxCrashes times.               *)
(***************************************************************************)
Fairness ==
    /\ WF_vars(ChainGrows)
    /\ WF_vars(BootAdoptsMaxIndexed \/ Boot)
    /\ WF_vars(HeadOfIteration \/ Recovery \/ Batch \/ Quarantine)
    /\ WF_vars(WriterProceeds)

FairSpec == Spec /\ Fairness

-----------------------------------------------------------------------------
(***************************************************************************)
(* Properties.                                                             *)
(***************************************************************************)

(***************************************************************************)
(* Whenever the process dies, the next boot replays every height that is   *)
(* not finished: a height at or below the resume point is stored with its  *)
(* transfers, or recorded in index_gaps (index.ts:832-915 with             *)
(* block-processor.ts:944-956, "we must NOT lose the queue on crash").     *)
(* The exceptions are unwinds under a persisted watermark: one whose       *)
(* rewind failed, which the code documents (block-processor.ts:1346-1349), *)
(* and one that the rollback did not try to rewind, because W in memory    *)
(* was at or below the fork when the persist had landed unseen             *)
(* (OnlyFailedRewindLoses).  Those may also cover heights that an unwind   *)
(* deleted and forgot (TailReprocessed).                                   *)
(***************************************************************************)
UnwoundBelowW(n) == excuse[n] \in {"unwind", "unseen"}

NoSilentLoss ==
    \A n \in 1..ResumePoint :
        IF blocks[n] = None THEN n \in gaps \/ (n \in forgotten /\ UnwoundBelowW(n))
        ELSE tt[n] # None \/ UnwoundBelowW(n)

(***************************************************************************)
(* Only a crash after a failed rewind loses the transfers of a block of    *)
(* the chain that was stored after a reorg (block-processor.ts:1345-1349,  *)
(* "So W must be rewound and persisted", "only a crash inside that window  *)
(* is exposed").                                                           *)
(***************************************************************************)
OnlyFailedRewindLoses ==
    \A n \in 1..ResumePoint :
        blocks[n] = chain[n] => tt[n] # None \/ excuse[n] = "unwind"

(***************************************************************************)
(* The running cursor never stands above a height that is neither stored   *)
(* nor recorded as a gap, whatever skips, quarantines, failed batches and  *)
(* reorgs it went through (index.ts:508-816), but for the heights that an  *)
(* unwind deleted without learning that it did (TailReprocessed).          *)
(***************************************************************************)
AccountedFor(n) == blocks[n] # None \/ n \in gaps \/ n \in forgotten

CursorAccounted == up => \A n \in 1..lastIndexed : AccountedFor(n)

(***************************************************************************)
(* An unwind that fails leaves what it takes to detect the reorg again, so *)
(* the cursor never stands above rows that it deleted                      *)
(* (reorg-handler.ts:209-219: otherwise "the deleted canonical tail would  *)
(* go unreprocessed until a restart").                                     *)
(***************************************************************************)
TailReprocessed == up => \A n \in 1..lastIndexed : blocks[n] # None \/ n \in gaps

(***************************************************************************)
(* A height that the MAX_LAG skip lets the watermark cover is recorded as  *)
(* abandoned (index.ts:554-575, "over blocks nothing has touched").        *)
(***************************************************************************)
SkipRecorded == \A n \in Heights : excuse[n] = "skip" => n \in gaps

(***************************************************************************)
(* A boundary check that finds nothing vouches for everything at or below  *)
(* the cursor (index.ts:578-579, "detects any reorg at or below            *)
(* lastIndexed").                                                          *)
(***************************************************************************)
BoundaryCheckVouches ==
    pc = "check" /\ lastIndexed > 1 /\ blocks[lastIndexed] # None /\ ~Reorged =>
        \A n \in Stored : n <= lastIndexed => blocks[n] = chain[n]

(***************************************************************************)
(* Once failures stop, the cursor and the watermark both reach the end of  *)
(* the chain: neither a block that no endpoint serves, nor a crash, nor a  *)
(* reorg pins either of them (index.ts:738-803, 832-915).  The exception   *)
(* is a forgotten tail, which pins the watermark, and not the cursor,      *)
(* until a restart replays it.                                             *)
(***************************************************************************)
CatchesUp ==
    /\ <>[](lastIndexed = MaxHeight)
    /\ <>[](forgotten = {}) => <>[](durableBlock = MaxHeight)

(***************************************************************************)
(* The indexer uses the writer as TransferWriter assumes: it never queues  *)
(* above the fork of a rollback in progress, never quarantines a height    *)
(* whose decode is in flight, and never raises the floor in a rollback.    *)
(***************************************************************************)
UsesWriter == W!Spec

-----------------------------------------------------------------------------
(***************************************************************************)
(* The inductive invariants.                                               *)
(***************************************************************************)
\* Where the loop is suspended, and what that says of the batch, the
\* rollback and the fork.
LoopPhases ==
    /\ up <=> pc # "down"
    /\ rphase # "none" <=> pc \in {"recover", "unwindRows"}
    /\ rphase # "none" => fork = forkPoint
    /\ pc = "unwindRows" => rphase = "unwind"
    /\ pc \in {"recover", "unwindRows", "unwindBlocks"} => forkPoint <= lastIndexed
    /\ pc \notin {"batch", "quarantine"} => status = NoBatch
    /\ pc = "quarantine" => InFlight = {}

\* A worker inserts the row of a block before it queues its decode, and no
\* height of a batch is far above the cursor.
BatchInOrder ==
    \A n \in Heights :
        /\ status[n] \in {"fetched", "inserted"} => fetched[n] # None
        /\ status[n] \in {"inserted", "done"} => blocks[n] # None
        /\ status[n] # "none" => n <= lastIndexed + BatchSize

\* A decode waits or is written only while its block row is there.
QueuedStored ==
    \A n \in Heights : W!IsReal(pending[n]) \/ W!IsReal(drained[n]) => blocks[n] # None

\* When the block rows above the fork go, the queue holds nothing of them.
QueueBelowFork ==
    pc = "unwindBlocks" =>
        W!Queued(pending) \cup W!Queued(drained) \subseteq W!UpTo(forkPoint)

\* The block about to be stepped over is absent and recorded.
BlockerRecorded ==
    pc = "quarantine" =>
        Blocker \in Heights /\ blocks[Blocker] = None /\ Blocker \in gaps

LoopInv ==
    /\ TypeOK /\ W!IInv
    /\ LoopPhases /\ BatchInOrder
    /\ QueuedStored /\ QueueBelowFork
    /\ BlockerRecorded

\* The hole that a boot would not scan for is recorded.
WindowAccounted ==
    \A n \in Heights, m \in Stored : n < m - ResumeGapScan => AccountedFor(n)

CursorInv == CursorAccounted /\ poison \subseteq gaps /\ WindowAccounted

\* A batch reaches no further above the cursor than the scan of a boot
\* reaches below the highest stored block.
ScanCoversBatch == BatchSize <= ResumeGapScan + 1

\* The database is not empty at first, and no reorg replaces its first block.
NotFromScratch == InitialHeight >= 1 /\ FinalHeight >= 1

(***************************************************************************)
(* What NoSilentLoss needs besides: the database is never empty and its    *)
(* watermark never zero, only an unwind or a quarantine excuses a height,  *)
(* the latter only while the height is absent and recorded, and a          *)
(* forgotten height has neither its row nor its transfers.                 *)
(***************************************************************************)
FirstBlockFinal ==
    /\ chain[1] = 0 /\ blocks[1] = 0
    /\ rphase # "none" => fork >= 1
    /\ pc \in {"recover", "unwindRows", "unwindBlocks"} => forkPoint >= 1
    /\ persistedW >= 1
    /\ wpc = "persist" => target >= 1

ExcusesNarrow ==
    /\ floorPersists = {}
    /\ \A n \in Heights :
          /\ excuse[n] \notin {"skip", "seed"}
          /\ excuse[n] = "quarantine" => blocks[n] = None /\ n \in gaps

ForgottenBare ==
    /\ \A n \in forgotten : blocks[n] = None /\ tt[n] = None
    /\ pc = "unwindBlocks" => \A n \in Heights : n > forkPoint => tt[n] = None

LossInv == FirstBlockFinal /\ ExcusesNarrow /\ ForgottenBare

\* The two ways to lose a height that no resume point knows of: the MAX_LAG
\* skip over transfers still in the queue, and the late indexing of a height
\* that the watermark has covered as quarantined.
LateBlock ==
    \E n \in Heights : excuse[n] = "quarantine" /\ blocks[n] = None /\ blocks'[n] # None
NeitherSkipNorLateBlock == ~MaxLagSkip /\ ~LateBlock
=============================================================================
