----------------------------- MODULE Retention -----------------------------
(***************************************************************************)
(* Retention (apps/indexer/src/retention-cleanup.ts) and the partitions of *)
(* token_transfers (ensure-schema.ts), below an indexer that stores one    *)
(* block after the other and jumps when it is far behind.                  *)
(*                                                                         *)
(* One block per unit of time: heights are timestamps too, and a window of *)
(* days is a number of blocks.  The refetchable rows (logs, dex_trades,    *)
(* gas_history, webhook_deliveries, calldata) are one table; every block   *)
(* has transfers; internal_transactions are dropped and provisioned like   *)
(* token_transfers.  Batches, pauses and VACUUM are left out.              *)
(***************************************************************************)
EXTENDS Integers, FiniteSets, FiniteSetsExt

CONSTANTS
    Horizon,        \* bound: the last height the chain reaches
    Start,          \* the height reached at first
    Width, Ahead,   \* PARTITION_BLOCKS, PARTITION_AHEAD
    LagLimit,       \* MAX_LAG_BLOCKS
    Margin,         \* the jump ends this far below the tip
    HighWater,      \* blocks waiting in the writer that stop the indexer
    BodyWindow,     \* RETENTION_DAYS
    CompactWindow,  \* COMPACT_RETENTION_DAYS, Immortal when unset
    MaxLosses       \* bound: failed statements and lost processes

MinWindow == 1      \* EMERGENCY_RETENTION_MIN_DAYS
Immortal  == Horizon + 1

ASSUME RetentionAssumption ==
    /\ {Horizon, Start, Width, Ahead, HighWater, BodyWindow, CompactWindow} \subseteq Nat \ {0}
    /\ {LagLimit, Margin, MaxLosses} \subseteq Nat
    /\ Start <= Horizon /\ Margin <= LagLimit /\ CompactWindow <= Immortal

VARIABLES
    tip,            \* the newest block of the chain
    indexed,        \* lastIndexed
    stored,         \* heights in blocks
    txHeights,      \* heights in transactions
    bodies,         \* heights with refetchable rows
    transfers,      \* heights in token_transfers
    unwritten,      \* heights whose transfers wait in the writer
    ladder,         \* partitions: i stands for [i * Width, (i + 1) * Width)
    published,      \* compact_cutoff_block, 0 for NULL
    hidden,         \* ghost: a cutoff was used that could not be published
    erased,         \* ghost: heights retention took compact rows of
    run,            \* the run in flight
    losses

rtData == <<tip, indexed, stored, txHeights, bodies, transfers, unwritten>>
rtVars == <<rtData, ladder, published, hidden, erased, run, losses>>

Quiescent == [at |-> "idle", body |-> BodyWindow, compact |-> CompactWindow,
              override |-> FALSE, cut |-> 0, peak |-> "low"]

RetentionInit ==
    /\ tip = Start /\ indexed = Start
    /\ stored = 1..Start /\ txHeights = stored /\ bodies = stored /\ transfers = stored
    /\ unwritten = {}
    /\ ladder = 0..((Start + Ahead * Width) \div Width)
    /\ published = 0 /\ hidden = FALSE /\ erased = {}
    /\ run = Quiescent
    /\ losses = 0

Loss == losses < MaxLosses /\ losses' = losses + 1

Lo(i) == i * Width
Hi(i) == (i + 1) * Width
Covered(n) == \E i \in ladder : Lo(i) <= n /\ n < Hi(i)

-----------------------------------------------------------------------------
(* The indexer. *)

Mine ==
    /\ tip < Horizon
    /\ tip' = tip + 1
    /\ UNCHANGED <<indexed, stored, txHeights, bodies, transfers, unwritten,
                   ladder, published, hidden, erased, run, losses>>

IndexBlock ==
    LET n == indexed + 1 IN
    /\ n <= tip /\ tip - indexed <= LagLimit
    /\ Cardinality(unwritten) < HighWater
    /\ indexed' = n
    /\ stored' = stored \cup {n} /\ txHeights' = txHeights \cup {n}
    /\ bodies' = bodies \cup {n} /\ unwritten' = unwritten \cup {n}
    /\ UNCHANGED <<tip, transfers, ladder, published, hidden, erased, run, losses>>

\* MAX_LAG: the blocks in between are left to the gap healer.
SkipAhead ==
    /\ tip - indexed > LagLimit
    /\ indexed' = tip - Margin
    /\ UNCHANGED <<tip, stored, txHeights, bodies, transfers, unwritten,
                   ladder, published, hidden, erased, run, losses>>

\* An INSERT without a partition fails, and the writer tries it again.
WriteTransfers ==
    LET n == Min(unwritten) IN
    /\ unwritten # {} /\ Covered(n)
    /\ transfers' = transfers \cup {n} /\ unwritten' = unwritten \ {n}
    /\ UNCHANGED <<tip, indexed, stored, txHeights, bodies,
                   ladder, published, hidden, erased, run, losses>>

-----------------------------------------------------------------------------
(* A run. *)

At(stage, next) == run.at = stage /\ run' = [run EXCEPT !.at = next]

\* cutoffBlockNumber: the oldest stored block of the window, which ends at the
\* newest stored block when it is empty.
cutoffBlockNumber(window) ==
    LET recent(end) == {n \in stored : n >= end - window}
        kept == IF recent(tip) # {} THEN recent(tip) ELSE recent(Max(stored))
    IN  IF stored = {} THEN 0 ELSE Min(kept)

Younger(S, cut) == {n \in S : n >= cut}

\* A batched DELETE that fails in the middle has deleted some of its rows.
Deletes(S, cut, left) ==
    \/ left = Younger(S, cut) /\ UNCHANGED losses
    \/ Younger(S, cut) \subseteq left /\ left \subseteq S /\ Loss

\* Ticks that find a run in flight are skipped (makeSingleFlight).
StartRun ==
    /\ run.at = "idle"
    /\ run' = [Quiescent EXCEPT !.at = "bodies", !.cut = cutoffBlockNumber(BodyWindow)]
    /\ UNCHANGED <<rtData, ladder, published, hidden, erased, losses>>

\* The body prune swells the tables: the disk is measured after it.
PruneBodies ==
    /\ run.at = "bodies"
    /\ \E left \in SUBSET bodies : Deletes(bodies, run.cut, left) /\ bodies' = left
    /\ \E pct \in {"low", "alarm", "act"} : run' = [run EXCEPT !.at = "cutoff", !.peak = pct]
    /\ UNCHANGED <<tip, indexed, stored, txHeights, transfers, unwritten,
                   ladder, published, hidden, erased>>

CompactCutoff ==
    /\ run.at = "cutoff"
    /\ LET cut == cutoffBlockNumber(run.compact) IN
       run' = [run EXCEPT !.cut = cut,
                          !.at = IF run.compact < Immortal /\ cut > 0 THEN "publish" ELSE "forward"]
    /\ UNCHANGED <<rtData, ladder, published, hidden, erased, losses>>

\* GREATEST: the floor does not move back when an emergency is over.  A failure
\* is logged, and the run goes on.
PublishBare ==  \* Wrong on purpose: the cutoff is assigned.
    /\ At("publish", "sweep")
    /\ published' = run.cut
    /\ UNCHANGED <<rtData, ladder, hidden, erased, losses>>
PublishCutoff ==
    /\ At("publish", "sweep")
    /\ \/ published' = (IF run.cut > published THEN run.cut ELSE published)
          /\ UNCHANGED <<hidden, losses>>
       \/ Loss /\ hidden' = TRUE /\ UNCHANGED published
    /\ UNCHANGED <<rtData, ladder, erased>>

\* Up to the compact cutoff, which may be the newer one.
SweepNothing ==  \* Wrong on purpose: the body prune is thought to have done it.
    /\ At("sweep", "partitions")
    /\ UNCHANGED <<rtData, ladder, published, hidden, erased, losses>>
SweepBodies ==
    /\ At("sweep", "partitions")
    /\ \E left \in SUBSET bodies : Deletes(bodies, run.cut, left) /\ bodies' = left
    /\ UNCHANGED <<tip, indexed, stored, txHeights, transfers, unwritten,
                   ladder, published, hidden, erased>>

\* partitionRetentionPlan: a partition goes as a whole, once its last height is
\* below the cutoff.
DropStraddling == {i \in ladder : Lo(i) < run.cut}  \* Wrong on purpose: the boundary partition too.
Expired        == {i \in ladder : Hi(i) <= run.cut}

In(S, n) == \E i \in S : Lo(i) <= n /\ n < Hi(i)

DropPartitions ==
    /\ At("partitions", "transactions")
    /\ \E gone \in SUBSET Expired :
          /\ IF gone = Expired THEN UNCHANGED losses ELSE Loss
          /\ ladder' = ladder \ gone
          /\ transfers' = {n \in transfers : ~In(gone, n)}
          /\ erased' = erased \cup {n \in transfers : In(gone, n)}
    /\ UNCHANGED <<tip, indexed, stored, txHeights, bodies, unwritten, published, hidden>>

DeleteTransactions ==
    /\ At("transactions", "blocks")
    /\ \E left \in SUBSET txHeights :
          /\ Deletes(txHeights, run.cut, left)
          /\ txHeights' = left /\ erased' = erased \cup (txHeights \ left)
    /\ UNCHANGED <<tip, indexed, stored, bodies, transfers, unwritten, ladder, published, hidden>>

\* Blocks that still have transactions stay.
EveryOldBlock == {n \in stored : n < run.cut}  \* Wrong on purpose: the test for children is dropped.
Childless     == {n \in stored : n < run.cut /\ n \notin txHeights}

DeleteBlocks ==
    /\ At("blocks", "forward")
    /\ \E gone \in SUBSET Childless :
          /\ IF gone = Childless THEN UNCHANGED losses ELSE Loss
          /\ stored' = stored \ gone /\ erased' = erased \cup gone
    /\ UNCHANGED <<tip, indexed, txHeights, bodies, transfers, unwritten, ladder, published, hidden>>

\* ensureForwardPartitions: from the last partition to Ahead widths past the
\* newest transfer.
Extended ==
    LET newest == IF transfers = {} THEN 0 ELSE Max(transfers)
        last   == (newest + Ahead * Width) \div Width
    IN  IF ladder = {} THEN {} ELSE ladder \cup (Max(ladder)..last)

EnsureForwardPartitions ==
    /\ At("forward", "decide")
    /\ ladder' = Extended
    /\ UNCHANGED <<rtData, published, hidden, erased, losses>>

\* emergencyRetentionDecision: the windows of a second run, none when both are
\* at the floor or the compact one is unset.
Tightened(r) ==
    IF r.compact < Immortal /\ r.compact > MinWindow THEN {[r EXCEPT !.compact = MinWindow]}
    ELSE IF r.body > MinWindow THEN {[r EXCEPT !.body = MinWindow]}
    ELSE {}

\* Decided on the peak; the second run never starts a third.
Decide ==
    /\ run.at = "decide"
    /\ IF run.peak = "act" /\ ~run.override /\ Tightened(run) # {}
       THEN \E r \in Tightened(run) :
               run' = [Quiescent EXCEPT !.at = "bodies", !.override = TRUE, !.body = r.body,
                                        !.compact = r.compact, !.cut = cutoffBlockNumber(r.body)]
       ELSE run' = Quiescent
    /\ UNCHANGED <<rtData, ladder, published, hidden, erased, losses>>

RunDies ==
    /\ run.at # "idle" /\ Loss
    /\ run' = Quiescent
    /\ UNCHANGED <<rtData, ladder, published, hidden, erased>>

RunStep ==
    \/ StartRun \/ PruneBodies \/ CompactCutoff \/ PublishCutoff \/ SweepBodies
    \/ DropPartitions \/ DeleteTransactions \/ DeleteBlocks
    \/ EnsureForwardPartitions \/ Decide

RetentionNext == Mine \/ IndexBlock \/ SkipAhead \/ WriteTransfers \/ RunStep \/ RunDies

\* Timers restart the runs, and the writer never gives up.
RetentionSpec == /\ RetentionInit /\ [][RetentionNext]_rtVars
                 /\ WF_rtVars(WriteTransfers) /\ WF_rtVars(RunStep)

-----------------------------------------------------------------------------
(* Properties. *)

RetentionTypeOK ==
    /\ tip \in 1..Horizon /\ indexed \in 1..Horizon
    /\ \A S \in {stored, txHeights, bodies, transfers, unwritten, erased} : S \subseteq 1..Horizon
    /\ ladder \subseteq Nat
    /\ published \in 0..Horizon /\ hidden \in BOOLEAN
    /\ run \in [at : {"idle", "bodies", "cutoff", "publish", "sweep", "partitions",
                     "transactions", "blocks", "forward", "decide"},
                body : Nat, compact : Nat, override : BOOLEAN, cut : 0..Horizon,
                peak : {"low", "alarm", "act"}]
    /\ losses \in Nat

(***************************************************************************)
(* No transaction is left without its block, and unless a statement failed *)
(* no refetchable row without its transaction (retention-cleanup.ts:8-9,   *)
(* 958-978, 1011-1021), in the run that tightens the compact window too.   *)
(***************************************************************************)
NoOrphans == txHeights \subseteq stored /\ (losses = 0 => bodies \subseteq txHeights)

(***************************************************************************)
(* The published floor is above everything retention has taken             *)
(* (retention-cleanup.ts:930-957), whatever run deleted it and wherever it *)
(* stopped; unless a run could not publish its cutoff, and went on.        *)
(***************************************************************************)
FloorTruthful == hidden \/ \A n \in erased : n < published

(***************************************************************************)
(* Whatever the disk says, the rows of the newest day stay                 *)
(* (retention-cleanup.ts:211-238, 377-380, 577): not a stale clock, a hole *)
(* at the cutoff or the boundary partition takes them.                     *)
(***************************************************************************)
RecentRowsKept == \A n \in erased : n < tip - MinWindow

(***************************************************************************)
(* The writer is never out of range for good (ensure-schema.ts:606-612,    *)
(* 966-972, retention-cleanup.ts:1065-1072): transfers that wait for a     *)
(* partition are written in the end.  The code breaks it: the ladder is    *)
(* extended from the newest transfer, which never comes after a jump past  *)
(* the last partition.                                                     *)
(***************************************************************************)
WriterDrains == \A n \in 1..Horizon : n \in unwritten ~> n \notin unwritten
=============================================================================
