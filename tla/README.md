# Formal models of the altscan indexer

TLA+ modules, TLC runs and TLAPS proofs about the program in this repository:
an EVM chain indexer with a block explorer. `PROJECT.json` lists the runs, the
source lines every definition stands for, the hazards, the findings and the
theorems; this file says what they mean. Paths without a directory are under
`apps/indexer/src/`.

## The system

One indexer process per chain (`index.ts`) follows the chain through a pool of
JSON-RPC endpoints and writes Postgres. The explorer reads the same database
and asks for backfills; a few timers inside the indexer heal, prune and sync.
The process is single-threaded JavaScript: code between two `await`s is atomic,
everything else interleaves. It can die at any `await`, and the hosting platform
restarts it.

| Component | State | Operations | Hard part |
|---|---|---|---|
| Transfer writer (`block-processor.ts`) | queue, row count, local batch of the drainer, written set, watermark W in memory and in `indexer_cursor`, paused flag, alert flag | init, enqueue, quarantine, floor, drain (write, fold, persist, requeue), rollback, flush | W must never claim a height that is not committed, through failures after effect, unawaited persists, rollbacks and crashes |
| Poll loop (`index.ts`) | cursor, backfill mark, batch status | resume, MAX_LAG skip, reorg check, worker batch, quarantine | two cursors (block rows, transfers) that must agree at every crash; guards that disable each other |
| Block processing (`block-processor.ts`) | - | fetch, block row, transactions, enqueue, webhooks | partial writes |
| Reorg handler (`reorg-handler.ts`) | - | detect, bounded fork walk, ordered unwind | statements of the unwind fail one by one; checks see one instant |
| Gap ledger, poison blocks (`index-gaps.ts`, `poison-block.ts`) | `index_gaps`, `poison_blocks`, in-memory counts | record, record-if-absent, count, clear, prune | absence and record must be one step; counts keyed by height across reorgs |
| Gap healer (`gap-healer.ts`) | lease, heal cursor, healed stamp | claim, re-index window, drain, verify, stamp | two processes, lapsed leases, crashes between row and transfers |
| RPC failover, endpoint health (`rpc-failover.ts`, `endpoint-health.ts`) | demotions, probes | attempt, time out, fail over, classify | late failures, no retry after a write began |
| Holder balances, address activity (`block-processor.ts`) | coalescing maps | enqueue, flush, requeue | lost or doubled increments |
| Backfill worker (`backfill-worker.ts`) | jobs, budgets | claim, process, give up | same heights as the live loop and retention |
| Retention (`retention-cleanup.ts`, `retention-policy.ts`) | cutoffs, partitions | prune, drop, emergency | deletes in steps under concurrent writes |
| Token rows (`block-processor.ts`, `ensureTokensBatch`) | cache of known tokens | look up, fetch, insert | workers waiting for each other's uncommitted rows |
| Webhook notifier (`webhook-notifier.ts`) | delivery ledger, failure counts | claim, deliver, count, deactivate | a block is notified more than once, and at the same time |
| Provider budget, rate limiter, caches (`packages/`) | counters in Redis or memory | reserve, release, expire | fallback when Redis is away |
| Validator syncer, internal transactions, verifier | - | periodic upserts | none beyond the database |
| Schema, configuration | - | DDL, parsing | declarative |
| Address page of the explorer (`apps/explorer/lib/backfill-serve.ts`) | the cursor its client sends back | serve a page from cache or provider | the seam of two orders while a worker fills the cache |
| Disk size job (`scripts/sync-db-disk-size.mjs`) | host configuration, marker, deploys | plan, mark, write, deploy, recover | lost answers and kills between any two calls |
| Completeness report (`apps/explorer/lib/index-gaps.ts`, `/api/health`) | - (reads `index_gaps`, cutoff, start of recording) | merge overlapping ranges, count, judge | green only if nothing is missing, through rollbacks, heals and a rising floor |
| Settings editor (`apps/admin/src/islands/SettingsPanel.tsx`) and its store (`apps/explorer/app/api/admin/settings`) | draft, version, uploads under way; settings and audit rows | load, edit, upload, save, restore | answers that find another draft than they left; saves that land late |
| Rest of explorer, status, admin, site | - | pages and read-only handlers | no protocol of their own |

How they interact: a block worker calls `processBlock`, which inserts the block
row and its children and then *enqueues* the decoded transfers; the writer
commits them later and moves W. A boot resumes at min(block cursor, W). A reorg
check stops the loop, rolls the writer back, deletes everything above the fork
and moves the cursor back. The MAX_LAG skip and the quarantine step over blocks
after recording them in `index_gaps`, and move W (at once, respectively through
the queue). The gap healer re-indexes recorded heights that are far below the tip.

What makes them correct: nothing at or below the resume point is missing unless
it is recorded; W covers committed heights only; the newest decode of a height
wins; a rollback leaves nothing that could write above the fork; nothing pins
the cursor or W for ever; a healed stamp means the range is complete; a block is
never replayed on another endpoint after its first write.

## Modules

| Module | Models | Theorems |
|---|---|---|
| `TransferWriter`, `MCTransferWriter` | the transfer writer and what its callers may do to it; its small instance | `TransferWriterProofs` |
| `AsyncStore` | the contract of the transfer writer, which `TransferWriter` implements | `TransferWriterProofs` |
| `Indexer` | boot, poll loop, batch, reorg recovery and quarantine, with an instance of `TransferWriter` | `IndexerProofs` |
| `GapHealer`, `MCGapHealer` | the healer in several processes, next to retention; its instance | `GapHealerProofs` |
| `BlockRows` | what the statements of `processBlock` store of one height and a rollback takes away | `BlockProofs` |
| `TokenRows` | the token inserts of concurrent block workers | `BlockProofs` |
| `AddressFlush` | the coalesced transaction counts of addresses | `BlockProofs` |
| `Webhooks` | notifications, their ledger and their outcomes | `BlockProofs` |
| `Failover` | both RPC wrappers and the record of endpoint health | `RemoteProofs` |
| `Backfill` | the on-demand backfill worker: enqueue, lease, pages, budget, settling | `BackfillProofs` |
| `BackfillServe` | a reader that pages through what `Backfill` fills | `BackfillProofs` |
| `Retention` | retention runs, the partitions and the emergency run under an advancing indexer | `RetentionProofs` |
| `ProviderBudget` | admission of provider calls, ledgers, cached answers | `RemoteProofs` |
| `DiskSync` | the disk size job against its host | `RemoteProofs` |
| `Settings` | consoles that edit one explorer's settings | `RemoteProofs` |
| `GapReport` | what the health endpoint says of the recorded gaps | `RetentionProofs` |
| `MCServices` | one instance of each module from `BlockRows` on | |
| `SumProofs` | no part of the system: lemmas about sums over finite sets, which three of the proof modules use | itself |

### TransferWriter

One action is the code between two `await`s. A database call is two moments: it
takes effect (`WriteCommits`, `PersistLands`) and its promise settles
(`WriteReturns`, `PersistReturns`, or `PassFails`); `PassFails` is possible on
both sides, so a call may take effect and still be reported as failed.

| Code | Model |
|---|---|
| `transferPending`, `transferPendingRows` | `pending`, `pendingRows` |
| the `drained` map of the drainer | `drained` |
| `transferWritten`, `durableBlock` | `written`, `durableBlock` |
| `transferWriterRunning`, the await it is in | `wpc` (`"idle"`: not running) |
| `newDurable` across the persist | `target` |
| `transferWriterPaused`; `rollbackTransferWriterTo` and the unwind after it | `paused`; `rphase`, `fork` |
| the unawaited persist of `setDurableFloor` | `floorPersists` |
| `token_transfers`, `indexer_cursor.transfers_durable_block` | `tt`, `persistedW` |

`RunTransferWriter` is the synchronous head of a drainer: with an idle writer and
no pause, every call that queues something drains the whole queue in the same
step, as `runTransferWriter()` does before its first `await`. The drainer's loop
(`NextPass`) is the same operator, tried again after a pass.

Two history variables carry the specification. `newest` is the newest decode
queued for a height in this process. `excuse` says why W may cover a height that
has no rows: it was quarantined, skipped, taken on trust by a seed, or unwound
below a persisted W. The last has two forms: `"unwind"`, the rewind failed (the
exposure that `block-processor.ts:1346-1349` documents), and `"unseen"`, the rollback
attempted none, because W in memory was at or below the fork (line 1357) while a
persist that was reported failed had landed. A commit of real rows clears an
excuse, and so does an unwind that throws and leaves the rows it found. An excuse is given only by the action that takes the decision, so a height that W
reaches through any other path breaks the invariant.

`AsyncStore` is what the comment of `block-processor.ts:943-957` promises, as a specification
without queue, batch, pass or pause: heights that are accepted and owed, heights that are
kept, and two watermarks. It says what may happen to each: a debt ends only when it is kept, or by
a rollback below it or a death; what is kept goes only by an unwind that finds debts and the watermark
in memory below its fork; a watermark moves only to where everything is kept. `Contract` is
the refinement mapping: a height is owed while a decode of it is queued or in the transaction that
has not committed (`Owed`), and kept once it has rows or an excuse (`KeptHeights`). Lost answers are
`Repeat` there: what was kept is owed once more. The mapping uses none of `newest`.

The caller's side is `MayIndex`, `MayQuarantine`, `MayRaiseFloor`: during a
rollback nothing is queued above the fork and nothing skipped or quarantined,
and a height is quarantined only while no decode of it is in the drainer's batch.
These are assumptions here and a checked property (`UsesWriter`) of `Indexer`.

### Indexer

A block is its height and the epoch that produced it; `ChainReorgs(f)` gives
every height above f a new epoch. The parent hash of n + 1 is the epoch of n,
so a boundary check compares the stored epoch of `lastIndexed` with the
chain's. A worker claims a height (`Claim`), fetches it (`Fetch`, any time
later, so two blocks of one batch can come from two forks), inserts its row
unless there is one (`InsertBlock`), queues its decode and advances the cursor
(`FinishBlock`), or fails before (`FailsClean`) or after (`FailsDirty`) its first
write. A worker that finds the writer's queue over its bounds parks (`Park`); it goes on
when the queue is short again or when another one failed, and in the second case still
claims a block (`Awake`, as lines 671-685 do). The unwind is three steps, poison rows,
children, block rows, each of which may throw. The last one may also take effect and be
reported failed (`UnwindUnanswered`): the cursor then stands above heights that are gone,
which the history variable `forgotten` holds until they are stored again, or a later unwind or
a boot puts the cursor below them. Every action of `TransferWriter` appears as a call of the
loop, or as a step of the drainer at any moment.

### GapHealer

Processes that run `healNextGap`, over the rows of `index_gaps` that are older than
the resume window. The nomination (`Nominate`) is the snapshot of the claiming
statement, the claim (`Claim`, `ClaimLost`) its update with the test repeated under
the row lock; between them other processes act. Then one action per statement or
await: `FindMissing`, per block `StartBlock`, `InsertRow`, `InsertTransactions`,
`Enqueue`, then `FlushDone`, `Verify`, `Advance`, `Stamp`. A tick ends early by
`LeaseExpiring`, `YieldsToLag`, `RowIsGone`, `BlockFails` (before or after the first
write), `FlushTimesOut`, `StatementFails` or `Crash`.

| Code | Model |
|---|---|
| `blocks`, `transactions` against `tx_count` | `blocks`: absent, partial, full |
| `healed_at`, `heal_cursor`, `heal_lease_owner` with `heal_lease_until` | `healed`, `cursor`, `lease` |
| `compact_cutoff_block`; what retention deletes below | `floor`; `cutoff` |
| `MAX(number) - resumeWindow` | `horizon` |
| `missing` from its first unprocessed height on | `todo` |
| deadline less `LEASE_SAFETY_MS` is over | `late` |
| the transfer writer's queue of the process | `queue` |

Time. A lease lapses (`LeaseLapses`) once its holder no longer works on the row, or
is late and between two blocks. That assumes what `LEASE_SAFETY_MS` promises,
that one block takes less than 30 s. The code bounds only the fetch of it (8 s per
endpoint), not the writes and the lookups after them.

`Retention` is here as far as the healer meets it: `RetentionRuns` publishes a cutoff
or fails to, `Prune` deletes below it, at each height the transactions before the
row, until `RetentionEnds`.

### BlockRows, TokenRows, AddressFlush, Webhooks

What one block writes is split along its independent tables.

`BlockRows` follows one height: a writer fetches the block and some of its receipts
(`Acquire`), then inserts the block row, the transactions, the internal transactions
and the trades, each a statement of its own that may fail (`StatementFails`) or be the
last one of its process (`ProcessDies`). The next process resumes below the height, or above it
if it has a row: a boot asks for the highest block row, not for what stands under it. `passed`
says that a cursor is above the height, also after a skip (`CursorJumps`); the history variable
`finished` says that a writer got through the stored block. The chain replaces the version
(`ChainReplaces`); the rollback deletes the tables in the order of `UNWIND_ORDER`
(`Unwind`), and the last delete may take effect without an answer (`LastDeleteLost`). A child row is a transaction with the version its data came from, so a row
that survives a rollback is told apart from one written again.

`TokenRows` follows `ensureTokensBatch`: `LookUp` reads cache and table, `FetchMetadata`
is the awaited calls, `TakeRow` is the insert locking one row after the other in
the order of the sorted addresses, `CommitRows` ends the statement. `Waits(w, u)` says
that w needs a row that u has inserted and not committed.

`AddressFlush`: `addressPending` is the map, `flight` what the one flush in flight has
taken and not yet upserted. The head of a flush runs synchronously when the one before
ends (`Land`), as the `finally` of `flushAddresses` does. Chunks succeed, deadlock
and are retried, or fail and are dropped. An insert of transactions whose answer is lost
(`InsertUnanswered`) counts nobody.

`Webhooks`: `notifyWebhooks` selects, `ClaimDelivery` inserts the row of the ledger (its
answer may be lost), `deliverWebhook` posts, `RecordOutcomes` updates the hooks.

### Failover

A call walks its list of endpoints (`Begin` takes the order of that moment), `Served`,
`Refused` and `Faulted` are the answers of an attempt, `Written` the first durable write, after
which `WriteFailed` ends the call instead of moving on. `health` is the map of
`endpoint-health.ts` for each kind of call; `CoolDown` ends a cooldown. `order` is the set of
the arrangements that put healthy endpoints before demoted ones and keep the rotation inside
both, of which there is one. `lapses` counts the cooldowns that ended, to
bound the waves an endpoint may have been charged.

### Backfill and BackfillServe

`wm` is a row of `backfill_watermarks`. Its `claimed_at` is lease and fence: `stamp` is the
worker whose claim it is, `lapsed` that it is older than the lease. `WorkerStep` is the
loop: claim, budget, fetch (a page, an empty page, an error, a refusal), one transaction that
inserts the page and moves the cursor if the claim still holds, release. `EntityStep` is the rest
of the world: enqueue by a page view, new rows at the provider, a lease that lapses. Rows are
numbers in the provider's order; `BlockEnds` cuts them into blocks. What is abstracted: the
throttle and the bot test of the enqueue, and the answer of the provider being up to two hours
old through the response cache.

`BackfillServe` is the reader. A request reads the watermark (`ReadWatermark`), then a cached page
(`ServeLocal`) or a provider page (`AskProvider`, `ProviderOut`), then perhaps whether the
cache covers it (`HandOver`; a failed query counts as no); between its awaits the worker goes on. `KeyOf` is the hash order inside a block, which differs
from the provider's; `view.shown` is what the client has seen.

### Retention

One block per unit of time, so that a window is a number of heights. A run goes through its stages
in the order of the code: bodies, cutoff, publication, sweep of the compact
rows, partitions, transactions, blocks, forward extension, and a decision about a second,
tighter run if the disk is full. Batched deletes may stop part way (`losses`). Next to it the
chain grows (`Mine`), the indexer stores (`IndexBlock`) or jumps (`SkipAhead`), and the writer
writes (`WriteTransfers`), which needs a partition. `hidden` and `erased` are history
variables.

### ProviderBudget and DiskSync

`ProviderBudget`: `LookUpCache` misses the cache, `isRateLimited` is the admission, one atomic
script that reads every ceiling before it debits any; `Unreachable` is a Redis that does not
answer, which refuses although the script may have run; `CallProvider` sends. A process has
any number of calls on their way (`Request`, `ProcOf`), which a restart takes with it. `counter` and `mortal` are keys and those with an expiry, `response` the
cached answer. `billed` and `late` are what the provider charges, for calls admitted in the month
of the bill and in the one before; `carried` is what was in flight when the month turned.

`DiskSync`: `SyncStep` goes through the stages of a run (`Stages`); each call to the host may take
effect and be reported lost, a deploy may fail, land late, or be replaced by another
one, and the run may be killed. The marker in the configuration is `pending`.

### Settings

| Code | Model |
|---|---|
| `explorer_settings_audit`, and `explorer_settings` as its last row | `trail` |
| `payload` (value and version), the draft, `busy`, `uploadingIds` | `panel` |
| `load()`: the request, and the replies on their way | `gets` (two: a reload may overtake the first read) |
| the PUT the panel waits for; PUTs whose answer nobody awaits any more | `put`, `orphans` |

A creative is its id, its identity (`who`, which the code does not have) and the
creative its image was chosen for (`art`). `uploadCreativeImage` starts an upload for an id that one
row bears; `UploadReturns` puts the image on the row that bears it then. What the page
disables (`Remove` and renaming during uploads, `Save` while busy, uploading or clean) is a
guard, what it leaves enabled is not: everything else may happen at any time. The namespace is
`ads`; saving another one matters because it reloads all. Reads, saves and uploads may fail
(`Fault`); a save the proxies gave up after 6 s (`SaveUnanswered`) may still land
(`HandleOrphan`). `base` in `trail` is a history variable, what the author's console had loaded.

### GapReport

The indexer in large steps: `StoreNext`, `SkipLag`, `QuarantineNext` and `RewindTo` move
the cursor, `HealHeight` and `StampHealed` are the healer, `PublishFloor` is a retention
run, `SeedTracking` the first seed of `gap_tracking_from_block`. A death between the
record of a skip and the jump is a `SkipLag` followed by a `RewindTo`. `UnwindAnswerLost` is an
unwind whose last delete was not answered: the rows go, the cursor stays, and the history
variable `dropped` holds the heights until one is stored again. The rest
translates `GAP_SUMMARY_SQL` clause by clause (`clamped`, `prevMax`, `Opens`, `marked`,
`group`, `joined`, `merged`, and the aggregates) and `completenessStatus`.

### MCServices

The services share no state that their properties depend on, so exploring their product
would only multiply states. `svc` picks the service of a behaviour, and the other
variables keep their first values. The backfill is picked in three ways: two workers
on one entity (lease and fence), one worker on a queue of two entities, and one worker
filling the cache a reader pages through. The settings editor is picked in two: one
console with uploads (`console`), and two that add and save against each other (`editors`).
The provider's budget too: two calls of one process on the shared ledger (`budget`), and
one of them next to a call of a process with a ledger of its own (`ledgers`).

### Operators that are wrong on purpose

An operator marked so is a plausible bug of the definition below it, with the
same parameters. It is used by nothing: `PROJECT.json` ("mutants") names the
property that must fail when it takes the place of the real definition.

## Runs

| Run | Checks | Instance |
|---|---|---|
| `writer` | `WatermarkCovered`, `PersistedCovered`, `NoDecodeLost`, `NothingAboveFork`, `RowsAccounted`, `RollbackGetsItsTurn`, `ContractKept` | 2 heights, one decode of 2 rows next to the quarantined batch of none, high water 1, alert 3 |
| `indexer_reorg` | `TypeOK`, `NoSilentLoss`, `CatchesUp` | 4 heights, 1 reorg, 1 crash, 1 fault |
| `indexer_quarantine` | `NoSilentLoss`, `CatchesUp` | height 3 never served, 2 failures to quarantine, 1 reorg, 2 faults |
| `indexer_skip` | `CursorAccounted`, `UsesWriter` | empty database at first, lag bound 2, quarantine after 1 failure, 1 reorg, 1 crash, 1 fault, one worker |
| `gap_healer` | `FirstWriteOnly`, `StampedComplete`, `CursorVerified`, `RangesSettle` | 2 processes, ranges 1..3 and 3..4, 2 and 4 quarantined (2 absent, 4 stored), windows of 2, 2 adversities |
| `services` | `RowsExact`; `NoCircularWait`; `CountsConserved`; `AtMostOnce`; `CleanMeansUntouched`, `WavesPerLapse`; `CursorBacked`, `WatermarkForward`, `EntitiesSettle`; `NoBlockSkipped`, `SeamExact`; `NoOrphans`, `FloorTruthful`, `RecentRowsKept`; `BillBounded`, `LedgerExact`; `NeverWedged`, `DiskAgrees`; `ArtworkOnItsCreative`, `OverwritesSeen`; `ReportExact`, `GreenIsTrue` | see below |
| `indexer_skip_loss`, `indexer_fork_mix`, `indexer_fresh_loss`, `indexer_late_block`, `indexer_wedge`, `retention_ladder` | one property each, violated | see Findings |

What the passing runs show. In every interleaving of the instance: both
watermarks cover committed or excused heights only (the excuses are listed under
TransferWriter above); the newest decode of a
height is queued, in the batch or committed; after its purge a rollback leaves
nothing above the fork; the row counter and the alert flag agree with the queue;
a waiting rollback gets its turn; a boot resumes at or below everything that is
unfinished and unrecorded, except what was unwound below a persisted W that was not rewound; the
cursor never stands above an unrecorded hole, except the tail of an unwind whose last
answer was lost; the cursor reaches the end of the chain, and so does W, unless such a tail pins
it until a restart; and the loop uses the writer as the
writer's specification assumes.

Bounds. Two heights are enough for the writer: its state per height is
independent except for the contiguous fold and the fork, and two heights have a
hole, a prefix, a height above and one below a fork. The row bounds are such
that one busy height exceeds the backpressure bound and two the alert bound.
One decode is enough for TLC because a re-decode of a height replaces its entry
whatever it held; the interplay of several decodes is what `DecodesSafe` and
`RowsSafe` prove, for every set of decodes.
The run compares states under the view `MCView`, all variables but the reasons of the
excuses: no guard and no property of it tells one reason from another, so two states that
agree there have the same futures.
Four heights are what the loop needs: a batch of two below and above a fork, a
skip over a hole, a stored height above a missing one. One epoch change, one
crash and one or two faults are single adversities placed at every point; the
invariants of the writer run, which bound none of them, cover repeated ones.
`FinalHeight` is the finality of the chain: no reorg is deeper than K of the
tip, and never below that height. In the runs that start on an indexed
database it is 1, and so W is never rewound to 0, which the program reads as
"no watermark"; what happens with a zero W is `indexer_fresh_loss`.
`MaxLag` 9 switches the skip off in the runs that are not about it;
`QuarantineAfter` 9 does the same for the quarantine.

`gap_healer`: no height that retention keeps is written by two healers or over a row
that is there; what is stamped, and what the cursor has behind it, is complete
there; and every range is healed, ages out, or has only defects nobody may touch.
Its ranges overlap and the older one is longer than a window and has a hole that
cannot be filled, so that a stale nomination, a starved range and a cursor below
the end of a range all occur. Two adversities are, for instance, a slow tick and a
death, or a half-written block and a cutoff that was not published.

`services` (344 thousand distinct states). In every interleaving of each service's
instance: the rows of a height are those of its canonical block once a writer has
got through it; token inserts never wait in a circle; no count is doubled, and none lost
before a failure; no webhook hears of a block twice; no block is made of two endpoints'
answers, nor reported as untouched when it was not; calls that fail together
demote an endpoint once; a watermark's cursor has exactly the cached rows above it, never moves
back, and every entity is settled in the end; a listing passes over no block and repeats no
row; retention leaves no orphans, publishes what it deletes and spares the newest
day; the bill stays under the ceiling of its ledger, and what comes late is no more than was in
flight when the month turned; the disk size converges; an uploaded image
reaches the creative it was chosen for or none; a save replaces only what its author's
console had loaded; the gap report counts every missing recorded height once, and is green only
over heights that are stored, or that an unwind deleted without an answer.

Its bounds. Backfill: histories of at most 6 rows in 3 blocks, pages of 2, a cap of 4
rows, 2 attempts, one page per hour, 2 mishaps: a history has three pages, so that
there is a page before, at and after a lost lease, and the cap falls inside the
history. The reader: pages of 1 and a window of 2 remembered hashes, less than the
largest block. Failover: 2 endpoints, one of which serves no blocks, 3 calls, demotion
after 1 failure, 1 ended cooldown. Rows: 2 versions that share one of two
transactions, 2 writers, 2 aborts. Webhooks: 2 notifiers, 2 blocks, 1 stumble. Counts: 2
addresses, 2 transactions (one naming both, one of them twice), 1 unwind, 1 upset. Retention:
5 heights, partitions of 2, windows of 2 and 3, 1 loss. Tokens: 3 workers, 2 tokens.
Disk: sizes to 3, 3 glitches. Budget: two calls of one process on the shared ledger, or one there
and one of a process with its own, of 2 units each against a ceiling of 5, so that two fit and
a third does not, a window of 1 call, 2 months, 1 blip. Settings: 2
consoles, 2 creatives, 4 acts of the operators (an upload, a removal, an addition and one more, or two
saves and what precedes them), 1 fault. Gap report: 4 heights, which hold a range, one
nested in it and one that touches it, 1 rollback, a cutoff at 3. Three
workers are what a circle of waits and a third party need; everywhere else two
actors and one or two adversities meet at every point.

Deadlock is checked in every run but `services` and `retention_ladder`: the indexer, its
writer and the healer never stop, while these instances end when their bounded chain,
histories and adversities are used up.

Fairness. `TransferWriter`: a suspended drainer goes on, and a rollback that finds it at
rest too, because every `await` in them is a database call or a timer, and both settle. Nothing says a
write succeeds; `RollbackGetsItsTurn` holds although all of them may fail.
`Indexer`: the chain grows to the end of the model, a dead process is restarted,
the loop (head, batch, recovery, quarantine) proceeds and the writer's calls
settle. Failed calls and crashes are bounded by `MaxFaults` and `MaxCrashes`:
`CatchesUp` says what happens once they stop. No fairness is assumed of a
reorg, a crash or a failure, except that a fetch of a block nobody serves fails.
`GapHealer`: the interval timer ticks, every await of a tick settles (the flush has a
timeout), the writer drains, clocks pass leases, the chain grows, and a retention
run ends and is followed by another one. Lag, slow ticks, failures and deaths are
bounded by `MaxFaults`.
`Backfill`: a worker that has a claim goes on (its awaits have timeouts), some worker claims
again and again (the pauses for disk pressure and a hot bucket end), hours turn, and the lease
of a claim nobody holds lapses. `DiskSync`: the schedule starts runs and a run goes on, and
a deploy in flight lands; the disk stops growing because it is bounded. `Retention`: timers
restart the runs and the writer retries for ever.

## Findings

- `indexer_skip_loss`: the MAX_LAG skip raises W to `latest - 200` over blocks that
  are indexed but whose transfers are still queued. The recorded gap starts
  above the cursor, so after a crash nothing replays or reports them.
- `indexer_fresh_loss`: on an empty database W exists in memory only until its
  first persist. A death before that leaves 0, which the next boot reads as
  "written by the old synchronous code": it adopts the highest block row as W.
- `indexer_late_block`: a height is quarantined at the tip and W covers it. Nothing is stored
  above it, so the next boot, which resumes at the lower of the highest stored block and W, asks
  for it again. If an endpoint serves it by then, its row is stored and its transfers are only
  queued; a death before they drain leaves a stored block without transfers below W, which
  neither the resume nor the healer (absent blocks only) ever writes. `index_gaps` still lists
  the height. The healer avoids exactly this (`gap-healer.ts:437-442`), the live loop does not.
- `indexer_wedge`: a boot that finds a hole below a stored sibling enters resume
  backfill. If no endpoint serves the missing block and it was not quarantined
  before the restart, the quarantine is refused (no poison row) and the skip is
  off (backfill), both for ever.
- `indexer_fork_mix`: a reorg between two fetches of a batch leaves rows of the
  old fork under rows of the new one; the boundary check compares one hash and
  passes.
- `retention_ladder`: the partitions of `token_transfers` are extended from the newest
  stored transfer. After a MAX_LAG jump past the last partition no transfer can be
  stored, so the maximum never moves and the writer fails for ever.

Met while modelling, without a run of their own. Of the indexer and its writer:

- `setDurableFloor` during the drainer's persist is undone when that persist returns
  (`block-processor.ts:1493` assigns the target computed before the await), and W waits
  below the floor until a restart.
- `DELETE FROM blocks`, the last statement of an unwind, commits and its answer is lost. The throw
  leaves the cursor above the fork, the row under it is gone, and `detectReorg` without a stored
  hash reports no reorg: the outcome that `reorg-handler.ts:209-219` describes, and excludes for
  the poison rows only. The deleted heights are neither indexed nor recorded, and pin W, until a
  restart. TLC violates `TailReprocessed` (`Indexer`, the instance of `indexer_reorg` with 3
  heights); `NoSilentLoss`, `CursorAccounted`, `CatchesUp` and `GreenIsTrue` say what remains true.
- The drainer's persist of W takes effect and is reported failed; the next reorg has its fork
  between W in memory and W in the database, so `rollbackTransferWriterTo` attempts no rewind
  (`block-processor.ts:1357`). A death after a block of the new chain was stored and before its
  transfers drain resumes above it; lines 1345-1349 know of a failed rewind only. TLC violates
  `OnlyFailedRewindLoses` (the same instance).
- A death between a block row and its transactions, and a boot that resumes at the highest block
  row: always when the writer is switched off (`index.ts:879-882`), else where a W of zero adopts it.
  Lines 497-500 call stepping over such a block "the invisible-bad-data case". TLC violates
  `NeverSteppedOver` (`BlockRows`, the instance of `services`); `RowsExact` is what remains true.
- The boot scans `RESUME_GAP_SCAN` heights below the highest stored block for holes, and the
  code asserts of it only `REORG_DEPTH < RESUME_GAP_SCAN` (`index.ts:288`). It must also reach below
  a whole batch (`ScanCoversBatch`): with batches of 4 by 4 workers, a scan of 2 and a reorg depth
  of 1, on an empty database, TLC violates `CursorAccounted`. The configured values satisfy it.
- `internal_transactions` is not in `UNWIND_ORDER` (`reorg-handler.ts:200-202`), against
  `reorg-handler.ts:14-16`: with `INTERNAL_TX_ENABLED` the rows of a replaced block stay.
  TLC violates `InternalRowsUnwound` (`BlockRows`).
- The failure path of `fetchPairTokens` yields no pair, and the block's trades are
  dropped without a retry.

Of the gap healer:

- A half-written block in the first window of a long range holds the cursor, and absent
  blocks beyond that window keep the range selected (`gap-healer.ts:292-305` looks to the
  end of the range, the tick to the end of its window): every tick repeats the same window
  and later ranges starve. `RangesSettle` excepts it as `HoldsTheQueue`.
- `gap-healer.ts:361-366` says that after a crash before the drain the whole window is redone;
  the work set is absent blocks only, so the block is not redone and its transfers stay
  lost, as `index.ts:319-330` concedes. The same happens without a crash when
  the lease lapses and another process, whose own queue is empty, advances the cursor.
- If a cutoff is not published, the cursor may stand above heights that were deleted; the
  range then is selected again and again until a later run publishes.
- "The only way to make overlap impossible" (`gap-healer.ts:170-181`) is to nominate the oldest
  row, but the oldest row may still be too recent (`g.to_block <` the horizon,
  `gap-healer.ts:216`) while a younger, shorter range inside it is not. A process then
  works on the inner range when the outer one becomes eligible, and a second process
  claims that: both index the same heights. With ranges 1..4 and 2..2, a horizon of 3 and
  nothing else going wrong, TLC violates `FirstWriteOnly` in 11 steps. `FirstWriteSafe`
  is proved under `NoNesting`, which excludes it.

Of the services:

- `BackfillServe`: a cache that ends inside a block grows in the provider's order, the listing
  continues in hash order; rows of that block may be passed over. TLC violates `NoSkip`;
  `NoBlockSkipped` is what remains true.
- A local cursor that meets an unusable watermark restarts the listing at the
  provider's first page.
- The throwing paths of `processOnePage` (`backfill-worker.ts:333-342, 441-463`) skip the rule
  of lines 353-363 that turns an exhausted entity into a capped one.
- `DiskSync`: with a first configuration above the disk (`FirstStored = {2}`, `FirstGb =
  {1}`) TLC violates `NeverWedged`: a deploy is polled as failed and rolled back, lands
  nevertheless, and the disk then grows to the old number, where every later run sees
  nothing to do (`sync-db-disk-size.mjs:46-50` says it "can never wedge").
- `Settings`: a draft that is replaced while an upload runs. `SettingsPanel.tsx:308-313` calls the
  uniqueness test on arrival "the fail-closed backstop" for `restore()`; but after
  the first creative was removed and another one added, which takes the same automatic id,
  an upload for it lands on the old creative when that version is restored meanwhile. A
  reload after a save does the same, since an upload may start during the save's
  request, and then also undoes what the upload brought, which lines 211-217 mean to exclude.
  `ArtworkOnItsCreative` excepts such uploads (`Stray`).
- `save` has no `finally`: a rejected fetch leaves the panel busy until the page is
  loaded again. The reload after a save discards the unsaved drafts of the other
  namespaces. Audit lists asked for in a row may arrive in the other order, and a restore
  then puts one namespace's value into another one's draft (240-255).
- A read of the settings during a database failure answers with no rows, and a PUT without a version is an
  upsert: the next save of that panel overwrites what is stored, as does the second of two first
  saves. `OverwritesSeen` excepts them (`seen = 0`).
- A cutoff that cannot be published does not stop the run (`retention-cleanup.ts:955-957`); the
  cutoff itself is the smallest stored height of the window (211-218). `FloorTruthful`
  excepts such runs (`hidden`).
- The webhook SELECT does not ask for `failCount` (`webhook-notifier.ts:105, 127-133`), so the
  counter of lines 233-234 is 1 after every failure and no webhook is ever deactivated.
- Compact pruning may drop every partition; `ensureForwardPartitions` returns when there is
  none (`ensure-schema.ts:979`).
- `rate-limit.ts:25-31` increments and then sets the expiry; a death between leaves a
  counter that never expires. The ledger in memory of the provider budget restarts at 0.
- `migrate-partition-tt.ts`: when its second phase fails, the CHECK constraint of the first stays
  on `token_transfers` and the writer's inserts above it are rejected, although the
  header says the table is unchanged.

## Proofs

`tlapm` checks eight modules. A theorem holds for every value of the constants that satisfies
the assumptions of the modules (`HeightAssumption`, `BoundsAssumption`, `LeaseAssumption`,
`RetentionAssumption`, ...), which the runs evaluate. The adversities that the runs bound
(crashes, faults, losses, late answers) are constants, so the proofs allow any number of them.
With the exceptions of "Only model-checked" below, every safety property of the passing runs
is stated by a theorem.

| Module | Theorems | Property |
|---|---|---|
| `TransferWriterProofs` | `TypeCorrect`, `Invariance` | |
| | `WatermarkSafe`, `PersistedSafe`, `RollbackSafe`, `DecodesSafe`, `RowsSafe` | `WatermarkCovered`, `PersistedCovered`, `NothingAboveFork`, `NoDecodeLost`, `RowsAccounted` |
| | `ContractImplemented` (refinement) | `ContractKept` |
| `IndexerProofs` | `IndexerInvariance`, `IndexerWatermarksSafe` | |
| | `IndexerTypeCorrect`, `UsesWriterSafe` | `TypeOK`, `UsesWriter` |
| | `CursorAccountedSafe`, `NoSilentLossSafe` (with hypotheses) | `CursorAccounted`, `NoSilentLoss` |
| `GapHealerProofs` | `BaseInvariance`, `StampedSafe`, `CursorSafe` | `StampedComplete`, `CursorVerified` |
| | `FirstWriteSafe` (with a hypothesis) | `FirstWriteOnly` |
| `BlockProofs` | `BlockRowsInvariance`, `RowsExactSafe` | `RowsExact` |
| | `TokenRowsInvariance`, `NoCircularWaitSafe`, `CacheSafe` | `NoCircularWait` |
| | `CountsInvariance`, `CountsSafe`, `NothingStranded` | `CountsConserved` |
| | `WebhooksInvariance`, `AtMostOnceSafe` | `AtMostOnce` |
| `RemoteProofs` | `FailoverInvariance`, `CleanMeansUntouchedSafe`, `WavesPerLapseSafe`, `ReadsHealNoBlocksSafe` | `CleanMeansUntouched`, `WavesPerLapse` |
| | `DiskSyncTypeCorrect`, `NeverWedgedSafe` (with a hypothesis) | `NeverWedged` |
| | `BudgetInvariance`, `BillBoundedSafe`, `LedgerExactSafe` | `BillBounded`, `LedgerExact` |
| | `SettingsInvariance`, `SettingsTypeCorrect`, `ArtworkOnItsCreativeSafe`, `OverwritesSeenSafe` | `ArtworkOnItsCreative`, `OverwritesSeen` |
| `BackfillProofs` | `BackfillInvariance`, `CursorBackedSafe`, `WatermarkMonotone` | `CursorBacked`, `WatermarkForward` |
| | `ServeInvariance`, `NoBlockSkippedSafe`, `SeamExactSafe` | `NoBlockSkipped`, `SeamExact` |
| `RetentionProofs` | `RetentionInvariance`, `NoOrphansSafe`, `FloorTruthfulSafe`, `RecentRowsKeptSafe` | `NoOrphans`, `FloorTruthful`, `RecentRowsKept` |
| | `GapReportInvariance`, `GreenIsTrueSafe`, `ReportExactSafe` | `GreenIsTrue`, `ReportExact` |

`CacheSafe`, `NothingStranded` and `ReadsHealNoBlocksSafe` are about `CachedIsStored`,
`PendingHasFlight` and `ReadsHealNoBlocks`, which no run checks. Neither does a run check the
types of the services: they are part of the invariants that the theorems named `...Invariance` state,
among them that the backfill never fetches more pages in an hour than its budget.

### TransferWriter

Why `IInv` is needed: that W covers committed heights is not inductive. A
height is handed on, queue to batch to written set to target to W to the
database, and the crash, the rollback and the unawaited persists cut in
anywhere. `IInv` says that every stage that can move a watermark holds covered
heights only: `WrittenCovered` after the commit, `BatchCovered` between commit and
return, `TargetCovered` during the persist, `FloorsCovered` for the persists on
their way, `QuarantinesCovered` for the batches that claim nothing. `BelowFork` and
`Phases` are for the one step that takes coverage away, the unwind: by then only
the persisted watermark and floors on their way can be above the fork, and those
heights get their excuse. The proof follows: `AccountsKept` (every other step
keeps every account), `OtherStep` (one case per action, only the parts the
action moves), `UnwindStep`. `DecodeInv` does the same for the newest decode.

`RowsAccounted` needs no history, but arithmetic: the counter is changed by differences (a
replaced entry, a cut tail, a returned batch) and the claim is about a sum. The lemmas say what
the rows of a queue come to when it is split at a height, when one entry is replaced and when two
queues are joined; every action is one of these, and every action evaluates the alert last.

`ContractImplemented` is the refinement of `AsyncStore`: one lemma per kind of step (`BootSimulated`,
`EnqueueSimulated`, ... `DeathSimulated`) shows it to be a step of the contract or none. It needs
`IInv` for the watermarks and the unwind, `DecodeInv` for a failed pass (a requeue must not let a
quarantine hide the decode it puts back), and that a dead process holds nothing (`DeadIsEmpty`).

### Indexer

`UsesWriterSafe` is a step simulation: every step of the loop is a step of `TransferWriter` or
leaves its variables alone, so that `IInv`, proved of the writer on its own terms, holds of the
composition (`IndexerWatermarksSafe`). The hard part is that the caller keeps `MayIndex`,
`MayQuarantine` and `MayRaiseFloor`. `LoopInv` has what that needs: during a rollback no worker
is in a block (`LoopPhases`), queued heights have rows and stand below the fork (`QueuedStored`,
`QueueBelowFork`), and the height about to be quarantined is absent and recorded
(`BlockerRecorded`).

`CursorInv` adds, for `CursorAccounted`, that poison rows are gaps and that a hole further below a
stored block than a boot scans is recorded (`WindowAccounted`). A batch may leave a hole as far
below its highest block as the batch is long, and a crash right then leaves the hole to the scan of the
boot: hence the hypothesis `ScanCoversBatch`, which is necessary (see Findings).

`NoSilentLossSafe` has three more hypotheses, each of which excludes a violated run:
`NotFromScratch` (`indexer_fresh_loss`), no `MaxLagSkip` (`indexer_skip_loss`) and no `LateBlock`
(`indexer_late_block`). The first is about the
constants; the other two are about what a behaviour does, so they leave the constants free. Under them `LossInv` holds: the first block and a watermark of at least 1 survive
everything, a height is excused only by an unwind below a persisted W, whose rewind failed or was
not attempted, or as quarantined while it is absent (`ExcusesNarrow`), and a forgotten height has
neither its row nor transfers (`ForgottenBare`).
So what the resume point has passed is committed or listed. The runs `indexer_reorg` and
`indexer_quarantine` check the same on small instances, the second one with quarantined heights.

### GapHealer

Neither `StampedComplete` nor `CursorVerified` is inductive: a stamp or a cursor is written from a
window that was computed several steps before, by a process that may have lost its lease.
`BaseInv` says what such a process still knows: its window starts at the range, below the
cutoff or right behind the cursor (`Placed`, `WindowPlaced`), a verified window is full
above the cutoff (`VerifiedWindow`), and whoever is inside a block or before its deadline
holds its lease (`Leased`). `Kept` says that no step loses a block above the cutoff.
`FirstWriteSafe` has the hypothesis `NoNesting`, necessary as Findings shows. `WriteInv`
adds that everything older than a nominated range has nothing left to
index (`OlderDone`), that nobody has written what a process has on its list (`Untouched`)
and that no two lists meet (`Apart`): two holders hold different ranges, and what
the older one of them lists the younger one's nomination excludes.

### BlockRows, TokenRows, AddressFlush, Webhooks

`BlockRowsInv`, which does not ask where a boot resumes: a writer inside the block has all receipts of one version and nobody else has
another one (`WritersKnow`), a rollback is alone, at a row the chain has left (`UnwindAlone`), no
child is there without its row (`ParentFirst`), and under the row of the canonical block
what is there is that block's (`RowIsOwn`), and all of it once a writer got through (`RowsExact`). A statement's token rows come in
ascending order (`TakenInOrder`); in a circle of waits the greatest held row would be waited
for by a worker that holds a greater one. A webhook's payload was posted or is being posted only after its
row in the ledger, and one notification has that row (`OneSender`). For the counts the invariant is that
what is counted, in flight and pending adds up, and that whatever is pending has a flight.

### Failover, DiskSync, ProviderBudget, Settings

`FailoverInv`: whatever a call has tried and whatever is left are all endpoints, nothing is written
while another one may be tried, and a record has at most as many waves as cooldowns ended,
fewer if it is about to get one (`RecordFits`).

`NeverWedgedSafe` has the hypothesis that no first configuration overstates a first disk
(`NotOverstated`); `DiskInv` says what each stage of a run knows of the marker and of the deploy in
flight. The hypothesis is necessary, see Findings.

`BudgetInv` relates what was spent to what the ledger holds (`SpentHeld`): spent and in flight are
at most the counter plus one ceiling for every time its count was lost, the counter is at
most the ceiling, and both are equal until something fails. What was in flight when the month
turned is carried: each of these calls stays on its way, is billed late, or dies with its process,
so what is billed late and still on its way never exceeds `carried`. In flight is a sum over the calls
of a ledger: their number is arbitrary, in one process too, but finite.

`SettingsInv`: what a console holds as loaded is a version of the trail with that version's value,
also when its PUT is handled long after (`Known`), and an upload that is not `Stray` still has its
row, which is the only one of its id (`Held`). The second needs that `nextCreativeId` finds a free
id, which is a pigeonhole argument over the rows of the draft.

### Backfill and BackfillServe

`BackfillInv` adds to `CursorBacked` what a worker in flight knows: while its claim holds, the
cursor and count it remembers are those of the row (`HoldersKnow`), and the page it is about to
write continues right below that cursor (`PagesFit`). A worker whose claim is lost may be
wrong about both; the fence is what keeps it from writing.

`ServeInv` says what a request that has read the watermark still knows of it while the worker goes on
(`SnapOK`): the cached rows are still there and reach down at least as far. `LocalOK` and
`ProviderOK` say what a cursor in the hands of the client means: every due row at or above it is of a
block that was shown, and nothing shown lies below it. `Progresses` excludes the one
watermark that would break this, a partial one without a cursor.

### Retention and GapReport

`RetentionInv`: the cutoff of a run stands at a stored block and what is stored below it is older
than the shortest window (`CutKnown`), it is published before anything below goes
(`Announced`), and refetchable rows go before their transactions (`Swept`), however far the chain
grows meanwhile.

`GreenIsTrue` follows from `PassedOrRecorded`: above the floor, a height the cursor has passed has
its row, is inside an open range, or is `dropped`. `ReportExact` needs the types only, since it is about what the
query makes of any rows: the rows are totally ordered, the marks grow along the order, and
so a group is exactly the reported heights of one maximal run (`MergedIsReported`, `MergedIsMaximal`,
`MergedApart`). Groups correspond one to one to the beginnings of runs, which gives
`gapCount`; the lengths add up to the number of reported heights, which gives `missingBlocks`.

### SumProofs

Induction over data is out of the prover's reach, because the library's induction theorems take an
operator as a parameter. Sums over finite sets are proved about nevertheless, by minimal
counterexample: of the subsets for which a claim fails, `WFMin` of `WellFoundedInduction` gives one of
least cardinality, and the claim holds of it without any one of its elements. That gives
additivity, bounds and congruence of `SumFunctionOnSet`, the fold of the community modules
that `RowsIn`, `InFlight` and `missingBlocks` are written with.

### Only model-checked

- Liveness: `RollbackGetsItsTurn`, `CatchesUp`, `RangesSettle`, `EntitiesSettle`,
  `DiskAgrees`. It rests on fairness, which this prover does not treat.
- `NoSilentLoss`, `CursorAccounted`, `FirstWriteOnly` and `NeverWedged` outside the
  hypotheses above, where TLC finds them violated.

## Not modelled

Graceful shutdown (the queue is drained, then the process ends: a crash with an
empty queue), `FORCE_START_BLOCK`, the switches that turn a mechanism off, two
processes inside one block while one of them rolls it back, decoding of logs and the values
of rows, the holder-balance queue (`config.ts` switches it off), the upload quota and the RPC probe
of the console, an unpublished cutoff in the gap report, the rate limiter, the offline partition migration, the contract
verifier and the validator syncer (periodic upserts), log lines and profiling. Most of
the repository's code renders pages, maps answers of providers or declares a schema; it keeps
no state between two requests and has no behaviour a state machine would add to.
Components marked `not_modelled` in `PROJECT.json` say why.

## Plan

1. A contract for the loop as `AsyncStore` is one for the writer: what a boot may assume of
   everything below its resume point; and `Indexer` shown to implement it under the hypotheses of
   `NoSilentLossSafe`.
2. A variant of `NoSilentLossSafe` that allows the MAX_LAG skip and says of the heights it may lose
   which ones they are.
3. The schema guards of `ensure-schema.ts` and the remaining stages of the retention tick, as
   far as they have order and failure.
4. The holder-balance queue, should it be switched on; the partition migration; nested ranges in
   `GapHealer`.
