------------------------------ MODULE Backfill ------------------------------
(***************************************************************************)
(* The on-demand backfill (apps/indexer/src/backfill-worker.ts): explorer  *)
(* views enqueue an address, indexer processes claim it under a lease and  *)
(* page its history from the provider, newest rows first, into a cache.    *)
(* backfill_watermarks holds one row per entity; the claim stamp in it is  *)
(* lease and fencing token at once.                                        *)
(*                                                                         *)
(* The rows of an entity are numbered in the provider's order, 1 the       *)
(* oldest; a provider cursor is the number of the last row it returned.    *)
(* The provider is external: a cursor continues below that row whatever    *)
(* has arrived above it since.                                             *)
(*                                                                         *)
(* A worker has one claim at a time, so the worker itself stands for the   *)
(* stamp of its latest claim.  Which of the eligible rows of one rank is   *)
(* the longest untouched is left open, and so is whether the cooldown of   *)
(* an errored row is over.  Disk pressure only keeps a worker from moving. *)
(***************************************************************************)
EXTENDS Integers, FiniteSets

CONSTANTS
    Worker,         \* backfill loops, two while a deploy overlaps
    NoWorker,
    NoJob,          \* no claim in memory
    Entity,         \* watermark keys: address_txs or token_transfers of one address
    KindOf,         \* entity -> entity_type, which is also its provider bucket
    MaxRow,         \* bound: rows a history may grow to
    FirstTop,       \* entity -> numbers of rows it may have at first
    BlockEnds,      \* rows that are the last of their block
    Unkeyed,        \* entity -> rows the provider gives no usable log_index
    ProviderPage,   \* rows of a provider page
    RowCap,         \* cfg.maxRowsPerEntity
    MaxAttempts,    \* cfg.maxAttempts
    PagesPerHour,   \* cfg.maxPagesPerHour
    MaxMishaps      \* bound: failed calls, lost workers, overrun leases

Rows == 1..MaxRow

ASSUME BackfillAssumption ==
    /\ NoWorker \notin Worker
    /\ MaxRow \in Nat /\ FirstTop \in [Entity -> SUBSET (0..MaxRow)]
    /\ Unkeyed \in [Entity -> SUBSET Rows] /\ BlockEnds \subseteq Rows
    /\ ProviderPage \in Nat \ {0} /\ RowCap \in Nat /\ MaxAttempts \in Nat
    /\ PagesPerHour \in Nat /\ MaxMishaps \in Nat

VARIABLES
    top,            \* entity -> the newest row the provider has
    wm,             \* entity -> its row of backfill_watermarks
    cached,         \* entity -> rows in backfill_address_txs / backfill_token_transfers
    pagesUsed,      \* backfill_budget of this hour
    at,             \* worker -> where its loop is
    job,            \* worker -> the claim it holds in memory, and its page
    mishaps

bfVars == <<top, wm, cached, pagesUsed, at, job, mishaps>>

Status == {"none", "pending", "running", "partial", "complete", "capped", "error"}
Steps  == {"idle", "reserve", "release", "verify", "fetch", "write", "settle"}
Outcomes == {"none", "page", "operational", "refused", "thrown", "uncacheable"}

\* What a claim returned, and what its page came to: the rows first..last.
Job == [e : Entity, cursor : 0..MaxRow, rows : Nat, attempts : Nat,
        outcome : Outcomes, first : 1..(MaxRow + 1), last : 0..MaxRow]
ASSUME JobAssumption == NoJob \notin Job

Unseen == [status |-> "none", cursor |-> 0, rows |-> 0, attempts |-> 0,
           stamp |-> NoWorker, lapsed |-> FALSE]

BackfillInit ==
    /\ top \in [Entity -> 0..MaxRow] /\ \A e \in Entity : top[e] \in FirstTop[e]
    /\ wm = [e \in Entity |-> Unseen]
    /\ cached = [e \in Entity |-> {}]
    /\ pagesUsed = 0
    /\ at = [w \in Worker |-> "idle"]
    /\ job = [w \in Worker |-> NoJob]
    /\ mishaps = 0

Mishap == mishaps < MaxMishaps /\ mishaps' = mishaps + 1

-----------------------------------------------------------------------------
(* The explorer and the provider. *)

\* enqueueBackfill: ON CONFLICT DO NOTHING.
Enqueue(e) ==
    /\ wm[e].status = "none"
    /\ wm' = [wm EXCEPT ![e].status = "pending"]
    /\ UNCHANGED <<top, cached, pagesUsed, at, job, mishaps>>

\* The provider learns of a whole block at a time.
Arrive(e) ==
    /\ \E r \in BlockEnds :
          /\ r > top[e] /\ \A s \in BlockEnds : s > top[e] => r <= s
          /\ top' = [top EXCEPT ![e] = r]
    /\ UNCHANGED <<wm, cached, pagesUsed, at, job, mishaps>>

\* What a page from cursor c holds: the rows First(e, c)..Last(e, c).
Last(e, c)  == IF c = 0 THEN top[e] ELSE c - 1
First(e, c) == IF Last(e, c) > ProviderPage THEN Last(e, c) - ProviderPage + 1 ELSE 1

\* The cursor such a page comes with, 0 for null.
CursorAfter(first) == IF first > 1 THEN first ELSE 0

-----------------------------------------------------------------------------
(* The claim and its fence. *)

ClaimableOpen(e) ==  \* Wrong on purpose: what a lost worker held is never claimed again.
    \/ wm[e].status \in {"pending", "partial"}
    \/ wm[e].status = "error" /\ wm[e].attempts < MaxAttempts
Claimable(e) ==
    \/ wm[e].status \in {"pending", "partial"}
    \/ wm[e].status = "running" /\ wm[e].lapsed
    \/ wm[e].status = "error" /\ wm[e].attempts < MaxAttempts

\* Partial work first, among the entities whose bucket is not hot.
Eligible(hot) ==
    LET open == {e \in Entity : Claimable(e) /\ KindOf[e] \notin hot}
        partial == {e \in open : wm[e].status = "partial"}
    IN  IF partial # {} THEN partial ELSE open

Claim(w) ==
    /\ at[w] = "idle"
    /\ \E hot \in SUBSET {KindOf[e] : e \in Entity} : \E e \in Eligible(hot) :
          /\ wm' = [wm EXCEPT ![e].status = "running", ![e].stamp = w, ![e].lapsed = FALSE]
          /\ job' = [job EXCEPT ![w] =
                [e |-> e, cursor |-> wm[e].cursor, rows |-> wm[e].rows,
                 attempts |-> wm[e].attempts, outcome |-> "none", first |-> 1, last |-> 0]]
          /\ at' = [at EXCEPT ![w] = "reserve"]
    /\ UNCHANGED <<top, cached, pagesUsed, mishaps>>

\* fencedUpdate's WHERE: the claim of w still holds its row.
Holds(w) ==
    /\ wm[job[w].e].status = "running"
    /\ wm[job[w].e].stamp = w

\* Leaving "running" with a new status, if the fence lets w.
Leave(w, status, attempts) ==
    wm' = IF ~Holds(w) THEN wm
          ELSE [wm EXCEPT ![job[w].e].status = status,
                          ![job[w].e].attempts = attempts,
                          ![job[w].e].stamp = NoWorker,
                          ![job[w].e].lapsed = FALSE]

GoTo(w, step) == at' = [at EXCEPT ![w] = step] /\ UNCHANGED job
GoIdle(w) == at' = [at EXCEPT ![w] = "idle"] /\ job' = [job EXCEPT ![w] = NoJob]

\* The page of w came to this.
Answer(w, step, outcome, first, last) ==
    /\ at' = [at EXCEPT ![w] = step]
    /\ job' = [job EXCEPT ![w].outcome = outcome, ![w].first = first, ![w].last = last]

IdleStatus(w) == IF job[w].rows > 0 THEN "partial" ELSE "pending"

-----------------------------------------------------------------------------
(* One round of the loop, split at its awaits. *)

\* reservePage: reserve or deny in one statement.
Reserve(w) ==
    /\ at[w] = "reserve"
    /\ IF pagesUsed < PagesPerHour
       THEN pagesUsed' = pagesUsed + 1 /\ GoTo(w, "verify")
       ELSE UNCHANGED pagesUsed /\ GoTo(w, "release")
    /\ UNCHANGED <<top, wm, cached, mishaps>>

\* releaseClaim after a denied reservation.
Release(w) ==
    /\ at[w] = "release"
    /\ Leave(w, IdleStatus(w), wm[job[w].e].attempts)
    /\ GoIdle(w)
    /\ UNCHANGED <<top, cached, pagesUsed, mishaps>>

\* The fenced no-op before provider quota is spent.
Verify(w) ==
    /\ at[w] = "verify"
    /\ IF Holds(w) THEN GoTo(w, "fetch") ELSE GoIdle(w)
    /\ UNCHANGED <<top, wm, cached, pagesUsed, mishaps>>

\* The provider answers.  A page with a row that cannot be keyed is not
\* cached at all; every other page waits for its transaction.
FetchSkipsUnkeyed(w) ==  \* Wrong on purpose: the unusable row is skipped, the cursor goes on.
    /\ at[w] = "fetch"
    /\ LET first == First(job[w].e, job[w].cursor)
           last == Last(job[w].e, job[w].cursor)
       IN  Answer(w, "write", "page", first,
                  IF last \in Unkeyed[job[w].e] THEN last - 1 ELSE last)
    /\ UNCHANGED <<top, wm, cached, pagesUsed, mishaps>>
Fetch(w) ==
    /\ at[w] = "fetch"
    /\ LET first == First(job[w].e, job[w].cursor)
           last == Last(job[w].e, job[w].cursor)
       IN  IF (first..last) \cap Unkeyed[job[w].e] = {}
           THEN Answer(w, "write", "page", first, last)
           ELSE Answer(w, "settle", "uncacheable", 1, 0)
    /\ UNCHANGED <<top, wm, cached, pagesUsed, mishaps>>

\* Out of the provider's budget or switched off; an answer that says no; a throw.
FetchFails(w) ==
    /\ at[w] = "fetch"
    /\ Mishap
    /\ \E outcome \in {"operational", "refused", "thrown"} :
          Answer(w, "settle", outcome, 1, 0)
    /\ UNCHANGED <<top, wm, cached, pagesUsed>>

\* The fenced update that ends a page without rows.
Settle(w) ==
    /\ at[w] = "settle"
    /\ LET o == job[w].outcome
           tries == wm[job[w].e].attempts
           exhausted == job[w].attempts + 1 >= MaxAttempts /\ job[w].rows > 0
       IN  \/ o = "operational" /\ Leave(w, IdleStatus(w), tries)
           \/ o = "refused" /\ Leave(w, IF exhausted THEN "capped" ELSE "error", tries + 1)
           \/ o = "thrown" /\ Leave(w, "error", tries + 1)
           \/ o = "uncacheable" /\ Leave(w, "capped", tries)
    /\ GoIdle(w)
    /\ UNCHANGED <<top, cached, pagesUsed, mishaps>>

\* The page and the watermark that goes with it.
Store(w) ==
    LET e == job[w].e
        total == job[w].rows + (job[w].last - job[w].first + 1)
        next == CursorAfter(job[w].first)
    IN  /\ cached' = [cached EXCEPT ![e] = @ \cup (job[w].first..job[w].last)]
        /\ wm' = [wm EXCEPT ![e] =
              [status |-> IF next = 0 THEN "complete"
                          ELSE IF total >= RowCap THEN "capped" ELSE "partial",
               cursor |-> next, rows |-> total, attempts |-> 0,
               stamp |-> NoWorker, lapsed |-> FALSE]]

\* The transaction: both, or, when the fence refuses, neither.
CommitUnfenced(w) == Store(w)  \* Wrong on purpose: any worker may finish.
Commit(w) == IF Holds(w) THEN Store(w) ELSE UNCHANGED <<wm, cached>>

Write(w) ==
    /\ at[w] = "write"
    /\ Commit(w)
    /\ GoIdle(w)
    /\ UNCHANGED <<top, pagesUsed, mishaps>>

\* The transaction throws: rolled back, or committed without an answer.
WriteThrows(w) ==
    /\ at[w] = "write"
    /\ Mishap
    /\ Commit(w) \/ UNCHANGED <<wm, cached>>
    /\ Answer(w, "settle", "thrown", 1, 0)
    /\ UNCHANGED <<top, pagesUsed>>

\* A statement of the loop throws, or the process dies: the claim stays behind.
Abandon(w) ==
    /\ at[w] # "idle"
    /\ Mishap
    /\ GoIdle(w)
    /\ UNCHANGED <<top, wm, cached, pagesUsed>>

-----------------------------------------------------------------------------
(* Time. *)

Held(e) == \E w \in Worker : at[w] # "idle" /\ job[w].e = e /\ Holds(w)

\* A lease lapses; while its holder is at work only if that one overruns it.
Lapse(e) ==
    /\ wm[e].status = "running" /\ ~wm[e].lapsed
    /\ IF Held(e) THEN Mishap ELSE UNCHANGED mishaps
    /\ wm' = [wm EXCEPT ![e].lapsed = TRUE]
    /\ UNCHANGED <<top, cached, pagesUsed, at, job>>

HourTurns ==
    /\ pagesUsed > 0
    /\ pagesUsed' = 0
    /\ UNCHANGED <<top, wm, cached, at, job, mishaps>>

Working(w) == Reserve(w) \/ Release(w) \/ Verify(w) \/ Fetch(w) \/ Settle(w) \/ Write(w)
WorkerStep(w) == Claim(w) \/ Working(w) \/ FetchFails(w) \/ WriteThrows(w) \/ Abandon(w)
EntityStep(e) == Enqueue(e) \/ Arrive(e) \/ Lapse(e)

BackfillNext ==
    \/ \E w \in Worker : WorkerStep(w)
    \/ \E e \in Entity : EntityStep(e)
    \/ HourTurns

\* A live worker goes on, the clock advances, and disk pressure or a hot
\* bucket does not keep every worker from claiming for ever.
BackfillFairness ==
    /\ \A w \in Worker : WF_bfVars(Working(w))
    /\ WF_bfVars(\E w \in Worker : Claim(w))
    /\ WF_bfVars(HourTurns)
    /\ WF_bfVars(\E e \in Entity : Lapse(e) /\ ~Held(e))

BackfillSpec == BackfillInit /\ [][BackfillNext]_bfVars
BackfillFairSpec == BackfillSpec /\ BackfillFairness

-----------------------------------------------------------------------------
(* Properties. *)

Watermark == [status : Status, cursor : 0..MaxRow, rows : Nat, attempts : Nat,
              stamp : Worker \cup {NoWorker}, lapsed : BOOLEAN]

(***************************************************************************)
(* Types; a worker that is not idle has a claim in memory.                 *)
(***************************************************************************)
BackfillTypeOK ==
    /\ top \in [Entity -> 0..MaxRow]
    /\ wm \in [Entity -> Watermark]
    /\ cached \in [Entity -> SUBSET Rows]
    /\ pagesUsed \in 0..PagesPerHour
    /\ at \in [Worker -> Steps]
    /\ job \in [Worker -> Job \cup {NoJob}]
    /\ \A w \in Worker : at[w] # "idle" => job[w] \in Job
    /\ mishaps \in 0..MaxMishaps

(***************************************************************************)
(* The cache and the watermark agree (backfill-worker.ts:405-440): what is *)
(* cached is one run of rows without a hole that ends exactly where        *)
(* oldest_cursor continues, or at the oldest row once the status is        *)
(* complete.  The explorer relies on it: it drains the run and resumes at  *)
(* oldest_cursor.  Overrun leases, lost answers, failed transactions and   *)
(* unusable rows must not open a hole or leave a row below the cursor.     *)
(***************************************************************************)
CachedFrom(e) == IF wm[e].status = "complete" THEN 1 ELSE wm[e].cursor
CursorBacked ==
    \A e \in Entity :
        \/ cached[e] = {} /\ wm[e].cursor = 0
        \/ /\ CachedFrom(e) >= 1
           /\ \E r \in CachedFrom(e)..top[e] : cached[e] = CachedFrom(e)..r

(***************************************************************************)
(* No step takes a watermark back (backfill-worker.ts:281-313): the cursor *)
(* never returns to newer rows, rows_written never falls, and an entity    *)
(* that is complete or capped is never touched again, whatever a worker    *)
(* that lost its lease still has in flight.                                *)
(***************************************************************************)
Forward(e) ==
    /\ wm[e].cursor # 0 => wm'[e].cursor <= wm[e].cursor
    /\ wm'[e].rows >= wm[e].rows
    /\ wm[e].status \in {"complete", "capped"} => wm'[e] = wm[e]
WatermarkForward == [][\A e \in Entity : Forward(e)]_bfVars

(***************************************************************************)
(* Every entity that was ever enqueued is settled for good: complete,      *)
(* capped, or given up after MaxAttempts failures of its own.  A lost      *)
(* worker, a spent budget, a hot bucket or an errored neighbour only       *)
(* delays it (backfill-worker.ts:80-102, 351-363).                         *)
(***************************************************************************)
Settled(e) ==
    \/ wm[e].status \in {"complete", "capped"}
    \/ wm[e].status = "error" /\ wm[e].attempts >= MaxAttempts
EntitySettles(e) == wm[e].status # "none" ~> Settled(e)
=============================================================================
