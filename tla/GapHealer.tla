----------------------------- MODULE GapHealer -----------------------------
(***************************************************************************)
(* The gap healer (apps/indexer/src/gap-healer.ts): processes that compete *)
(* for the oldest recorded gap, re-index the absent blocks of one window   *)
(* of it, wait for their transfer writer, verify the window, move a        *)
(* durable cursor and at last stamp the range as healed; next to retention *)
(* (retention-cleanup.ts), which publishes a floor and deletes below it.   *)
(*                                                                         *)
(* Ranges the healer may touch are older than the resume window: the live  *)
(* loop and its reorgs, at most ReorgDepth deep, no longer change them.    *)
(*                                                                         *)
(* A lease that lapses is a step of its own.  Time is abstracted to two    *)
(* facts: a lease does not lapse before the holder's local deadline less   *)
(* LEASE_SAFETY_MS, and one block takes no longer than LEASE_SAFETY_MS.    *)
(***************************************************************************)
EXTENDS Integers, FiniteSets

CONSTANTS
    Procs,          \* processes that run a healer, two while a deploy overlaps
    NoProc,         \* no lease owner
    MaxHeight,      \* bound: the highest block in a gap
    GapTo,          \* from_block -> to_block of the rows of index_gaps
    Poison,         \* heights in poison_blocks
    Recorded,       \* heights of the gaps that are absent at first
    BatchSize,      \* GAP_HEAL_BATCH
    FirstHorizon,   \* MAX(number) - resumeWindow at first
    Cutoffs,        \* heights that retention may cut off at
    MaxFaults       \* bound: failed calls, slow ticks, lag, process deaths

Heights == 1..MaxHeight
Gaps    == DOMAIN GapTo

ASSUME LeaseAssumption == NoProc \notin Procs
ASSUME GapsAssumption ==
    /\ MaxHeight \in Nat
    /\ Gaps \subseteq Heights
    /\ GapTo \in [Gaps -> Heights]
    /\ \A g \in Gaps : g <= GapTo[g]
    /\ Poison \subseteq Heights /\ Recorded \subseteq Heights
ASSUME BoundAssumption ==
    /\ BatchSize \in Nat \ {0}
    /\ FirstHorizon \in Nat /\ Cutoffs \subseteq Heights
    /\ MaxFaults \in Nat

VARIABLES
    \* the database
    blocks,     \* height -> "absent", "partial" (row without its transactions), "full"
    floor,      \* indexer_cursor.compact_cutoff_block, 0 for NULL
    healed,     \* gaps with healed_at
    cursor,     \* gap -> heal_cursor, from_block - 1 for NULL
    lease,      \* gap -> heal_lease_owner while heal_lease_until lies ahead
    horizon,    \* MAX(blocks.number) - resumeWindow
    \* retention
    cutoff,     \* what it has deleted below
    pruning,
    \* the processes
    pc,
    gap,        \* process -> row it nominated or claimed
    window,     \* process -> [from, to, verify] of its tick
    todo,       \* process -> heights its tick has still to index
    late,       \* process -> deadline less LEASE_SAFETY_MS is over
    queue,      \* process -> heights whose transfers it has in memory only
    faults      \* so far

dbVars     == <<blocks, floor, healed, cursor, lease, horizon>>
retention  == <<cutoff, pruning>>
tickVars   == <<pc, gap, window, todo, late>>
vars       == <<dbVars, retention, tickVars, queue, faults>>

Larger(a, b)  == IF a > b THEN a ELSE b
Smaller(a, b) == IF a < b THEN a ELSE b
NoWindow      == [from |-> 0, to |-> 0, verify |-> 0]

\* Inside reindexBlock.
Indexing == {"fetch", "transactions", "decode"}

TypeOK ==
    /\ blocks \in [Heights -> {"absent", "partial", "full"}]
    /\ floor \in Cutoffs \cup {0} /\ cutoff \in Cutoffs \cup {0}
    /\ healed \subseteq Gaps
    /\ cursor \in [Gaps -> 0..MaxHeight]
    /\ lease \in [Gaps -> Procs \cup {NoProc}]
    /\ horizon \in FirstHorizon..Larger(FirstHorizon, MaxHeight + 1)
    /\ pruning \in BOOLEAN
    /\ pc \in [Procs -> {"idle", "nominated", "claimed", "next", "verify",
                         "advance", "stamp"} \cup Indexing]
    /\ gap \in [Procs -> Gaps \cup {0}]
    /\ window \in [Procs -> [from : 0..(MaxHeight + 1),
                             to : 0..MaxHeight, verify : 0..MaxHeight]]
    /\ todo \in [Procs -> SUBSET Heights]
    /\ late \in [Procs -> BOOLEAN]
    /\ queue \in [Procs -> SUBSET Heights]
    /\ faults \in 0..MaxFaults

Init ==
    /\ blocks = [n \in Heights |-> IF n \in Recorded THEN "absent" ELSE "full"]
    /\ floor = 0 /\ cutoff = 0 /\ pruning = FALSE
    /\ healed = {}
    /\ cursor = [g \in Gaps |-> g - 1]
    /\ lease = [g \in Gaps |-> NoProc]
    /\ horizon = FirstHorizon
    /\ pc = [p \in Procs |-> "idle"]
    /\ gap = [p \in Procs |-> 0]
    /\ window = [p \in Procs |-> NoWindow]
    /\ todo = [p \in Procs |-> {}]
    /\ late = [p \in Procs |-> FALSE]
    /\ queue = [p \in Procs |-> {}]
    /\ faults = 0

Fault == faults < MaxFaults /\ faults' = faults + 1

Goto(p, l) == pc' = [pc EXCEPT ![p] = l]

\* The tick returns; what it leaves behind is in the database and the queue.
EndTick(p) ==
    /\ Goto(p, "idle")
    /\ gap' = [gap EXCEPT ![p] = 0]
    /\ window' = [window EXCEPT ![p] = NoWindow]
    /\ todo' = [todo EXCEPT ![p] = {}]
    /\ late' = [late EXCEPT ![p] = FALSE]

-----------------------------------------------------------------------------
(***************************************************************************)
(* The claim.  The nomination reads a snapshot; the update locks the row   *)
(* and tests its newest version again.                                     *)
(***************************************************************************)
Retained(g)   == Larger(g, floor)..GapTo[g]
Executable(g) == {n \in Larger(Larger(g, floor), cursor[g] + 1)..GapTo[g] :
                      n \notin Poison /\ blocks[n] = "absent"}
\* Wrong on purpose: a quarantine counts although the block is there.
BlockersByRow(g) == {n \in Retained(g) : n \in Poison \/ blocks[n] = "partial"}
Blockers(g)   == {n \in Retained(g) : \/ n \in Poison /\ blocks[n] = "absent"
                                      \/ blocks[n] = "partial"}
Unfinishable(g) == Blockers(g) # {} /\ Executable(g) = {}

InScope(g) == /\ g \notin healed
              /\ floor = 0 \/ GapTo[g] >= floor
              /\ GapTo[g] < horizon

\* Wrong on purpose: a range that can never be stamped stays selected.
EligibleForEver(g) == InScope(g)
\* Wrong on purpose: a leased row is passed over.
EligibleUnleased(g) == InScope(g) /\ ~Unfinishable(g) /\ lease[g] = NoProc
Eligible(g)         == InScope(g) /\ ~Unfinishable(g)

Candidates == {g \in Gaps : Eligible(g)}
Oldest     == CHOOSE g \in Candidates : \A h \in Candidates : g <= h

\* A tick that finds nothing to do.
IdleTick(p) ==
    /\ pc[p] = "idle"
    /\ Candidates = {}
    /\ UNCHANGED vars

Nominate(p) ==
    /\ pc[p] = "idle"
    /\ Candidates # {}
    /\ Goto(p, "nominated")
    /\ gap' = [gap EXCEPT ![p] = Oldest]
    /\ window' = [window EXCEPT ![p].verify = Larger(Oldest, floor)]
    /\ UNCHANGED <<dbVars, retention, todo, late, queue, faults>>

\* Wrong on purpose: the lease is not tested under the lock.
ClaimableUnchecked(g) == g \notin healed
Claimable(g)          == g \notin healed /\ lease[g] = NoProc

WindowEnd(g, from) == Smaller(GapTo[g], from + BatchSize - 1)

Claim(p) ==
    LET g == gap[p]
        from == Larger(window[p].verify, cursor[g] + 1)
    IN  /\ pc[p] = "nominated"
        /\ Claimable(g)
        /\ lease' = [lease EXCEPT ![g] = p]
        /\ window' = [window EXCEPT ![p].from = from,
                          ![p].to = WindowEnd(g, from)]
        /\ Goto(p, "claimed")
        /\ UNCHANGED <<blocks, floor, healed, cursor, horizon, retention, gap,
                       todo, late, queue, faults>>

ClaimLost(p) ==
    /\ pc[p] = "nominated"
    /\ ~Claimable(gap[p])
    /\ EndTick(p)
    /\ UNCHANGED <<dbVars, retention, queue, faults>>

\* A claim that fails after taking effect, or a crash, leaves the lease behind.
LeaseLapses(g) ==
    /\ lease[g] # NoProc
    /\ LET p == lease[g]
       IN  \/ pc[p] \in {"idle", "nominated"} \/ gap[p] # g
           \/ late[p] /\ pc[p] \notin Indexing
    /\ lease' = [lease EXCEPT ![g] = NoProc]
    /\ UNCHANGED <<blocks, floor, healed, cursor, horizon, retention, tickVars,
                   queue, faults>>

-----------------------------------------------------------------------------
(***************************************************************************)
(* The window: index what is absent, one block at a time.                  *)
(***************************************************************************)
InWindow(p) == window[p].from..window[p].to

FindMissing(p) ==
    /\ pc[p] = "claimed"
    /\ todo' = [todo EXCEPT ![p] = {n \in InWindow(p) :
                                       n \notin Poison /\ blocks[n] = "absent"}]
    /\ Goto(p, "next")
    /\ UNCHANGED <<dbVars, retention, gap, window, late, queue, faults>>

\* The clock passes the local deadline less LEASE_SAFETY_MS.
RunsLate(p) ==
    /\ pc[p] \notin {"idle", "nominated"} /\ ~late[p]
    /\ late' = [late EXCEPT ![p] = TRUE]
    /\ Fault
    /\ UNCHANGED <<dbVars, retention, pc, gap, window, todo, queue>>

Head(p) == CHOOSE n \in todo[p] : \A m \in todo[p] : n <= m

\* Wrong on purpose: the deadline is not read between two blocks.
MayStartAnyTime(p) == todo[p] # {}
MayStart(p)        == todo[p] # {} /\ ~late[p]

StartBlock(p) ==
    /\ pc[p] = "next" /\ MayStart(p)
    /\ Goto(p, "fetch")
    /\ UNCHANGED <<dbVars, retention, gap, window, todo, late, queue, faults>>

LeaseExpiring(p) ==
    /\ pc[p] = "next" /\ todo[p] # {} /\ late[p]
    /\ EndTick(p)
    /\ UNCHANGED <<dbVars, retention, queue, faults>>

\* The tip cannot be read, or is too far ahead.
YieldsToLag(p) ==
    /\ pc[p] = "next" /\ todo[p] # {}
    /\ EndTick(p)
    /\ Fault
    /\ UNCHANGED <<dbVars, retention, queue>>

InsertRow(p) ==
    /\ pc[p] = "fetch"
    /\ blocks' = [blocks EXCEPT ![Head(p)] = IF @ = "absent" THEN "partial" ELSE @]
    /\ Goto(p, "transactions")
    /\ UNCHANGED <<floor, healed, cursor, lease, horizon, retention, gap,
                   window, todo, late, queue, faults>>

\* The rows refer to the block row: retention may have deleted it meanwhile.
InsertTransactions(p) ==
    /\ pc[p] = "transactions"
    /\ blocks[Head(p)] # "absent"
    /\ blocks' = [blocks EXCEPT ![Head(p)] = "full"]
    /\ Goto(p, "decode")
    /\ UNCHANGED <<floor, healed, cursor, lease, horizon, retention, gap,
                   window, todo, late, queue, faults>>

RowIsGone(p) ==
    /\ pc[p] = "transactions"
    /\ blocks[Head(p)] = "absent"
    /\ EndTick(p)
    /\ UNCHANGED <<dbVars, retention, queue, faults>>

Enqueue(p) ==
    /\ pc[p] = "decode"
    /\ queue' = [queue EXCEPT ![p] = @ \cup {Head(p)}]
    /\ todo' = [todo EXCEPT ![p] = @ \ {Head(p)}]
    /\ Goto(p, "next")
    /\ UNCHANGED <<dbVars, retention, gap, window, late, faults>>

\* No endpoint serves the block, or a write fails half way.
BlockFails(p) ==
    /\ pc[p] \in Indexing
    /\ EndTick(p)
    /\ Fault
    /\ UNCHANGED <<dbVars, retention, queue>>

-----------------------------------------------------------------------------
(***************************************************************************)
(* Drain, verify, advance, stamp.                                          *)
(***************************************************************************)

\* The transfer writer commits what it has; see TransferWriter.
Drain(p) ==
    /\ queue[p] # {}
    /\ queue' = [queue EXCEPT ![p] = {}]
    /\ UNCHANGED <<dbVars, retention, tickVars, faults>>

FlushDone(p) ==
    /\ pc[p] = "next" /\ todo[p] = {} /\ queue[p] = {}
    /\ Goto(p, "verify")
    /\ UNCHANGED <<dbVars, retention, gap, window, todo, late, queue, faults>>

FlushTimesOut(p) ==
    /\ pc[p] = "next" /\ todo[p] = {} /\ queue[p] # {}
    /\ EndTick(p)
    /\ Fault
    /\ UNCHANGED <<dbVars, retention, queue>>

\* Wrong on purpose: a block row is taken for a complete block.
IncompleteByPresence(S) == {n \in S : n \notin Poison /\ blocks[n] = "absent"}
Incomplete(S)           == {n \in S : n \notin Poison /\ blocks[n] # "full"}

Verify(p) ==
    /\ pc[p] = "verify"
    /\ IF Incomplete(InWindow(p)) = {}
       THEN Goto(p, "advance") /\ UNCHANGED <<gap, window, todo, late>>
       ELSE EndTick(p)
    /\ UNCHANGED <<dbVars, retention, queue, faults>>

\* Both writes are fenced by the lease.
Owns(p) == gap[p] \notin healed /\ lease[gap[p]] = p

Advance(p) ==
    LET g == gap[p]
    IN  /\ pc[p] = "advance"
        /\ IF Owns(p)
           THEN cursor' = [cursor EXCEPT ![g] = Larger(@, window[p].to)]
           ELSE UNCHANGED cursor
        /\ IF Owns(p) /\ window[p].to = GapTo[g]
           THEN Goto(p, "stamp") /\ UNCHANGED <<gap, window, todo, late>>
           ELSE EndTick(p)
        /\ UNCHANGED <<blocks, floor, healed, lease, horizon, retention, queue,
                       faults>>

\* Wrong on purpose: the stamp forgives what the verification forgives.
DenseButForPoison(S) == Incomplete(S) = {}
Dense(S)             == \A n \in S : blocks[n] = "full"

Stamp(p) ==
    LET g == gap[p]
    IN  /\ pc[p] = "stamp"
        /\ healed' = IF Owns(p) /\ Dense(window[p].verify..GapTo[g])
                     THEN healed \cup {g} ELSE healed
        /\ EndTick(p)
        /\ UNCHANGED <<blocks, floor, cursor, lease, horizon, retention, queue,
                       faults>>

\* A statement of the tick fails; it rejects and the next interval retries.
StatementFails(p) ==
    /\ pc[p] \in {"nominated", "claimed", "verify", "advance", "stamp"}
    /\ EndTick(p)
    /\ Fault
    /\ UNCHANGED <<dbVars, retention, queue>>

Crash(p) ==
    /\ EndTick(p)
    /\ queue' = [queue EXCEPT ![p] = {}]
    /\ Fault
    /\ UNCHANGED <<dbVars, retention>>

-----------------------------------------------------------------------------
(***************************************************************************)
(* Retention publishes its cutoff, then deletes below it, transactions     *)
(* before the block rows without any.  It deletes also when the cutoff     *)
(* could not be published; the next run tries again.                       *)
(***************************************************************************)
RetentionRuns(c) ==
    /\ ~pruning
    /\ c > cutoff \/ (c = cutoff /\ floor < c)
    /\ cutoff' = c
    /\ pruning' = TRUE
    /\ \/ floor' = Larger(floor, c) /\ UNCHANGED faults
       \/ floor' = floor /\ Fault
    /\ UNCHANGED <<blocks, healed, cursor, lease, horizon, tickVars, queue>>

Prune(n) ==
    /\ pruning
    /\ n < cutoff
    /\ blocks[n] # "absent"
    /\ blocks' = [blocks EXCEPT ![n] = IF @ = "full" THEN "partial" ELSE "absent"]
    /\ UNCHANGED <<floor, healed, cursor, lease, horizon, retention, tickVars,
                   queue, faults>>

RetentionEnds ==
    /\ pruning
    /\ pruning' = FALSE
    /\ UNCHANGED <<dbVars, cutoff, tickVars, queue, faults>>

\* The chain and the live loop move on.
HorizonMoves ==
    /\ horizon <= MaxHeight
    /\ horizon' = horizon + 1
    /\ UNCHANGED <<blocks, floor, healed, cursor, lease, retention, tickVars,
                   queue, faults>>

-----------------------------------------------------------------------------
Tick(p) ==
    \/ IdleTick(p) \/ Nominate(p) \/ Claim(p) \/ ClaimLost(p)
    \/ FindMissing(p) \/ StartBlock(p) \/ LeaseExpiring(p) \/ InsertRow(p)
    \/ InsertTransactions(p) \/ RowIsGone(p) \/ Enqueue(p)
    \/ FlushDone(p) \/ Verify(p) \/ Advance(p) \/ Stamp(p)

Next ==
    \/ \E p \in Procs :
           \/ Tick(p) \/ Drain(p) \/ Crash(p) \/ RunsLate(p) \/ YieldsToLag(p)
           \/ BlockFails(p) \/ FlushTimesOut(p) \/ StatementFails(p)
    \/ \E g \in Gaps : LeaseLapses(g)
    \/ \E c \in Cutoffs : RetentionRuns(c)
    \/ \E n \in Heights : Prune(n)
    \/ RetentionEnds
    \/ HorizonMoves

Spec == Init /\ [][Next]_vars

\* The interval timer ticks, every await of a tick settles (the flush is
\* bounded), the writer drains, clocks pass leases, retention ends and runs
\* again, the chain grows.
Fairness ==
    /\ \A p \in Procs : WF_vars(Tick(p))
    /\ WF_vars(\E p \in Procs : Drain(p))
    /\ WF_vars(\E g \in Gaps : LeaseLapses(g))
    /\ WF_vars(RetentionEnds \/ RetentionRuns(cutoff))
    /\ WF_vars(HorizonMoves)

FairSpec == Spec /\ Fairness

-----------------------------------------------------------------------------
(***************************************************************************)
(* Properties.                                                             *)
(***************************************************************************)

(***************************************************************************)
(* A height that retention keeps is indexed by one process at a time, and  *)
(* only when it has no row: the healer never replays the side effects of   *)
(* a block that is there, although ranges overlap and a nomination may be  *)
(* old when it is claimed (gap-healer.ts:170-181, 313-322, 406-424).  It   *)
(* takes that no range lies inside a longer one: that one is too recent to *)
(* be nominated until its own end is, and is the oldest then.              *)
(***************************************************************************)
FirstWriteOnly ==
    \A p \in Procs :
        pc[p] \in Indexing /\ Head(p) >= cutoff =>
            /\ pc[p] = "fetch" => blocks[Head(p)] = "absent"
            /\ \A q \in Procs \ {p} : pc[q] \in Indexing => Head(q) # Head(p)

(***************************************************************************)
(* A stamped range is complete where retention keeps it, and stays so:     *)
(* no stamp rests on a proof that a quarantined hole, a half-written       *)
(* block, a lapsed lease or a newer floor made stale                       *)
(* (gap-healer.ts:396-402, 548-569).                                       *)
(***************************************************************************)
StampedComplete ==
    \A g \in healed : \A n \in g..GapTo[g] : n >= cutoff => blocks[n] = "full"

(***************************************************************************)
(* The durable cursor has behind it only complete or quarantined blocks,   *)
(* so that a later tick that starts above it misses nothing                *)
(* (gap-healer.ts:361-366, 514-533).                                       *)
(***************************************************************************)
CursorVerified ==
    \A g \in Gaps : \A n \in g..cursor[g] :
        n >= cutoff => blocks[n] = "full" \/ n \in Poison

\* A half-written block in the next window while an absent one lies beyond:
\* the cursor cannot pass, and the range stays selected.
HoldsTheQueue(g) ==
    LET from == Larger(Larger(g, floor), cursor[g] + 1)
    IN  /\ InScope(g) /\ Executable(g) # {}
        /\ \E n \in from..(from + BatchSize - 1) :
               n \in Heights \ Poison /\ blocks[n] = "partial"

Settled(g) ==
    \/ ~InScope(g)
    \/ /\ Executable(g) = {}
       /\ \E n \in Retained(g) : blocks[n] # "full"

(***************************************************************************)
(* Every range that is old enough is healed or ages out, unless only       *)
(* blocks that the healer must not touch are wrong with it: neither a      *)
(* quarantined hole, a lease that a dead process left, nor a slow tick     *)
(* starves a later range (gap-healer.ts:200-232).  The exception is        *)
(* HoldsTheQueue.                                                          *)
(***************************************************************************)
RangesSettle ==
    \/ <>[](\A g \in Gaps : Settled(g))
    \/ <>[](\E g \in Gaps : HoldsTheQueue(g))
=============================================================================
