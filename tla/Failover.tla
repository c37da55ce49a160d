------------------------------ MODULE Failover ------------------------------
(***************************************************************************)
(* RPC failover and endpoint health (apps/indexer/src/rpc-failover.ts and  *)
(* endpoint-health.ts): concurrent calls try the endpoints one after the   *)
(* other, a block only until its first durable write, and share one record *)
(* of which endpoint keeps failing at what.                                *)
(*                                                                         *)
(* A failed attempt stands for a rejected request and for one that timed   *)
(* out: what a timed-out request answers later is ignored, since both      *)
(* timeouts end before anything is written.  The record compares a streak  *)
(* only with demoteAfter, where it is cut off here, and cooldowns only end *)
(* (their lengths are left out).                                           *)
(***************************************************************************)
EXTENDS Integers, Sequences, FiniteSets

CONSTANTS
    Endpoints,      \* the configured providers, in order
    Unable,         \* kind -> endpoints that never serve it
    Caller,         \* calls that run at once
    KindOfCall,     \* caller -> "block" (processWithFailover) or "read"
    StartOf,        \* caller -> startIdx
    DemoteAfter,
    MaxLapses       \* bound: cooldowns that end

Endpoint == {Endpoints[i] : i \in 1..Len(Endpoints)}
Kinds == {"block", "read"}

ASSUME FailoverAssumption ==
    /\ Endpoints \in Seq(Endpoint) /\ Endpoints # <<>>
    /\ Cardinality(Endpoint) = Len(Endpoints)
    /\ Unable \in [Kinds -> SUBSET Endpoint]
    /\ KindOfCall \in [Caller -> Kinds] /\ StartOf \in [Caller -> Nat]
    /\ DemoteAfter \in Nat \ {0} /\ MaxLapses \in Nat

VARIABLES
    health,         \* kind -> endpoint -> its State in the map of that kind
    call,           \* caller -> the call it is in, or its result
    lapses          \* kind -> endpoint -> cooldowns ended since it last served

foVars == <<health, call, lapses>>

Healthy == [streak |-> 0, waves |-> 0, cooling |-> FALSE]
Results == {"ok", "exhausted-clean", "aborted-dirty", "unknown"}

\* left: the endpoints still to try; by: those that wrote rows of this call.
Resting(result) == [at |-> result, left |-> <<>>, tried |-> {}, by |-> {}]

FailoverInit ==
    /\ health = [k \in Kinds |-> [p \in Endpoint |-> Healthy]]
    /\ lapses = [k \in Kinds |-> [p \in Endpoint |-> 0]]
    /\ call = [c \in Caller |-> Resting("ok")]

-----------------------------------------------------------------------------
(* Endpoint health. *)

Demoted(p, k) == health[k][p].streak >= DemoteAfter /\ health[k][p].cooling

\* The endpoints in rotation from start, the healthy ones before the demoted
\* ones, all from one snapshot: the one arrangement of them all that fits.
orderHealthyOnly(start, k) ==  \* Wrong on purpose: a demoted endpoint is dropped.
    LET rotated == [i \in 1..Len(Endpoints) |-> Endpoints[1 + ((start + i - 1) % Len(Endpoints))]]
        Up(p) == ~Demoted(p, k)
    IN  {SelectSeq(rotated, Up)}
order(start, k) ==
    LET n == Len(Endpoints)
        turn(p) == CHOOSE i \in 1..n : Endpoints[1 + ((start + i - 1) % n)] = p
        Before(p, q) == IF Demoted(p, k) = Demoted(q, k) THEN turn(p) < turn(q) ELSE Demoted(q, k)
    IN  {s \in [1..n -> Endpoint] :
            /\ {s[i] : i \in 1..n} = Endpoint
            /\ \A i, j \in 1..n : i < j => Before(s[i], s[j])}

recordSuccessShared(p, k) ==  \* Wrong on purpose: any success clears the streak of every kind.
    /\ health' = [j \in Kinds |-> [health[j] EXCEPT ![p] = Healthy]]
    /\ lapses' = [j \in Kinds |-> [lapses[j] EXCEPT ![p] = 0]]
recordSuccess(p, k) ==
    /\ health' = [health EXCEPT ![k][p] = Healthy]
    /\ lapses' = [lapses EXCEPT ![k][p] = 0]

\* A wave counts only when a demotion had run out before it.
recordEachFailure(p, k) ==  \* Wrong on purpose: every failure of a demoted endpoint is a wave.
    /\ health' = [health EXCEPT ![k][p] =
          [streak |-> IF @.streak < DemoteAfter THEN @.streak + 1 ELSE DemoteAfter,
           waves |-> @.waves + (IF @.streak >= DemoteAfter THEN 1 ELSE 0),
           cooling |-> TRUE]]
    /\ UNCHANGED lapses
recordFailure(p, k) ==
    /\ health' = [health EXCEPT ![k][p] =
          [streak |-> IF @.streak < DemoteAfter THEN @.streak + 1 ELSE DemoteAfter,
           waves |-> @.waves + (IF @.streak >= DemoteAfter /\ ~@.cooling THEN 1 ELSE 0),
           cooling |-> TRUE]]
    /\ UNCHANGED lapses

\* Enough time has passed since the last failure (it makes no difference to a
\* shorter streak).
CoolDown(p, k) ==
    /\ Demoted(p, k)
    /\ lapses[k][p] < MaxLapses
    /\ lapses' = [lapses EXCEPT ![k][p] = @ + 1]
    /\ health' = [health EXCEPT ![k][p].cooling = FALSE]
    /\ UNCHANGED call

-----------------------------------------------------------------------------
(* Calls. *)

Now(c) == Head(call[c].left)

Begin(c) ==
    /\ call[c].at \in Results
    /\ \E left \in order(StartOf[c], KindOfCall[c]) :
          call' = [call EXCEPT ![c] = [at |-> "try", left |-> left, tried |-> {}, by |-> {}]]
    /\ UNCHANGED <<health, lapses>>

End(c, result) == call' = [call EXCEPT ![c] = Resting(result)]

\* To the next endpoint; after the last one the call has failed without a write.
TryNext(c) ==
    call' = [call EXCEPT ![c] =
        [at    |-> IF Len(call[c].left) > 1 THEN "try"
                   ELSE IF KindOfCall[c] = "block" THEN "exhausted-clean"
                   ELSE "unknown",
         left  |-> Tail(call[c].left),
         tried |-> call[c].tried \cup {Now(c)},
         by    |-> call[c].by]]

\* The request is answered: a read has its value, a block its first write.
Served(c) ==
    /\ call[c].at = "try" /\ Now(c) \notin Unable[KindOfCall[c]]
    /\ IF KindOfCall[c] = "block"
       THEN /\ call' = [call EXCEPT ![c].at = "writing", ![c].by = @ \cup {Now(c)}]
            /\ UNCHANGED <<health, lapses>>
       ELSE End(c, "ok") /\ recordSuccess(Now(c), "read")

\* The endpoint refuses or lets the timeout pass.
Refused(c) ==
    /\ call[c].at = "try"
    /\ recordFailure(Now(c), KindOfCall[c])
    /\ TryNext(c)

\* The attempt fails for another reason than the endpoint (the database).
Faulted(c) ==
    /\ call[c].at = "try"
    /\ IF KindOfCall[c] = "block" THEN TryNext(c) ELSE End(c, "unknown")
    /\ UNCHANGED <<health, lapses>>

Written(c) ==
    /\ call[c].at = "writing"
    /\ End(c, "ok")
    /\ recordSuccess(Now(c), "block")

\* A failure after the first write proves nothing about the endpoint.
WriteFailedRetried(c) ==  \* Wrong on purpose: the next endpoint replays the block.
    /\ call[c].at = "writing"
    /\ TryNext(c)
    /\ UNCHANGED <<health, lapses>>
WriteFailed(c) ==
    /\ call[c].at = "writing"
    /\ End(c, "aborted-dirty")
    /\ UNCHANGED <<health, lapses>>

FailoverNext ==
    \/ \E c \in Caller : \/ Begin(c) \/ Served(c) \/ Refused(c) \/ Faulted(c)
                         \/ Written(c) \/ WriteFailed(c)
    \/ \E p \in Endpoint, k \in Kinds : CoolDown(p, k)

FailoverSpec == FailoverInit /\ [][FailoverNext]_foVars

-----------------------------------------------------------------------------
(* Properties. *)

FailoverTypeOK ==
    /\ health \in [Kinds -> [Endpoint -> [streak : 0..DemoteAfter, waves : Nat, cooling : BOOLEAN]]]
    /\ call \in [Caller -> [at : Results \cup {"try", "writing"}, left : Seq(Endpoint),
                           tried : SUBSET Endpoint, by : SUBSET Endpoint]]
    /\ lapses \in [Kinds -> [Endpoint -> 0..MaxLapses]]

(***************************************************************************)
(* A block is never spliced from two endpoints and a failure is called     *)
(* clean only if every endpoint was tried and none of them wrote           *)
(* (rpc-failover.ts:118-135, 189-192): the poison bookkeeping may write    *)
(* such a block off, demoted endpoints included in what was tried.         *)
(***************************************************************************)
CleanMeansUntouched ==
    \A c \in Caller :
        /\ Cardinality(call[c].by) <= 1
        /\ call[c].at = "exhausted-clean" => call[c].by = {} /\ call[c].tried = Endpoint

(***************************************************************************)
(* Calls that fail together cost an endpoint one doubling of its cooldown: *)
(* since it last served, it has been charged at most one wave per demotion *)
(* that ran out (endpoint-health.ts:151-171).                              *)
(***************************************************************************)
WavesPerLapse ==
    \A k \in Kinds, p \in Endpoint : health[k][p].waves <= lapses[k][p]

(***************************************************************************)
(* Answers to tip reads do not heal an endpoint that cannot serve blocks   *)
(* (endpoint-health.ts:71-86): its streak of failed blocks never shrinks.  *)
(***************************************************************************)
ReadsHealNoBlocks ==
    [][\A p \in Unable["block"] : health'["block"][p].streak >= health["block"][p].streak]_foVars
=============================================================================
