--------------------------- MODULE ProviderBudget ---------------------------
(***************************************************************************)
(* What calls to the data provider may cost (packages/providers/src/       *)
(* moralis.ts): the processes of a deployment admit a call against one     *)
(* ledger in Redis, or each against a ledger of its own in memory, and     *)
(* cache what comes back.  The ledger counts compute units by month and    *)
(* calls by window in each bucket (the hourly and the daily window are     *)
(* alike, and one stands for both).                                        *)
(*                                                                         *)
(* A counter is a Redis key with a time to live, or a field with the start *)
(* of its window.  Each bucket has one response; its key in the cache is   *)
(* the same everywhere.  The provider bills a call when it is sent.  A     *)
(* process has any number of calls in flight at once.                      *)
(***************************************************************************)
EXTENDS Integers, FiniteSets, Functions

CONSTANTS
    Client,         \* processes of the explorer and the indexer
    Shared,         \* those with REDIS_URL
    Request,        \* calls that are in flight together
    ProcOf,         \* call -> the process that makes it
    Bucket,
    CostOf,         \* bucket -> CU_COST of a call
    MonthlyMax, WindowMax,
    MaxMonths,      \* bound: billing cycles
    MaxBlips        \* bound: lost answers, damaged keys, restarts

ASSUME BudgetAssumption ==
    /\ Shared \subseteq Client
    /\ IsFiniteSet(Request) /\ ProcOf \in [Request -> Client]
    /\ CostOf \in [Bucket -> Nat \ {0}]
    /\ MonthlyMax \in Nat /\ WindowMax \in Nat
    /\ MaxMonths \in Nat \ {0} /\ MaxBlips \in Nat

\* Redis, and the memory of every process without it.
Ledgers == (IF Shared = {} THEN {} ELSE {Shared}) \cup {{p} : p \in Client \ Shared}
LedgerOf(c) == IF ProcOf[c] \in Shared THEN Shared ELSE {ProcOf[c]}

Cu == <<"cu", "">>
Calls(b) == <<"calls", b>>
Keys == {Cu} \cup {Calls(b) : b \in Bucket}
Damaged == -1       \* a value INCRBY refuses

VARIABLES
    counter,        \* ledger -> key -> number, 0 without the key
    mortal,         \* ledger -> its keys with a time to live
    response,       \* bucket -> "none" or "cached"
    ask,            \* call -> where it is, its bucket, the month it was admitted in
    month,          \* the billing cycle
    billed,         \* ledger -> units billed this month for calls it admitted this month
    late,           \* ledger -> for calls it had admitted the month before
    carried,        \* ledger -> units of its calls in flight when the month turned
    forgotten,      \* ledger -> times its units of this month were lost
    blips

pbVars == <<counter, mortal, response, ask, month, billed, late, carried, forgotten, blips>>

NotAsking == [at |-> "idle", bucket |-> "", month |-> 0]
NoUnits == [l \in Ledgers |-> 0]

ProviderBudgetInit ==
    /\ counter = [l \in Ledgers |-> [k \in Keys |-> 0]]
    /\ mortal = [l \in Ledgers |-> {}]
    /\ response = [b \in Bucket |-> "none"]
    /\ ask = [c \in Request |-> NotAsking]
    /\ month = 1
    /\ billed = NoUnits /\ late = NoUnits /\ carried = NoUnits /\ forgotten = NoUnits
    /\ blips = 0

Blip == blips < MaxBlips /\ blips' = blips + 1

Is(c, stage, b) == ask[c].at = stage /\ ask[c].bucket = b
Rest(c) == ask' = [ask EXCEPT ![c] = NotAsking]

\* The units of a ledger's calls that were admitted in one of the months M and
\* are about to be sent.
Months == 0..MaxMonths
Users(l) == {c \in Request : LedgerOf(c) = l}
Units(l, M) ==
    SumFunction([c \in {d \in Users(l) : ask[d].at = "send" /\ ask[d].month \in M}
                    |-> CostOf[ask[c].bucket]])
InFlight(l) == Units(l, {month})

-----------------------------------------------------------------------------
(* The ledger. *)

KeysOf(b) == {Cu, Calls(b)}

\* The counters as the script reads them: damaged ones are deleted.
Read(l, k) == IF counter[l][k] = Damaged THEN 0 ELSE counter[l][k]
Cleaned(l, b) == [k \in Keys |-> IF k \in KeysOf(b) THEN Read(l, k) ELSE counter[l][k]]

Admits(l, b) ==
    /\ Read(l, Cu) + CostOf[b] <= MonthlyMax
    /\ Read(l, Calls(b)) + 1 <= WindowMax

Debited(l, b) ==
    [k \in Keys |-> Cleaned(l, b)[k] + (IF k = Cu THEN CostOf[b]
                                        ELSE IF k \in KeysOf(b) THEN 1 ELSE 0)]

\* ADMIT_LUA and isRateLimitedMemory: all ceilings before any debit.
DebitFirst(l, b) ==  \* Wrong on purpose: the units of a refused call are kept.
    /\ counter' = [counter EXCEPT ![l] =
          IF Admits(l, b) THEN Debited(l, b)
          ELSE [Cleaned(l, b) EXCEPT ![Cu] = @ + CostOf[b]]]
    /\ mortal' = [mortal EXCEPT ![l] = @ \cup KeysOf(b)]
Debit(l, b) ==
    IF Admits(l, b)
    THEN /\ counter' = [counter EXCEPT ![l] = Debited(l, b)]
         /\ mortal' = [mortal EXCEPT ![l] = @ \cup KeysOf(b)]
    ELSE /\ counter' = [counter EXCEPT ![l] = Cleaned(l, b)]
         /\ mortal' = [mortal EXCEPT ![l] = @ \ {k \in KeysOf(b) : counter[l][k] = Damaged}]

Admitted(c, b) == ask' = [ask EXCEPT ![c] = [at |-> "send", bucket |-> b, month |-> month]]

-----------------------------------------------------------------------------
(* A call: the methods of the adapter. *)

\* A cached answer, good or bad, costs nothing.
LookUpCache(c, b) ==
    /\ ask[c].at = "idle" /\ response[b] = "none"
    /\ ask' = [ask EXCEPT ![c] = [NotAsking EXCEPT !.at = "acquire", !.bucket = b]]
    /\ UNCHANGED <<counter, mortal, response, month, billed, late, carried, forgotten, blips>>

isRateLimited(c, b) ==
    /\ Is(c, "acquire", b)
    /\ Debit(LedgerOf(c), b)
    /\ IF Admits(LedgerOf(c), b) THEN Admitted(c, b) ELSE Rest(c)
    /\ UNCHANGED <<response, month, billed, late, carried, forgotten, blips>>

\* A Redis that does not answer refuses; the script may have run.
FallBack(c, b) ==  \* Wrong on purpose: the empty ledger in memory admits the call.
    /\ Is(c, "acquire", b) /\ ProcOf[c] \in Shared /\ Blip
    /\ Admitted(c, b)
    /\ UNCHANGED <<counter, mortal, response, month, billed, late, carried, forgotten>>
Unreachable(c, b) ==
    /\ Is(c, "acquire", b) /\ ProcOf[c] \in Shared /\ Blip
    /\ Debit(LedgerOf(c), b) \/ UNCHANGED <<counter, mortal>>
    /\ Rest(c)
    /\ UNCHANGED <<response, month, billed, late, carried, forgotten>>

\* The request is billed; an answer is cached, an error status too (as a
\* negative one, for a shorter time), an exception not at all.
CallProvider(c, b) ==
    /\ Is(c, "send", b)
    /\ LET l == LedgerOf(c) IN
       IF ask[c].month = month
       THEN billed' = [billed EXCEPT ![l] = @ + CostOf[b]] /\ UNCHANGED late
       ELSE late' = [late EXCEPT ![l] = @ + CostOf[b]] /\ UNCHANGED billed
    /\ \E r \in {response[b], "cached"} : response' = [response EXCEPT ![b] = r]
    /\ Rest(c)
    /\ UNCHANGED <<counter, mortal, month, carried, forgotten, blips>>

-----------------------------------------------------------------------------
(* Time and failures. *)

ResponseExpires(b) ==
    /\ response[b] # "none"
    /\ response' = [response EXCEPT ![b] = "none"]
    /\ UNCHANGED <<counter, mortal, ask, month, billed, late, carried, forgotten, blips>>

\* The time to live of a window is over (rollMemWindows in memory).
WindowEnds(l, k) ==
    /\ k # Cu /\ k \in mortal[l]
    /\ counter' = [counter EXCEPT ![l][k] = 0]
    /\ mortal' = [mortal EXCEPT ![l] = @ \ {k}]
    /\ UNCHANGED <<response, ask, month, billed, late, carried, forgotten, blips>>

\* cuKey names the month, so a new one starts from nothing.
MonthTurns ==
    /\ month < MaxMonths
    /\ \A c \in Request : ask[c].at = "send" => ask[c].month = month
    /\ month' = month + 1
    /\ counter' = [l \in Ledgers |-> [counter[l] EXCEPT ![Cu] = 0]]
    /\ mortal' = [l \in Ledgers |-> mortal[l] \ {Cu}]
    /\ billed' = NoUnits /\ late' = NoUnits /\ forgotten' = NoUnits
    /\ carried' = [l \in Ledgers |-> InFlight(l)]
    /\ UNCHANGED <<response, ask, blips>>

\* Somebody else writes over a key.
Damage(k) ==
    /\ Shared # {} /\ Blip
    /\ counter' = [counter EXCEPT ![Shared][k] = Damaged]
    /\ forgotten' = [forgotten EXCEPT ![Shared] = IF k = Cu THEN @ + 1 ELSE @]
    /\ UNCHANGED <<mortal, response, ask, month, billed, late, carried>>

\* A process takes all its calls with it, and its ledger if that is in memory.
Restart(p) ==
    /\ Blip
    /\ ask' = [c \in Request |-> IF ProcOf[c] = p THEN NotAsking ELSE ask[c]]
    /\ IF p \in Shared THEN UNCHANGED <<counter, mortal, forgotten>>
       ELSE /\ counter' = [counter EXCEPT ![{p}] = [k \in Keys |-> 0]]
            /\ mortal' = [mortal EXCEPT ![{p}] = {}]
            /\ forgotten' = [forgotten EXCEPT ![{p}] = @ + 1]
    /\ UNCHANGED <<response, month, billed, late, carried>>

ProviderBudgetNext ==
    \/ \E c \in Request, b \in Bucket :
          \/ LookUpCache(c, b) \/ isRateLimited(c, b) \/ Unreachable(c, b)
          \/ CallProvider(c, b)
    \/ \E p \in Client : Restart(p)
    \/ \E b \in Bucket : ResponseExpires(b)
    \/ \E l \in Ledgers, k \in Keys : WindowEnds(l, k)
    \/ \E k \in Keys : Damage(k)
    \/ MonthTurns

ProviderBudgetSpec == ProviderBudgetInit /\ [][ProviderBudgetNext]_pbVars

-----------------------------------------------------------------------------
(* Properties. *)

ProviderBudgetTypeOK ==
    /\ counter \in [Ledgers -> [Keys -> Nat \cup {Damaged}]]
    /\ mortal \in [Ledgers -> SUBSET Keys]
    /\ response \in [Bucket -> {"none", "cached"}]
    /\ ask \in [Request -> [at : {"idle", "acquire", "send"}, bucket : Bucket \cup {""},
                        month : Months]]
    /\ month \in 1..MaxMonths
    /\ {billed, late, carried, forgotten} \subseteq [Ledgers -> Nat]
    /\ blips \in Nat

(***************************************************************************)
(* A ledger admits no more units in a month than its ceiling, and a fresh  *)
(* ceiling for every time its count was lost (moralis.ts:321-345,          *)
(* 559-600), whatever is lost, refused or restarted: on top come only the  *)
(* calls that were in flight when the month turned (moralis.ts:557-561),   *)
(* each once.                                                              *)
(***************************************************************************)
BillBounded ==
    \A l \in Ledgers :
        /\ billed[l] + InFlight(l) <= MonthlyMax * (1 + forgotten[l])
        /\ late[l] + Units(l, Months \ {month}) <= carried[l]

(***************************************************************************)
(* The ledger is exact (moralis.ts:465-500): it holds every unit of the    *)
(* month that was sent or is about to be, unless its count was lost, and   *)
(* until something fails it holds nothing else, so a refusal leaves no     *)
(* debit behind; and every count it holds will expire.                     *)
(***************************************************************************)
LedgerExact ==
    \A l \in Ledgers :
        LET spent == billed[l] + InFlight(l) IN
        /\ forgotten[l] = 0 => spent <= counter[l][Cu]
        /\ blips = 0 => spent = counter[l][Cu]
        /\ \A k \in Keys : counter[l][k] > 0 => k \in mortal[l]
=============================================================================
