----------------------------- MODULE RemoteProofs -----------------------------
(***************************************************************************)
(* Theorems about the services that are reached over a network and may not *)
(* answer: the RPC endpoints (Failover), the API of the hosting platform   *)
(* (DiskSync), the data provider and the ledger of what it may cost        *)
(* (ProviderBudget), and the settings API behind the operators' consoles   *)
(* (Settings), for every value of the constants.                           *)
(***************************************************************************)
EXTENDS Failover, DiskSync, ProviderBudget, Settings, SumProofs, SequenceTheorems

(***************************************************************************)
(* Failover: any endpoints, callers and lapses.                            *)
(***************************************************************************)

Records == [streak : 0..DemoteAfter, waves : Nat, cooling : BOOLEAN]
CallStates == [at : Results \cup {"try", "writing"}, left : Seq(Endpoint),
               tried : SUBSET Endpoint, by : SUBSET Endpoint]

Untried(s) == {s.left[i] : i \in 1..Len(s.left)}

\* Whatever call s is at: what it has tried and what is left are all endpoints,
\* nothing is written while another one may be tried, and by one of them at most.
CallFits(s, kind) ==
    /\ s.at \in {"try", "writing"} => s.left # <<>>
    /\ s.at = "try" => s.by = {} /\ Endpoint \subseteq s.tried \cup Untried(s)
    /\ s.at = "writing" => /\ s.by = {Head(s.left)} /\ kind = "block"
                           /\ Head(s.left) \notin Unable[kind]
    /\ s.at \in Results => s.by = {}
    /\ s.at = "exhausted-clean" => s.tried = Endpoint

CallsFit == \A c \in Caller : CallFits(call[c], KindOfCall[c])

\* A demotion that ran out is a lapse no wave was charged for yet.
RecordFits(r, n) ==
    /\ r.waves <= n
    /\ r.streak >= DemoteAfter /\ ~r.cooling => r.waves < n

RecordsFit == \A k \in Kinds, p \in Endpoint : RecordFits(health[k][p], lapses[k][p])

FailoverInv == FailoverTypeOK /\ CallsFit /\ RecordsFit

(***************************************************************************)
(* A call that moves to a fitting state keeps what is known of the calls.  *)
(***************************************************************************)
LEMMA CallMoves ==
    ASSUME FailoverInv, NEW c \in Caller, NEW s \in CallStates, CallFits(s, KindOfCall[c]),
           call' = [call EXCEPT ![c] = s]
    PROVE  call' \in [Caller -> CallStates] /\ CallsFit'
    BY DEF FailoverInv, FailoverTypeOK, CallStates, CallsFit

(***************************************************************************)
(* One record of endpoint health moves, with its count of lapses.          *)
(***************************************************************************)
LEMMA RecordMoves ==
    ASSUME FailoverInv, NEW p \in Endpoint, NEW k \in Kinds, NEW r \in Records,
           NEW n \in 0..MaxLapses, RecordFits(r, n),
           health' = [health EXCEPT ![k][p] = r],
           lapses' = [lapses EXCEPT ![k][p] = n]
    PROVE  /\ health' \in [Kinds -> [Endpoint -> Records]]
           /\ lapses' \in [Kinds -> [Endpoint -> 0..MaxLapses]]
           /\ RecordsFit'
<1>1. /\ health \in [Kinds -> [Endpoint -> Records]]
      /\ lapses \in [Kinds -> [Endpoint -> 0..MaxLapses]]
    BY DEF FailoverInv, FailoverTypeOK, Records
<1>2. \A j \in Kinds, q \in Endpoint :
         /\ health'[j][q] = IF j = k /\ q = p THEN r ELSE health[j][q]
         /\ lapses'[j][q] = IF j = k /\ q = p THEN n ELSE lapses[j][q]
    BY <1>1
<1>3. RecordsFit'
    BY <1>2 DEF FailoverInv, RecordsFit
<1> QED
    BY <1>1, <1>3

\* A success forgives everything, a failure charges a wave for a lapse at most.
LEMMA SuccessMoves ==
    ASSUME FailoverInv, NEW p \in Endpoint, NEW k \in Kinds, recordSuccess(p, k)
    PROVE  /\ health' \in [Kinds -> [Endpoint -> Records]]
           /\ lapses' \in [Kinds -> [Endpoint -> 0..MaxLapses]]
           /\ RecordsFit'
<1>1. Healthy \in Records /\ 0 \in 0..MaxLapses /\ RecordFits(Healthy, 0)
    BY FailoverAssumption DEF Healthy, Records, RecordFits
<1> QED
    BY <1>1, RecordMoves DEF recordSuccess

\* recordFailure: one more in the streak up to the threshold, one more wave past it.
LEMMA FailureMoves ==
    ASSUME FailoverInv, NEW p \in Endpoint, NEW k \in Kinds, recordFailure(p, k)
    PROVE  /\ health' \in [Kinds -> [Endpoint -> Records]]
           /\ lapses' \in [Kinds -> [Endpoint -> 0..MaxLapses]]
           /\ RecordsFit'
<1> DEFINE h == health[k][p]
           r == [streak |-> IF h.streak < DemoteAfter THEN h.streak + 1 ELSE DemoteAfter,
                 waves |-> h.waves + (IF h.streak >= DemoteAfter /\ ~h.cooling THEN 1 ELSE 0),
                 cooling |-> TRUE]
<1>1. /\ health \in [Kinds -> [Endpoint -> Records]]
      /\ lapses \in [Kinds -> [Endpoint -> 0..MaxLapses]]
      /\ h \in Records /\ RecordFits(h, lapses[k][p])
    BY DEF FailoverInv, FailoverTypeOK, Records, RecordsFit
<1>2. r \in Records
    BY <1>1, FailoverAssumption DEF Records
<1>3. RecordFits(r, lapses[k][p])
    <2>1. CASE h.streak >= DemoteAfter /\ ~h.cooling
        BY <1>1, <2>1 DEF Records, RecordFits
    <2>2. CASE ~(h.streak >= DemoteAfter /\ ~h.cooling)
        BY <1>1, <2>2 DEF Records, RecordFits
    <2> QED
        BY <2>1, <2>2
<1>4. health' = [health EXCEPT ![k][p] = r]
    BY <1>1 DEF recordFailure
<1>5. lapses' = [lapses EXCEPT ![k][p] = lapses[k][p]]
    BY <1>1 DEF recordFailure
<1>6. lapses[k][p] \in 0..MaxLapses
    BY <1>1
<1> HIDE DEF r
<1> QED
    BY <1>2, <1>3, <1>4, <1>5, <1>6, RecordMoves

(***************************************************************************)
(* What the arrangement of the endpoints and the step to the next one      *)
(* promise: none is left out.                                              *)
(***************************************************************************)
LEMMA OrderIsComplete ==
    ASSUME NEW start, NEW k, NEW s \in order(start, k)
    PROVE  s \in Seq(Endpoint) /\ s # <<>> /\ Endpoint = {s[i] : i \in 1..Len(s)}
<1>1. Len(Endpoints) \in Nat \ {0}
    BY FailoverAssumption
<1>2. s \in [1..Len(Endpoints) -> Endpoint] /\ {s[i] : i \in 1..Len(Endpoints)} = Endpoint
    BY DEF order
<1>3. s \in Seq(Endpoint) /\ Len(s) = Len(Endpoints)
    BY <1>1, <1>2
<1> QED
    BY <1>1, <1>2, <1>3

\* More than one endpoint left to try means one more after this.
LEMMA LongTail ==
    ASSUME NEW S, NEW s \in Seq(S), Len(s) > 1
    PROVE  Tail(s) # <<>>
<1> DEFINE t == Tail(s)
           n == Len(s)
<1>1. n \in Nat /\ n > 1 /\ Len(t) = n - 1
    OBVIOUS
<1>2. Len(<<>>) = 0
    OBVIOUS
<1> HIDE DEF t, n
<1>3. t # <<>>
    BY <1>1, <1>2
<1> QED
    BY <1>3 DEF t

\* A failed attempt goes on to the next endpoint, or ends with the verdict of its kind.
LEMMA TryNextMoves ==
    ASSUME FailoverInv, NEW c \in Caller, call[c].at = "try", TryNext(c)
    PROVE  call' \in [Caller -> CallStates] /\ CallsFit'
<1> DEFINE s == call[c]
           ended == IF KindOfCall[c] = "block" THEN "exhausted-clean" ELSE "unknown"
           next == [at |-> IF Len(s.left) > 1 THEN "try" ELSE ended, left |-> Tail(s.left),
                    tried |-> s.tried \cup {Head(s.left)}, by |-> s.by]
<1>1. s \in CallStates /\ CallFits(s, KindOfCall[c]) /\ s.at = "try"
    BY DEF FailoverInv, FailoverTypeOK, CallStates, CallsFit
<1>2. /\ s.left \in Seq(Endpoint) /\ s.left # <<>> /\ s.by = {}
      /\ Endpoint \subseteq s.tried \cup Untried(s)
    BY <1>1 DEF CallFits, CallStates
<1>3. /\ Head(s.left) \in Endpoint /\ Tail(s.left) \in Seq(Endpoint)
      /\ Head(s.left) = s.left[1] /\ Len(Tail(s.left)) = Len(s.left) - 1
      /\ \A i \in 1..Len(Tail(s.left)) : Tail(s.left)[i] = s.left[i + 1]
    BY <1>2
<1>4. /\ next.left = Tail(s.left) /\ next.tried = s.tried \cup {Head(s.left)} /\ next.by = {}
      /\ next.at = IF Len(s.left) > 1 THEN "try" ELSE ended
      /\ next \in CallStates
    BY <1>1, <1>2, <1>3 DEF CallStates, Results
<1>5. Endpoint \subseteq next.tried \cup Untried(next)
    <2> SUFFICES ASSUME NEW p \in Endpoint, p \notin s.tried, p # s.left[1]
                 PROVE  p \in Untried(next)
        BY <1>3, <1>4
    <2>1. PICK i \in 1..Len(s.left) : p = s.left[i]
        BY <1>2 DEF Untried
    <2>2. i - 1 \in 1..Len(Tail(s.left)) /\ Tail(s.left)[i - 1] = p
        BY <1>2, <1>3, <2>1
    <2> QED
        BY <1>4, <2>2 DEF Untried
<1>6. Len(s.left) > 1 => Tail(s.left) # <<>>
    BY <1>2, LongTail
<1>7. ~(Len(s.left) > 1) => Untried(next) = {}
    BY <1>2, <1>3, <1>4 DEF Untried
<1>8. CallFits(next, KindOfCall[c])
    <2>1. CASE Len(s.left) > 1
        BY <1>4, <1>5, <1>6, <2>1 DEF CallFits, Results
    <2>2. CASE ~(Len(s.left) > 1)
        <3>1. next.tried = Endpoint
            BY <1>4, <1>5, <1>7, <2>2 DEF CallStates
        <3> QED
            BY <1>4, <2>2, <3>1 DEF CallFits, Results
    <2> QED
        BY <2>1, <2>2
<1>9. call' = [call EXCEPT ![c] = next]
    BY DEF TryNext, Now
<1> HIDE DEF next
<1> QED
    BY <1>4, <1>8, <1>9, CallMoves

\* A call that ends leaves nothing of its round behind.
LEMMA EndMoves ==
    ASSUME FailoverInv, NEW c \in Caller, NEW result \in {"ok", "aborted-dirty", "unknown"},
           End(c, result)
    PROVE  call' \in [Caller -> CallStates] /\ CallsFit'
<1>1. Resting(result) \in CallStates /\ CallFits(Resting(result), KindOfCall[c])
    BY DEF Resting, CallStates, CallFits, Results
<1> QED
    BY <1>1, CallMoves DEF End

-----------------------------------------------------------------------------
(* The steps. *)

\* One step per action of a call, an endpoint and the clock.
LEMMA FailoverStep == FailoverInv /\ [FailoverNext]_foVars => FailoverInv'
<1> SUFFICES ASSUME FailoverInv, [FailoverNext]_foVars PROVE FailoverInv'
    OBVIOUS
<1>0. /\ FailoverTypeOK /\ CallsFit /\ RecordsFit
      /\ call \in [Caller -> CallStates] /\ health \in [Kinds -> [Endpoint -> Records]]
      /\ lapses \in [Kinds -> [Endpoint -> 0..MaxLapses]]
    BY DEF FailoverInv, FailoverTypeOK, CallStates, Records
<1>t. ASSUME call' \in [Caller -> CallStates], health' \in [Kinds -> [Endpoint -> Records]],
             lapses' \in [Kinds -> [Endpoint -> 0..MaxLapses]], CallsFit', RecordsFit'
      PROVE  FailoverInv'
    BY <1>t DEF FailoverInv, FailoverTypeOK, CallStates, Records
<1>h. UNCHANGED <<health, lapses>> =>
          /\ health' \in [Kinds -> [Endpoint -> Records]]
          /\ lapses' \in [Kinds -> [Endpoint -> 0..MaxLapses]] /\ RecordsFit'
    BY <1>0 DEF RecordsFit
<1>n. ASSUME NEW c \in Caller, call[c].at \in {"try", "writing"}
      PROVE  Now(c) \in Endpoint /\ KindOfCall[c] \in Kinds
    <2>1. call[c] \in CallStates /\ call[c].left # <<>>
        BY <1>0, <1>n DEF CallsFit, CallFits
    <2> QED
        BY <2>1, FailoverAssumption DEF Now, CallStates
<1>1. ASSUME NEW c \in Caller, Begin(c) PROVE FailoverInv'
    <2>1. PICK s \in order(StartOf[c], KindOfCall[c]) :
              call' = [call EXCEPT ![c] = [at |-> "try", left |-> s, tried |-> {}, by |-> {}]]
        BY <1>1 DEF Begin
    <2> DEFINE next == [at |-> "try", left |-> s, tried |-> {}, by |-> {}]
    <2>2. s \in Seq(Endpoint) /\ s # <<>> /\ Endpoint = {s[i] : i \in 1..Len(s)}
        BY OrderIsComplete
    <2>3. next \in CallStates /\ CallFits(next, KindOfCall[c])
        BY <2>2 DEF CallStates, CallFits, Untried, Results
    <2> HIDE DEF next
    <2>4. call' \in [Caller -> CallStates] /\ CallsFit'
        BY <2>1, <2>3, CallMoves DEF next
    <2> QED
        BY <1>1, <1>t, <1>h, <2>4 DEF Begin
<1>2. ASSUME NEW c \in Caller, Served(c) PROVE FailoverInv'
    <2>0. call[c].at = "try" /\ Now(c) \notin Unable[KindOfCall[c]]
        BY <1>2 DEF Served
    <2>1. CASE KindOfCall[c] = "block"
        <3> DEFINE next == [call[c] EXCEPT !.at = "writing", !.by = @ \cup {Now(c)}]
        <3>1. call' = [call EXCEPT ![c] = next] /\ UNCHANGED <<health, lapses>>
            BY <1>0, <1>2, <2>1 DEF Served
        <3>2. call[c] \in CallStates /\ CallFits(call[c], KindOfCall[c]) /\ Now(c) \in Endpoint
            BY <1>0, <1>n, <2>0 DEF CallsFit
        <3>3. next.left = call[c].left /\ next.at = "writing" /\ next.by = {Now(c)}
            BY <2>0, <3>2 DEF CallFits, CallStates
        <3>4. next \in CallStates
            BY <3>2 DEF CallStates
        <3>5. CallFits(next, KindOfCall[c])
            BY <2>0, <2>1, <3>2, <3>3 DEF CallFits, Now, Results
        <3> HIDE DEF next
        <3>6. call' \in [Caller -> CallStates] /\ CallsFit'
            BY <3>1, <3>4, <3>5, CallMoves
        <3> QED
            BY <1>t, <1>h, <3>1, <3>6
    <2>2. CASE KindOfCall[c] # "block"
        <3>1. End(c, "ok") /\ recordSuccess(Now(c), "read")
            BY <1>2, <2>2 DEF Served
        <3>2. Now(c) \in Endpoint /\ "read" \in Kinds
            BY <1>n, <2>0 DEF Kinds
        <3> QED
            BY <1>t, <3>1, <3>2, EndMoves, SuccessMoves
    <2> QED
        BY <2>1, <2>2
<1>3. ASSUME NEW c \in Caller, Refused(c) PROVE FailoverInv'
    BY <1>3, <1>n, <1>t, TryNextMoves, FailureMoves DEF Refused
<1>4. ASSUME NEW c \in Caller, Faulted(c) PROVE FailoverInv'
    <2>1. call' \in [Caller -> CallStates] /\ CallsFit'
        BY <1>4, TryNextMoves, EndMoves DEF Faulted
    <2> QED
        BY <1>4, <1>t, <1>h, <2>1 DEF Faulted
<1>5. ASSUME NEW c \in Caller, Written(c) PROVE FailoverInv'
    <2>1. Now(c) \in Endpoint /\ "block" \in Kinds
        BY <1>5, <1>n DEF Written, Kinds
    <2> QED
        BY <1>5, <1>t, <2>1, EndMoves, SuccessMoves DEF Written
<1>6. ASSUME NEW c \in Caller, WriteFailed(c) PROVE FailoverInv'
    BY <1>6, <1>t, <1>h, EndMoves DEF WriteFailed
<1>7. ASSUME NEW p \in Endpoint, NEW k \in Kinds, CoolDown(p, k) PROVE FailoverInv'
    <2> DEFINE h == health[k][p]
               r == [h EXCEPT !.cooling = FALSE]
               n == lapses[k][p] + 1
    <2>1. health[k][p] \in Records /\ lapses[k][p] \in 0..MaxLapses /\ lapses[k][p] < MaxLapses
          /\ RecordFits(health[k][p], lapses[k][p])
        BY <1>0, <1>7 DEF CoolDown, RecordsFit
    <2>2. n \in 0..MaxLapses
        BY <2>1, FailoverAssumption
    <2>7. r \in Records
        BY <2>1, Zenon DEF Records
    <2>5. r.waves = h.waves /\ h.waves <= lapses[k][p] /\ h.waves \in Nat
        BY <2>1 DEF Records, RecordFits
    <2>6. RecordFits(r, n)
        BY <2>1, <2>5 DEF RecordFits
    <2>3. /\ health' = [health EXCEPT ![k][p] = r] /\ lapses' = [lapses EXCEPT ![k][p] = n]
          /\ UNCHANGED call
        BY <1>7 DEF CoolDown
    <2> HIDE DEF r, n
    <2>4. /\ health' \in [Kinds -> [Endpoint -> Records]]
          /\ lapses' \in [Kinds -> [Endpoint -> 0..MaxLapses]] /\ RecordsFit'
        BY <2>2, <2>3, <2>6, <2>7, RecordMoves
    <2> QED
        BY <1>0, <1>t, <2>3, <2>4 DEF CallsFit
<1>8. CASE UNCHANGED foVars
    BY <1>0, <1>8, <1>t, <1>h DEF foVars, CallsFit
<1> QED
    BY <1>1, <1>2, <1>3, <1>4, <1>5, <1>6, <1>7, <1>8 DEF FailoverNext

(***************************************************************************)
(* The types, and what every call and every record knows.                  *)
(***************************************************************************)
THEOREM FailoverInvariance == FailoverSpec => []FailoverInv
<1>1. FailoverInit => FailoverInv
    <2> SUFFICES ASSUME FailoverInit PROVE FailoverInv
        OBVIOUS
    <2>1. Healthy \in Records /\ RecordFits(Healthy, 0) /\ 0 \in 0..MaxLapses
        BY FailoverAssumption DEF Healthy, Records, RecordFits
    <2>2. Resting("ok") \in CallStates /\ \A kind : CallFits(Resting("ok"), kind)
        BY DEF Resting, CallStates, CallFits, Results
    <2> QED
        BY <2>1, <2>2 DEF FailoverInit, FailoverInv, FailoverTypeOK, CallsFit, RecordsFit,
                          CallStates, Records
<1> QED
    BY <1>1, FailoverStep, PTL DEF FailoverSpec

(***************************************************************************)
(* A block is never spliced from two endpoints, and a failure is called    *)
(* clean only if every endpoint was tried and none had written             *)
(* (rpc-failover.ts:118-135, 189-192).                                     *)
(***************************************************************************)
THEOREM CleanMeansUntouchedSafe == FailoverSpec => []CleanMeansUntouched
<1>1. FailoverInv => CleanMeansUntouched
    <2> SUFFICES ASSUME FailoverInv, NEW c \in Caller
                 PROVE  /\ Cardinality(call[c].by) <= 1
                        /\ call[c].at = "exhausted-clean" =>
                              call[c].by = {} /\ call[c].tried = Endpoint
        BY DEF CleanMeansUntouched
    <2>1. call[c] \in CallStates /\ CallFits(call[c], KindOfCall[c])
        BY DEF FailoverInv, FailoverTypeOK, CallStates, CallsFit
    <2>2. call[c].by = {} \/ \E p : call[c].by = {p}
        BY <2>1 DEF CallFits, CallStates
    <2>3. Cardinality(call[c].by) <= 1
        <3>1. ASSUME NEW p, call[c].by = {p} PROVE Cardinality(call[c].by) = 1
            BY <3>1, FS_Singleton
        <3>2. Cardinality({}) = 0
            BY FS_EmptySet
        <3>3. CASE call[c].by = {}
            BY <3>2, <3>3
        <3>4. CASE \E p : call[c].by = {p}
            BY <3>1, <3>4
        <3> QED
            BY <2>2, <3>3, <3>4
    <2> QED
        BY <2>1, <2>3 DEF CallFits, Results
<1> QED
    BY <1>1, FailoverInvariance, PTL

(***************************************************************************)
(* However many calls fail together, an endpoint is charged at most one    *)
(* wave for a demotion that ran out (endpoint-health.ts:151-171).          *)
(***************************************************************************)
THEOREM WavesPerLapseSafe == FailoverSpec => []WavesPerLapse
<1>1. FailoverInv => WavesPerLapse
    BY DEF FailoverInv, RecordsFit, RecordFits, WavesPerLapse
<1> QED
    BY <1>1, FailoverInvariance, PTL

(***************************************************************************)
(* Answers to tip reads do not heal an endpoint that cannot serve blocks   *)
(* (endpoint-health.ts:71-86).                                             *)
(***************************************************************************)
THEOREM ReadsHealNoBlocksSafe == FailoverSpec => ReadsHealNoBlocks
<1> DEFINE Kept == \A p \in Unable["block"] :
                       health'["block"][p].streak >= health["block"][p].streak
<1>1. FailoverInv /\ [FailoverNext]_foVars => [Kept]_foVars
    <2> SUFFICES ASSUME FailoverInv, FailoverNext, NEW p \in Unable["block"]
                 PROVE  health'["block"][p].streak >= health["block"][p].streak
        BY DEF Kept
    <2>0. /\ p \in Endpoint /\ health \in [Kinds -> [Endpoint -> Records]]
          /\ health["block"][p] \in Records /\ "block" \in Kinds /\ "read" \in Kinds
        BY FailoverAssumption DEF FailoverInv, FailoverTypeOK, Records, Kinds
    <2>1. ASSUME UNCHANGED health
          PROVE  health'["block"][p].streak >= health["block"][p].streak
        BY <2>0, <2>1 DEF Records
    <2>2. ASSUME NEW q \in Endpoint, NEW k \in Kinds, recordSuccess(q, k), k # "block" \/ q # p
          PROVE  health'["block"][p].streak >= health["block"][p].streak
        BY <2>0, <2>2 DEF recordSuccess, Records
    <2>3. ASSUME NEW q \in Endpoint, NEW k \in Kinds, recordFailure(q, k)
          PROVE  health'["block"][p].streak >= health["block"][p].streak
        <3>1. CASE k = "block" /\ q = p
            <4>1. health'["block"][p].streak =
                      IF health["block"][p].streak < DemoteAfter
                      THEN health["block"][p].streak + 1 ELSE DemoteAfter
                BY <2>0, <2>3, <3>1 DEF recordFailure
            <4>2. /\ health["block"][p].streak \in 0..DemoteAfter
                  /\ DemoteAfter \in Nat
                BY <2>0, FailoverAssumption DEF Records
            <4> QED
                BY <4>1, <4>2
        <3>2. CASE ~(k = "block" /\ q = p)
            <4>1. health'["block"][p] = health["block"][p]
                BY <2>0, <2>3, <3>2 DEF recordFailure
            <4> QED
                BY <2>0, <4>1 DEF Records
        <3> QED
            BY <3>1, <3>2
    <2>4. ASSUME NEW c \in Caller, call[c].at \in {"try", "writing"}
          PROVE  Now(c) \in Endpoint /\ KindOfCall[c] \in Kinds
        <3>1. call[c].left \in Seq(Endpoint) /\ call[c].left # <<>>
            BY <2>4 DEF FailoverInv, FailoverTypeOK, CallsFit, CallFits
        <3> QED
            BY <3>1, FailoverAssumption DEF Now
    <2>5. ASSUME NEW c \in Caller, Written(c) PROVE Now(c) # p
        BY <2>5 DEF Written, FailoverInv, CallsFit, CallFits, Now
    <2>6. ASSUME NEW c \in Caller,
                 Begin(c) \/ Served(c) \/ Refused(c) \/ Faulted(c) \/ Written(c) \/ WriteFailed(c)
          PROVE  health'["block"][p].streak >= health["block"][p].streak
        <3>1. CASE Begin(c) \/ Faulted(c) \/ WriteFailed(c)
            BY <2>1, <3>1 DEF Begin, Faulted, WriteFailed
        <3>2. CASE Served(c)
            BY <2>0, <2>1, <2>2, <2>4, <3>2 DEF Served
        <3>3. CASE Refused(c)
            BY <2>3, <2>4, <3>3 DEF Refused
        <3>4. CASE Written(c)
            BY <2>0, <2>2, <2>4, <2>5, <3>4 DEF Written
        <3> QED
            BY <2>6, <3>1, <3>2, <3>3, <3>4
    <2>7. ASSUME NEW q \in Endpoint, NEW k \in Kinds, CoolDown(q, k)
          PROVE  health'["block"][p].streak >= health["block"][p].streak
        BY <2>0, <2>7 DEF CoolDown, Records
    <2> QED
        BY <2>6, <2>7 DEF FailoverNext
<1> QED
    BY <1>1, FailoverInvariance, PTL DEF FailoverSpec, ReadsHealNoBlocks

(***************************************************************************)
(* Disk sync: disks of any size, any failed calls, slow deploys and kills. *)
(***************************************************************************)

(***************************************************************************)
(* The configuration of a deployment that is not yet in step with its disk *)
(* is behind it, never ahead.                                              *)
(***************************************************************************)
NotOverstated == \A s \in FirstStored, g \in FirstGb : s <= g

-----------------------------------------------------------------------------
(* Type correctness. *)

\* A run of the sync goes from stage to stage.
LEMMA SyncMoves ==
    ASSUME NEW s \in Syncs, NEW stage \in Stages
    PROVE  /\ NoSync \in Syncs
           /\ [s EXCEPT !.at = stage] \in Syncs
           /\ [s EXCEPT !.at = stage, !.own = "flying"] \in Syncs
           /\ [s EXCEPT !.own = "live"] \in Syncs
           /\ [s EXCEPT !.own = "failed"] \in Syncs
           /\ s.targetGb \in Configured /\ s.rawDiskGb \in Configured
    BY DEF Syncs, Stages, Fates, NoSync, Configured, Absent

\* The marker, which a failed call may have set: Zenon reads sets of truth values.
LEMMA MarkerOnlySet ==
    ASSUME pending \in BOOLEAN, PutMarker \/ clearPending
    PROVE  pending' \in BOOLEAN /\ (PutMarker /\ pending => pending')
<1>1. CASE PutMarker
    <2>1. pending' = TRUE \/ pending' = pending
        BY <1>1, Zenon DEF PutMarker
    <2> QED
        BY <2>1, Zenon
<1>2. CASE clearPending /\ ~PutMarker
    <2>1. pending' = FALSE \/ pending' = pending
        BY <1>2, Zenon DEF clearPending
    <2> QED
        BY <1>2, <2>1, Zenon
<1> QED
    BY <1>1, <1>2, Zenon

\* What happens to the rest does not depend on it.
MarkerPut ==
    /\ sync.at = "mark"
    /\ \/ Goes("put") /\ UNCHANGED glitches /\ pending'
       \/ Stops /\ Glitch
    /\ UNCHANGED <<capacity, storedGb, runningGb, deploying>>

\* PutMarker without its truth value.
LEMMA PutMarkerMoves == PutMarker => MarkerPut
    BY Zenon DEF PutMarker, MarkerPut

\* Every call of the sync, answered or not, keeps the types.
LEMMA TypeStep == DiskSyncTypeOK /\ [DiskSyncNext]_dsVars => DiskSyncTypeOK'
<1> SUFFICES ASSUME DiskSyncTypeOK, [DiskSyncNext]_dsVars
             PROVE  DiskSyncTypeOK'
    OBVIOUS
<1> USE DiskSyncAssumption DEF DiskSyncTypeOK
<1>a. NoSync \in Syncs
    BY SyncMoves DEF Stages
<1>b. \A stage \in Stages : [sync EXCEPT !.at = stage] \in Syncs
    BY SyncMoves
<1>c. {"idle", "plan", "mark", "put", "deploy", "poll", "recover", "restore", "clear"}
         \subseteq Stages
    BY DEF Stages
<1>d. sync.targetGb \in Configured /\ sync.rawDiskGb \in Configured
    BY SyncMoves DEF Stages
<1>1. CASE Grow
    BY <1>1 DEF Grow, Gb
<1>2. CASE DeployLands \/ DeployFails \/ OtherDeploy
    <2>1. Outcome(sync, "flying", "live") \in Syncs /\ Outcome(sync, "flying", "failed") \in Syncs
        BY SyncMoves DEF Outcome, Stages
    <2> QED
        BY <1>2, <2>1 DEF DeployLands, DeployFails, OtherDeploy, Glitch
<1>3. CASE StartSync
    <2>1. [NoSync EXCEPT !.at = "plan", !.targetGb = capacity] \in Syncs
        BY DEF NoSync, Syncs, Stages, Fates, Configured, Absent
    <2> QED
        BY <1>3, <2>1 DEF StartSync
<1>4. CASE planDiskGbSync
    <2>1. [sync EXCEPT !.at = "mark", !.rawDiskGb = storedGb, !.interrupted = pending] \in Syncs
        BY DEF Syncs, Stages
    <2> QED
        BY <1>4, <1>a, <2>1 DEF planDiskGbSync
<1>5. CASE PutMarker
    <2>1. pending' \in BOOLEAN
        BY <1>5, MarkerOnlySet
    <2>2. MarkerPut
        BY <1>5, PutMarkerMoves
    <2> QED
        BY <1>a, <1>b, <1>c, <2>1, <2>2 DEF MarkerPut, Goes, Stops, Glitch
<1>11. CASE PutDiskGb
    BY <1>11, <1>a, <1>b, <1>c, <1>d DEF PutDiskGb, Goes, Stops, Glitch
<1>6. CASE QueueDeploy
    <2>1. [sync EXCEPT !.at = "poll", !.own = "flying"] \in Syncs
        BY SyncMoves DEF Stages
    <2> QED
        BY <1>6, <1>b, <1>c, <2>1 DEF QueueDeploy, Goes, Glitch
<1>7. CASE awaitDeploy \/ Recover
    BY <1>7, <1>a, <1>b, <1>c DEF awaitDeploy, Recover, Goes, Stops, Glitch
<1>8. CASE restoreDiskGb
    BY <1>8, <1>a, <1>b, <1>c, <1>d DEF restoreDiskGb, Goes, Stops, Glitch
<1>9. CASE clearPending
    <2>1. pending' \in BOOLEAN
        BY <1>9, MarkerOnlySet
    <2>2. /\ Stops /\ glitches' \in {glitches, glitches + 1}
          /\ UNCHANGED <<capacity, storedGb, runningGb, deploying>>
        BY <1>9, Zenon DEF clearPending, Glitch
    <2> QED
        BY <1>a, <2>1, <2>2 DEF Stops
<1>12. CASE Killed
    BY <1>12, <1>a DEF Killed, Stops, Glitch
<1>10. CASE UNCHANGED dsVars
    BY <1>10 DEF dsVars
<1> QED
    BY <1>1, <1>2, <1>3, <1>4, <1>5, <1>6, <1>7, <1>8, <1>9, <1>10, <1>11, <1>12
    DEF DiskSyncNext, SyncStep

\* The types at the start.
LEMMA TypeInit ==
    ASSUME DiskSyncInit
    PROVE  DiskSyncTypeOK
    BY DiskSyncAssumption
    DEF DiskSyncInit, DiskSyncTypeOK, Syncs, Stages, Fates, NoSync, Gb, Configured, Absent,
        NoDeploy

(***************************************************************************)
(* Every variable of the job, of the host and of the deploy on its way     *)
(* keeps its type, whatever fails (sync-db-disk-size.mjs).                 *)
(***************************************************************************)
THEOREM DiskSyncTypeCorrect == DiskSyncSpec => []DiskSyncTypeOK
    BY TypeInit, TypeStep, PTL DEF DiskSyncSpec

-----------------------------------------------------------------------------
(* The inductive invariant. *)

\* Nothing stored, running or on its way is larger than the disk.
Understated ==
    /\ storedGb <= capacity /\ runningGb <= capacity /\ deploying <= capacity
    /\ sync.targetGb <= capacity /\ sync.rawDiskGb <= capacity

\* Without a marker, a deploy on its way carries what is stored, unless the
\* next run acts anyway.
DeployCurrent ==
    deploying # NoDeploy /\ deploying # storedGb => pending \/ storedGb # capacity

\* Between the marker and its removal the run relies on it.
MarkedWhileWriting == sync.at \in {"put", "deploy", "poll", "recover", "restore"} => pending

\* The process has, or the deploy on its way brings, what is stored.
InStep == runningGb = storedGb /\ (deploying # NoDeploy => deploying = storedGb)

\* What the run knows of the configuration at each of its stages.
StageKnows ==
    /\ sync.at = "plan" => storedGb <= sync.targetGb
    /\ sync.at \in {"mark", "put", "deploy", "poll", "recover", "restore"} =>
          sync.interrupted \/ sync.rawDiskGb < sync.targetGb
    /\ sync.at = "restore" => ~sync.interrupted
    /\ sync.at = "poll" /\ sync.own = "flying" => deploying = storedGb
    /\ sync.at = "poll" /\ sync.own = "live" => InStep
    /\ sync.at = "clear" => InStep \/ storedGb < capacity

DiskInv ==
    /\ DiskSyncTypeOK /\ Understated /\ DeployCurrent /\ MarkedWhileWriting
    /\ StageKnows /\ NeverWedged

\* One step per call of the sync and per change of the platform.
LEMMA DiskStep == DiskInv /\ [DiskSyncNext]_dsVars => DiskInv'
<1> SUFFICES ASSUME DiskInv, [DiskSyncNext]_dsVars
             PROVE  DiskInv'
    OBVIOUS
<1>0. DiskSyncTypeOK /\ DiskSyncTypeOK'
    BY TypeStep DEF DiskInv
<1> USE <1>0, DiskSyncAssumption
    DEF DiskInv, Understated, DeployCurrent, MarkedWhileWriting, StageKnows, InStep,
        NeverWedged, DiskSyncTypeOK, Syncs, Gb, Configured, Absent, NoDeploy
<1>1. CASE Grow
    BY <1>1 DEF Grow
<1>2. CASE DeployLands
    BY <1>2 DEF DeployLands, Outcome
<1>3. CASE DeployFails
    BY <1>3 DEF DeployFails, Outcome, Glitch
<1>4. CASE OtherDeploy
    BY <1>4 DEF OtherDeploy, Outcome, Glitch
<1>5. CASE StartSync
    BY <1>5 DEF StartSync, NoSync
<1>6. CASE planDiskGbSync
    BY <1>6 DEF planDiskGbSync, Owed, NoSync
<1>7. CASE PutMarker
    <2>1. pending => pending'
        BY <1>7, MarkerOnlySet
    <2>2. MarkerPut
        BY <1>7, PutMarkerMoves
    <2> QED
        BY <2>1, <2>2 DEF MarkerPut, Goes, Stops, NoSync, Glitch
<1>8. CASE PutDiskGb
    BY <1>8 DEF PutDiskGb, Goes, Stops, NoSync, Glitch
<1>9. CASE QueueDeploy
    BY <1>9 DEF QueueDeploy, Goes, Glitch
<1>10. CASE awaitDeploy
    BY <1>10 DEF awaitDeploy, Goes, Glitch
<1>11. CASE Recover
    BY <1>11 DEF Recover, planFailureRecovery, Goes, Stops, NoSync
<1>12. CASE restoreDiskGb
    BY <1>12 DEF restoreDiskGb, Goes, Stops, NoSync, Glitch
<1>13. CASE clearPending
    BY <1>13 DEF clearPending, Stops, NoSync, Glitch
<1>14. CASE Killed
    BY <1>14 DEF Killed, Stops, NoSync, Glitch
<1>15. CASE UNCHANGED dsVars
    BY <1>15 DEF dsVars
<1> QED
    BY <1>1, <1>2, <1>3, <1>4, <1>5, <1>6, <1>7, <1>8, <1>9, <1>10, <1>11, <1>12,
       <1>13, <1>14, <1>15
    DEF DiskSyncNext, SyncStep

(***************************************************************************)
(* The job never leaves a configuration that no process runs and no later  *)
(* run deploys, whatever fails in it (sync-db-disk-size.mjs:25-31, 55-68), *)
(* provided the first configuration does not overstate the disk.           *)
(***************************************************************************)
THEOREM NeverWedgedSafe ==
    ASSUME NotOverstated
    PROVE  DiskSyncSpec => []NeverWedged
<1>1. DiskSyncInit => DiskInv
    <2> SUFFICES ASSUME DiskSyncInit PROVE DiskInv
        OBVIOUS
    <2>1. DiskSyncTypeOK
        BY TypeInit
    <2> QED
        BY <2>1, NotOverstated, DiskSyncAssumption
        DEF NotOverstated, DiskSyncInit, DiskInv, Understated, DeployCurrent,
            MarkedWhileWriting, StageKnows, InStep, NeverWedged, NoSync, Gb, Configured,
            Absent, NoDeploy
<1>2. DiskInv => NeverWedged
    BY DEF DiskInv
<1> QED
    BY <1>1, <1>2, DiskStep, PTL DEF DiskSyncSpec

(***************************************************************************)
(* Provider budget: any processes, buckets, costs and failures.            *)
(***************************************************************************)

Asks == [at : {"idle", "acquire", "send"}, bucket : Bucket \cup {""}, month : Months]

\* The calls a that a ledger l admitted in a month of M and that are about to
\* be sent, and what they cost.
Sending(a, M, l) == {p \in Users(l) : a[p].at = "send" /\ a[p].month \in M}
Flow(a, M, l) == SumFunction([p \in Sending(a, M, l) |-> CostOf[a[p].bucket]])
Others(m) == Months \ {m}

\* The calls a, when every one that is sent has a bucket.
Fit(a) == a \in [Request -> Asks] /\ \A p \in Request : a[p].at = "send" => a[p].bucket \in Bucket

\* What was spent and is about to be, in units of the present month, is held by
\* the counter, up to a ceiling for every count that was lost.
SpentHeld(spent, held, lost, failures) ==
    /\ held <= MonthlyMax
    /\ spent <= (IF held = Damaged THEN 0 ELSE held) + MonthlyMax * lost
    /\ held = Damaged => lost > 0
    /\ failures = 0 => spent = held

LedgersFit ==
    \A l \in Ledgers :
        SpentHeld(billed[l] + Flow(ask, {month}, l), counter[l][Cu], forgotten[l], blips)

CountsExpire == \A l \in Ledgers, k \in Keys : counter[l][k] > 0 => k \in mortal[l]

\* A call that was in flight when the month turned is billed once.
LateFit == \A l \in Ledgers : late[l] + Flow(ask, Others(month), l) <= carried[l]

BudgetInv == ProviderBudgetTypeOK /\ Fit(ask) /\ LedgersFit /\ CountsExpire /\ LateFit

\* Every call counts in one of the ledgers.
LEMMA LedgerOfType == \A p \in Request : LedgerOf(p) \in Ledgers
BY BudgetAssumption DEF LedgerOf, Ledgers

\* Few count in the same one.
LEMMA UsersFinite == \A l : IsFiniteSet(Users(l))
BY BudgetAssumption, FS_Subset DEF Users

\* What is about to be spent, as the model says it.
LEMMA FlowIsUnits == \A l, M : Units(l, M) = Flow(ask, M, l)
BY DEF Units, Flow, Sending

\* Of the present month.
LEMMA FlowIsInFlight == \A l : InFlight(l) = Flow(ask, {month}, l)
BY FlowIsUnits DEF InFlight

\* What is about to be spent is a number of units.
LEMMA FlowType ==
  ASSUME NEW a, NEW M, NEW l, \A p \in Sending(a, M, l) : a[p].bucket \in Bucket
  PROVE  Flow(a, M, l) \in Nat /\ IsFiniteSet(Sending(a, M, l))
<1>1. IsFiniteSet(Sending(a, M, l))
  BY UsersFinite, FS_Subset DEF Sending
<1> DEFINE f == [p \in Sending(a, M, l) |-> CostOf[a[p].bucket]]
<1>2. \A p \in Sending(a, M, l) : f[p] \in Nat
  BY BudgetAssumption
<1>3. SumFunctionOnSet(f, Sending(a, M, l)) \in Nat
  <2> HIDE DEF f
  <2>1. QED
    BY <1>1, <1>2, SumType
<1>4. QED
  BY <1>1, <1>3 DEF Flow, SumFunction

\* The same calls are about to spend the same.
LEMMA FlowSame ==
  ASSUME NEW a, NEW c, NEW M, NEW l, NEW N,
         Sending(c, N, l) = Sending(a, M, l),
         \A p \in Sending(a, M, l) : c[p].bucket = a[p].bucket
  PROVE  Flow(c, N, l) = Flow(a, M, l)
<1>1. [p \in Sending(c, N, l) |-> CostOf[c[p].bucket]]
        = [p \in Sending(a, M, l) |-> CostOf[a[p].bucket]]
  OBVIOUS
<1>2. QED
  BY <1>1 DEF Flow

\* One more call is about to spend its units more.
LEMMA FlowJoins ==
  ASSUME NEW a, NEW c, NEW M, NEW l, NEW p, p \notin Sending(a, M, l),
         Sending(c, M, l) = Sending(a, M, l) \cup {p},
         \A q \in Sending(a, M, l) : a[q].bucket \in Bucket /\ c[q].bucket = a[q].bucket,
         c[p].bucket \in Bucket
  PROVE  Flow(c, M, l) = CostOf[c[p].bucket] + Flow(a, M, l)
<1> DEFINE S == Sending(a, M, l)
           f == [q \in S \cup {p} |-> CostOf[c[q].bucket]]
           g == [q \in S |-> CostOf[a[q].bucket]]
<1>1. IsFiniteSet(S)
  BY FlowType
<1>2. \A q \in S \cup {p} : f[q] \in Nat
  BY BudgetAssumption
<1>3. \A q \in S : f[q] = g[q]
  OBVIOUS
<1>4. f[p] = CostOf[c[p].bucket]
  OBVIOUS
<1>5. Flow(c, M, l) = SumFunctionOnSet(f, S \cup {p})
  BY DEF Flow, SumFunction
<1>6. Flow(a, M, l) = SumFunctionOnSet(g, S)
  BY DEF Flow, SumFunction
<1>7. p \notin S
  OBVIOUS
<1> HIDE DEF f, g, S
<1>8. SumFunctionOnSet(f, S \cup {p}) = f[p] + SumFunctionOnSet(f, S)
  BY <1>1, <1>2, <1>7, SumAdd
<1>9. SumFunctionOnSet(f, S) = SumFunctionOnSet(g, S)
  BY <1>1, <1>3, SumSame
<1>10. QED
  BY <1>4, <1>5, <1>6, <1>8, <1>9

\* The calls c: a, but p is now at s.
Turned(a, c, p, s) == c = [a EXCEPT ![p] = s]

(***************************************************************************)
(* A call that leaves: what it stood for goes from what is about to be     *)
(* spent.                                                                  *)
(***************************************************************************)
LEMMA CallRests ==
  ASSUME NEW a, NEW c, NEW M, NEW l, NEW p \in Request, NEW s \in Asks,
         Fit(a), s.at # "send", Turned(a, c, p, s)
  PROVE  /\ Fit(c)
         /\ p \in Sending(a, M, l) => Flow(a, M, l) = CostOf[a[p].bucket] + Flow(c, M, l)
         /\ p \notin Sending(a, M, l) => Flow(a, M, l) = Flow(c, M, l)
<1>1. c \in [Request -> Asks] /\ c[p] = s /\ \A q \in Request : q # p => c[q] = a[q]
  BY DEF Fit, Turned
<1>2. Fit(c)
  BY <1>1 DEF Fit
<1>3. \A q \in Sending(c, M, l) : c[q].bucket \in Bucket /\ a[q].bucket = c[q].bucket
  BY <1>1, <1>2 DEF Sending, Users, Fit
<1>4. ASSUME p \in Sending(a, M, l)
      PROVE  Flow(a, M, l) = CostOf[a[p].bucket] + Flow(c, M, l)
  <2>1. Sending(a, M, l) = Sending(c, M, l) \cup {p} /\ p \notin Sending(c, M, l)
    BY <1>1, <1>4 DEF Sending, Users
  <2>2. a[p].bucket \in Bucket
    BY <1>4 DEF Sending, Users, Fit
  <2>3. QED
    BY <1>3, <2>1, <2>2, FlowJoins
<1>5. ASSUME p \notin Sending(a, M, l)
      PROVE  Flow(a, M, l) = Flow(c, M, l)
  <2>1. Sending(a, M, l) = Sending(c, M, l)
    BY <1>1, <1>5 DEF Sending, Users
  <2>2. QED
    BY <1>3, <2>1, FlowSame
<1>6. QED
  BY <1>2, <1>4, <1>5

(***************************************************************************)
(* Calls that are lost with their process, any number of them: no more is  *)
(* about to be spent than before.                                          *)
(***************************************************************************)
LEMMA CallsLost ==
  ASSUME NEW a, NEW c, NEW M, NEW l, Fit(a), Fit(c),
         \A q \in Request : c[q] = a[q] \/ c[q].at # "send"
  PROVE  /\ Flow(c, M, l) \in Nat /\ Flow(a, M, l) \in Nat
         /\ Flow(c, M, l) <= Flow(a, M, l)
<1> DEFINE S == Sending(a, M, l)
           T == Sending(c, M, l)
           f == [q \in S |-> CostOf[a[q].bucket]]
           g == [q \in T |-> CostOf[c[q].bucket]]
<1>1. T \in SUBSET S /\ \A q \in T : c[q] = a[q]
  BY DEF Sending, Users
<1>2. \A q \in S : a[q].bucket \in Bucket
  BY DEF Sending, Users, Fit
<1>3. \A q \in T : c[q].bucket \in Bucket
  BY DEF Sending, Users, Fit
<1>4. /\ Flow(c, M, l) \in Nat /\ Flow(a, M, l) \in Nat
      /\ IsFiniteSet(S) /\ IsFiniteSet(T)
  BY <1>2, <1>3, FlowType
<1>5. \A q \in S : f[q] \in Nat
  BY <1>2, BudgetAssumption
<1>6. \A q \in T : f[q] = g[q]
  BY <1>1
<1>7. Flow(a, M, l) = SumFunctionOnSet(f, S) /\ Flow(c, M, l) = SumFunctionOnSet(g, T)
  BY DEF Flow, SumFunction
<1> HIDE DEF f, g, S, T
<1>8. SumFunctionOnSet(f, S) = SumFunctionOnSet(f, T) + SumFunctionOnSet(f, S \ T)
  BY <1>1, <1>4, <1>5, SumSplit
<1>9. SumFunctionOnSet(f, T) = SumFunctionOnSet(g, T)
  BY <1>4, <1>6, SumSame
<1>10. SumFunctionOnSet(f, S \ T) \in Nat
  <2>1. IsFiniteSet(S \ T) /\ \A q \in S \ T : f[q] \in Nat
    BY <1>4, <1>5, FS_Subset
  <2>2. QED
    BY <2>1, SumType
<1>11. QED
  BY <1>4, <1>7, <1>8, <1>9, <1>10

(***************************************************************************)
(* A call that is admitted: its units are about to be spent, of its own    *)
(* ledger.                                                                 *)
(***************************************************************************)
LEMMA CallSends ==
  ASSUME NEW a, NEW c, NEW p \in Request, NEW s \in Asks,
         Fit(a), s.at = "send", s.bucket \in Bucket, Turned(a, c, p, s)
  PROVE  Fit(c)
BY DEF Fit, Turned

\* Its cost is added to what is about to be spent of that ledger and month.
LEMMA CallAdds ==
  ASSUME NEW a, NEW c, NEW M, NEW l, NEW p \in Request, NEW s \in Asks,
         Fit(a), a[p].at # "send", s.at = "send", s.bucket \in Bucket,
         Turned(a, c, p, s), l = LedgerOf(p), s.month \in M
  PROVE  Flow(c, M, l) = CostOf[s.bucket] + Flow(a, M, l)
<1>1. c \in [Request -> Asks] /\ c[p] = s /\ \A q \in Request : q # p => c[q] = a[q]
  BY DEF Fit, Turned
<1>2. \A q \in Sending(a, M, l) : a[q].bucket \in Bucket /\ c[q].bucket = a[q].bucket
  BY <1>1 DEF Sending, Users, Fit
<1>3. Sending(c, M, l) = Sending(a, M, l) \cup {p} /\ p \notin Sending(a, M, l)
  BY <1>1 DEF Sending, Users
<1>4. c[p].bucket \in Bucket /\ c[p].bucket = s.bucket
  BY <1>1
<1>5. Flow(c, M, l) = CostOf[c[p].bucket] + Flow(a, M, l)
  BY <1>2, <1>3, <1>4, FlowJoins
<1>6. QED
  BY <1>4, <1>5

\* A call p in state s counts for the ledger l and a month of M.
SendsFor(p, s, M, l) == l = LedgerOf(p) /\ s.month \in M
Waits(a, p) == a[p].at # "send"

\* Nothing is added to any other ledger or month.
LEMMA CallElsewhere ==
  ASSUME NEW a, NEW c, NEW M, NEW l, NEW p \in Request, NEW s \in Asks,
         Fit(a), Waits(a, p), Turned(a, c, p, s), ~SendsFor(p, s, M, l)
  PROVE  Flow(c, M, l) = Flow(a, M, l)
<1>1. c \in [Request -> Asks] /\ c[p] = s /\ \A q \in Request : q # p => c[q] = a[q]
  BY DEF Fit, Turned
<1>2. \A q \in Sending(a, M, l) : a[q].bucket \in Bucket /\ c[q].bucket = a[q].bucket
  BY <1>1 DEF Sending, Users, Fit, Waits
<1>3. Sending(c, M, l) = Sending(a, M, l)
  <2>1. \A q \in Request : a[q].at = "send" /\ a[q].month \in M /\ LedgerOf(q) = l
                           <=> c[q].at = "send" /\ c[q].month \in M /\ LedgerOf(q) = l
    BY <1>1 DEF SendsFor, Waits
  <2>2. QED
    BY <2>1 DEF Sending, Users
<1>4. QED
  BY <1>2, <1>3, FlowSame

(***************************************************************************)
(* A look at the ledger, with or without a debit.                          *)
(***************************************************************************)
LEMMA ReadType ==
  ASSUME ProviderBudgetTypeOK, NEW l \in Ledgers, NEW k \in Keys
  PROVE  Read(l, k) \in Nat /\ counter[l][k] \in Nat \cup {Damaged}
<1>1. counter \in [Ledgers -> [Keys -> Nat \cup {Damaged}]]
  BY DEF ProviderBudgetTypeOK
<1>2. counter[l][k] \in Nat \cup {Damaged}
  BY <1>1
<1>3. QED
  BY <1>2 DEF Read

\* A debit puts whole counts, which expire, into its own ledger, and takes the
\* cost of a call that it admits.
LEMMA DebitMoves ==
  ASSUME ProviderBudgetTypeOK, CountsExpire, NEW l \in Ledgers, NEW b \in Bucket, Debit(l, b)
  PROVE  /\ counter' \in [Ledgers -> [Keys -> Nat \cup {Damaged}]]
         /\ mortal' \in [Ledgers -> SUBSET Keys]
         /\ CountsExpire'
         /\ \A m \in Ledgers : m # l => counter'[m] = counter[m]
         /\ counter'[l][Cu] = Read(l, Cu) + (IF Admits(l, b) THEN CostOf[b] ELSE 0)
<1>1. /\ counter \in [Ledgers -> [Keys -> Nat \cup {Damaged}]]
      /\ mortal \in [Ledgers -> SUBSET Keys]
  BY DEF ProviderBudgetTypeOK
<1>2. KeysOf(b) \subseteq Keys /\ Cu \in KeysOf(b) /\ Cu \in Keys
  BY DEF KeysOf, Keys
<1>3. CostOf[b] \in Nat
  BY BudgetAssumption
<1>4. PICK C : C = Cleaned(l, b)
  OBVIOUS
<1>5. /\ C \in [Keys -> Nat \cup {Damaged}]
      /\ \A k \in KeysOf(b) : C[k] = Read(l, k) /\ C[k] \in Nat
      /\ \A k \in Keys \ KeysOf(b) : C[k] = counter[l][k]
  <2>1. \A k \in Keys : Read(l, k) \in Nat /\ counter[l][k] \in Nat \cup {Damaged}
    BY ReadType
  <2>2. C = [k \in Keys |-> IF k \in KeysOf(b) THEN Read(l, k) ELSE counter[l][k]]
    BY <1>4 DEF Cleaned
  <2>3. QED
    BY <1>2, <2>1, <2>2
<1>6. CASE Admits(l, b)
  <2>1. PICK D : D = Debited(l, b)
    OBVIOUS
  <2>2. D = [k \in Keys |-> C[k] + (IF k = Cu THEN CostOf[b]
                                       ELSE IF k \in KeysOf(b) THEN 1 ELSE 0)]
    BY <1>4, <2>1 DEF Debited
  <2>3. /\ \A k \in KeysOf(b) : D[k] \in Nat
        /\ D[Cu] = Read(l, Cu) + CostOf[b]
    BY <1>2, <1>3, <1>5, <2>2
  <2>4. \A k \in Keys \ KeysOf(b) : D[k] = counter[l][k]
    <3>1. \A k \in Keys \ KeysOf(b) : D[k] = C[k] + 0 /\ C[k] \in Int
      BY <1>2, <1>5, <2>2 DEF Damaged
    <3>2. QED
      BY <1>5, <3>1
  <2>5. D \in [Keys -> Nat \cup {Damaged}]
    <3>1. \A k \in Keys : D[k] \in Nat \cup {Damaged}
      BY <1>1, <2>3, <2>4
    <3>2. QED
      BY <2>2, <3>1
  <2>6. counter' = [counter EXCEPT ![l] = D] /\ mortal' = [mortal EXCEPT ![l] = @ \cup KeysOf(b)]
    BY <1>6, <2>1 DEF Debit
  <2>7. CountsExpire'
    <3> SUFFICES ASSUME NEW m \in Ledgers, NEW k \in Keys, counter'[m][k] > 0
                 PROVE  k \in mortal'[m]
      BY DEF CountsExpire
    <3>1. CASE m # l
      BY <3>1, <1>1, <2>6 DEF CountsExpire
    <3>2. CASE m = l /\ k \in KeysOf(b)
      BY <3>2, <1>1, <2>6
    <3>3. CASE m = l /\ k \notin KeysOf(b)
      BY <3>3, <1>1, <2>4, <2>6 DEF CountsExpire
    <3>4. QED
      BY <3>1, <3>2, <3>3
  <2>8. QED
    BY <1>1, <1>2, <1>6, <2>3, <2>5, <2>6, <2>7
<1>7. CASE ~Admits(l, b)
  <2>1. /\ counter' = [counter EXCEPT ![l] = C]
        /\ mortal' = [mortal EXCEPT ![l] = @ \ {k \in KeysOf(b) : counter[l][k] = Damaged}]
    BY <1>4, <1>7 DEF Debit
  <2>2. CountsExpire'
    <3> SUFFICES ASSUME NEW m \in Ledgers, NEW k \in Keys, counter'[m][k] > 0
                 PROVE  k \in mortal'[m]
      BY DEF CountsExpire
    <3>1. CASE m # l
      BY <3>1, <1>1, <2>1 DEF CountsExpire
    <3>2. CASE m = l /\ k \in KeysOf(b)
      <4>1. counter'[m][k] = Read(l, k)
        BY <3>2, <1>1, <1>5, <2>1
      <4>2. counter[l][k] > 0 /\ counter[l][k] # Damaged
        BY <4>1 DEF Read, Damaged
      <4>3. k \in mortal[l]
        BY <4>2 DEF CountsExpire
      <4>4. QED
        BY <4>2, <4>3, <3>2, <1>1, <2>1
    <3>3. CASE m = l /\ k \notin KeysOf(b)
      BY <3>3, <1>1, <1>5, <2>1 DEF CountsExpire
    <3>4. QED
      BY <3>1, <3>2, <3>3
  <2>3. counter'[l][Cu] = Read(l, Cu) /\ Read(l, Cu) \in Nat
    BY <1>1, <1>2, <1>5, <2>1
  <2>4. QED
    BY <1>1, <1>5, <1>7, <2>1, <2>2, <2>3
<1>8. QED
  BY <1>6, <1>7

(***************************************************************************)
(* What the invariant says of one ledger, in numbers.                      *)
(***************************************************************************)
LEMMA LedgerNumbers ==
  ASSUME BudgetInv, NEW l \in Ledgers
  PROVE  /\ billed[l] \in Nat /\ late[l] \in Nat /\ carried[l] \in Nat
         /\ forgotten[l] \in Nat /\ blips \in Nat
         /\ Flow(ask, {month}, l) \in Nat /\ Flow(ask, Others(month), l) \in Nat
         /\ counter[l][Cu] \in Nat \cup {Damaged}
         /\ SpentHeld(billed[l] + Flow(ask, {month}, l), counter[l][Cu], forgotten[l], blips)
         /\ late[l] + Flow(ask, Others(month), l) <= carried[l]
<1>1. /\ billed \in [Ledgers -> Nat] /\ late \in [Ledgers -> Nat] /\ carried \in [Ledgers -> Nat]
      /\ forgotten \in [Ledgers -> Nat] /\ blips \in Nat
  BY DEF BudgetInv, ProviderBudgetTypeOK
<1>2. ASSUME NEW M PROVE Flow(ask, M, l) \in Nat
  <2>1. \A q \in Sending(ask, M, l) : ask[q].bucket \in Bucket
    BY DEF BudgetInv, Fit, Sending, Users
  <2>2. QED
    BY <2>1, FlowType
<1>3. counter[l][Cu] \in Nat \cup {Damaged}
  <2>1. Cu \in Keys
    BY DEF Keys
  <2>2. QED
    BY <2>1, ReadType DEF BudgetInv
<1>4. QED
  BY <1>1, <1>2, <1>3 DEF BudgetInv, LedgersFit, LateFit

(***************************************************************************)
(* A call that stops, before it is sent or after.                          *)
(***************************************************************************)
LEMMA StopKeepsFit ==
  ASSUME BudgetInv, NEW p \in Request, NEW s \in Asks, s.at # "send", ask' = [ask EXCEPT ![p] = s]
  PROVE  /\ ask' \in [Request -> Asks] /\ Fit(ask')
         /\ \A l, M :
              /\ p \in Sending(ask, M, l) =>
                   Flow(ask, M, l) = CostOf[ask[p].bucket] + Flow(ask', M, l)
              /\ p \notin Sending(ask, M, l) => Flow(ask', M, l) = Flow(ask, M, l)
<1>1. Fit(ask) /\ Turned(ask, ask', p, s)
  BY DEF BudgetInv, Turned
<1>2. Fit(ask')
  BY <1>1, CallRests
<1>3. QED
  BY <1>1, <1>2, CallRests DEF Fit

\* A call that finds nothing in the cache has spent nothing yet.
LEMMA LookUpKeepsBudget ==
  ASSUME BudgetInv, NEW p \in Request, NEW b \in Bucket, LookUpCache(p, b)
  PROVE  BudgetInv'
<1>1. PICK s : s = [NotAsking EXCEPT !.at = "acquire", !.bucket = b]
  OBVIOUS
<1>2. s = [at |-> "acquire", bucket |-> b, month |-> 0]
  BY <1>1 DEF NotAsking
<1>3. s \in Asks /\ s.at # "send"
  <2>1. 0 \in 0..MaxMonths
    BY BudgetAssumption
  <2>2. QED
    BY <1>2, <2>1 DEF Asks, Months
<1>4. /\ ask' = [ask EXCEPT ![p] = s] /\ ask[p].at = "idle"
      /\ UNCHANGED <<counter, mortal, response, month, billed, late, carried, forgotten, blips>>
  BY <1>1 DEF LookUpCache
<1>5. /\ ask' \in [Request -> Asks] /\ Fit(ask')
      /\ \A l, M : Flow(ask', M, l) = Flow(ask, M, l)
  <2>1. \A l, M : p \notin Sending(ask, M, l)
    BY <1>4 DEF Sending
  <2>2. QED
    BY <1>3, <1>4, <2>1, StopKeepsFit
<1>6. ProviderBudgetTypeOK'
  BY <1>4, <1>5 DEF ProviderBudgetTypeOK, BudgetInv, Asks
<1>7. LedgersFit'
  BY <1>4, <1>5 DEF LedgersFit, BudgetInv
<1>8. CountsExpire'
  BY <1>4 DEF CountsExpire, BudgetInv
<1>9. LateFit'
  BY <1>4, <1>5 DEF LateFit, BudgetInv
<1>10. QED
  BY <1>5, <1>6, <1>7, <1>8, <1>9 DEF BudgetInv

\* What the script makes of a counter: a value it cannot read counts as none.
ReadOf(held) == IF held = Damaged THEN 0 ELSE held

\* The counter takes c units, of which d are now about to be spent.
LEMMA HeldGrows ==
  ASSUME NEW x \in Nat, NEW h \in Nat \cup {Damaged}, NEW f \in Nat, NEW n \in Nat, NEW m \in Nat,
         NEW c \in Nat, NEW d \in Nat, d <= c, m = 0 => n = 0 /\ d = c,
         SpentHeld(x, h, f, n), ReadOf(h) + c <= MonthlyMax
  PROVE  SpentHeld(d + x, ReadOf(h) + c, f, m)
<1>1. PICK r : r = ReadOf(h)
  OBVIOUS
<1>2. r \in Nat /\ (h # Damaged => r = h) /\ Damaged \notin Nat
  BY <1>1 DEF ReadOf, Damaged
<1>3. PICK k : k = MonthlyMax * f
  OBVIOUS
<1>4. k \in Int
  BY <1>3, BudgetAssumption
<1>5. x <= r + k /\ (n = 0 => x = h)
  BY <1>1, <1>3 DEF SpentHeld, ReadOf
<1>6. n = 0 => h # Damaged
  BY <1>2, <1>5
<1>7. r + c # Damaged /\ r + c <= MonthlyMax
  BY <1>1, <1>2 DEF Damaged
<1>8. d + x <= (r + c) + k
  BY <1>2, <1>4, <1>5
<1>9. m = 0 => d + x = r + c
  BY <1>2, <1>5, <1>6
<1>10. SpentHeld(d + x, r + c, f, m)
  BY <1>3, <1>7, <1>8, <1>9 DEF SpentHeld
<1>11. QED
  BY <1>1, <1>10

\* Fewer units about to be spent.
LEMMA SpentShrinks ==
  ASSUME NEW x \in Nat, NEW y \in Nat, y <= x, NEW h \in Nat \cup {Damaged}, NEW f \in Nat,
         NEW n \in Nat, NEW m \in Nat, m = 0 => n = 0 /\ y = x, SpentHeld(x, h, f, n)
  PROVE  SpentHeld(y, h, f, m)
<1>1. PICK r : r = ReadOf(h)
  OBVIOUS
<1>2. PICK k : k = MonthlyMax * f
  OBVIOUS
<1>3. k \in Int /\ r \in Int
  BY <1>1, <1>2, BudgetAssumption DEF ReadOf
<1>4. x <= r + k /\ (n = 0 => x = h) /\ h <= MonthlyMax /\ (h = Damaged => f > 0)
  BY <1>1, <1>2 DEF SpentHeld, ReadOf
<1>5. y <= r + k
  BY <1>3, <1>4
<1>6. QED
  BY <1>1, <1>2, <1>4, <1>5 DEF SpentHeld, ReadOf

\* A debit of a ledger that holds what is spent stays within the ceiling.
LEMMA DebitHolds ==
  ASSUME BudgetInv, NEW l \in Ledgers, NEW b \in Bucket, Debit(l, b)
  PROVE  /\ counter' \in [Ledgers -> [Keys -> Nat \cup {Damaged}]]
         /\ mortal' \in [Ledgers -> SUBSET Keys]
         /\ CountsExpire'
         /\ \A m \in Ledgers : m # l => counter'[m] = counter[m]
         /\ \E c \in Nat : /\ c = IF Admits(l, b) THEN CostOf[b] ELSE 0
                           /\ counter'[l][Cu] = ReadOf(counter[l][Cu]) + c
                           /\ ReadOf(counter[l][Cu]) + c <= MonthlyMax
<1>1. ProviderBudgetTypeOK /\ CountsExpire
  BY DEF BudgetInv
<1>2. Read(l, Cu) = ReadOf(counter[l][Cu])
  BY DEF Read, ReadOf
<1>3. PICK c : c = IF Admits(l, b) THEN CostOf[b] ELSE 0
  OBVIOUS
<1>4. c \in Nat
  BY <1>3, BudgetAssumption
<1>5. counter'[l][Cu] = ReadOf(counter[l][Cu]) + c
  BY <1>1, <1>2, <1>3, DebitMoves
<1>6. ReadOf(counter[l][Cu]) + c <= MonthlyMax
  <2>1. CASE Admits(l, b)
    BY <2>1, <1>2, <1>3 DEF Admits
  <2>2. CASE ~Admits(l, b)
    <3>1. c = 0 /\ counter[l][Cu] <= MonthlyMax /\ MonthlyMax \in Nat
      BY <2>2, <1>3, LedgerNumbers, BudgetAssumption DEF SpentHeld
    <3>2. counter[l][Cu] \in Nat \cup {Damaged}
      BY LedgerNumbers
    <3>3. QED
      BY <3>1, <3>2 DEF ReadOf
  <2>3. QED
    BY <2>1, <2>2
<1>7. QED
  BY <1>1, <1>3, <1>4, <1>5, <1>6, DebitMoves

(***************************************************************************)
(* The script answers: the call is admitted, or there is none.             *)
(***************************************************************************)
LEMMA AcquireKeepsBudget ==
  ASSUME BudgetInv, NEW p \in Request, NEW b \in Bucket, isRateLimited(p, b)
  PROVE  BudgetInv'
<1>1. PICK l0 \in Ledgers : l0 = LedgerOf(p)
  BY LedgerOfType
<1>2. /\ ask[p].at = "acquire" /\ Debit(l0, b)
      /\ IF Admits(l0, b) THEN Admitted(p, b) ELSE Rest(p)
      /\ UNCHANGED <<response, month, billed, late, carried, forgotten, blips>>
  BY <1>1 DEF isRateLimited, Is
<1>3. /\ counter' \in [Ledgers -> [Keys -> Nat \cup {Damaged}]]
      /\ mortal' \in [Ledgers -> SUBSET Keys]
      /\ CountsExpire'
      /\ \A m \in Ledgers : m # l0 => counter'[m] = counter[m]
  BY <1>2, DebitHolds
<1>4. PICK c \in Nat : /\ c = IF Admits(l0, b) THEN CostOf[b] ELSE 0
                       /\ counter'[l0][Cu] = ReadOf(counter[l0][Cu]) + c
                       /\ ReadOf(counter[l0][Cu]) + c <= MonthlyMax
  BY <1>2, DebitHolds
<1>5. /\ ask' \in [Request -> Asks] /\ Fit(ask')
      /\ \A l \in Ledgers : /\ l # l0 => Flow(ask', {month}, l) = Flow(ask, {month}, l)
                            /\ l = l0 => Flow(ask', {month}, l) = c + Flow(ask, {month}, l)
                            /\ Flow(ask', Others(month), l) = Flow(ask, Others(month), l)
  <2>1. CASE Admits(l0, b)
    <3>1. PICK s : s = [at |-> "send", bucket |-> b, month |-> month]
      OBVIOUS
    <3>2. s \in Asks /\ s.at = "send" /\ s.bucket = b /\ s.month = month
      <4>1. month \in 1..MaxMonths
        BY DEF BudgetInv, ProviderBudgetTypeOK
      <4>2. MaxMonths \in Nat
        BY BudgetAssumption
      <4>3. month \in 0..MaxMonths
        BY <4>1, <4>2
      <4>4. QED
        BY <3>1, <4>3 DEF Asks, Months
    <3>3. Fit(ask) /\ Turned(ask, ask', p, s) /\ ask[p].at # "send" /\ Waits(ask, p)
      BY <1>2, <2>1, <3>1 DEF BudgetInv, Turned, Admitted, Waits
    <3>4. Fit(ask')
      BY <3>2, <3>3, CallSends
    <3>5. CostOf[s.bucket] = c
      BY <1>4, <2>1, <3>2
    <3>6. ASSUME NEW l \in Ledgers
          PROVE  /\ l = LedgerOf(p) =>
                      Flow(ask', {month}, l) = CostOf[s.bucket] + Flow(ask, {month}, l)
                 /\ l # LedgerOf(p) => Flow(ask', {month}, l) = Flow(ask, {month}, l)
                 /\ Flow(ask', Others(month), l) = Flow(ask, Others(month), l)
      <4>1. PICK N : N = {month}
        OBVIOUS
      <4>2. s.month \in N
        BY <3>2, <4>1
      <4>3. /\ l = LedgerOf(p) => Flow(ask', N, l) = CostOf[s.bucket] + Flow(ask, N, l)
            /\ l # LedgerOf(p) => Flow(ask', N, l) = Flow(ask, N, l)
        <5>1. CASE l = LedgerOf(p)
          BY <3>2, <3>3, <4>2, <5>1, CallAdds
        <5>2. CASE l # LedgerOf(p)
          <6>1. ~SendsFor(p, s, N, l)
            BY <5>2 DEF SendsFor
          <6>2. Flow(ask', N, l) = Flow(ask, N, l)
            BY <3>2, <3>3, <6>1, CallElsewhere
          <6>3. QED
            BY <5>2, <6>2
        <5>3. QED
          BY <5>1, <5>2
      <4>4. PICK O : O = Others(month)
        OBVIOUS
      <4>5. ~SendsFor(p, s, O, l)
        BY <3>2, <4>4 DEF Others, SendsFor
      <4>6. Flow(ask', O, l) = Flow(ask, O, l)
        BY <3>2, <3>3, <4>5, CallElsewhere
      <4>7. QED
        BY <4>1, <4>3, <4>4, <4>6
    <3>7. ask' \in [Request -> Asks]
      BY <3>4 DEF Fit
    <3>8. QED
      BY <1>1, <3>4, <3>5, <3>6, <3>7
  <2>2. CASE ~Admits(l0, b)
    <3>1. NotAsking \in Asks /\ NotAsking.at # "send"
      BY BudgetAssumption DEF NotAsking, Asks, Months
    <3>2. ask' = [ask EXCEPT ![p] = NotAsking]
      BY <1>2, <2>2 DEF Rest
    <3>3. \A l, M : p \notin Sending(ask, M, l)
      BY <1>2 DEF Sending
    <3>4. /\ ask' \in [Request -> Asks] /\ Fit(ask')
          /\ \A l, M : Flow(ask', M, l) = Flow(ask, M, l)
      BY <3>1, <3>2, <3>3, StopKeepsFit
    <3>5. c = 0 /\ Flow(ask, {month}, l0) \in Nat
      BY <1>4, <2>2, LedgerNumbers
    <3>6. Flow(ask', {month}, l0) = c + Flow(ask, {month}, l0)
      BY <3>4, <3>5
    <3>7. QED
      BY <3>4, <3>6
  <2>3. QED
    BY <2>1, <2>2
<1>6. ProviderBudgetTypeOK'
  BY <1>2, <1>3, <1>5 DEF ProviderBudgetTypeOK, BudgetInv, Asks
<1>7. LedgersFit'
  <2> SUFFICES ASSUME NEW l \in Ledgers
               PROVE  SpentHeld(billed[l] + Flow(ask', {month}, l), counter'[l][Cu],
                                forgotten[l], blips)
    BY <1>2 DEF LedgersFit
  <2>1. CASE l # l0
    BY <2>1, <1>3, <1>5, LedgerNumbers
  <2>2. CASE l = l0
    <3>1. PICK x : x = billed[l] + Flow(ask, {month}, l)
      OBVIOUS
    <3>2. x \in Nat /\ c + x = billed[l] + Flow(ask', {month}, l)
      <4>1. billed[l] \in Nat /\ Flow(ask, {month}, l) \in Nat
        BY LedgerNumbers
      <4>2. Flow(ask', {month}, l) = c + Flow(ask, {month}, l)
        BY <1>5, <2>2
      <4>3. QED
        BY <3>1, <4>1, <4>2
    <3>3. PICK h : h = counter[l][Cu]
      OBVIOUS
    <3>4. /\ h \in Nat \cup {Damaged} /\ forgotten[l] \in Nat /\ blips \in Nat
          /\ SpentHeld(x, h, forgotten[l], blips)
      BY <3>1, <3>3, LedgerNumbers
    <3>5. ReadOf(h) + c <= MonthlyMax /\ c <= c
      BY <1>4, <2>2, <3>3
    <3>6. SpentHeld(c + x, ReadOf(h) + c, forgotten[l], blips)
      BY <3>2, <3>4, <3>5, HeldGrows
    <3>7. QED
      BY <3>2, <3>3, <3>6, <1>4, <2>2
  <2>3. QED
    BY <2>1, <2>2
<1>8. LateFit'
  BY <1>2, <1>5 DEF LateFit, BudgetInv
<1>9. QED
  BY <1>3, <1>5, <1>6, <1>7, <1>8 DEF BudgetInv

(***************************************************************************)
(* The script does not answer, but may have run.                           *)
(***************************************************************************)
LEMMA UnreachableKeepsBudget ==
  ASSUME BudgetInv, NEW p \in Request, NEW b \in Bucket, Unreachable(p, b)
  PROVE  BudgetInv'
<1>1. PICK l0 \in Ledgers : l0 = LedgerOf(p)
  BY LedgerOfType
<1>2. /\ ask[p].at = "acquire" /\ ask' = [ask EXCEPT ![p] = NotAsking]
      /\ Debit(l0, b) \/ UNCHANGED <<counter, mortal>>
      /\ blips' = blips + 1 /\ UNCHANGED <<response, month, billed, late, carried, forgotten>>
  BY <1>1 DEF Unreachable, Is, Blip, Rest
<1>3. /\ ask' \in [Request -> Asks] /\ Fit(ask')
      /\ \A l, M : Flow(ask', M, l) = Flow(ask, M, l)
  <2>1. NotAsking \in Asks /\ NotAsking.at # "send"
    BY BudgetAssumption DEF NotAsking, Asks, Months
  <2>2. \A l, M : p \notin Sending(ask, M, l)
    BY <1>2 DEF Sending
  <2>3. QED
    BY <1>2, <2>1, <2>2, StopKeepsFit
<1>4. blips \in Nat /\ blips' \in Nat /\ blips' # 0
  <2>1. blips \in Nat
    BY DEF BudgetInv, ProviderBudgetTypeOK
  <2>2. QED
    BY <1>2, <2>1
<1>5. /\ counter' \in [Ledgers -> [Keys -> Nat \cup {Damaged}]]
      /\ mortal' \in [Ledgers -> SUBSET Keys]
      /\ CountsExpire'
  <2>1. CASE Debit(l0, b)
    BY <2>1, DebitHolds
  <2>2. CASE UNCHANGED <<counter, mortal>>
    BY <2>2 DEF BudgetInv, ProviderBudgetTypeOK, CountsExpire
  <2>3. QED
    BY <1>2, <2>1, <2>2
<1>6. ProviderBudgetTypeOK'
  BY <1>2, <1>3, <1>4, <1>5 DEF ProviderBudgetTypeOK, BudgetInv, Asks
<1>7. LedgersFit'
  <2> SUFFICES ASSUME NEW l \in Ledgers
               PROVE  SpentHeld(billed[l] + Flow(ask, {month}, l), counter'[l][Cu],
                                forgotten[l], blips')
    BY <1>2, <1>3 DEF LedgersFit
  <2>1. PICK x : x = billed[l] + Flow(ask, {month}, l)
    OBVIOUS
  <2>2. x \in Nat
    <3>1. billed[l] \in Nat /\ Flow(ask, {month}, l) \in Nat
      BY LedgerNumbers
    <3>2. QED
      BY <2>1, <3>1
  <2>3. PICK h : h = counter[l][Cu]
    OBVIOUS
  <2>4. PICK n : n = blips'
    OBVIOUS
  <2>5. /\ h \in Nat \cup {Damaged} /\ forgotten[l] \in Nat
        /\ SpentHeld(x, h, forgotten[l], blips)
    BY <2>1, <2>3, LedgerNumbers
  <2>6. n \in Nat /\ n # 0
    BY <1>4, <2>4
  <2>7. CASE counter'[l][Cu] = counter[l][Cu]
    <3>1. SpentHeld(x, h, forgotten[l], n)
      <4>1. x <= x
        BY <2>2
      <4>2. QED
        BY <2>2, <2>5, <2>6, <1>4, <4>1, SpentShrinks
    <3>2. QED
      BY <2>1, <2>3, <2>4, <2>7, <3>1
  <2>8. CASE l = l0 /\ Debit(l0, b)
    <3>1. PICK c \in Nat : /\ counter'[l][Cu] = ReadOf(h) + c
                           /\ ReadOf(h) + c <= MonthlyMax
      BY <2>3, <2>8, DebitHolds
    <3>2. SpentHeld(0 + x, ReadOf(h) + c, forgotten[l], n)
      <4>1. 0 \in Nat /\ 0 <= c
        OBVIOUS
      <4>2. QED
        BY <2>2, <2>5, <2>6, <3>1, <1>4, <4>1, HeldGrows
    <3>3. 0 + x = x
      BY <2>2
    <3>4. QED
      BY <2>1, <2>4, <3>1, <3>2, <3>3
  <2>9. QED
    BY <2>7, <2>8, <1>2, DebitHolds
<1>8. LateFit'
  BY <1>2, <1>3 DEF LateFit, BudgetInv
<1>9. QED
  BY <1>3, <1>5, <1>6, <1>7, <1>8 DEF BudgetInv

(***************************************************************************)
(* A count is lost: a fresh ceiling for it.                                *)
(***************************************************************************)
LEMMA HeldLost ==
  ASSUME NEW x \in Nat, NEW y \in Nat, y <= x, NEW h \in Nat \cup {Damaged}, NEW f \in Nat,
         NEW n \in Nat, NEW m \in Nat, m # 0, NEW g \in {0, Damaged}, SpentHeld(x, h, f, n)
  PROVE  SpentHeld(y, g, f + 1, m)
<1>1. PICK r : r = ReadOf(h)
  OBVIOUS
<1>2. PICK k : k = MonthlyMax * f
  OBVIOUS
<1>3. MonthlyMax \in Nat
  BY BudgetAssumption
<1>4. k \in Int /\ r \in Nat /\ MonthlyMax * (f + 1) = k + MonthlyMax
  BY <1>1, <1>2, <1>3 DEF ReadOf
<1>5. x <= r + k /\ h <= MonthlyMax
  BY <1>1, <1>2 DEF SpentHeld, ReadOf
<1>6. r <= MonthlyMax
  BY <1>1, <1>3, <1>5 DEF ReadOf
<1>7. y <= 0 + (k + MonthlyMax)
  BY <1>3, <1>4, <1>5, <1>6
<1>8. g <= MonthlyMax /\ f + 1 > 0
  BY <1>3 DEF Damaged
<1>9. QED
  BY <1>4, <1>7, <1>8 DEF SpentHeld

(***************************************************************************)
(* A call is sent and billed, in its month or late.                        *)
(***************************************************************************)
LEMMA CallKeepsBudget ==
  ASSUME BudgetInv, NEW p \in Request, NEW b \in Bucket, CallProvider(p, b)
  PROVE  BudgetInv'
<1>1. PICK l0 \in Ledgers : l0 = LedgerOf(p)
  BY LedgerOfType
<1>2. /\ ask[p].at = "send" /\ ask[p].bucket = b
      /\ IF ask[p].month = month
         THEN billed' = [billed EXCEPT ![l0] = @ + CostOf[b]] /\ late' = late
         ELSE late' = [late EXCEPT ![l0] = @ + CostOf[b]] /\ billed' = billed
      /\ ask' = [ask EXCEPT ![p] = NotAsking]
      /\ UNCHANGED <<counter, mortal, month, carried, forgotten, blips>>
  BY <1>1 DEF CallProvider, Is, Rest
<1>3. response' \in [Bucket -> {"none", "cached"}]
  <2>1. PICK r \in {response[b], "cached"} : response' = [response EXCEPT ![b] = r]
    BY DEF CallProvider
  <2>2. response \in [Bucket -> {"none", "cached"}]
    BY DEF BudgetInv, ProviderBudgetTypeOK
  <2>3. r \in {"none", "cached"}
    BY <2>1, <2>2
  <2>4. QED
    BY <2>1, <2>2, <2>3
<1>4. \A l \in Ledgers :
        /\ p \in Sending(ask, {month}, l) <=> l = l0 /\ ask[p].month = month
        /\ p \in Sending(ask, Others(month), l) <=> l = l0 /\ ask[p].month # month
  <2>1. ask[p].month \in Months
    BY DEF BudgetInv, Fit, Asks
  <2>2. QED
    BY <1>1, <1>2, <2>1 DEF Sending, Others, Users
<1>5. /\ ask' \in [Request -> Asks] /\ Fit(ask')
      /\ \A l, M :
           /\ p \in Sending(ask, M, l) => Flow(ask, M, l) = CostOf[b] + Flow(ask', M, l)
           /\ p \notin Sending(ask, M, l) => Flow(ask', M, l) = Flow(ask, M, l)
  <2>1. NotAsking \in Asks /\ NotAsking.at # "send"
    BY BudgetAssumption DEF NotAsking, Asks, Months
  <2>2. QED
    BY <1>2, <2>1, StopKeepsFit
<1>6. \A l, M : Flow(ask', M, l) \in Nat
  <2> SUFFICES ASSUME NEW l, NEW M PROVE Flow(ask', M, l) \in Nat
    OBVIOUS
  <2>1. PICK c : c = ask'
    OBVIOUS
  <2>2. \A q \in Sending(c, M, l) : c[q].bucket \in Bucket
    BY <2>1, <1>5 DEF Fit, Sending, Users
  <2>3. QED
    BY <2>1, <2>2, FlowType
<1>7. billed \in [Ledgers -> Nat] /\ late \in [Ledgers -> Nat] /\ CostOf[b] \in Nat
  BY BudgetAssumption DEF BudgetInv, ProviderBudgetTypeOK
<1>8. ProviderBudgetTypeOK'
  <2>1. billed' \in [Ledgers -> Nat] /\ late' \in [Ledgers -> Nat]
    BY <1>2, <1>7
  <2>2. QED
    BY <1>2, <1>3, <1>5, <2>1 DEF ProviderBudgetTypeOK, BudgetInv, Asks
<1>9. LedgersFit'
  <2> SUFFICES ASSUME NEW l \in Ledgers
               PROVE  billed'[l] + Flow(ask', {month}, l) = billed[l] + Flow(ask, {month}, l)
    BY <1>2 DEF LedgersFit, BudgetInv
  <2>1. CASE l = l0 /\ ask[p].month = month
    <3>1. billed'[l] = billed[l] + CostOf[b]
      BY <2>1, <1>2, <1>7
    <3>2. Flow(ask, {month}, l) = CostOf[b] + Flow(ask', {month}, l)
      BY <2>1, <1>4, <1>5
    <3>3. billed[l] \in Nat /\ Flow(ask', {month}, l) \in Nat
      BY <1>6, <1>7
    <3>4. QED
      BY <3>1, <3>2, <3>3, <1>7
  <2>2. CASE ~(l = l0 /\ ask[p].month = month)
    <3>1. billed'[l] = billed[l]
      BY <2>2, <1>2, <1>7
    <3>2. Flow(ask, {month}, l) = Flow(ask', {month}, l)
      BY <2>2, <1>4, <1>5
    <3>3. QED
      BY <3>1, <3>2
  <2>3. QED
    BY <2>1, <2>2
<1>10. CountsExpire'
  BY <1>2 DEF CountsExpire, BudgetInv
<1>11. LateFit'
  <2> SUFFICES ASSUME NEW l \in Ledgers
               PROVE  late'[l] + Flow(ask', Others(month), l) = late[l] + Flow(ask, Others(month), l)
    BY <1>2 DEF LateFit, BudgetInv
  <2>1. CASE l = l0 /\ ask[p].month # month
    <3>1. late'[l] = late[l] + CostOf[b] /\ late[l] \in Nat
      BY <2>1, <1>2, <1>7
    <3>2. Flow(ask, Others(month), l) = CostOf[b] + Flow(ask', Others(month), l)
      BY <2>1, <1>4, <1>5
    <3>3. QED
      BY <3>1, <3>2, <1>6, <1>7
  <2>2. CASE ~(l = l0 /\ ask[p].month # month)
    <3>1. late'[l] = late[l]
      BY <2>2, <1>2, <1>7
    <3>2. Flow(ask', Others(month), l) = Flow(ask, Others(month), l)
      BY <2>2, <1>4, <1>5
    <3>3. QED
      BY <3>1, <3>2
  <2>3. QED
    BY <2>1, <2>2
<1>12. QED
  BY <1>5, <1>8, <1>9, <1>10, <1>11 DEF BudgetInv

(***************************************************************************)
(* A process restarts: its calls are gone, and its ledger if it had one.   *)
(***************************************************************************)
LEMMA RestartKeepsBudget ==
  ASSUME BudgetInv, NEW p \in Client, Restart(p)
  PROVE  BudgetInv'
<1>1. /\ blips' = blips + 1
      /\ ask' = [q \in Request |-> IF ProcOf[q] = p THEN NotAsking ELSE ask[q]]
      /\ UNCHANGED <<response, month, billed, late, carried>>
  BY DEF Restart, Blip
<1>2. NotAsking \in Asks /\ NotAsking.at # "send"
  BY BudgetAssumption DEF NotAsking, Asks, Months
<1>3. /\ ask' \in [Request -> Asks] /\ Fit(ask') /\ Fit(ask)
      /\ \A q \in Request : ask'[q] = ask[q] \/ ask'[q].at # "send"
  BY <1>1, <1>2 DEF Fit, BudgetInv
<1>4. \A l, M : Flow(ask', M, l) \in Nat /\ Flow(ask', M, l) <= Flow(ask, M, l)
  <2>1. PICK c : c = ask'
    OBVIOUS
  <2>2. Fit(c) /\ \A q \in Request : c[q] = ask[q] \/ c[q].at # "send"
    BY <2>1, <1>3
  <2>3. \A l, M : Flow(c, M, l) \in Nat /\ Flow(c, M, l) <= Flow(ask, M, l)
    BY <2>2, <1>3, CallsLost
  <2>4. QED
    BY <2>1, <2>3
<1>5. blips \in Nat /\ blips' \in Nat /\ blips' # 0
  <2>1. blips \in Nat
    BY DEF BudgetInv, ProviderBudgetTypeOK
  <2>2. QED
    BY <1>1, <2>1
<1>6. /\ counter \in [Ledgers -> [Keys -> Nat \cup {Damaged}]]
      /\ mortal \in [Ledgers -> SUBSET Keys] /\ forgotten \in [Ledgers -> Nat]
  BY DEF BudgetInv, ProviderBudgetTypeOK
<1>7. Cu \in Keys
  BY DEF Keys
<1>8. \A l \in Ledgers :
        \/ counter'[l] = counter[l] /\ mortal'[l] = mortal[l] /\ forgotten'[l] = forgotten[l]
        \/ /\ counter'[l] = [k \in Keys |-> 0]
           /\ forgotten'[l] = forgotten[l] + 1
  <2>1. CASE p \in Shared
    BY <2>1 DEF Restart
  <2>2. CASE p \notin Shared
    <3>1. {p} \in Ledgers
      BY <2>2 DEF Ledgers
    <3>2. QED
      BY <2>2, <3>1, <1>6 DEF Restart
  <2>3. QED
    BY <2>1, <2>2
<1>9. /\ counter' \in [Ledgers -> [Keys -> Nat \cup {Damaged}]]
      /\ mortal' \in [Ledgers -> SUBSET Keys] /\ forgotten' \in [Ledgers -> Nat]
  <2>1. CASE p \in Shared
    BY <2>1, <1>6 DEF Restart
  <2>2. CASE p \notin Shared
    <3>1. [k \in Keys |-> 0] \in [Keys -> Nat \cup {Damaged}]
      OBVIOUS
    <3>2. forgotten' = [forgotten EXCEPT ![{p}] = @ + 1]
      BY <2>2 DEF Restart
    <3>3. {p} \in Ledgers
      BY <2>2 DEF Ledgers
    <3>4. PICK d \in Nat : d = forgotten[{p}] + 1
      BY <3>3, <1>6
    <3>5. forgotten' = [forgotten EXCEPT ![{p}] = d]
      BY <3>2, <3>4
    <3>6. forgotten' \in [Ledgers -> Nat]
      BY <3>5, <1>6
    <3>7. QED
      BY <2>2, <3>1, <3>6, <1>6 DEF Restart
  <2>3. QED
    BY <2>1, <2>2
<1>10. ProviderBudgetTypeOK'
  BY <1>1, <1>3, <1>5, <1>9 DEF ProviderBudgetTypeOK, BudgetInv, Asks
<1>11. LedgersFit'
  <2> SUFFICES ASSUME NEW l \in Ledgers
               PROVE  SpentHeld(billed[l] + Flow(ask', {month}, l), counter'[l][Cu],
                                forgotten'[l], blips')
    BY <1>1 DEF LedgersFit
  <2>1. PICK x : x = billed[l] + Flow(ask, {month}, l)
    OBVIOUS
  <2>2. PICK y : y = billed[l] + Flow(ask', {month}, l)
    OBVIOUS
  <2>3. x \in Nat /\ y \in Nat /\ y <= x
    <3>1. billed[l] \in Nat /\ Flow(ask, {month}, l) \in Nat
      BY LedgerNumbers
    <3>2. QED
      BY <2>1, <2>2, <3>1, <1>4
  <2>4. PICK h : h = counter[l][Cu]
    OBVIOUS
  <2>5. PICK n : n = blips'
    OBVIOUS
  <2>6. PICK f : f = forgotten[l]
    OBVIOUS
  <2>7. /\ h \in Nat \cup {Damaged} /\ f \in Nat
        /\ SpentHeld(x, h, f, blips)
    BY <2>1, <2>4, <2>6, LedgerNumbers
  <2>8. n \in Nat /\ n # 0
    BY <1>5, <2>5
  <2>9. CASE counter'[l] = counter[l] /\ forgotten'[l] = forgotten[l]
    <3>1. SpentHeld(y, h, f, n)
      BY <2>3, <2>7, <2>8, <1>5, SpentShrinks
    <3>2. QED
      BY <2>2, <2>4, <2>5, <2>6, <2>9, <3>1
  <2>10. CASE counter'[l] = [k \in Keys |-> 0] /\ forgotten'[l] = forgotten[l] + 1
    <3>1. SpentHeld(y, 0, f + 1, n)
      <4>1. 0 \in {0, Damaged}
        OBVIOUS
      <4>2. QED
        BY <2>3, <2>7, <2>8, <4>1, <1>5, HeldLost
    <3>2. counter'[l][Cu] = 0
      BY <2>10, <1>7
    <3>3. QED
      BY <2>2, <2>5, <2>6, <2>10, <3>1, <3>2
  <2>11. QED
    BY <2>9, <2>10, <1>8
<1>12. CountsExpire'
  <2> SUFFICES ASSUME NEW l \in Ledgers, NEW k \in Keys, counter'[l][k] > 0
               PROVE  k \in mortal'[l]
    BY DEF CountsExpire
  <2>1. CASE counter'[l] = counter[l] /\ mortal'[l] = mortal[l]
    BY <2>1 DEF BudgetInv, CountsExpire
  <2>2. CASE counter'[l] = [j \in Keys |-> 0]
    BY <2>2
  <2>3. QED
    BY <2>1, <2>2, <1>8
<1>13. LateFit'
  <2> SUFFICES ASSUME NEW l \in Ledgers
               PROVE  late[l] + Flow(ask', Others(month), l) <= carried[l]
    BY <1>1 DEF LateFit
  <2>1. /\ late[l] \in Nat /\ carried[l] \in Nat /\ Flow(ask, Others(month), l) \in Nat
        /\ late[l] + Flow(ask, Others(month), l) <= carried[l]
    BY LedgerNumbers
  <2>2. QED
    BY <2>1, <1>4
<1>14. QED
  BY <1>3, <1>10, <1>11, <1>12, <1>13 DEF BudgetInv

(***************************************************************************)
(* What goes with time: a cached answer, a window, a month.                *)
(***************************************************************************)
LEMMA ExpiryKeepsBudget ==
  ASSUME BudgetInv, NEW b \in Bucket, ResponseExpires(b)
  PROVE  BudgetInv'
<1>1. UNCHANGED <<counter, mortal, ask, month, billed, late, carried, forgotten, blips>>
  BY DEF ResponseExpires
<1>2. response' \in [Bucket -> {"none", "cached"}]
  BY DEF ResponseExpires, BudgetInv, ProviderBudgetTypeOK
<1>3. ProviderBudgetTypeOK' /\ Fit(ask)'
  BY <1>1, <1>2 DEF BudgetInv, ProviderBudgetTypeOK
<1>4. LedgersFit' /\ CountsExpire' /\ LateFit'
  BY <1>1 DEF BudgetInv, LedgersFit, CountsExpire, LateFit
<1>5. QED
  BY <1>3, <1>4 DEF BudgetInv

\* The window of a rate ends; the units of the month stay.
LEMMA WindowKeepsBudget ==
  ASSUME BudgetInv, NEW l0 \in Ledgers, NEW k0 \in Keys, WindowEnds(l0, k0)
  PROVE  BudgetInv'
<1>1. /\ k0 # Cu
      /\ counter' = [counter EXCEPT ![l0][k0] = 0]
      /\ mortal' = [mortal EXCEPT ![l0] = @ \ {k0}]
      /\ UNCHANGED <<response, ask, month, billed, late, carried, forgotten, blips>>
  BY DEF WindowEnds
<1>2. /\ counter \in [Ledgers -> [Keys -> Nat \cup {Damaged}]]
      /\ mortal \in [Ledgers -> SUBSET Keys] /\ Cu \in Keys
  BY DEF BudgetInv, ProviderBudgetTypeOK, Keys
<1>3. /\ counter' \in [Ledgers -> [Keys -> Nat \cup {Damaged}]]
      /\ mortal' \in [Ledgers -> SUBSET Keys]
  BY <1>1, <1>2
<1>4. \A l \in Ledgers : counter'[l][Cu] = counter[l][Cu]
  BY <1>1, <1>2
<1>5. ProviderBudgetTypeOK' /\ Fit(ask)'
  BY <1>1, <1>3 DEF BudgetInv, ProviderBudgetTypeOK
<1>6. LedgersFit' /\ LateFit'
  BY <1>1, <1>4 DEF BudgetInv, LedgersFit, LateFit
<1>7. CountsExpire'
  <2> SUFFICES ASSUME NEW l \in Ledgers, NEW k \in Keys, counter'[l][k] > 0
               PROVE  k \in mortal'[l]
    BY DEF CountsExpire
  <2>1. CASE l = l0 /\ k = k0
    BY <2>1, <1>1, <1>2
  <2>2. CASE ~(l = l0 /\ k = k0)
    <3>1. counter'[l][k] = counter[l][k]
      BY <2>2, <1>1, <1>2
    <3>2. k \in mortal[l]
      BY <3>1 DEF BudgetInv, CountsExpire
    <3>3. QED
      BY <2>2, <3>2, <1>1, <1>2
  <2>3. QED
    BY <2>1, <2>2
<1>8. QED
  BY <1>5, <1>6, <1>7 DEF BudgetInv

\* The month ends: its counts are dropped together, and calls that are still on
\* their way are late in the next one.
LEMMA MonthKeepsBudget ==
  ASSUME BudgetInv, MonthTurns
  PROVE  BudgetInv'
<1>1. /\ month < MaxMonths /\ month' = month + 1
      /\ \A p \in Request : ask[p].at = "send" => ask[p].month = month
      /\ counter' = [l \in Ledgers |-> [counter[l] EXCEPT ![Cu] = 0]]
      /\ mortal' = [l \in Ledgers |-> mortal[l] \ {Cu}]
      /\ billed' = NoUnits /\ late' = NoUnits /\ forgotten' = NoUnits
      /\ carried' = [l \in Ledgers |-> Flow(ask, {month}, l)]
      /\ UNCHANGED <<response, ask, blips>>
  BY FlowIsInFlight DEF MonthTurns
<1>2. /\ counter \in [Ledgers -> [Keys -> Nat \cup {Damaged}]]
      /\ mortal \in [Ledgers -> SUBSET Keys] /\ Cu \in Keys /\ month \in 1..MaxMonths
  BY DEF BudgetInv, ProviderBudgetTypeOK, Keys
<1>3. month' \in 1..MaxMonths /\ month' # month
  BY <1>1, <1>2, BudgetAssumption
<1>4. /\ counter' \in [Ledgers -> [Keys -> Nat \cup {Damaged}]]
      /\ mortal' \in [Ledgers -> SUBSET Keys]
  BY <1>1, <1>2
<1>5. NoUnits \in [Ledgers -> Nat]
  BY DEF NoUnits
<1>6. ProviderBudgetTypeOK' /\ Fit(ask)'
  <2>1. billed' \in [Ledgers -> Nat] /\ late' \in [Ledgers -> Nat] /\ forgotten' \in [Ledgers -> Nat]
    BY <1>1, <1>5
  <2>2. carried' \in [Ledgers -> Nat]
    BY <1>1, LedgerNumbers
  <2>3. QED
    BY <1>1, <1>3, <1>4, <2>1, <2>2 DEF BudgetInv, ProviderBudgetTypeOK
<1>7. ASSUME NEW l \in Ledgers
      PROVE  /\ SpentHeld(billed'[l] + Flow(ask', {month'}, l), counter'[l][Cu],
                          forgotten'[l], blips')
             /\ late'[l] + Flow(ask', Others(month'), l) <= carried'[l]
  <2>1. billed'[l] = 0 /\ late'[l] = 0 /\ forgotten'[l] = 0 /\ counter'[l][Cu] = 0
    BY <1>1, <1>2 DEF NoUnits
  <2>2. PICK m : m = month'
    OBVIOUS
  <2>3. Sending(ask, {m}, l) = {}
    BY <2>2, <1>1, <1>3 DEF Sending, Users
  <2>4. Flow(ask, {m}, l) = 0
    <3>1. PICK f : f = [p \in Sending(ask, {m}, l) |-> CostOf[ask[p].bucket]]
      OBVIOUS
    <3>2. DOMAIN f = {} /\ Flow(ask, {m}, l) = SumFunctionOnSet(f, DOMAIN f)
      BY <2>3, <3>1 DEF Flow, SumFunction
    <3>3. QED
      BY <3>2, SumEmpty
  <2>5. SpentHeld(0, 0, 0, blips)
    <3>1. MonthlyMax * 0 = 0 /\ 0 <= MonthlyMax
      BY BudgetAssumption
    <3>2. QED
      BY <3>1 DEF SpentHeld, Damaged
  <2>6. Flow(ask, Others(m), l) = Flow(ask, {month}, l)
    <3>1. month \in Others(m)
      BY <2>2, <1>2, <1>3, BudgetAssumption DEF Others, Months
    <3>2. Sending(ask, Others(m), l) = Sending(ask, {month}, l)
      BY <3>1, <1>1 DEF Sending, Users
    <3>3. QED
      BY <3>2, FlowSame
  <2>7. late'[l] + Flow(ask, Others(m), l) <= carried'[l]
    <3>1. carried'[l] = Flow(ask, {month}, l) /\ Flow(ask, {month}, l) \in Nat
      BY <1>1, LedgerNumbers
    <3>2. QED
      BY <2>1, <2>6, <3>1
  <2>8. QED
    BY <2>1, <2>2, <2>4, <2>5, <2>7, <1>1
<1>8. LedgersFit' /\ LateFit'
  BY <1>7 DEF LedgersFit, LateFit
<1>9. CountsExpire'
  <2> SUFFICES ASSUME NEW l \in Ledgers, NEW k \in Keys, counter'[l][k] > 0
               PROVE  k \in mortal'[l]
    BY DEF CountsExpire
  <2>1. k # Cu /\ counter'[l][k] = counter[l][k]
    BY <1>1, <1>2
  <2>2. k \in mortal[l]
    BY <2>1 DEF BudgetInv, CountsExpire
  <2>3. QED
    BY <2>1, <2>2, <1>1
<1>10. QED
  BY <1>6, <1>8, <1>9 DEF BudgetInv

(***************************************************************************)
(* Somebody writes over a key.                                             *)
(***************************************************************************)
LEMMA DamageKeepsBudget ==
  ASSUME BudgetInv, NEW k0 \in Keys, Damage(k0)
  PROVE  BudgetInv'
<1>1. /\ Shared # {} /\ blips' = blips + 1
      /\ counter' = [counter EXCEPT ![Shared][k0] = Damaged]
      /\ forgotten' = [forgotten EXCEPT ![Shared] = IF k0 = Cu THEN @ + 1 ELSE @]
      /\ UNCHANGED <<mortal, response, ask, month, billed, late, carried>>
  BY DEF Damage, Blip
<1>2. /\ counter \in [Ledgers -> [Keys -> Nat \cup {Damaged}]]
      /\ forgotten \in [Ledgers -> Nat] /\ Cu \in Keys /\ Shared \in Ledgers
  BY <1>1 DEF BudgetInv, ProviderBudgetTypeOK, Keys, Ledgers
<1>3. blips \in Nat /\ blips' \in Nat /\ blips' # 0
  <2>1. blips \in Nat
    BY DEF BudgetInv, ProviderBudgetTypeOK
  <2>2. QED
    BY <1>1, <2>1
<1>4. counter' \in [Ledgers -> [Keys -> Nat \cup {Damaged}]] /\ forgotten' \in [Ledgers -> Nat]
  BY <1>1, <1>2
<1>5. ProviderBudgetTypeOK' /\ Fit(ask)'
  BY <1>1, <1>3, <1>4 DEF BudgetInv, ProviderBudgetTypeOK
<1>6. LedgersFit'
  <2> SUFFICES ASSUME NEW l \in Ledgers
               PROVE  SpentHeld(billed[l] + Flow(ask, {month}, l), counter'[l][Cu],
                                forgotten'[l], blips')
    BY <1>1 DEF LedgersFit
  <2>1. PICK x : x = billed[l] + Flow(ask, {month}, l)
    OBVIOUS
  <2>2. x \in Nat
    <3>1. billed[l] \in Nat /\ Flow(ask, {month}, l) \in Nat
      BY LedgerNumbers
    <3>2. QED
      BY <2>1, <3>1
  <2>3. PICK h : h = counter[l][Cu]
    OBVIOUS
  <2>4. PICK n : n = blips'
    OBVIOUS
  <2>5. PICK f : f = forgotten[l]
    OBVIOUS
  <2>6. /\ h \in Nat \cup {Damaged} /\ f \in Nat
        /\ SpentHeld(x, h, f, blips)
    BY <2>1, <2>3, <2>5, LedgerNumbers
  <2>7. n \in Nat /\ n # 0 /\ x <= x
    BY <1>3, <2>2, <2>4
  <2>8. CASE l = Shared /\ k0 = Cu
    <3>1. SpentHeld(x, Damaged, f + 1, n)
      <4>1. Damaged \in {0, Damaged}
        OBVIOUS
      <4>2. QED
        BY <2>2, <2>6, <2>7, <4>1, <1>3, HeldLost
    <3>2. counter'[l][Cu] = Damaged /\ forgotten'[l] = f + 1
      BY <2>5, <2>8, <1>1, <1>2
    <3>3. QED
      BY <2>1, <2>4, <3>1, <3>2
  <2>9. CASE ~(l = Shared /\ k0 = Cu)
    <3>1. SpentHeld(x, h, f, n)
      BY <2>2, <2>6, <2>7, <1>3, SpentShrinks
    <3>2. counter'[l][Cu] = h /\ forgotten'[l] = f
      BY <2>3, <2>5, <2>9, <1>1, <1>2
    <3>3. QED
      BY <2>1, <2>4, <3>1, <3>2
  <2>10. QED
    BY <2>8, <2>9
<1>7. CountsExpire'
  <2> SUFFICES ASSUME NEW l \in Ledgers, NEW k \in Keys, counter'[l][k] > 0
               PROVE  k \in mortal[l]
    BY <1>1 DEF CountsExpire
  <2>1. counter'[l][k] = counter[l][k]
    <3>1. Damaged <= 0
      BY DEF Damaged
    <3>2. CASE l = Shared /\ k = k0
      BY <3>1, <3>2, <1>1, <1>2 DEF Damaged
    <3>3. CASE ~(l = Shared /\ k = k0)
      BY <3>3, <1>1, <1>2
    <3>4. QED
      BY <3>2, <3>3
  <2>2. QED
    BY <2>1 DEF BudgetInv, CountsExpire
<1>8. LateFit'
  BY <1>1 DEF BudgetInv, LateFit
<1>9. QED
  BY <1>5, <1>6, <1>7, <1>8 DEF BudgetInv

(***************************************************************************)
(* The invariant holds at the start and through every step.                *)
(***************************************************************************)
LEMMA BudgetStarts == ProviderBudgetInit => BudgetInv
<1> SUFFICES ASSUME ProviderBudgetInit PROVE BudgetInv
  OBVIOUS
<1>1. /\ counter = [l \in Ledgers |-> [k \in Keys |-> 0]]
      /\ mortal = [l \in Ledgers |-> {}]
      /\ response = [b \in Bucket |-> "none"]
      /\ ask = [p \in Request |-> NotAsking]
      /\ month = 1 /\ blips = 0
      /\ billed = NoUnits /\ late = NoUnits /\ carried = NoUnits /\ forgotten = NoUnits
  BY DEF ProviderBudgetInit
<1>2. NotAsking \in Asks /\ NotAsking.at # "send"
  BY BudgetAssumption DEF NotAsking, Asks, Months
<1>3. ProviderBudgetTypeOK
  <2>1. NoUnits \in [Ledgers -> Nat]
    BY DEF NoUnits
  <2>2. ask \in [Request -> Asks]
    BY <1>1, <1>2
  <2>3. /\ counter \in [Ledgers -> [Keys -> Nat \cup {Damaged}]]
        /\ mortal \in [Ledgers -> SUBSET Keys]
        /\ response \in [Bucket -> {"none", "cached"}]
    BY <1>1
  <2>4. month \in 1..MaxMonths /\ blips \in Nat
    BY <1>1, BudgetAssumption
  <2>5. QED
    BY <1>1, <2>1, <2>2, <2>3, <2>4 DEF ProviderBudgetTypeOK, Asks
<1>4. Fit(ask)
  BY <1>1, <1>2 DEF Fit
<1>5. ASSUME NEW l \in Ledgers
      PROVE  /\ SpentHeld(billed[l] + Flow(ask, {month}, l), counter[l][Cu], forgotten[l], blips)
             /\ late[l] + Flow(ask, Others(month), l) <= carried[l]
  <2>1. billed[l] = 0 /\ late[l] = 0 /\ carried[l] = 0 /\ forgotten[l] = 0
    BY <1>1 DEF NoUnits
  <2>2. counter[l][Cu] = 0
    BY <1>1 DEF Keys
  <2>3. \A M : Sending(ask, M, l) = {}
    BY <1>1 DEF Sending, Users, NotAsking
  <2>4. ASSUME NEW M PROVE Flow(ask, M, l) = 0
    <3>1. PICK f : f = [p \in Sending(ask, M, l) |-> CostOf[ask[p].bucket]]
      OBVIOUS
    <3>2. DOMAIN f = {} /\ Flow(ask, M, l) = SumFunctionOnSet(f, DOMAIN f)
      BY <2>3, <3>1 DEF Flow, SumFunction
    <3>3. QED
      BY <3>2, SumEmpty
  <2>5. SpentHeld(0, 0, 0, blips)
    <3>1. MonthlyMax * 0 = 0 /\ 0 <= MonthlyMax
      BY BudgetAssumption
    <3>2. QED
      BY <3>1 DEF SpentHeld, Damaged
  <2>6. QED
    BY <2>1, <2>2, <2>4, <2>5
<1>6. LedgersFit /\ LateFit
  BY <1>5 DEF LedgersFit, LateFit
<1>7. CountsExpire
  BY <1>1 DEF CountsExpire
<1>8. QED
  BY <1>3, <1>4, <1>6, <1>7 DEF BudgetInv

\* One step per call, expiry and failure.
LEMMA BudgetStep == BudgetInv /\ [ProviderBudgetNext]_pbVars => BudgetInv'
<1> SUFFICES ASSUME BudgetInv, [ProviderBudgetNext]_pbVars PROVE BudgetInv'
  OBVIOUS
<1>1. ASSUME NEW p \in Request, NEW b \in Bucket, LookUpCache(p, b) PROVE BudgetInv'
  BY <1>1, LookUpKeepsBudget
<1>2. ASSUME NEW p \in Request, NEW b \in Bucket, isRateLimited(p, b) PROVE BudgetInv'
  BY <1>2, AcquireKeepsBudget
<1>3. ASSUME NEW p \in Request, NEW b \in Bucket, Unreachable(p, b) PROVE BudgetInv'
  BY <1>3, UnreachableKeepsBudget
<1>4. ASSUME NEW p \in Request, NEW b \in Bucket, CallProvider(p, b) PROVE BudgetInv'
  BY <1>4, CallKeepsBudget
<1>5. ASSUME NEW p \in Client, Restart(p) PROVE BudgetInv'
  BY <1>5, RestartKeepsBudget
<1>6. ASSUME NEW b \in Bucket, ResponseExpires(b) PROVE BudgetInv'
  BY <1>6, ExpiryKeepsBudget
<1>7. ASSUME NEW l \in Ledgers, NEW k \in Keys, WindowEnds(l, k) PROVE BudgetInv'
  BY <1>7, WindowKeepsBudget
<1>8. ASSUME NEW k \in Keys, Damage(k) PROVE BudgetInv'
  BY <1>8, DamageKeepsBudget
<1>9. ASSUME MonthTurns PROVE BudgetInv'
  BY <1>9, MonthKeepsBudget
<1>10. CASE UNCHANGED pbVars
  <2>1. UNCHANGED <<counter, mortal, response, ask, month, billed, late, carried, forgotten, blips>>
    BY <1>10 DEF pbVars
  <2>2. ProviderBudgetTypeOK' /\ Fit(ask)'
    BY <2>1 DEF BudgetInv, ProviderBudgetTypeOK
  <2>3. LedgersFit' /\ CountsExpire' /\ LateFit'
    BY <2>1 DEF BudgetInv, LedgersFit, CountsExpire, LateFit
  <2>4. QED
    BY <2>2, <2>3 DEF BudgetInv
<1>11. QED
  BY <1>1, <1>2, <1>3, <1>4, <1>5, <1>6, <1>7, <1>8, <1>9, <1>10 DEF ProviderBudgetNext

(***************************************************************************)
(* The invariant of the ledgers and the calls, through lost answers, damaged *)
(* keys, restarts and the turn of the month (moralis.ts:321-600).          *)
(***************************************************************************)
THEOREM BudgetInvariance == ProviderBudgetSpec => []BudgetInv
  BY BudgetStarts, BudgetStep, PTL DEF ProviderBudgetSpec

\* Held and late units are what the property bounds.
LEMMA BillFromInv == BudgetInv => BillBounded
<1> SUFFICES ASSUME BudgetInv, NEW l \in Ledgers
             PROVE  /\ billed[l] + InFlight(l) <= MonthlyMax * (1 + forgotten[l])
                    /\ late[l] + Units(l, Months \ {month}) <= carried[l]
  BY DEF BillBounded
<1>1. billed[l] + InFlight(l) <= MonthlyMax * (1 + forgotten[l])
  <2>1. PICK x : x = billed[l] + Flow(ask, {month}, l)
    OBVIOUS
  <2>2. PICK h : h = counter[l][Cu]
    OBVIOUS
  <2>3. PICK f : f = forgotten[l]
    OBVIOUS
  <2>4. PICK k : k = MonthlyMax * f
    OBVIOUS
  <2>5. billed[l] \in Nat /\ Flow(ask, {month}, l) \in Nat
    BY LedgerNumbers
  <2>6. x \in Nat
    BY <2>1, <2>5
  <2>7. h \in Nat \cup {Damaged} /\ f \in Nat /\ SpentHeld(x, h, f, blips)
    BY <2>1, <2>2, <2>3, LedgerNumbers
  <2>8. x <= ReadOf(h) + k /\ h <= MonthlyMax
    BY <2>4, <2>7 DEF SpentHeld, ReadOf
  <2>9. MonthlyMax \in Nat
    BY BudgetAssumption
  <2>10. ReadOf(h) \in Nat /\ ReadOf(h) <= MonthlyMax
    BY <2>7, <2>8, <2>9 DEF ReadOf
  <2>11. MonthlyMax * (1 + f) = MonthlyMax + k /\ k \in Int
    BY <2>4, <2>7, <2>9
  <2>12. x <= MonthlyMax * (1 + f)
    BY <2>6, <2>8, <2>9, <2>10, <2>11
  <2>13. QED
    BY <2>1, <2>3, <2>12, FlowIsInFlight
<1>2. late[l] + Units(l, Months \ {month}) <= carried[l]
  BY LedgerNumbers, FlowIsUnits DEF Others
<1>3. QED
  BY <1>1, <1>2

(***************************************************************************)
(* What a ledger's calls are billed stays within its ceiling, once more    *)
(* for every time its count was lost, and by the calls that were in flight *)
(* when the month turned, each once (moralis.ts:321-345, 557-600), for any *)
(* processes, any number of calls at once, any costs and ceilings.         *)
(***************************************************************************)
THEOREM BillBoundedSafe == ProviderBudgetSpec => []BillBounded
  BY BudgetInvariance, BillFromInv, PTL

\* A counter that was never lost holds what was spent.
LEMMA LedgerFromInv == BudgetInv => LedgerExact
<1> SUFFICES ASSUME BudgetInv, NEW l \in Ledgers
             PROVE  /\ forgotten[l] = 0 => billed[l] + InFlight(l) <= counter[l][Cu]
                    /\ blips = 0 => billed[l] + InFlight(l) = counter[l][Cu]
                    /\ \A k \in Keys : counter[l][k] > 0 => k \in mortal[l]
  BY DEF LedgerExact
<1>1. PICK x : x = billed[l] + Flow(ask, {month}, l)
  OBVIOUS
<1>2. x \in Nat
  <2>1. billed[l] \in Nat /\ Flow(ask, {month}, l) \in Nat
    BY LedgerNumbers
  <2>2. QED
    BY <1>1, <2>1
<1>3. PICK h : h = counter[l][Cu]
  OBVIOUS
<1>4. h \in Nat \cup {Damaged} /\ forgotten[l] \in Nat /\ SpentHeld(x, h, forgotten[l], blips)
  BY <1>1, <1>3, LedgerNumbers
<1>5. ASSUME forgotten[l] = 0 PROVE x <= h
  <2>1. h # Damaged /\ MonthlyMax * forgotten[l] = 0
    BY <1>4, <1>5, BudgetAssumption DEF SpentHeld
  <2>2. x <= h + MonthlyMax * forgotten[l]
    BY <1>4, <2>1 DEF SpentHeld
  <2>3. QED
    BY <1>2, <1>4, <2>1, <2>2
<1>6. blips = 0 => x = h
  BY <1>4 DEF SpentHeld
<1>7. \A k \in Keys : counter[l][k] > 0 => k \in mortal[l]
  BY DEF BudgetInv, CountsExpire
<1>8. QED
  BY <1>1, <1>3, <1>5, <1>6, <1>7, FlowIsInFlight

(***************************************************************************)
(* The counter in the ledger holds whatever was spent or is about to be,   *)
(* exactly so until a failure, and every count has an end (moralis.ts:465-500). *)
(***************************************************************************)
THEOREM LedgerExactSafe == ProviderBudgetSpec => []LedgerExact
  BY BudgetInvariance, LedgerFromInv, PTL

(***************************************************************************)
(* Settings: any number of consoles, creatives and versions, and any number *)
(* of late, lost and failed answers.                                       *)
(***************************************************************************)

Values == Seq(CreativeType)
Edition == [value : Values, seen : Nat, base : Values]
Image == [id : Nat, who : Nat \cup {Stray}]

\* What a console holds as the version it has loaded is nothing, or a version of
\* the trail with its value.
Known(t, version, value) ==
    version # 0 => version \in DOMAIN t /\ t[version].value = value

\* An upload whose draft is still there has its row, and every row of that id is
\* the one it was chosen for.
Held(value, u) ==
    u.who # Stray => /\ u.id \in Ids(value)
                     /\ \A i \in DOMAIN value : value[i].id = u.id => value[i].who = u.who

Panels(t) ==
    {p \in [open : BOOLEAN, version : Nat, saved : Values, draft : Values, busy : BOOLEAN,
            uploads : SUBSET Image] :
        /\ Known(t, p.version, p.saved)
        /\ Placed(p.draft) /\ Placed(p.saved)
        /\ \A u \in p.uploads : Held(p.draft, u)}
Gets(t) ==
    {g \in [at : {"none", "asked", "answered"}, version : Nat, value : Values] :
        Known(t, g.version, g.value) /\ Placed(g.value)}
Puts(t) ==
    {m \in [at : {"none", "sent", "saved", "refused"}, key : {"ads", "other"},
            seen : Nat, base : Values, value : Values] :
        Known(t, m.seen, m.base) /\ Placed(m.value)}

TrailOK ==
    /\ trail \in Seq(Edition)
    /\ \A v \in DOMAIN trail : Placed(trail[v].value)
    /\ OverwritesSeen
ConsolesOK ==
    /\ panel \in [Editor -> Panels(trail)]
    /\ gets \in [Editor -> [1..2 -> Gets(trail)]]
CallsOK ==
    /\ put \in [Editor -> Puts(trail)]
    /\ orphans \subseteq Puts(trail)
CountsOK == born \in Nat /\ acts \in Nat /\ faults \in Nat

SettingsInv == TrailOK /\ ConsolesOK /\ CallsOK /\ CountsOK

(***************************************************************************)
(* Without takes one row out and keeps the others.                        *)
(***************************************************************************)
LEMMA RowRemoved ==
    ASSUME NEW S, NEW s \in Seq(S), NEW i \in DOMAIN s
    PROVE  /\ Without(s, i) \in Seq(S)
           /\ \A j \in DOMAIN Without(s, i) : \E k \in DOMAIN s : Without(s, i)[j] = s[k]
           /\ \A k \in DOMAIN s : k # i =>
                 \E j \in DOMAIN Without(s, i) : Without(s, i)[j] = s[k]
<1> DEFINE front == SubSeq(s, 1, i - 1)
           back  == SubSeq(s, i + 1, Len(s))
           r     == front \o back
<1>1. i \in 1..Len(s) /\ Len(s) \in Nat /\ DOMAIN s = 1..Len(s)
    OBVIOUS
<1>2. /\ front \in Seq(S) /\ Len(front) = i - 1
      /\ \A j \in 1..(i - 1) : front[j] = s[j]
    BY <1>1
<1>3. /\ back \in Seq(S) /\ Len(back) = Len(s) - i
      /\ \A j \in 1..(Len(s) - i) : back[j] = s[j + i]
    BY <1>1
<1> HIDE DEF front, back
<1>4. /\ r \in Seq(S) /\ Len(r) = Len(s) - 1
      /\ \A j \in 1..(Len(s) - 1) : r[j] = IF j < i THEN s[j] ELSE s[j + 1]
    <2>1. r \in Seq(S) /\ Len(r) = Len(front) + Len(back)
        BY <1>2, <1>3, ConcatProperties
    <2>2. \A j \in 1..Len(r) : r[j] = IF j <= Len(front) THEN front[j] ELSE back[j - Len(front)]
        BY <1>2, <1>3, <2>1, ConcatProperties
    <2>3. Len(r) = Len(s) - 1
        BY <1>1, <1>2, <1>3, <2>1
    <2>4. ASSUME NEW j \in 1..(Len(s) - 1) PROVE r[j] = IF j < i THEN s[j] ELSE s[j + 1]
        <3>1. CASE j < i
            BY <1>1, <1>2, <2>2, <2>3, <3>1
        <3>2. CASE ~(j < i)
            <4>1. r[j] = back[j - (i - 1)] /\ j - (i - 1) \in 1..(Len(s) - i)
                BY <1>1, <1>2, <2>2, <2>3, <3>2
            <4>2. (j - (i - 1)) + i = j + 1
                BY <1>1
            <4> QED
                BY <1>3, <3>2, <4>1, <4>2
        <3> QED
            BY <3>1, <3>2
    <2> QED
        BY <2>1, <2>3, <2>4
<1>5. Without(s, i) = r
    BY DEF Without, front, back
<1> HIDE DEF r
<1>6. DOMAIN r = 1..(Len(s) - 1)
    BY <1>4
<1>7. ASSUME NEW j \in DOMAIN r PROVE \E k \in DOMAIN s : r[j] = s[k]
    BY <1>1, <1>4, <1>6
<1>8. ASSUME NEW k \in DOMAIN s, k # i PROVE \E j \in DOMAIN r : r[j] = s[k]
    <2>1. CASE k < i
        BY <1>1, <1>4, <1>6, <2>1
    <2>2. CASE k > i
        <3>1. k - 1 \in 1..(Len(s) - 1) /\ ~(k - 1 < i) /\ (k - 1) + 1 = k
            BY <1>1, <2>2
        <3> QED
            BY <1>4, <1>6, <3>1
    <2> QED
        BY <1>1, <1>8, <2>1, <2>2
<1> QED
    BY <1>4, <1>5, <1>7, <1>8

(***************************************************************************)
(* nextCreativeId finds a number, and it is free: Len + 1 numbers are      *)
(* tried, Len are taken.                                                   *)
(***************************************************************************)
LEMMA NextIdIsFree ==
    ASSUME NEW value \in Values
    PROVE  nextCreativeId(value) \in Nat /\ nextCreativeId(value) \notin Ids(value)
<1> DEFINE tried == Len(value) + 1 .. 2 * Len(value) + 1
           free == tried \ Ids(value)
           idOf == [i \in DOMAIN value |-> value[i].id]
<1>1. Len(value) \in Nat /\ DOMAIN value = 1..Len(value)
    BY DEF Values
<1>2. IsFiniteSet(Ids(value)) /\ Cardinality(Ids(value)) <= Len(value)
    <2>1. idOf \in Surjection(1..Len(value), Ids(value))
        BY <1>1 DEF Ids, Surjection
    <2>2. IsFiniteSet(1..Len(value)) /\ Cardinality(1..Len(value)) = Len(value)
        <3>1. ASSUME NEW n \in Nat PROVE IsFiniteSet(1..n) /\ Cardinality(1..n) = n
            BY FS_Interval
        <3> QED
            BY <1>1, <3>1
    <2> HIDE DEF idOf
    <2> QED
        BY <2>1, <2>2, FS_Surjection
<1>3. Cardinality(tried) = Len(value) + 1
    <2>1. ASSUME NEW n \in Nat PROVE Cardinality(n + 1 .. 2 * n + 1) = n + 1
        BY FS_Interval
    <2> QED
        BY <1>1, <2>1
<1>4. free # {}
    <2>1. SUFFICES ASSUME tried \in SUBSET Ids(value) PROVE FALSE
        OBVIOUS
    <2> HIDE DEF tried
    <2>2. Cardinality(tried) <= Cardinality(Ids(value))
        BY <1>2, <2>1, FS_Subset
    <2>3. Cardinality(Ids(value)) \in Nat
        BY <1>2, FS_CardinalityType
    <2> QED
        BY <1>1, <1>2, <1>3, <2>2, <2>3
<1>5. free \in SUBSET Nat
    BY <1>1
<1> HIDE DEF free
<1>6. PICK n \in free : \A m \in free : n <= m
    <2> DEFINE Less == {pair \in Nat \X Nat : pair[1] < pair[2]}
    <2>1. IsWellFoundedOn(Less, Nat)
        BY NatLessThanWellFounded DEF OpToRel
    <2>2. \A x, y \in Nat : x < y => <<x, y>> \in Less
        OBVIOUS
    <2> HIDE DEF Less
    <2>3. PICK n \in free : \A m \in free : <<m, n>> \notin Less
        BY <1>4, <1>5, <2>1, WFMin
    <2>4. \A m \in free : m \in Nat /\ n \in Nat /\ ~(m < n)
        BY <1>5, <2>2, <2>3
    <2>5. \A m \in free : n <= m
        BY <2>4
    <2> QED
        BY <2>5
<1>7. nextCreativeId(value) = CHOOSE m \in free : \A k \in free : m <= k
    BY DEF nextCreativeId, free
<1>8. nextCreativeId(value) \in free
    BY <1>6, <1>7
<1> QED
    BY <1>5, <1>8 DEF free

(***************************************************************************)
(* What a console knows stays true when the trail grows.                   *)
(***************************************************************************)
LEMMA TrailGrows ==
    ASSUME NEW t, NEW t2, DOMAIN t \subseteq DOMAIN t2, \A v \in DOMAIN t : t2[v] = t[v]
    PROVE  /\ Panels(t) \subseteq Panels(t2) /\ Gets(t) \subseteq Gets(t2)
           /\ Puts(t) \subseteq Puts(t2)
<1>1. \A version, value : Known(t, version, value) => Known(t2, version, value)
    BY DEF Known
<1> QED
    BY <1>1 DEF Panels, Gets, Puts

-----------------------------------------------------------------------------
(* Steps that leave the trail and the calls alone. *)

\* What a step does to the trail shows in every set the invariant speaks of;
\* one that leaves it alone only has to stay within them.
LEMMA ConsoleStep ==
    ASSUME SettingsInv, UNCHANGED trail, CountsOK',
           panel' \in [Editor -> Panels(trail)],
           gets' \in [Editor -> [1..2 -> Gets(trail)]],
           put' \in [Editor -> Puts(trail)],
           orphans' \subseteq Puts(trail)
    PROVE  SettingsInv'
<1>1. TrailOK'
    BY DEF SettingsInv, TrailOK, OverwritesSeen, Placed, NoArt, Stray
<1>2. ConsolesOK'
    BY DEF ConsolesOK, Panels, Gets, Known, Placed, Held, Ids
<1>3. CallsOK'
    BY DEF CallsOK, Puts, Known, Placed
<1> QED
    BY <1>1, <1>2, <1>3 DEF SettingsInv

\* The same for a step of one panel.
LEMMA PanelStep ==
    ASSUME SettingsInv, UNCHANGED <<trail, gets, put, orphans>>, CountsOK',
           NEW e \in Editor, NEW p \in Panels(trail), panel' = [panel EXCEPT ![e] = p]
    PROVE  SettingsInv'
<1>1. /\ panel' \in [Editor -> Panels(trail)]
      /\ gets' \in [Editor -> [1..2 -> Gets(trail)]]
      /\ put' \in [Editor -> Puts(trail)] /\ orphans' \subseteq Puts(trail)
    BY DEF SettingsInv, ConsolesOK, CallsOK
<1> QED
    BY <1>1, ConsoleStep

\* The invariant by parts.
LEMMA Parts ==
    ASSUME SettingsInv
    PROVE  /\ panel \in [Editor -> Panels(trail)]
           /\ gets \in [Editor -> [1..2 -> Gets(trail)]]
           /\ put \in [Editor -> Puts(trail)] /\ orphans \subseteq Puts(trail)
           /\ trail \in Seq(Edition) /\ Len(trail) \in Nat /\ DOMAIN trail = 1..Len(trail)
           /\ \A v \in DOMAIN trail : trail[v].value \in Values /\ Placed(trail[v].value)
           /\ born \in Nat /\ acts \in Nat /\ faults \in Nat
<1>1. trail \in Seq(Edition) /\ \A v \in DOMAIN trail : Placed(trail[v].value)
    BY DEF SettingsInv, TrailOK
<1>2. Len(trail) \in Nat /\ DOMAIN trail = 1..Len(trail)
    BY <1>1
<1>3. \A v \in DOMAIN trail : trail[v].value \in Values
    <2>1. \A v \in DOMAIN trail : trail[v] \in Edition
        BY <1>1
    <2> QED
        BY <2>1 DEF Edition
<1> QED
    BY <1>1, <1>2, <1>3 DEF SettingsInv, ConsolesOK, CallsOK, CountsOK

\* One slot of one console takes one read.
LEMMA SlotTaken ==
    ASSUME NEW G, NEW f \in [Editor -> [1..2 -> G]], NEW e \in Editor, NEW s \in 1..2, NEW g \in G
    PROVE  [f EXCEPT ![e][s] = g] \in [Editor -> [1..2 -> G]]
<1>1. [f[e] EXCEPT ![s] = g] \in [1..2 -> G]
    OBVIOUS
<1>2. [f EXCEPT ![e][s] = g] = [f EXCEPT ![e] = [f[e] EXCEPT ![s] = g]]
    OBVIOUS
<1> QED
    BY <1>1, <1>2

\* An act, a fault or neither.
LEMMA Counted ==
    ASSUME SettingsInv, UNCHANGED born \/ born' = born + 1, UNCHANGED acts \/ Act,
           UNCHANGED faults \/ Fault
    PROVE  CountsOK'
    BY Parts DEF CountsOK, Act, Fault

\* A closed panel, a request on its way and a slot without one.
LEMMA Idle ==
    ASSUME NEW t
    PROVE  /\ NoGet \in Gets(t) /\ Asked \in Gets(t) /\ NoPut \in Puts(t)
           /\ Closed \in Panels(t)
<1>1. <<>> \in Values /\ Placed(<<>>)
    BY DEF Values, Placed
<1>2. NoGet \in Gets(t) /\ Asked \in Gets(t)
    BY <1>1 DEF NoGet, Asked, Gets, Known
<1>3. NoPut \in Puts(t)
    BY <1>1 DEF NoPut, Puts, Known
<1>4. Closed \in Panels(t)
    BY <1>1 DEF Closed, Panels, Known
<1> QED
    BY <1>2, <1>3, <1>4

-----------------------------------------------------------------------------
(* Loading. *)

\* The server answers a GET with the version it holds.
LEMMA ReadSettingsKeeps ==
    ASSUME SettingsInv, NEW e \in Editor, NEW s \in 1..2, ReadSettings(e, s)
    PROVE  SettingsInv'
<1>1. /\ UNCHANGED <<trail, panel, put, orphans, born, acts>>
      /\ UNCHANGED faults \/ Fault
    BY DEF ReadSettings
<1>2. gets[e][s] \in Gets(trail)
    BY Parts
<1> DEFINE value == IF trail = <<>> THEN <<>> ELSE trail[Len(trail)].value
           fresh == [at |-> "answered", version |-> Len(trail), value |-> value]
           empty == [gets[e][s] EXCEPT !.at = "answered"]
<1>3. fresh \in Gets(trail)
    <2>1. value \in Values /\ Placed(value)
        BY Parts DEF Values, Placed
    <2>2. Len(trail) # 0 => Len(trail) \in DOMAIN trail /\ trail[Len(trail)].value = value
        BY Parts
    <2> QED
        BY <2>1, <2>2, Parts DEF Gets, Known
<1>4. empty \in Gets(trail)
    BY <1>2 DEF Gets
<1>5. \/ gets' = [gets EXCEPT ![e][s] = fresh]
      \/ gets' = [gets EXCEPT ![e][s] = empty]
      \/ gets' = [gets EXCEPT ![e][s] = NoGet]
    <2>1. [gets EXCEPT ![e][s].at = "answered"] = [gets EXCEPT ![e][s] = empty]
        BY Parts, <1>2 DEF Gets
    <2> QED
        BY <2>1 DEF ReadSettings
<1> HIDE DEF fresh, empty
<1>6. gets' \in [Editor -> [1..2 -> Gets(trail)]]
    <2>1. PICK g \in Gets(trail) : gets' = [gets EXCEPT ![e][s] = g]
        BY <1>3, <1>4, <1>5, Idle
    <2> QED
        BY <2>1, Parts, SlotTaken
<1>7. CountsOK'
    BY <1>1, Counted
<1> QED
    BY <1>1, <1>6, <1>7, ConsoleStep, Parts

\* Replacing the draft sends every upload astray.
LEMMA AstrayHeld ==
    ASSUME NEW uploads \in SUBSET Image, NEW value
    PROVE  Astray(uploads) \in SUBSET Image /\ \A u \in Astray(uploads) : Held(value, u)
    BY DEF Astray, Image, Held, Stray

\* A console takes the answer to its GET.
LEMMA loadKeeps ==
    ASSUME SettingsInv, NEW e \in Editor, NEW s \in 1..2, load(e, s)
    PROVE  SettingsInv'
<1> DEFINE p == [panel[e] EXCEPT !.open = TRUE, !.version = gets[e][s].version,
                     !.saved = gets[e][s].value, !.draft = gets[e][s].value,
                     !.uploads = Astray(panel[e].uploads)]
<1>1. /\ UNCHANGED <<trail, put, orphans, born, acts, faults>>
      /\ panel' = [panel EXCEPT ![e] = p] /\ gets' = [gets EXCEPT ![e][s] = NoGet]
    BY DEF load
<1>2. p \in Panels(trail)
    <2>1. gets[e][s] \in Gets(trail) /\ panel[e] \in Panels(trail)
        BY Parts
    <2>2. Astray(panel[e].uploads) \in SUBSET Image
          /\ \A u \in Astray(panel[e].uploads) : Held(gets[e][s].value, u)
        BY <2>1, AstrayHeld DEF Panels
    <2> QED
        BY <2>1, <2>2 DEF Panels, Gets
<1> HIDE DEF p
<1>3. /\ panel' \in [Editor -> Panels(trail)]
      /\ gets' \in [Editor -> [1..2 -> Gets(trail)]]
    BY <1>1, <1>2, Idle, Parts, SlotTaken
<1>4. CountsOK'
    BY <1>1, Counted
<1> QED
    BY <1>1, <1>3, <1>4, ConsoleStep, Parts

\* A console is closed and opened again.
LEMMA ReopenKeeps ==
    ASSUME SettingsInv, NEW e \in Editor, Reopen(e)
    PROVE  SettingsInv'
<1>1. /\ UNCHANGED <<trail, born, faults>> /\ Act
      /\ panel' = [panel EXCEPT ![e] = Closed]
      /\ gets' = [gets EXCEPT ![e] = <<Asked, NoGet>>]
      /\ put' = [put EXCEPT ![e] = NoPut]
      /\ orphans' \subseteq orphans \cup {put[e]}
    BY DEF Reopen
<1>2. <<Asked, NoGet>> \in [1..2 -> Gets(trail)]
    BY Idle
<1>3. /\ panel' \in [Editor -> Panels(trail)]
      /\ gets' \in [Editor -> [1..2 -> Gets(trail)]]
      /\ put' \in [Editor -> Puts(trail)] /\ orphans' \subseteq Puts(trail)
    BY <1>1, <1>2, Idle, Parts
<1>4. CountsOK'
    BY <1>1, Counted
<1> QED
    BY <1>1, <1>3, <1>4, ConsoleStep

-----------------------------------------------------------------------------
(* Editing. *)

\* An edited draft is one whose art stays placed and whose uploads keep their
\* rows.
LEMMA EditsKeeps ==
    ASSUME SettingsInv, NEW e \in Editor, NEW draft \in Values, Edits(e, draft),
           UNCHANGED born \/ born' = born + 1,
           Placed(draft), \A u \in panel[e].uploads : Held(draft, u)
    PROVE  SettingsInv'
<1> DEFINE p == [panel[e] EXCEPT !.draft = draft]
<1>1. p \in Panels(trail)
    BY Parts DEF Panels
<1>2. /\ panel' = [panel EXCEPT ![e] = p] /\ Act
      /\ UNCHANGED <<trail, gets, put, orphans, faults>>
    BY DEF Edits
<1>3. CountsOK'
    BY <1>2, Counted
<1> HIDE DEF p
<1> QED
    BY <1>1, <1>2, <1>3, PanelStep

\* A new row gets an id no row of the panel has.
LEMMA AddCreativeKeeps ==
    ASSUME SettingsInv, NEW e \in Editor, AddCreative(e)
    PROVE  SettingsInv'
<1> DEFINE draft == panel[e].draft
           id == nextCreativeId(draft)
           row == Creative(id, born + 1)
<1>1. /\ draft \in Values /\ Placed(draft) /\ \A u \in panel[e].uploads : Held(draft, u)
      /\ panel[e].uploads \subseteq Image
    BY Parts DEF Panels
<1>2. id \in Nat /\ id \notin Ids(draft)
    BY <1>1, NextIdIsFree
<1>3. Edits(e, Append(draft, row)) /\ born' = born + 1
    BY DEF AddCreative
<1> HIDE DEF draft, id
<1>4. /\ row \in CreativeType /\ row.id = id /\ row.art = NoArt
    BY <1>2, Parts DEF Creative, CreativeType, NoArt, Stray
<1> HIDE DEF row
<1>5. /\ Append(draft, row) \in Values /\ DOMAIN draft = 1..Len(draft) /\ Len(draft) \in Nat
      /\ DOMAIN Append(draft, row) = 1..(Len(draft) + 1)
      /\ \A i \in 1..(Len(draft) + 1) :
             Append(draft, row)[i] = IF i = Len(draft) + 1 THEN row ELSE draft[i]
    BY <1>1, <1>4 DEF Values
<1>6. \A i \in DOMAIN Append(draft, row) :
          \/ i \in DOMAIN draft /\ Append(draft, row)[i] = draft[i]
          \/ Append(draft, row)[i] = row
    BY <1>5
<1>7. \A i \in DOMAIN draft : i \in DOMAIN Append(draft, row) /\ Append(draft, row)[i] = draft[i]
    BY <1>5
<1>8. Placed(Append(draft, row))
    BY <1>1, <1>4, <1>6 DEF Placed
<1>9. ASSUME NEW u \in panel[e].uploads PROVE Held(Append(draft, row), u)
    BY <1>1, <1>2, <1>4, <1>6, <1>7 DEF Held, Ids
<1> QED
    BY <1>3, <1>5, <1>8, <1>9, EditsKeeps

\* A row goes, and the artwork of the others stays theirs.
LEMMA RemoveCreativeKeeps ==
    ASSUME SettingsInv, NEW e \in Editor, NEW i, RemoveCreative(e, i)
    PROVE  SettingsInv'
<1> DEFINE draft == panel[e].draft
           left  == Without(draft, i)
<1>1. /\ draft \in Values /\ Placed(draft) /\ \A u \in panel[e].uploads : Held(draft, u)
    BY Parts DEF Panels
<1>2. /\ i \in DOMAIN draft /\ ~isUploading(e, draft[i].id)
      /\ Edits(e, left) /\ UNCHANGED born
    BY DEF RemoveCreative
<1> HIDE DEF draft
<1>3. /\ left \in Values
      /\ \A j \in DOMAIN left : \E k \in DOMAIN draft : left[j] = draft[k]
      /\ \A k \in DOMAIN draft : k # i => \E j \in DOMAIN left : left[j] = draft[k]
    BY <1>1, <1>2, RowRemoved DEF Values
<1> HIDE DEF left
<1>4. Placed(left)
    BY <1>1, <1>3 DEF Placed
<1>5. ASSUME NEW u \in panel[e].uploads PROVE Held(left, u)
    <2>1. u.id # draft[i].id
        BY <1>2 DEF isUploading
    <2> QED
        BY <1>1, <1>3, <2>1 DEF Held, Ids
<1> QED
    BY <1>2, <1>3, <1>4, <1>5, EditsKeeps

\* An edited row keeps its artwork.
LEMMA RenameCreativeKeeps ==
    ASSUME SettingsInv, NEW e \in Editor, NEW i, NEW id \in TypedId, RenameCreative(e, i, id)
    PROVE  SettingsInv'
<1> DEFINE draft == panel[e].draft
           renamed == [draft EXCEPT ![i].id = id]
<1>1. draft \in Values /\ Placed(draft)
    BY Parts DEF Panels
<1>2. /\ i \in DOMAIN draft /\ panel[e].uploads = {}
      /\ Edits(e, renamed) /\ UNCHANGED born
    BY DEF RenameCreative
<1>3. id \in Nat
    BY SettingsAssumption
<1> HIDE DEF draft
<1>4. /\ renamed \in Values
      /\ \A j \in DOMAIN renamed : j \in DOMAIN draft
            /\ renamed[j].art = draft[j].art /\ renamed[j].who = draft[j].who
    <2>1. draft \in Seq(CreativeType) /\ draft[i] \in CreativeType
        BY <1>1, <1>2 DEF Values
    <2> DEFINE row == [draft[i] EXCEPT !.id = id]
    <2>2. row \in CreativeType
        BY <1>3, <2>1 DEF CreativeType
    <2>3. renamed = [draft EXCEPT ![i] = row]
        BY <1>2, <2>1 DEF CreativeType
    <2>4. renamed \in Values
        <3> HIDE DEF row, renamed
        <3> QED
            BY <1>2, <2>1, <2>2, <2>3 DEF Values
    <2>5. \A j \in DOMAIN renamed : j \in DOMAIN draft
            /\ renamed[j].art = draft[j].art /\ renamed[j].who = draft[j].who
        BY <2>1, <2>3 DEF CreativeType
    <2> QED
        BY <2>4, <2>5
<1> HIDE DEF renamed
<1>5. Placed(renamed)
    BY <1>1, <1>4 DEF Placed
<1> QED
    BY <1>2, <1>4, <1>5, EditsKeeps

\* The defaults are put back.
LEMMA restoreKeeps ==
    ASSUME SettingsInv, NEW e \in Editor, NEW v \in DOMAIN trail, restore(e, v)
    PROVE  SettingsInv'
<1> DEFINE p == [panel[e] EXCEPT !.draft = trail[v].value, !.uploads = Astray(panel[e].uploads)]
<1>1. /\ panel' = [panel EXCEPT ![e] = p] /\ Act
      /\ UNCHANGED <<trail, gets, put, orphans, born, faults>>
    BY DEF restore
<1>2. p \in Panels(trail)
    <2>1. panel[e] \in Panels(trail) /\ trail[v].value \in Values /\ Placed(trail[v].value)
        BY Parts
    <2>2. Astray(panel[e].uploads) \in SUBSET Image
          /\ \A u \in Astray(panel[e].uploads) : Held(trail[v].value, u)
        BY <2>1, AstrayHeld DEF Panels
    <2> QED
        BY <2>1, <2>2 DEF Panels
<1>3. CountsOK'
    BY <1>1, Counted
<1> HIDE DEF p
<1> QED
    BY <1>1, <1>2, <1>3, PanelStep

-----------------------------------------------------------------------------
(* Uploads. *)

\* An upload starts for a row of the panel.
LEMMA uploadCreativeImageKeeps ==
    ASSUME SettingsInv, NEW e \in Editor, NEW i, uploadCreativeImage(e, i)
    PROVE  SettingsInv'
<1> DEFINE draft == panel[e].draft
           image == [id |-> draft[i].id, who |-> draft[i].who]
           p == [panel[e] EXCEPT !.uploads = panel[e].uploads \cup {image}]
<1>1. /\ i \in DOMAIN draft /\ Bearers(draft, draft[i].id) = {i} /\ Act
      /\ panel' = [panel EXCEPT ![e] = p]
      /\ UNCHANGED <<trail, gets, put, orphans, born, faults>>
    BY DEF uploadCreativeImage
<1>2. panel[e] \in Panels(trail) /\ draft \in Seq(CreativeType)
    BY Parts DEF Panels, Values
<1>3. draft[i] \in CreativeType
    BY <1>1, <1>2
<1>4. image \in Image
    BY <1>3 DEF CreativeType, Image
<1>5. Held(draft, image)
    BY <1>1 DEF Held, Ids, Bearers
<1> HIDE DEF image
<1>6. p \in Panels(trail)
    BY <1>2, <1>4, <1>5 DEF Panels
<1>7. CountsOK'
    BY <1>1, Counted
<1> HIDE DEF p
<1> QED
    BY <1>1, <1>6, <1>7, PanelStep

\* The art that comes in is that of the one row with the id of the upload.
LEMMA ArtArrives ==
    ASSUME NEW value \in Values, NEW u \in Image, Placed(value), Held(value, u)
    PROVE  /\ updateCreativeById(value, u) \in Values
           /\ Placed(updateCreativeById(value, u))
           /\ \A w : Held(value, w) => Held(updateCreativeById(value, u), w)
<1> DEFINE marked(i) == IF value[i].id = u.id THEN [value[i] EXCEPT !.art = u.who] ELSE value[i]
           after == [i \in DOMAIN value |-> marked(i)]
<1>1. value \in Seq(CreativeType) /\ \A i \in DOMAIN value : value[i] \in CreativeType
    BY DEF Values
<1>2. ASSUME NEW i \in DOMAIN value
      PROVE  /\ marked(i) \in CreativeType
             /\ marked(i).id = value[i].id /\ marked(i).who = value[i].who
             /\ marked(i).art = IF value[i].id = u.id THEN u.who ELSE value[i].art
    BY <1>1 DEF CreativeType, Image
<1>3. /\ after \in Values /\ DOMAIN after = DOMAIN value
      /\ \A i \in DOMAIN value : after[i] = marked(i)
    <2>1. DOMAIN value = 1..Len(value) /\ Len(value) \in Nat
        BY <1>1
    <2> HIDE DEF marked
    <2>2. after \in [1..Len(value) -> CreativeType]
        BY <1>2, <2>1
    <2>3. after \in Seq(CreativeType)
        <3> HIDE DEF after
        <3>1. \A n \in Nat : \A f \in [1..n -> CreativeType] : f \in Seq(CreativeType)
            OBVIOUS
        <3> QED
            BY <2>1, <2>2, <3>1
    <2> QED
        BY <2>3 DEF Values
<1>4. updateCreativeById(value, u) \in {after, value}
    BY DEF updateCreativeById
<1>5. Placed(after)
    BY <1>2, <1>3 DEF Placed, Held
<1>6. ASSUME NEW w, Held(value, w) PROVE Held(after, w)
    BY <1>2, <1>3, <1>6 DEF Held, Ids
<1> QED
    BY <1>3, <1>4, <1>5, <1>6

\* An upload returns to the rows of its id, if there are any left.
LEMMA UploadReturnsKeeps ==
    ASSUME SettingsInv, NEW e \in Editor, NEW u \in panel[e].uploads, UploadReturns(e, u)
    PROVE  SettingsInv'
<1> DEFINE draft == updateCreativeById(panel[e].draft, u)
           rest  == panel[e].uploads \ {u}
           put1  == [panel[e] EXCEPT !.draft = draft, !.uploads = rest]
           lost1 == [panel[e] EXCEPT !.uploads = rest]
<1>1. panel[e] \in Panels(trail)
    BY Parts
<1>2. /\ \/ panel' = [panel EXCEPT ![e] = put1] /\ UNCHANGED faults
         \/ panel' = [panel EXCEPT ![e] = lost1] /\ Fault
      /\ UNCHANGED <<trail, gets, put, orphans, born, acts>>
    BY DEF UploadReturns
<1>3. /\ draft \in Values /\ Placed(draft) /\ \A w \in rest : Held(draft, w)
    BY <1>1, ArtArrives DEF Panels
<1> HIDE DEF draft
<1>4. put1 \in Panels(trail)
    BY <1>1, <1>3 DEF Panels
<1>5. lost1 \in Panels(trail)
    BY <1>1 DEF Panels
<1>6. CountsOK'
    BY <1>2, Counted
<1> HIDE DEF put1, lost1
<1>7. PICK p \in Panels(trail) : panel' = [panel EXCEPT ![e] = p]
    BY <1>2, <1>4, <1>5
<1> QED
    BY <1>2, <1>6, <1>7, PanelStep

-----------------------------------------------------------------------------
(* Saving. *)

\* A console puts what it shows.
LEMMA saveKeeps ==
    ASSUME SettingsInv, NEW e \in Editor, NEW key \in {"ads", "other"}, save(e, key)
    PROVE  SettingsInv'
<1> DEFINE p == [panel[e] EXCEPT !.busy = TRUE]
           m == [at |-> "sent", key |-> key, seen |-> panel[e].version,
                 base |-> panel[e].saved, value |-> panel[e].draft]
<1>1. /\ panel' = [panel EXCEPT ![e] = p] /\ put' = [put EXCEPT ![e] = m] /\ Act
      /\ UNCHANGED <<trail, gets, orphans, born, faults>>
    BY DEF save
<1>2. p \in Panels(trail) /\ m \in Puts(trail)
    <2>1. panel[e] \in Panels(trail)
        BY Parts
    <2>2. p \in Panels(trail)
        BY <2>1 DEF Panels
    <2>3. m \in Puts(trail)
        BY <2>1 DEF Panels, Puts
    <2> QED
        BY <2>2, <2>3
<1>3. CountsOK'
    BY <1>1, Counted
<1> HIDE DEF p, m
<1>4. panel' \in [Editor -> Panels(trail)] /\ put' \in [Editor -> Puts(trail)]
    BY <1>1, <1>2, Parts
<1> QED
    BY <1>1, <1>3, <1>4, ConsoleStep, Parts

\* A PUT that is let in replaces what its author had loaded.
LEMMA HandledKeeps ==
    ASSUME SettingsInv, NEW m \in Puts(trail), Handled(m)
    PROVE  /\ TrailOK'
           /\ DOMAIN trail \subseteq DOMAIN trail' /\ \A v \in DOMAIN trail : trail'[v] = trail[v]
<1>1. CASE UNCHANGED trail
    BY <1>1 DEF SettingsInv, TrailOK, OverwritesSeen, Placed, NoArt, Stray
<1>2. CASE /\ Accepts(m)
           /\ trail' = Append(trail, [value |-> m.value, seen |-> m.seen, base |-> m.base])
    <2> DEFINE row == [value |-> m.value, seen |-> m.seen, base |-> m.base]
    <2>1. m.value \in Values /\ m.base \in Values /\ m.seen \in Nat /\ Placed(m.value)
          /\ Known(trail, m.seen, m.base)
        BY DEF Puts
    <2>2. row \in Edition
        BY <2>1 DEF Edition
    <2>3. /\ row.value = m.value /\ row.seen = m.seen /\ row.base = m.base
          /\ trail' = Append(trail, row)
        BY <1>2
    <2> HIDE DEF row
    <2>4. /\ trail' \in Seq(Edition) /\ DOMAIN trail' = 1..(Len(trail) + 1)
          /\ DOMAIN trail = 1..Len(trail) /\ Len(trail) \in Nat
          /\ trail'[Len(trail) + 1] = row /\ \A v \in DOMAIN trail : trail'[v] = trail[v]
        BY <2>2, <2>3, Parts
    <2>5. \A v \in DOMAIN trail' : v \in DOMAIN trail \/ v = Len(trail) + 1
        BY <2>4
    <2>6. \A v \in DOMAIN trail' : Placed(trail'[v].value)
        BY <2>1, <2>3, <2>4, <2>5, Parts
    <2>7. OverwritesSeen'
        <3> SUFFICES ASSUME NEW v \in DOMAIN trail', trail'[v].seen # 0
                     PROVE  v > 1 /\ trail'[v].base = trail'[v - 1].value
            BY DEF OverwritesSeen
        <3>1. CASE v \in DOMAIN trail
            <4>1. v > 1 /\ trail[v].base = trail[v - 1].value
                BY <2>4, <3>1 DEF SettingsInv, TrailOK, OverwritesSeen
            <4>2. v - 1 \in DOMAIN trail
                BY <2>4, <3>1, <4>1
            <4> QED
                BY <2>4, <3>1, <4>1, <4>2
        <3>2. CASE v = Len(trail) + 1
            <4>1. m.seen # 0 /\ m.seen = Len(trail)
                BY <1>2, <2>3, <2>4, <3>2 DEF Accepts
            <4>2. Len(trail) \in DOMAIN trail /\ trail[Len(trail)].value = m.base
                BY <2>1, <4>1 DEF Known
            <4>3. v > 1 /\ v - 1 = Len(trail)
                BY <2>4, <3>2, <4>2
            <4> QED
                BY <2>3, <2>4, <3>2, <4>2, <4>3
        <3> QED
            BY <2>5, <3>1, <3>2
    <2>8. TrailOK'
        BY <2>4, <2>6, <2>7 DEF TrailOK, Placed, NoArt, Stray
    <2>9. DOMAIN trail \subseteq DOMAIN trail'
        BY <2>4
    <2> QED
        BY <2>4, <2>8, <2>9
<1> QED
    BY <1>1, <1>2 DEF Handled

\* A PUT the server has handled: one version more, or none.
LEMMA PutHandled ==
    ASSUME SettingsInv, NEW m \in Puts(trail), Handled(m), UNCHANGED <<panel, gets>>, CountsOK',
           put' \in [Editor -> Puts(trail)], orphans' \subseteq Puts(trail)
    PROVE  SettingsInv'
<1>1. Panels(trail) \subseteq Panels(trail') /\ Gets(trail) \subseteq Gets(trail')
      /\ Puts(trail) \subseteq Puts(trail')
    BY HandledKeeps, TrailGrows
<1>2. /\ panel' \in [Editor -> Panels(trail')]
      /\ gets' \in [Editor -> [1..2 -> Gets(trail')]]
      /\ put' \in [Editor -> Puts(trail')]
      /\ orphans' \subseteq Puts(trail')
    BY <1>1, Parts
<1>3. ConsolesOK' /\ CallsOK'
    BY <1>2 DEF ConsolesOK, CallsOK, Panels, Gets, Puts, Known, Placed, Held, Ids
<1> QED
    BY <1>3, HandledKeeps DEF SettingsInv

\* The server handles a PUT whose console waits.
LEMMA HandlePutKeeps ==
    ASSUME SettingsInv, NEW e \in Editor, HandlePut(e)
    PROVE  SettingsInv'
<1>1. PICK end \in {"saved", "refused"} : put' = [put EXCEPT ![e].at = end]
    BY DEF HandlePut
<1>2. /\ Handled(put[e]) /\ UNCHANGED <<panel, gets, orphans, born, acts, faults>>
    BY DEF HandlePut
<1>3. put[e] \in Puts(trail)
    BY Parts
<1>4. [put[e] EXCEPT !.at = end] \in Puts(trail)
    BY <1>3 DEF Puts
<1>5. put' \in [Editor -> Puts(trail)] /\ orphans' \subseteq Puts(trail)
    BY <1>1, <1>2, <1>4, Parts
<1>6. CountsOK'
    BY <1>2, Counted
<1> QED
    BY <1>2, <1>3, <1>5, <1>6, PutHandled

\* The server handles a PUT whose console has given up.
LEMMA HandleOrphanKeeps ==
    ASSUME SettingsInv, NEW m \in orphans, HandleOrphan(m)
    PROVE  SettingsInv'
<1>1. /\ Handled(m) /\ orphans' = orphans \ {m}
      /\ UNCHANGED <<panel, gets, put, born, acts, faults>>
    BY DEF HandleOrphan
<1>2. m \in Puts(trail) /\ put' \in [Editor -> Puts(trail)] /\ orphans' \subseteq Puts(trail)
    BY <1>1, Parts
<1>3. CountsOK'
    BY <1>1, Counted
<1> QED
    BY <1>1, <1>2, <1>3, PutHandled

\* The console takes the answer to its PUT.
LEMMA SaveReturnsKeeps ==
    ASSUME SettingsInv, NEW e \in Editor, SaveReturns(e)
    PROVE  SettingsInv'
<1> DEFINE p == [panel[e] EXCEPT !.busy = FALSE]
<1>1. /\ panel' = [panel EXCEPT ![e] = p] /\ put' = [put EXCEPT ![e] = NoPut]
      /\ UNCHANGED <<trail, orphans, born, acts, faults>>
    BY DEF SaveReturns
<1>2. gets' = [gets EXCEPT ![e][FreeGet(e)] = Asked] \/ gets' = gets
    BY DEF SaveReturns
<1>3. FreeGet(e) \in 1..2
    BY DEF FreeGet
<1>4. gets' \in [Editor -> [1..2 -> Gets(trail)]]
    <2>1. [gets EXCEPT ![e][FreeGet(e)] = Asked] \in [Editor -> [1..2 -> Gets(trail)]]
        BY <1>3, Idle, Parts, SlotTaken
    <2> QED
        BY <1>2, <2>1, Parts
<1>5. p \in Panels(trail)
    BY Parts DEF Panels
<1> HIDE DEF p
<1>6. panel' \in [Editor -> Panels(trail)] /\ put' \in [Editor -> Puts(trail)]
      /\ orphans' \subseteq Puts(trail)
    BY <1>1, <1>5, Idle, Parts
<1>7. CountsOK'
    BY <1>1, Counted
<1> QED
    BY <1>1, <1>4, <1>6, <1>7, ConsoleStep

\* No answer: the PUT may be handled later.
LEMMA SaveUnansweredKeeps ==
    ASSUME SettingsInv, NEW e \in Editor, SaveUnanswered(e)
    PROVE  SettingsInv'
<1>1. PICK busy \in BOOLEAN : panel' = [panel EXCEPT ![e].busy = busy]
    BY DEF SaveUnanswered
<1>2. /\ put' = [put EXCEPT ![e] = NoPut] /\ orphans' \subseteq orphans \cup {put[e]}
      /\ UNCHANGED <<trail, gets, born, acts>> /\ Fault
    BY DEF SaveUnanswered
<1>3. [panel[e] EXCEPT !.busy = busy] \in Panels(trail)
    BY Parts DEF Panels
<1>4. /\ panel' \in [Editor -> Panels(trail)] /\ gets' \in [Editor -> [1..2 -> Gets(trail)]]
      /\ put' \in [Editor -> Puts(trail)] /\ orphans' \subseteq Puts(trail)
    BY <1>1, <1>2, <1>3, Idle, Parts
<1>5. CountsOK'
    BY <1>2, Counted
<1> QED
    BY <1>2, <1>4, <1>5, ConsoleStep

-----------------------------------------------------------------------------
(* The theorems. *)

\* The state at the start.
LEMMA SettingsStart == SettingsInit => SettingsInv
<1> SUFFICES ASSUME SettingsInit PROVE SettingsInv
    OBVIOUS
<1> DEFINE first == [value |-> <<Creative(1, 1)>>, seen |-> 0, base |-> <<>>]
<1>1. trail = <<>> \/ trail = <<first>>
    BY DEF SettingsInit
<1>2. born \in Nat /\ acts \in Nat /\ faults \in Nat
    BY DEF SettingsInit
<1>3. first \in Edition /\ Placed(first.value) /\ first.seen = 0
    <2>1. Creative(1, 1) \in CreativeType /\ Creative(1, 1).art = NoArt
        BY DEF Creative, CreativeType, NoArt, Stray
    <2>2. <<Creative(1, 1)>> \in Values /\ Placed(<<Creative(1, 1)>>)
        BY <2>1 DEF Values, Placed
    <2>3. <<>> \in Values
        BY DEF Values
    <2> QED
        BY <2>2, <2>3 DEF Edition
<1> HIDE DEF first
<1>4. TrailOK
    <2>1. CASE trail = <<>>
        BY <2>1 DEF TrailOK, OverwritesSeen
    <2>2. CASE trail = <<first>>
        BY <1>3, <2>2 DEF TrailOK, OverwritesSeen
    <2> QED
        BY <1>1, <2>1, <2>2
<1>5. ConsolesOK
    <2>1. <<Asked, NoGet>> \in [1..2 -> Gets(trail)]
        BY Idle
    <2> QED
        BY <2>1, Idle DEF SettingsInit, ConsolesOK
<1>6. CallsOK
    BY Idle DEF SettingsInit, CallsOK
<1> QED
    BY <1>2, <1>4, <1>5, <1>6 DEF SettingsInv, CountsOK

(***************************************************************************)
(* The invariant of the settings editor holds in every reachable state.    *)
(***************************************************************************)
THEOREM SettingsInvariance == SettingsSpec => []SettingsInv
<1>1. SettingsInit => SettingsInv
    BY SettingsStart
<1>2. SettingsInv /\ [SettingsNext]_stVars => SettingsInv'
    <2> SUFFICES ASSUME SettingsInv, [SettingsNext]_stVars PROVE SettingsInv'
        OBVIOUS
    <2>1. ASSUME NEW e \in Editor, Network(e) PROVE SettingsInv'
        BY <2>1, ReadSettingsKeeps, loadKeeps, HandlePutKeeps, SaveReturnsKeeps,
           SaveUnansweredKeeps, HandleOrphanKeeps DEF Network
    <2>2. ASSUME NEW e \in Editor, Operator(e) PROVE SettingsInv'
        BY <2>2, ReopenKeeps, AddCreativeKeeps, saveKeeps, RemoveCreativeKeeps DEF Operator
    <2>3. ASSUME NEW e \in Editor, Artist(e) PROVE SettingsInv'
        BY <2>3, uploadCreativeImageKeeps, RenameCreativeKeeps, UploadReturnsKeeps, restoreKeeps
           DEF Artist
    <2>4. CASE UNCHANGED stVars
        <3>1. UNCHANGED <<trail, panel, gets, put, orphans, born, acts, faults>>
            BY <2>4 DEF stVars
        <3>2. CountsOK'
            BY <3>1, Counted
        <3> QED
            BY <3>1, <3>2, ConsoleStep, Parts
    <2> QED
        BY <2>1, <2>2, <2>3, <2>4 DEF SettingsNext
<1> QED
    BY <1>1, <1>2, PTL DEF SettingsSpec

(***************************************************************************)
(* Consoles, calls and the trail keep their types.                         *)
(***************************************************************************)
THEOREM SettingsTypeCorrect == SettingsSpec => []SettingsTypeOK
<1>1. SettingsInv => SettingsTypeOK
    <2> SUFFICES ASSUME SettingsInv PROVE SettingsTypeOK
        OBVIOUS
    <2>1. trail \in Seq([value : Seq(CreativeType), seen : Nat, base : Seq(CreativeType)])
        BY Parts DEF Edition, Values
    <2>2. panel \in [Editor -> [open : BOOLEAN, version : Nat, saved : Seq(CreativeType),
                                draft : Seq(CreativeType), busy : BOOLEAN,
                                uploads : SUBSET [id : Nat, who : Nat \cup {Stray}]]]
        <3>1. Panels(trail) \subseteq [open : BOOLEAN, version : Nat, saved : Values,
                   draft : Values, busy : BOOLEAN, uploads : SUBSET Image]
            BY DEF Panels
        <3> QED
            BY <3>1, Parts DEF Values, Image
    <2>3. gets \in [Editor -> [1..2 -> [at : {"none", "asked", "answered"}, version : Nat,
                                        value : Seq(CreativeType)]]]
        <3>1. Gets(trail) \subseteq [at : {"none", "asked", "answered"}, version : Nat,
                                      value : Values]
            BY DEF Gets
        <3> QED
            BY <3>1, Parts DEF Values
    <2> DEFINE Put == [at : {"none", "sent", "saved", "refused"}, key : {"ads", "other"},
                       seen : Nat, base : Seq(CreativeType), value : Seq(CreativeType)]
    <2>4. put \in [Editor -> Put] /\ orphans \subseteq Put
        <3>1. Puts(trail) \subseteq Put
            BY DEF Puts, Values
        <3> HIDE DEF Put
        <3> QED
            BY <3>1, Parts
    <2> QED
        BY <2>1, <2>2, <2>3, <2>4, Parts DEF SettingsTypeOK
<1> QED
    BY <1>1, SettingsInvariance, PTL

(***************************************************************************)
(* An uploaded image is only ever on the creative it was chosen for, in    *)
(* every draft and in everything saved (SettingsPanel.tsx:293-345),        *)
(* whatever rows are removed, added and renamed while uploads run.         *)
(***************************************************************************)
THEOREM ArtworkOnItsCreativeSafe == SettingsSpec => []ArtworkOnItsCreative
<1>1. SettingsInv => ArtworkOnItsCreative
    BY Parts DEF ArtworkOnItsCreative, Panels
<1> QED
    BY <1>1, SettingsInvariance, PTL

(***************************************************************************)
(* No save silently undoes one its author has not seen                     *)
(* (settings/[key]/route.ts:52-80), for any number of consoles, whatever   *)
(* answers were late, lost or overtaken.                                   *)
(***************************************************************************)
THEOREM OverwritesSeenSafe == SettingsSpec => []OverwritesSeen
<1>1. SettingsInv => OverwritesSeen
    BY DEF SettingsInv, TrailOK
<1> QED
    BY <1>1, SettingsInvariance, PTL
===============================================================================
