----------------------------- MODULE MCServices -----------------------------
(***************************************************************************)
(* Model checking of the services around the indexer's core.  They share   *)
(* no state that their properties depend on, so a behaviour is one of one  *)
(* service: svc names it, and the variables of the others do not change.   *)
(* The backfill has three: two workers on one entity, one worker on a queue*)
(* of two, and one worker filling the cache a reader pages through; the    *)
(* settings editor has two: one console that uploads images, two that save *)
(* against each other; and so has the provider's budget: two calls of one  *)
(* process on the shared ledger, one there and one on a ledger of its own. *)
(***************************************************************************)
EXTENDS BackfillServe, Failover, BlockRows, Webhooks, AddressFlush, Retention,
        TokenRows, DiskSync, ProviderBudget, Settings, GapReport

CONSTANTS w1, w2, a, t, h, e1, e2, b1, b2, r1, t1, t2, t3

VARIABLE svc

BackfillModes == {"fence", "queue"}
Services == BackfillModes \cup {"serve", "failover", "rows", "webhooks", "addresses",
                                "retention", "tokens", "disk", "budget", "ledgers",
                                "console", "editors", "gaps"}

MCKindOf   == [e \in {a, t, h} |-> IF e = a THEN "history" ELSE "assets"]
MCFirstTop == [e \in {a, t, h} |-> IF e = h THEN {1} ELSE {3}]
MCUnkeyed  == [e \in {a, t, h} |-> IF e = t THEN {1} ELSE {}]
MCKeyOf    == <<1, 3, 1, 2, 1, 2>>

MCEndpoints  == <<e1, e2>>
MCUnable     == [k \in {"block", "read"} |-> IF k = "block" THEN {e1} ELSE {}]
MCKindOfCall == [c \in {b1, b2, r1} |-> IF c = r1 THEN "read" ELSE "block"]
MCStartOf    == [c \in {b1, b2, r1} |-> IF c = b2 THEN 1 ELSE 0]

MCTxsOf   == <<{t1, t2}, {t1, t3}>>
MCAddrsOf == [x \in {t1, t2} |-> [y \in {b1, b2} |-> IF x = t1 THEN 1 ELSE IF y = b1 THEN 2 ELSE 0]]
MCProcOf  == [c \in {b1, b2, t1} |-> IF c = t1 THEN r1 ELSE w1]
MCCostOf  == [b \in {"history"} |-> 2]

MCInit ==
    /\ svc \in Services
    /\ BackfillInit /\ ServeInit /\ FailoverInit /\ BlockRowsInit /\ WebhooksInit
    /\ AddressFlushInit /\ RetentionInit /\ TokenRowsInit /\ DiskSyncInit /\ ProviderBudgetInit
    /\ SettingsInit /\ GapReportInit
    /\ svc # "disk" => storedGb = 1
    /\ svc \notin {"console", "editors"} => trail = <<>>

Untouched1 == UNCHANGED <<foVars, brVars, whVars>>
Untouched2 == UNCHANGED <<afVars, rtVars, tkVars>>
Untouched3 == UNCHANGED <<dsVars, pbVars>>
Untouched4 == UNCHANGED <<stVars, grVars>>

FenceNext ==
    \/ \E w \in Worker : WorkerStep(w)
    \/ \E e \in {a, t} : (Enqueue(e) /\ \A f \in Entity : wm[f].status = "none") \/ Lapse(e)
    \/ HourTurns
QueueNext ==
    \/ WorkerStep(w1)
    \/ \E e \in {a, t} : Enqueue(e) \/ Lapse(e)
    \/ HourTurns
ReaderNext ==
    \/ (WorkerStep(w1) \/ EntityStep(h) \/ HourTurns) /\ UNCHANGED view
    \/ ServeStep

BackfillPart ==
    /\ \/ svc = "fence" /\ FenceNext /\ UNCHANGED view
       \/ svc = "queue" /\ QueueNext /\ UNCHANGED view
       \/ svc = "serve" /\ ReaderNext
    /\ Untouched1 /\ Untouched2 /\ Untouched3 /\ Untouched4
FirstPart ==
    /\ \/ svc = "failover" /\ FailoverNext /\ UNCHANGED <<brVars, whVars>>
       \/ svc = "rows" /\ BlockRowsNext /\ UNCHANGED <<foVars, whVars>>
       \/ svc = "webhooks" /\ WebhooksNext /\ UNCHANGED <<foVars, brVars>>
    /\ UNCHANGED bsVars /\ Untouched2 /\ Untouched3 /\ Untouched4
SecondPart ==
    /\ \/ svc = "addresses" /\ AddressFlushNext /\ UNCHANGED <<rtVars, tkVars>>
       \/ svc = "retention" /\ RetentionNext /\ UNCHANGED <<afVars, tkVars>>
       \/ svc = "tokens" /\ TokenRowsNext /\ UNCHANGED <<afVars, rtVars>>
    /\ UNCHANGED bsVars /\ Untouched1 /\ Untouched3 /\ Untouched4
ThirdPart ==
    /\ \/ svc = "disk" /\ DiskSyncNext /\ UNCHANGED pbVars
       \/ svc = "budget" /\ ProviderBudgetNext /\ ask'[t1] = ask[t1] /\ UNCHANGED dsVars
       \/ svc = "ledgers" /\ ProviderBudgetNext /\ ask'[b2] = ask[b2] /\ UNCHANGED dsVars
    /\ UNCHANGED bsVars /\ Untouched1 /\ Untouched2 /\ Untouched4
FourthPart ==
    /\ \/ svc = "console" /\ (Network(w1) \/ Operator(w1) \/ Artist(w1)) /\ UNCHANGED grVars
       \/ /\ svc = "editors"
          /\ \E e \in Editor : Network(e) \/ AddCreative(e) \/ save(e, "ads")
          /\ UNCHANGED grVars
       \/ svc = "gaps" /\ GapReportNext /\ UNCHANGED stVars
    /\ UNCHANGED bsVars /\ Untouched1 /\ Untouched2 /\ Untouched3

MCNext ==
    /\ BackfillPart \/ FirstPart \/ SecondPart \/ ThirdPart \/ FourthPart
    /\ UNCHANGED svc

MCvars == <<svc, bsVars, foVars, brVars, whVars, afVars, rtVars, tkVars, dsVars, pbVars,
            stVars, grVars>>

\* BackfillFairness and DiskSyncFairness, each where the service runs.
Rest1 == UNCHANGED <<svc, view>> /\ Untouched1 /\ Untouched2 /\ Untouched3 /\ Untouched4
Rest3 == UNCHANGED <<svc, bsVars, pbVars>> /\ Untouched1 /\ Untouched2 /\ Untouched4
FairWorking(w) ==
    svc \in BackfillModes /\ (svc = "queue" => w = w1) /\ Working(w) /\ Rest1
FairClaims == svc \in BackfillModes /\ (\E w \in {w1, w2} : (svc = "queue" => w = w1) /\ Claim(w)) /\ Rest1
FairHours  == svc \in BackfillModes /\ HourTurns /\ Rest1
FairLapses == svc \in BackfillModes /\ (\E e \in {a, t} : Lapse(e) /\ ~Held(e)) /\ Rest1
FairSync   == svc = "disk" /\ SyncStep /\ Rest3
FairDeploy == svc = "disk" /\ DeployLands /\ Rest3

MCFairness ==
    /\ WF_MCvars(FairWorking(w1)) /\ WF_MCvars(FairWorking(w2))
    /\ WF_MCvars(FairClaims) /\ WF_MCvars(FairHours) /\ WF_MCvars(FairLapses)
    /\ WF_MCvars(FairSync) /\ WF_MCvars(FairDeploy)

MCSpec == MCInit /\ [][MCNext]_MCvars /\ MCFairness

-----------------------------------------------------------------------------
(***************************************************************************)
(* EntitySettles (Backfill) for the entities of the two behaviours that    *)
(* run under its fairness.                                                 *)
(***************************************************************************)
EntitiesSettle == \A e \in {a, t} : EntitySettles(e)

(***************************************************************************)
(* DiskConverges (DiskSync) in the behaviours that run the job.            *)
(***************************************************************************)
DiskAgrees == svc = "disk" => DiskConverges
=============================================================================
