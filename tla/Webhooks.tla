------------------------------ MODULE Webhooks ------------------------------
(***************************************************************************)
(* Webhook deliveries (apps/indexer/src/webhook-notifier.ts): every stored *)
(* block sets off a notification nobody waits for.  Blocks are processed   *)
(* again after aborts, restarts and rollbacks and by the processes of      *)
(* overlapping deploys, so notifications of one block run more than once   *)
(* and at the same time; the ledger webhook_deliveries keeps a payload     *)
(* from being sent twice.                                                  *)
(***************************************************************************)
EXTENDS Integers

CONSTANTS
    Notifier,       \* notifications that run at once
    Webhook,        \* webhooks that match transactions of every block
    Hash,           \* block hashes
    MaxStumbles     \* bound: failed statements and lost processes

DeactivateAfter == 5

VARIABLES
    note,           \* notifier -> its notification
    ledger,         \* webhook_deliveries: webhooks and hashes
    posts,          \* webhook -> hash -> POSTs sent
    hook,           \* webhook -> its active and failCount columns
    stumbles

whVars == <<note, ledger, posts, hook, stumbles>>

\* left: webhooks still to handle; turn: the one being handled.
NoNote == [at |-> "idle", hash |-> {}, left |-> {}, turn |-> {}, ok |-> {}, failed |-> {}]

WebhooksInit ==
    /\ note = [n \in Notifier |-> NoNote]
    /\ ledger = {}
    /\ posts = [h \in Webhook |-> [b \in Hash |-> 0]]
    /\ hook = [h \in Webhook |-> [active |-> TRUE, failCount |-> 0]]
    /\ stumbles = 0

Stumble == stumbles < MaxStumbles /\ stumbles' = stumbles + 1

\* The active webhooks are selected, without their failCount.
notifyWebhooks(n, b) ==
    /\ note[n].at = "idle"
    /\ note' = [note EXCEPT ![n] = [NoNote EXCEPT !.at = "next", !.hash = {b},
                                    !.left = {h \in Webhook : hook[h].active}]]
    /\ UNCHANGED <<ledger, posts, hook, stumbles>>

NextWebhook(n, h) ==
    /\ note[n].at = "next" /\ h \in note[n].left
    /\ note' = [note EXCEPT ![n].at = "claim", ![n].left = @ \ {h}, ![n].turn = {h}]
    /\ UNCHANGED <<ledger, posts, hook, stumbles>>

\* INSERT .. ON CONFLICT DO NOTHING RETURNING, before anything is sent.  A
\* statement that fails counts as no claim, recorded or not.
ClaimUnread(n, h, b) ==  \* Wrong on purpose: the conflict is not looked at.
    /\ note[n].at = "claim" /\ note[n].turn = {h} /\ note[n].hash = {b}
    /\ ledger' = ledger \cup {<<h, b>>}
    /\ note' = [note EXCEPT ![n].at = "post"]
    /\ UNCHANGED <<posts, hook, stumbles>>
ClaimDelivery(n, h, b) ==
    /\ note[n].at = "claim" /\ note[n].turn = {h} /\ note[n].hash = {b}
    /\ \/ /\ ledger' = ledger \cup {<<h, b>>}
          /\ note' = [note EXCEPT ![n].at = IF <<h, b>> \in ledger THEN "next" ELSE "post"]
          /\ UNCHANGED stumbles
       \/ /\ Stumble
          /\ ledger' \in {ledger, ledger \cup {<<h, b>>}}
          /\ note' = [note EXCEPT ![n].at = "next"]
    /\ UNCHANGED <<posts, hook>>

\* A refused URL is not posted to; a POST may fail, be lost or go unanswered.
\* The claim stays in every case.
deliverWebhook(n, h, b) ==
    /\ note[n].at = "post" /\ note[n].turn = {h} /\ note[n].hash = {b}
    /\ \/ /\ posts' = [posts EXCEPT ![h][b] = @ + 1]
          /\ \/ note' = [note EXCEPT ![n].at = "next", ![n].ok = @ \cup {h}]
             \/ note' = [note EXCEPT ![n].at = "next", ![n].failed = @ \cup {h}]
       \/ /\ note' = [note EXCEPT ![n].at = "next", ![n].failed = @ \cup {h}]
          /\ UNCHANGED posts
    /\ UNCHANGED <<ledger, hook, stumbles>>

\* The fail count was not selected, so every failure is the first.
RecordOutcomes(n) ==
    /\ note[n].at = "next" /\ note[n].left = {}
    /\ LET currentFail == 0
           newFail == currentFail + 1
       IN  \E saved \in SUBSET (note[n].ok \cup note[n].failed) :
              /\ IF saved = note[n].ok \cup note[n].failed THEN UNCHANGED stumbles ELSE Stumble
              /\ hook' = [h \in Webhook |->
                    IF h \notin saved THEN hook[h]
                    ELSE IF h \in note[n].ok THEN [hook[h] EXCEPT !.failCount = 0]
                    ELSE [active |-> hook[h].active /\ newFail < DeactivateAfter,
                          failCount |-> newFail]]
    /\ note' = [note EXCEPT ![n] = NoNote]
    /\ UNCHANGED <<ledger, posts>>

NotifierDies(n) ==
    /\ note[n].at # "idle"
    /\ Stumble
    /\ note' = [note EXCEPT ![n] = NoNote]
    /\ UNCHANGED <<ledger, posts, hook>>

WebhooksNext ==
    \E n \in Notifier :
        \/ \E b \in Hash : notifyWebhooks(n, b)
        \/ \E h \in Webhook : NextWebhook(n, h)
        \/ \E h \in Webhook, b \in Hash : ClaimDelivery(n, h, b) \/ deliverWebhook(n, h, b)
        \/ RecordOutcomes(n) \/ NotifierDies(n)

WebhooksSpec == WebhooksInit /\ [][WebhooksNext]_whVars

-----------------------------------------------------------------------------
(* Properties. *)

WebhooksTypeOK ==
    /\ note \in [Notifier -> [at : {"idle", "next", "claim", "post"}, hash : SUBSET Hash,
                             left : SUBSET Webhook, turn : SUBSET Webhook,
                             ok : SUBSET Webhook, failed : SUBSET Webhook]]
    /\ ledger \subseteq Webhook \X Hash
    /\ posts \in [Webhook -> [Hash -> Nat]]
    /\ hook \in [Webhook -> [active : BOOLEAN, failCount : Nat]]
    /\ stumbles \in Nat

(***************************************************************************)
(* A webhook hears of a block at most once (webhook-notifier.ts:184-229):  *)
(* replays, notifications at the same time, claims whose answer is lost    *)
(* and deaths between claim and POST never send a payload again.           *)
(***************************************************************************)
AtMostOnce == \A h \in Webhook, b \in Hash : posts[h][b] <= 1
=============================================================================
