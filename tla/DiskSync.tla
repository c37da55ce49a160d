------------------------------ MODULE DiskSync ------------------------------
(***************************************************************************)
(* The scheduled job that keeps an indexer's DB_DISK_GB equal to the disk  *)
(* of its database (scripts/sync-db-disk-size.mjs): it writes the          *)
(* service's configuration through the API of the host and deploys, since  *)
(* a running process keeps the configuration of its last deploy.           *)
(* Retention deletes compact history when the disk seems full, so the      *)
(* number decides about data.                                              *)
(*                                                                         *)
(* The host is external: a deploy carries the configuration it was queued  *)
(* with, a newer one replaces it, and disks only grow.  Runs do not overlap*)
(* (the workflow's concurrency group).  One target; what a run reports     *)
(* about the use of the disk is left out.                                  *)
(***************************************************************************)
EXTENDS Integers

CONSTANTS
    MaxGb,          \* bound: the size a disk may grow to
    FirstGb,        \* sizes a disk may have at first
    FirstStored,    \* configurations found by the first run
    MaxGlitches     \* bound: failed calls, lost answers, slow deploys, kills

Absent == 0         \* DB_DISK_GB is not set
NoDeploy == -1

Gb == 1..MaxGb
Configured == Gb \cup {Absent}

ASSUME DiskSyncAssumption ==
    /\ MaxGb \in Nat /\ MaxGlitches \in Nat
    /\ FirstGb \subseteq Gb /\ FirstStored \subseteq Configured

VARIABLES
    capacity,       \* the disk, in whole GiB
    storedGb,       \* DB_DISK_GB in the service's configuration
    pending,        \* DB_DISK_GB_SYNC_PENDING is in it too
    runningGb,      \* DB_DISK_GB of the running process
    deploying,      \* the configuration of the deploy in flight
    sync,           \* the run of the job
    glitches

dsVars == <<capacity, storedGb, pending, runningGb, deploying, sync, glitches>>

\* own: what became of the deploy this run queued.
NoSync == [at |-> "idle", targetGb |-> Absent, rawDiskGb |-> Absent,
           interrupted |-> FALSE, own |-> "none"]

DiskSyncInit ==
    /\ capacity \in FirstGb
    /\ storedGb \in FirstStored /\ runningGb = storedGb
    /\ pending = FALSE /\ deploying = NoDeploy
    /\ sync = NoSync /\ glitches = 0

Glitch == glitches < MaxGlitches /\ glitches' = glitches + 1

-----------------------------------------------------------------------------
(* The host. *)

Grow ==
    /\ capacity < MaxGb
    /\ capacity' = capacity + 1
    /\ UNCHANGED <<storedGb, pending, runningGb, deploying, sync, glitches>>

Outcome(s, from, to) == IF s.own = from THEN [s EXCEPT !.own = to] ELSE s

DeployLands ==
    /\ deploying # NoDeploy
    /\ runningGb' = deploying /\ deploying' = NoDeploy
    /\ sync' = Outcome(sync, "flying", "live")
    /\ UNCHANGED <<capacity, storedGb, pending, glitches>>

DeployFails ==
    /\ deploying # NoDeploy /\ Glitch
    /\ deploying' = NoDeploy
    /\ sync' = Outcome(sync, "flying", "failed")
    /\ UNCHANGED <<capacity, storedGb, pending, runningGb>>

\* Somebody else deploys: a deploy of the run still in flight is cancelled.
OtherDeploy ==
    /\ Glitch
    /\ deploying' = storedGb
    /\ sync' = Outcome(sync, "flying", "failed")
    /\ UNCHANGED <<capacity, storedGb, pending, runningGb>>

-----------------------------------------------------------------------------
(* The job. *)

Goes(stage) == sync' = [sync EXCEPT !.at = stage]
Stops == sync' = NoSync

\* fetchCapacityBytes.
StartSync ==
    /\ sync.at = "idle"
    /\ sync' = [NoSync EXCEPT !.at = "plan", !.targetGb = capacity]
    /\ UNCHANGED <<capacity, storedGb, pending, runningGb, deploying, glitches>>

\* readServiceEnv and planDiskGbSync: what agrees already is left alone, unless
\* a marker says that it was never deployed.
PlanBlind(s) == ~(s.targetGb = storedGb)  \* Wrong on purpose: the marker is not looked at.
Owed(s)      == ~(s.targetGb = storedGb /\ ~pending)

planDiskGbSync ==
    /\ sync.at = "plan"
    /\ sync' = IF Owed(sync)
               THEN [sync EXCEPT !.at = "mark", !.rawDiskGb = storedGb, !.interrupted = pending]
               ELSE NoSync
    /\ UNCHANGED <<capacity, storedGb, pending, runningGb, deploying, glitches>>

\* A call that fails ends the run, done or not.
PutMarker ==
    /\ sync.at = "mark"
    /\ \/ pending' = TRUE /\ Goes("put") /\ UNCHANGED glitches
       \/ pending' \in {pending, TRUE} /\ Glitch /\ Stops
    /\ UNCHANGED <<capacity, storedGb, runningGb, deploying>>

PutDiskGb ==
    /\ sync.at = "put"
    /\ \/ storedGb' = sync.targetGb /\ Goes("deploy") /\ UNCHANGED glitches
       \/ storedGb' \in {storedGb, sync.targetGb} /\ Glitch /\ Stops
    /\ UNCHANGED <<capacity, pending, runningGb, deploying>>

\* A failure here is a failed deploy, which may have been queued.
QueueDeploy ==
    /\ sync.at = "deploy"
    /\ \/ /\ deploying' = storedGb
          /\ sync' = [sync EXCEPT !.at = "poll", !.own = "flying"]
          /\ UNCHANGED glitches
       \/ deploying' \in {deploying, storedGb} /\ Glitch /\ Goes("recover")
    /\ UNCHANGED <<capacity, storedGb, pending, runningGb>>

\* Live, or live and superseded, is success; an answer that does not come in
\* time and a failed poll are failures.
awaitDeploy ==
    /\ sync.at = "poll"
    /\ \/ sync.own = "live" /\ Goes("clear") /\ UNCHANGED glitches
       \/ sync.own = "failed" /\ Goes("recover") /\ UNCHANGED glitches
       \/ Glitch /\ Goes("recover")
    /\ UNCHANGED <<capacity, storedGb, pending, runningGb, deploying>>

\* planFailureRecovery: what an interrupted run had stored is not what runs.
RecoverAlways(s)       == TRUE  \* Wrong on purpose: a reconciliation is rolled back too.
planFailureRecovery(s) == ~s.interrupted

Recover ==
    /\ sync.at = "recover"
    /\ IF planFailureRecovery(sync) THEN Goes("restore") ELSE Stops
    /\ UNCHANGED <<capacity, storedGb, pending, runningGb, deploying, glitches>>

\* The marker stays when the restore fails.
restoreDiskGb ==
    /\ sync.at = "restore"
    /\ \/ storedGb' = sync.rawDiskGb /\ Goes("clear") /\ UNCHANGED glitches
       \/ storedGb' \in {storedGb, sync.rawDiskGb} /\ Glitch /\ Stops
    /\ UNCHANGED <<capacity, pending, runningGb, deploying>>

\* Best effort.
clearPending ==
    /\ sync.at = "clear"
    /\ \/ pending' = FALSE /\ UNCHANGED glitches
       \/ UNCHANGED pending /\ Glitch
    /\ Stops
    /\ UNCHANGED <<capacity, storedGb, runningGb, deploying>>

Killed ==
    /\ sync.at # "idle" /\ Glitch
    /\ Stops
    /\ UNCHANGED <<capacity, storedGb, pending, runningGb, deploying>>

SyncStep ==
    \/ StartSync \/ planDiskGbSync \/ PutMarker \/ PutDiskGb \/ QueueDeploy
    \/ awaitDeploy \/ Recover \/ restoreDiskGb \/ clearPending

DiskSyncNext == Grow \/ DeployLands \/ DeployFails \/ OtherDeploy \/ SyncStep \/ Killed

DiskSyncSpec == DiskSyncInit /\ [][DiskSyncNext]_dsVars

\* The schedule starts runs, a run goes on, and a deploy ends.
DiskSyncFairness == WF_dsVars(SyncStep) /\ WF_dsVars(DeployLands)

-----------------------------------------------------------------------------
(* Properties. *)

Stages == {"idle", "plan", "mark", "put", "deploy", "poll", "recover", "restore", "clear"}
Fates == {"none", "flying", "live", "failed"}
Syncs == [at : Stages, targetGb : Configured, rawDiskGb : Configured,
          interrupted : BOOLEAN, own : Fates]

DiskSyncTypeOK ==
    /\ capacity \in Gb /\ storedGb \in Configured /\ runningGb \in Configured
    /\ pending \in BOOLEAN /\ deploying \in Configured \cup {NoDeploy}
    /\ sync \in Syncs
    /\ glitches \in Nat

(***************************************************************************)
(* Configuration and process never disagree silently                       *)
(* (sync-db-disk-size.mjs:25-31, 55-68): where they do, the next run will  *)
(* act, because the marker is set or the configuration is not what the     *)
(* disk calls for.  No lost answer, slow deploy, failed rollback or kill   *)
(* leaves a number that is never deployed.  It takes that the first        *)
(* configuration does not overstate the disk: otherwise a deploy that      *)
(* lands after its rollback meets a disk that grows to the old number.     *)
(***************************************************************************)
NeverWedged ==
    storedGb # runningGb => pending \/ storedGb # capacity

(***************************************************************************)
(* Once the disk stops growing and the host stops failing, the process     *)
(* runs with the size of the disk (sync-db-disk-size.mjs:1-31).            *)
(***************************************************************************)
DiskConverges == <>[](runningGb = capacity /\ storedGb = capacity)
=============================================================================
