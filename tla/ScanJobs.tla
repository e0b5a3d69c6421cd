------------------------------ MODULE ScanJobs ------------------------------
(***************************************************************************)
(* The scan_jobs table: one operator per query of db/queries/scan_jobs.sql *)
(* that writes a row.  An operator maps the row the statement finds to the *)
(* row it leaves; a statement whose WHERE clause does not match returns    *)
(* the row unchanged.                                                      *)
(*                                                                         *)
(* A row keeps the columns the lifecycle decides on:                       *)
(*   state     the state column, "absent" when no row exists for the key   *)
(*   attempts  claims since the row was last (re)submitted                 *)
(*   worker    worker_id, NoWorker for NULL                                *)
(*   age       ticks since last_attempt_at.  last_attempt_at is NULL       *)
(*             exactly when attempts = 0, and no clause reads it then.     *)
(***************************************************************************)
EXTENDS Naturals

CONSTANTS
    Pods,       \* scanner-worker processes; a pod's hostname is its WorkerID
    NoWorker    \* worker_id IS NULL

ASSUME NoWorkerAssumption == NoWorker \notin Pods

ScanJobState == {"absent", "queued", "running", "succeeded", "failed", "pruned"}

ScanJob == [state    : ScanJobState,
            attempts : Nat,
            worker   : Pods \cup {NoWorker},
            age      : Nat]

AbsentJob == [state |-> "absent", attempts |-> 0, worker |-> NoWorker, age |-> 0]

FreshJob == [AbsentJob EXCEPT !.state = "queued"]

Active(r) == r.state \in {"queued", "running"}

(* Mutant: a submission resets a failed row too, as it once did. *)
InsertResetsFailed(r, force) ==
    IF r.state = "absent" THEN FreshJob
    ELSE IF r.state \in {"succeeded", "failed"} \/ (r.state = "pruned" /\ force)
         THEN [r EXCEPT !.state = "queued", !.attempts = 0, !.age = 0]
         ELSE r

(***************************************************************************)
(* The upsert of every submission.  It leaves worker_id as it is.          *)
(***************************************************************************)
InsertScanJob(r, force) ==
    IF r.state = "absent" THEN FreshJob
    ELSE IF r.state = "succeeded" \/ (r.state = "pruned" /\ force)
         THEN [r EXCEPT !.state = "queued", !.attempts = 0, !.age = 0]
         ELSE r

(***************************************************************************)
(* ClaimScanJobByID and ClaimNextQueuedJob share this SET list.            *)
(***************************************************************************)
Claimed(r, p) ==
    [state |-> "running", attempts |-> r.attempts + 1, worker |-> p, age |-> 0]

(***************************************************************************)
(* FinishScanJobByID tests the id only: any row is moved to 'succeeded'.   *)
(***************************************************************************)
FinishScanJobByID(r) ==
    IF r.state = "absent" THEN r ELSE [r EXCEPT !.state = "succeeded"]

(* Mutant: one attempt too many. *)
OneMoreAttempt(r, maxAttempts) ==
    IF r.attempts > maxAttempts
    THEN [r EXCEPT !.state = "failed"]
    ELSE [r EXCEPT !.state = "queued", !.worker = NoWorker]

FailOrQueueAgain(r, maxAttempts) ==
    IF r.attempts >= maxAttempts
    THEN [r EXCEPT !.state = "failed"]
    ELSE [r EXCEPT !.state = "queued", !.worker = NoWorker]

FailOrRequeueScanJobByID(r, maxAttempts) ==
    IF Active(r) THEN FailOrQueueAgain(r, maxAttempts) ELSE r

(* Mutant: every running row is taken for stuck. *)
RequeueAnyRunning(r, threshold, maxAttempts) ==
    IF r.state = "running" THEN FailOrQueueAgain(r, maxAttempts) ELSE r

(* Mutant: a stuck row whose attempts are used up is left running. *)
RequeueUnexhausted(r, threshold, maxAttempts) ==
    IF r.state = "running" /\ r.age > threshold /\ r.attempts < maxAttempts
    THEN FailOrQueueAgain(r, maxAttempts) ELSE r

RequeueStuckRunning(r, threshold, maxAttempts) ==
    IF r.state = "running" /\ r.age > threshold
    THEN FailOrQueueAgain(r, maxAttempts) ELSE r

FailStaleRequeuedScanJobs(r, stale) ==
    IF r.state = "queued" /\ r.attempts > 0 /\ r.age > stale
    THEN [r EXCEPT !.state = "failed"] ELSE r

(* Mutant: a retry keeps the attempts already used. *)
RetryKeepsAttempts(r) ==
    IF r.state = "failed" THEN [r EXCEPT !.state = "queued", !.worker = NoWorker] ELSE r

RetryScanJob(r) == IF r.state = "failed" THEN FreshJob ELSE r

CancelQueuedScanJob(r) ==
    IF r.state = "queued"
    THEN [r EXCEPT !.state = "failed", !.worker = NoWorker] ELSE r

(* Mutant: a delete tombstones the job whatever its state. *)
PruneAnyState(r) == IF r.state # "absent" THEN [r EXCEPT !.state = "pruned"] ELSE r

PruneScanJob(r) ==
    IF r.state = "succeeded" THEN [r EXCEPT !.state = "pruned"] ELSE r

RecordRefusedScanJob(r) ==
    IF r.state = "absent" THEN [AbsentJob EXCEPT !.state = "failed"] ELSE r

DeleteFailedScanJobs(r) == IF r.state = "failed" THEN AbsentJob ELSE r
=============================================================================
