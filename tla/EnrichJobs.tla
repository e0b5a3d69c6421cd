----------------------------- MODULE EnrichJobs -----------------------------
(***************************************************************************)
(* The enrichment_jobs and enrichment tables, one operator per writing     *)
(* statement, and the declared graph of enrichers.  A row operator maps    *)
(* the row a statement finds to the row it leaves.                         *)
(*   state     "absent" when (sbom_id, enricher_name) has no row           *)
(*   attempts  claims since the row was inserted, retried or requeued      *)
(*   age       ticks since last_attempt_at                                 *)
(* An enrichment is its status column, "none" without a row.  Success      *)
(* comes with data and errors without, so the status also says whether     *)
(* data IS NOT NULL.                                                       *)
(***************************************************************************)
EXTENDS Naturals, Sequences

Names == {"user", "oci-metadata", "provenance", "git"}

rootEnrichers == <<"user", "oci-metadata", "provenance">>

enricherDeps == [n \in {"git"} |-> {"oci-metadata"}]

Prerequisites(n) == IF n \in DOMAIN enricherDeps THEN enricherDeps[n] ELSE {}

Dependents(n) == {d \in DOMAIN enricherDeps : n \in enricherDeps[d]}

EnrichJobState == {"absent", "queued", "running", "succeeded", "failed"}

EnrichJob == [state : EnrichJobState, attempts : Nat, age : Nat]

NoRow == [state |-> "absent", attempts |-> 0, age |-> 0]

Fresh == [NoRow EXCEPT !.state = "queued"]

(* Enqueue: a unique violation on the idempotency key is swallowed. *)
InsertEnrichmentJob(r) == IF r.state = "absent" THEN Fresh ELSE r

(* The SET list of ClaimEnrichmentJobByID and ClaimNextEnrichmentJob. *)
ClaimEnrichmentJob(r) == [state |-> "running", attempts |-> r.attempts + 1, age |-> 0]

(* The statement tests the id only. *)
FinishEnrichmentJobByID(r) ==
    IF r.state = "absent" THEN r ELSE [r EXCEPT !.state = "succeeded"]

(* Mutant: one attempt too many. *)
OneMoreEnrichment(r, maxAttempts) ==
    [r EXCEPT !.state = IF r.attempts > maxAttempts THEN "failed" ELSE "queued"]

SpendAttempt(r, maxAttempts) ==
    [r EXCEPT !.state = IF r.attempts >= maxAttempts THEN "failed" ELSE "queued"]

FailOrRequeueEnrichmentJobByID(r, maxAttempts) ==
    IF r.state \in {"queued", "running"} THEN SpendAttempt(r, maxAttempts) ELSE r

(* Mutant: a stuck row without attempts left stays running. *)
RequeueStuckWithBudget(r, threshold, maxAttempts) ==
    IF r.state = "running" /\ r.age > threshold /\ r.attempts < maxAttempts
    THEN SpendAttempt(r, maxAttempts) ELSE r

RequeueStuckEnrichmentJobs(r, threshold, maxAttempts) ==
    IF r.state = "running" /\ r.age > threshold THEN SpendAttempt(r, maxAttempts) ELSE r

RetryEnrichmentJob(r) == IF r.state = "failed" THEN Fresh ELSE r

(* Mutant: only failed jobs are requeued. *)
RequeueFailedForRecheck(r) == IF r.state = "failed" THEN Fresh ELSE r

RequeueEnrichmentJobForRecheck(r) ==
    IF r.state \in {"succeeded", "failed"} THEN Fresh ELSE r

(* Mutant: an error replaces the good result before it. *)
UpsertLatest(old, new) == new

(* An error does not replace a good result. *)
UpsertEnrichment(old, new) ==
    IF new = "error" /\ old = "success" THEN "success" ELSE new
=============================================================================
