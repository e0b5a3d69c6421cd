-------------------------- MODULE EnrichmentQueue ---------------------------
(***************************************************************************)
(* From a stored SBOM to its enrichments.  The submitter enqueues a job    *)
(* per root enricher; the worker of each enricher claims its jobs, runs    *)
(* the dispatcher, finishes the job and enqueues the dependents whose      *)
(* prerequisites have succeeded.  The worker is the jobqueue.Worker that   *)
(* ScanQueue models; here its hints carry an SBOM id, its job timeout      *)
(* equals the stuck threshold, and its goroutines may outlive both.        *)
(* What provenance results lead to is the subject of ProvenanceDrift.  The *)
(* SBOMs are those of containers.                                          *)
(***************************************************************************)
EXTENDS EnrichJobs, FiniteSets

CONSTANTS
    Sboms,
    Workers,            \* one goroutine per worker process
    EnricherOf,         \* the partition a worker owns (RunConfig.EnricherName)
    CallerMeta,         \* per SBOM, what the caller supplied at ingest
    ImageMeta,          \* per SBOM, the results its image can give
    MaxAttempts,
    StuckThreshold,     \* also the job timeout
    MaxRun,             \* longest a goroutine keeps a job, clean-up included
    MaxFaults,          \* bound: crashes and failing statements
    MaxOps              \* bound: deletes, retries and --once runs

Meta == [arch : BOOLEAN, version : BOOLEAN]
CallerFields == [arch : BOOLEAN, version : BOOLEAN, date : BOOLEAN]

ASSUME EnrichmentQueueAssumption ==
    /\ EnricherOf \in [Workers -> Names]
    /\ CallerMeta \in [Sboms -> CallerFields]
    /\ ImageMeta \in [Sboms -> SUBSET Meta]
    /\ MaxAttempts \in Nat \ {0}
    /\ StuckThreshold \in Nat \ {0}
    /\ MaxRun \in Nat /\ StuckThreshold <= MaxRun
    /\ MaxFaults \in Nat /\ MaxOps \in Nat

VARIABLES
    jobs,       \* enrichment_jobs, by SBOM and enricher
    result,     \* enrichment.status, by SBOM and enricher
    version,    \* SBOMs whose subject_version is set
    sufficient, \* SBOMs whose enrichment_sufficient is set
    stored,     \* SBOMs in the database
    unused,     \* SBOM ids not given out yet; a deleted id never returns
    submit,     \* per SBOM, the root enrichers the submitter still enqueues
    hints,      \* per enricher, the ids in its hint channel
    exec,       \* per worker, the job it runs and how far it got
    missed,     \* history: SBOMs whose chain a fault or a --once run has cut
    faults, ops

tables == <<jobs, result, version, sufficient, stored>>
budget == <<faults, ops>>
vars == <<tables, unused, submit, hints, exec, missed, budget>>

-----------------------------------------------------------------------------
SbomID(s) == <<"sbom", s>>
JobID(s, n) == <<"job", s, n>>

Keys == Sboms \X Names

(* The worker types that run: each has a hint consumer of its own. *)
Consumers == {EnricherOf[w] : w \in Workers}

NoKey == <<>>
NoMeta == [arch |-> FALSE, version |-> FALSE]

(***************************************************************************)
(* Steps of the processor: Enrich, UpsertEnrichment, applyOCIVersion,      *)
(* applyEnrichmentSufficiency, FinishByID, EnqueueDependents, and          *)
(* FailOrRequeue.  once marks a --once run, which has no job.              *)
(***************************************************************************)
Steps == {"enrich", "store", "version", "sufficient", "finish", "dependents", "fail"}

Idle == [pc |-> "idle", key |-> NoKey, elapsed |-> 0, once |-> FALSE,
         seen |-> FALSE, outcome |-> "error", data |-> NoMeta]

(* A claim joins the SBOM's subject_version in; seen is what it read. *)
Run(k) == [Idle EXCEPT !.pc = "enrich", !.key = k, !.seen = k[1] \in version]

Execution == [pc : Steps, key : Keys, elapsed : 0 .. MaxRun, once : BOOLEAN,
              seen : BOOLEAN, outcome : {"error", "success"}, data : Meta]

(* The types of the variables. *)
TypeOK ==
    /\ jobs \in [Keys -> EnrichJob]
    /\ result \in [Keys -> {"none", "error", "success"}]
    /\ version \subseteq Sboms /\ sufficient \subseteq Sboms
    /\ stored \subseteq Sboms /\ unused \subseteq Sboms /\ missed \subseteq Sboms
    /\ submit \in [Sboms -> Seq({rootEnrichers[i] : i \in 1 .. Len(rootEnrichers)})]
    /\ hints \in [Consumers -> SUBSET {SbomID(s) : s \in Sboms}]
    /\ exec \in [Workers -> Execution \cup {Idle}]
    /\ faults \in Nat /\ ops \in Nat

SpendFault == faults < MaxFaults /\ faults' = faults + 1
SpendOp == ops < MaxOps /\ ops' = ops + 1

Busy(w) == exec[w].pc # "idle"
SbomOf(w) == exec[w].key[1]
ContextAlive(w) == exec[w].elapsed < StuckThreshold

At(w, pc) == exec[w].pc = pc
Go(w, pc) == exec' = [exec EXCEPT ![w].pc = pc]
Stop(w) == exec' = [exec EXCEPT ![w] = Idle]

(* An error returned by the processor; a --once run just exits. *)
Err(w) ==
    IF exec[w].once THEN Stop(w)
    ELSE exec' = [exec EXCEPT ![w] = [Idle EXCEPT !.pc = "fail", !.key = exec[w].key,
                                                  !.elapsed = exec[w].elapsed]]

(* After the dispatcher: the processor finishes the job, RunOnce returns. *)
Processed(w) ==
    IF exec[w].once THEN Stop(w)
    ELSE exec' = [exec EXCEPT ![w] = [Idle EXCEPT !.pc = "finish", !.key = exec[w].key,
                                                  !.elapsed = exec[w].elapsed]]

Init ==
    /\ jobs = [k \in Keys |-> NoRow]
    /\ result = [k \in Keys |-> "none"]
    /\ version = {} /\ sufficient = {} /\ stored = {} /\ missed = {} /\ unused = Sboms
    /\ submit = [s \in Sboms |-> <<>>]
    /\ hints = [n \in Consumers |-> {}]
    /\ exec = [w \in Workers |-> Idle]
    /\ faults = 0 /\ ops = 0

-----------------------------------------------------------------------------
(***************************************************************************)
(* Submission                                                              *)
(***************************************************************************)

(* What a hint names: both publishers format the SBOM's id. *)
HintID(s) == SbomID(s)

(* Every worker type has its own consumer; the publish is best effort. *)
PublishHint(s) ==
    \/ UNCHANGED hints
    \/ hints' = [n \in DOMAIN hints |-> hints[n] \cup {HintID(s)}]

(* A container SBOM without its version, architecture or build date is a 422. *)
validateContainerRequired(meta) == meta.version /\ meta.arch /\ meta.date

(* SBOM ingest: the row, then the event. *)
Ingest(s) ==
    /\ validateContainerRequired(CallerMeta[s])
    /\ s \in unused /\ unused' = unused \ {s}
    /\ stored' = stored \cup {s}
    /\ version' = IF CallerMeta[s].version THEN version \cup {s} ELSE version
    /\ submit' = [submit EXCEPT ![s] = rootEnrichers]
    /\ UNCHANGED <<jobs, result, sufficient, hints, exec, missed, budget>>

(* One turn of NATSSubmitter.handle's loop; the last one is followed by the hint. *)
EnqueueRoot(s) ==
    /\ submit[s] # <<>> /\ s \in stored
    /\ jobs' = [jobs EXCEPT ![<<s, Head(submit[s])>>] = InsertEnrichmentJob(@)]
    /\ submit' = [submit EXCEPT ![s] = Tail(@)]
    /\ IF Len(submit[s]) = 1 THEN PublishHint(s) ELSE UNCHANGED hints
    /\ UNCHANGED <<unused, result, version, sufficient, stored, exec, missed, budget>>

(* An enqueue error, or the API process ending, drops the rest of the loop. *)
SubmitStops(s) ==
    /\ submit[s] # <<>>
    /\ \/ SpendFault
       \/ s \notin stored /\ UNCHANGED faults
    /\ submit' = [submit EXCEPT ![s] = <<>>]
    /\ missed' = missed \cup {s}
    /\ UNCHANGED <<unused, tables, hints, exec, ops>>

-----------------------------------------------------------------------------
(***************************************************************************)
(* Claims                                                                  *)
(***************************************************************************)
Claim(w, k) ==
    /\ jobs' = [jobs EXCEPT ![k] = ClaimEnrichmentJob(@)]
    /\ exec' = [exec EXCEPT ![w] = Run(k)]

(* processByID, then drainPoll: a hint that names no queued job only wakes. *)
ProcessHint(w, id) ==
    LET named == {k \in Keys : JobID(k[1], k[2]) = id /\ jobs[k].state = "queued"}
    IN  /\ ~Busy(w) /\ id \in hints[EnricherOf[w]]
        /\ hints' = [hints EXCEPT ![EnricherOf[w]] = @ \ {id}]
        /\ \/ \E k \in named : Claim(w, k)
           \/ named = {} /\ UNCHANGED <<jobs, exec>>
        /\ UNCHANGED <<unused, result, version, sufficient, stored, submit, missed, budget>>

(* ClaimNext is scoped to the worker's partition. *)
ClaimNext(w) ==
    /\ ~Busy(w)
    /\ \E k \in Keys : k[2] = EnricherOf[w] /\ jobs[k].state = "queued" /\ Claim(w, k)
    /\ UNCHANGED <<unused, result, version, sufficient, stored, submit, hints, missed, budget>>

(* RunOnce reads the SBOM and runs the dispatcher without a job. *)
RunOnce(w, s) ==
    /\ ~Busy(w) /\ s \in stored /\ SpendOp
    /\ exec' = [exec EXCEPT ![w] = [Run(<<s, EnricherOf[w]>>) EXCEPT !.once = TRUE]]
    /\ UNCHANGED <<unused, tables, submit, hints, missed, faults>>

-----------------------------------------------------------------------------
(***************************************************************************)
(* The processor                                                           *)
(***************************************************************************)
CanEnrich(w) ==
    \/ EnricherOf[w] # "user"
    \/ exec[w].seen
    \/ ~exec[w].once /\ (CallerMeta[SbomOf(w)].arch \/ CallerMeta[SbomOf(w)].date)

(***************************************************************************)
(* The user enricher repeats what its reference carries; RunOnce passes    *)
(* no architecture.  The image's metadata may lack what only the parent    *)
(* index, read on a best-effort basis, declares.                           *)
(***************************************************************************)
Results(w) ==
    LET s == SbomOf(w)
    IN  CASE EnricherOf[w] = "user" ->
               {[arch |-> CallerMeta[s].arch /\ ~exec[w].once, version |-> exec[w].seen]}
          [] EnricherOf[w] = "oci-metadata" -> ImageMeta[s]
          [] OTHER -> {NoMeta}

(* Mutant: an enricher that fails ends the job without a result. *)
SkipFailedResult(w) ==
    /\ At(w, "enrich")
    /\ \/ \E d \in Results(w) :
            exec' = [exec EXCEPT ![w].pc = "store", ![w].outcome = "success", ![w].data = d]
       \/ Processed(w)
    /\ UNCHANGED <<unused, tables, submit, hints, missed, budget>>

(* CanEnrich, then Enrich: an error becomes an error result. *)
Enrich(w) ==
    /\ At(w, "enrich")
    /\ \/ ~CanEnrich(w) /\ Processed(w)
       \/ /\ CanEnrich(w)
          /\ \/ \E d \in Results(w) :
                  exec' = [exec EXCEPT ![w].pc = "store", ![w].outcome = "success",
                                       ![w].data = d]
             \/ EnricherOf[w] # "user" /\ Go(w, "store")
    /\ UNCHANGED <<unused, tables, submit, hints, missed, budget>>

AfterStore(w) ==
    IF exec[w].outcome = "error" THEN Processed(w)
    ELSE CASE EnricherOf[w] = "oci-metadata" -> Go(w, "version")
           [] EnricherOf[w] = "user" -> Go(w, "sufficient")
           [] OTHER -> Processed(w)

(* A deleted SBOM fails the foreign key; a store error fails the job. *)
StoreResult(w) ==
    /\ At(w, "store")
    /\ \/ /\ ContextAlive(w) /\ SbomOf(w) \in stored
          /\ result' = [result EXCEPT ![<<SbomOf(w), EnricherOf[w]>>] =
                                         UpsertEnrichment(@, exec[w].outcome)]
          /\ missed' = IF exec[w].once THEN missed \cup {SbomOf(w)} ELSE missed
          /\ AfterStore(w) /\ UNCHANGED faults
       \/ /\ ~ContextAlive(w) \/ SbomOf(w) \notin stored
          /\ Err(w) /\ UNCHANGED <<result, missed, faults>>
       \/ SpendFault /\ Err(w) /\ UNCHANGED <<result, missed>>
    /\ UNCHANGED <<unused, jobs, version, sufficient, stored, submit, hints, ops>>

(* Errors of both updates are logged and ignored. *)
ApplyOCIVersion(w) ==
    /\ At(w, "version")
    /\ \/ /\ version' = IF exec[w].data.version /\ ContextAlive(w)
                        THEN version \cup ({SbomOf(w)} \cap stored) ELSE version
          /\ UNCHANGED faults
       \/ SpendFault /\ UNCHANGED version
    /\ Go(w, "sufficient")
    /\ UNCHANGED <<unused, jobs, result, sufficient, stored, submit, hints, missed, ops>>

(* A container's artifact type requires both fields. *)
Enough(d) == d.version /\ d.arch

ApplyEnrichmentSufficiency(w) ==
    /\ At(w, "sufficient")
    /\ \/ /\ ContextAlive(w) /\ UNCHANGED faults
          /\ sufficient' = IF Enough(exec[w].data)
                           THEN sufficient \cup ({SbomOf(w)} \cap stored)
                           ELSE sufficient \ {SbomOf(w)}
       \/ ~ContextAlive(w) /\ UNCHANGED <<sufficient, faults>>
       \/ SpendFault /\ UNCHANGED sufficient
    /\ Processed(w)
    /\ UNCHANGED <<unused, jobs, result, version, stored, submit, hints, missed, ops>>

Finish(w) ==
    /\ At(w, "finish")
    /\ \/ /\ ContextAlive(w)
          /\ jobs' = [jobs EXCEPT ![exec[w].key] = FinishEnrichmentJobByID(@)]
          /\ Go(w, "dependents") /\ UNCHANGED faults
       \/ ~ContextAlive(w) /\ Go(w, "fail") /\ UNCHANGED <<jobs, faults>>
       \/ SpendFault /\ Go(w, "fail") /\ UNCHANGED jobs
    /\ UNCHANGED <<unused, result, version, sufficient, stored, submit, hints, missed, ops>>

(* Mutant: only a first attempt chains. *)
ReadyIfFirstRun(w) ==
    {d \in Dependents(EnricherOf[w]) :
        /\ jobs[exec[w].key].attempts = 1
        /\ \A p \in Prerequisites(d) : result[<<SbomOf(w), p>>] = "success"}

ReadyDependents(w) ==
    {d \in Dependents(EnricherOf[w]) :
        \A p \in Prerequisites(d) : result[<<SbomOf(w), p>>] = "success"}

(* A failed read, insert or context skips the dependent for good. *)
EnqueueDependents(w) ==
    LET s == SbomOf(w)
    IN  /\ At(w, "dependents")
        /\ \/ /\ ContextAlive(w) /\ s \in stored
              /\ jobs' = [k \in Keys |-> IF k[1] = s /\ k[2] \in ReadyDependents(w)
                                         THEN InsertEnrichmentJob(jobs[k]) ELSE jobs[k]]
              /\ IF ReadyDependents(w) = {} THEN UNCHANGED hints ELSE PublishHint(s)
              /\ UNCHANGED <<missed, faults>>
           \/ /\ \/ ~ContextAlive(w) /\ UNCHANGED faults
                 \/ s \notin stored /\ UNCHANGED faults
                 \/ SpendFault
              /\ missed' = missed \cup {s}
              /\ UNCHANGED <<jobs, hints>>
        /\ Stop(w)
        /\ UNCHANGED <<unused, result, version, sufficient, stored, submit, ops>>

(* Nobody will run the job again: what this goroutine does not do is lost. *)
Settled(w) == ~exec[w].once /\ jobs[exec[w].key].state = "succeeded"

(* FailOrRequeue runs under a background context, however late. *)
Fail(w) ==
    /\ At(w, "fail")
    /\ \/ /\ jobs' = [jobs EXCEPT ![exec[w].key] =
                                     FailOrRequeueEnrichmentJobByID(@, MaxAttempts)]
          /\ UNCHANGED faults
       \/ SpendFault /\ UNCHANGED jobs
    /\ Stop(w)
    /\ missed' = IF Settled(w) THEN missed \cup {SbomOf(w)} ELSE missed
    /\ UNCHANGED <<unused, result, version, sufficient, stored, submit, hints, ops>>

-----------------------------------------------------------------------------
(***************************************************************************)
(* Time, sweeps, crashes and operators                                     *)
(***************************************************************************)
Aged(r) ==
    IF r.state = "running" /\ r.age <= StuckThreshold THEN [r EXCEPT !.age = @ + 1] ELSE r

Tick ==
    /\ \A w \in Workers : Busy(w) => exec[w].elapsed < MaxRun
    /\ \E k \in Keys : Aged(jobs[k]) # jobs[k]
    /\ jobs' = [k \in Keys |-> Aged(jobs[k])]
    /\ exec' = [w \in Workers |-> IF Busy(w) THEN [exec[w] EXCEPT !.elapsed = @ + 1]
                                  ELSE exec[w]]
    /\ UNCHANGED <<unused, result, version, sufficient, stored, submit, hints, missed, budget>>

(* Every worker sweeps the whole table, whatever the enricher. *)
StuckSweep ==
    LET swept == [k \in Keys |->
                    RequeueStuckEnrichmentJobs(jobs[k], StuckThreshold, MaxAttempts)]
    IN  /\ swept # jobs
        /\ jobs' = swept
        /\ UNCHANGED <<unused, result, version, sufficient, stored, submit, hints, exec,
                       missed, budget>>

(* The process dies and restarts without the job and without its hints. *)
Crash(w) ==
    /\ Busy(w) /\ SpendFault /\ Stop(w)
    /\ missed' = IF Settled(w) THEN missed \cup {SbomOf(w)} ELSE missed
    /\ UNCHANGED <<unused, tables, submit, hints, ops>>

Retry(k) ==
    /\ jobs[k].state = "failed" /\ SpendOp
    /\ jobs' = [jobs EXCEPT ![k] = RetryEnrichmentJob(@)]
    /\ UNCHANGED <<unused, result, version, sufficient, stored, submit, hints, exec,
                   missed, faults>>

RetryAllFailed(n) ==
    /\ \E s \in Sboms : jobs[<<s, n>>].state = "failed"
    /\ SpendOp
    /\ jobs' = [k \in Keys |-> IF k[2] = n THEN RetryEnrichmentJob(jobs[k]) ELSE jobs[k]]
    /\ UNCHANGED <<unused, result, version, sufficient, stored, submit, hints, exec,
                   missed, faults>>

(* Deleting an SBOM cascades to its jobs and enrichments; external. *)
DeleteSbom(s) ==
    /\ s \in stored /\ SpendOp
    /\ jobs' = [k \in Keys |-> IF k[1] = s THEN NoRow ELSE jobs[k]]
    /\ result' = [k \in Keys |-> IF k[1] = s THEN "none" ELSE result[k]]
    /\ stored' = stored \ {s} /\ version' = version \ {s} /\ sufficient' = sufficient \ {s}
    /\ UNCHANGED <<unused, submit, hints, exec, missed, faults>>

Work(w) ==
    \/ ClaimNext(w) \/ \E id \in hints[EnricherOf[w]] : ProcessHint(w, id)
    \/ Enrich(w) \/ StoreResult(w) \/ ApplyOCIVersion(w) \/ ApplyEnrichmentSufficiency(w)
    \/ Finish(w) \/ EnqueueDependents(w) \/ Fail(w)

Next ==
    \/ \E s \in Sboms : Ingest(s) \/ EnqueueRoot(s) \/ SubmitStops(s) \/ DeleteSbom(s)
    \/ \E w \in Workers : Work(w) \/ Crash(w) \/ \E s \in Sboms : RunOnce(w, s)
    \/ \E k \in Keys : Retry(k)
    \/ \E n \in Names : RetryAllFailed(n)
    \/ Tick \/ StuckSweep

Spec == Init /\ [][Next]_vars

(***************************************************************************)
(* The poll ticker and Go's scheduler give every worker its turn, the      *)
(* sweep ticker runs in every worker process, and time passes.             *)
(***************************************************************************)
FairSpec ==
    /\ Spec
    /\ WF_vars(Tick) /\ WF_vars(StuckSweep)
    /\ \A s \in Sboms : WF_vars(EnqueueRoot(s))
    /\ \A w \in Workers : WF_vars(Work(w))

-----------------------------------------------------------------------------
(***************************************************************************)
(* Properties                                                              *)
(***************************************************************************)

(* A queued row has an attempt left, whatever late workers, sweeps and     *)
(* retries did to it.                                                      *)
EnrichBudget ==
    \A k \in Keys :
        /\ jobs[k].attempts <= MaxAttempts
        /\ jobs[k].state = "queued" => jobs[k].attempts < MaxAttempts

(* A dependent is enqueued only over a good prerequisite result, and no    *)
(* later run takes that result away (UpsertEnrichment keeps good data).    *)
DependentHasPrerequisites ==
    \A s \in Sboms, n \in Names :
        jobs[<<s, n>>].state # "absent" => \A p \in Prerequisites(n) : result[<<s, p>>] = "success"

(* A job that succeeded left a result, also when two workers ran it, and   *)
(* also of the user enricher, which skips an SBOM it has no metadata of.   *)
SuccessHasResult ==
    \A s \in Sboms, n \in Names :
        jobs[<<s, n>>].state = "succeeded" => result[<<s, n>>] # "none"

(* A settled prerequisite with a good result has its dependents enqueued,  *)
(* unless a fault, a deadline, a delete or a --once run, which does not    *)
(* chain, cut it (missed).  Retries and second executions of the           *)
(* prerequisite do not lose the dependent.                                 *)
DependentsEnqueued ==
    \A s \in stored \ missed, n \in Names : \A d \in Dependents(n) :
        /\ jobs[<<s, n>>].state = "succeeded" /\ result[<<s, n>>] = "success"
        /\ \A w \in Workers : exec[w].key # <<s, n>>
        => jobs[<<s, d>>].state # "absent"

(* Every enqueued job of a partition that has a worker ends, or its SBOM   *)
(* is deleted: crashes, deadlines and late workers only cost attempts.     *)
EnrichmentSettles ==
    \A s \in Sboms : \A w \in Workers :
        jobs[<<s, EnricherOf[w]>>].state \in {"queued", "running"}
            ~> jobs[<<s, EnricherOf[w]>>].state \in {"succeeded", "failed", "absent"}

(* docs/DEVELOPMENT.md: an SBOM is marked as fully enriched when both      *)
(* imageVersion and architecture are present.  Once its root jobs have     *)
(* settled without a fault, a stored result that has both, the user's or   *)
(* the image's, leaves the mark set.                                       *)
SufficientWhenComplete ==
    \A s \in stored :
        /\ faults = 0 /\ ops = 0 /\ submit[s] = <<>>
        /\ \A w \in Workers : ~Busy(w)
        /\ \A n \in {"user", "oci-metadata"} : jobs[<<s, n>>].state = "succeeded"
        /\ \/ result[<<s, "user">>] = "success" /\ Enough(CallerMeta[s])
           \/ result[<<s, "oci-metadata">>] = "success" /\ \A d \in ImageMeta[s] : Enough(d)
        => s \in sufficient
=============================================================================
