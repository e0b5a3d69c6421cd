----------------------------- MODULE ScanQueue ------------------------------
(***************************************************************************)
(* The scan pipeline from submission to stored SBOM.  Catalog walks and    *)
(* registry webhooks upsert scan_jobs rows and publish hints; the worker   *)
(* goroutines of every scanner-worker pod claim rows, scan, ingest and     *)
(* finish or fail them; stuck sweeps recover rows whose worker is gone;    *)
(* operators retry, cancel and delete.  Every database statement is one    *)
(* step, and the steps of all actors interleave.                           *)
(*                                                                         *)
(* Time is a tick that ages every active row and every running job.  Ages  *)
(* saturate one past the largest threshold they are compared with, so the  *)
(* clock itself needs no bound.                                            *)
(***************************************************************************)
EXTENDS ScanJobs, Sequences, FiniteSets

CONSTANTS
    Sources, Digests,
    Catalog,        \* the <<source, digest>> pairs some walk or webhook submits
    NoSource,       \* no SBOM is stored for a digest
    Workers,        \* the goroutines of all pods (Config.MaxConc per pod)
    PodOf,          \* the pod each goroutine runs in
    MaxAttempts,    \* Config.MaxAttempts
    JobTimeout,     \* Config.JobTimeout: when a job's context expires
    MaxRun,         \* longest a live goroutine keeps a job, its clean-up included
    StuckThreshold, \* Config.StuckThreshold
    StaleRequeuedAfter,
    HintCap,        \* capacity of the hints channel
    AnswerLost,     \* may a committed statement still return an error?
    MaxFaults,      \* bound: crashes, shutdowns and failed digest listings
    MaxOps          \* bound: webhooks, forced walks and operator requests

ASSUME ScanQueueAssumption ==
    /\ Catalog \subseteq Sources \X Digests
    /\ NoSource \notin Sources
    /\ PodOf \in [Workers -> Pods]
    /\ MaxAttempts \in Nat \ {0}
    /\ JobTimeout \in Nat \ {0}
    /\ MaxRun \in Nat /\ JobTimeout <= MaxRun
    /\ StuckThreshold \in Nat
    /\ StaleRequeuedAfter \in Nat /\ StuckThreshold <= StaleRequeuedAfter
    /\ HintCap \in Nat
    /\ AnswerLost \in BOOLEAN
    /\ MaxFaults \in Nat /\ MaxOps \in Nat

VARIABLES
    jobs,       \* scan_jobs, by idempotency key
    created,    \* the keys that have a row, oldest created_at first
    hints,      \* per pod, the buffered hints channel
    exec,       \* per goroutine, the job it runs and how far it got
    pod,        \* per pod: down, starting, up or stopping
    sweep,      \* per pod, "stale" between the sweep's two statements
    walk,       \* per source, the catalog walk in progress
    sbom,       \* per digest, the source its SBOM is attributed to
    announced,  \* digests whose stored SBOM has its enrichment jobs
    erase,      \* the delete transaction in progress
    faults, ops

queueVars == <<jobs, created, hints>>
poolVars  == <<exec, pod, sweep>>
storeVars == <<sbom, announced, erase>>
budget    == <<faults, ops>>
vars == <<queueVars, poolVars, walk, storeVars, budget>>

-----------------------------------------------------------------------------
ScanJobKey(source, digest) == <<source, digest>>

MaxAge == StaleRequeuedAfter + 1

(* What an idle goroutine runs, and what a hint to a deleted row names. *)
NoJob == <<>>

(***************************************************************************)
(* Where a goroutine is in Worker.run and the processor it calls.          *)
(*   scan     pulling and cataloguing the image                            *)
(*   insert   the digest was not stored; the SBOM transaction is next      *)
(*   publish  the SBOM is committed; SBOMIngested is next                  *)
(*   finish   ProcessOne returned an SBOM id; FinishByID is next           *)
(*   fail     an error; FailOrRequeue with MaxAttempts is next             *)
(*   failNow  a permanent error; FailOrRequeue with failNow is next        *)
(* live is FALSE once the SBOM whose id the goroutine holds was deleted,   *)
(* row once the scan_jobs row whose id it holds was.                       *)
(***************************************************************************)
Steps == {"scan", "insert", "publish", "finish", "fail", "failNow"}

Idle == [pc |-> "idle", job |-> NoJob, elapsed |-> 0, live |-> TRUE, row |-> TRUE]

Run(j) == [pc |-> "scan", job |-> j, elapsed |-> 0, live |-> TRUE, row |-> TRUE]

Execution == [pc : Steps, job : Catalog, elapsed : 0 .. MaxRun,
              live : BOOLEAN, row : BOOLEAN]

(***************************************************************************)
(* A delete transaction runs two statements under READ COMMITTED: it       *)
(* tombstones rows, which stay locked until it ends, then deletes SBOMs.   *)
(* The model has one such transaction at a time.                           *)
(***************************************************************************)
NoErase == [digests |-> {}, rows |-> {}]

Locked(j) == j \in erase.rows

NoWalk == [active |-> FALSE, force |-> FALSE, skip |-> {}]

Busy(w) == exec[w].pc # "idle"

DigestOf(w) == exec[w].job[2]

(* The job's context: expired by JobTimeout or cancelled by Stop. *)
ContextAlive(w) == exec[w].elapsed < JobTimeout /\ pod[PodOf[w]] = "up"

SpendFault == faults < MaxFaults /\ faults' = faults + 1
SpendOp == ops < MaxOps /\ ops' = ops + 1

Init ==
    /\ jobs = [j \in Catalog |-> AbsentJob]
    /\ created = <<>>
    /\ hints = [p \in Pods |-> <<>>]
    /\ exec = [w \in Workers |-> Idle]
    /\ pod = [p \in Pods |-> "up"]
    /\ sweep = [p \in Pods |-> "none"]
    /\ walk = [s \in Sources |-> NoWalk]
    /\ sbom = [d \in Digests |-> NoSource]
    /\ announced = {}
    /\ erase = NoErase
    /\ faults = 0 /\ ops = 0

-----------------------------------------------------------------------------
(***************************************************************************)
(* Submission                                                              *)
(***************************************************************************)

(* A row keeps its created_at for life, so an upsert never moves it. *)
CreatedWith(j) == IF jobs[j].state = "absent" THEN Append(created, j) ELSE created

(***************************************************************************)
(* A hint reaches one live pod whose channel has room, or nobody: the      *)
(* publish failed, the pod holding it went away, or the buffer was full.   *)
(***************************************************************************)
PublishHint(j) ==
    \/ UNCHANGED hints
    \/ \E p \in Pods :
          /\ pod[p] = "up" /\ Len(hints[p]) < HintCap
          /\ hints' = [hints EXCEPT ![p] = Append(@, j)]

(* The upsert waits for the lock of a row it conflicts with. *)
Submit(j, force) ==
    /\ ~Locked(j)
    /\ jobs' = [jobs EXCEPT ![j] = InsertScanJob(@, force)]
    /\ created' = CreatedWith(j)
    /\ IF jobs'[j].state = "pruned" THEN UNCHANGED hints ELSE PublishHint(j)

(* A push webhook submits its digest whether or not it is already stored. *)
RegistryWebhook(j) ==
    /\ SpendOp
    /\ Submit(j, FALSE)
    /\ UNCHANGED <<poolVars, walk, storeVars, faults>>

KnownDigests(s) == {d \in Digests : sbom[d] = s}

(***************************************************************************)
(* A walk reads the known digests once, before its first submission; a     *)
(* failed read is treated as "none known".  A source has one walk at a     *)
(* time here: what a second plain walk submits beside it, RegistryWebhook  *)
(* submits too.                                                            *)
(***************************************************************************)
StartWalk(s) ==
    /\ ~walk[s].active
    /\ \/ /\ walk' = [walk EXCEPT ![s] = [active |-> TRUE, force |-> FALSE,
                                          skip |-> KnownDigests(s)]]
          /\ UNCHANGED budget
       \/ /\ SpendFault
          /\ walk' = [walk EXCEPT ![s] = [active |-> TRUE, force |-> FALSE, skip |-> {}]]
          /\ UNCHANGED ops
    /\ UNCHANGED <<queueVars, poolVars, storeVars>>

StartForcedWalk(s) ==
    /\ ~walk[s].active
    /\ SpendOp
    /\ walk' = [walk EXCEPT ![s] = [active |-> TRUE, force |-> TRUE, skip |-> {}]]
    /\ UNCHANGED <<queueVars, poolVars, storeVars, faults>>

WalkSubmit(s, d) ==
    LET j == ScanJobKey(s, d) IN
    /\ walk[s].active /\ j \in Catalog /\ d \notin walk[s].skip
    /\ Submit(j, walk[s].force)
    /\ walk' = [walk EXCEPT ![s].skip = @ \cup {d}]
    /\ UNCHANGED <<poolVars, storeVars, budget>>

(* The walk ends, is cut short, or could not resolve what was left. *)
EndWalk(s) ==
    /\ walk[s].active
    /\ walk' = [walk EXCEPT ![s] = NoWalk]
    /\ UNCHANGED <<queueVars, poolVars, storeVars, budget>>

-----------------------------------------------------------------------------
(***************************************************************************)
(* The worker pool                                                         *)
(***************************************************************************)

(***************************************************************************)
(* The claim commits before the registry credential is decrypted: when     *)
(* that fails the row is running and nobody runs it.                       *)
(***************************************************************************)
Claim(w, j) ==
    /\ jobs' = [jobs EXCEPT ![j] = Claimed(@, PodOf[w])]
    /\ \/ exec' = [exec EXCEPT ![w] = Run(j)]
       \/ UNCHANGED exec

(* A select with both a hint and ctx.Done() ready may still take the hint. *)
ProcessByID(w) ==
    LET p == PodOf[w] IN
    /\ pod[p] \in {"up", "stopping"} /\ ~Busy(w) /\ hints[p] # <<>>
    /\ hints' = [hints EXCEPT ![p] = Tail(@)]
    /\ LET j == Head(hints[p]) IN
       IF j # NoJob /\ jobs[j].state = "queued"
       THEN Claim(w, j) ELSE UNCHANGED <<jobs, exec>>
    /\ UNCHANGED <<created, pod, sweep, walk, storeVars, budget>>

(* Mutant: the claim does not test that the row is queued. *)
OldestActive(j) ==
    \E i \in DOMAIN created :
        /\ created[i] = j /\ Active(jobs[j])
        /\ \A k \in 1 .. (i - 1) : ~Active(jobs[created[k]])

OldestQueued(j) ==
    \E i \in DOMAIN created :
        /\ created[i] = j /\ jobs[j].state = "queued"
        /\ \A k \in 1 .. (i - 1) : jobs[created[k]].state # "queued"

ClaimNext(w) ==
    /\ pod[PodOf[w]] = "up" /\ ~Busy(w)
    /\ \E j \in Catalog : OldestQueued(j) /\ Claim(w, j)
    /\ UNCHANGED <<created, hints, pod, sweep, walk, storeVars, budget>>

Goto(w, pc) == exec' = [exec EXCEPT ![w].pc = pc]

(***************************************************************************)
(* The scan and ingest's duplicate check: an SBOM already stored for the   *)
(* digest, under any source, ends ProcessOne with its id and no event.  A  *)
(* failed lookup counts as "not stored".                                   *)
(***************************************************************************)
ScanDone(w) ==
    /\ exec[w].pc = "scan" /\ ContextAlive(w)
    /\ \/ sbom[DigestOf(w)] # NoSource /\ Goto(w, "finish")
       \/ Goto(w, "insert")
    /\ UNCHANGED <<queueVars, pod, sweep, walk, storeVars, budget>>

(* Mutant: a scan that does not heed its cancelled context. *)
ScanIgnoresCancel(w) ==
    /\ exec[w].pc \in {"scan", "insert"} /\ ContextAlive(w)
    /\ \E pc \in {"fail", "failNow"} : Goto(w, pc)
    /\ UNCHANGED <<queueVars, pod, sweep, walk, storeVars, budget>>

(* Any error of ProcessOne before the insert; an expired context is one. *)
ScanError(w) ==
    /\ exec[w].pc \in {"scan", "insert"}
    /\ \E pc \in {"fail"} \cup (IF ContextAlive(w) THEN {"failNow"} ELSE {}) : Goto(w, pc)
    /\ UNCHANGED <<queueVars, pod, sweep, walk, storeVars, budget>>

(* Where a goroutine goes after a commit whose answer may have been lost. *)
AfterCommit(pc) == {pc} \cup (IF AnswerLost THEN {"fail"} ELSE {})

(* The UNIQUE index on sbom.digest rejects the second of two inserts. *)
InsertSBOM(w) ==
    LET d == DigestOf(w) IN
    /\ exec[w].pc = "insert" /\ ContextAlive(w)
    /\ IF sbom[d] # NoSource
       THEN Goto(w, "fail") /\ UNCHANGED sbom
       ELSE /\ \E pc \in AfterCommit("publish") : Goto(w, pc)
            /\ sbom' = [sbom EXCEPT ![d] = exec[w].job[1]]
    /\ UNCHANGED <<queueVars, pod, sweep, walk, announced, erase, budget>>

(***************************************************************************)
(* SBOMIngested runs its handlers in this goroutine with the job's         *)
(* context; a handler's error is logged and dropped.                       *)
(***************************************************************************)
PublishSBOMIngested(w) ==
    /\ exec[w].pc = "publish"
    /\ \/ /\ ContextAlive(w) /\ exec[w].live
          /\ announced' = announced \cup {DigestOf(w)}
       \/ UNCHANGED announced
    /\ Goto(w, "finish")
    /\ UNCHANGED <<queueVars, pod, sweep, walk, sbom, erase, budget>>

(* A statement on the goroutine's own row id; with no such row, no change. *)
Write(w, r) == jobs' = IF exec[w].row THEN [jobs EXCEPT ![exec[w].job] = r] ELSE jobs

(***************************************************************************)
(* FinishByID under the job's context.  The foreign key refuses the id of  *)
(* an SBOM deleted since; that and an expired context are plain errors.    *)
(***************************************************************************)
Finish(w) ==
    /\ exec[w].pc = "finish"
    /\ \/ /\ ContextAlive(w) /\ exec[w].live /\ ~Locked(exec[w].job)
          /\ Write(w, FinishScanJobByID(jobs[exec[w].job]))
          /\ \/ exec' = [exec EXCEPT ![w] = Idle]
             \/ AnswerLost /\ Goto(w, "fail")
       \/ /\ Goto(w, "fail")
          /\ UNCHANGED jobs
    /\ UNCHANGED <<created, hints, pod, sweep, walk, storeVars, budget>>

failNow == 0

(***************************************************************************)
(* Called with a background context: it runs after the deadline and after  *)
(* Stop.  If the statement itself fails the row is left as it is.          *)
(***************************************************************************)
FailOrRequeue(w) ==
    /\ exec[w].pc \in {"fail", "failNow"}
    /\ \/ LET max == IF exec[w].pc = "failNow" THEN failNow ELSE MaxAttempts IN
          Write(w, FailOrRequeueScanJobByID(jobs[exec[w].job], max))
       \/ UNCHANGED jobs
    /\ exec' = [exec EXCEPT ![w] = Idle]
    /\ UNCHANGED <<created, hints, pod, sweep, walk, storeVars, budget>>

-----------------------------------------------------------------------------
(***************************************************************************)
(* Sweeps, process lifecycle and time                                      *)
(***************************************************************************)

(* First statement of jobService.RequeueStuckRunning. *)
SweepStuck(p) ==
    /\ pod[p] \in {"starting", "up"} /\ sweep[p] = "none"
    /\ jobs' = [j \in Catalog |-> RequeueStuckRunning(jobs[j], StuckThreshold, MaxAttempts)]
    /\ sweep' = [sweep EXCEPT ![p] = "stale"]
    /\ UNCHANGED <<created, hints, exec, pod, walk, storeVars, budget>>

(* The workers are launched once the startup sweep has returned. *)
Launched(p) == IF pod[p] = "starting" THEN [pod EXCEPT ![p] = "up"] ELSE pod

(* Second statement; the sweep returns. *)
SweepStale(p) ==
    /\ sweep[p] = "stale"
    /\ jobs' = [j \in Catalog |-> FailStaleRequeuedScanJobs(jobs[j], StaleRequeuedAfter)]
    /\ sweep' = [sweep EXCEPT ![p] = "none"]
    /\ pod' = Launched(p)
    /\ UNCHANGED <<created, hints, exec, walk, storeVars, budget>>

(* Either statement fails: the sweep is abandoned with a warning. *)
SweepError(p) ==
    /\ pod[p] = "starting" \/ sweep[p] = "stale"
    /\ SpendFault
    /\ sweep' = [sweep EXCEPT ![p] = "none"]
    /\ pod' = Launched(p)
    /\ UNCHANGED <<queueVars, exec, walk, storeVars, ops>>

Start(p) ==
    /\ pod[p] = "down"
    /\ pod' = [pod EXCEPT ![p] = "starting"]
    /\ UNCHANGED <<queueVars, exec, sweep, walk, storeVars, budget>>

(* Stop cancels the worker and sweep contexts, then waits for the workers. *)
Stop(p) ==
    /\ pod[p] = "up"
    /\ SpendFault
    /\ pod' = [pod EXCEPT ![p] = "stopping"]
    /\ sweep' = [sweep EXCEPT ![p] = "none"]
    /\ UNCHANGED <<queueVars, exec, walk, storeVars, ops>>

Stopped(p) ==
    /\ pod[p] = "stopping"
    /\ \A w \in Workers : PodOf[w] = p => ~Busy(w)
    /\ pod' = [pod EXCEPT ![p] = "down"]
    /\ hints' = [hints EXCEPT ![p] = <<>>]
    /\ UNCHANGED <<jobs, created, exec, sweep, walk, storeVars, budget>>

(* OOM kill, eviction, SIGKILL: memory is gone, rows stay as they are. *)
Crash(p) ==
    /\ pod[p] # "down"
    /\ SpendFault
    /\ pod' = [pod EXCEPT ![p] = "down"]
    /\ sweep' = [sweep EXCEPT ![p] = "none"]
    /\ hints' = [hints EXCEPT ![p] = <<>>]
    /\ exec' = [w \in Workers |-> IF PodOf[w] = p THEN Idle ELSE exec[w]]
    /\ UNCHANGED <<jobs, created, walk, storeVars, ops>>

Older(r) == IF Active(r) /\ r.attempts > 0 /\ r.age < MaxAge
            THEN [r EXCEPT !.age = r.age + 1] ELSE r

Longer(e) == IF e.pc = "idle" THEN e ELSE [e EXCEPT !.elapsed = e.elapsed + 1]

(* Mutant: a job without a timeout. *)
TickWithoutDeadline ==
    /\ jobs' = [j \in Catalog |-> Older(jobs[j])]
    /\ exec' = [w \in Workers |-> Longer(exec[w])]
    /\ UNCHANGED <<created, hints, pod, sweep, walk, storeVars, budget>>

(* No live goroutine keeps a job longer than MaxRun. *)
Tick ==
    /\ \A w \in Workers : Busy(w) => exec[w].elapsed < MaxRun
    /\ jobs' = [j \in Catalog |-> Older(jobs[j])]
    /\ exec' = [w \in Workers |-> Longer(exec[w])]
    /\ UNCHANGED <<created, hints, pod, sweep, walk, storeVars, budget>>

-----------------------------------------------------------------------------
(***************************************************************************)
(* Operator requests                                                       *)
(***************************************************************************)
Retry(j) ==
    /\ jobs[j].state = "failed" /\ SpendOp
    /\ jobs' = [jobs EXCEPT ![j] = RetryScanJob(@)]
    /\ UNCHANGED <<created, hints, poolVars, walk, storeVars, faults>>

RetryAllFailed ==
    /\ SpendOp
    /\ jobs' = [j \in Catalog |-> RetryScanJob(jobs[j])]
    /\ UNCHANGED <<created, hints, poolVars, walk, storeVars, faults>>

Cancel(j) ==
    /\ jobs[j].state = "queued" /\ SpendOp
    /\ jobs' = [jobs EXCEPT ![j] = CancelQueuedScanJob(@)]
    /\ UNCHANGED <<created, hints, poolVars, walk, storeVars, faults>>

(***************************************************************************)
(* Deleting SBOMs, first statement: the succeeded job of each SBOM's own   *)
(* source and digest becomes a tombstone, visible when the delete commits. *)
(***************************************************************************)
PruneScanJobs(D) ==
    /\ erase = NoErase
    /\ erase' = [digests |-> D,
                 rows |-> {j \in Catalog : /\ j[2] \in D /\ sbom[j[2]] = j[1]
                                           /\ PruneScanJob(jobs[j]) # jobs[j]}]
    /\ UNCHANGED <<queueVars, poolVars, walk, sbom, announced, faults>>

DeleteSBOM(d) == sbom[d] # NoSource /\ SpendOp /\ PruneScanJobs({d})

(* Every digest of the model belongs to one artifact. *)
DeleteArtifact == SpendOp /\ PruneScanJobs(Digests)

(* Mutant: no foreign key from scan_jobs.sbom_id to the deleted SBOM. *)
CommitWithoutForeignKey ==
    /\ erase # NoErase
    /\ jobs' = [j \in Catalog |-> IF Locked(j) THEN PruneScanJob(jobs[j]) ELSE jobs[j]]
    /\ sbom' = [d \in Digests |-> IF d \in erase.digests THEN NoSource ELSE sbom[d]]
    /\ announced' = announced \ erase.digests
    /\ erase' = NoErase
    /\ UNCHANGED <<created, hints, poolVars, walk, budget>>

(* Second statement and commit: the SBOMs go, and their enrichment jobs. *)
CommitDelete ==
    /\ erase # NoErase
    /\ jobs' = [j \in Catalog |-> IF Locked(j) THEN PruneScanJob(jobs[j]) ELSE jobs[j]]
    /\ sbom' = [d \in Digests |-> IF d \in erase.digests THEN NoSource ELSE sbom[d]]
    /\ announced' = announced \ erase.digests
    /\ exec' = [w \in Workers |->
                  IF exec[w].pc \in {"publish", "finish"} /\ DigestOf(w) \in erase.digests
                  THEN [exec[w] EXCEPT !.live = FALSE] ELSE exec[w]]
    /\ erase' = NoErase
    /\ UNCHANGED <<created, hints, pod, sweep, walk, budget>>

(* A statement fails, or the SBOM turns out to be gone. *)
RollbackDelete ==
    /\ erase # NoErase
    /\ erase' = NoErase
    /\ UNCHANGED <<queueVars, poolVars, walk, sbom, announced, budget>>

(* Cluster ingest records an image its host refused as a failed job ... *)
RecordRefused(j) ==
    /\ jobs[j].state = "absent" /\ SpendOp
    /\ jobs' = [jobs EXCEPT ![j] = RecordRefusedScanJob(@)]
    /\ created' = CreatedWith(j)
    /\ UNCHANGED <<hints, poolVars, walk, storeVars, faults>>

(***************************************************************************)
(* ... and an explicit Ingest of the image drops its failed job first.  A  *)
(* later submission is a new row with a new id, so the hints and the late  *)
(* goroutines of the old one can no longer reach it.                       *)
(***************************************************************************)
DropFailed(j) ==
    /\ jobs[j].state = "failed" /\ SpendOp
    /\ jobs' = [jobs EXCEPT ![j] = DeleteFailedScanJobs(@)]
    /\ \E i \in DOMAIN created :
          /\ created[i] = j
          /\ created' = SubSeq(created, 1, i - 1) \o SubSeq(created, i + 1, Len(created))
    /\ hints' = [p \in Pods |-> [i \in 1 .. Len(hints[p]) |->
                    IF hints[p][i] = j THEN NoJob ELSE hints[p][i]]]
    /\ exec' = [w \in Workers |-> IF exec[w].job = j
                                  THEN [exec[w] EXCEPT !.row = FALSE] ELSE exec[w]]
    /\ UNCHANGED <<pod, sweep, walk, storeVars, faults>>

-----------------------------------------------------------------------------
WorkerStep(w) ==
    \/ ProcessByID(w) \/ ClaimNext(w)
    \/ ScanDone(w) \/ ScanError(w) \/ InsertSBOM(w)
    \/ PublishSBOMIngested(w) \/ Finish(w) \/ FailOrRequeue(w)

PodStep(p) ==
    \/ SweepStuck(p) \/ SweepStale(p) \/ SweepError(p)
    \/ Start(p) \/ Stop(p) \/ Stopped(p) \/ Crash(p)

SourceStep(s) ==
    \/ StartWalk(s) \/ StartForcedWalk(s) \/ EndWalk(s)
    \/ \E d \in Digests : WalkSubmit(s, d)

OperatorStep ==
    \/ \E j \in Catalog : \/ RegistryWebhook(j) \/ Retry(j) \/ Cancel(j)
                          \/ RecordRefused(j) \/ DropFailed(j)
    \/ \E d \in Digests : DeleteSBOM(d)
    \/ RetryAllFailed \/ DeleteArtifact \/ CommitDelete \/ RollbackDelete

Next ==
    \/ \E w \in Workers : WorkerStep(w)
    \/ \E p \in Pods : PodStep(p)
    \/ \E s \in Sources : SourceStep(s)
    \/ OperatorStep
    \/ Tick

Spec == Init /\ [][Next]_vars

(***************************************************************************)
(* Go schedules every goroutine, the poll and sweep tickers keep firing    *)
(* and Kubernetes restarts a pod that is down.  Nothing obliges a walk, a  *)
(* webhook, an operator or a fault to happen.                              *)
(***************************************************************************)
Progress(w) ==
    \/ ScanDone(w) \/ ScanError(w) \/ InsertSBOM(w)
    \/ PublishSBOMIngested(w) \/ Finish(w) \/ FailOrRequeue(w)

Fairness ==
    /\ WF_vars(Tick)
    /\ \A w \in Workers : WF_vars(ClaimNext(w)) /\ WF_vars(Progress(w))
    /\ \A p \in Pods : /\ WF_vars(SweepStuck(p)) /\ WF_vars(SweepStale(p))
                        /\ WF_vars(Start(p)) /\ WF_vars(Stopped(p))

FairSpec == Spec /\ Fairness

-----------------------------------------------------------------------------
(***************************************************************************)
(* Properties                                                              *)
(***************************************************************************)

(* Every variable has its type. *)
TypeOK ==
    /\ jobs \in [Catalog -> ScanJob]
    /\ created \in Seq(Catalog)
    /\ hints \in [Pods -> Seq(Catalog \cup {NoJob})]
    /\ exec \in [Workers -> Execution \cup {Idle}]
    /\ pod \in [Pods -> {"down", "starting", "up", "stopping"}]
    /\ sweep \in [Pods -> {"none", "stale"}]
    /\ walk \in [Sources -> [active : BOOLEAN, force : BOOLEAN, skip : SUBSET Digests]]
    /\ sbom \in [Digests -> Sources \cup {NoSource}]
    /\ announced \subseteq Digests
    /\ erase \in [digests : SUBSET Digests, rows : SUBSET Catalog]
    /\ \A j \in erase.rows : j[2] \in erase.digests
    /\ faults \in Nat /\ ops \in Nat

(***************************************************************************)
(* The retry budget (FailOrRequeueScanJobByID, RequeueStuckRunning): no    *)
(* row is claimed more than MaxAttempts times per submission, whatever     *)
(* late workers, sweeps, crashes and operators do in between, because a    *)
(* row that used its budget up is never put back in the queue.             *)
(***************************************************************************)
AttemptBudget ==
    \A j \in Catalog :
        /\ jobs[j].attempts <= MaxAttempts
        /\ jobs[j].state = "queued" => jobs[j].attempts < MaxAttempts
        /\ jobs[j].state = "running" => jobs[j].attempts > 0

(***************************************************************************)
(* The lease (claim queries, runStuckSweep): a goroutine that runs a job   *)
(* holds its row, running and under its own pod's name, and no two         *)
(* goroutines run the same job, so no image is scanned twice at once.      *)
(***************************************************************************)
SingleExecutor ==
    \A w \in Workers : Busy(w) =>
        /\ jobs[exec[w].job].state = "running"
        /\ jobs[exec[w].job].worker = PodOf[w]
        /\ \A v \in Workers : Busy(v) /\ exec[v].job = exec[w].job => v = w

(***************************************************************************)
(* FinishByID takes a job from running to succeeded, never a queued, a     *)
(* cancelled or a tombstoned one.                                          *)
(***************************************************************************)
FinishFromRunning ==
    [][\A j \in Catalog :
          jobs'[j].state = "succeeded" /\ jobs[j].state # "succeeded"
             => jobs[j].state = "running"]_vars

(***************************************************************************)
(* InsertScanJob leaves terminal rows alone: a failed row comes back only  *)
(* on an operator's request and a tombstoned one only in a forced walk.    *)
(***************************************************************************)
OnlyOperatorsRevive ==
    [][\A j \in Catalog :
          /\ jobs[j].state = "failed" /\ jobs'[j].state # "failed"
                => Retry(j) \/ RetryAllFailed \/ DropFailed(j)
          /\ jobs[j].state = "pruned" /\ jobs'[j].state # "pruned" => walk[j[1]].force]_vars

(***************************************************************************)
(* A tombstone is true (PruneScanJobsForSBOM): while a source's job for a  *)
(* digest is pruned, that source has no SBOM of the digest, so no worker   *)
(* brought back what an operator deleted.                                  *)
(***************************************************************************)
PrunedHasNoSBOM ==
    \A j \in Catalog : jobs[j].state = "pruned" => sbom[j[2]] # j[1]

(***************************************************************************)
(* A success has something to show (scanProcessor, FinishByID): whatever   *)
(* is deleted while the worker ends its job, the row becomes succeeded     *)
(* only while an SBOM of its digest is stored.                             *)
(***************************************************************************)
SuccessHasSBOM ==
    [][\A j \in Catalog :
          jobs'[j].state = "succeeded" /\ jobs[j].state # "succeeded"
             => sbom'[j[2]] # NoSource]_vars

(***************************************************************************)
(* The queue keeps its promise: seen through state and attempts alone,     *)
(* every step of workers, sweeps, walks and operators is a move of         *)
(* JobLifecycle.                                                           *)
(***************************************************************************)
Lifecycle == INSTANCE JobLifecycle WITH
    Jobs <- Catalog,
    life <- [j \in Catalog |-> [state |-> jobs[j].state, attempts |-> jobs[j].attempts]]

ImplementsLifecycle == Lifecycle!Spec

(***************************************************************************)
(* Every submitted job is settled: polling, retries, the stuck sweep and   *)
(* the stale sweep take it to a terminal state whatever crashes.           *)
(***************************************************************************)
JobsSettle == \A j \in Catalog : Active(jobs[j]) ~> ~Active(jobs[j])

(* Worker.Stop returns: its jobs give up on the cancelled context. *)
ShutdownCompletes == \A p \in Pods : pod[p] = "stopping" ~> pod[p] = "down"

=============================================================================
