--------------------------- MODULE ScanQueueProofs --------------------------
(***************************************************************************)
(* Proofs about ScanQueue, for every catalogue, every number of pods and   *)
(* goroutines and every value of the limits.                               *)
(***************************************************************************)
EXTENDS ScanQueue, SequenceTheorems, TLAPS

-----------------------------------------------------------------------------
(***************************************************************************)
(* The statements of scan_jobs.sql, row by row                             *)
(***************************************************************************)

(* Every statement leaves a well-formed row. *)
LEMMA RowType ==
    ASSUME NEW r \in ScanJob
    PROVE  /\ AbsentJob \in ScanJob /\ FreshJob \in ScanJob
           /\ \A f \in BOOLEAN : InsertScanJob(r, f) \in ScanJob
           /\ \A p \in Pods : Claimed(r, p) \in ScanJob
           /\ FinishScanJobByID(r) \in ScanJob
           /\ \A m \in Nat : FailOrRequeueScanJobByID(r, m) \in ScanJob
           /\ \A t, m \in Nat : RequeueStuckRunning(r, t, m) \in ScanJob
           /\ \A t \in Nat : FailStaleRequeuedScanJobs(r, t) \in ScanJob
           /\ RetryScanJob(r) \in ScanJob
           /\ CancelQueuedScanJob(r) \in ScanJob
           /\ PruneScanJob(r) \in ScanJob
           /\ RecordRefusedScanJob(r) \in ScanJob
           /\ DeleteFailedScanJobs(r) \in ScanJob
           /\ Older(r) \in ScanJob
<1> USE DEF ScanJob, ScanJobState, AbsentJob, FreshJob
<1>1. AbsentJob \in ScanJob /\ FreshJob \in ScanJob
  OBVIOUS
<1>2. \A f \in BOOLEAN : InsertScanJob(r, f) \in ScanJob
  BY DEF InsertScanJob
<1>3. \A p \in Pods : Claimed(r, p) \in ScanJob
  BY DEF Claimed
<1>4. FinishScanJobByID(r) \in ScanJob
  BY DEF FinishScanJobByID
<1>5. \A m \in Nat : FailOrQueueAgain(r, m) \in ScanJob
  BY DEF FailOrQueueAgain
<1>6. \A m \in Nat : FailOrRequeueScanJobByID(r, m) \in ScanJob
  BY <1>5 DEF FailOrRequeueScanJobByID
<1>7. \A t, m \in Nat : RequeueStuckRunning(r, t, m) \in ScanJob
  BY <1>5 DEF RequeueStuckRunning
<1>8. \A t \in Nat : FailStaleRequeuedScanJobs(r, t) \in ScanJob
  BY DEF FailStaleRequeuedScanJobs
<1>9. RetryScanJob(r) \in ScanJob /\ CancelQueuedScanJob(r) \in ScanJob
  BY DEF RetryScanJob, CancelQueuedScanJob
<1>10. PruneScanJob(r) \in ScanJob /\ RecordRefusedScanJob(r) \in ScanJob
  BY DEF PruneScanJob, RecordRefusedScanJob
<1>11. DeleteFailedScanJobs(r) \in ScanJob /\ Older(r) \in ScanJob
  BY DEF DeleteFailedScanJobs, Older
<1> QED
  BY <1>1, <1>2, <1>3, <1>4, <1>6, <1>7, <1>8, <1>9, <1>10, <1>11

-----------------------------------------------------------------------------
(***************************************************************************)
(* Type correctness                                                        *)
(***************************************************************************)

(* A goroutine that is not idle runs a job of the catalogue. *)
LEMMA BusyType ==
    ASSUME TypeOK, NEW w \in Workers, Busy(w)
    PROVE  /\ exec[w] \in Execution
           /\ exec[w].job \in Catalog
           /\ DigestOf(w) \in Digests /\ exec[w].job[1] \in Sources
BY ScanQueueAssumption DEF TypeOK, Busy, Idle, Execution, DigestOf

(* Moving a goroutine that runs a job to another step keeps exec typed. *)
LEMMA GotoType ==
    ASSUME TypeOK, NEW w \in Workers, Busy(w), NEW pc \in Steps, Goto(w, pc)
    PROVE  exec' \in [Workers -> Execution \cup {Idle}]
BY BusyType, ZenonT(60) DEF TypeOK, Goto, Execution

(* Submit, in any caller, keeps the queue typed. *)
LEMMA SubmitType ==
    ASSUME TypeOK, NEW j \in Catalog, NEW f \in BOOLEAN, Submit(j, f)
    PROVE  /\ jobs' \in [Catalog -> ScanJob]
           /\ created' \in Seq(Catalog)
           /\ hints' \in [Pods -> Seq(Catalog \cup {NoJob})]
<1>1. jobs' \in [Catalog -> ScanJob]
  BY RowType DEF TypeOK, Submit
<1>2. created' \in Seq(Catalog)
  BY AppendProperties DEF TypeOK, Submit, CreatedWith
<1>3. hints' \in [Pods -> Seq(Catalog \cup {NoJob})]
  <2>1. CASE UNCHANGED hints
    BY <2>1 DEF TypeOK
  <2>2. ASSUME NEW p \in Pods, hints' = [hints EXCEPT ![p] = Append(@, j)]
        PROVE  hints' \in [Pods -> Seq(Catalog \cup {NoJob})]
    BY <2>2, AppendProperties DEF TypeOK
  <2> QED
    BY <2>1, <2>2 DEF Submit, PublishHint
<1> QED
  BY <1>1, <1>2, <1>3

(* A claim, with or without a readable credential, keeps its types. *)
LEMMA ClaimType ==
    ASSUME TypeOK, NEW w \in Workers, NEW j \in Catalog, Claim(w, j)
    PROVE  /\ jobs' \in [Catalog -> ScanJob]
           /\ exec' \in [Workers -> Execution \cup {Idle}]
<1>1. jobs' \in [Catalog -> ScanJob]
  BY RowType, ScanQueueAssumption DEF TypeOK, Claim
<1>2. Run(j) \in Execution
  BY ScanQueueAssumption DEF Run, Execution, Steps
<1> QED
  BY <1>1, <1>2, ZenonT(60) DEF TypeOK, Claim

(* No image is NoJob: a key is a pair, NoJob the empty tuple. *)
LEMMA JobIsNoJob == NoJob \notin Catalog
BY ScanQueueAssumption DEF NoJob

(* The empty table, idle pool and empty store are well typed. *)
LEMMA TypeInit == Init => TypeOK
BY RowType, EmptySeq DEF Init, TypeOK, ScanJob, ScanJobState, AbsentJob, NoWalk, NoErase

(* A step of a worker goroutine keeps every type. *)
LEMMA TypeWorker ==
    ASSUME TypeOK, NEW w \in Workers, WorkerStep(w)
    PROVE  TypeOK'
<1> USE DEF storeVars, budget, queueVars
<1>1. CASE ProcessByID(w)
  <2> DEFINE p == PodOf[w]
  <2>1. p \in Pods /\ hints[p] \in Seq(Catalog \cup {NoJob}) /\ hints[p] # <<>>
    BY <1>1, ScanQueueAssumption DEF TypeOK, ProcessByID
  <2>2. /\ Head(hints[p]) \in Catalog \cup {NoJob}
        /\ Tail(hints[p]) \in Seq(Catalog \cup {NoJob})
    BY <2>1, HeadTailProperties
  <2>3. hints' \in [Pods -> Seq(Catalog \cup {NoJob})]
    BY <1>1, <2>1, <2>2 DEF TypeOK, ProcessByID
  <2>4. /\ jobs' \in [Catalog -> ScanJob]
        /\ exec' \in [Workers -> Execution \cup {Idle}]
    BY <1>1, <2>2, ClaimType DEF TypeOK, ProcessByID
  <2> QED
    BY <1>1, <2>3, <2>4 DEF TypeOK, ProcessByID
<1>2. CASE ClaimNext(w)
  <2>1. /\ jobs' \in [Catalog -> ScanJob]
        /\ exec' \in [Workers -> Execution \cup {Idle}]
    BY <1>2, ClaimType DEF ClaimNext
  <2> QED
    BY <1>2, <2>1 DEF TypeOK, ClaimNext
<1>3. CASE ScanDone(w)
  BY <1>3, GotoType DEF TypeOK, ScanDone, Busy, Steps
<1>4. CASE ScanError(w)
  BY <1>4, GotoType DEF TypeOK, ScanError, Busy, Steps
<1>5. CASE InsertSBOM(w)
  <2>1. Busy(w)
    BY <1>5 DEF InsertSBOM, Busy
  <2>2. exec' \in [Workers -> Execution \cup {Idle}]
    BY <1>5, <2>1, GotoType DEF InsertSBOM, AfterCommit, Steps
  <2>3. sbom' \in [Digests -> Sources \cup {NoSource}]
    BY <1>5, <2>1, BusyType DEF TypeOK, InsertSBOM
  <2> QED
    BY <1>5, <2>2, <2>3 DEF TypeOK, InsertSBOM
<1>6. CASE PublishSBOMIngested(w)
  <2>1. Busy(w)
    BY <1>6 DEF PublishSBOMIngested, Busy
  <2> QED
    BY <1>6, <2>1, GotoType, BusyType DEF TypeOK, PublishSBOMIngested, Steps
<1>7. CASE Finish(w)
  <2>1. Busy(w)
    BY <1>7 DEF Finish, Busy
  <2>2. exec' \in [Workers -> Execution \cup {Idle}]
    BY <1>7, <2>1, GotoType DEF TypeOK, Finish, Steps
  <2>3. jobs' \in [Catalog -> ScanJob]
    <3>1. jobs[exec[w].job] \in ScanJob
      BY <2>1, BusyType DEF TypeOK
    <3>2. FinishScanJobByID(jobs[exec[w].job]) \in ScanJob
      BY <3>1, RowType
    <3> QED
      BY <1>7, <2>1, <3>2, BusyType DEF TypeOK, Finish, Write
  <2> QED
    BY <1>7, <2>2, <2>3 DEF TypeOK, Finish
<1>8. CASE FailOrRequeue(w)
  <2>1. Busy(w)
    BY <1>8 DEF FailOrRequeue, Busy
  <2>2. jobs' \in [Catalog -> ScanJob]
    <3>1. jobs[exec[w].job] \in ScanJob
      BY <2>1, BusyType DEF TypeOK
    <3>2. \A m \in Nat : FailOrRequeueScanJobByID(jobs[exec[w].job], m) \in ScanJob
      BY <3>1, RowType
    <3>3. failNow \in Nat /\ MaxAttempts \in Nat
      BY ScanQueueAssumption DEF failNow
    <3> QED
      BY <1>8, <2>1, <3>2, <3>3, BusyType DEF TypeOK, FailOrRequeue, Write
  <2> QED
    BY <1>8, <2>2 DEF TypeOK, FailOrRequeue
<1> QED
  BY <1>1, <1>2, <1>3, <1>4, <1>5, <1>6, <1>7, <1>8 DEF WorkerStep

(* A sweep, a start, a stop and a crash keep every type. *)
LEMMA TypePod ==
    ASSUME TypeOK, NEW p \in Pods, PodStep(p)
    PROVE  TypeOK'
<1> USE DEF storeVars, budget, queueVars
<1>1. CASE SweepStuck(p)
  BY <1>1, RowType, ScanQueueAssumption DEF TypeOK, SweepStuck
<1>2. CASE SweepStale(p)
  BY <1>2, RowType, ScanQueueAssumption DEF TypeOK, SweepStale, Launched
<1>3. CASE SweepError(p)
  BY <1>3 DEF TypeOK, SweepError, Launched, SpendFault
<1>4. CASE Start(p)
  BY <1>4 DEF TypeOK, Start
<1>5. CASE Stop(p)
  BY <1>5 DEF TypeOK, Stop, SpendFault
<1>6. CASE Stopped(p)
  BY <1>6, EmptySeq DEF TypeOK, Stopped
<1>7. CASE Crash(p)
  BY <1>7, EmptySeq DEF TypeOK, Crash, SpendFault
<1> QED
  BY <1>1, <1>2, <1>3, <1>4, <1>5, <1>6, <1>7 DEF PodStep

(* A step of a catalog walk keeps every type. *)
LEMMA TypeSource ==
    ASSUME TypeOK, NEW s \in Sources, SourceStep(s)
    PROVE  TypeOK'
<1> USE DEF storeVars, budget, queueVars, poolVars
<1>1. CASE StartWalk(s)
  <2>1. KnownDigests(s) \in SUBSET Digests /\ {} \in SUBSET Digests
    BY DEF KnownDigests
  <2>2. walk' \in [Sources -> [active : BOOLEAN, force : BOOLEAN, skip : SUBSET Digests]]
    <3>1. PICK K \in SUBSET Digests :
            walk' = [walk EXCEPT ![s] = [active |-> TRUE, force |-> FALSE, skip |-> K]]
      BY <1>1, <2>1 DEF StartWalk
    <3> QED
      BY <3>1 DEF TypeOK
  <2>3. faults' \in Nat /\ ops' \in Nat
    BY <1>1 DEF TypeOK, StartWalk, SpendFault
  <2> QED
    BY <1>1, <2>2, <2>3 DEF TypeOK, StartWalk
<1>2. CASE StartForcedWalk(s)
  BY <1>2 DEF TypeOK, StartForcedWalk, SpendOp
<1>3. CASE EndWalk(s)
  BY <1>3 DEF TypeOK, EndWalk, NoWalk
<1>4. ASSUME NEW d \in Digests, WalkSubmit(s, d)
      PROVE  TypeOK'
  <2>1. ScanJobKey(s, d) \in Catalog /\ walk[s].force \in BOOLEAN
    BY <1>4 DEF WalkSubmit, TypeOK
  <2>2. Submit(ScanJobKey(s, d), walk[s].force)
    BY <1>4 DEF WalkSubmit
  <2>3. walk' \in [Sources -> [active : BOOLEAN, force : BOOLEAN, skip : SUBSET Digests]]
    BY <1>4, ZenonT(60) DEF WalkSubmit, TypeOK
  <2> QED
    BY <1>4, <2>1, <2>2, <2>3, SubmitType DEF TypeOK, WalkSubmit
<1> QED
  BY <1>1, <1>2, <1>3, <1>4 DEF SourceStep

(* Committing a delete keeps the types of the table, the store and the pool. *)
LEMMA TypeCommit ==
    ASSUME TypeOK, CommitDelete
    PROVE  TypeOK'
<1> USE DEF budget
<1>1. jobs' \in [Catalog -> ScanJob]
  BY RowType DEF TypeOK, CommitDelete
<1>2. exec' \in [Workers -> Execution \cup {Idle}]
  <2> SUFFICES ASSUME NEW w \in Workers
               PROVE  (IF exec[w].pc \in {"publish", "finish"} /\ DigestOf(w) \in erase.digests
                       THEN [exec[w] EXCEPT !.live = FALSE] ELSE exec[w])
                      \in Execution \cup {Idle}
    BY DEF CommitDelete
  <2>1. CASE Busy(w)
    BY <2>1, BusyType DEF Execution
  <2>2. CASE ~Busy(w)
    BY <2>2 DEF Busy, TypeOK
  <2> QED
    BY <2>1, <2>2
<1>3. sbom' \in [Digests -> Sources \cup {NoSource}] /\ announced' \subseteq Digests
  BY DEF TypeOK, CommitDelete
<1>4. /\ erase' \in [digests : SUBSET Digests, rows : SUBSET Catalog]
      /\ \A j \in erase'.rows : j[2] \in erase'.digests
  BY DEF CommitDelete, NoErase
<1> QED
  BY <1>1, <1>2, <1>3, <1>4 DEF TypeOK, CommitDelete

(* An operator's request keeps every type. *)
LEMMA TypeOperator ==
    ASSUME TypeOK, OperatorStep
    PROVE  TypeOK'
<1> USE DEF storeVars, budget, queueVars, poolVars, SpendOp
<1>1. ASSUME NEW j \in Catalog, RegistryWebhook(j)
      PROVE  TypeOK'
  <2>1. FALSE \in BOOLEAN /\ Submit(j, FALSE)
    BY <1>1 DEF RegistryWebhook
  <2>2. /\ jobs' \in [Catalog -> ScanJob]
        /\ created' \in Seq(Catalog)
        /\ hints' \in [Pods -> Seq(Catalog \cup {NoJob})]
    BY <2>1, SubmitType, Zenon
  <2> QED
    BY <1>1, <2>2 DEF TypeOK, RegistryWebhook
<1>2. ASSUME NEW j \in Catalog, Retry(j)
      PROVE  TypeOK'
  BY <1>2, RowType DEF TypeOK, Retry
<1>3. ASSUME NEW j \in Catalog, Cancel(j)
      PROVE  TypeOK'
  BY <1>3, RowType DEF TypeOK, Cancel
<1>4. ASSUME NEW j \in Catalog, RecordRefused(j)
      PROVE  TypeOK'
  BY <1>4, RowType, AppendProperties DEF TypeOK, RecordRefused, CreatedWith
<1>5. ASSUME NEW j \in Catalog, DropFailed(j)
      PROVE  TypeOK'
  <2>1. jobs' \in [Catalog -> ScanJob]
    BY <1>5, RowType DEF TypeOK, DropFailed
  <2>2. created' \in Seq(Catalog)
    BY <1>5, ConcatProperties, SubSeqProperties DEF TypeOK, DropFailed
  <2>3. hints' \in [Pods -> Seq(Catalog \cup {NoJob})]
    <3> SUFFICES ASSUME NEW p \in Pods
                 PROVE  [i \in 1 .. Len(hints[p]) |->
                            IF hints[p][i] = j THEN NoJob ELSE hints[p][i]]
                        \in Seq(Catalog \cup {NoJob})
      BY <1>5 DEF DropFailed
    <3> QED
      BY SeqDef, LenProperties, ElementOfSeq DEF TypeOK
  <2>4. exec' \in [Workers -> Execution \cup {Idle}]
    <3> SUFFICES ASSUME NEW w \in Workers
                 PROVE  (IF exec[w].job = j THEN [exec[w] EXCEPT !.row = FALSE] ELSE exec[w])
                        \in Execution \cup {Idle}
      BY <1>5 DEF DropFailed
    <3>1. CASE Busy(w)
      BY <3>1, BusyType DEF Execution
    <3>2. CASE ~Busy(w)
      <4>1. exec[w] = Idle
        BY <3>2 DEF Busy, TypeOK, Execution, Steps
      <4>2. exec[w].job # j
        BY <4>1, JobIsNoJob DEF Idle
      <4> QED
        BY <4>1, <4>2
    <3> QED
      BY <3>1, <3>2
  <2> QED
    BY <1>5, <2>1, <2>2, <2>3, <2>4, SMTT(60) DEF TypeOK, DropFailed
<1>6. ASSUME NEW D \in SUBSET Digests, SpendOp, PruneScanJobs(D)
      PROVE  TypeOK'
  BY <1>6 DEF TypeOK, PruneScanJobs
<1>7. CASE RetryAllFailed
  BY <1>7, RowType DEF TypeOK, RetryAllFailed
<1>8. CASE RollbackDelete
  BY <1>8 DEF TypeOK, RollbackDelete, NoErase
<1> QED
  BY <1>1, <1>2, <1>3, <1>4, <1>5, <1>6, <1>7, <1>8, TypeCommit
     DEF OperatorStep, DeleteSBOM, DeleteArtifact

(* Time passes within the bound on elapsed, by Tick's own guard. *)
LEMMA TypeTick ==
    ASSUME TypeOK, Tick
    PROVE  TypeOK'
<1> USE DEF storeVars, budget
<1>1. jobs' \in [Catalog -> ScanJob]
  BY RowType DEF TypeOK, Tick
<1>2. exec' \in [Workers -> Execution \cup {Idle}]
  <2> SUFFICES ASSUME NEW w \in Workers
               PROVE  Longer(exec[w]) \in Execution \cup {Idle}
    BY DEF Tick
  <2>1. CASE Busy(w)
    BY <2>1, BusyType, ScanQueueAssumption DEF Tick, Longer, Execution, Busy
  <2>2. CASE ~Busy(w)
    BY <2>2 DEF Busy, Longer, TypeOK
  <2> QED
    BY <2>1, <2>2
<1> QED
  BY <1>1, <1>2 DEF TypeOK, Tick

(* Every step keeps every type. *)
LEMMA TypeNext == TypeOK /\ [Next]_vars => TypeOK'
<1> SUFFICES ASSUME TypeOK, [Next]_vars
             PROVE  TypeOK'
  OBVIOUS
<1>1. CASE UNCHANGED vars
  BY <1>1 DEF TypeOK, vars, queueVars, poolVars, storeVars, budget
<1> QED
  BY <1>1, TypeWorker, TypePod, TypeSource, TypeOperator, TypeTick DEF Next

(* Every reachable state is well typed, for every value of the constants. *)
THEOREM TypeCorrect == Spec => []TypeOK
  BY TypeInit, TypeNext, PTL DEF Spec

-----------------------------------------------------------------------------
(***************************************************************************)
(* The lease.  While workers are prompt, a goroutine's row is no older     *)
(* than its own run, so no sweep can take it away: this is what makes      *)
(* SingleExecutor inductive.                                               *)
(***************************************************************************)
Prompt == MaxRun <= StuckThreshold /\ ~AnswerLost

LeaseInv ==
    \A w \in Workers : Busy(w) =>
        /\ jobs[exec[w].job].state = "running"
        /\ jobs[exec[w].job].worker = PodOf[w]
        /\ jobs[exec[w].job].age <= exec[w].elapsed
        /\ \A v \in Workers : Busy(v) /\ exec[v].job = exec[w].job => v = w

(***************************************************************************)
(* Everything a step can do to one row, with who may do it.                *)
(***************************************************************************)
JobStep(j) ==
    \/ jobs'[j] = jobs[j]
    \/ jobs'[j] = InsertScanJob(jobs[j], FALSE)
    \/ walk[j[1]].force /\ jobs'[j] = InsertScanJob(jobs[j], TRUE)
    \/ jobs[j].state = "queued" /\ \E p \in Pods : jobs'[j] = Claimed(jobs[j], p)
    \/ /\ \E w \in Workers : exec[w].pc = "finish" /\ exec[w].live /\ exec[w].job = j
       /\ UNCHANGED sbom
       /\ jobs'[j] = FinishScanJobByID(jobs[j])
    \/ /\ \E w \in Workers : Busy(w) /\ exec[w].job = j
       /\ \E m \in {failNow, MaxAttempts} : jobs'[j] = FailOrRequeueScanJobByID(jobs[j], m)
    \/ jobs'[j] = RequeueStuckRunning(jobs[j], StuckThreshold, MaxAttempts)
    \/ jobs'[j] = FailStaleRequeuedScanJobs(jobs[j], StaleRequeuedAfter)
    \/ jobs'[j] = CancelQueuedScanJob(jobs[j])
    \/ sbom'[j[2]] = NoSource /\ jobs'[j] = PruneScanJob(jobs[j])
    \/ jobs'[j] = RecordRefusedScanJob(jobs[j])
    \/ jobs'[j] = Older(jobs[j])
    \/ (Retry(j) \/ RetryAllFailed) /\ jobs'[j] = RetryScanJob(jobs[j])
    \/ DropFailed(j) /\ jobs'[j] = DeleteFailedScanJobs(jobs[j])

(* The worker pool's steps write at most the row of one job. *)
LEMMA WorkerJobStep ==
    ASSUME TypeOK, NEW w \in Workers, WorkerStep(w), NEW j \in Catalog
    PROVE  JobStep(j)
<1> USE DEF queueVars
<1>0. ASSUME NEW k, jobs[k].state = "queued", Claim(w, k)
      PROVE  JobStep(j)
  <2>1. PodOf[w] \in Pods
    BY ScanQueueAssumption
  <2>2. jobs'[j] = jobs[j] \/ (k = j /\ jobs'[j] = Claimed(jobs[j], PodOf[w]))
    BY <1>0 DEF TypeOK, Claim
  <2> QED
    BY <1>0, <2>1, <2>2 DEF JobStep
<1>1. CASE ProcessByID(w)
  <2>1. CASE UNCHANGED jobs
    BY <2>1 DEF JobStep
  <2> QED
    BY <1>0, <1>1, <2>1 DEF ProcessByID
<1>2. CASE ClaimNext(w)
  BY <1>0, <1>2 DEF ClaimNext, OldestQueued
<1>3. CASE ScanDone(w) \/ ScanError(w) \/ InsertSBOM(w) \/ PublishSBOMIngested(w)
  BY <1>3 DEF ScanDone, ScanError, InsertSBOM, PublishSBOMIngested, JobStep
<1>4. CASE Finish(w)
  <2>1. \/ jobs'[j] = jobs[j]
        \/ /\ j = exec[w].job /\ exec[w].live
           /\ jobs'[j] = FinishScanJobByID(jobs[j])
    BY <1>4 DEF TypeOK, Finish, Write
  <2>2. exec[w].pc = "finish" /\ UNCHANGED sbom
    BY <1>4 DEF Finish, storeVars
  <2> QED
    BY <2>1, <2>2 DEF JobStep
<1>5. CASE FailOrRequeue(w)
  <2>1. Busy(w)
    BY <1>5 DEF FailOrRequeue, Busy
  <2>2. \/ jobs'[j] = jobs[j]
        \/ /\ j = exec[w].job
           /\ \E m \in {failNow, MaxAttempts} :
                 jobs'[j] = FailOrRequeueScanJobByID(jobs[j], m)
    BY <1>5 DEF TypeOK, FailOrRequeue, Write
  <2> QED
    BY <2>1, <2>2 DEF JobStep
<1> QED
  BY <1>1, <1>2, <1>3, <1>4, <1>5 DEF WorkerStep

(* Every step writes each row by one statement of the table. *)
LEMMA NextJobStep ==
    ASSUME TypeOK, [Next]_vars, NEW j \in Catalog
    PROVE  JobStep(j)
<1> USE DEF queueVars
<1>1. CASE UNCHANGED vars
  BY <1>1 DEF vars, JobStep
<1>2. ASSUME NEW p \in Pods, PodStep(p)
      PROVE  JobStep(j)
  BY <1>2 DEF PodStep, SweepStuck, SweepStale, SweepError, Start, Stop, Stopped, Crash,
              JobStep
<1>3. ASSUME NEW s \in Sources, SourceStep(s)
      PROVE  JobStep(j)
  <2>1. CASE StartWalk(s) \/ StartForcedWalk(s) \/ EndWalk(s)
    BY <2>1 DEF StartWalk, StartForcedWalk, EndWalk, JobStep
  <2>2. ASSUME NEW d \in Digests, WalkSubmit(s, d)
        PROVE  JobStep(j)
    <3>1. CASE j = ScanJobKey(s, d)
      <4>1. j[1] = s /\ jobs'[j] = InsertScanJob(jobs[j], walk[s].force)
        BY <2>2, <3>1 DEF TypeOK, WalkSubmit, Submit, ScanJobKey
      <4>2. walk[s].force \in BOOLEAN
        BY DEF TypeOK
      <4> QED
        BY <4>1, <4>2 DEF JobStep
    <3>2. CASE j # ScanJobKey(s, d)
      BY <2>2, <3>2 DEF TypeOK, WalkSubmit, Submit, JobStep
    <3> QED
      BY <3>1, <3>2
  <2> QED
    BY <1>3, <2>1, <2>2 DEF SourceStep
<1>4. CASE OperatorStep
  <2>1. ASSUME NEW k \in Catalog, RegistryWebhook(k) \/ Cancel(k) \/ RecordRefused(k)
        PROVE  JobStep(j)
    BY <2>1 DEF TypeOK, RegistryWebhook, Submit, Cancel, RecordRefused, JobStep
  <2>2. CASE RetryAllFailed
    <3>1. jobs'[j] = RetryScanJob(jobs[j])
      BY <2>2 DEF RetryAllFailed
    <3> QED
      BY <2>2, <3>1 DEF JobStep
  <2>4. ASSUME NEW k \in Catalog, Retry(k)
        PROVE  JobStep(j)
    <3>1. jobs'[j] = jobs[j] \/ (k = j /\ jobs'[j] = RetryScanJob(jobs[j]))
      BY <2>4 DEF TypeOK, Retry
    <3> QED
      BY <2>4, <3>1 DEF JobStep
  <2>5. ASSUME NEW k \in Catalog, DropFailed(k)
        PROVE  JobStep(j)
    <3>1. jobs'[j] = jobs[j] \/ (k = j /\ jobs'[j] = DeleteFailedScanJobs(jobs[j]))
      BY <2>5 DEF TypeOK, DropFailed
    <3> QED
      BY <2>5, <3>1 DEF JobStep
  <2>3. CASE CommitDelete
    <3>1. j[2] \in Digests
      BY ScanQueueAssumption
    <3>2. Locked(j) => j[2] \in erase.digests
      BY DEF Locked, TypeOK
    <3> QED
      BY <2>3, <3>1, <3>2 DEF CommitDelete, JobStep
  <2>6. CASE UNCHANGED jobs
    BY <2>6 DEF JobStep
  <2> QED
    BY <1>4, <2>1, <2>2, <2>3, <2>4, <2>5, <2>6
       DEF OperatorStep, DeleteSBOM, DeleteArtifact, PruneScanJobs, RollbackDelete
<1>5. CASE Tick
  BY <1>5 DEF Tick, JobStep
<1> QED
  BY <1>1, <1>2, <1>3, <1>4, <1>5, WorkerJobStep DEF Next

-----------------------------------------------------------------------------
(***************************************************************************)
(* The retry budget                                                        *)
(***************************************************************************)
RowBudget(r) ==
    /\ r.attempts <= MaxAttempts
    /\ r.state = "queued" => r.attempts < MaxAttempts
    /\ r.state = "running" => r.attempts > 0

(* No statement, whoever issues it and however late, breaks a row's budget. *)
LEMMA JobStepBudget ==
    ASSUME TypeOK, NEW j \in Catalog, RowBudget(jobs[j]), JobStep(j)
    PROVE  RowBudget(jobs'[j])
<1> DEFINE r == jobs[j]
<1>1. r \in ScanJob /\ MaxAttempts \in Nat \ {0} /\ failNow = 0
  BY ScanQueueAssumption DEF TypeOK, failNow
<1>2. RowBudget(AbsentJob) /\ RowBudget(FreshJob)
  BY <1>1 DEF RowBudget, AbsentJob, FreshJob
<1>3. \A f \in BOOLEAN : RowBudget(InsertScanJob(r, f))
  BY <1>1, <1>2 DEF RowBudget, InsertScanJob, ScanJob
<1>4. r.state = "queued" => \A p \in Pods : RowBudget(Claimed(r, p))
  BY <1>1 DEF RowBudget, Claimed, ScanJob
<1>5. \A m \in {failNow, MaxAttempts} : RowBudget(FailOrQueueAgain(r, m))
  BY <1>1 DEF RowBudget, FailOrQueueAgain, ScanJob
<1>6. /\ RowBudget(FinishScanJobByID(r))
      /\ \A m \in {failNow, MaxAttempts} : RowBudget(FailOrRequeueScanJobByID(r, m))
      /\ RowBudget(RequeueStuckRunning(r, StuckThreshold, MaxAttempts))
      /\ RowBudget(FailStaleRequeuedScanJobs(r, StaleRequeuedAfter))
  BY <1>1, <1>5 DEF RowBudget, FinishScanJobByID, FailOrRequeueScanJobByID,
                    RequeueStuckRunning, FailStaleRequeuedScanJobs, ScanJob
<1>7. /\ RowBudget(CancelQueuedScanJob(r)) /\ RowBudget(PruneScanJob(r))
      /\ RowBudget(RecordRefusedScanJob(r)) /\ RowBudget(Older(r))
      /\ RowBudget(RetryScanJob(r)) /\ RowBudget(DeleteFailedScanJobs(r))
  BY <1>1, <1>2 DEF RowBudget, CancelQueuedScanJob, PruneScanJob, RecordRefusedScanJob,
                    Older, RetryScanJob, DeleteFailedScanJobs, AbsentJob, ScanJob
<1> QED
  BY <1>3, <1>4, <1>6, <1>7 DEF JobStep

(***************************************************************************)
(* The retry budget holds for every number of workers, every threshold and *)
(* every interleaving, with late workers and lost answers included.        *)
(***************************************************************************)
THEOREM RetryBudget == Spec => []AttemptBudget
<1> DEFINE Inv == \A j \in Catalog : RowBudget(jobs[j])
<1>1. Init => Inv
  BY ScanQueueAssumption DEF Init, RowBudget, AbsentJob
<1>2. TypeOK /\ Inv /\ [Next]_vars => Inv'
  BY NextJobStep, JobStepBudget
<1>3. Inv <=> AttemptBudget
  BY DEF AttemptBudget, RowBudget
<1> QED
  BY <1>1, <1>2, <1>3, TypeCorrect, PTL DEF Spec

-----------------------------------------------------------------------------
(***************************************************************************)
(* The lease                                                               *)
(***************************************************************************)

(***************************************************************************)
(* A young running row is moved by its own worker only: submissions,       *)
(* sweeps, cancels, retries, deletes and refusals all leave it alone.      *)
(***************************************************************************)
LEMMA RunningUnmoved ==
    ASSUME NEW r \in ScanJob, r.state = "running", r.age <= StuckThreshold
    PROVE  /\ \A f \in BOOLEAN : InsertScanJob(r, f) = r
           /\ RequeueStuckRunning(r, StuckThreshold, MaxAttempts) = r
           /\ FailStaleRequeuedScanJobs(r, StaleRequeuedAfter) = r
           /\ RetryScanJob(r) = r /\ CancelQueuedScanJob(r) = r
           /\ PruneScanJob(r) = r /\ RecordRefusedScanJob(r) = r
           /\ DeleteFailedScanJobs(r) = r
BY ScanQueueAssumption
   DEF ScanJob, InsertScanJob, RequeueStuckRunning, FailStaleRequeuedScanJobs, RetryScanJob,
       CancelQueuedScanJob, PruneScanJob, RecordRefusedScanJob, DeleteFailedScanJobs

(* While workers are prompt, the row of a running job is young. *)
LEMMA HeldIsYoung ==
    ASSUME Prompt, TypeOK, LeaseInv, NEW w \in Workers, Busy(w)
    PROVE  /\ jobs[exec[w].job] \in ScanJob
           /\ jobs[exec[w].job].state = "running"
           /\ jobs[exec[w].job].age <= StuckThreshold
<1>1. exec[w].job \in Catalog /\ exec[w].elapsed \in 0 .. MaxRun
  BY BusyType DEF Execution
<1>2. jobs[exec[w].job] \in ScanJob /\ jobs[exec[w].job].age \in Nat
  BY <1>1 DEF TypeOK, ScanJob
<1>3. jobs[exec[w].job].state = "running" /\ jobs[exec[w].job].age <= exec[w].elapsed
  BY DEF LeaseInv
<1> QED
  BY <1>1, <1>2, <1>3, ScanQueueAssumption DEF Prompt

(***************************************************************************)
(* A step that starts no run and leaves the rows of the running jobs alone *)
(* keeps the lease.                                                        *)
(***************************************************************************)
Undisturbed(w) ==
    Busy(w)' => /\ Busy(w)
                /\ exec'[w].job = exec[w].job /\ exec'[w].elapsed = exec[w].elapsed
                /\ jobs'[exec[w].job] = jobs[exec[w].job]

(* A step that leaves every held row and its goroutine alone keeps leases. *)
LEMMA KeepLease ==
    ASSUME LeaseInv, \A w \in Workers : Undisturbed(w)
    PROVE  LeaseInv'
BY DEF LeaseInv, Undisturbed, Busy

(* A claim of a queued row gives a new lease and disturbs no other. *)
LEMMA LeaseClaim ==
    ASSUME TypeOK, LeaseInv, NEW w \in Workers, ~Busy(w),
           NEW j \in Catalog, jobs[j].state = "queued", Claim(w, j)
    PROVE  LeaseInv'
<1>1. \A v \in Workers : Busy(v) => exec[v].job # j
  BY DEF LeaseInv
<1>2. CASE UNCHANGED exec
  BY <1>1, <1>2, KeepLease DEF Claim, TypeOK, Undisturbed, Busy
<1>3. CASE exec' = [exec EXCEPT ![w] = Run(j)]
  <2>1. jobs'[j] = Claimed(jobs[j], PodOf[w])
    BY DEF Claim, TypeOK
  <2>2. jobs'[j].state = "running" /\ jobs'[j].worker = PodOf[w] /\ jobs'[j].age = 0
    BY <2>1 DEF Claimed
  <2>3. exec'[w] = Run(j) /\ exec'[w].job = j /\ exec'[w].elapsed = 0
    BY <1>3 DEF TypeOK, Run
  <2>4. \A v \in Workers \ {w} : exec'[v] = exec[v]
    BY <1>3 DEF TypeOK
  <2>5. \A k \in Catalog \ {j} : jobs'[k] = jobs[k]
    BY DEF Claim, TypeOK
  <2>6. \A v \in Workers : Busy(v) => exec[v].job \in Catalog
    BY BusyType
  <2> QED
    BY <1>1, <2>2, <2>3, <2>4, <2>5, <2>6 DEF LeaseInv, Busy
<1> QED
  BY <1>2, <1>3 DEF Claim

(* A goroutine only ever writes the row it holds. *)
LEMMA LeaseWorker ==
    ASSUME Prompt, TypeOK, LeaseInv, NEW w \in Workers, WorkerStep(w)
    PROVE  LeaseInv'
<1> USE DEF queueVars
<1>1. CASE ProcessByID(w)
  <2> DEFINE j == Head(hints[PodOf[w]])
  <2>1. CASE j # NoJob /\ jobs[j].state = "queued"
    <3>1. PodOf[w] \in Pods /\ hints[PodOf[w]] \in Seq(Catalog \cup {NoJob})
          /\ hints[PodOf[w]] # <<>>
      BY <1>1, ScanQueueAssumption DEF TypeOK, ProcessByID
    <3>2. j \in Catalog
      BY <2>1, <3>1, HeadTailProperties
    <3>3. ~Busy(w) /\ Claim(w, j)
      BY <1>1, <2>1 DEF ProcessByID
    <3> QED
      BY <2>1, <3>2, <3>3, LeaseClaim
  <2>2. CASE ~(j # NoJob /\ jobs[j].state = "queued")
    BY <1>1, <2>2, KeepLease DEF ProcessByID, Undisturbed, Busy
  <2> QED
    BY <2>1, <2>2
<1>2. CASE ClaimNext(w)
  BY <1>2, LeaseClaim DEF ClaimNext, OldestQueued
<1>3. ASSUME NEW pc \in Steps, Busy(w), Goto(w, pc), UNCHANGED jobs
      PROVE  LeaseInv'
  <2>1. \A v \in Workers : Undisturbed(v)
    BY <1>3 DEF Undisturbed, Busy, Goto, TypeOK, Execution, Idle
  <2> QED
    BY <2>1, KeepLease
<1>4. CASE ScanDone(w)
  BY <1>3, <1>4 DEF ScanDone, Busy, Steps
<1>5. CASE ScanError(w)
  BY <1>3, <1>5 DEF ScanError, Busy, Steps
<1>6. CASE InsertSBOM(w)
  BY <1>3, <1>6 DEF InsertSBOM, AfterCommit, Busy, Steps
<1>7. CASE PublishSBOMIngested(w)
  BY <1>3, <1>7 DEF PublishSBOMIngested, Busy, Steps
<1>8. ASSUME NEW r, Busy(w), exec' = [exec EXCEPT ![w] = Idle],
             jobs' = [jobs EXCEPT ![exec[w].job] = r] \/ UNCHANGED jobs
      PROVE  LeaseInv'
  <2>1. \A v \in Workers : Busy(v)' => v # w /\ exec'[v] = exec[v]
    BY <1>8 DEF Busy, TypeOK, Idle
  <2>2. \A v \in Workers : Busy(v) /\ v # w => jobs'[exec[v].job] = jobs[exec[v].job]
    BY <1>8, BusyType DEF LeaseInv, TypeOK
  <2> QED
    BY <2>1, <2>2, KeepLease DEF Undisturbed, Busy
<1>9. CASE Finish(w)
  <2>1. Busy(w)
    BY <1>9 DEF Finish, Busy
  <2>2. CASE Goto(w, "fail") /\ UNCHANGED jobs
    BY <1>3, <2>1, <2>2 DEF Steps
  <2>3. CASE Write(w, FinishScanJobByID(jobs[exec[w].job])) /\ exec' = [exec EXCEPT ![w] = Idle]
    BY <1>8, <2>1, <2>3 DEF Write
  <2> QED
    BY <1>9, <2>2, <2>3 DEF Finish, Prompt
<1>10. CASE FailOrRequeue(w)
  BY <1>8, <1>10 DEF FailOrRequeue, Write, Busy
<1> QED
  BY <1>1, <1>2, <1>4, <1>5, <1>6, <1>7, <1>9, <1>10 DEF WorkerStep

(* No sweep takes a row from a live goroutine, and a crash gives leases up. *)
LEMMA LeasePod ==
    ASSUME Prompt, TypeOK, LeaseInv, NEW p \in Pods, PodStep(p)
    PROVE  LeaseInv'
<1> USE DEF queueVars
<1>1. CASE SweepStuck(p)
  BY <1>1, HeldIsYoung, BusyType, RunningUnmoved, KeepLease DEF SweepStuck, Undisturbed, Busy
<1>2. CASE SweepStale(p)
  BY <1>2, HeldIsYoung, BusyType, RunningUnmoved, KeepLease DEF SweepStale, Undisturbed, Busy
<1>3. CASE SweepError(p) \/ Start(p) \/ Stop(p) \/ Stopped(p)
  BY <1>3, KeepLease DEF SweepError, Start, Stop, Stopped, Undisturbed, Busy
<1>4. CASE Crash(p)
  BY <1>4, KeepLease DEF Crash, Undisturbed, Busy, Idle
<1> QED
  BY <1>1, <1>2, <1>3, <1>4 DEF PodStep

(* No submission of a walk touches a running row. *)
LEMMA LeaseSource ==
    ASSUME Prompt, TypeOK, LeaseInv, NEW s \in Sources, SourceStep(s)
    PROVE  LeaseInv'
<1> USE DEF queueVars, poolVars
<1>1. CASE StartWalk(s) \/ StartForcedWalk(s) \/ EndWalk(s)
  BY <1>1, KeepLease DEF StartWalk, StartForcedWalk, EndWalk, Undisturbed, Busy
<1>2. ASSUME NEW d \in Digests, WalkSubmit(s, d)
      PROVE  LeaseInv'
  <2>1. walk[s].force \in BOOLEAN
    BY DEF TypeOK
  <2> QED
    BY <1>2, <2>1, HeldIsYoung, BusyType, RunningUnmoved, KeepLease
       DEF WalkSubmit, Submit, TypeOK, Undisturbed, Busy
<1> QED
  BY <1>1, <1>2 DEF SourceStep

(* No operator's request touches a running row. *)
LEMMA LeaseOperator ==
    ASSUME Prompt, TypeOK, LeaseInv, OperatorStep
    PROVE  LeaseInv'
<1> USE DEF poolVars
<1>1. ASSUME NEW j \in Catalog, RegistryWebhook(j)
      PROVE  LeaseInv'
  BY <1>1, HeldIsYoung, BusyType, RunningUnmoved, KeepLease
     DEF RegistryWebhook, Submit, TypeOK, Undisturbed, Busy
<1>2. ASSUME NEW j \in Catalog, Retry(j) \/ Cancel(j) \/ RecordRefused(j)
      PROVE  LeaseInv'
  BY <1>2, HeldIsYoung, BusyType, RunningUnmoved, KeepLease
     DEF Retry, Cancel, RecordRefused, TypeOK, Undisturbed, Busy
<1>3. ASSUME NEW j \in Catalog, DropFailed(j)
      PROVE  LeaseInv'
  <2>1. \A w \in Workers : Busy(w) => exec[w].job # j
    BY <1>3 DEF DropFailed, LeaseInv
  <2>2. \A w \in Workers : Busy(w)' => Busy(w) /\ exec'[w] = exec[w]
    BY <1>3, <2>1 DEF DropFailed, Busy, TypeOK, Execution, Idle
  <2> QED
    BY <1>3, <2>1, <2>2, BusyType, KeepLease DEF DropFailed, TypeOK, Undisturbed
<1>4. CASE RetryAllFailed
  BY <1>4, HeldIsYoung, BusyType, RunningUnmoved, KeepLease
     DEF RetryAllFailed, Undisturbed, Busy
<1>5. CASE CommitDelete
  <2>1. \A w \in Workers : Busy(w)' =>
            /\ Busy(w) /\ exec'[w].job = exec[w].job /\ exec'[w].elapsed = exec[w].elapsed
    BY <1>5 DEF CommitDelete, Busy, TypeOK, Execution, Idle
  <2>2. \A w \in Workers : Busy(w) => jobs'[exec[w].job] = jobs[exec[w].job]
    BY <1>5, HeldIsYoung, BusyType, RunningUnmoved DEF CommitDelete
  <2> QED
    BY <2>1, <2>2, KeepLease DEF Undisturbed
<1>6. CASE UNCHANGED <<jobs, exec>>
  BY <1>6, KeepLease DEF Undisturbed, Busy
<1> QED
  BY <1>1, <1>2, <1>3, <1>4, <1>5, <1>6
     DEF OperatorStep, DeleteSBOM, DeleteArtifact, PruneScanJobs, RollbackDelete, queueVars

(* Time passes for a row and for the goroutine that holds it alike. *)
LEMMA LeaseTick ==
    ASSUME Prompt, TypeOK, LeaseInv, Tick
    PROVE  LeaseInv'
<1>1. \A w \in Workers : Busy(w)' => Busy(w) /\ exec'[w].job = exec[w].job
  BY DEF Tick, Longer, Busy, TypeOK, Execution, Idle
<1>2. ASSUME NEW w \in Workers, Busy(w)
      PROVE  /\ jobs'[exec[w].job].state = "running"
             /\ jobs'[exec[w].job].worker = PodOf[w]
             /\ jobs'[exec[w].job].age <= exec'[w].elapsed
  <2> DEFINE r == jobs[exec[w].job]
  <2>1. /\ r \in ScanJob /\ r.state = "running" /\ r.worker = PodOf[w]
        /\ r.age <= exec[w].elapsed
    BY <1>2, HeldIsYoung DEF LeaseInv
  <2>2. jobs'[exec[w].job] = Older(r)
    BY <1>2, BusyType DEF Tick
  <2>3. exec'[w].elapsed = exec[w].elapsed + 1 /\ exec[w].elapsed \in Nat
    BY <1>2, BusyType, ScanQueueAssumption DEF Tick, Longer, Busy, Execution
  <2>4. Older(r).state = r.state /\ Older(r).worker = r.worker /\ Older(r).age <= r.age + 1
    BY <2>1 DEF Older, ScanJob
  <2>5. r.age \in Nat /\ Older(r).age \in Nat
    BY <2>1, RowType DEF ScanJob
  <2> QED
    BY <2>1, <2>2, <2>3, <2>4, <2>5
<1> QED
  BY <1>1, <1>2 DEF LeaseInv

(* Every step keeps the leases while workers are prompt. *)
LEMMA LeaseNext == Prompt /\ TypeOK /\ LeaseInv /\ [Next]_vars => LeaseInv'
<1> SUFFICES ASSUME Prompt, TypeOK, LeaseInv, [Next]_vars
             PROVE  LeaseInv'
  OBVIOUS
<1>1. CASE UNCHANGED vars
  BY <1>1 DEF LeaseInv, Busy, vars, queueVars, poolVars
<1> QED
  BY <1>1, LeaseWorker, LeasePod, LeaseSource, LeaseOperator, LeaseTick DEF Next

(* Leases hold in every reachable state while workers are prompt. *)
LEMMA LeaseCorrect == Prompt => (Spec => []LeaseInv)
<1> SUFFICES ASSUME Prompt
             PROVE  Spec => []LeaseInv
  OBVIOUS
<1>1. Init => LeaseInv
  BY DEF Init, LeaseInv, Busy, Idle
<1>2. TypeOK /\ LeaseInv /\ [Next]_vars => LeaseInv'
  BY LeaseNext
<1> QED
  BY <1>1, <1>2, TypeCorrect, PTL DEF Spec

(***************************************************************************)
(* No image is ever scanned twice at once, for every number of pods and    *)
(* goroutines, provided no goroutine keeps a job past the stuck threshold  *)
(* and no commit is reported as an error.                                  *)
(***************************************************************************)
THEOREM LeaseHeld == Prompt => (Spec => []SingleExecutor)
<1> SUFFICES ASSUME Prompt
             PROVE  Spec => []SingleExecutor
  OBVIOUS
<1>1. LeaseInv => SingleExecutor
  BY DEF LeaseInv, SingleExecutor
<1> QED
  BY <1>1, LeaseCorrect, PTL

-----------------------------------------------------------------------------
(***************************************************************************)
(* What may move a row out of a terminal state, or into one                *)
(***************************************************************************)

(* The row of a job somebody runs is running. *)
LEMMA RunnerHolds ==
    ASSUME LeaseInv, NEW w \in Workers, Busy(w)
    PROVE  jobs[exec[w].job].state = "running"
BY DEF LeaseInv

(***************************************************************************)
(* With the lease, each step of a row is a stutter or a legal move of the  *)
(* job's lifecycle.                                                        *)
(***************************************************************************)
LEMMA LeasedMove ==
    ASSUME TypeOK, LeaseInv, AttemptBudget, NEW j \in Catalog, JobStep(j),
           NEW a, a = [state |-> jobs[j].state, attempts |-> jobs[j].attempts],
           NEW b, b = [state |-> jobs'[j].state, attempts |-> jobs'[j].attempts]
    PROVE  b = a \/ Lifecycle!Move(a, b)
<1> DEFINE r == jobs[j]
           s == jobs'[j]
<1> USE DEF Lifecycle!Move, Lifecycle!Enqueue, Lifecycle!Attempt, Lifecycle!Succeed,
            Lifecycle!GiveBack, Lifecycle!GiveUp, Lifecycle!Tombstone, Lifecycle!Refuse,
            Lifecycle!Forget, Lifecycle!Submitted
<1>1. /\ r \in ScanJob /\ MaxAttempts \in Nat /\ failNow = 0
      /\ r.state = "queued" => r.attempts < MaxAttempts
  BY ScanQueueAssumption DEF TypeOK, failNow, AttemptBudget
<1>2. ASSUME NEW f \in BOOLEAN, s = InsertScanJob(r, f)
      PROVE  b = a \/ Lifecycle!Move(a, b)
  BY <1>1, <1>2 DEF InsertScanJob, FreshJob, AbsentJob, ScanJob
<1>3. ASSUME NEW p \in Pods, r.state = "queued", s = Claimed(r, p)
      PROVE  b = a \/ Lifecycle!Move(a, b)
  BY <1>1, <1>3 DEF Claimed, ScanJob
<1>4. ASSUME r.state = "running", s = FinishScanJobByID(r)
      PROVE  b = a \/ Lifecycle!Move(a, b)
  BY <1>1, <1>4 DEF FinishScanJobByID, ScanJob
<1>5. ASSUME r.state = "running", NEW m \in {failNow, MaxAttempts}, s = FailOrQueueAgain(r, m)
      PROVE  b = a \/ Lifecycle!Move(a, b)
  BY <1>1, <1>5 DEF FailOrQueueAgain, ScanJob
<1>6. CASE s = RequeueStuckRunning(r, StuckThreshold, MaxAttempts)
  BY <1>5, <1>6 DEF RequeueStuckRunning
<1>7. ASSUME r.state = "running", NEW m \in {failNow, MaxAttempts},
             s = FailOrRequeueScanJobByID(r, m)
      PROVE  b = a \/ Lifecycle!Move(a, b)
  BY <1>5, <1>7 DEF FailOrRequeueScanJobByID, Active
<1>8. CASE \/ s = FailStaleRequeuedScanJobs(r, StaleRequeuedAfter)
           \/ s = CancelQueuedScanJob(r) \/ s = PruneScanJob(r)
  <2>1. CASE s = FailStaleRequeuedScanJobs(r, StaleRequeuedAfter)
    BY <1>1, <2>1 DEF FailStaleRequeuedScanJobs, ScanJob
  <2>2. CASE s = CancelQueuedScanJob(r)
    BY <1>1, <2>2 DEF CancelQueuedScanJob, ScanJob
  <2>3. CASE s = PruneScanJob(r)
    BY <1>1, <2>3 DEF PruneScanJob, ScanJob
  <2> QED
    BY <1>8, <2>1, <2>2, <2>3
<1>9. CASE s = RecordRefusedScanJob(r)
  BY <1>1, <1>9 DEF RecordRefusedScanJob, AbsentJob, ScanJob
<1>10. CASE s = Older(r) \/ s = RetryScanJob(r) \/ s = DeleteFailedScanJobs(r)
  BY <1>1, <1>10 DEF Older, RetryScanJob, DeleteFailedScanJobs, FreshJob, AbsentJob, ScanJob
<1>11. ASSUME NEW w \in Workers, Busy(w), exec[w].job = j
       PROVE  r.state = "running"
  BY <1>11, RunnerHolds
<1>12. ASSUME NEW w \in Workers, exec[w].pc = "finish", exec[w].job = j
       PROVE  r.state = "running"
  BY <1>11, <1>12 DEF Busy
<1> QED
  BY <1>2, <1>3, <1>4, <1>6, <1>7, <1>8, <1>9, <1>10, <1>11, <1>12 DEF JobStep

(***************************************************************************)
(* The queue implements the lifecycle it promises: workers, pods, hints,   *)
(* sweeps and walks, in every interleaving, only ever make legal moves.    *)
(***************************************************************************)
THEOREM QueueImplementsLifecycle == Prompt => (Spec => ImplementsLifecycle)
<1> SUFFICES ASSUME Prompt
             PROVE  Spec => ImplementsLifecycle
  OBVIOUS
<1>1. Init => Lifecycle!Init
  BY DEF Init, Lifecycle!Init, AbsentJob
<1>2. TypeOK /\ LeaseInv /\ AttemptBudget /\ [Next]_vars => Lifecycle!Next
  <2> SUFFICES ASSUME TypeOK, LeaseInv, AttemptBudget, [Next]_vars
               PROVE  Lifecycle!Next
    OBVIOUS
  <2> QED
    BY NextJobStep, LeasedMove DEF Lifecycle!Next
<1> QED
  BY <1>1, <1>2, TypeCorrect, LeaseCorrect, RetryBudget, PTL
     DEF Spec, ImplementsLifecycle, Lifecycle!Spec

(* FinishByID moves running rows only, although its query tests no state. *)
THEOREM FinishIsGuarded == Prompt => (Spec => FinishFromRunning)
<1> SUFFICES ASSUME Prompt
             PROVE  Spec => FinishFromRunning
  OBVIOUS
<1> DEFINE Guarded == \A j \in Catalog :
               jobs'[j].state = "succeeded" /\ jobs[j].state # "succeeded"
                  => jobs[j].state = "running"
<1>1. TypeOK /\ LeaseInv /\ AttemptBudget /\ [Next]_vars => Guarded
  <2> SUFFICES ASSUME TypeOK, LeaseInv, AttemptBudget, [Next]_vars, NEW j \in Catalog,
                      jobs'[j].state = "succeeded", jobs[j].state # "succeeded"
               PROVE  jobs[j].state = "running"
    OBVIOUS
  <2> DEFINE a == [state |-> jobs[j].state, attempts |-> jobs[j].attempts]
             b == [state |-> jobs'[j].state, attempts |-> jobs'[j].attempts]
  <2>1. b = a \/ Lifecycle!Move(a, b)
    BY NextJobStep, LeasedMove
  <2> QED
    BY <2>1 DEF Lifecycle!Move, Lifecycle!Enqueue, Lifecycle!Attempt, Lifecycle!Succeed,
                Lifecycle!GiveBack, Lifecycle!GiveUp, Lifecycle!Tombstone, Lifecycle!Refuse,
                Lifecycle!Forget, Lifecycle!Submitted
<1> QED
  BY <1>1, TypeCorrect, LeaseCorrect, RetryBudget, PTL DEF Spec, FinishFromRunning

(* A terminal row is revived by whom the queries name, in one step. *)
LEMMA TerminalStep ==
    ASSUME TypeOK, LeaseInv, NEW j \in Catalog, JobStep(j)
    PROVE  /\ jobs[j].state = "failed" /\ jobs'[j].state # "failed"
                 => Retry(j) \/ RetryAllFailed \/ DropFailed(j)
           /\ jobs[j].state = "pruned" /\ jobs'[j].state # "pruned" => walk[j[1]].force
<1> DEFINE r == jobs[j]
<1>1. r \in ScanJob
  BY DEF TypeOK
<1>2. ASSUME r.state \in {"failed", "pruned"}
      PROVE  /\ InsertScanJob(r, FALSE) = r
             /\ RequeueStuckRunning(r, StuckThreshold, MaxAttempts) = r
             /\ FailStaleRequeuedScanJobs(r, StaleRequeuedAfter) = r
             /\ CancelQueuedScanJob(r) = r /\ PruneScanJob(r) = r
             /\ RecordRefusedScanJob(r) = r /\ Older(r) = r
             /\ \A w \in Workers : Busy(w) => exec[w].job # j
  BY <1>1, <1>2 DEF ScanJob, InsertScanJob, RequeueStuckRunning, FailStaleRequeuedScanJobs,
                    CancelQueuedScanJob, PruneScanJob, RecordRefusedScanJob, Older, Active,
                    LeaseInv
<1>3. r.state = "failed" => InsertScanJob(r, TRUE) = r
  BY DEF InsertScanJob
<1>4. r.state = "pruned" => RetryScanJob(r) = r /\ DeleteFailedScanJobs(r) = r
  BY DEF RetryScanJob, DeleteFailedScanJobs
<1> QED
  BY <1>2, <1>3, <1>4 DEF JobStep, Busy

(* No walk, worker or sweep revives a failed or a tombstoned job. *)
THEOREM TerminalRowsStay == Prompt => (Spec => OnlyOperatorsRevive)
<1> SUFFICES ASSUME Prompt
             PROVE  Spec => OnlyOperatorsRevive
  OBVIOUS
<1>1. TypeOK /\ LeaseInv /\ [Next]_vars =>
        \A j \in Catalog :
          /\ jobs[j].state = "failed" /\ jobs'[j].state # "failed"
                => Retry(j) \/ RetryAllFailed \/ DropFailed(j)
          /\ jobs[j].state = "pruned" /\ jobs'[j].state # "pruned" => walk[j[1]].force
  BY NextJobStep, TerminalStep
<1> QED
  BY <1>1, TypeCorrect, LeaseCorrect, PTL DEF Spec, OnlyOperatorsRevive

-----------------------------------------------------------------------------
(***************************************************************************)
(* Jobs and the SBOMs they stand for                                       *)
(***************************************************************************)

(* Everything a step can do to the SBOM of one digest. *)
StoreStep(d) ==
    \/ sbom'[d] = sbom[d]
    \/ sbom'[d] = NoSource
    \/ \E w \in Workers : /\ exec[w].pc = "insert" /\ DigestOf(w) = d
                          /\ sbom'[d] = exec[w].job[1]

(* Only an insert stores an SBOM, under the source of the job that ran. *)
LEMMA NextStoreStep ==
    ASSUME TypeOK, [Next]_vars, NEW d \in Digests
    PROVE  StoreStep(d)
<1> USE DEF storeVars
<1>0. CASE UNCHANGED sbom
  BY <1>0 DEF StoreStep
<1>1. CASE UNCHANGED vars
  BY <1>0, <1>1 DEF vars
<1>2. ASSUME NEW w \in Workers, WorkerStep(w)
      PROVE  StoreStep(d)
  <2>1. CASE InsertSBOM(w)
    BY <2>1, BusyType DEF InsertSBOM, TypeOK, StoreStep
  <2> QED
    BY <1>0, <1>2, <2>1 DEF WorkerStep, ProcessByID, ClaimNext, ScanDone, ScanError,
                            PublishSBOMIngested, Finish, FailOrRequeue
<1>3. ASSUME NEW p \in Pods, PodStep(p)
      PROVE  StoreStep(d)
  BY <1>0, <1>3 DEF PodStep, SweepStuck, SweepStale, SweepError, Start, Stop, Stopped, Crash
<1>4. ASSUME NEW s \in Sources, SourceStep(s)
      PROVE  StoreStep(d)
  BY <1>0, <1>4 DEF SourceStep, StartWalk, StartForcedWalk, EndWalk, WalkSubmit
<1>5. CASE OperatorStep
  <2>1. CASE CommitDelete
    BY <2>1 DEF CommitDelete, StoreStep
  <2> QED
    BY <1>0, <1>5, <2>1 DEF OperatorStep, RegistryWebhook, Retry, Cancel, RecordRefused,
                            DropFailed, RetryAllFailed, DeleteSBOM, DeleteArtifact,
                            PruneScanJobs, RollbackDelete
<1>6. CASE Tick
  BY <1>0, <1>6 DEF Tick
<1> QED
  BY <1>1, <1>2, <1>3, <1>4, <1>5, <1>6 DEF Next

(* No statement but the prune leaves a tombstone where there was none. *)
LEMMA OnlyPruneTombstones ==
    ASSUME NEW r \in ScanJob, r.state # "pruned"
    PROVE  /\ \A f \in BOOLEAN : InsertScanJob(r, f).state # "pruned"
           /\ \A p \in Pods : Claimed(r, p).state # "pruned"
           /\ FinishScanJobByID(r).state # "pruned"
           /\ \A m : FailOrRequeueScanJobByID(r, m).state # "pruned"
           /\ \A t, m : RequeueStuckRunning(r, t, m).state # "pruned"
           /\ \A t : FailStaleRequeuedScanJobs(r, t).state # "pruned"
           /\ CancelQueuedScanJob(r).state # "pruned"
           /\ RecordRefusedScanJob(r).state # "pruned" /\ Older(r).state # "pruned"
           /\ RetryScanJob(r).state # "pruned" /\ DeleteFailedScanJobs(r).state # "pruned"
<1> USE DEF ScanJob, AbsentJob, FreshJob
<1>1. \A m : FailOrQueueAgain(r, m).state # "pruned"
  BY DEF FailOrQueueAgain
<1>2. /\ \A f \in BOOLEAN : InsertScanJob(r, f).state # "pruned"
      /\ \A p \in Pods : Claimed(r, p).state # "pruned"
      /\ FinishScanJobByID(r).state # "pruned"
  BY DEF InsertScanJob, Claimed, FinishScanJobByID
<1>3. /\ \A m : FailOrRequeueScanJobByID(r, m).state # "pruned"
      /\ \A t, m : RequeueStuckRunning(r, t, m).state # "pruned"
  BY <1>1 DEF FailOrRequeueScanJobByID, RequeueStuckRunning
<1>4. /\ \A t : FailStaleRequeuedScanJobs(r, t).state # "pruned"
      /\ CancelQueuedScanJob(r).state # "pruned"
      /\ RecordRefusedScanJob(r).state # "pruned" /\ Older(r).state # "pruned"
  BY DEF FailStaleRequeuedScanJobs, CancelQueuedScanJob, RecordRefusedScanJob, Older
<1>5. RetryScanJob(r).state # "pruned" /\ DeleteFailedScanJobs(r).state # "pruned"
  BY DEF RetryScanJob, DeleteFailedScanJobs
<1> QED
  BY <1>2, <1>3, <1>4, <1>5

(***************************************************************************)
(* Only a delete tombstones, and it takes the SBOM with it; and the worker *)
(* that could store that SBOM again holds a running row, not a tombstone.  *)
(***************************************************************************)
LEMMA PrunedNext ==
    ASSUME TypeOK, LeaseInv, PrunedHasNoSBOM, [Next]_vars
    PROVE  PrunedHasNoSBOM'
<1> SUFFICES ASSUME NEW j \in Catalog, jobs'[j].state = "pruned"
             PROVE  sbom'[j[2]] # j[1]
  BY DEF PrunedHasNoSBOM
<1>1. j[1] \in Sources /\ j[2] \in Digests /\ j = <<j[1], j[2]>> /\ j[1] # NoSource
  BY ScanQueueAssumption
<1>2. JobStep(j) /\ StoreStep(j[2])
  BY <1>1, NextJobStep, NextStoreStep
<1>3. jobs[j].state = "pruned" \/ sbom'[j[2]] = NoSource
  <2>1. SUFFICES ASSUME jobs[j].state # "pruned"
                 PROVE  sbom'[j[2]] = NoSource
    OBVIOUS
  <2>2. jobs[j] \in ScanJob
    BY DEF TypeOK
  <2> QED
    BY <1>2, <2>1, <2>2, OnlyPruneTombstones DEF JobStep
<1>4. ASSUME jobs[j].state = "pruned", NEW w \in Workers, exec[w].pc = "insert",
             DigestOf(w) = j[2]
      PROVE  exec[w].job[1] # j[1]
  <2>1. Busy(w) /\ exec[w].job \in Catalog
    BY <1>4, BusyType DEF Busy
  <2>2. exec[w].job = <<exec[w].job[1], exec[w].job[2]>>
    BY <2>1, ScanQueueAssumption
  <2>3. exec[w].job # j
    BY <1>4, <2>1, RunnerHolds
  <2> QED
    BY <1>1, <1>4, <2>2, <2>3 DEF DigestOf
<1> QED
  BY <1>1, <1>2, <1>3, <1>4 DEF StoreStep, PrunedHasNoSBOM

(* A tombstone is true, for every catalogue, digests shared by sources too. *)
THEOREM TombstonesAreTrue == Prompt => (Spec => []PrunedHasNoSBOM)
<1> SUFFICES ASSUME Prompt
             PROVE  Spec => []PrunedHasNoSBOM
  OBVIOUS
<1>1. Init => PrunedHasNoSBOM
  BY DEF Init, PrunedHasNoSBOM, AbsentJob
<1>2. TypeOK /\ LeaseInv /\ PrunedHasNoSBOM /\ [Next]_vars => PrunedHasNoSBOM'
  BY PrunedNext
<1> QED
  BY <1>1, <1>2, TypeCorrect, LeaseCorrect, PTL DEF Spec

-----------------------------------------------------------------------------
(***************************************************************************)
(* Behind a success there is an SBOM: a goroutine about to finish with a   *)
(* live SBOM id has that SBOM in the store.                                *)
(***************************************************************************)
Holds(w) == exec[w].pc \in {"publish", "finish"} /\ exec[w].live

HolderInv == \A w \in Workers : Holds(w) => sbom[DigestOf(w)] # NoSource

(* A worker reaches publish or finish only past a stored SBOM. *)
LEMMA HolderWorker ==
    ASSUME TypeOK, HolderInv, NEW v \in Workers, WorkerStep(v)
    PROVE  HolderInv'
<1> USE DEF storeVars
<1>1. ASSUME UNCHANGED sbom,
             \A w \in Workers : Holds(w)' => Holds(w) /\ exec'[w].job = exec[w].job
      PROVE  HolderInv'
  BY <1>1 DEF HolderInv, DigestOf
<1>2. ASSUME NEW j, Claim(v, j), ~Busy(v), UNCHANGED sbom
      PROVE  HolderInv'
  <2>1. CASE UNCHANGED exec
    BY <1>1, <1>2, <2>1 DEF Holds
  <2>2. CASE exec' = [exec EXCEPT ![v] = Run(j)]
    <3>1. ASSUME NEW w \in Workers, Holds(w)'
          PROVE  Holds(w) /\ exec'[w].job = exec[w].job
      <4>1. w # v
        BY <2>2, <3>1 DEF Run, Holds, TypeOK
      <4>2. exec'[w] = exec[w]
        BY <2>2, <4>1 DEF TypeOK
      <4> QED
        BY <3>1, <4>2 DEF Holds
    <3> QED
      BY <1>1, <1>2, <3>1
  <2> QED
    BY <1>2, <2>1, <2>2 DEF Claim
<1>3. CASE ProcessByID(v) \/ ClaimNext(v)
  BY <1>1, <1>2, <1>3 DEF ProcessByID, ClaimNext, Holds
<1>4. ASSUME NEW pc \in Steps, Goto(v, pc), Busy(v)
      PROVE  /\ exec'[v].job = exec[v].job /\ exec'[v].live = exec[v].live
             /\ exec'[v].pc = pc
             /\ \A w \in Workers : w # v => exec'[w] = exec[w]
  BY <1>4, BusyType DEF Goto, TypeOK, Execution
<1>5. CASE ScanDone(v)
  <2>1. Busy(v) /\ UNCHANGED sbom
    BY <1>5 DEF ScanDone, Busy
  <2>2. CASE sbom[DigestOf(v)] # NoSource /\ Goto(v, "finish")
    BY <1>4, <2>1, <2>2 DEF HolderInv, Holds, DigestOf, Steps
  <2>3. CASE Goto(v, "insert")
    BY <1>1, <1>4, <2>1, <2>3 DEF Holds, Steps
  <2> QED
    BY <1>5, <2>2, <2>3 DEF ScanDone
<1>6. CASE ScanError(v)
  BY <1>1, <1>4, <1>6 DEF ScanError, Holds, Busy, Steps
<1>7. CASE InsertSBOM(v)
  <2>1. Busy(v) /\ DigestOf(v) \in Digests /\ exec[v].job[1] # NoSource
    BY <1>7, BusyType, ScanQueueAssumption DEF InsertSBOM, Busy
  <2>2. sbom'[DigestOf(v)] # NoSource
    BY <1>7, <2>1 DEF InsertSBOM, TypeOK
  <2>3. \A d \in Digests : sbom[d] # NoSource => sbom'[d] # NoSource
    BY <1>7, <2>1 DEF InsertSBOM, TypeOK
  <2>4. PICK pc \in Steps : Goto(v, pc)
    BY <1>7 DEF InsertSBOM, AfterCommit, Steps
  <2>5. \A w \in Workers : Holds(w) => DigestOf(w) \in Digests
    BY BusyType DEF Holds, Busy
  <2> QED
    BY <1>4, <2>1, <2>2, <2>3, <2>4, <2>5 DEF HolderInv, Holds, DigestOf
<1>8. CASE PublishSBOMIngested(v)
  BY <1>1, <1>4, <1>8 DEF PublishSBOMIngested, Holds, Busy, Steps
<1>9. CASE Finish(v)
  <2>1. Busy(v) /\ UNCHANGED sbom
    BY <1>9 DEF Finish, Busy
  <2>2. CASE Goto(v, "fail")
    BY <1>1, <1>4, <2>1, <2>2 DEF Holds, Steps
  <2>3. CASE exec' = [exec EXCEPT ![v] = Idle]
    BY <1>1, <2>1, <2>3 DEF Holds, Idle, TypeOK
  <2> QED
    BY <1>9, <2>2, <2>3 DEF Finish
<1>10. CASE FailOrRequeue(v)
  BY <1>1, <1>10 DEF FailOrRequeue, Holds, Idle, TypeOK
<1> QED
  BY <1>3, <1>5, <1>6, <1>7, <1>8, <1>9, <1>10 DEF WorkerStep

(* A delete that takes an SBOM away kills the ids that named it. *)
LEMMA HolderNext ==
    ASSUME TypeOK, HolderInv, [Next]_vars
    PROVE  HolderInv'
<1> USE DEF storeVars, poolVars
<1>1. ASSUME UNCHANGED sbom,
             \A w \in Workers : Holds(w)' => Holds(w) /\ exec'[w].job = exec[w].job
      PROVE  HolderInv'
  BY <1>1 DEF HolderInv, DigestOf
<1>2. CASE UNCHANGED <<sbom, exec>>
  BY <1>1, <1>2 DEF Holds
<1>3. ASSUME NEW p \in Pods, PodStep(p)
      PROVE  HolderInv'
  <2>1. CASE Crash(p)
    BY <1>1, <2>1 DEF Crash, Holds, Idle
  <2> QED
    BY <1>2, <1>3, <2>1 DEF PodStep, SweepStuck, SweepStale, SweepError, Start, Stop, Stopped
<1>4. ASSUME NEW s \in Sources, SourceStep(s)
      PROVE  HolderInv'
  BY <1>2, <1>4 DEF SourceStep, StartWalk, StartForcedWalk, EndWalk, WalkSubmit
<1>5. CASE Tick
  <2>1. \A w \in Workers : Holds(w)' => Holds(w) /\ exec'[w].job = exec[w].job
    BY <1>5 DEF Tick, Longer, Holds, TypeOK, Execution, Idle
  <2> QED
    BY <1>1, <1>5, <2>1 DEF Tick
<1>6. ASSUME NEW j \in Catalog, DropFailed(j)
      PROVE  HolderInv'
  <2>1. \A w \in Workers : Holds(w)' => Holds(w) /\ exec'[w].job = exec[w].job
    BY <1>6 DEF DropFailed, Holds, TypeOK, Execution, Idle
  <2> QED
    BY <1>1, <1>6, <2>1 DEF DropFailed
<1>7. CASE CommitDelete
  <2> SUFFICES ASSUME NEW w \in Workers, Holds(w)'
               PROVE  sbom'[DigestOf(w)'] # NoSource
    BY DEF HolderInv
  <2>1. /\ Holds(w) /\ DigestOf(w)' = DigestOf(w) /\ DigestOf(w) \notin erase.digests
    BY <1>7 DEF CommitDelete, Holds, DigestOf, TypeOK, Execution, Idle
  <2>2. DigestOf(w) \in Digests
    BY <2>1, BusyType DEF Holds, Busy
  <2> QED
    BY <1>7, <2>1, <2>2 DEF CommitDelete, HolderInv
<1>8. CASE OperatorStep
  BY <1>2, <1>6, <1>7, <1>8 DEF OperatorStep, RegistryWebhook, Retry, Cancel, RecordRefused,
                                RetryAllFailed, DeleteSBOM, DeleteArtifact, PruneScanJobs,
                                RollbackDelete
<1> QED
  BY <1>2, <1>3, <1>4, <1>5, <1>8, HolderWorker DEF Next, vars

(* No statement but the finish makes a success where there was none. *)
LEMMA OnlyFinishSucceeds ==
    ASSUME NEW r \in ScanJob, r.state # "succeeded"
    PROVE  /\ \A f \in BOOLEAN : InsertScanJob(r, f).state # "succeeded"
           /\ \A p \in Pods : Claimed(r, p).state # "succeeded"
           /\ \A m : FailOrRequeueScanJobByID(r, m).state # "succeeded"
           /\ \A t, m : RequeueStuckRunning(r, t, m).state # "succeeded"
           /\ \A t : FailStaleRequeuedScanJobs(r, t).state # "succeeded"
           /\ CancelQueuedScanJob(r).state # "succeeded"
           /\ PruneScanJob(r).state # "succeeded"
           /\ RecordRefusedScanJob(r).state # "succeeded" /\ Older(r).state # "succeeded"
           /\ RetryScanJob(r).state # "succeeded"
           /\ DeleteFailedScanJobs(r).state # "succeeded"
<1> USE DEF ScanJob, AbsentJob, FreshJob
<1>1. \A m : FailOrQueueAgain(r, m).state # "succeeded"
  BY DEF FailOrQueueAgain
<1>2. /\ \A f \in BOOLEAN : InsertScanJob(r, f).state # "succeeded"
      /\ \A p \in Pods : Claimed(r, p).state # "succeeded"
  BY DEF InsertScanJob, Claimed
<1>3. /\ \A m : FailOrRequeueScanJobByID(r, m).state # "succeeded"
      /\ \A t, m : RequeueStuckRunning(r, t, m).state # "succeeded"
  BY <1>1 DEF FailOrRequeueScanJobByID, RequeueStuckRunning
<1>4. /\ \A t : FailStaleRequeuedScanJobs(r, t).state # "succeeded"
      /\ CancelQueuedScanJob(r).state # "succeeded" /\ PruneScanJob(r).state # "succeeded"
      /\ RecordRefusedScanJob(r).state # "succeeded" /\ Older(r).state # "succeeded"
  BY DEF FailStaleRequeuedScanJobs, CancelQueuedScanJob, PruneScanJob, RecordRefusedScanJob,
         Older
<1>5. RetryScanJob(r).state # "succeeded" /\ DeleteFailedScanJobs(r).state # "succeeded"
  BY DEF RetryScanJob, DeleteFailedScanJobs
<1> QED
  BY <1>2, <1>3, <1>4, <1>5

(***************************************************************************)
(* A success is recorded only while its SBOM is stored, for every timing   *)
(* of deletes and late workers: this needs no promptness.                  *)
(***************************************************************************)
THEOREM SuccessIsBacked == Spec => SuccessHasSBOM
<1> DEFINE Backed == \A j \in Catalog :
               jobs'[j].state = "succeeded" /\ jobs[j].state # "succeeded"
                  => sbom'[j[2]] # NoSource
<1>1. Init => HolderInv
  BY DEF Init, HolderInv, Holds, Idle
<1>2. TypeOK /\ HolderInv /\ [Next]_vars => HolderInv'
  BY HolderNext
<1>3. TypeOK /\ HolderInv /\ [Next]_vars => Backed
  <2> SUFFICES ASSUME TypeOK, HolderInv, [Next]_vars, NEW j \in Catalog,
                      jobs'[j].state = "succeeded", jobs[j].state # "succeeded"
               PROVE  sbom'[j[2]] # NoSource
    OBVIOUS
  <2>1. JobStep(j) /\ jobs[j] \in ScanJob
    BY NextJobStep DEF TypeOK
  <2>2. \E w \in Workers : /\ exec[w].pc = "finish" /\ exec[w].live /\ exec[w].job = j
                           /\ UNCHANGED sbom
    BY <2>1, OnlyFinishSucceeds DEF JobStep
  <2> QED
    BY <2>2 DEF HolderInv, Holds, DigestOf
<1> QED
  BY <1>1, <1>2, <1>3, TypeCorrect, PTL DEF Spec, SuccessHasSBOM
=============================================================================
