-------------------------- MODULE EnrichmentProofs --------------------------
(***************************************************************************)
(* Proofs about EnrichmentQueue, for every set of SBOMs and workers, every *)
(* partition of the workers and every value of the limits.                 *)
(***************************************************************************)
EXTENDS EnrichmentQueue, SequenceTheorems, TLAPS

-----------------------------------------------------------------------------
(***************************************************************************)
(* The inductive invariant                                                 *)
(***************************************************************************)

(***************************************************************************)
(* Ids are given out once, and rows exist only for stored SBOMs.  A        *)
(* goroutine's SBOM may be gone, but its id will not come back under it.   *)
(* An id that was given out was given to an SBOM with what it must have.   *)
(***************************************************************************)
NeverBack ==
    /\ stored \cap unused = {}
    /\ \A k \in Keys : jobs[k].state # "absent" => k[1] \in stored
    /\ \A w \in Workers : Busy(w) => SbomOf(w) \notin unused
    /\ \A s \in Sboms \ unused : validateContainerRequired(CallerMeta[s])

(* A goroutine runs its own partition, and a --once run has no job to end. *)
OwnPartition ==
    \A w \in Workers : Busy(w) =>
        /\ exec[w].key[2] = EnricherOf[w]
        /\ exec[w].pc \in {"finish", "dependents", "fail"} => ~exec[w].once

(* Steps that come only after the result was stored. *)
Stores(w) == exec[w].pc \in {"version", "sufficient", "finish"}

(* A goroutine past its store has left a result, if its SBOM still exists. *)
ResultLeft ==
    \A w \in Workers :
        Stores(w) /\ SbomOf(w) \in stored => result[exec[w].key] # "none"

(* While the dependent is missing, a goroutine that will chain is on it. *)
ChainHeld ==
    \A s \in stored \ missed, n \in Names : \A d \in Dependents(n) :
        /\ jobs[<<s, n>>].state = "succeeded" /\ result[<<s, n>>] = "success"
        /\ jobs[<<s, d>>].state = "absent"
        => \E w \in Workers : Busy(w) /\ exec[w].key = <<s, n>> /\ ~exec[w].once

IInv ==
    /\ TypeOK /\ NeverBack /\ OwnPartition /\ ResultLeft /\ ChainHeld
    /\ EnrichBudget /\ DependentHasPrerequisites /\ SuccessHasResult
-----------------------------------------------------------------------------
(***************************************************************************)
(* The statements of enrichment_jobs.sql, row by row, and the graph        *)
(***************************************************************************)

(* Every statement leaves a well-formed row. *)
LEMMA RowType ==
    ASSUME NEW r \in EnrichJob
    PROVE  /\ NoRow \in EnrichJob /\ Fresh \in EnrichJob
           /\ InsertEnrichmentJob(r) \in EnrichJob
           /\ ClaimEnrichmentJob(r) \in EnrichJob
           /\ FinishEnrichmentJobByID(r) \in EnrichJob
           /\ \A m \in Nat : FailOrRequeueEnrichmentJobByID(r, m) \in EnrichJob
           /\ \A t, m \in Nat : RequeueStuckEnrichmentJobs(r, t, m) \in EnrichJob
           /\ RetryEnrichmentJob(r) \in EnrichJob
           /\ Aged(r) \in EnrichJob
<1> USE DEF EnrichJob, EnrichJobState, NoRow, Fresh
<1>1. NoRow \in EnrichJob /\ Fresh \in EnrichJob
  OBVIOUS
<1>2. InsertEnrichmentJob(r) \in EnrichJob /\ RetryEnrichmentJob(r) \in EnrichJob
  BY DEF InsertEnrichmentJob, RetryEnrichmentJob
<1>3. ClaimEnrichmentJob(r) \in EnrichJob /\ FinishEnrichmentJobByID(r) \in EnrichJob
  BY DEF ClaimEnrichmentJob, FinishEnrichmentJobByID
<1>4. \A m \in Nat : SpendAttempt(r, m) \in EnrichJob
  BY DEF SpendAttempt
<1>5. /\ \A m \in Nat : FailOrRequeueEnrichmentJobByID(r, m) \in EnrichJob
      /\ \A t, m \in Nat : RequeueStuckEnrichmentJobs(r, t, m) \in EnrichJob
  BY <1>4 DEF FailOrRequeueEnrichmentJobByID, RequeueStuckEnrichmentJobs
<1>6. Aged(r) \in EnrichJob
  BY DEF Aged
<1> QED
  BY <1>1, <1>2, <1>3, <1>5, <1>6

(* The roots have no prerequisites; a dependent has just the one it is on. *)
LEMMA Graph ==
    /\ \A n \in Names : Prerequisites(n) \subseteq Names /\ Dependents(n) \subseteq Names
    /\ \A i \in 1 .. Len(rootEnrichers) :
         rootEnrichers[i] \in Names /\ Prerequisites(rootEnrichers[i]) = {}
    /\ \A n \in Names : \A d \in Dependents(n) : Prerequisites(d) = {n}
BY DEF Names, rootEnrichers, enricherDeps, Prerequisites, Dependents

-----------------------------------------------------------------------------
(***************************************************************************)
(* Type correctness                                                        *)
(***************************************************************************)

(* A goroutine that is not idle runs a key of the table. *)
LEMMA BusyType ==
    ASSUME TypeOK, NEW w \in Workers, Busy(w)
    PROVE  /\ exec[w] \in Execution
           /\ exec[w].key \in Keys
           /\ SbomOf(w) \in Sboms /\ exec[w].key[2] \in Names
           /\ exec[w].key = <<SbomOf(w), exec[w].key[2]>>
BY DEF TypeOK, Busy, Idle, Execution, SbomOf, Keys

(* A step of the processor moves, stops, fails or finishes a goroutine. *)
LEMMA MoveType ==
    ASSUME TypeOK, NEW w \in Workers, Busy(w),
           \/ \E pc \in Steps : Go(w, pc)
           \/ Stop(w) \/ Err(w) \/ Processed(w) \/ AfterStore(w)
    PROVE  exec' \in [Workers -> Execution \cup {Idle}]
<1> USE BusyType DEF Steps
<1>1. ASSUME NEW pc \in Steps, Go(w, pc)
      PROVE  exec' \in [Workers -> Execution \cup {Idle}]
  BY <1>1, SMTT(60) DEF TypeOK, Go, Execution
<1>2. CASE Stop(w)
  BY <1>2 DEF TypeOK, Stop
<1>3. ASSUME NEW pc \in {"fail", "finish"}
      PROVE  [Idle EXCEPT !.pc = pc, !.key = exec[w].key,
                          !.elapsed = exec[w].elapsed] \in Execution
  BY DEF Idle, Execution, NoMeta, Meta
<1>4. CASE Err(w)
  BY <1>2, <1>3, <1>4 DEF TypeOK, Err
<1>5. CASE Processed(w)
  BY <1>2, <1>3, <1>5 DEF TypeOK, Processed
<1>6. CASE AfterStore(w)
  BY <1>1, <1>5, <1>6 DEF AfterStore
<1> QED
  BY <1>1, <1>2, <1>4, <1>5, <1>6

(* A claim and a --once run start from a row of the table. *)
LEMMA RunType ==
    ASSUME TypeOK, NEW k \in Keys
    PROVE  /\ Run(k) \in Execution
           /\ [Run(k) EXCEPT !.once = TRUE] \in Execution
<1> DEFINE seen == k[1] \in version
<1>1. seen \in BOOLEAN
  OBVIOUS
<1>2. Run(k) = [Idle EXCEPT !.pc = "enrich", !.key = k, !.seen = seen]
  BY DEF Run
<1> HIDE DEF seen
<1>3. Run(k) = [pc |-> "enrich", key |-> k, elapsed |-> 0, once |-> FALSE,
                seen |-> seen, outcome |-> "error", data |-> NoMeta]
  BY <1>2 DEF Idle
<1>4. NoMeta \in Meta /\ 0 \in 0 .. MaxRun
  BY EnrichmentQueueAssumption DEF NoMeta, Meta
<1>5. Run(k) \in Execution
  BY <1>1, <1>3, <1>4 DEF Execution, Steps
<1> QED
  BY <1>5 DEF Execution

(* A claim keeps the types of the table and of the pool. *)
LEMMA ClaimType ==
    ASSUME TypeOK, NEW w \in Workers, NEW k \in Keys, Claim(w, k)
    PROVE  /\ jobs' \in [Keys -> EnrichJob]
           /\ exec' \in [Workers -> Execution \cup {Idle}]
<1>1. jobs[k] \in EnrichJob
  BY DEF TypeOK
<1> QED
  BY <1>1, RowType, RunType DEF TypeOK, Claim

(* A hint names a stored SBOM's id, in every consumer or in none. *)
LEMMA HintType ==
    ASSUME TypeOK, NEW s \in Sboms, PublishHint(s)
    PROVE  hints' \in [Consumers -> SUBSET {SbomID(t) : t \in Sboms}]
BY DEF TypeOK, PublishHint, HintID

(* The empty tables, idle workers and empty channels are well typed. *)
LEMMA TypeInit == Init => TypeOK
BY RowType, EmptySeq DEF Init, TypeOK, EnrichJob, EnrichJobState, NoRow

(* A step of the ingest or of the submitter keeps every type. *)
LEMMA TypeSubmission ==
    ASSUME TypeOK, NEW s \in Sboms, Ingest(s) \/ EnqueueRoot(s) \/ SubmitStops(s)
    PROVE  TypeOK'
<1> DEFINE Roots == {rootEnrichers[i] : i \in 1 .. Len(rootEnrichers)}
<1> USE DEF tables, budget
<1>1. CASE Ingest(s)
  <2>1. rootEnrichers \in Seq(Roots)
    <3> HIDE DEF Roots
    <3>1. rootEnrichers \in Seq({"user", "oci-metadata", "provenance"})
      BY DEF rootEnrichers
    <3>2. {"user", "oci-metadata", "provenance"} \subseteq Roots
      <4>1. /\ 1 \in 1 .. Len(rootEnrichers) /\ rootEnrichers[1] = "user"
            /\ 2 \in 1 .. Len(rootEnrichers) /\ rootEnrichers[2] = "oci-metadata"
            /\ 3 \in 1 .. Len(rootEnrichers) /\ rootEnrichers[3] = "provenance"
        BY DEF rootEnrichers
      <4> QED
        BY <4>1 DEF Roots
    <3> QED
      BY <3>1, <3>2, SeqDef
  <2> QED
    BY <1>1, <2>1 DEF TypeOK, Ingest
<1>2. CASE EnqueueRoot(s)
  <2>1. Head(submit[s]) \in Roots /\ Tail(submit[s]) \in Seq(Roots)
    BY <1>2, HeadTailProperties DEF TypeOK, EnqueueRoot
  <2>2. <<s, Head(submit[s])>> \in Keys
    BY <2>1, Graph DEF Keys
  <2>3. jobs' \in [Keys -> EnrichJob]
    BY <1>2, <2>2, RowType DEF TypeOK, EnqueueRoot
  <2>4. submit' \in [Sboms -> Seq(Roots)]
    BY <1>2, <2>1 DEF TypeOK, EnqueueRoot
  <2>5. hints' \in [Consumers -> SUBSET {SbomID(t) : t \in Sboms}]
    BY <1>2, HintType DEF TypeOK, EnqueueRoot
  <2> QED
    BY <1>2, <2>3, <2>4, <2>5 DEF TypeOK, EnqueueRoot
<1>3. CASE SubmitStops(s)
  <2>1. submit' \in [Sboms -> Seq(Roots)]
    BY <1>3, EmptySeq DEF TypeOK, SubmitStops
  <2>2. faults' \in Nat
    BY <1>3 DEF TypeOK, SubmitStops, SpendFault
  <2> QED
    BY <1>3, <2>1, <2>2 DEF TypeOK, SubmitStops
<1> QED
  BY <1>1, <1>2, <1>3
(* A step of a worker keeps every type. *)
LEMMA TypeWork ==
    ASSUME TypeOK, NEW w \in Workers, Work(w)
    PROVE  TypeOK'
<1> USE DEF tables, budget
<1>0. EnricherOf[w] \in Consumers
  BY DEF Consumers
<1>1. CASE ClaimNext(w)
  <2>1. PICK k \in Keys : Claim(w, k)
    BY <1>1 DEF ClaimNext
  <2> QED
    BY <1>1, <2>1, ClaimType DEF TypeOK, ClaimNext
<1>2. ASSUME NEW id, ProcessHint(w, id)
      PROVE  TypeOK'
  <2>1. /\ jobs' \in [Keys -> EnrichJob]
        /\ exec' \in [Workers -> Execution \cup {Idle}]
    <3>1. CASE \E k \in Keys : Claim(w, k)
      BY <3>1, ClaimType
    <3>2. CASE UNCHANGED <<jobs, exec>>
      BY <3>2 DEF TypeOK
    <3> QED
      BY <1>2, <3>1, <3>2 DEF ProcessHint
  <2>2. hints' \in [Consumers -> SUBSET {SbomID(s) : s \in Sboms}]
    BY <1>0, <1>2 DEF TypeOK, ProcessHint
  <2> QED
    BY <1>2, <2>1, <2>2 DEF TypeOK, ProcessHint
<1>3. CASE Enrich(w)
  <2>1. Busy(w)
    BY <1>3 DEF Enrich, At, Busy
  <2>2. Results(w) \subseteq Meta
    <3>1. /\ (CallerMeta[SbomOf(w)].arch /\ ~exec[w].once) \in BOOLEAN
          /\ exec[w].seen \in BOOLEAN
      BY <2>1, BusyType DEF Execution
    <3>2. {[arch |-> CallerMeta[SbomOf(w)].arch /\ ~exec[w].once,
            version |-> exec[w].seen]} \subseteq Meta
      <4> DEFINE arch == CallerMeta[SbomOf(w)].arch /\ ~exec[w].once
      <4>1. arch \in BOOLEAN
        BY <3>1
      <4> HIDE DEF arch
      <4>2. [arch |-> arch, version |-> exec[w].seen] \in Meta
        BY <3>1, <4>1 DEF Meta
      <4> QED
        BY <4>2 DEF arch
    <3>3. ImageMeta[SbomOf(w)] \subseteq Meta /\ {NoMeta} \subseteq Meta
      BY <2>1, BusyType, EnrichmentQueueAssumption DEF NoMeta, Meta
    <3> QED
      BY <3>2, <3>3 DEF Results
  <2>3. exec' \in [Workers -> Execution \cup {Idle}]
    <3>1. CASE Processed(w) \/ Go(w, "store")
      BY <2>1, <3>1, MoveType DEF Steps
    <3>2. ASSUME NEW d \in Meta,
                 exec' = [exec EXCEPT ![w].pc = "store", ![w].outcome = "success",
                                      ![w].data = d]
          PROVE  exec' \in [Workers -> Execution \cup {Idle}]
      <4>1. [exec[w] EXCEPT !.pc = "store", !.outcome = "success", !.data = d] \in Execution
        BY <2>1, BusyType DEF Execution, Steps
      <4>2. exec' = [exec EXCEPT ![w] = [exec[w] EXCEPT !.pc = "store", !.outcome = "success",
                                                        !.data = d]]
        BY <2>1, <3>2, BusyType DEF TypeOK
      <4> QED
        BY <4>1, <4>2 DEF TypeOK
    <3> QED
      BY <1>3, <2>2, <3>1, <3>2 DEF Enrich
  <2> QED
    BY <1>3, <2>3 DEF TypeOK, Enrich
<1>4. CASE StoreResult(w)
  <2>1. Busy(w)
    BY <1>4 DEF StoreResult, At, Busy
  <2>2. exec' \in [Workers -> Execution \cup {Idle}]
    BY <1>4, <2>1, MoveType DEF StoreResult
  <2>3. result' \in [Keys -> {"none", "error", "success"}]
    BY <1>4, <2>1, BusyType DEF TypeOK, StoreResult, UpsertEnrichment, Execution
  <2>4. missed' \subseteq Sboms /\ faults' \in Nat
    BY <1>4, <2>1, BusyType DEF TypeOK, StoreResult, SpendFault
  <2> QED
    BY <1>4, <2>2, <2>3, <2>4 DEF TypeOK, StoreResult
<1>5. CASE ApplyOCIVersion(w)
  <2>1. Busy(w)
    BY <1>5 DEF ApplyOCIVersion, At, Busy
  <2>2. exec' \in [Workers -> Execution \cup {Idle}]
    BY <1>5, <2>1, MoveType DEF ApplyOCIVersion, Steps
  <2>3. version' \subseteq Sboms /\ faults' \in Nat
    BY <1>5 DEF TypeOK, ApplyOCIVersion, SpendFault
  <2> QED
    BY <1>5, <2>2, <2>3 DEF TypeOK, ApplyOCIVersion
<1>6. CASE ApplyEnrichmentSufficiency(w)
  <2>1. Busy(w)
    BY <1>6 DEF ApplyEnrichmentSufficiency, At, Busy
  <2>2. exec' \in [Workers -> Execution \cup {Idle}]
    BY <1>6, <2>1, MoveType DEF ApplyEnrichmentSufficiency
  <2>3. sufficient' \subseteq Sboms /\ faults' \in Nat
    BY <1>6 DEF TypeOK, ApplyEnrichmentSufficiency, SpendFault
  <2> QED
    BY <1>6, <2>2, <2>3 DEF TypeOK, ApplyEnrichmentSufficiency
<1>7. CASE Finish(w)
  <2>1. Busy(w)
    BY <1>7 DEF Finish, At, Busy
  <2>2. exec' \in [Workers -> Execution \cup {Idle}]
    BY <1>7, <2>1, MoveType DEF Finish, Steps
  <2>3. jobs' \in [Keys -> EnrichJob] /\ faults' \in Nat
    BY <1>7, <2>1, BusyType, RowType DEF TypeOK, Finish, SpendFault
  <2> QED
    BY <1>7, <2>2, <2>3 DEF TypeOK, Finish
<1>8. CASE EnqueueDependents(w)
  <2>1. Busy(w)
    BY <1>8 DEF EnqueueDependents, At, Busy
  <2>2. exec' \in [Workers -> Execution \cup {Idle}]
    BY <1>8, <2>1, MoveType DEF EnqueueDependents
  <2>3. jobs' \in [Keys -> EnrichJob]
    BY <1>8, RowType DEF TypeOK, EnqueueDependents
  <2>4. hints' \in [Consumers -> SUBSET {SbomID(s) : s \in Sboms}]
    BY <1>8, <2>1, BusyType, HintType DEF TypeOK, EnqueueDependents
  <2>5. missed' \subseteq Sboms /\ faults' \in Nat
    BY <1>8, <2>1, BusyType DEF TypeOK, EnqueueDependents, SpendFault
  <2> QED
    BY <1>8, <2>2, <2>3, <2>4, <2>5 DEF TypeOK, EnqueueDependents
<1>9. CASE Fail(w)
  <2>1. Busy(w)
    BY <1>9 DEF Fail, At, Busy
  <2>2. exec' \in [Workers -> Execution \cup {Idle}]
    BY <1>9, <2>1, MoveType DEF Fail
  <2>3. jobs' \in [Keys -> EnrichJob]
    <3>1. jobs[exec[w].key] \in EnrichJob /\ MaxAttempts \in Nat
      BY <2>1, BusyType, EnrichmentQueueAssumption DEF TypeOK
    <3>2. FailOrRequeueEnrichmentJobByID(jobs[exec[w].key], MaxAttempts) \in EnrichJob
      BY <3>1, RowType
    <3> QED
      BY <1>9, <3>2 DEF TypeOK, Fail
  <2>4. missed' \subseteq Sboms /\ faults' \in Nat
    BY <1>9, <2>1, BusyType DEF TypeOK, Fail, SpendFault
  <2> QED
    BY <1>9, <2>2, <2>3, <2>4 DEF TypeOK, Fail
<1> QED
  BY <1>1, <1>2, <1>3, <1>4, <1>5, <1>6, <1>7, <1>8, <1>9 DEF Work

(* A crash and a --once run keep every type. *)
LEMMA TypeProcess ==
    ASSUME TypeOK, NEW w \in Workers, Crash(w) \/ \E s \in Sboms : RunOnce(w, s)
    PROVE  TypeOK'
<1> USE DEF tables, budget
<1>1. CASE Crash(w)
  BY <1>1, BusyType DEF TypeOK, Crash, SpendFault, Stop
<1>2. ASSUME NEW s \in Sboms, RunOnce(w, s)
      PROVE  TypeOK'
  <2>1. <<s, EnricherOf[w]>> \in Keys
    BY EnrichmentQueueAssumption DEF Keys
  <2> QED
    BY <1>2, <2>1, RunType DEF TypeOK, RunOnce, SpendOp
<1> QED
  BY <1>1, <1>2

(* Time, the sweep, retries and deletes keep every type. *)
LEMMA TypeTable ==
    ASSUME TypeOK,
           \/ Tick \/ StuckSweep
           \/ \E k \in Keys : Retry(k)
           \/ \E n \in Names : RetryAllFailed(n)
           \/ \E s \in Sboms : DeleteSbom(s)
    PROVE  TypeOK'
<1> USE DEF tables, budget
<1>1. CASE Tick
  <2>1. exec' \in [Workers -> Execution \cup {Idle}]
    <3> SUFFICES ASSUME NEW w \in Workers, Busy(w)
                 PROVE  [exec[w] EXCEPT !.elapsed = @ + 1] \in Execution
      BY <1>1 DEF TypeOK, Tick
    <3>1. exec[w] \in Execution /\ exec[w].elapsed < MaxRun
      BY <1>1, BusyType DEF Tick
    <3> QED
      BY <3>1, EnrichmentQueueAssumption DEF Execution
  <2> QED
    BY <1>1, <2>1, RowType DEF TypeOK, Tick
<1>2. CASE StuckSweep
  BY <1>2, RowType, EnrichmentQueueAssumption DEF TypeOK, StuckSweep
<1>3. ASSUME NEW k \in Keys, Retry(k)
      PROVE  TypeOK'
  BY <1>3, RowType DEF TypeOK, Retry, SpendOp
<1>4. ASSUME NEW n \in Names, RetryAllFailed(n)
      PROVE  TypeOK'
  BY <1>4, RowType DEF TypeOK, RetryAllFailed, SpendOp
<1>5. ASSUME NEW s \in Sboms, DeleteSbom(s)
      PROVE  TypeOK'
  <2>1. jobs' \in [Keys -> EnrichJob] /\ result' \in [Keys -> {"none", "error", "success"}]
    BY <1>5, RowType DEF TypeOK, DeleteSbom
  <2>2. /\ version' \subseteq Sboms /\ sufficient' \subseteq Sboms
        /\ stored' \subseteq Sboms /\ ops' \in Nat
    BY <1>5 DEF TypeOK, DeleteSbom, SpendOp
  <2> QED
    BY <1>5, <2>1, <2>2 DEF TypeOK, DeleteSbom
<1> QED
  BY <1>1, <1>2, <1>3, <1>4, <1>5

(* Every step keeps every type. *)
LEMMA TypeNext == TypeOK /\ [Next]_vars => TypeOK'
<1> SUFFICES ASSUME TypeOK, [Next]_vars
             PROVE  TypeOK'
  OBVIOUS
<1>1. CASE UNCHANGED vars
  BY <1>1 DEF TypeOK, vars, tables, budget
<1> QED
  BY <1>1, TypeSubmission, TypeWork, TypeProcess, TypeTable DEF Next

(* Every reachable state is well typed, for every value of the constants. *)
THEOREM TypeCorrect == Spec => []TypeOK
  BY TypeInit, TypeNext, PTL DEF Spec
-----------------------------------------------------------------------------
(***************************************************************************)
(* What one step can do to a job row, to a result, to the set of stored    *)
(* SBOMs and to a goroutine, with who may do it.                           *)
(***************************************************************************)
JobStep(k) ==
    \/ jobs'[k] = jobs[k]
    \/ /\ \A p \in Prerequisites(k[2]) : result[<<k[1], p>>] = "success"
       /\ k[1] \in stored /\ UNCHANGED <<result, stored>>
       /\ jobs'[k] = InsertEnrichmentJob(jobs[k])
    \/ jobs[k].state = "queued" /\ jobs'[k] = ClaimEnrichmentJob(jobs[k])
    \/ /\ \E w \in Workers : At(w, "finish") /\ exec[w].key = k
       /\ jobs'[k] = FinishEnrichmentJobByID(jobs[k])
    \/ jobs'[k] = FailOrRequeueEnrichmentJobByID(jobs[k], MaxAttempts)
    \/ jobs'[k] = RequeueStuckEnrichmentJobs(jobs[k], StuckThreshold, MaxAttempts)
    \/ jobs'[k] = RetryEnrichmentJob(jobs[k])
    \/ jobs'[k] = Aged(jobs[k])
    \/ k[1] \notin stored' /\ jobs'[k] = NoRow

ResultStep(k) ==
    \/ result'[k] = result[k]
    \/ /\ \E w \in Workers :
            /\ Busy(w) /\ exec[w].key = k
            /\ exec[w].once => k[1] \in missed'
            /\ result'[k] = UpsertEnrichment(result[k], exec[w].outcome)
       /\ k[1] \in stored
    \/ k[1] \notin stored' /\ result'[k] = "none"

StoredStep ==
    /\ missed \subseteq missed'
    /\ \/ UNCHANGED <<stored, unused>>
       \/ \E s \in unused :
            /\ validateContainerRequired(CallerMeta[s])
            /\ stored' = stored \cup {s} /\ unused' = unused \ {s}
            /\ UNCHANGED <<jobs, result, exec>>
       \/ \E s \in stored :
            /\ stored' = stored \ {s} /\ UNCHANGED <<unused, exec>>
            /\ \A k \in Keys : k[1] = s => jobs'[k] = NoRow

(* The goroutine rests, starts on a row or a --once run, moves on, or ends. *)
Rests(w) ==
    \/ exec'[w] = exec[w]
    \/ Busy(w) /\ exec'[w] = [exec[w] EXCEPT !.elapsed = @ + 1]

Starts(w) ==
    /\ ~Busy(w) /\ UNCHANGED <<stored, unused>>
    /\ \E k \in Keys :
         /\ k[2] = EnricherOf[w] /\ k[1] \in stored
         /\ exec'[w] \in {Run(k), [Run(k) EXCEPT !.once = TRUE]}

Moves(w) ==
    /\ Busy(w) /\ Busy(w)' /\ UNCHANGED <<stored, unused>>
    /\ exec'[w].key = exec[w].key /\ exec'[w].once = exec[w].once
    /\ exec'[w].pc \in {"finish", "dependents", "fail"} => ~exec[w].once
    /\ Stores(w)' => (Stores(w) /\ UNCHANGED result) \/ result'[exec[w].key] # "none"

(* A goroutine leaves its row chained, marked as missed, or to be run again. *)
Ends(w) ==
    /\ Busy(w) /\ exec'[w] = Idle
    /\ \/ exec[w].once
       \/ SbomOf(w) \in missed'
       \/ jobs'[exec[w].key].state # "succeeded"
       \/ /\ UNCHANGED result
          /\ \A d \in Dependents(exec[w].key[2]) :
               result[exec[w].key] = "success" => jobs'[<<SbomOf(w), d>>].state # "absent"

ExecStep(w) == Rests(w) \/ Starts(w) \/ Moves(w) \/ Ends(w)

(* No hint names a job: both publishers send the id of an SBOM. *)
LEMMA HintsNameNoJob ==
    ASSUME TypeOK, NEW w \in Workers, NEW id \in hints[EnricherOf[w]], NEW k \in Keys
    PROVE  JobID(k[1], k[2]) # id
<1>1. PICK s \in Sboms : id = SbomID(s)
  BY DEF TypeOK, Consumers
<1> QED
  BY <1>1 DEF SbomID, JobID

(* A hint only wakes the worker. *)
LEMMA HintWakes ==
    ASSUME TypeOK, NEW w \in Workers, NEW id, ProcessHint(w, id)
    PROVE  UNCHANGED <<jobs, result, stored, unused, exec, missed>>
BY HintsNameNoJob DEF ProcessHint, budget

(* A step of a worker writes rows as their statements do. *)
LEMMA WorkJobStep ==
    ASSUME TypeOK, NEW w \in Workers, Work(w), NEW k \in Keys
    PROVE  JobStep(k)
<1>1. CASE ClaimNext(w)
  BY <1>1 DEF ClaimNext, Claim, JobStep, TypeOK
<1>2. CASE UNCHANGED jobs
  BY <1>2 DEF JobStep
<1>3. CASE Finish(w)
  BY <1>3 DEF Finish, JobStep, TypeOK
<1>4. CASE EnqueueDependents(w)
  <2>1. CASE k[1] = SbomOf(w) /\ k[2] \in ReadyDependents(w)
    BY <1>4, <2>1 DEF EnqueueDependents, ReadyDependents, JobStep
  <2>2. CASE ~(k[1] = SbomOf(w) /\ k[2] \in ReadyDependents(w))
    BY <1>4, <2>2 DEF EnqueueDependents, JobStep
  <2> QED
    BY <2>1, <2>2
<1>5. CASE Fail(w)
  BY <1>5 DEF Fail, JobStep, TypeOK
<1> QED
  BY <1>1, <1>2, <1>3, <1>4, <1>5, HintWakes
     DEF Work, Enrich, StoreResult, ApplyOCIVersion, ApplyEnrichmentSufficiency, tables

(* Every step writes rows as their statements do. *)
LEMMA NextJobStep ==
    ASSUME TypeOK, [Next]_vars, NEW k \in Keys
    PROVE  JobStep(k)
<1> USE DEF tables
<1>1. CASE UNCHANGED jobs
  BY <1>1 DEF JobStep
<1>2. ASSUME NEW s \in Sboms, EnqueueRoot(s)
      PROVE  JobStep(k)
  <2>1. PICK i \in 1 .. Len(rootEnrichers) : Head(submit[s]) = rootEnrichers[i]
    <3> DEFINE Roots == {rootEnrichers[i] : i \in 1 .. Len(rootEnrichers)}
    <3>1. Head(submit[s]) \in Roots
      BY <1>2, HeadTailProperties DEF TypeOK, EnqueueRoot
    <3> QED
      BY <3>1
  <2>2. Prerequisites(Head(submit[s])) = {}
    BY <2>1, Graph
  <2>3. CASE k = <<s, Head(submit[s])>>
    <3>1. k[1] = s /\ k[2] = Head(submit[s])
      BY <2>3
    <3>2. jobs'[k] = InsertEnrichmentJob(jobs[k])
      BY <1>2, <2>3 DEF EnqueueRoot, TypeOK
    <3> QED
      BY <1>2, <2>2, <3>1, <3>2 DEF EnqueueRoot, JobStep
  <2>4. CASE k # <<s, Head(submit[s])>>
    BY <1>2, <2>4 DEF EnqueueRoot, JobStep, TypeOK
  <2> QED
    BY <2>3, <2>4
<1>3. ASSUME NEW s \in Sboms, DeleteSbom(s)
      PROVE  JobStep(k)
  BY <1>3 DEF DeleteSbom, JobStep
<1>4. CASE Tick \/ StuckSweep
  BY <1>4 DEF Tick, StuckSweep, JobStep
<1>5. ASSUME NEW j \in Keys, Retry(j)
      PROVE  JobStep(k)
  BY <1>5 DEF Retry, JobStep, TypeOK
<1>6. ASSUME NEW n \in Names, RetryAllFailed(n)
      PROVE  JobStep(k)
  BY <1>6 DEF RetryAllFailed, JobStep
<1> QED
  BY <1>1, <1>2, <1>3, <1>4, <1>5, <1>6, WorkJobStep
     DEF Next, Ingest, SubmitStops, Crash, RunOnce, vars
(* A result is stored by a goroutine of its key, or goes with its SBOM. *)
LEMMA NextResultStep ==
    ASSUME TypeOK, OwnPartition, [Next]_vars, NEW k \in Keys
    PROVE  ResultStep(k)
<1> USE DEF tables
<1>1. CASE UNCHANGED result
  BY <1>1 DEF ResultStep
<1>2. ASSUME NEW w \in Workers, StoreResult(w), ~UNCHANGED result
      PROVE  ResultStep(k)
  <2>1. Busy(w) /\ exec[w].key = <<SbomOf(w), EnricherOf[w]>> /\ SbomOf(w) \in stored
    <3>1. Busy(w)
      BY <1>2 DEF StoreResult, At, Busy
    <3> QED
      BY <1>2, <3>1, BusyType DEF StoreResult, OwnPartition
  <2>2. /\ result' = [result EXCEPT ![exec[w].key] = UpsertEnrichment(@, exec[w].outcome)]
        /\ exec[w].once => SbomOf(w) \in missed'
    BY <1>2, <2>1 DEF StoreResult
  <2>3. CASE k = exec[w].key
    <3>1. result'[k] = UpsertEnrichment(result[k], exec[w].outcome)
      BY <2>2, <2>3 DEF TypeOK
    <3> QED
      BY <2>1, <2>2, <2>3, <3>1 DEF ResultStep, SbomOf
  <2>4. CASE k # exec[w].key
    BY <2>2, <2>4 DEF ResultStep, TypeOK
  <2> QED
    BY <2>3, <2>4
<1>3. ASSUME NEW s \in Sboms, DeleteSbom(s)
      PROVE  ResultStep(k)
  BY <1>3 DEF DeleteSbom, ResultStep
<1> QED
  BY <1>1, <1>2, <1>3, HintWakes
     DEF Next, Work, Ingest, EnqueueRoot, SubmitStops, Crash, RunOnce, ClaimNext, Enrich,
         ApplyOCIVersion, ApplyEnrichmentSufficiency, Finish, EnqueueDependents, Fail,
         Retry, RetryAllFailed, Tick, StuckSweep, vars

(* SBOMs come from the unused ids and go with their rows. *)
LEMMA NextStoredStep ==
    ASSUME TypeOK, [Next]_vars
    PROVE  StoredStep
<1> USE DEF tables
<1>1. CASE UNCHANGED <<stored, unused, missed>>
  BY <1>1 DEF StoredStep
<1>2. ASSUME NEW s \in Sboms, Ingest(s)
      PROVE  StoredStep
  BY <1>2 DEF Ingest, StoredStep
<1>3. ASSUME NEW s \in Sboms, DeleteSbom(s)
      PROVE  StoredStep
  BY <1>3 DEF DeleteSbom, StoredStep
<1>4. ASSUME NEW s \in Sboms, SubmitStops(s)
      PROVE  StoredStep
  BY <1>4 DEF SubmitStops, StoredStep
<1>5. ASSUME NEW w \in Workers,
             StoreResult(w) \/ EnqueueDependents(w) \/ Fail(w) \/ Crash(w)
      PROVE  StoredStep
  BY <1>5 DEF StoreResult, EnqueueDependents, Fail, Crash, StoredStep
<1> QED
  BY <1>1, <1>2, <1>3, <1>4, <1>5
     DEF Next, Work, EnqueueRoot, RunOnce, ClaimNext, ProcessHint, Enrich,
         ApplyOCIVersion, ApplyEnrichmentSufficiency, Finish,
         Retry, RetryAllFailed, Tick, StuckSweep, vars
(* An assignment to one goroutine leaves the others alone. *)
LEMMA SetExec ==
    ASSUME TypeOK, NEW w \in Workers, NEW x, exec' = [exec EXCEPT ![w] = x]
    PROVE  /\ exec'[w] = x
           /\ \A v \in Workers : v # w => exec'[v] = exec[v]
BY DEF TypeOK

(* What Processed and Err leave of the goroutine that they move. *)
LEMMA EndExec ==
    ASSUME TypeOK, NEW w \in Workers, Busy(w), Processed(w) \/ Err(w)
    PROVE  /\ \A v \in Workers : v # w => exec'[v] = exec[v]
           /\ exec[w].once => exec'[w] = Idle
           /\ ~exec[w].once =>
                /\ exec'[w].key = exec[w].key /\ exec'[w].once = exec[w].once
                /\ Processed(w) => exec'[w].pc = "finish"
                /\ Err(w) => exec'[w].pc = "fail"
<1> DEFINE Left(pc) == [Idle EXCEPT !.pc = pc, !.key = exec[w].key,
                                    !.elapsed = exec[w].elapsed]
<1>1. ASSUME NEW pc
      PROVE  /\ Left(pc).key = exec[w].key /\ Left(pc).once = FALSE /\ Left(pc).pc = pc
  BY DEF Idle
<1>2. exec[w] \in Execution
  BY BusyType
<1>3. exec[w].once \in BOOLEAN
  BY <1>2 DEF Execution
<1>4. CASE exec[w].once /\ (Processed(w) \/ Err(w))
  BY <1>4, SetExec DEF Processed, Err, Stop
<1>5. ASSUME ~exec[w].once, NEW pc, exec' = [exec EXCEPT ![w] = Left(pc)]
      PROVE  /\ \A v \in Workers : v # w => exec'[v] = exec[v]
             /\ exec'[w].key = exec[w].key /\ exec'[w].once = exec[w].once
             /\ exec'[w].pc = pc
  <2> HIDE DEF Left
  <2>1. exec'[w] = Left(pc) /\ \A v \in Workers : v # w => exec'[v] = exec[v]
    BY <1>5, SetExec
  <2>2. exec[w].once = FALSE
    BY <1>3, <1>5
  <2>3. exec'[w].key = exec[w].key /\ exec'[w].once = FALSE /\ exec'[w].pc = pc
    BY <1>1, <2>1
  <2> QED
    BY <2>1, <2>2, <2>3
<1>6. /\ ~exec[w].once /\ Processed(w) => exec' = [exec EXCEPT ![w] = Left("finish")]
      /\ ~exec[w].once /\ Err(w) => exec' = [exec EXCEPT ![w] = Left("fail")]
  BY DEF Processed, Err
<1> HIDE DEF Left
<1> QED
  BY <1>4, <1>5, <1>6

(* Go only moves the program counter. *)
LEMMA GoExec ==
    ASSUME TypeOK, NEW w \in Workers, Busy(w), NEW pc, Go(w, pc)
    PROVE  /\ \A v \in Workers : v # w => exec'[v] = exec[v]
           /\ exec'[w].key = exec[w].key /\ exec'[w].once = exec[w].once
           /\ exec'[w].pc = pc
<1>1. exec[w] \in Execution
  BY BusyType
<1>2. exec' = [exec EXCEPT ![w] = [exec[w] EXCEPT !.pc = pc]]
  BY <1>1 DEF Go, TypeOK
<1>3. /\ [exec[w] EXCEPT !.pc = pc].key = exec[w].key
      /\ [exec[w] EXCEPT !.pc = pc].once = exec[w].once
      /\ [exec[w] EXCEPT !.pc = pc].pc = pc
  BY <1>1 DEF Execution
<1> QED
  BY <1>2, <1>3, SetExec

(* Moving on is an ExecStep of every goroutine. *)
LEMMA MoveStep ==
    ASSUME TypeOK, NEW w \in Workers, Busy(w), UNCHANGED <<stored, unused>>,
           \/ Processed(w) \/ Err(w)
           \/ \E pc \in Steps :
                Go(w, pc) /\ (pc \in {"finish", "dependents", "fail"} => ~exec[w].once),
           Stores(w)' => (Stores(w) /\ UNCHANGED result) \/ result'[exec[w].key] # "none"
    PROVE  \A v \in Workers : ExecStep(v)
<1>1. \A v \in Workers : v # w => Rests(v)
  BY EndExec, GoExec DEF Rests
<1>2. CASE exec[w].once /\ exec'[w] = Idle
  BY <1>1, <1>2 DEF Ends, ExecStep
<1>3. CASE exec'[w].key = exec[w].key /\ exec'[w].once = exec[w].once /\ exec'[w].pc \in Steps
           /\ (exec'[w].pc \in {"finish", "dependents", "fail"} => ~exec[w].once)
  <2>1. Busy(w)'
    BY <1>3 DEF Busy, Steps
  <2> QED
    BY <1>1, <1>3, <2>1 DEF Moves, ExecStep
<1>4. CASE Processed(w) \/ Err(w)
  BY <1>2, <1>3, <1>4, EndExec DEF Steps
<1>5. ASSUME NEW pc \in Steps, Go(w, pc),
             pc \in {"finish", "dependents", "fail"} => ~exec[w].once
      PROVE  \A v \in Workers : ExecStep(v)
  <2>1. exec'[w].key = exec[w].key /\ exec'[w].once = exec[w].once /\ exec'[w].pc = pc
    BY <1>5, GoExec
  <2> QED
    BY <1>3, <1>5, <2>1
<1> QED
  BY <1>4, <1>5

(* A claim and a --once run start a goroutine on a stored SBOM's row. *)
LEMMA StartStep ==
    ASSUME TypeOK, NEW w \in Workers, ~Busy(w), UNCHANGED <<stored, unused>>,
           NEW k \in Keys, k[2] = EnricherOf[w], k[1] \in stored,
           \/ exec' = [exec EXCEPT ![w] = Run(k)]
           \/ exec' = [exec EXCEPT ![w] = [Run(k) EXCEPT !.once = TRUE]]
    PROVE  \A v \in Workers : ExecStep(v)
<1>1. exec'[w] \in {Run(k), [Run(k) EXCEPT !.once = TRUE]}
  BY SetExec
<1>2. \A v \in Workers : v # w => Rests(v)
  BY SetExec DEF Rests
<1> QED
  BY <1>1, <1>2 DEF Starts, ExecStep

(* Stopping is an ExecStep once nothing is left to chain. *)
LEMMA StopStep ==
    ASSUME TypeOK, NEW w \in Workers, Busy(w), Stop(w),
           \/ exec[w].once
           \/ SbomOf(w) \in missed'
           \/ jobs'[exec[w].key].state # "succeeded"
           \/ /\ UNCHANGED result
              /\ \A d \in Dependents(exec[w].key[2]) :
                   result[exec[w].key] = "success" => jobs'[<<SbomOf(w), d>>].state # "absent"
    PROVE  \A v \in Workers : ExecStep(v)
<1>1. exec'[w] = Idle
  BY SetExec DEF Stop
<1>2. \A v \in Workers : v # w => Rests(v)
  BY SetExec DEF Rests, Stop
<1> QED
  BY <1>1, <1>2 DEF Ends, ExecStep

(* The steps of a worker are ExecSteps. *)
LEMMA WorkExecStep ==
    ASSUME TypeOK, NeverBack, OwnPartition, NEW w \in Workers, Work(w)
    PROVE  \A v \in Workers : ExecStep(v)
<1> USE DEF tables
<1>0. Busy(w) => exec[w].key = <<SbomOf(w), EnricherOf[w]>> /\ exec[w].key \in Keys
  BY BusyType DEF OwnPartition
<1>1. CASE ClaimNext(w)
  <2>1. PICK k \in Keys : k[2] = EnricherOf[w] /\ jobs[k].state = "queued" /\ Claim(w, k)
    BY <1>1 DEF ClaimNext
  <2>2. k[1] \in stored
    BY <2>1 DEF NeverBack
  <2> QED
    BY <1>1, <2>1, <2>2, StartStep DEF ClaimNext, Claim
<1>2. ASSUME NEW id, ProcessHint(w, id)
      PROVE  \A v \in Workers : ExecStep(v)
  BY <1>2, HintWakes DEF ExecStep, Rests
<1>3. CASE Enrich(w)
  <2>1. Busy(w) /\ exec[w] \in Execution
    BY <1>3, BusyType DEF Enrich, At, Busy
  <2>2. CASE ~CanEnrich(w) /\ Processed(w)
    <3>1. exec[w].once
      <4>1. SbomOf(w) \in Sboms \ unused
        BY <1>0, <2>1 DEF NeverBack, Keys
      <4> QED
        BY <2>2, <4>1 DEF NeverBack, validateContainerRequired, CanEnrich
    <3>2. ~Stores(w)'
      BY <2>1, <2>2, <3>1 DEF Processed, Stop, Stores, Idle, TypeOK
    <3> QED
      BY <1>3, <2>1, <2>2, <3>2, MoveStep DEF Enrich
  <2>3. CASE Go(w, "store")
    <3>1. exec'[w].pc = "store"
      BY <2>1, <2>3 DEF Go, TypeOK, Execution
    <3> QED
      BY <1>3, <2>1, <2>3, <3>1, MoveStep DEF Enrich, Steps, Stores
  <2>4. ASSUME NEW d,
               exec' = [exec EXCEPT ![w].pc = "store", ![w].outcome = "success",
                                    ![w].data = d]
        PROVE  \A v \in Workers : ExecStep(v)
    <3>1. exec' = [exec EXCEPT ![w] = [exec[w] EXCEPT !.pc = "store", !.outcome = "success",
                                                      !.data = d]]
      BY <2>1, <2>4 DEF TypeOK
    <3>2. /\ exec'[w].key = exec[w].key /\ exec'[w].once = exec[w].once
          /\ exec'[w].pc = "store"
      <4>1. exec'[w] = [exec[w] EXCEPT !.pc = "store", !.outcome = "success", !.data = d]
        BY <3>1, SetExec
      <4> QED
        BY <2>1, <4>1 DEF Execution
    <3>3. Moves(w)
      BY <1>3, <2>1, <3>2 DEF Enrich, Moves, Busy, Stores
    <3>4. \A v \in Workers : v # w => Rests(v)
      BY <3>1, SetExec DEF Rests
    <3> QED
      BY <3>3, <3>4 DEF ExecStep
  <2> QED
    BY <1>3, <2>2, <2>3, <2>4, Zenon DEF Enrich
<1>4. CASE StoreResult(w)
  <2>1. Busy(w)
    BY <1>4 DEF StoreResult, At, Busy
  <2>2. CASE Err(w)
    <3>1. ~Stores(w)'
      BY <2>1, <2>2, EndExec DEF Stores, Idle
    <3> QED
      BY <1>4, <2>1, <2>2, <3>1, MoveStep DEF StoreResult
  <2>3. CASE /\ AfterStore(w) /\ SbomOf(w) \in stored
             /\ result' = [result EXCEPT ![<<SbomOf(w), EnricherOf[w]>>] =
                                            UpsertEnrichment(@, exec[w].outcome)]
    <3>1. result'[exec[w].key] = UpsertEnrichment(result[exec[w].key], exec[w].outcome)
      BY <1>0, <2>1, <2>3 DEF TypeOK
    <3>2. result'[exec[w].key] # "none"
      BY <2>1, <3>1, BusyType DEF UpsertEnrichment, Execution
    <3>3. Processed(w) \/ Go(w, "version") \/ Go(w, "sufficient")
      BY <2>3 DEF AfterStore
    <3> QED
      BY <1>4, <2>1, <3>2, <3>3, MoveStep DEF StoreResult, Steps
  <2> QED
    BY <1>4, <2>2, <2>3 DEF StoreResult
<1>5. CASE ApplyOCIVersion(w)
  BY <1>5, MoveStep DEF ApplyOCIVersion, At, Busy, Stores, Steps
<1>6. CASE ApplyEnrichmentSufficiency(w)
  BY <1>6, MoveStep DEF ApplyEnrichmentSufficiency, At, Busy, Stores
<1>7. CASE Finish(w)
  <2>1. Busy(w) /\ ~exec[w].once
    BY <1>7 DEF Finish, At, Busy, OwnPartition
  <2>2. PICK pc \in {"dependents", "fail"} : Go(w, pc)
    BY <1>7 DEF Finish
  <2>3. exec'[w].pc = pc
    BY <2>1, <2>2, BusyType DEF Go, TypeOK, Execution
  <2> QED
    BY <1>7, <2>1, <2>2, <2>3, MoveStep DEF Finish, Steps, Stores
<1>8. CASE EnqueueDependents(w)
  <2>1. Busy(w)
    BY <1>8 DEF EnqueueDependents, At, Busy
  <2>2. CASE SbomOf(w) \in missed'
    BY <1>8, <2>1, <2>2, StopStep DEF EnqueueDependents
  <2>3. ASSUME jobs' = [k \in Keys |->
                          IF k[1] = SbomOf(w) /\ k[2] \in ReadyDependents(w)
                          THEN InsertEnrichmentJob(jobs[k]) ELSE jobs[k]],
               NEW d \in Dependents(exec[w].key[2]), result[exec[w].key] = "success"
        PROVE  jobs'[<<SbomOf(w), d>>].state # "absent"
    <3>1. exec[w].key[2] = EnricherOf[w] /\ EnricherOf[w] \in Names /\ SbomOf(w) \in Sboms
      BY <1>0, <2>1, BusyType
    <3>2. Prerequisites(d) = {EnricherOf[w]} /\ <<SbomOf(w), d>> \in Keys
      BY <2>3, <3>1, Graph DEF Keys
    <3>3. d \in ReadyDependents(w)
      BY <1>0, <2>1, <2>3, <3>1, <3>2 DEF ReadyDependents
    <3> QED
      BY <2>3, <3>2, <3>3 DEF InsertEnrichmentJob, Fresh, NoRow
  <2> QED
    BY <1>8, <2>1, <2>2, <2>3, StopStep DEF EnqueueDependents
<1>9. CASE Fail(w)
  <2>1. Busy(w) /\ ~exec[w].once /\ exec[w].key \in Keys
    BY <1>0, <1>9 DEF Fail, At, Busy, OwnPartition
  <2>2. CASE Settled(w)
    BY <1>9, <2>1, <2>2, StopStep DEF Fail
  <2>3. CASE ~Settled(w)
    <3>1. jobs'[exec[w].key].state # "succeeded"
      BY <1>9, <2>1, <2>3 DEF Fail, Settled, TypeOK, EnrichJob,
                              FailOrRequeueEnrichmentJobByID, SpendAttempt
    <3> QED
      BY <1>9, <2>1, <3>1, StopStep DEF Fail
  <2> QED
    BY <2>2, <2>3
<1> QED
  BY <1>1, <1>2, <1>3, <1>4, <1>5, <1>6, <1>7, <1>8, <1>9 DEF Work

(* Every step is an ExecStep of every goroutine. *)
LEMMA NextExecStep ==
    ASSUME TypeOK, NeverBack, OwnPartition, [Next]_vars
    PROVE  \A v \in Workers : ExecStep(v)
<1>1. CASE UNCHANGED exec
  BY <1>1 DEF ExecStep, Rests
<1>2. CASE Tick
  BY <1>2 DEF Tick, ExecStep, Rests, TypeOK
<1>3. ASSUME NEW w \in Workers, NEW s \in Sboms, RunOnce(w, s)
      PROVE  \A v \in Workers : ExecStep(v)
  <2>1. <<s, EnricherOf[w]>> \in Keys
    BY EnrichmentQueueAssumption DEF Keys
  <2> QED
    BY <1>3, <2>1, StartStep DEF RunOnce, tables
<1>4. ASSUME NEW w \in Workers, Crash(w)
      PROVE  \A v \in Workers : ExecStep(v)
  BY <1>4, StopStep DEF Crash, Settled, tables
<1> QED
  BY <1>1, <1>2, <1>3, <1>4, WorkExecStep
     DEF Next, Ingest, EnqueueRoot, SubmitStops, DeleteSbom, Retry, RetryAllFailed,
         StuckSweep, vars

-----------------------------------------------------------------------------
(***************************************************************************)
(* Every conjunct of the invariant is kept                                 *)
(***************************************************************************)

(* Claims come from queued rows, and what goes back to the queue has an    *)
(* attempt left: no step takes a row over its budget.                      *)
LEMMA BudgetNext ==
    ASSUME TypeOK, EnrichBudget, [Next]_vars
    PROVE  EnrichBudget'
<1> SUFFICES ASSUME NEW k \in Keys
             PROVE  /\ jobs'[k].attempts <= MaxAttempts
                    /\ jobs'[k].state = "queued" => jobs'[k].attempts < MaxAttempts
  BY DEF EnrichBudget
<1>1. /\ jobs[k] \in EnrichJob /\ JobStep(k) /\ MaxAttempts \in Nat \ {0}
      /\ jobs[k].attempts <= MaxAttempts
      /\ jobs[k].state = "queued" => jobs[k].attempts < MaxAttempts
  BY NextJobStep, EnrichmentQueueAssumption DEF TypeOK, EnrichBudget
<1>2. CASE jobs'[k] = FailOrRequeueEnrichmentJobByID(jobs[k], MaxAttempts)
  BY <1>1, <1>2 DEF FailOrRequeueEnrichmentJobByID, SpendAttempt, EnrichJob
<1>3. CASE jobs'[k] = RequeueStuckEnrichmentJobs(jobs[k], StuckThreshold, MaxAttempts)
  BY <1>1, <1>3 DEF RequeueStuckEnrichmentJobs, SpendAttempt, EnrichJob
<1>4. CASE jobs'[k] = InsertEnrichmentJob(jobs[k]) \/ jobs'[k] = RetryEnrichmentJob(jobs[k])
           \/ jobs'[k] = NoRow
  BY <1>1, <1>4 DEF InsertEnrichmentJob, RetryEnrichmentJob, Fresh, NoRow, EnrichJob
<1>5. CASE jobs'[k] = FinishEnrichmentJobByID(jobs[k]) \/ jobs'[k] = Aged(jobs[k])
  BY <1>1, <1>5 DEF FinishEnrichmentJobByID, Aged, EnrichJob
<1>6. CASE jobs[k].state = "queued" /\ jobs'[k] = ClaimEnrichmentJob(jobs[k])
  BY <1>1, <1>6 DEF ClaimEnrichmentJob, EnrichJob
<1>7. CASE jobs'[k] = jobs[k]
  BY <1>1, <1>7
<1> QED
  BY <1>1, <1>2, <1>3, <1>4, <1>5, <1>6, <1>7 DEF JobStep

(* What a step makes of a row, as far as the other conjuncts look. *)
LEMMA RowStep ==
    ASSUME TypeOK, [Next]_vars, NEW k \in Keys
    PROVE  /\ jobs'[k].state = "absent" => jobs[k].state = "absent" \/ k[1] \notin stored'
           /\ jobs'[k].state # "absent" =>
                \/ jobs[k].state # "absent"
                \/ /\ \A p \in Prerequisites(k[2]) : result[<<k[1], p>>] = "success"
                   /\ k[1] \in stored /\ UNCHANGED <<result, stored>>
           /\ jobs'[k].state = "succeeded" =>
                \/ jobs[k].state = "succeeded"
                \/ /\ jobs[k].state # "absent"
                   /\ \E w \in Workers : At(w, "finish") /\ exec[w].key = k
<1>1. jobs[k] \in EnrichJob /\ JobStep(k)
  BY NextJobStep DEF TypeOK
<1>2. CASE jobs'[k] = FailOrRequeueEnrichmentJobByID(jobs[k], MaxAttempts)
           \/ jobs'[k] = RequeueStuckEnrichmentJobs(jobs[k], StuckThreshold, MaxAttempts)
  BY <1>1, <1>2 DEF FailOrRequeueEnrichmentJobByID, RequeueStuckEnrichmentJobs, SpendAttempt,
                    EnrichJob
<1>3. CASE /\ \A p \in Prerequisites(k[2]) : result[<<k[1], p>>] = "success"
           /\ k[1] \in stored /\ UNCHANGED <<result, stored>>
           /\ jobs'[k] = InsertEnrichmentJob(jobs[k])
  BY <1>1, <1>3 DEF InsertEnrichmentJob, Fresh, NoRow, EnrichJob
<1>4. CASE /\ \E w \in Workers : At(w, "finish") /\ exec[w].key = k
           /\ jobs'[k] = FinishEnrichmentJobByID(jobs[k])
  BY <1>1, <1>4 DEF FinishEnrichmentJobByID, EnrichJob
<1>5. CASE jobs'[k] = RetryEnrichmentJob(jobs[k]) \/ jobs'[k] = Aged(jobs[k])
  BY <1>1, <1>5 DEF RetryEnrichmentJob, Aged, Fresh, NoRow, EnrichJob
<1>6. CASE jobs[k].state = "queued" /\ jobs'[k] = ClaimEnrichmentJob(jobs[k])
  BY <1>1, <1>6 DEF ClaimEnrichmentJob, EnrichJob
<1>7. CASE jobs'[k] = jobs[k] \/ (k[1] \notin stored' /\ jobs'[k] = NoRow)
  BY <1>1, <1>7 DEF NoRow
<1> QED
  BY <1>1, <1>2, <1>3, <1>4, <1>5, <1>6, <1>7 DEF JobStep

(* A new SBOM's id is unused, so no row and no goroutine is waiting for it. *)
LEMMA NeverBackNext ==
    ASSUME TypeOK, NeverBack, OwnPartition, [Next]_vars
    PROVE  NeverBack'
<1>1. StoredStep
  BY NextStoredStep
<1>2. (stored \cap unused = {})'
  BY <1>1 DEF StoredStep, NeverBack
<1>3. ASSUME NEW k \in Keys, jobs'[k].state # "absent"
      PROVE  k[1] \in stored'
  <2>1. k[1] \in stored
    BY <1>3, RowStep DEF NeverBack
  <2> QED
    BY <1>1, <1>3, <2>1 DEF StoredStep, NoRow
<1>4. ASSUME NEW w \in Workers, Busy(w)'
      PROVE  exec'[w].key[1] \notin unused'
  <2>1. CASE Rests(w)
    <3>1. Busy(w) /\ exec'[w].key = exec[w].key
      BY <1>4, <2>1, BusyType DEF Rests, Busy, Execution
    <3> QED
      BY <1>1, <3>1 DEF NeverBack, StoredStep, SbomOf
  <2>2. CASE Starts(w)
    <3>1. PICK k \in Keys : k[1] \in stored /\ exec'[w].key = k
      BY <2>2 DEF Starts, Run, Idle
    <3> QED
      BY <2>2, <3>1 DEF Starts, NeverBack
  <2>3. CASE Moves(w)
    BY <2>3 DEF Moves, NeverBack, SbomOf
  <2>4. CASE Ends(w)
    BY <1>4, <2>4 DEF Ends, Busy, Idle
  <2> QED
    BY <2>1, <2>2, <2>3, <2>4, NextExecStep DEF ExecStep
<1>5. ASSUME NEW s \in Sboms \ unused'
      PROVE  validateContainerRequired(CallerMeta[s])
  BY <1>1, <1>5 DEF StoredStep, NeverBack
<1> QED
  BY <1>2, <1>3, <1>4, <1>5 DEF NeverBack, SbomOf

(* Claims and --once runs stay in the worker's partition. *)
LEMMA OwnPartitionNext ==
    ASSUME TypeOK, NeverBack, OwnPartition, [Next]_vars
    PROVE  OwnPartition'
<1> SUFFICES ASSUME NEW w \in Workers, Busy(w)'
             PROVE  /\ exec'[w].key[2] = EnricherOf[w]
                    /\ exec'[w].pc \in {"finish", "dependents", "fail"} => ~exec'[w].once
  BY DEF OwnPartition
<1>1. CASE Rests(w)
  <2>1. /\ Busy(w) /\ exec'[w].key = exec[w].key
        /\ exec'[w].pc = exec[w].pc /\ exec'[w].once = exec[w].once
    BY <1>1, BusyType DEF Rests, Busy, Execution
  <2> QED
    BY <2>1 DEF OwnPartition
<1>2. CASE Starts(w)
  <2>1. PICK k \in Keys : k[2] = EnricherOf[w]
                          /\ exec'[w] \in {Run(k), [Run(k) EXCEPT !.once = TRUE]}
    BY <1>2 DEF Starts
  <2>2. exec'[w].key = k /\ exec'[w].pc = "enrich"
    BY <2>1 DEF Run, Idle
  <2> QED
    BY <2>1, <2>2
<1>3. CASE Moves(w)
  BY <1>3 DEF Moves, OwnPartition
<1>4. CASE Ends(w)
  BY <1>4 DEF Ends, Busy, Idle
<1> QED
  BY <1>1, <1>2, <1>3, <1>4, NextExecStep DEF ExecStep

(* What a step makes of the result of an SBOM that stays. *)
LEMMA ResultKept ==
    ASSUME TypeOK, OwnPartition, [Next]_vars, NEW k \in Keys, k[1] \in stored'
    PROVE  /\ result[k] = "success" => result'[k] = "success"
           /\ result[k] # "none" => result'[k] # "none"
           /\ result'[k] = "success" =>
                \/ result[k] = "success"
                \/ k[1] \in missed'
                \/ \E w \in Workers : Busy(w) /\ exec[w].key = k /\ ~exec[w].once
<1>1. ResultStep(k) /\ result[k] \in {"none", "error", "success"}
  BY NextResultStep DEF TypeOK
<1>2. ASSUME NEW w \in Workers, Busy(w), exec[w].key = k,
             exec[w].once => k[1] \in missed',
             result'[k] = UpsertEnrichment(result[k], exec[w].outcome)
      PROVE  /\ result[k] = "success" => result'[k] = "success"
             /\ result'[k] # "none"
             /\ k[1] \in missed' \/ ~exec[w].once
  BY <1>1, <1>2, BusyType DEF UpsertEnrichment, Execution
<1> QED
  BY <1>1, <1>2 DEF ResultStep

(* A goroutine's SBOM does not come back while the goroutine runs. *)
LEMMA StoredBefore ==
    ASSUME NeverBack, StoredStep, NEW w \in Workers, Busy(w), SbomOf(w) \in stored'
    PROVE  SbomOf(w) \in stored
BY DEF NeverBack, StoredStep

(* Past its store a goroutine keeps its result: only a delete removes it. *)
LEMMA ResultLeftNext ==
    ASSUME TypeOK, NeverBack, OwnPartition, ResultLeft, [Next]_vars
    PROVE  ResultLeft'
<1> SUFFICES ASSUME NEW w \in Workers, Stores(w)', exec'[w].key[1] \in stored'
             PROVE  result'[exec'[w].key] # "none"
  BY DEF ResultLeft, SbomOf
<1>1. ASSUME Busy(w), exec'[w].key = exec[w].key, Stores(w)
      PROVE  result'[exec'[w].key] # "none"
  <2>1. SbomOf(w) \in stored
    BY <1>1, StoredBefore, NextStoredStep DEF SbomOf
  <2>2. result[exec[w].key] # "none"
    BY <1>1, <2>1 DEF ResultLeft
  <2> QED
    BY <1>1, <2>2, BusyType, ResultKept DEF SbomOf
<1>2. CASE Rests(w)
  <2>1. exec'[w].key = exec[w].key /\ exec'[w].pc = exec[w].pc
    BY <1>2, BusyType DEF Rests, Execution
  <2>2. Busy(w) /\ Stores(w)
    BY <2>1 DEF Stores, Busy, SbomOf
  <2> QED
    BY <1>1, <2>1, <2>2
<1>3. CASE Starts(w)
  <2>1. exec'[w].pc = "enrich"
    BY <1>3 DEF Starts, Run, Idle
  <2> QED
    BY <2>1 DEF Stores
<1>4. CASE Moves(w)
  BY <1>1, <1>4 DEF Moves
<1>5. CASE Ends(w)
  BY <1>5 DEF Ends, Stores, Idle
<1> QED
  BY <1>2, <1>3, <1>4, <1>5, NextExecStep DEF ExecStep

(* FinishByID is reached with a result stored. *)
LEMMA SuccessHasResultNext ==
    ASSUME TypeOK, NeverBack, OwnPartition, ResultLeft, SuccessHasResult, [Next]_vars
    PROVE  SuccessHasResult'
<1> SUFFICES ASSUME NEW s \in Sboms, NEW n \in Names,
                    jobs'[<<s, n>>].state = "succeeded"
             PROVE  result'[<<s, n>>] # "none"
  BY DEF SuccessHasResult
<1>1. <<s, n>> \in Keys /\ <<s, n>>[1] = s
  BY DEF Keys
<1>2. s \in stored'
  BY <1>1, NeverBackNext DEF NeverBack
<1>3. CASE jobs[<<s, n>>].state = "succeeded"
  BY <1>1, <1>2, <1>3, ResultKept DEF SuccessHasResult
<1>4. ASSUME NEW w \in Workers, At(w, "finish"), exec[w].key = <<s, n>>,
             jobs[<<s, n>>].state # "absent"
      PROVE  result'[<<s, n>>] # "none"
  <2>1. s \in stored /\ SbomOf(w) = s
    BY <1>1, <1>4 DEF NeverBack, SbomOf
  <2>2. EnricherOf[w] = n
    BY <1>4 DEF OwnPartition, At, Busy
  <2>3. Stores(w)
    BY <1>4, <2>1, <2>2 DEF Stores, At
  <2> QED
    BY <1>1, <1>2, <1>4, <2>1, <2>3, ResultKept DEF ResultLeft
<1> QED
  BY <1>1, <1>3, <1>4, RowStep

(* A dependent's row is inserted over its prerequisites' good results, which *)
(* stay while the SBOM does.                                                  *)
LEMMA DependentNext ==
    ASSUME TypeOK, NeverBack, OwnPartition, DependentHasPrerequisites, [Next]_vars
    PROVE  DependentHasPrerequisites'
<1> SUFFICES ASSUME NEW s \in Sboms, NEW n \in Names, jobs'[<<s, n>>].state # "absent",
                    NEW p \in Prerequisites(n)
             PROVE  result'[<<s, p>>] = "success"
  BY DEF DependentHasPrerequisites
<1>1. /\ <<s, n>> \in Keys /\ <<s, n>>[1] = s /\ <<s, n>>[2] = n
      /\ <<s, p>> \in Keys /\ <<s, p>>[1] = s
  BY Graph DEF Keys
<1>2. s \in stored'
  BY <1>1, NeverBackNext DEF NeverBack
<1>3. result[<<s, p>>] = "success"
  BY <1>1, RowStep DEF DependentHasPrerequisites
<1> QED
  BY <1>1, <1>2, <1>3, ResultKept

(* The goroutine that will chain goes on, unless it has chained, or its    *)
(* SBOM is marked as missed.                                               *)
LEMMA ChainerGoesOn ==
    ASSUME TypeOK, NeverBack, OwnPartition, [Next]_vars,
           NEW s \in Sboms, NEW n \in Names, NEW d \in Dependents(n),
           s \notin missed', jobs'[<<s, n>>].state = "succeeded",
           result'[<<s, n>>] = "success", jobs'[<<s, d>>].state = "absent",
           NEW w \in Workers, Busy(w), exec[w].key = <<s, n>>, ~exec[w].once
    PROVE  Busy(w)' /\ exec'[w].key = <<s, n>> /\ ~exec'[w].once
<1>1. SbomOf(w) = s /\ exec[w].key[2] = n
  BY DEF SbomOf
<1>2. CASE Rests(w)
  BY <1>2, BusyType DEF Rests, Busy, Execution
<1>3. CASE Moves(w)
  BY <1>3 DEF Moves
<1>4. CASE Ends(w)
  BY <1>1, <1>4 DEF Ends
<1>5. CASE Starts(w)
  BY <1>5 DEF Starts
<1> QED
  BY <1>2, <1>3, <1>4, <1>5, NextExecStep DEF ExecStep

(* A dependent stays missing only while somebody is still to chain it. *)
LEMMA ChainNext ==
    ASSUME TypeOK, NeverBack, OwnPartition, ChainHeld, [Next]_vars
    PROVE  ChainHeld'
<1> SUFFICES ASSUME NEW s \in stored' \ missed', NEW n \in Names, NEW d \in Dependents(n),
                    jobs'[<<s, n>>].state = "succeeded", result'[<<s, n>>] = "success",
                    jobs'[<<s, d>>].state = "absent"
             PROVE  \E w \in Workers : Busy(w)' /\ exec'[w].key = <<s, n>> /\ ~exec'[w].once
  BY DEF ChainHeld
<1>1. StoredStep /\ TypeOK'
  BY NextStoredStep, TypeNext
<1>2. /\ s \in Sboms /\ <<s, n>> \in Keys /\ <<s, d>> \in Keys
      /\ <<s, n>>[1] = s /\ <<s, d>>[1] = s
  BY <1>1, Graph DEF TypeOK, Keys
<1>3. s \in stored \ missed
  <2>1. jobs[<<s, n>>].state # "absent"
    BY <1>2, RowStep
  <2> QED
    BY <1>1, <1>2, <2>1 DEF NeverBack, StoredStep
<1>4. jobs[<<s, d>>].state = "absent"
  BY <1>2, RowStep
<1>5. \E w \in Workers : Busy(w) /\ exec[w].key = <<s, n>> /\ ~exec[w].once
  <2>1. CASE jobs[<<s, n>>].state # "succeeded"
    <3>1. PICK w \in Workers : At(w, "finish") /\ exec[w].key = <<s, n>>
      BY <1>2, <2>1, RowStep
    <3> QED
      BY <3>1 DEF At, Busy, OwnPartition
  <2>2. CASE result[<<s, n>>] # "success"
    BY <1>2, <2>2, ResultKept
  <2>3. CASE jobs[<<s, n>>].state = "succeeded" /\ result[<<s, n>>] = "success"
    BY <1>3, <1>4, <2>3 DEF ChainHeld
  <2> QED
    BY <2>1, <2>2, <2>3
<1> QED
  BY <1>2, <1>5, ChainerGoesOn

-----------------------------------------------------------------------------
(***************************************************************************)
(* The invariant, and what follows from it                                 *)
(***************************************************************************)

(* With no row, no result and no goroutine there is nothing to show. *)
LEMMA IInvInit == Init => IInv
<1> SUFFICES ASSUME Init
             PROVE  IInv
  OBVIOUS
<1>1. \A k \in Keys : jobs[k] = NoRow /\ result[k] = "none"
  BY DEF Init
<1>2. \A s \in Sboms, n \in Names : <<s, n>> \in Keys
  BY DEF Keys
<1>3. NoRow.state = "absent" /\ NoRow.attempts = 0 /\ MaxAttempts \in Nat \ {0}
  BY EnrichmentQueueAssumption DEF NoRow
<1>4. \A w \in Workers : exec[w].pc = "idle"
  BY DEF Init, Idle
<1>5. NeverBack /\ OwnPartition /\ ResultLeft
  BY <1>1, <1>3, <1>4 DEF Init, NeverBack, OwnPartition, ResultLeft, Busy, Stores
<1>6. ChainHeld /\ EnrichBudget
  BY <1>1, <1>3 DEF Init, ChainHeld, EnrichBudget
<1>7. DependentHasPrerequisites /\ SuccessHasResult
  BY <1>1, <1>2, <1>3 DEF DependentHasPrerequisites, SuccessHasResult
<1> QED
  BY <1>5, <1>6, <1>7, TypeInit DEF IInv

(* The conjuncts hold each other up. *)
LEMMA IInvNext == IInv /\ [Next]_vars => IInv'
BY TypeNext, BudgetNext, NeverBackNext, OwnPartitionNext, ResultLeftNext,
   SuccessHasResultNext, DependentNext, ChainNext
   DEF IInv

LEMMA IInvHolds == Spec => []IInv
  BY IInvInit, IInvNext, PTL DEF Spec

(* No enrichment job is queued without an attempt left or runs more often  *)
(* than its budget, whatever late workers, sweeps and retries do.          *)
THEOREM BudgetKept == Spec => []EnrichBudget
<1>1. IInv => EnrichBudget
  BY DEF IInv
<1> QED
  BY <1>1, IInvHolds, PTL

(* A dependent's row stands on good prerequisite results as long as it     *)
(* exists: EnqueueDependents checks, and UpsertEnrichment keeps good data. *)
THEOREM PrerequisitesHold == Spec => []DependentHasPrerequisites
<1>1. IInv => DependentHasPrerequisites
  BY DEF IInv
<1> QED
  BY <1>1, IInvHolds, PTL

(* A succeeded job has left a result, although FinishByID tests no state   *)
(* and two goroutines may run one job.                                     *)
THEOREM SuccessLeavesResult == Spec => []SuccessHasResult
<1>1. IInv => SuccessHasResult
  BY DEF IInv
<1> QED
  BY <1>1, IInvHolds, PTL

(* A settled prerequisite has its dependents enqueued, unless a fault, a   *)
(* deadline, a delete or a --once run has cut the chain.                   *)
THEOREM ChainComplete == Spec => []DependentsEnqueued
<1>1. IInv => DependentsEnqueued
  <2> SUFFICES ASSUME IInv, NEW s \in stored \ missed, NEW n \in Names,
                      NEW d \in Dependents(n),
                      jobs[<<s, n>>].state = "succeeded", result[<<s, n>>] = "success",
                      \A w \in Workers : exec[w].key # <<s, n>>
               PROVE  jobs[<<s, d>>].state # "absent"
    BY DEF DependentsEnqueued
  <2> QED
    BY DEF IInv, ChainHeld
<1> QED
  BY <1>1, IInvHolds, PTL
=============================================================================
