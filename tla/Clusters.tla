------------------------------ MODULE Clusters ------------------------------
(***************************************************************************)
(* Clusters that report what they run, beside the catalogue.               *)
(*                                                                         *)
(* pods[k] is what cluster k runs.  Its agent lists the pods and pushes    *)
(* the snapshot; a push is stamped when its transaction has begun, so two  *)
(* pushes (a retry after a timeout, an agent being replaced) may overlap   *)
(* and commit in either order.  After a push the server looks for images   *)
(* that run without an SBOM and submits them to the scan queue, one image  *)
(* at a time, while other requests go on.  request[i] is one request:      *)
(*                                                                         *)
(*   sent      a snapshot on its way         [cluster, rows]               *)
(*   open      its transaction, stamped      [cluster, rows, at]           *)
(*   resolve   the run that follows, or one  [cluster, names]              *)
(*             a user asked for: names are the digests named, {} for all   *)
(*   drop      the images it resolved, before their failed jobs go         *)
(*   submit    the images it still has to submit   [cluster, images]       *)
(*                                                                         *)
(* The scan queue is ScanQueue, here a job that ends in one step.          *)
(***************************************************************************)
EXTENDS ClusterService, Catalogue

CONSTANTS
  Fleet,     \* the sets of pods a cluster may run
  Manifest,  \* image digest -> [kind, platforms, private]: what its registry holds
  Request    \* bound: requests at a time

VARIABLES pods, request

clusterVars == <<pods, request>>
vars == <<catalogueVars, clusterVars>>

(* A cluster has an id and runs finitely many pods, and a pod finitely many  *)
(* containers.                                                                *)
ASSUME PodsAssumption ==
  /\ \A sc \in Scenario : None \notin DOMAIN sc.pods
  /\ \A P \in Fleet \cup UNION {{sc.pods[k] : k \in DOMAIN sc.pods} : sc \in Scenario} :
       IsFiniteSet(P) /\ \A p \in P : IsFiniteSet(p.containers)

Free == [step |-> "free"]

Init ==
  /\ \E sc \in Scenario : Start(sc) /\ pods = sc.pods
  /\ request = [i \in Request |-> Free]

Unmoved == <<ingest, lost, Jobs>>
FreeSlot(i) == request[i] = Free /\ \A j \in Request : request[j] = Free => i <= j
Becomes(i, r) == request' = [request EXCEPT ![i] = r]

(* Whoever may push to a cluster or ingest for it sees its namespace. *)
Insider == [user |-> None, admin |-> TRUE]

----------------------------------------------------------------------------
(* The cluster and its namespace's registries, as the API writes them. *)

CreateCluster(k, n) ==
  /\ Write("create") /\ k \notin DOMAIN db.source /\ n \in db.ns
  /\ db' = [db EXCEPT !.cluster = Upsert(@, k, [ns |-> n, seen |-> 0, auto |-> TRUE]),
                      !.source = Upsert(@, k, [ns |-> n, kind |-> "cluster"])]
  /\ UNCHANGED <<Unmoved, clusterVars>>

UpdateCluster(k) ==
  /\ Write("auto") /\ k \in Q!Clusters(db)
  /\ db' = [db EXCEPT !.cluster[k].auto = ~@]
  /\ UNCHANGED <<Unmoved, clusterVars>>

DeleteCluster(k) ==
  /\ Write("cluster") /\ k \in Q!Clusters(db) /\ ~Locked("source", k)
  /\ db' = DropSources(db, {k})
  /\ UNCHANGED <<Unmoved, clusterVars>>

EnableRegistry(q) ==
  /\ Write("registry") /\ q \in DOMAIN db.registry
  /\ db' = [db EXCEPT !.registry[q].enabled = ~@]
  /\ UNCHANGED <<Unmoved, clusterVars>>

PodsChange(k, P) ==
  /\ Write("pods") /\ k \in DOMAIN pods /\ P # pods[k]
  /\ pods' = [pods EXCEPT ![k] = P]
  /\ UNCHANGED <<db, Unmoved, request>>

----------------------------------------------------------------------------
(* A push. *)

(* The pods are listed and sent. *)
Send(k, i) ==
  /\ k \in DOMAIN pods \cap Q!Clusters(db) /\ FreeSlot(i)
  /\ Becomes(i, [step |-> "sent", cluster |-> k, rows |-> buildSnapshot(pods[k])])
  /\ UNCHANGED <<db, budget, Unmoved, pods>>

(* Stamps are ranked, so that there are finitely many. *)
Stamps ==
  {w.last : w \in db.workload} \cup {db.cluster[k].seen : k \in Q!Clusters(db)}
    \cup {request[i].at : i \in {i \in Request : request[i].step = "open"}}

RankIn(S, t) == Cardinality({x \in S : x < t})

Ranked(d, S) ==
  [d EXCEPT !.workload = {[w EXCEPT !.last = RankIn(S, w.last)] : w \in d.workload},
            !.cluster = [k \in DOMAIN d.cluster |-> [d.cluster[k] EXCEPT !.seen = RankIn(S, d.cluster[k].seen)]]]

(* The transaction begins, finds the cluster and reads the time. *)
Stamp(i) ==
  /\ request[i].step = "sent" /\ request[i].cluster \in Q!Clusters(db)
  /\ LET p == request[i]
     IN /\ db' = Ranked(db, Stamps)
        /\ request' = [j \in Request |->
             IF j = i THEN [step |-> "open", cluster |-> p.cluster, rows |-> p.rows, at |-> Cardinality(Stamps)]
             ELSE IF request[j].step = "open" THEN [request[j] EXCEPT !.at = RankIn(Stamps, @)]
             ELSE request[j]]
  /\ UNCHANGED <<budget, Unmoved, pods>>

WorkloadKey(w) == <<w.k8s, w.workload, w.container, w.digest>>

(* Mutant: nothing is pruned. *)
KeepOldRows(k, rows, at) ==
  {w \in db.workload : w.cluster = k => WorkloadKey(w) \notin {WorkloadKey(x) : x \in rows}}
    \cup {UpsertAll(w, [cluster |-> k, last |-> at]) : w \in rows}

(* Every row of the snapshot is upserted; what is older than it goes. *)
UpsertAndPrune(k, rows, at) ==
  {w \in db.workload : w.cluster = k => w.last >= at /\ WorkloadKey(w) \notin {WorkloadKey(x) : x \in rows}}
    \cup {UpsertAll(w, [cluster |-> k, last |-> at]) : w \in rows}

(* One transaction; then, if the cluster has auto-ingest on, a goroutine. *)
ReplaceInventory(i) ==
  /\ request[i].step = "open" /\ request[i].cluster \in Q!Clusters(db)
  /\ LET p == request[i]
     IN /\ db' = [db EXCEPT !.workload = UpsertAndPrune(p.cluster, p.rows, p.at),
                            !.cluster[p.cluster].seen = p.at]
        /\ Becomes(i, IF db.cluster[p.cluster].auto
                      THEN [step |-> "resolve", cluster |-> p.cluster, names |-> {}] ELSE Free)
  /\ UNCHANGED <<budget, Unmoved, pods>>

(* The push never arrives, or its transaction fails. *)
LosePush(i) ==
  /\ request[i].step \in {"sent", "open"} /\ Fault
  /\ Becomes(i, Free)
  /\ UNCHANGED <<db, Unmoved, pods>>

(* The cluster was deleted under the request. *)
NotFound(i) ==
  /\ request[i].step \in {"sent", "open", "resolve"}
  /\ request[i].cluster \notin Q!Clusters(db)
  /\ Becomes(i, Free)
  /\ UNCHANGED <<db, budget, Unmoved, pods>>

----------------------------------------------------------------------------
(* Images that run without an SBOM. *)

(* A user names rows of the gap; the page's button names one. *)
IngestUnknown(k, i, names) ==
  /\ Write("ingest_unknown") /\ k \in Q!Clusters(db) /\ FreeSlot(i)
  /\ Becomes(i, [step |-> "resolve", cluster |-> k, names |-> names])
  /\ UNCHANGED <<db, Unmoved, pods>>

(* Images that are not ready are counted and passed over. *)
Submitting(k, images) ==
  LET ready == {img \in images : img.reason = "ready"}
  IN IF ready = {} THEN Free ELSE [step |-> "submit", cluster |-> k, images |-> ready]

Resolve(i) ==
  /\ request[i].step = "resolve" /\ request[i].cluster \in Q!Clusters(db)
  /\ LET p == request[i]
         next(all) == IF p.names # {} THEN [step |-> "drop", cluster |-> p.cluster, images |-> onlyDigests(all, p.names)]
                      ELSE Submitting(p.cluster, all)
     IN Becomes(i, next(resolveUnknownImages(db, Insider, p.cluster)))
  /\ UNCHANGED <<db, budget, Unmoved, pods>>

(* Only the jobs that are still failed go; the images count as ready. *)
DropFailedJobs(i) ==
  /\ request[i].step = "drop"
  /\ LET p == request[i]
         listed == UNION {img.failed : img \in p.images}
         again(img) == [img EXCEPT !.reason = IF img.failed = {} THEN @ ELSE "ready", !.failed = {}]
     IN /\ db' = [db EXCEPT !.job = Restrict(@, {j \in DOMAIN @ : j \in listed => @[j].state # "failed"})]
        /\ Becomes(i, Submitting(p.cluster, {again(img) : img \in p.images}))
  /\ UNCHANGED <<budget, Unmoved, pods>>

(* The jobs an image becomes: itself, or the platforms of an index. *)
Expand(img) ==
  CASE Manifest[img.digest].kind = "image" -> {img.digest}
    [] Manifest[img.digest].kind = "index" -> Manifest[img.digest].platforms
    [] OTHER -> {}

(* What its registry answers that asking again will not change. *)
classifyPullError(img) ==
  IF Manifest[img.digest].kind \in {"not_found", "egress_denied"} THEN Manifest[img.digest].kind
  ELSE IF Manifest[img.digest].private /\ img.registry = None THEN "unauthorized" ELSE None

(* InsertScanJob, not forced, for a source that still exists. *)
SubmitJobs(d, owner, P, index) ==
  LET key(x) == <<owner, x>>
      row(x) == IF key(x) \notin DOMAIN d.job THEN [state |-> "queued", index |-> index, why |-> None]
                ELSE [d.job[key(x)] EXCEPT !.index = index, !.state = IF @ = "succeeded" THEN "queued" ELSE @]
  IN IF owner \notin DOMAIN d.source THEN d
     ELSE [d EXCEPT !.job = UpsertAll(@, [j \in {key(x) : x \in P} |-> row(j[2])])]

(* Nothing if a job has that key. *)
RecordRefusedScanJob(d, img, why) ==
  IF <<img.owner, img.digest>> \in DOMAIN d.job THEN d
  ELSE [d EXCEPT !.job = Upsert(@, <<img.owner, img.digest>>, [state |-> "failed", index |-> None, why |-> why])]

Rest(p, img) == Submitting(p.cluster, p.images \ {img})

(* P is what was submitted: less than the image has when a call failed. *)
SubmitForRunningImage(i, img, P) ==
  LET all == Expand(img)
  IN /\ classifyPullError(img) = None
     /\ \/ P = all /\ UNCHANGED budget
        \/ P # all /\ Fault
     /\ db' = SubmitJobs(db, img.owner, P, IF all = {img.digest} THEN None ELSE img.digest)
     /\ Becomes(i, Rest(request[i], img))

(* The run ends if the refusal cannot be recorded. *)
RecordRefusal(i, img) ==
  /\ classifyPullError(img) # None
  /\ \/ /\ img.owner \in DOMAIN db.source
        /\ db' = RecordRefusedScanJob(db, img, classifyPullError(img))
        /\ Becomes(i, Rest(request[i], img))
     \/ /\ img.owner \notin DOMAIN db.source
        /\ Becomes(i, Free)
        /\ UNCHANGED db
  /\ UNCHANGED budget

(* One image at a time, in the order of the list. *)
Submit(i) ==
  /\ request[i].step = "submit"
  /\ LET img == CHOOSE img \in request[i].images : TRUE
     IN \/ \E P \in SUBSET Expand(img) : SubmitForRunningImage(i, img, P)
        \/ RecordRefusal(i, img)
  /\ UNCHANGED <<Unmoved, pods>>

----------------------------------------------------------------------------
(* The scan queue.  A scan of an image gives its document.  An SBOM already *)
(* stored is not written again, nor is its index digest; one an open ingest  *)
(* inserts is waited for.                                                    *)

ScanSucceeds(j) ==
  /\ j \in DOMAIN db.job /\ db.job[j].state = "queued" /\ ~Locked("sbom", j[2]) /\ j[2] \in DOMAIN Doc
  /\ LET row == [ns |-> db.source[j[1]].ns, source |-> j[1], index |-> db.job[j].index,
                 at |-> 1 + Q!Max({0} \cup {db.sbom[s].at : s \in Q!SBOMs(db)})]
         a == Doc[j[2]].artifact
         d == [db EXCEPT !.job[j].state = "succeeded"]
     IN db' = IF j[2] \in Q!SBOMs(db) THEN d
              ELSE [d EXCEPT !.sbom = Upsert(@, j[2], row), !.artifacts = @ \cup {a},
                             !.links = @ \cup {<<a, row.ns>>}]
  /\ young' = young \cup ({j[2]} \ Q!SBOMs(db))
  /\ UNCHANGED <<budget, ingest, lost, busy, sweep, replica, built, clusterVars>>

(* Its attempts are used up, or an operator cancels it. *)
ScanFails(j) ==
  /\ j \in DOMAIN db.job /\ db.job[j].state = "queued" /\ Fault
  /\ db' = [db EXCEPT !.job[j].state = "failed", !.job[j].why = "scan"]
  /\ UNCHANGED <<Unmoved, clusterVars>>

----------------------------------------------------------------------------
Serve(i) ==
  Stamp(i) \/ ReplaceInventory(i) \/ NotFound(i) \/ Resolve(i) \/ DropFailedJobs(i) \/ Submit(i)

Agent(k) == \E i \in Request : Send(k, i)

Reporting == DOMAIN pods

Next ==
  \/ CatalogueNext /\ UNCHANGED clusterVars
  \/ \E i \in Request : Serve(i) \/ LosePush(i)
  \/ \E k \in Reporting : Agent(k) \/ DeleteCluster(k) \/ UpdateCluster(k)
  \/ \E k \in Reporting, n \in db.ns : CreateCluster(k, n)
  \/ \E k \in Reporting, P \in Fleet : PodsChange(k, P)
  \/ \E k \in Reporting, i \in Request, d \in DOMAIN Manifest : IngestUnknown(k, i, {d})
  \/ \E q \in DOMAIN db.registry : EnableRegistry(q)
  \/ \E j \in DOMAIN db.job : ScanSucceeds(j) \/ ScanFails(j)

Spec == Init /\ [][Next]_vars

(* An agent's ticker keeps firing, a request ends and the scanners work; a  *)
(* replica that runs ticks and finishes its passes, and its time goes by.    *)
Fairness ==
  /\ \A r \in Replica : WF_vars((Age(r) \/ ReadAndTick(r) \/ Pass(r)) /\ UNCHANGED clusterVars)
  /\ \A i \in Request : WF_vars(Serve(i))
  /\ WF_vars(\E k \in Reporting : Agent(k))
  /\ WF_vars(\E j \in DOMAIN db.job : ScanSucceeds(j))

FairSpec == Spec /\ Fairness
=============================================================================
