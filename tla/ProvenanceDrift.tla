-------------------------- MODULE ProvenanceDrift ---------------------------
(***************************************************************************)
(* The provenance of one SBOM over time: the reverifier requeues its       *)
(* provenance job, a worker looks the signatures up in the registry,       *)
(* verifies them against the registry's trust settings, stores the result  *)
(* and compares it with the one before.  A change away from "verified" or  *)
(* "signed" becomes a drift event; a change to "unsigned" is held back in  *)
(* provenance_drift_pending until a second look agrees.                    *)
(* Rows are keyed by SBOM and never meet, so one SBOM is followed.         *)
(***************************************************************************)
EXTENDS Provenance, EnrichJobs

CONSTANTS
    Workers,            \* goroutines of the provenance worker
    Images,             \* registry contents the image may start with
    Trusts,             \* trust settings an owner may choose
    MaxAttempts,
    MaxChanges,         \* bound: changes of the registry and the trust
    MaxFaults           \* bound: failed lookups and statements, slow runs, crashes

(* referrers: what the OCI 1.1 index lists; tags: what .sig and .att hold. *)
RegistryContent == [image : BOOLEAN, referrers : Seq(Layer), tags : Seq(Layer)]

ASSUME ProvenanceDriftAssumption ==
    /\ Images \subseteq RegistryContent
    /\ Trusts \subseteq Config
    /\ MaxAttempts \in Nat \ {0}
    /\ MaxChanges \in Nat /\ MaxFaults \in Nat

VARIABLES
    registry,   \* external: what the registry holds for the digest
    trust,      \* registry.verification_mode and its anchor
    cached,     \* BuildTrustLookup's map, and whether its TTL still runs
    root,       \* getTrustedRoot's cache: "none", "fresh", "stale", "expired"
    job,        \* the provenance row of enrichment_jobs
    due,        \* enrichment.updated_at is older than the recheck interval
    stored,     \* the provenance row of enrichment
    pending,    \* the row of provenance_drift_pending
    events,     \* the rows of provenance_drift_events, in order
    exec,       \* per goroutine, where its job stands
    seen,       \* history: the signing statuses stored, at most the last two
    calm,       \* history: no statement failed, no runs overlapped, no crash
    changes, faults

outside == <<registry, trust, changes>>
caches == <<cached, root>>
drift == <<pending, events>>
vars == <<outside, caches, job, due, stored, drift, exec, seen, calm, faults>>

-----------------------------------------------------------------------------
Untrusted == [mode |-> "none", signer |-> NoSigner]
NoConfig == [cfg |-> Untrusted, fresh |-> FALSE]
NoPending == [prev |-> "none", new |-> "none", reason |-> "none"]
NotStored == [status |-> "none", prov |-> Nothing]

(***************************************************************************)
(* Steps of a run: the HEAD request, the referrers index, the cosign tags, *)
(* the trust lookup with the verification, GetEnrichment, UpsertEnrichment,*)
(* then recordProvenanceDrift: the pending row is read, cleared, and the   *)
(* verdict recorded.                                                       *)
(***************************************************************************)
Steps == {"head", "referrers", "tags", "trust", "prior", "store",
          "pending", "clear", "record", "finish", "fail"}

Idle == [pc |-> "idle", raw |-> <<>>, ok |-> TRUE, prov |-> Nothing,
         old |-> NotStored, held |-> NoPending]

Busy(w) == exec[w].pc # "idle"
At(w, pc) == exec[w].pc = pc
Go(w, pc) == exec' = [exec EXCEPT ![w].pc = pc]

Event == [prev : Status, new : Status,
          reason : {"trust_config_changed", "artifact_missing", "reverification_failed"}]

StoredRow == [status : {"none", "error", "success"}, prov : ProvenanceRecord]

(* The types of the variables. *)
TypeOK ==
    /\ registry \in RegistryContent
    /\ trust \in Trusts
    /\ cached \in [cfg : Trusts, fresh : BOOLEAN] \cup {NoConfig}
    /\ root \in {"none", "fresh", "stale", "expired"}
    /\ job \in EnrichJob /\ job.attempts <= MaxAttempts
    /\ due \in BOOLEAN /\ calm \in BOOLEAN
    /\ stored \in StoredRow
    /\ pending \in Event \cup {NoPending}
    /\ events \in Seq(Event)
    /\ \A w \in Workers : exec[w].pc \in Steps \cup {"idle"}

Init ==
    /\ registry \in Images /\ trust \in Trusts
    /\ cached = NoConfig /\ root = "none"
    /\ job = Fresh /\ due = FALSE
    /\ stored = NotStored /\ pending = NoPending /\ events = <<>>
    /\ exec = [w \in Workers |-> Idle]
    /\ seen = <<>> /\ calm = TRUE /\ changes = 0 /\ faults = 0

(* A request or a TUF fetch that fails. *)
Fault == faults < MaxFaults /\ faults' = faults + 1 /\ UNCHANGED calm

(* A statement that fails, a run that overlaps another, a crash. *)
Disturb == faults < MaxFaults /\ faults' = faults + 1 /\ calm' = FALSE

NoFault == UNCHANGED <<faults, calm>>

-----------------------------------------------------------------------------
(***************************************************************************)
(* The registry and the owner, outside the worker.                         *)
(***************************************************************************)
Change == changes < MaxChanges /\ changes' = changes + 1

DropFirst(s) == IF s = <<>> THEN s ELSE Tail(s)

(* A signature is taken away, whichever way it was published. *)
RemoveSignature ==
    /\ Change
    /\ registry.referrers \o registry.tags # <<>>
    /\ registry' = [registry EXCEPT !.referrers = DropFirst(@), !.tags = DropFirst(@)]
    /\ UNCHANGED trust

DeleteImage ==
    /\ Change
    /\ registry.image
    /\ registry' = [image |-> FALSE, referrers |-> <<>>, tags |-> <<>>]
    /\ UNCHANGED trust

SetTrust ==
    /\ Change
    /\ \E c \in Trusts \ {trust} : trust' = c
    /\ UNCHANGED registry

(* Caches age: the 30 s of the trust lookup, the TTL and the largest       *)
(* staleness of the trusted root.                                          *)
ExpireTrustCache ==
    /\ cached.fresh
    /\ cached' = [cached EXCEPT !.fresh = FALSE]
    /\ UNCHANGED root

AgeRoot ==
    /\ root' = CASE root = "fresh" -> "stale" [] root = "stale" -> "expired" [] OTHER -> root
    /\ root' # root
    /\ UNCHANGED cached

-----------------------------------------------------------------------------
(***************************************************************************)
(* The reverifier                                                          *)
(***************************************************************************)
Elapse == stored.status # "none" /\ ~due /\ due' = TRUE

(* tick: ListSBOMsDueForProvenanceRecheck, then the requeue of each. *)
Recheck ==
    /\ due /\ stored.status = "success"
    /\ job' = RequeueEnrichmentJobForRecheck(job)
    /\ job' # job

-----------------------------------------------------------------------------
(***************************************************************************)
(* One run of the provenance job                                           *)
(***************************************************************************)
Claim(w) ==
    /\ ~Busy(w) /\ job.state = "queued"
    /\ job' = ClaimEnrichmentJob(job)
    /\ exec' = [exec EXCEPT ![w] = [Idle EXCEPT !.pc = "head"]]

(* Enrich returns an error: it is stored, the job goes on. *)
EnrichFails(w) == exec' = [exec EXCEPT ![w].pc = "store", ![w].ok = FALSE]

(* Mutant: a failed request is read as a missing artifact. *)
AnyErrorIsMissing(w) ==
    /\ At(w, "head")
    /\ \/ registry.image /\ Go(w, "referrers") /\ NoFault
       \/ exec' = [exec EXCEPT ![w].pc = "prior", ![w].prov = ArtifactMissing]
          /\ (IF registry.image THEN Fault ELSE NoFault)

(* artifactMissing: only a 404 says the digest is gone. *)
CheckExists(w) ==
    /\ At(w, "head")
    /\ \/ registry.image /\ Go(w, "referrers") /\ NoFault
       \/ /\ ~registry.image /\ NoFault
          /\ exec' = [exec EXCEPT ![w].pc = "prior", ![w].prov = ArtifactMissing]
       \/ Fault /\ EnrichFails(w)

(***************************************************************************)
(* discover.  A failing referrers call and a child that answers 404 leave  *)
(* the word to the tag scheme; another failing child is an error.          *)
(***************************************************************************)
DiscoverReferrers(w) ==
    /\ At(w, "referrers")
    /\ \/ /\ NoFault
          /\ exec' = [exec EXCEPT ![w].raw = registry.referrers,
                        ![w].pc = IF registry.referrers # <<>> THEN "trust" ELSE "tags"]
       \/ /\ Fault /\ registry.referrers # <<>>
          /\ LET rest == Tail(registry.referrers)
             IN exec' = [exec EXCEPT ![w].raw = rest,
                            ![w].pc = IF rest # <<>> THEN "trust" ELSE "tags"]
       \/ Fault /\ Go(w, "tags")
       \/ Fault /\ EnrichFails(w)

(* Here only a 404 means absent. *)
DiscoverViaTagScheme(w) ==
    /\ At(w, "tags")
    /\ \/ NoFault /\ exec' = [exec EXCEPT ![w].raw = registry.tags, ![w].pc = "trust"]
       \/ Fault /\ EnrichFails(w)

(* BuildTrustLookup: a failed List means mode none, whatever was cached. *)
TrustLookup(cfg, failed) ==
    \/ ~failed /\ cached.fresh /\ cfg = cached.cfg /\ UNCHANGED cached
    \/ ~failed /\ ~cached.fresh /\ cfg = trust
       /\ cached' = [cfg |-> trust, fresh |-> TRUE]
    \/ failed /\ ~cached.fresh /\ cfg = Untrusted /\ UNCHANGED cached

(* getTrustedRoot: a failed fetch falls back on a root not too stale. *)
GetTrustedRoot(ok, failed) ==
    \/ ~failed /\ ok /\ root' = "fresh"
    \/ failed /\ root \in {"none", "stale", "expired"} /\ ok = (root = "stale") /\ UNCHANGED root

(* applyTrust; without signatures no root is fetched. *)
Verify(w) ==
    /\ At(w, "trust")
    /\ \E lookupFailed, rootFailed \in BOOLEAN, ok \in BOOLEAN,
          cfg \in Trusts \cup {Untrusted} :
        /\ ~(lookupFailed /\ rootFailed)
        /\ TrustLookup(cfg, lookupFailed)
        /\ IF cfg.mode = "keyless" /\ exec[w].raw # <<>>
           THEN GetTrustedRoot(ok, rootFailed)
           ELSE ok /\ ~rootFailed /\ UNCHANGED root
        /\ IF lookupFailed \/ rootFailed THEN Fault ELSE NoFault
        /\ exec' = [exec EXCEPT ![w].pc = "prior", ![w].raw = <<>>,
                                ![w].prov = ApplyTrust(exec[w].raw, cfg, ok)]

(* GetEnrichment; when it fails this run compares nothing. *)
ReadPrior(w) ==
    /\ At(w, "prior")
    /\ \/ NoFault /\ exec' = [exec EXCEPT ![w].pc = "store", ![w].old = stored]
       \/ Disturb /\ Go(w, "store")

LastTwo(s) == IF Len(s) > 2 THEN Tail(s) ELSE s

(* Mutant: the prior result is read after the upsert. *)
StoreThenReadPrior(w) ==
    /\ At(w, "store") /\ NoFault
    /\ stored' = [status |-> UpsertEnrichment(stored.status, IF exec[w].ok THEN "success" ELSE "error"),
                  prov |-> IF exec[w].ok THEN exec[w].prov ELSE stored.prov]
    /\ due' = FALSE
    /\ seen' = IF exec[w].ok THEN LastTwo(Append(seen, SigningStatus(exec[w].prov))) ELSE seen
    /\ exec' = [exec EXCEPT ![w].old = stored', ![w].pc = IF exec[w].ok THEN "pending" ELSE "finish"]

StoreResult(w) ==
    /\ At(w, "store")
    /\ LET x == exec[w]
           new == IF x.ok THEN "success" ELSE "error"
       IN \/ /\ NoFault
             /\ stored' = [status |-> UpsertEnrichment(stored.status, new),
                           prov |-> IF x.ok THEN x.prov ELSE stored.prov]
             /\ due' = FALSE
             /\ seen' = IF x.ok THEN LastTwo(Append(seen, SigningStatus(x.prov))) ELSE seen
             /\ Go(w, IF x.ok /\ x.old.status = "success" THEN "pending" ELSE "finish")
          \/ Disturb /\ Go(w, "fail") /\ UNCHANGED <<stored, due, seen>>

(* pendingDrift: a failed read looks like no row. *)
ReadPending(w) ==
    /\ At(w, "pending")
    /\ \/ /\ NoFault
          /\ exec' = [exec EXCEPT ![w].held = pending,
                        ![w].pc = IF pending = NoPending THEN "record" ELSE "clear"]
       \/ Disturb /\ Go(w, "record")

ClearPending(w) ==
    /\ At(w, "clear")
    /\ Go(w, "record")
    /\ \/ NoFault /\ pending' = NoPending
       \/ Disturb /\ UNCHANGED pending

Insert(e) == events' = Append(events, e) /\ UNCHANGED pending
Hold(e) == pending' = e /\ UNCHANGED events

(* Mutant: a change to unsigned is recorded at once. *)
JudgeAtOnce(old, new, held) ==
    LET e == [prev |-> SigningStatus(old), new |-> SigningStatus(new),
              reason |-> DriftReason(old, new)]
    IN IF e.new # e.prev /\ e.prev \in {"verified", "signed"} THEN Insert(e) ELSE UNCHANGED drift

(* Mutant: unchanged statuses return before the pending row is looked at. *)
JudgeUnchangedFirst(old, new, held) ==
    LET e == [prev |-> SigningStatus(old), new |-> SigningStatus(new),
              reason |-> DriftReason(old, new)]
    IN IF e.new = e.prev \/ e.prev \notin {"verified", "signed"} THEN UNCHANGED drift
       ELSE IF held.new = e.new THEN Insert(held)
       ELSE IF e.new = "unsigned" THEN Hold(e) ELSE Insert(e)

(* The verdict of recordProvenanceDrift, once the pending row is settled. *)
Judge(old, new, held) ==
    LET e == [prev |-> SigningStatus(old), new |-> SigningStatus(new),
              reason |-> DriftReason(old, new)]
    IN IF held.new = e.new THEN Insert(held)
       ELSE IF e.new = e.prev \/ e.prev \notin {"verified", "signed"} THEN UNCHANGED drift
       ELSE IF e.new = "unsigned" THEN Hold(e) ELSE Insert(e)

Record(w) ==
    /\ At(w, "record")
    /\ exec' = [exec EXCEPT ![w] = [Idle EXCEPT !.pc = "finish"]]
    /\ \/ NoFault /\ Judge(exec[w].old.prov, exec[w].prov, exec[w].held)
       \/ Disturb /\ UNCHANGED drift

Finish(w) ==
    /\ At(w, "finish")
    /\ job' = FinishEnrichmentJobByID(job)
    /\ exec' = [exec EXCEPT ![w] = Idle]

Fail(w) ==
    /\ At(w, "fail")
    /\ job' = FailOrRequeueEnrichmentJobByID(job, MaxAttempts)
    /\ exec' = [exec EXCEPT ![w] = Idle]

-----------------------------------------------------------------------------
(* The stuck sweep: after a crash, or under a run that is merely slow. *)
StuckSweep ==
    /\ job.state = "running"
    /\ job' = SpendAttempt(job, MaxAttempts)
    /\ IF \E w \in Workers : Busy(w) THEN Disturb ELSE NoFault

(* The worker process dies: its runs and its caches are gone. *)
Crash ==
    /\ \E w \in Workers : Busy(w)
    /\ Disturb
    /\ exec' = [w \in Workers |-> Idle]
    /\ cached' = NoConfig /\ root' = "none"

Lookup(w) ==
    /\ CheckExists(w) \/ DiscoverReferrers(w) \/ DiscoverViaTagScheme(w)
    /\ UNCHANGED <<outside, caches, job, due, stored, drift, seen>>

Run(w) ==
    \/ Claim(w) /\ NoFault /\ UNCHANGED <<outside, caches, due, stored, drift, seen>>
    \/ Lookup(w)
    \/ Verify(w) /\ UNCHANGED <<outside, job, due, stored, drift, seen>>
    \/ ReadPrior(w) /\ UNCHANGED <<outside, caches, job, due, stored, drift, seen>>
    \/ StoreResult(w) /\ UNCHANGED <<outside, caches, job, drift>>
    \/ ReadPending(w) /\ UNCHANGED <<outside, caches, job, due, stored, drift, seen>>
    \/ ClearPending(w) /\ UNCHANGED <<outside, caches, job, due, stored, events, seen>>
    \/ Record(w) /\ UNCHANGED <<outside, caches, job, due, stored, seen>>
    \/ (Finish(w) \/ Fail(w)) /\ NoFault
       /\ UNCHANGED <<outside, caches, due, stored, drift, seen>>

Environment ==
    /\ \/ RemoveSignature \/ DeleteImage \/ SetTrust
    /\ NoFault /\ UNCHANGED <<caches, job, due, stored, drift, exec, seen>>

Time ==
    /\ NoFault /\ UNCHANGED <<outside, stored, drift, exec, seen>>
    /\ \/ (ExpireTrustCache \/ AgeRoot) /\ UNCHANGED <<job, due>>
       \/ Elapse /\ UNCHANGED <<caches, job>>
       \/ Recheck /\ UNCHANGED <<caches, due>>

Next ==
    \/ \E w \in Workers : Run(w)
    \/ Environment
    \/ Time
    \/ StuckSweep /\ UNCHANGED <<outside, caches, due, stored, drift, exec, seen>>
    \/ Crash /\ UNCHANGED <<outside, job, due, stored, drift, seen>>

Spec == Init /\ [][Next]_vars

(***************************************************************************)
(* Goroutines run, the ticker fires, time passes, and the sweep follows a  *)
(* crash: each is a loop of the process that nothing else can hold up.     *)
(***************************************************************************)
FairSpec ==
    /\ Spec
    /\ \A w \in Workers : WF_vars(Run(w))
    /\ WF_vars(Time)
    /\ WF_vars(StuckSweep /\ NoFault
               /\ UNCHANGED <<outside, caches, due, stored, drift, exec, seen>>)

-----------------------------------------------------------------------------
(***************************************************************************)
(* "One bad lookup can no longer raise a false alarm", as far as it goes:  *)
(* while statements succeed and runs do not overlap, an event that says    *)
(* the signature is gone follows two lookups in a row that found none.     *)
(***************************************************************************)
UnsignedConfirmed ==
    [][\A i \in Len(events) + 1 .. Len(events') :
          calm /\ events'[i].new = "unsigned" => seen = <<"unsigned", "unsigned">>]_vars

(***************************************************************************)
(* Only a deleted image is ever reported or stored as missing, whatever    *)
(* lookups fail (artifactMissing, isNotFound).                             *)
(***************************************************************************)
MissingIsDeleted ==
    registry.image => /\ ~stored.prov.missing
                      /\ \A i \in DOMAIN events : events[i].new # "artifact_missing"

(***************************************************************************)
(* A drift that was found is reported against the last trusted state: a    *)
(* verified record that is stored over by an unsigned one leaves a pending *)
(* row or an event behind while statements succeed and no run overlaps.    *)
(***************************************************************************)
DowngradeLeavesTrace ==
    calm /\ seen = <<"verified", "unsigned">> /\ (\A w \in Workers : ~Busy(w))
        => pending.prev = "verified"

(* Each held-back observation is decided by a later recheck, faults or not. *)
PendingResolves == pending # NoPending ~> pending = NoPending

(***************************************************************************)
(* A signature that is really gone is reported: the second recheck writes  *)
(* the event, unless the image goes too or a fault intervenes.             *)
(***************************************************************************)
Stripped == registry.image /\ registry.referrers \o registry.tags = <<>>

Reported(s) == \E i \in DOMAIN events : events[i].new = s

RemovalReported ==
    (calm /\ Stripped /\ stored.status = "success"
       /\ SigningStatus(stored.prov) \in {"verified", "signed"})
    ~> (Reported("unsigned") \/ ~calm \/ ~Stripped)

-----------------------------------------------------------------------------
(***************************************************************************)
(* "Requiring two consecutive observations to agree means one bad lookup   *)
(* can no longer raise a false alarm" (provenance_drift.go): with nothing  *)
(* changed outside and one fault, no event is recorded.  A failed trust    *)
(* lookup, or a trusted root that cannot be fetched, breaks it.            *)
(***************************************************************************)
NoFalseAlarm == changes = 0 /\ faults <= 1 => events = <<>>
=============================================================================
