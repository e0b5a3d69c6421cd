------------------------ MODULE ProvenanceDriftProofs -----------------------
(***************************************************************************)
(* Proofs about ProvenanceDrift, for every set of goroutines, every        *)
(* registry content, every trust setting and every bound.                  *)
(***************************************************************************)
EXTENDS ProvenanceDrift, SequenceTheorems, TLAPS

-----------------------------------------------------------------------------
(***************************************************************************)
(* The inductive invariants                                                *)
(***************************************************************************)

(* The key ids that buildProvenance can read off a list of layers. *)
KeyIDs == {NoSigner} \cup {BuildProvenance(raw).fingerprint : raw \in Seq(Layer)}

Reading == [missing : BOOLEAN, sig : BOOLEAN, att : BOOLEAN, verified : Verdict,
            fingerprint : KeyIDs, identity : Signers \cup {NoSigner}]

Row == [status : {"none", "error", "success"}, prov : Reading]

Execution == [pc : Steps \cup {"idle"}, raw : Seq(Layer), ok : BOOLEAN, prov : Reading,
              old : Row, held : Event \cup {NoPending}]

Types ==
    /\ registry \in RegistryContent /\ trust \in Trusts
    /\ cached \in [cfg : Trusts, fresh : BOOLEAN] \cup {NoConfig}
    /\ job \in EnrichJob
    /\ stored \in Row
    /\ pending \in Event \cup {NoPending} /\ events \in Seq(Event)
    /\ exec \in [Workers -> Execution]
    /\ seen \in Seq(Status) /\ Len(seen) <= 2
    /\ calm \in BOOLEAN

(* While the image is there nothing in the system calls it missing. *)
NowhereMissing ==
    registry.image =>
        /\ ~stored.prov.missing
        /\ pending.new # "artifact_missing"
        /\ \A i \in DOMAIN events : events[i].new # "artifact_missing"
        /\ \A w \in Workers :
            /\ ~exec[w].prov.missing /\ ~exec[w].old.prov.missing
            /\ exec[w].held.new # "artifact_missing"

(* A calm history has at most one run, and it holds the row. *)
OneRun ==
    calm => \A w \in Workers : Busy(w) =>
        /\ job.state = "running"
        /\ \A v \in Workers : Busy(v) => v = w

(* Stored and compared, the verdict still open. *)
Comparing(w) == exec[w].pc \in {"pending", "clear", "record"}

LastSeen == seen[Len(seen)]

(* seen follows stored, and a run that compares has the last two of them. *)
SeenIsStored ==
    calm =>
        /\ seen = <<>> => stored.status # "success"
        /\ seen # <<>> => stored.status = "success" /\ SigningStatus(stored.prov) = LastSeen
        /\ \A w \in Workers :
            /\ At(w, "store") /\ exec[w].ok => exec[w].old = stored
            /\ Comparing(w) => /\ Len(seen) = 2
                               /\ SigningStatus(exec[w].old.prov) = seen[1]
                               /\ SigningStatus(exec[w].prov) = seen[2]

(* A held-back observation stands on the last status stored before the run *)
(* that judges it; a run carries it from clearing the row to the verdict.  *)
HeldIsSeen ==
    calm =>
        /\ pending # NoPending => /\ pending.new = "unsigned" /\ seen # <<>>
                                  /\ (\A w \in Workers : ~Comparing(w)) => LastSeen = "unsigned"
        /\ \A w \in Workers :
            /\ Comparing(w) /\ pending # NoPending => seen[1] = "unsigned"
            /\ At(w, "record") => pending = NoPending
            /\ At(w, "clear") \/ At(w, "record") =>
                 \/ exec[w].held = NoPending
                 \/ exec[w].held.new = "unsigned" /\ seen[1] = "unsigned"

(* A fresh downgrade that no run is judging is held back. *)
DowngradeHeld ==
    calm /\ seen = <<"verified", "unsigned">> /\ (\A w \in Workers : ~Comparing(w))
        => pending.prev = "verified"

-----------------------------------------------------------------------------
(***************************************************************************)
(* Provenance records and signing statuses                                 *)
(***************************************************************************)

(* What applyTrust makes of some layers is a reading that is not missing. *)
LEMMA ApplyTrustType ==
    ASSUME NEW raw \in Seq(Layer), NEW cfg \in Trusts \cup {Untrusted}, NEW ok \in BOOLEAN
    PROVE  /\ ApplyTrust(raw, cfg, ok) \in Reading
           /\ ~ApplyTrust(raw, cfg, ok).missing
<1> DEFINE p == BuildProvenance(raw)
           q == VerifyAgainst(p, raw, cfg)
<1>1. p \in Reading /\ ~p.missing
  <2> DEFINE sig == Sigs(raw) # <<>>
             att == Atts(raw) # <<>>
             id == IF Atts(raw) # <<>> /\ Head(Atts(raw)).kind = "att"
                   THEN Head(Atts(raw)).signer ELSE NoSigner
  <2>1. p = [Nothing EXCEPT !.sig = sig, !.att = att, !.fingerprint = id]
    BY DEF BuildProvenance
  <2>2. sig \in BOOLEAN /\ att \in BOOLEAN
    OBVIOUS
  <2>3. p.fingerprint \in KeyIDs
    BY DEF KeyIDs
  <2> HIDE DEF sig, att, id
  <2>4. p = [missing |-> FALSE, sig |-> sig, att |-> att, verified |-> "nil",
             fingerprint |-> id, identity |-> NoSigner]
    BY <2>1 DEF Nothing
  <2> HIDE DEF p
  <2> QED
    BY <2>2, <2>3, <2>4 DEF Reading, Verdict
<1>2. q \in Reading /\ ~q.missing
  <2>1. q = p \/ q = [p EXCEPT !.verified = "yes"] \/ q = [p EXCEPT !.verified = "no"]
    BY DEF VerifyAgainst
  <2> HIDE DEF p, q
  <2> QED
    BY <1>1, <2>1 DEF Reading, Verdict
<1>3. CASE cfg.mode = "none"
  BY <1>1, <1>3 DEF ApplyTrust
<1>4. CASE cfg.mode = "public_key"
  BY <1>2, <1>4 DEF ApplyTrust
<1>5. CASE cfg.mode = "keyless"
  <2>1. cfg.signer \in Signers
    BY <1>5, ProvenanceDriftAssumption DEF Config, Untrusted
  <2>2. StampIdentity(q, cfg) = q \/ StampIdentity(q, cfg) = [q EXCEPT !.identity = cfg.signer]
    BY DEF StampIdentity
  <2>3. StampIdentity(q, cfg) \in Reading /\ ~StampIdentity(q, cfg).missing
    <3> HIDE DEF q
    <3> QED
      BY <1>2, <2>1, <2>2 DEF Reading
  <2> QED
    BY <1>1, <1>5, <2>3 DEF ApplyTrust
<1> QED
  BY <1>3, <1>4, <1>5, ProvenanceDriftAssumption DEF Config, Mode, Untrusted

(* The constants of the module are readings, rows and executions. *)
LEMMA EmptyTypes ==
    /\ Nothing \in Reading /\ ~Nothing.missing
    /\ ArtifactMissing \in Reading
    /\ NotStored \in Row
    /\ Idle \in Execution
<1>1. Nothing \in Reading /\ ArtifactMissing \in Reading
  BY DEF Nothing, ArtifactMissing, Reading, Verdict, KeyIDs
<1> QED
  BY <1>1, EmptySeq DEF NotStored, Row, Idle, Execution, Nothing

(* A reading has one status, "artifact_missing" exactly when it is missing. *)
LEMMA StatusType ==
    ASSUME NEW p \in Reading
    PROVE  /\ SigningStatus(p) \in Status
           /\ ~p.missing => SigningStatus(p) # "artifact_missing"
BY DEF Reading, SigningStatus, Status, Verdict

(* A comparison gives an event. *)
LEMMA EventType ==
    ASSUME NEW old \in Reading, NEW new \in Reading
    PROVE  [prev |-> SigningStatus(old), new |-> SigningStatus(new),
            reason |-> DriftReason(old, new)] \in Event
BY StatusType DEF Event, DriftReason

(* A sequence is empty when its length is zero. *)
LEMMA EmptyLen ==
    ASSUME NEW S, NEW q \in Seq(S)
    PROVE  Len(q) \in Nat /\ (q = <<>> <=> Len(q) = 0)
<1>1. Len(<<>>) = 0 /\ (q # <<>> => Len(q) \in Nat \ {0})
  BY EmptySeq
<1> QED
  BY <1>1

(* The history n that a status x leaves of the history h. *)
Joined(h, x, n) ==
    /\ n # <<>> /\ n[Len(n)] = x
    /\ h = <<>> => Len(n) = 1
    /\ h # <<>> => Len(n) = 2 /\ n[1] = h[Len(h)] /\ n[2] = x

(* The last two of a short history and the status that joins it. *)
LEMMA LastTwoAppend ==
    ASSUME NEW h \in Seq(Status), Len(h) <= 2, NEW x \in Status, NEW n,
           n = LastTwo(Append(h, x))
    PROVE  n \in Seq(Status) /\ Len(n) <= 2 /\ Joined(h, x, n)
<1> USE DEF Joined
<1>1. PICK a : a = Append(h, x)
  OBVIOUS
<1>2. /\ a \in Seq(Status) /\ a # <<>> /\ Len(a) = Len(h) + 1 /\ a[Len(h) + 1] = x
      /\ \A i \in 1 .. Len(h) : a[i] = h[i]
  BY <1>1, AppendProperties
<1>3. PICK m \in Nat : m = Len(h)
  BY EmptyLen
<1>4. m <= 2 /\ (h = <<>> <=> m = 0)
  BY <1>3, EmptyLen
<1>5. CASE m = 2
  <2>1. n = Tail(a)
    BY <1>1, <1>2, <1>3, <1>5 DEF LastTwo
  <2>2. /\ n \in Seq(Status) /\ Len(n) = 2
        /\ n[1] = a[2] /\ n[2] = a[3]
    <3>1. Len(a) = 3
      BY <1>2, <1>3, <1>5
    <3>2. /\ n \in Seq(Status) /\ Len(n) = Len(a) - 1
          /\ \A i \in 1 .. Len(n) : n[i] = a[i + 1]
      BY <1>2, <2>1, HeadTailProperties
    <3>3. Len(n) = 2
      BY <3>1, <3>2
    <3>4. 1 \in 1 .. Len(n) /\ 2 \in 1 .. Len(n) /\ 1 + 1 = 2 /\ 2 + 1 = 3
      BY <3>3
    <3>5. n[1] = a[1 + 1] /\ n[2] = a[2 + 1]
      BY <3>2, <3>4, Zenon
    <3> QED
      BY <3>2, <3>3, <3>4, <3>5, Zenon
  <2>3. n # <<>>
    BY <2>2, EmptyLen
  <2>4. a[2] = h[2] /\ a[3] = x
    BY <1>2, <1>3, <1>5
  <2> QED
    BY <1>3, <1>4, <1>5, <2>2, <2>3, <2>4
<1>6. CASE m = 0 \/ m = 1
  <2>1. Len(a) = m + 1 /\ a[m + 1] = x /\ (m = 1 => a[1] = h[1])
    BY <1>2, <1>3, <1>6
  <2>2. n = a
    <3>1. ~(Len(a) > 2)
      BY <1>6, <2>1
    <3> QED
      BY <1>1, <3>1 DEF LastTwo
  <2> QED
    BY <1>2, <1>3, <1>4, <1>6, <2>1, <2>2
<1>7. m = 0 \/ m = 1 \/ m = 2
  BY <1>4
<1> QED
  BY <1>5, <1>6, <1>7

(* An update of one goroutine's run leaves the others alone. *)
LEMMA SetExec ==
    ASSUME exec \in [Workers -> Execution], NEW w \in Workers, NEW y \in Execution,
           exec' = [exec EXCEPT ![w] = y]
    PROVE  /\ exec' \in [Workers -> Execution]
           /\ exec'[w] = y
           /\ \A v \in Workers : v # w => exec'[v] = exec[v]
OBVIOUS

(* The statements on the job's row leave a row. *)
LEMMA JobTypes ==
    ASSUME NEW r \in EnrichJob
    PROVE  /\ ClaimEnrichmentJob(r) \in EnrichJob
           /\ FinishEnrichmentJobByID(r) \in EnrichJob
           /\ SpendAttempt(r, MaxAttempts) \in EnrichJob
           /\ FailOrRequeueEnrichmentJobByID(r, MaxAttempts) \in EnrichJob
           /\ RequeueEnrichmentJobForRecheck(r) \in EnrichJob
BY DEF EnrichJob, EnrichJobState, ClaimEnrichmentJob, FinishEnrichmentJobByID, SpendAttempt,
       FailOrRequeueEnrichmentJobByID, RequeueEnrichmentJobForRecheck, Fresh, NoRow

-----------------------------------------------------------------------------
(***************************************************************************)
(* What each step of a run does to it                                      *)
(***************************************************************************)

(* No step makes a history calm again. *)
LEMMA CalmStays ==
    ASSUME Fault \/ Disturb \/ NoFault
    PROVE  calm' = calm \/ calm' = FALSE
BY DEF Fault, Disturb, NoFault

(* The lookup ends with nothing to store, or with an error. *)
LEMMA LookupStep ==
    ASSUME Types, NEW w \in Workers, Lookup(w)
    PROVE  /\ calm' = calm /\ Busy(w) /\ ~Comparing(w)
           /\ \E y \in Execution :
                /\ exec' = [exec EXCEPT ![w] = y]
                /\ y.old = exec[w].old /\ y.held = exec[w].held
                /\ y.prov.missing /\ ~exec[w].prov.missing => ~registry.image
                /\ y.pc \in {"referrers", "tags", "trust", "prior", "store"}
                /\ y.pc = "store" => y.ok = FALSE
<1> DEFINE x == exec[w]
<1>1. x \in Execution
  BY DEF Types
<1>2. calm' = calm /\ x.pc \in {"head", "referrers", "tags"}
  BY SMTT(60) DEF Lookup, CheckExists, DiscoverReferrers, DiscoverViaTagScheme, At, Fault, NoFault
<1>3. registry.referrers \in Seq(Layer) /\ registry.tags \in Seq(Layer)
  BY DEF Types, RegistryContent
<1> DEFINE To(y) == exec' = [exec EXCEPT ![w] = y]
<1>4. \/ To([x EXCEPT !.pc = "referrers"])
      \/ To([x EXCEPT !.pc = "prior", !.prov = ArtifactMissing]) /\ ~registry.image
      \/ To([x EXCEPT !.pc = "store", !.ok = FALSE])
      \/ To([x EXCEPT !.pc = "tags"])
      \/ \E raw \in Seq(Layer), pc \in {"trust", "tags"} :
            To([x EXCEPT !.raw = raw, !.pc = pc])
  <2>1. CASE CheckExists(w)
    BY <2>1 DEF CheckExists, Go, EnrichFails
  <2>2. CASE DiscoverReferrers(w)
    <3>1. CASE \E raw \in {registry.referrers, Tail(registry.referrers)} :
                 /\ raw = registry.referrers \/ registry.referrers # <<>>
                 /\ exec' = [exec EXCEPT ![w].raw = raw,
                               ![w].pc = IF raw # <<>> THEN "trust" ELSE "tags"]
      <4>1. PICK raw : /\ raw \in Seq(Layer)
                       /\ exec' = [exec EXCEPT ![w].raw = raw,
                                     ![w].pc = IF raw # <<>> THEN "trust" ELSE "tags"]
        BY <3>1, <1>3, HeadTailProperties, ZenonT(60)
      <4> DEFINE pc == IF raw # <<>> THEN "trust" ELSE "tags"
      <4>2. To([x EXCEPT !.raw = raw, !.pc = pc]) /\ pc \in {"trust", "tags"}
        BY <4>1
      <4> QED
        BY <4>1, <4>2
    <3> QED
      BY <2>2, <3>1 DEF DiscoverReferrers, Go, EnrichFails
  <2>3. CASE DiscoverViaTagScheme(w)
    BY <2>3, <1>3 DEF DiscoverViaTagScheme, EnrichFails
  <2> QED
    BY <2>1, <2>2, <2>3, ZenonT(60) DEF Lookup
<1> DEFINE Outcome(y) == /\ y \in Execution
                         /\ y.old = x.old /\ y.held = x.held
                         /\ y.prov.missing /\ ~x.prov.missing => ~registry.image
                         /\ y.pc \in {"referrers", "tags", "trust", "prior", "store"}
                         /\ y.pc = "store" => y.ok = FALSE
<1>5. Outcome([x EXCEPT !.pc = "referrers"]) /\ Outcome([x EXCEPT !.pc = "tags"])
  BY <1>1 DEF Execution, Steps
<1>6. ~registry.image => Outcome([x EXCEPT !.pc = "prior", !.prov = ArtifactMissing])
  BY <1>1, EmptyTypes DEF Execution, Steps
<1>7. Outcome([x EXCEPT !.pc = "store", !.ok = FALSE])
  BY <1>1 DEF Execution, Steps
<1>8. \A raw \in Seq(Layer), pc \in {"trust", "tags"} :
         Outcome([x EXCEPT !.raw = raw, !.pc = pc])
  BY <1>1 DEF Execution, Steps
<1>9. \E y : To(y) /\ Outcome(y)
  <2> HIDE DEF Outcome, To
  <2> QED
    BY <1>4, <1>5, <1>6, <1>7, <1>8
<1> QED
  BY <1>2, <1>9 DEF Busy, Comparing

(* The trust settings make a reading that is not missing. *)
LEMMA VerifyStep ==
    ASSUME Types, NEW w \in Workers, Verify(w)
    PROVE  /\ calm' = calm /\ At(w, "trust")
           /\ cached' \in [cfg : Trusts, fresh : BOOLEAN] \cup {NoConfig}
           /\ \E y \in Execution :
                /\ exec' = [exec EXCEPT ![w] = y]
                /\ y.old = exec[w].old /\ y.held = exec[w].held
                /\ y.pc = "prior" /\ ~y.prov.missing
<1> DEFINE x == exec[w]
<1>1. x \in Execution
  BY DEF Types
<1>2. PICK lookupFailed \in BOOLEAN, rootFailed \in BOOLEAN, ok \in BOOLEAN,
           cfg \in Trusts \cup {Untrusted} :
        /\ TrustLookup(cfg, lookupFailed)
        /\ IF lookupFailed \/ rootFailed THEN Fault ELSE NoFault
        /\ exec' = [exec EXCEPT ![w].pc = "prior", ![w].raw = <<>>,
                                ![w].prov = ApplyTrust(exec[w].raw, cfg, ok)]
  BY DEF Verify
<1>3. x.raw \in Seq(Layer)
  BY <1>1 DEF Execution
<1>4. PICK p \in Reading : p = ApplyTrust(x.raw, cfg, ok) /\ ~p.missing
  BY <1>3, ApplyTrustType
<1> DEFINE y == [x EXCEPT !.pc = "prior", !.raw = <<>>, !.prov = p]
<1>5. exec' = [exec EXCEPT ![w] = y]
  BY <1>2, <1>4
<1>6. /\ y \in Execution /\ y.old = x.old /\ y.held = x.held
      /\ y.pc = "prior" /\ ~y.prov.missing
  BY <1>1, <1>4, EmptySeq DEF Execution, Steps
<1>7. calm' = calm
  BY <1>2 DEF Fault, NoFault
<1>8. cached' \in [cfg : Trusts, fresh : BOOLEAN] \cup {NoConfig}
  <2>1. CASE UNCHANGED cached
    BY <2>1 DEF Types
  <2>2. CASE cached' = [cfg |-> trust, fresh |-> TRUE]
    BY <2>2 DEF Types
  <2> QED
    BY <1>2, <2>1, <2>2 DEF TrustLookup
<1> QED
  <2> HIDE DEF y
  <2> QED
    BY <1>5, <1>6, <1>7, <1>8 DEF Verify, At

(* The result before is read, or the history stops being calm. *)
LEMMA ReadPriorStep ==
    ASSUME Types, NEW w \in Workers, ReadPrior(w)
    PROVE  /\ At(w, "prior")
           /\ \E y \in Execution :
                /\ exec' = [exec EXCEPT ![w] = y]
                /\ y.pc = "store" /\ y.prov = exec[w].prov /\ y.held = exec[w].held
                /\ \/ calm' = calm /\ y.old = stored
                   \/ calm' = FALSE /\ y.old = exec[w].old
<1>1. exec[w] \in Execution /\ stored \in Row
  BY DEF Types
<1>2. CASE NoFault /\ exec' = [exec EXCEPT ![w].pc = "store", ![w].old = stored]
  <2> DEFINE y == [exec[w] EXCEPT !.pc = "store", !.old = stored]
  <2>1. exec' = [exec EXCEPT ![w] = y]
    BY <1>2
  <2>2. /\ y \in Execution /\ y.pc = "store" /\ y.prov = exec[w].prov
        /\ y.held = exec[w].held /\ y.old = stored
    BY <1>1 DEF Execution, Steps
  <2> HIDE DEF y
  <2> QED
    BY <1>2, <2>1, <2>2 DEF ReadPrior, At, NoFault
<1>3. CASE Disturb /\ Go(w, "store")
  <2> DEFINE y == [exec[w] EXCEPT !.pc = "store"]
  <2>1. exec' = [exec EXCEPT ![w] = y]
    BY <1>3 DEF Go
  <2>2. /\ y \in Execution /\ y.pc = "store" /\ y.prov = exec[w].prov
        /\ y.held = exec[w].held /\ y.old = exec[w].old
    BY <1>1 DEF Execution, Steps
  <2> HIDE DEF y
  <2> QED
    BY <1>3, <2>1, <2>2 DEF ReadPrior, At, Disturb
<1> QED
  BY <1>2, <1>3 DEF ReadPrior

(* A reading is stored and compared, an error is stored, or nothing is. *)
LEMMA StoreStep ==
    ASSUME Types, NEW w \in Workers, StoreResult(w)
    PROVE  /\ At(w, "store")
           /\ \E y \in Execution :
                /\ exec' = [exec EXCEPT ![w] = y]
                /\ y.prov = exec[w].prov /\ y.old = exec[w].old /\ y.held = exec[w].held
                /\ \/ /\ calm' = FALSE /\ y.pc = "fail"
                      /\ UNCHANGED <<stored, seen>>
                   \/ /\ calm' = calm /\ exec[w].ok = FALSE /\ y.pc = "finish"
                      /\ stored' \in Row /\ stored'.prov = stored.prov
                      /\ stored.status = "success" => stored'.status = "success"
                      /\ stored.status # "success" => stored'.status # "success"
                      /\ seen' = seen
                   \/ /\ calm' = calm /\ exec[w].ok = TRUE
                      /\ stored' = [status |-> "success", prov |-> exec[w].prov]
                      /\ seen' = LastTwo(Append(seen, SigningStatus(exec[w].prov)))
                      /\ \/ exec[w].old.status = "success" /\ y.pc = "pending"
                         \/ exec[w].old.status # "success" /\ y.pc = "finish"
<1> DEFINE x == exec[w]
           To(pc) == [x EXCEPT !.pc = pc]
<1>1. /\ x \in Execution /\ stored \in Row /\ x.ok \in BOOLEAN /\ x.prov \in Reading
      /\ stored.prov \in Reading /\ stored.status \in {"none", "error", "success"}
  BY DEF Types, Execution, Row
<1>2. /\ At(w, "store")
      /\ \/ /\ NoFault
            /\ stored' = [status |-> UpsertEnrichment(stored.status,
                                        IF x.ok THEN "success" ELSE "error"),
                          prov |-> IF x.ok THEN x.prov ELSE stored.prov]
            /\ seen' = IF x.ok THEN LastTwo(Append(seen, SigningStatus(x.prov))) ELSE seen
            /\ Go(w, IF x.ok /\ x.old.status = "success" THEN "pending" ELSE "finish")
         \/ Disturb /\ Go(w, "fail") /\ UNCHANGED <<stored, seen>>
  BY DEF StoreResult
<1>3. \A pc \in {"fail", "finish", "pending"} :
         /\ To(pc) \in Execution /\ To(pc).pc = pc
         /\ To(pc).prov = x.prov /\ To(pc).old = x.old /\ To(pc).held = x.held
         /\ Go(w, pc) => exec' = [exec EXCEPT ![w] = To(pc)]
  BY <1>1 DEF Execution, Steps, Go
<1>4. CASE Disturb /\ Go(w, "fail") /\ UNCHANGED <<stored, seen>>
  <2> HIDE DEF To
  <2> QED
    BY <1>2, <1>3, <1>4 DEF Disturb
<1>5. CASE /\ NoFault /\ x.ok = FALSE
           /\ stored' = [status |-> UpsertEnrichment(stored.status, "error"),
                         prov |-> stored.prov]
           /\ seen' = seen /\ Go(w, "finish")
  <2>1. /\ stored' \in Row /\ stored'.prov = stored.prov
        /\ stored.status = "success" => stored'.status = "success"
        /\ stored.status # "success" => stored'.status # "success"
    BY <1>1, <1>5 DEF Row, UpsertEnrichment
  <2> HIDE DEF To
  <2> QED
    BY <1>2, <1>3, <1>5, <2>1 DEF NoFault
<1>6. CASE /\ NoFault /\ x.ok = TRUE
           /\ stored' = [status |-> UpsertEnrichment(stored.status, "success"),
                         prov |-> x.prov]
           /\ seen' = LastTwo(Append(seen, SigningStatus(x.prov)))
           /\ Go(w, IF x.old.status = "success" THEN "pending" ELSE "finish")
  <2>1. stored' = [status |-> "success", prov |-> x.prov]
    BY <1>6 DEF UpsertEnrichment
  <2>2. PICK pc \in {"fail", "finish", "pending"} :
           /\ Go(w, pc)
           /\ \/ x.old.status = "success" /\ pc = "pending"
              \/ x.old.status # "success" /\ pc = "finish"
    BY <1>6
  <2> HIDE DEF To
  <2> QED
    BY <1>2, <1>3, <1>6, <2>1, <2>2 DEF NoFault
<1>7. x.ok = TRUE \/ x.ok = FALSE
  BY <1>1
<1> QED
  BY <1>2, <1>4, <1>5, <1>6, <1>7

(* The pending row is read, or taken to be absent. *)
LEMMA ReadPendingStep ==
    ASSUME Types, NEW w \in Workers, ReadPending(w)
    PROVE  /\ At(w, "pending")
           /\ \E y \in Execution :
                /\ exec' = [exec EXCEPT ![w] = y]
                /\ y.prov = exec[w].prov /\ y.old = exec[w].old
                /\ \/ /\ calm' = calm /\ y.held = pending
                      /\ \/ pending = NoPending /\ y.pc = "record"
                         \/ pending # NoPending /\ y.pc = "clear"
                   \/ calm' = FALSE /\ y.held = exec[w].held /\ y.pc = "record"
<1>1. exec[w] \in Execution /\ pending \in Event \cup {NoPending}
  BY DEF Types
<1>2. CASE /\ NoFault
           /\ exec' = [exec EXCEPT ![w].held = pending,
                         ![w].pc = IF pending = NoPending THEN "record" ELSE "clear"]
  <2>1. PICK pc \in {"record", "clear"} :
           /\ pc = IF pending = NoPending THEN "record" ELSE "clear"
           /\ \/ pending = NoPending /\ pc = "record"
              \/ pending # NoPending /\ pc = "clear"
    OBVIOUS
  <2> DEFINE y == [exec[w] EXCEPT !.held = pending, !.pc = pc]
  <2>2. exec' = [exec EXCEPT ![w] = y]
    BY <1>2, <2>1
  <2>3. /\ y \in Execution /\ y.pc = pc /\ y.prov = exec[w].prov
        /\ y.held = pending /\ y.old = exec[w].old
    BY <1>1 DEF Execution, Steps
  <2> HIDE DEF y
  <2> QED
    BY <1>2, <2>1, <2>2, <2>3 DEF ReadPending, At, NoFault
<1>3. CASE Disturb /\ Go(w, "record")
  <2> DEFINE y == [exec[w] EXCEPT !.pc = "record"]
  <2>1. exec' = [exec EXCEPT ![w] = y]
    BY <1>3 DEF Go
  <2>2. /\ y \in Execution /\ y.pc = "record" /\ y.prov = exec[w].prov
        /\ y.held = exec[w].held /\ y.old = exec[w].old
    BY <1>1 DEF Execution, Steps
  <2> HIDE DEF y
  <2> QED
    BY <1>3, <2>1, <2>2 DEF ReadPending, At, Disturb
<1> QED
  BY <1>2, <1>3 DEF ReadPending

(* The pending row is cleared, or the history stops being calm. *)
LEMMA ClearPendingStep ==
    ASSUME Types, NEW w \in Workers, ClearPending(w)
    PROVE  /\ At(w, "clear")
           /\ \/ calm' = calm /\ pending' = NoPending
              \/ calm' = FALSE /\ pending' = pending
           /\ \E y \in Execution :
                /\ exec' = [exec EXCEPT ![w] = y]
                /\ y.prov = exec[w].prov /\ y.old = exec[w].old /\ y.held = exec[w].held
                /\ y.pc = "record"
<1>1. exec[w] \in Execution
  BY DEF Types
<1> DEFINE y == [exec[w] EXCEPT !.pc = "record"]
<1>2. exec' = [exec EXCEPT ![w] = y]
  BY DEF ClearPending, Go
<1>3. /\ y \in Execution /\ y.pc = "record" /\ y.prov = exec[w].prov
      /\ y.held = exec[w].held /\ y.old = exec[w].old
  BY <1>1 DEF Execution, Steps
<1> HIDE DEF y
<1> QED
  BY <1>2, <1>3 DEF ClearPending, At, NoFault, Disturb

(* The verdict: the held-back observation, the new one, or neither. *)
LEMMA RecordStep ==
    ASSUME Types, NEW w \in Workers, Record(w)
    PROVE  /\ At(w, "record")
           /\ \E y \in Execution :
                /\ exec' = [exec EXCEPT ![w] = y]
                /\ y.prov = Nothing /\ y.old = NotStored /\ y.held = NoPending
                /\ y.pc = "finish"
           /\ \/ calm' = FALSE /\ UNCHANGED <<pending, events>>
              \/ /\ calm' = calm
                 /\ \E e \in Event :
                      /\ e.prev = SigningStatus(exec[w].old.prov)
                      /\ e.new = SigningStatus(exec[w].prov)
                      /\ \/ /\ exec[w].held.new = e.new
                            /\ exec[w].held \in Event
                            /\ events' = Append(events, exec[w].held) /\ pending' = pending
                         \/ /\ exec[w].held.new # e.new
                            /\ e.new = e.prev \/ e.prev \notin {"verified", "signed"}
                            /\ UNCHANGED <<pending, events>>
                         \/ /\ exec[w].held.new # e.new
                            /\ e.new = "unsigned" /\ e.prev # "unsigned"
                            /\ pending' = e /\ events' = events
                         \/ /\ exec[w].held.new # e.new
                            /\ e.new # "unsigned"
                            /\ events' = Append(events, e) /\ pending' = pending
<1> DEFINE old == exec[w].old.prov
           new == exec[w].prov
           e == [prev |-> SigningStatus(old), new |-> SigningStatus(new),
                 reason |-> DriftReason(old, new)]
<1>1. exec[w] \in Execution /\ old \in Reading /\ new \in Reading
  BY DEF Types, Execution, Row
<1>2. e \in Event /\ e.prev = SigningStatus(old) /\ e.new = SigningStatus(new)
  BY <1>1, EventType
<1>3. \E y \in Execution :
         /\ exec' = [exec EXCEPT ![w] = y]
         /\ y.prov = Nothing /\ y.old = NotStored /\ y.held = NoPending
         /\ y.pc = "finish"
  <2> DEFINE y == [Idle EXCEPT !.pc = "finish"]
  <2>1. exec' = [exec EXCEPT ![w] = y]
    BY DEF Record
  <2>2. /\ y \in Execution /\ y.prov = Nothing /\ y.old = NotStored
        /\ y.held = NoPending /\ y.pc = "finish"
    BY EmptyTypes DEF Execution, Steps, Idle
  <2> HIDE DEF y
  <2> QED
    BY <2>1, <2>2
<1>4. exec[w].held.new = e.new => exec[w].held \in Event
  <2>1. e.new # "none"
    BY <1>2 DEF Event, Status
  <2> QED
    BY <1>1, <2>1 DEF Execution, NoPending
<1>5. \/ Disturb /\ UNCHANGED drift
      \/ NoFault /\ \/ exec[w].held.new = e.new /\ Insert(exec[w].held)
                    \/ /\ exec[w].held.new # e.new
                       /\ e.new = e.prev \/ e.prev \notin {"verified", "signed"}
                       /\ UNCHANGED drift
                    \/ /\ exec[w].held.new # e.new
                       /\ e.prev \in {"verified", "signed"}
                       /\ e.new = "unsigned" /\ Hold(e)
                    \/ /\ exec[w].held.new # e.new
                       /\ e.new # "unsigned" /\ Insert(e)
  BY DEF Record, Judge
<1> HIDE DEF e
<1>6. \/ calm' = FALSE /\ UNCHANGED <<pending, events>>
      \/ /\ calm' = calm
         /\ \/ /\ exec[w].held.new = e.new
               /\ events' = Append(events, exec[w].held) /\ pending' = pending
            \/ /\ exec[w].held.new # e.new
               /\ e.new = e.prev \/ e.prev \notin {"verified", "signed"}
               /\ UNCHANGED <<pending, events>>
            \/ /\ exec[w].held.new # e.new
               /\ e.new = "unsigned" /\ e.prev # "unsigned"
               /\ pending' = e /\ events' = events
            \/ /\ exec[w].held.new # e.new
               /\ e.new # "unsigned"
               /\ events' = Append(events, e) /\ pending' = pending
  BY <1>5 DEF Disturb, NoFault, Insert, Hold, drift
<1> QED
  BY <1>2, <1>3, <1>4, <1>6 DEF Record, At

-----------------------------------------------------------------------------
(***************************************************************************)
(* Types                                                                   *)
(***************************************************************************)
LEMMA TypesInit == Init => Types
<1> SUFFICES ASSUME Init PROVE Types
  OBVIOUS
<1>1. Fresh \in EnrichJob
  BY DEF Fresh, NoRow, EnrichJob, EnrichJobState
<1>2. Len(<<>>) <= 2
  BY EmptySeq
<1> QED
  BY <1>1, <1>2, EmptyTypes, EmptySeq, ProvenanceDriftAssumption DEF Init, Types

(* A run of the goroutines' keeps every type. *)
LEMMA TypesRun ==
    ASSUME Types, NEW w \in Workers, Run(w)
    PROVE  Types'
<1>1. CASE Claim(w) /\ NoFault /\ UNCHANGED <<outside, caches, due, stored, drift, seen>>
  <2> DEFINE y == [Idle EXCEPT !.pc = "head"]
  <2>1. y \in Execution
    BY EmptyTypes DEF Execution, Steps
  <2>2. exec' \in [Workers -> Execution]
    BY <1>1, <2>1, SetExec DEF Claim, Types
  <2>3. job' \in EnrichJob
    BY <1>1, JobTypes DEF Claim, Types
  <2> QED
    BY <1>1, <2>2, <2>3 DEF Types, outside, caches, drift, NoFault
<1>2. CASE Lookup(w)
  <2>1. exec' \in [Workers -> Execution] /\ calm' = calm
    BY <1>2, LookupStep, SetExec DEF Types
  <2> QED
    BY <1>2, <2>1 DEF Lookup, Types, outside, caches, drift
<1>3. CASE Verify(w) /\ UNCHANGED <<outside, job, due, stored, drift, seen>>
  <2>1. /\ exec' \in [Workers -> Execution] /\ calm' = calm
        /\ cached' \in [cfg : Trusts, fresh : BOOLEAN] \cup {NoConfig}
    BY <1>3, VerifyStep, SetExec DEF Types
  <2> QED
    BY <1>3, <2>1 DEF Types, outside, drift
<1>4. CASE ReadPrior(w) /\ UNCHANGED <<outside, caches, job, due, stored, drift, seen>>
  <2>1. exec' \in [Workers -> Execution] /\ (calm' = calm \/ calm' = FALSE)
    BY <1>4, ReadPriorStep, SetExec DEF Types
  <2> QED
    BY <1>4, <2>1 DEF Types, outside, caches, drift
<1>5. CASE StoreResult(w) /\ UNCHANGED <<outside, caches, job, drift>>
  <2>1. exec[w] \in Execution /\ exec[w].prov \in Reading
    BY DEF Types, Execution
  <2>2. /\ exec' \in [Workers -> Execution] /\ (calm' = calm \/ calm' = FALSE)
    BY <1>5, StoreStep, SetExec DEF Types
  <2>3. stored' \in Row
    <3>1. [status |-> "success", prov |-> exec[w].prov] \in Row
      BY <2>1 DEF Row
    <3>2. stored \in Row
      BY DEF Types
    <3> QED
      BY <1>5, <3>1, <3>2, StoreStep
  <2>4. seen' \in Seq(Status) /\ Len(seen') <= 2
    <3>1. CASE seen' = seen
      BY <3>1 DEF Types
    <3>2. CASE seen' = LastTwo(Append(seen, SigningStatus(exec[w].prov)))
      BY <2>1, <3>2, StatusType, LastTwoAppend DEF Types
    <3> QED
      BY <1>5, <3>1, <3>2, StoreStep
  <2> QED
    BY <1>5, <2>2, <2>3, <2>4 DEF Types, outside, caches, drift
<1>6. CASE ReadPending(w) /\ UNCHANGED <<outside, caches, job, due, stored, drift, seen>>
  <2>1. exec' \in [Workers -> Execution] /\ (calm' = calm \/ calm' = FALSE)
    BY <1>6, ReadPendingStep, SetExec DEF Types
  <2> QED
    BY <1>6, <2>1 DEF Types, outside, caches, drift
<1>7. CASE ClearPending(w) /\ UNCHANGED <<outside, caches, job, due, stored, events, seen>>
  <2>1. exec' \in [Workers -> Execution] /\ (calm' = calm \/ calm' = FALSE)
    BY <1>7, ClearPendingStep, SetExec DEF Types
  <2>2. pending' \in Event \cup {NoPending}
    BY <1>7, ClearPendingStep DEF Types
  <2> QED
    BY <1>7, <2>1, <2>2 DEF Types, outside, caches
<1>8. CASE Record(w) /\ UNCHANGED <<outside, caches, job, due, stored, seen>>
  <2>1. exec' \in [Workers -> Execution] /\ (calm' = calm \/ calm' = FALSE)
    BY <1>8, RecordStep, SetExec DEF Types
  <2>2. /\ pending' = pending \/ pending' \in Event
        /\ events' = events \/ \E e \in Event : events' = Append(events, e)
    BY <1>8, RecordStep
  <2>3. events' \in Seq(Event)
    BY <2>2, AppendProperties DEF Types
  <2> QED
    BY <1>8, <2>1, <2>2, <2>3 DEF Types, outside, caches
<1>9. CASE /\ Finish(w) \/ Fail(w)
           /\ NoFault /\ UNCHANGED <<outside, caches, due, stored, drift, seen>>
  <2>1. exec' \in [Workers -> Execution]
    BY <1>9, EmptyTypes, SetExec DEF Finish, Fail, Types
  <2>2. job' \in EnrichJob
    BY <1>9, JobTypes DEF Finish, Fail, Types
  <2> QED
    BY <1>9, <2>1, <2>2 DEF Types, outside, caches, drift, NoFault
<1> QED
  BY <1>1, <1>2, <1>3, <1>4, <1>5, <1>6, <1>7, <1>8, <1>9 DEF Run

(* The registry keeps being one, whatever happens to the image. *)
LEMMA RegistryStep ==
    ASSUME Types, Environment
    PROVE  /\ registry' \in RegistryContent
           /\ registry'.image => registry.image
<1>1. registry \in RegistryContent
  BY DEF Types
<1>2. CASE RemoveSignature
  <2> DEFINE Dropped == [registry EXCEPT !.referrers = DropFirst(@), !.tags = DropFirst(@)]
  <2>1. /\ DropFirst(registry.referrers) \in Seq(Layer)
        /\ DropFirst(registry.tags) \in Seq(Layer)
    BY <1>1, HeadTailProperties DEF RegistryContent, DropFirst
  <2>2. registry' = Dropped
    BY <1>2 DEF RemoveSignature
  <2>3. Dropped \in RegistryContent /\ Dropped.image = registry.image
    BY <1>1, <2>1 DEF RegistryContent
  <2> QED
    BY <2>2, <2>3
<1>3. CASE DeleteImage
  BY <1>3, EmptySeq DEF DeleteImage, RegistryContent
<1>4. CASE SetTrust
  BY <1>1, <1>4 DEF SetTrust
<1> QED
  BY <1>2, <1>3, <1>4 DEF Environment

LEMMA TypesNext ==
    ASSUME Types, [Next]_vars
    PROVE  Types'
<1>1. CASE \E w \in Workers : Run(w)
  BY <1>1, TypesRun
<1>2. CASE Environment
  <2>1. trust' \in Trusts
    BY <1>2 DEF Environment, RemoveSignature, DeleteImage, SetTrust, Types
  <2> QED
    BY <1>2, <2>1, RegistryStep DEF Environment, Types, caches, drift, NoFault
<1>3. CASE Time
  <2>1. job' \in EnrichJob
    BY <1>3, JobTypes DEF Time, Elapse, Recheck, Types
  <2>2. cached' \in [cfg : Trusts, fresh : BOOLEAN] \cup {NoConfig}
    <3>1. CASE ExpireTrustCache
      <4>1. cached # NoConfig
        BY <3>1 DEF ExpireTrustCache, NoConfig
      <4>2. cached \in [cfg : Trusts, fresh : BOOLEAN]
        BY <4>1 DEF Types
      <4>3. cached' = [cached EXCEPT !.fresh = FALSE]
        BY <3>1 DEF ExpireTrustCache
      <4> QED
        BY <4>2, <4>3
    <3> QED
      BY <1>3, <3>1 DEF Time, AgeRoot, caches, Types
  <2> QED
    BY <1>3, <2>1, <2>2 DEF Time, Types, outside, drift, NoFault
<1>4. CASE StuckSweep /\ UNCHANGED <<outside, caches, due, stored, drift, exec, seen>>
  <2>1. job' \in EnrichJob
    BY <1>4, JobTypes DEF StuckSweep, Types
  <2>2. calm' \in BOOLEAN
    BY <1>4 DEF StuckSweep, Disturb, NoFault, Types
  <2> QED
    BY <1>4, <2>1, <2>2 DEF Types, outside, caches, drift
<1>5. CASE Crash /\ UNCHANGED <<outside, job, due, stored, drift, seen>>
  <2>1. exec' \in [Workers -> Execution]
    BY <1>5, EmptyTypes DEF Crash
  <2> QED
    BY <1>5, <2>1 DEF Crash, Disturb, Types, outside, drift
<1>6. CASE UNCHANGED vars
  BY <1>6 DEF vars, outside, caches, drift, Types
<1> QED
  BY <1>1, <1>2, <1>3, <1>4, <1>5, <1>6 DEF Next

(* An inserted event joins the others at the end. *)
LEMMA InsertedEvent ==
    ASSUME Types, NEW e \in Event, events' = Append(events, e)
    PROVE  /\ Len(events') = Len(events) + 1 /\ Len(events) \in Nat
           /\ events'[Len(events) + 1] = e
           /\ \A i \in DOMAIN events' :
                \/ i \in DOMAIN events /\ events'[i] = events[i]
                \/ events'[i] = e
<1>1. events \in Seq(Event)
  BY DEF Types
<1>2. /\ events' \in Seq(Event) /\ Len(events') = Len(events) + 1 /\ Len(events) \in Nat
      /\ events'[Len(events) + 1] = e
      /\ \A i \in 1 .. Len(events) : events'[i] = events[i]
  BY <1>1, AppendProperties, LenProperties
<1>3. DOMAIN events' = 1 .. Len(events') /\ DOMAIN events = 1 .. Len(events)
  BY <1>1, <1>2, LenProperties
<1> QED
  BY <1>2, <1>3

-----------------------------------------------------------------------------
(***************************************************************************)
(* Only a deleted image is called missing                                  *)
(***************************************************************************)
LEMMA NowhereMissingInit == Init => NowhereMissing
BY EmptySeq, EmptyTypes DEF Init, NowhereMissing, NotStored, NoPending, Idle

(* While the image is there no step of a run calls it missing. *)
LEMMA NowhereMissingRun ==
    ASSUME Types, NowhereMissing, NEW w \in Workers, Run(w), registry.image
    PROVE  NowhereMissing'
<1> USE DEF Types
<1> DEFINE Clean(x) == /\ ~x.prov.missing /\ ~x.old.prov.missing
                       /\ x.held.new # "artifact_missing"
<1>1. ASSUME NEW y \in Execution, exec' = [exec EXCEPT ![w] = y], Clean(y)
      PROVE  \A v \in Workers : Clean(exec'[v])
  <2>1. exec'[w] = y /\ \A v \in Workers : v # w => exec'[v] = exec[v]
    BY <1>1, SetExec
  <2>2. \A v \in Workers : Clean(exec[v])
    BY DEF NowhereMissing
  <2> HIDE DEF Clean
  <2> QED
    BY <1>1, <2>1, <2>2
<1>2. Clean(exec[w]) /\ ~stored.prov.missing /\ pending.new # "artifact_missing"
      /\ \A i \in DOMAIN events : events[i].new # "artifact_missing"
  BY DEF NowhereMissing
<1>3. ASSUME UNCHANGED <<stored, pending, events>>, \A v \in Workers : Clean(exec'[v])
      PROVE  NowhereMissing'
  BY <1>2, <1>3 DEF NowhereMissing
<1>4. CASE Claim(w) /\ NoFault /\ UNCHANGED <<outside, caches, due, stored, drift, seen>>
  <2> DEFINE y == [Idle EXCEPT !.pc = "head"]
  <2>1. y \in Execution
    BY EmptyTypes DEF Execution, Steps
  <2>2. Clean(y)
    BY EmptyTypes DEF Idle, NotStored, NoPending
  <2>3. exec' = [exec EXCEPT ![w] = y]
    BY <1>4 DEF Claim
  <2> HIDE DEF y, Clean
  <2> QED
    BY <1>1, <1>3, <1>4, <2>1, <2>2, <2>3 DEF drift
<1>5. CASE Lookup(w)
  <2>1. PICK y \in Execution :
          /\ exec' = [exec EXCEPT ![w] = y]
          /\ y.old = exec[w].old /\ y.held = exec[w].held
          /\ y.prov.missing /\ ~exec[w].prov.missing => ~registry.image
    BY <1>5, LookupStep
  <2>2. Clean(y)
    BY <1>2, <2>1
  <2> HIDE DEF Clean
  <2> QED
    BY <1>1, <1>3, <1>5, <2>1, <2>2 DEF Lookup, drift
<1>6. CASE Verify(w) /\ UNCHANGED <<outside, job, due, stored, drift, seen>>
  <2>1. PICK y \in Execution :
          /\ exec' = [exec EXCEPT ![w] = y]
          /\ y.old = exec[w].old /\ y.held = exec[w].held /\ ~y.prov.missing
    BY <1>6, VerifyStep
  <2>2. Clean(y)
    BY <1>2, <2>1
  <2> HIDE DEF Clean
  <2> QED
    BY <1>1, <1>3, <1>6, <2>1, <2>2 DEF drift
<1>7. CASE ReadPrior(w) /\ UNCHANGED <<outside, caches, job, due, stored, drift, seen>>
  <2>1. PICK y \in Execution :
          /\ exec' = [exec EXCEPT ![w] = y]
          /\ y.prov = exec[w].prov /\ y.held = exec[w].held
          /\ y.old = stored \/ y.old = exec[w].old
    BY <1>7, ReadPriorStep
  <2>2. Clean(y)
    BY <1>2, <2>1
  <2> HIDE DEF Clean
  <2> QED
    BY <1>1, <1>3, <1>7, <2>1, <2>2 DEF drift
<1>8. CASE StoreResult(w) /\ UNCHANGED <<outside, caches, job, drift>>
  <2>1. PICK y \in Execution :
          /\ exec' = [exec EXCEPT ![w] = y]
          /\ y.prov = exec[w].prov /\ y.old = exec[w].old /\ y.held = exec[w].held
    BY <1>8, StoreStep
  <2>2. Clean(y)
    BY <1>2, <2>1
  <2>3. \A v \in Workers : Clean(exec'[v])
    <3> HIDE DEF Clean
    <3> QED
      BY <1>1, <2>1, <2>2
  <2>4. \/ stored' = stored \/ stored'.prov = stored.prov
        \/ stored' = [status |-> "success", prov |-> exec[w].prov]
    BY <1>8, StoreStep
  <2> QED
    BY <1>2, <1>8, <2>3, <2>4 DEF NowhereMissing, drift
<1>9. CASE ReadPending(w) /\ UNCHANGED <<outside, caches, job, due, stored, drift, seen>>
  <2>1. PICK y \in Execution :
          /\ exec' = [exec EXCEPT ![w] = y]
          /\ y.prov = exec[w].prov /\ y.old = exec[w].old
          /\ y.held = pending \/ y.held = exec[w].held
    BY <1>9, ReadPendingStep
  <2>2. Clean(y)
    BY <1>2, <2>1
  <2> HIDE DEF Clean
  <2> QED
    BY <1>1, <1>3, <1>9, <2>1, <2>2 DEF drift
<1>10. CASE ClearPending(w) /\ UNCHANGED <<outside, caches, job, due, stored, events, seen>>
  <2>1. PICK y \in Execution :
          /\ exec' = [exec EXCEPT ![w] = y]
          /\ y.prov = exec[w].prov /\ y.old = exec[w].old /\ y.held = exec[w].held
    BY <1>10, ClearPendingStep
  <2>2. Clean(y)
    BY <1>2, <2>1
  <2>3. \A v \in Workers : Clean(exec'[v])
    <3> HIDE DEF Clean
    <3> QED
      BY <1>1, <2>1, <2>2
  <2>4. pending' = NoPending \/ pending' = pending
    BY <1>10, ClearPendingStep
  <2>5. NoPending.new # "artifact_missing"
    BY DEF NoPending
  <2> QED
    BY <1>2, <1>10, <2>3, <2>4, <2>5 DEF NowhereMissing
<1>11. CASE Record(w) /\ UNCHANGED <<outside, caches, job, due, stored, seen>>
  <2>1. PICK y \in Execution :
          /\ exec' = [exec EXCEPT ![w] = y]
          /\ y.prov = Nothing /\ y.old = NotStored /\ y.held = NoPending
    BY <1>11, RecordStep
  <2>2. Clean(y)
    BY <2>1, EmptyTypes DEF NotStored, NoPending
  <2>3. \A v \in Workers : Clean(exec'[v])
    <3> HIDE DEF Clean
    <3> QED
      BY <1>1, <2>1, <2>2
  <2>4. SigningStatus(exec[w].prov) # "artifact_missing"
    <3>1. exec[w].prov \in Reading
      BY DEF Execution
    <3> QED
      BY <1>2, <3>1, StatusType
  <2>5. /\ pending' = pending \/ pending'.new # "artifact_missing"
        /\ \/ events' = events
           \/ \E e \in Event : e.new # "artifact_missing" /\ events' = Append(events, e)
    BY <1>2, <1>11, <2>4, RecordStep
  <2>6. pending'.new # "artifact_missing"
    BY <1>2, <2>5
  <2>7. \A i \in DOMAIN events' : events'[i].new # "artifact_missing"
    <3>1. CASE events' = events
      BY <1>2, <3>1
    <3>2. CASE \E e \in Event :
                 e.new # "artifact_missing" /\ events' = Append(events, e)
      <4>1. PICK e \in Event :
               e.new # "artifact_missing" /\ events' = Append(events, e)
        BY <3>2
      <4>2. \A i \in DOMAIN events' :
               \/ i \in DOMAIN events /\ events'[i] = events[i]
               \/ events'[i] = e
        BY <4>1, InsertedEvent
      <4> QED
        BY <1>2, <4>1, <4>2
    <3> QED
      BY <2>5, <3>1, <3>2
  <2> QED
    BY <1>2, <1>11, <2>3, <2>6, <2>7 DEF NowhereMissing
<1>12. CASE /\ Finish(w) \/ Fail(w)
            /\ NoFault /\ UNCHANGED <<outside, caches, due, stored, drift, seen>>
  <2>1. Clean(Idle) /\ Idle \in Execution
    BY EmptyTypes DEF Idle, NotStored, NoPending
  <2>2. exec' = [exec EXCEPT ![w] = Idle]
    BY <1>12 DEF Finish, Fail
  <2> HIDE DEF Clean
  <2> QED
    BY <1>1, <1>3, <1>12, <2>1, <2>2 DEF drift
<1> QED
  BY <1>4, <1>5, <1>6, <1>7, <1>8, <1>9, <1>10, <1>11, <1>12 DEF Run

LEMMA NowhereMissingNext ==
    ASSUME Types, NowhereMissing, [Next]_vars
    PROVE  NowhereMissing'
<1>1. registry'.image => registry.image
  <2>1. CASE \E w \in Workers : Run(w)
    BY <2>1 DEF Run, Lookup, outside
  <2>2. CASE Environment
    BY <2>2, RegistryStep
  <2>3. CASE UNCHANGED registry
    BY <2>3
  <2> QED
    BY <2>1, <2>2, <2>3 DEF Next, Time, Crash, vars, outside
<1> SUFFICES ASSUME registry'.image PROVE NowhereMissing'
  BY DEF NowhereMissing
<1>2. registry.image
  BY <1>1
<1>3. CASE \E w \in Workers : Run(w)
  BY <1>2, <1>3, NowhereMissingRun
<1>4. CASE Crash /\ UNCHANGED <<outside, job, due, stored, drift, seen>>
  <2>1. \A w \in Workers : exec'[w] = Idle
    BY <1>4 DEF Crash
  <2> QED
    BY <1>2, <1>4, <2>1, EmptyTypes DEF NowhereMissing, drift, Idle, NotStored, NoPending
<1>5. CASE UNCHANGED <<stored, drift, exec>>
  BY <1>2, <1>5 DEF NowhereMissing, drift
<1> QED
  BY <1>3, <1>4, <1>5 DEF Next, Environment, Time, vars

(***************************************************************************)
(* Whatever the lookups, the statements and the process do, an image that  *)
(* is still in the registry is neither stored nor reported as missing:     *)
(* every copy of a reading a run holds would have to be clean, and is.     *)
(***************************************************************************)
THEOREM OnlyDeletedIsMissing == Spec => []MissingIsDeleted
<1>1. Init => Types /\ NowhereMissing
  BY TypesInit, NowhereMissingInit
<1>2. Types /\ NowhereMissing /\ [Next]_vars => Types' /\ NowhereMissing'
  BY TypesNext, NowhereMissingNext
<1>3. NowhereMissing => MissingIsDeleted
  BY DEF NowhereMissing, MissingIsDeleted
<1> QED
  BY <1>1, <1>2, <1>3, PTL DEF Spec

-----------------------------------------------------------------------------
(***************************************************************************)
(* A calm history: one run at a time, and what it has stored               *)
(***************************************************************************)
CalmInv == OneRun /\ SeenIsStored /\ HeldIsSeen /\ DowngradeHeld

Verdicts == {"pending", "clear", "record"}

(* The calm invariant of the only run x, over the values of the variables. *)
Settled(x, j, st, sn, p) ==
    /\ x.pc # "idle" => j.state = "running"
    /\ sn = <<>> => st.status # "success"
    /\ sn # <<>> => st.status = "success" /\ SigningStatus(st.prov) = sn[Len(sn)]
    /\ x.pc = "store" /\ x.ok => x.old = st
    /\ x.pc \in Verdicts => /\ Len(sn) = 2
                            /\ SigningStatus(x.old.prov) = sn[1]
                            /\ SigningStatus(x.prov) = sn[2]
    /\ p # NoPending => /\ p.new = "unsigned" /\ sn # <<>>
                        /\ x.pc \notin Verdicts => sn[Len(sn)] = "unsigned"
                        /\ x.pc \in Verdicts => sn[1] = "unsigned"
    /\ x.pc = "record" => p = NoPending
    /\ x.pc \in {"clear", "record"} =>
          \/ x.held = NoPending
          \/ x.held.new = "unsigned" /\ sn[1] = "unsigned"
    /\ sn = <<"verified", "unsigned">> /\ x.pc \notin Verdicts => p.prev = "verified"

(* In a calm history the run that is busy, or any goroutine when none is,  *)
(* is settled.                                                             *)
LEMMA SettledBefore ==
    ASSUME CalmInv, calm, NEW w \in Workers, \A v \in Workers : v # w => ~Busy(v)
    PROVE  Settled(exec[w], job, stored, seen, pending)
<1>1. \A v \in Workers : v # w => ~Comparing(v)
  BY DEF Busy, Comparing
<1> QED
  BY <1>1 DEF CalmInv, OneRun, SeenIsStored, HeldIsSeen, DowngradeHeld, Settled, Verdicts,
     Busy, Comparing, At, LastSeen

(* Conversely, a settled run that is alone gives the calm invariant. *)
LEMMA SettledAfter ==
    ASSUME NEW w \in Workers, \A v \in Workers : v # w => exec'[v].pc = "idle",
           Settled(exec'[w], job', stored', seen', pending')
    PROVE  CalmInv'
<1>1. \A v \in Workers : v # w => exec'[v].pc \notin Verdicts
  BY DEF Verdicts
<1>2. \A v \in Workers : exec'[v].pc # "idle" => v = w
  OBVIOUS
<1>3. OneRun'
  BY <1>2 DEF OneRun, Settled, Busy
<1>4. SeenIsStored'
  BY <1>2 DEF SeenIsStored, Settled, Verdicts, Comparing, At, LastSeen
<1>5. HeldIsSeen'
  BY <1>1, <1>2 DEF HeldIsSeen, Settled, Verdicts, Comparing, At, LastSeen
<1>6. DowngradeHeld'
  BY <1>1 DEF DowngradeHeld, Settled, Verdicts, Comparing
<1> QED
  BY <1>3, <1>4, <1>5, <1>6 DEF CalmInv

(* A step of the only busy run ends in CalmInv when its outcome is settled.*)
LEMMA SettledStep ==
    ASSUME Types, CalmInv, calm, NEW w \in Workers,
           Busy(w) \/ \A v \in Workers : ~Busy(v),
           NEW y \in Execution, exec' = [exec EXCEPT ![w] = y],
           Settled(exec[w], job, stored, seen, pending) =>
               Settled(y, job', stored', seen', pending')
    PROVE  CalmInv'
<1>1. \A v \in Workers : v # w => ~Busy(v)
  BY DEF CalmInv, OneRun
<1>2. exec'[w] = y /\ \A v \in Workers : v # w => exec'[v] = exec[v]
  BY SetExec DEF Types
<1>3. Settled(y, job', stored', seen', pending')
  BY <1>1, SettledBefore
<1> QED
  BY <1>1, <1>2, <1>3, SettledAfter DEF Busy

LEMMA CalmInit == Init => CalmInv
BY DEF Init, CalmInv, OneRun, SeenIsStored, HeldIsSeen, DowngradeHeld, Busy, Comparing, At,
   Idle, NotStored

(* A stored status joins the history. *)
LEMMA SeenGrows ==
    ASSUME Types, NEW s \in Status, seen' = LastTwo(Append(seen, s))
    PROVE  Joined(seen, s, seen')
<1>1. seen \in Seq(Status) /\ Len(seen) <= 2
  BY DEF Types
<1> QED
  BY <1>1, LastTwoAppend

(* A history of two statuses is not empty. *)
LEMMA SeenTwo ==
    ASSUME Types, Len(seen) = 2
    PROVE  seen # <<>>
<1>1. seen \in Seq(Status)
  BY DEF Types
<1> QED
  BY <1>1, EmptyLen

(* A calm step of a run leaves the calm invariant.                         *)
LEMMA CalmRun ==
    ASSUME Types, CalmInv, NEW w \in Workers, Run(w), calm' = TRUE, calm = TRUE
    PROVE  CalmInv'
<1> DEFINE x == exec[w]
<1>1. x \in Execution /\ x.prov \in Reading
  BY DEF Types, Execution
<1>2. CASE Claim(w) /\ NoFault /\ UNCHANGED <<outside, caches, due, stored, drift, seen>>
  <2> DEFINE y == [Idle EXCEPT !.pc = "head"]
  <2>1. y \in Execution /\ y.pc = "head" /\ x.pc = "idle"
    BY <1>2, EmptyTypes DEF Execution, Steps, Claim, Busy
  <2>2. exec' = [exec EXCEPT ![w] = y] /\ job'.state = "running" /\ job.state = "queued"
    BY <1>2 DEF Claim, ClaimEnrichmentJob
  <2>3. \A v \in Workers : ~Busy(v)
    BY <2>2 DEF CalmInv, OneRun
  <2> HIDE DEF y
  <2>4. Settled(x, job, stored, seen, pending) => Settled(y, job', stored', seen', pending')
    BY <1>2, <2>1, <2>2 DEF Settled, Verdicts, drift
  <2> QED
    BY <2>1, <2>2, <2>3, <2>4, SettledStep
<1>3. CASE Lookup(w)
  <2>1. PICK y \in Execution :
          /\ exec' = [exec EXCEPT ![w] = y]
          /\ y.pc \in {"referrers", "tags", "trust", "prior", "store"}
          /\ y.pc = "store" => y.ok = FALSE
    BY <1>3, LookupStep
  <2>2. Busy(w) /\ x.pc \notin Verdicts
    BY <1>3, LookupStep DEF Comparing, Verdicts
  <2>3. Settled(x, job, stored, seen, pending) => Settled(y, job', stored', seen', pending')
    BY <1>3, <2>1, <2>2 DEF Settled, Verdicts, Busy, Lookup, drift
  <2> QED
    BY <2>1, <2>2, <2>3, SettledStep
<1>4. CASE Verify(w) /\ UNCHANGED <<outside, job, due, stored, drift, seen>>
  <2>1. PICK y \in Execution : exec' = [exec EXCEPT ![w] = y] /\ y.pc = "prior"
    BY <1>4, VerifyStep
  <2>2. x.pc = "trust"
    BY <1>4, VerifyStep DEF At
  <2>3. Settled(x, job, stored, seen, pending) => Settled(y, job', stored', seen', pending')
    BY <1>4, <2>1, <2>2 DEF Settled, Verdicts, drift
  <2> QED
    BY <2>1, <2>2, <2>3, SettledStep DEF Busy
<1>5. CASE ReadPrior(w) /\ UNCHANGED <<outside, caches, job, due, stored, drift, seen>>
  <2>1. PICK y \in Execution :
          exec' = [exec EXCEPT ![w] = y] /\ y.pc = "store" /\ y.old = stored
    BY <1>5, ReadPriorStep
  <2>2. x.pc = "prior"
    BY <1>5, ReadPriorStep DEF At
  <2>3. Settled(x, job, stored, seen, pending) => Settled(y, job', stored', seen', pending')
    BY <1>5, <2>1, <2>2 DEF Settled, Verdicts, drift
  <2> QED
    BY <2>1, <2>2, <2>3, SettledStep DEF Busy
<1>6. CASE StoreResult(w) /\ UNCHANGED <<outside, caches, job, drift>>
  <2>1. x.pc = "store"
    BY <1>6, StoreStep DEF At
  <2>2. PICK y \in Execution :
          /\ exec' = [exec EXCEPT ![w] = y]
          /\ y.prov = x.prov /\ y.old = x.old
          /\ \/ /\ x.ok = FALSE /\ y.pc = "finish" /\ seen' = seen
                /\ stored'.prov = stored.prov
                /\ stored.status = "success" => stored'.status = "success"
                /\ stored.status # "success" => stored'.status # "success"
             \/ /\ x.ok = TRUE
                /\ stored' = [status |-> "success", prov |-> x.prov]
                /\ seen' = LastTwo(Append(seen, SigningStatus(x.prov)))
                /\ \/ x.old.status = "success" /\ y.pc = "pending"
                   \/ x.old.status # "success" /\ y.pc = "finish"
    BY <1>6, StoreStep
  <2>3. job' = job /\ pending' = pending
    BY <1>6 DEF drift
  <2>4. CASE x.ok = FALSE /\ y.pc = "finish"
    <3>1. Settled(x, job, stored, seen, pending)
             => Settled(y, job', stored', seen', pending')
      BY <2>1, <2>2, <2>3, <2>4 DEF Settled, Verdicts
    <3> QED
      BY <2>1, <2>2, <3>1, SettledStep DEF Busy
  <2>5. CASE x.ok = TRUE
    <3> DEFINE s == SigningStatus(x.prov)
    <3>1. /\ seen' # <<>> /\ seen'[Len(seen')] = s
          /\ seen = <<>> => Len(seen') = 1
          /\ seen # <<>> => Len(seen') = 2 /\ seen'[1] = seen[Len(seen)] /\ seen'[2] = s
      <4>1. s \in Status
        BY <1>1, StatusType
      <4>2. seen' = LastTwo(Append(seen, s))
        BY <2>2, <2>5
      <4> HIDE DEF s
      <4>3. Joined(seen, s, seen')
        BY <4>1, <4>2, SeenGrows
      <4> QED
        BY <4>3 DEF Joined
    <3>2. stored'.status = "success" /\ stored'.prov = x.prov
      BY <2>2, <2>5
    <3>3. CASE seen = <<>>
      <4>1. seen' # <<"verified", "unsigned">>
        BY <3>1, <3>3
      <4>2. Settled(x, job, stored, seen, pending)
               => Settled(y, job', stored', seen', pending')
        BY <2>1, <2>2, <2>3, <2>5, <3>1, <3>2, <3>3, <4>1 DEF Settled, Verdicts
      <4> QED
        BY <2>1, <2>2, <4>2, SettledStep DEF Busy
    <3>4. CASE seen # <<>>
      <4>1. Settled(x, job, stored, seen, pending)
               => Settled(y, job', stored', seen', pending')
        BY <2>1, <2>2, <2>3, <2>5, <3>1, <3>2, <3>4 DEF Settled, Verdicts
      <4> QED
        BY <2>1, <2>2, <4>1, SettledStep DEF Busy
    <3> QED
      BY <3>3, <3>4
  <2> QED
    BY <2>2, <2>4, <2>5
<1>7. CASE ReadPending(w) /\ UNCHANGED <<outside, caches, job, due, stored, drift, seen>>
  <2>1. PICK y \in Execution :
          /\ exec' = [exec EXCEPT ![w] = y]
          /\ y.prov = x.prov /\ y.old = x.old /\ y.held = pending
          /\ \/ pending = NoPending /\ y.pc = "record"
             \/ pending # NoPending /\ y.pc = "clear"
    BY <1>7, ReadPendingStep
  <2>2. x.pc = "pending"
    BY <1>7, ReadPendingStep DEF At
  <2>3. Settled(x, job, stored, seen, pending) => Settled(y, job', stored', seen', pending')
    BY <1>7, <2>1, <2>2 DEF Settled, Verdicts, drift
  <2> QED
    BY <2>1, <2>2, <2>3, SettledStep DEF Busy
<1>8. CASE ClearPending(w) /\ UNCHANGED <<outside, caches, job, due, stored, events, seen>>
  <2>1. PICK y \in Execution :
          /\ exec' = [exec EXCEPT ![w] = y]
          /\ y.prov = x.prov /\ y.old = x.old /\ y.held = x.held /\ y.pc = "record"
    BY <1>8, ClearPendingStep
  <2>2. x.pc = "clear" /\ pending' = NoPending
    BY <1>8, ClearPendingStep DEF At
  <2>3. Settled(x, job, stored, seen, pending) => Settled(y, job', stored', seen', pending')
    BY <1>8, <2>1, <2>2 DEF Settled, Verdicts
  <2> QED
    BY <2>1, <2>2, <2>3, SettledStep DEF Busy
<1>9. CASE Record(w) /\ UNCHANGED <<outside, caches, job, due, stored, seen>>
  <2>1. PICK y \in Execution : exec' = [exec EXCEPT ![w] = y] /\ y.pc = "finish"
    BY <1>9, RecordStep
  <2>2. x.pc = "record"
    BY <1>9, RecordStep DEF At
  <2>3. PICK e \in Event :
          /\ e.prev = SigningStatus(x.old.prov) /\ e.new = SigningStatus(x.prov)
          /\ \/ x.held.new = e.new /\ pending' = pending
             \/ /\ e.new = e.prev \/ e.prev \notin {"verified", "signed"}
                /\ pending' = pending
             \/ e.new = "unsigned" /\ pending' = e
             \/ e.new # "unsigned" /\ pending' = pending
    BY <1>9, RecordStep
  <2>4. seen = <<"verified", "unsigned">> => seen[1] = "verified" /\ seen[2] = "unsigned"
    OBVIOUS
  <2>5. Settled(x, job, stored, seen, pending) => Settled(y, job', stored', seen', pending')
    <3> SUFFICES ASSUME Settled(x, job, stored, seen, pending)
                 PROVE  Settled(y, job', stored', seen', pending')
      OBVIOUS
    <3>1. /\ e.prev = seen[1] /\ e.new = seen[2] /\ Len(seen) = 2 /\ pending = NoPending
          /\ x.held = NoPending \/ (x.held.new = "unsigned" /\ seen[1] = "unsigned")
          /\ job.state = "running"
      BY <2>2, <2>3 DEF Settled, Verdicts
    <3>4. seen # <<>>
      BY <3>1, SeenTwo
    <3>5. stored.status = "success" /\ SigningStatus(stored.prov) = seen[2]
      BY <3>1, <3>4 DEF Settled
    <3>2. seen = <<"verified", "unsigned">> => pending' = e
      BY <2>3, <2>4, <3>1 DEF NoPending
    <3>3. pending' # NoPending => pending' = e /\ e.new = "unsigned"
      BY <2>3, <3>1
    <3> QED
      BY <1>9, <2>1, <2>4, <3>1, <3>2, <3>3, <3>4, <3>5 DEF Settled, Verdicts
  <2> QED
    BY <2>1, <2>2, <2>5, SettledStep DEF Busy
<1>10. CASE /\ Finish(w) \/ Fail(w)
            /\ NoFault /\ UNCHANGED <<outside, caches, due, stored, drift, seen>>
  <2>1. exec' = [exec EXCEPT ![w] = Idle] /\ x.pc \in {"finish", "fail"}
    BY <1>10 DEF Finish, Fail, At
  <2>2. Idle.pc = "idle" /\ Idle \in Execution
    BY EmptyTypes DEF Idle
  <2>3. Settled(x, job, stored, seen, pending)
           => Settled(Idle, job', stored', seen', pending')
    BY <1>10, <2>1, <2>2 DEF Settled, Verdicts, drift
  <2> QED
    BY <2>1, <2>2, <2>3, SettledStep DEF Busy
<1> QED
  BY <1>2, <1>3, <1>4, <1>5, <1>6, <1>7, <1>8, <1>9, <1>10 DEF Run

(* Between the steps of runs the calm invariant stays what it is. *)
LEMMA CalmNext ==
    ASSUME Types, CalmInv, [Next]_vars
    PROVE  CalmInv'
<1>1. calm' => calm
  <2>1. CASE \E w \in Workers : Run(w)
    <3>1. PICK w \in Workers : Run(w)
      BY <2>1
    <3>2. calm' = calm \/ calm' = FALSE
      BY <3>1, LookupStep, VerifyStep, ReadPriorStep, StoreStep, ReadPendingStep,
         ClearPendingStep, RecordStep DEF Run, NoFault
    <3> QED
      BY <3>2
  <2>2. CASE Environment \/ Time \/ StuckSweep \/ Crash
    BY <2>2, CalmStays DEF Environment, Time, StuckSweep, Crash
  <2> QED
    BY <2>1, <2>2 DEF Next, vars
<1>2. CASE ~calm'
  BY <1>2 DEF CalmInv, OneRun, SeenIsStored, HeldIsSeen, DowngradeHeld
<1>3. CASE calm'
  <2>1. calm = TRUE /\ calm' = TRUE
    BY <1>1, <1>3, TypesNext DEF Types
  <2>2. CASE \E w \in Workers : Run(w)
    BY <2>1, <2>2, CalmRun
  <2>3. CASE Crash
    BY <1>3, <2>3 DEF Crash, Disturb
  <2>4. CASE UNCHANGED <<job, stored, drift, exec, seen>>
    BY <2>1, <2>4 DEF CalmInv, OneRun, SeenIsStored, HeldIsSeen, DowngradeHeld, Busy,
       Comparing, At, LastSeen, drift
  <2>5. CASE job' # job /\ job.state # "running" /\ UNCHANGED <<stored, drift, exec, seen>>
    <3>1. OneRun'
      BY <2>1, <2>5 DEF CalmInv, OneRun, Busy
    <3> QED
      BY <2>1, <2>5, <3>1 DEF CalmInv, SeenIsStored, HeldIsSeen, DowngradeHeld, Busy,
         Comparing, At, LastSeen, drift
  <2>6. CASE StuckSweep /\ UNCHANGED <<outside, caches, due, stored, drift, exec, seen>>
    <3>1. \A w \in Workers : ~Busy(w)
      BY <1>3, <2>6 DEF StuckSweep, Disturb
    <3>2. OneRun'
      BY <2>6, <3>1 DEF OneRun, Busy
    <3> QED
      BY <2>1, <2>6, <3>2 DEF CalmInv, SeenIsStored, HeldIsSeen, DowngradeHeld, Busy,
         Comparing, At, LastSeen, drift
  <2>7. CASE Time
    <3>1. CASE Recheck
      BY <2>5, <2>7, <3>1 DEF Time, Recheck, RequeueEnrichmentJobForRecheck, Fresh, NoRow
    <3> QED
      BY <2>4, <2>7, <3>1 DEF Time, Elapse, caches
  <2> QED
    BY <2>2, <2>3, <2>4, <2>6, <2>7 DEF Next, Environment, vars
<1> QED
  BY <1>2, <1>3

(***************************************************************************)
(* While statements succeed and runs do not overlap, a verified record     *)
(* stored over by an unsigned one is never forgotten: the run that stored  *)
(* it compares it with the record before and holds the change back.        *)
(***************************************************************************)
THEOREM DowngradeTraced == Spec => []DowngradeLeavesTrace
<1>1. Init => Types /\ CalmInv
  BY TypesInit, CalmInit
<1>2. Types /\ CalmInv /\ [Next]_vars => Types' /\ CalmInv'
  BY TypesNext, CalmNext
<1>3. CalmInv => DowngradeLeavesTrace
  BY DEF CalmInv, DowngradeHeld, DowngradeLeavesTrace, Comparing, Busy
<1> QED
  BY <1>1, <1>2, <1>3, PTL DEF Spec

(* A history of two statuses is that pair. *)
LEMMA SeenPair ==
    ASSUME Types, Len(seen) = 2
    PROVE  seen = <<seen[1], seen[2]>>
<1>1. seen \in Seq(Status)
  BY DEF Types
<1>2. DOMAIN seen = 1 .. 2 /\ seen = [i \in DOMAIN seen |-> seen[i]]
  BY <1>1, LenProperties
<1>3. PICK a, b : a = seen[1] /\ b = seen[2]
  OBVIOUS
<1>4. \A i \in 1 .. 2 : seen[i] = <<a, b>>[i]
  BY <1>3
<1> QED
  BY <1>2, <1>3, <1>4

(* The step behind UnsignedConfirmed: only a verdict inserts an event, and *)
(* in a calm history its two readings are the last two that were stored.   *)
LEMMA ConfirmedStep ==
    ASSUME Types, CalmInv, [Next]_vars, calm,
           NEW i \in Len(events) + 1 .. Len(events'), events'[i].new = "unsigned"
    PROVE  seen = <<"unsigned", "unsigned">>
<1>1. Len(events) \in Nat
  BY LenProperties DEF Types
<1>2. events' # events
  BY <1>1
<1>3. PICK w \in Workers : Record(w)
  BY <1>2 DEF Next, Run, Lookup, ClearPending, Environment, Time, StuckSweep, Crash, vars, drift
<1> DEFINE x == exec[w]
<1>4. PICK e \in Event :
        \/ /\ x.held.new = SigningStatus(x.prov) /\ x.held \in Event
           /\ e = x.held /\ events' = Append(events, e)
        \/ e.new # "unsigned" /\ events' = Append(events, e)
  BY <1>2, <1>3, RecordStep
<1>5. i = Len(events) + 1 /\ events'[i] = e
  BY <1>1, <1>4, InsertedEvent
<1>6. /\ x.held.new = SigningStatus(x.prov) /\ x.held.new = "unsigned"
  BY <1>4, <1>5
<1>7. At(w, "record")
  BY <1>3, RecordStep
<1>8. seen[1] = "unsigned"
  BY <1>6, <1>7 DEF CalmInv, HeldIsSeen, NoPending
<1>9. Len(seen) = 2 /\ seen[2] = "unsigned"
  BY <1>6, <1>7 DEF CalmInv, SeenIsStored, Comparing, At
<1> QED
  BY <1>8, <1>9, SeenPair

(***************************************************************************)
(* Whatever the bounds and however many goroutines there are, an event     *)
(* that says the signature is gone is inserted, while statements succeed   *)
(* and runs do not overlap, only after two stored lookups that found none. *)
(***************************************************************************)
THEOREM UnsignedTwice == Spec => UnsignedConfirmed
<1> DEFINE Confirmed == \A i \in Len(events) + 1 .. Len(events') :
                calm /\ events'[i].new = "unsigned" => seen = <<"unsigned", "unsigned">>
<1>1. Init => Types /\ CalmInv
  BY TypesInit, CalmInit
<1>2. Types /\ CalmInv /\ [Next]_vars => Types' /\ CalmInv'
  BY TypesNext, CalmNext
<1>3. Types /\ CalmInv /\ [Next]_vars => [Confirmed]_vars
  BY ConfirmedStep
<1> QED
  BY <1>1, <1>2, <1>3, PTL DEF Spec, UnsignedConfirmed
=============================================================================
