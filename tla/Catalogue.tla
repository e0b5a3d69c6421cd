----------------------------- MODULE Catalogue -----------------------------
(***************************************************************************)
(* The catalogue: SBOMs, artifacts, namespaces and sources, and the three  *)
(* background jobs that work on them beside the API.                       *)
(*                                                                         *)
(*  - ingest and the API's deletes, moves, membership and visibility       *)
(*    changes write the tables CatalogueReads describes;                   *)
(*  - the rollup refresher of every API replica rebuilds the six rollups,  *)
(*    one statement and so one snapshot per table, and swaps them in;      *)
(*  - the retention sweeper lists a batch and deletes it.                  *)
(*                                                                         *)
(* Every transaction runs at READ COMMITTED.  An ingest is split where     *)
(* another transaction may commit in between: the namespace is read before *)
(* the transaction begins, and its statements run before it commits.       *)
(*                                                                         *)
(* Clusters adds what reports to the catalogue, and the specification.     *)
(*                                                                         *)
(* db.window is registry_window: walked registry -> the SBOMs its window   *)
(* holds.  lost records the links a move took from under an open ingest.   *)
(***************************************************************************)
EXTENDS SearchService, TableWrites

CONSTANTS
  User,       \* accounts that watch and hold memberships
  FeedRow,    \* the package_vulnerability rows a feed may hold
  Replica,    \* API server processes
  Scenario,   \* bound: initial databases, with the kinds and numbers of writes and faults
  End,        \* created_at is End less the writes that are left
  KeepLast,   \* retention policy: versions kept, 0 for off
  AgeLimit    \* retention policy: whether versions past a day are pruned

VARIABLES db, budget, ingest, lost, busy, young, sweep, replica, built

catalogueVars == <<db, budget, ingest, lost, busy, young, sweep, replica, built>>

(* The tables, and the columns of theirs that another table refers to.      *)
Schema(d) ==
  /\ DOMAIN d = {"ns", "public", "members", "source", "sbom", "artifacts", "links", "match", "watch", "rollup",
                 "window", "cluster", "workload", "registry", "job"}
  /\ DOMAIN d.rollup = Q!Tables
  /\ \A q \in DOMAIN d.source : DOMAIN d.source[q] = {"ns", "kind"}
  /\ \A s \in Q!SBOMs(d) : DOMAIN d.sbom[s] = {"ns", "source", "at", "index"} /\ d.sbom[s].at \in Nat
  /\ \A k \in Q!Clusters(d) : DOMAIN d.cluster[k] = {"ns", "seen", "auto"}
  /\ \A w \in d.workload : "cluster" \in DOMAIN w
  /\ IsFiniteSet(Q!SBOMs(d))

(* Every table holds only keys of the tables it references.                 *)
ForeignKeys(d) ==
  /\ d.public \subseteq d.ns
  /\ d.members \subseteq User \X d.ns
  /\ d.links \subseteq d.artifacts \X d.ns
  /\ d.watch \subseteq User \X d.artifacts
  /\ \A q \in DOMAIN d.source : d.source[q].ns \in d.ns
  /\ Q!Clusters(d) = {q \in DOMAIN d.source : d.source[q].kind = "cluster"}
  /\ \A k \in Q!Clusters(d) : d.cluster[k].ns = d.source[k].ns
  /\ DOMAIN d.registry \subseteq DOMAIN d.source
  /\ \A w \in d.workload : w.cluster \in Q!Clusters(d)
  /\ \A j \in DOMAIN d.job : j[1] \in DOMAIN d.source
  /\ DOMAIN d.window \subseteq DOMAIN d.source
  /\ \A s \in Q!SBOMs(d) : /\ d.sbom[s].ns \in d.ns
                           /\ d.sbom[s].source \in DOMAIN d.source \cup {None}
                           /\ Doc[s].artifact \in d.artifacts
  /\ \A t \in Q!Tables : \A row \in d.rollup[t] : row.ns \in d.ns
  /\ \A row \in d.rollup["sbomVuln"] : row.sbom \in Q!SBOMs(d)

(* An artifact is linked to the namespaces of its SBOMs, but for the links L. *)
LinkedBut(d, L) == \A s \in Q!SBOMs(d) : <<Doc[s].artifact, d.sbom[s].ns>> \in d.links \cup L

(* A row stores a document, the feed's rows name records, and the tables     *)
(* that others count are finite.                                             *)
Stored(d) ==
  /\ Q!SBOMs(d) \subseteq DOMAIN Doc /\ d.artifacts \subseteq DOMAIN Artifact /\ None \notin DOMAIN d.source
  /\ \A m \in d.match : m.vuln \in DOMAIN Vuln
  /\ \A w \in d.workload : w.pods \in Nat
  /\ IsFiniteSet(d.ns) /\ IsFiniteSet(d.match) /\ IsFiniteSet(d.workload)

(* An SBOM has an id; its document is of an artifact and lists finitely many *)
(* components, each with a name and a type; a purl's base has a type and a   *)
(* name.                                                                      *)
ASSUME DocumentAssumption ==
  /\ None \notin DOMAIN Doc
  /\ \A s \in DOMAIN Doc : /\ Doc[s].artifact \in DOMAIN Artifact
                           /\ IsFiniteSet(Doc[s].components)
                           /\ \A c \in Doc[s].components :
                                /\ None \notin {c.name, c.type}
                                /\ c.base \in Seq(STRING) /\ Len(c.base) # 1
                                /\ IsFiniteSet(c.licenses)

ASSUME ArtifactAssumption ==
  /\ IsFiniteSet(DOMAIN Artifact)
  /\ \A a \in DOMAIN Artifact : Artifact[a].name # None /\ Artifact[a].base \in Seq(STRING)

(* The feed's records have an id and a time, and its rows name them.         *)
ASSUME FeedAssumption ==
  /\ IsFiniteSet(DOMAIN Vuln) /\ None \notin DOMAIN Vuln
  /\ \A x \in DOMAIN Vuln : Vuln[x].modified \in Nat
  /\ \A m \in FeedRow : m.vuln \in DOMAIN Vuln

(* A relation query returns some rows.                                       *)
ASSUME LimitAssumption == RelationLimit \in Nat \ {0}

(* Who is not signed in has no user id, so no membership and no watch.       *)
ASSUME UserAssumption == None \notin User

(* A scenario starts from a database of that schema, and End leaves every   *)
(* one of its writes a time.                                                 *)
ASSUME ScenarioAssumption ==
  /\ End \in Nat
  /\ \A sc \in Scenario :
       /\ sc.writes \in 0 .. End
       /\ Schema(sc.db) /\ ForeignKeys(sc.db) /\ LinkedBut(sc.db, {}) /\ Stored(sc.db)
       /\ \A s \in Q!SBOMs(sc.db) : sc.db.sbom[s].at <= End

NoMark == <<>>
Idle == [step |-> "idle", age |-> "never", seen |-> NoMark, last |-> NoMark]
NoBatch == [class |-> "window", ids |-> {}]

Start(sc) ==
  /\ db = sc.db
  /\ budget = [kinds |-> sc.kinds, docs |-> sc.docs, up |-> sc.up, left |-> sc.writes, faults |-> sc.faults]
  /\ young = sc.young
  /\ ingest = {} /\ lost = {} /\ busy = {} /\ built = <<>>
  /\ sweep = NoBatch
  /\ replica = [r \in Replica |-> Idle]

(* Bounds: a write of an allowed kind, a failure, and the write's time;     *)
(* budget.docs are the documents that may arrive.                            *)
Write(kind) ==
  /\ kind \in budget.kinds /\ budget.left > 0
  /\ budget' = [budget EXCEPT !.left = @ - 1]

Fault ==
  /\ budget.faults > 0
  /\ budget' = [budget EXCEPT !.faults = @ - 1]

Now == End - budget.left

Jobs == <<busy, young, sweep, replica, built>>

----------------------------------------------------------------------------
(* What the schema's cascades do. *)

DropSBOMs(d, S) ==
  [d EXCEPT !.sbom = Restrict(@, DOMAIN @ \ S),
            !.rollup["sbomVuln"] = {r \in @ : r.sbom \notin S}]

(* A scan job goes with its cluster.  One of a registry stays, without the   *)
(* registry's id, and counts for nothing any more.                           *)
DropSources(d, S) ==
  [d EXCEPT !.source = Restrict(@, DOMAIN @ \ S),
            !.window = Restrict(@, DOMAIN @ \ S),
            !.registry = Restrict(@, DOMAIN @ \ S),
            !.cluster = Restrict(@, DOMAIN @ \ S),
            !.workload = {w \in @ : w.cluster \notin S},
            !.job = Restrict(@, {j \in DOMAIN @ : j[1] \notin S}),
            !.sbom = [s \in DOMAIN @ |-> IF @[s].source \in S THEN [@[s] EXCEPT !.source = None] ELSE @[s]]]

DropNamespace(d, n) ==
  LET e == DropSources(DropSBOMs(d, {s \in DOMAIN d.sbom : d.sbom[s].ns = n}),
                       {q \in DOMAIN d.source : d.source[q].ns = n})
  IN [e EXCEPT !.ns = @ \ {n}, !.public = @ \ {n},
               !.members = {m \in @ : m[2] # n}, !.links = {l \in @ : l[2] # n},
               !.rollup = [t \in Q!Tables |-> {r \in @[t] : r.ns # n}]]

(* PruneScanJobsForSBOM, PruneScanJobsForArtifact: the tombstones that keep  *)
(* a deleted SBOM's image from being scanned again.                          *)
PruneScanJobs(d, S) ==
  LET gone == {<<d.sbom[s].source, s>> : s \in S}
  IN [d EXCEPT !.job = [j \in DOMAIN @ |-> IF j \in gone /\ @[j].state = "succeeded"
                                            THEN [@[j] EXCEPT !.state = "pruned"] ELSE @[j]]]

----------------------------------------------------------------------------
(* Ingest. *)

(* The source's namespace and the digest check, before the transaction. *)
ResolveIngest(s, q) ==
  /\ Write("ingest") /\ ingest = {}
  /\ q \in DOMAIN db.source
  /\ s \in budget.docs \ Q!SBOMs(db)
  /\ ingest' = {[sbom |-> s, source |-> q, ns |-> db.source[q].ns, at |-> Now, step |-> "resolved", link |-> FALSE]}
  /\ UNCHANGED <<db, lost, Jobs>>

(* The statements of the transaction: they hold key-share locks on the     *)
(* source, namespace and artifact rows, and insert the link unless there.   *)
WriteIngest(i) ==
  /\ i.step = "resolved"
  /\ i.source \in DOMAIN db.source /\ i.ns \in db.ns /\ i.sbom \notin Q!SBOMs(db)
  /\ ingest' = {[i EXCEPT !.step = "written", !.link = <<Doc[i.sbom].artifact, i.ns>> \notin db.links]}
  /\ UNCHANGED <<db, budget, lost, Jobs>>

CommitIngest(i) ==
  /\ i.step = "written"
  /\ db' = [db EXCEPT !.sbom = Upsert(@, i.sbom, [ns |-> i.ns, source |-> i.source, at |-> i.at, index |-> None]),
                      !.artifacts = @ \cup {Doc[i.sbom].artifact},
                      !.links = IF i.link THEN @ \cup {<<Doc[i.sbom].artifact, i.ns>>} ELSE @]
  /\ young' = young \cup {i.sbom}
  /\ ingest' = {}
  /\ UNCHANGED <<budget, lost, busy, sweep, replica, built>>

(* A validation, a foreign key or the connection failed. *)
FailIngest(i) ==
  /\ ingest' = {}
  /\ UNCHANGED <<db, budget, lost, Jobs>>

(* Rows an open ingest has locked cannot be deleted. *)
Locked(field, x) == \E i \in ingest : i.step = "written" /\ i[field] = x

----------------------------------------------------------------------------
(* The API's other writes. *)

DeleteSBOM(s) ==
  /\ Write("delete") /\ s \in Q!SBOMs(db)
  /\ db' = DropSBOMs(PruneScanJobs(db, {s}), {s})
  /\ UNCHANGED <<ingest, lost, Jobs>>

(* Mutant: the artifact row goes and its SBOMs stay. *)
DeleteArtifactRow(a) ==
  /\ Write("delete") /\ a \in db.artifacts
  /\ db' = [db EXCEPT !.artifacts = @ \ {a},
                      !.links = {l \in @ : l[1] # a}, !.watch = {w \in @ : w[2] # a}]
  /\ UNCHANGED <<ingest, lost, Jobs>>

DeleteArtifact(a) ==
  /\ Write("delete") /\ a \in db.artifacts
  /\ ~\E i \in ingest : i.step = "written" /\ Doc[i.sbom].artifact = a
  /\ db' = [DropSBOMs(PruneScanJobs(db, Q!SBOMsOf(db, a)), Q!SBOMsOf(db, a)) EXCEPT
              !.artifacts = @ \ {a},
              !.links = {l \in @ : l[1] # a}, !.watch = {w \in @ : w[2] # a}]
  /\ UNCHANGED <<ingest, lost, Jobs>>

DeleteNamespace(n) ==
  /\ Write("namespace") /\ n \in db.ns /\ ~Locked("ns", n)
  /\ ~\E q \in DOMAIN db.source : db.source[q].ns = n /\ Locked("source", q)
  /\ db' = DropNamespace(db, n)
  /\ UNCHANGED <<ingest, lost, Jobs>>

DeleteSource(q) ==
  /\ Write("source") /\ q \in DOMAIN db.source /\ ~Locked("source", q)
  /\ db.source[q].kind # "cluster"
  /\ db' = DropSources(db, {q})
  /\ UNCHANGED <<ingest, lost, Jobs>>

(* Mutant: unlinks the old namespace whatever SBOMs are left there. *)
MoveAndUnlink(q, n) ==
  LET moved == {s \in Q!SBOMs(db) : db.sbom[s].source = q}
      artifacts == {Doc[s].artifact : s \in moved}
  IN /\ Write("move") /\ q \in DOMAIN db.source /\ db.source[q].kind = "oci_registry"
     /\ n \in db.ns /\ n # db.source[q].ns /\ ~Locked("source", q)
     /\ db' = [db EXCEPT !.source[q].ns = n,
                         !.sbom = [s \in DOMAIN @ |-> IF s \in moved THEN [@[s] EXCEPT !.ns = n] ELSE @[s]],
                         !.links = (@ \cup (artifacts \X {n})) \ (artifacts \X {db.source[q].ns})]
     /\ UNCHANGED <<ingest, lost, Jobs>>

(* The update of the source's unique (namespace, name) waits for the lock   *)
(* an open ingest through that source holds; one through another source     *)
(* does not stop it, and what that one has inserted is not seen.             *)
MoveNamespace(q, n) ==
  LET old == db.source[q].ns
      moved == {s \in Q!SBOMs(db) : db.sbom[s].source = q}
      sbom == [s \in Q!SBOMs(db) |-> IF s \in moved THEN [db.sbom[s] EXCEPT !.ns = n] ELSE db.sbom[s]]
      artifacts == {Doc[s].artifact : s \in moved}
      emptied == {<<a, old>> : a \in {a \in artifacts : ~\E s \in Q!SBOMs(db) :
                                                          Doc[s].artifact = a /\ sbom[s].ns = old}}
      open == {<<Doc[i.sbom].artifact, i.ns>> : i \in {i \in ingest : i.step = "written"}}
  IN /\ Write("move") /\ q \in DOMAIN db.source /\ db.source[q].kind = "oci_registry"
     /\ n \in db.ns /\ n # old /\ ~Locked("source", q)
     /\ db' = [db EXCEPT !.source[q].ns = n, !.sbom = sbom,
                         !.links = (@ \cup (artifacts \X {n})) \ emptied]
     /\ lost' = lost \cup (emptied \cap open \cap db.links)
     /\ UNCHANGED <<ingest, Jobs>>

UpdateNamespace(n) ==
  /\ Write("visibility") /\ n \in db.ns
  /\ db' = [db EXCEPT !.public = IF n \in @ THEN @ \ {n} ELSE @ \cup {n}]
  /\ UNCHANGED <<ingest, lost, Jobs>>

SetMember(u, n) ==
  /\ Write("member") /\ n \in db.ns
  /\ db' = [db EXCEPT !.members = IF <<u, n>> \in @ THEN @ \ {<<u, n>>} ELSE @ \cup {<<u, n>>}]
  /\ UNCHANGED <<ingest, lost, Jobs>>

Watch(u, a) ==
  /\ Write("watch") /\ a \in db.artifacts
  /\ CanWatch(db, [user |-> u, admin |-> FALSE], a)
  /\ db' = [db EXCEPT !.watch = @ \cup {<<u, a>>}]
  /\ UNCHANGED <<ingest, lost, Jobs>>

Unwatch(u, a) ==
  /\ Write("watch") /\ <<u, a>> \in db.watch
  /\ db' = [db EXCEPT !.watch = @ \ {<<u, a>>}]
  /\ UNCHANGED <<ingest, lost, Jobs>>

(* A successful walk replaces its registry's window; a failed one keeps it. *)
ReplaceWindow(q, S) ==
  /\ Write("walk") /\ q \in DOMAIN db.source /\ db.source[q].kind = "oci_registry"
  /\ db' = [db EXCEPT !.window = Upsert(@, q, S)]
  /\ UNCHANGED <<ingest, lost, Jobs>>

(* The vulnerability matcher adds a row or takes one away. *)
FeedChange(m) ==
  /\ Write("feed")
  /\ db' = [db EXCEPT !.match = IF m \in @ THEN @ \ {m} ELSE @ \cup {m}]
  /\ UNCHANGED <<ingest, lost, Jobs>>

(* An enrichment job of the SBOM opens or closes. *)
Report(s) ==
  /\ Write("report") /\ s \in Q!SBOMs(db)
  /\ busy' = IF s \in busy THEN busy \ {s} ELSE busy \cup {s}
  /\ UNCHANGED <<db, ingest, lost, young, sweep, replica, built>>

DayPasses ==
  /\ Write("day") /\ young # {}
  /\ young' = {}
  /\ UNCHANGED <<db, ingest, lost, busy, sweep, replica, built>>

----------------------------------------------------------------------------
(* The rollup refresher. *)

TableOrder == <<"component", "version", "license", "licenseComponent", "vuln", "sbomVuln">>

(* count and max(created_at) over sbom. *)
ReadRollupWatermark(d) ==
  <<Cardinality(Q!SBOMs(d)), Q!Max({0} \cup {d.sbom[s].at : s \in Q!SBOMs(d)})>>

(* Mutant: no backstop; only a moved watermark makes a pass due. *)
dueOnIngest(r, mark) ==
  IF replica[r].age = "never" THEN "startup"
  ELSE IF replica[r].age # "recent" /\ mark # NoMark /\ mark # replica[r].last THEN "ingest" ELSE ""

(* The age of the last pass: within the minimum gap, past it, past the      *)
(* interval.  mark is NoMark when the read failed.                            *)
dueReason(r, mark) ==
  CASE replica[r].age = "never" -> "startup"
    [] replica[r].age = "interval" -> "backstop"
    [] replica[r].age = "recent" -> ""
    [] replica[r].age = "gap" /\ mark # NoMark /\ mark # replica[r].last -> "ingest"
    [] OTHER -> ""

recordPass(r) ==
  [step |-> "idle", age |-> "recent", seen |-> NoMark,
   last |-> IF replica[r].seen = NoMark THEN replica[r].last ELSE replica[r].seen]

Tick(r, mark) ==
  /\ r \in budget.up /\ replica[r].step = "idle"
  /\ dueReason(r, mark) # ""
  /\ replica' = [replica EXCEPT ![r].step = "due", ![r].seen = mark]
  /\ UNCHANGED <<db, ingest, lost, busy, young, sweep, built>>

ReadAndTick(r) == Tick(r, ReadRollupWatermark(db)) /\ UNCHANGED budget
BlindTick(r) == Tick(r, NoMark) /\ Fault

TryLockRollupRefresh(r) ==
  /\ replica[r].step = "due"
  /\ \/ /\ \E p \in Replica : replica[p].step = "pass"
        /\ replica' = [replica EXCEPT ![r] = recordPass(r)]
     \/ /\ ~\E p \in Replica : replica[p].step = "pass"
        /\ replica' = [replica EXCEPT ![r].step = "pass"]
  /\ UNCHANGED <<db, budget, ingest, lost, busy, young, sweep, built>>

BuildRollupSnapshots(r) ==
  /\ replica[r].step = "pass" /\ Len(built) < Len(TableOrder)
  /\ built' = Append(built, Q!Aggregate(db, TableOrder[Len(built) + 1]))
  /\ UNCHANGED <<db, budget, ingest, lost, busy, young, sweep, replica>>

(* The foreign keys of the rollup tables. *)
KeysHold(tables) ==
  \A i \in DOMAIN tables : \A row \in tables[i] :
    /\ row.ns \in db.ns
    /\ TableOrder[i] = "sbomVuln" => row.sbom \in Q!SBOMs(db)

SwapRollupSnapshots(r) ==
  /\ replica[r].step = "pass" /\ Len(built) = Len(TableOrder)
  /\ built' = <<>>
  /\ \/ /\ KeysHold(built)
        /\ db' = [db EXCEPT !.rollup = [t \in Q!Tables |-> built[CHOOSE i \in DOMAIN TableOrder : TableOrder[i] = t]]]
        /\ replica' = [replica EXCEPT ![r] = recordPass(r)]
     \/ /\ ~KeysHold(built)
        /\ replica' = [replica EXCEPT ![r].step = "idle", ![r].seen = NoMark]
        /\ UNCHANGED db
  /\ UNCHANGED <<budget, ingest, lost, busy, young, sweep>>

(* A statement or the swap's lock times out. *)
PassFails(r) ==
  /\ replica[r].step \in {"due", "pass"} /\ Fault
  /\ replica' = [replica EXCEPT ![r].step = "idle", ![r].seen = NoMark]
  /\ built' = IF replica[r].step = "pass" THEN <<>> ELSE built
  /\ UNCHANGED <<db, ingest, lost, busy, young, sweep>>

Restart(r) ==
  /\ r \in budget.up /\ Fault
  /\ replica' = [replica EXCEPT ![r] = Idle]
  /\ built' = IF replica[r].step = "pass" THEN <<>> ELSE built
  /\ UNCHANGED <<db, ingest, lost, busy, young, sweep>>

(* Time passes for a waiting replica. *)
Age(r) ==
  /\ replica[r].step = "idle" /\ replica[r].age \in {"recent", "gap"}
  /\ replica' = [replica EXCEPT ![r].age = IF @ = "recent" THEN "gap" ELSE "interval"]
  /\ UNCHANGED <<db, budget, ingest, lost, busy, young, sweep, built>>

Pass(r) == TryLockRollupRefresh(r) \/ BuildRollupSnapshots(r) \/ SwapRollupSnapshots(r)

----------------------------------------------------------------------------
(* The retention sweeper. *)

Series(d, s) == <<d.sbom[s].ns, Doc[s].artifact, Doc[s].flavor>>
Version(s) == IF Doc[s].version = None THEN s ELSE Doc[s].version
InSeries(d, S, s) == {t \in S : Series(d, t) = Series(d, s)}

(* max(created_at) over the SBOMs of s's version. *)
Ingested(d, S, s) == Q!Max({d.sbom[t].at : t \in {t \in InSeries(d, S, s) : Version(t) = Version(s)}})

FromRegistry(d, s) == d.sbom[s].source # None /\ d.source[d.sbom[s].source].kind = "oci_registry"

(* sbom_retention_protected. *)
Newest(d, s) == \A t \in InSeries(d, Q!SBOMs(d), s) : Ingested(d, Q!SBOMs(d), t) <= Ingested(d, Q!SBOMs(d), s)

HighestSemver(d, s) ==
  /\ Doc[s].semver > 0
  /\ \A t \in InSeries(d, Q!SBOMs(d), s) :
       \/ Doc[t].semver < Doc[s].semver
       \/ Doc[t].semver = Doc[s].semver /\ Ingested(d, Q!SBOMs(d), t) <= Ingested(d, Q!SBOMs(d), s)

(* Some cluster runs the image or the index it belongs to. *)
IsRunning(d, s) == \E w \in d.workload : w.digest # None /\ w.digest \in {s, d.sbom[s].index}

Protected(d) ==
  {s \in Q!SBOMs(d) : Newest(d, s) \/ HighestSemver(d, s) \/ IsRunning(d, s) \/ s \in busy \cup young}

windowCandidates(d) ==
  {s \in Q!SBOMs(d) \ Protected(d) :
     FromRegistry(d, s) /\ d.sbom[s].source \in DOMAIN d.window /\ s \notin d.window[d.sbom[s].source]}

(* Ranked among the SBOMs that came from no registry. *)
newestCandidates(d) ==
  LET others == {s \in Q!SBOMs(d) : ~FromRegistry(d, s)}
      newer(s) == {Version(t) : t \in {t \in InSeries(d, others, s) : Ingested(d, others, s) < Ingested(d, others, t)}}
      old(s) == \A t \in InSeries(d, others, s) : Version(t) = Version(s) => t \notin young
  IN IF KeepLast = 0 THEN {}
     ELSE {s \in others \ Protected(d) : Cardinality(newer(s)) >= KeepLast \/ (AgeLimit /\ old(s))}

Candidates(d) == IF sweep.class = "window" THEN windowCandidates(d) ELSE newestCandidates(d)

NextClass == [class |-> IF sweep.class = "window" THEN "newest" ELSE "window", ids |-> {}]

(* An empty list ends the class. *)
Listed(ids) == IF ids = {} THEN NextClass ELSE [sweep EXCEPT !.ids = ids]

ListBatch ==
  /\ "sweep" \in budget.kinds /\ sweep.ids = {}
  /\ sweep' = Listed(Candidates(db))
  /\ UNCHANGED <<db, budget, ingest, lost, busy, young, replica, built>>

(* Mutant: the protected set is not read again. *)
DeleteListedBatch ==
  /\ sweep.ids # {}
  /\ db' = DropSBOMs(db, sweep.ids)
  /\ sweep' = NextClass
  /\ UNCHANGED <<budget, ingest, lost, busy, young, replica, built>>

DeleteRetentionBatch ==
  /\ sweep.ids # {}
  /\ db' = DropSBOMs(db, sweep.ids \ Protected(db))
  /\ sweep' = NextClass
  /\ UNCHANGED <<budget, ingest, lost, busy, young, replica, built>>

SweepFails ==
  /\ sweep.ids # {} /\ Fault
  /\ sweep' = NoBatch
  /\ UNCHANGED <<db, ingest, lost, busy, young, replica, built>>

----------------------------------------------------------------------------
(* Bound: a walk sees what is stored or may still arrive. *)
API ==
  \/ \E s \in DOMAIN Doc : DeleteSBOM(s) \/ Report(s)
  \/ \E s \in DOMAIN Doc, q \in DOMAIN db.source : ResolveIngest(s, q)
  \/ \E i \in ingest : WriteIngest(i) \/ CommitIngest(i) \/ FailIngest(i)
  \/ \E a \in DOMAIN Artifact : DeleteArtifact(a)
  \/ \E n \in db.ns : DeleteNamespace(n) \/ UpdateNamespace(n)
  \/ \E q \in DOMAIN db.source : DeleteSource(q)
  \/ \E q \in DOMAIN db.source, n \in db.ns : MoveNamespace(q, n)
  \/ \E q \in DOMAIN db.source, S \in SUBSET (Q!SBOMs(db) \cup budget.docs) : ReplaceWindow(q, S)
  \/ \E u \in User, n \in db.ns : SetMember(u, n)
  \/ \E u \in User, a \in DOMAIN Artifact : Watch(u, a) \/ Unwatch(u, a)
  \/ \E m \in FeedRow : FeedChange(m)
  \/ DayPasses

Refresher(r) == ReadAndTick(r) \/ BlindTick(r) \/ Pass(r) \/ PassFails(r) \/ Restart(r) \/ Age(r)

Sweeper == ListBatch \/ DeleteRetentionBatch \/ SweepFails

CatalogueNext == API \/ Sweeper \/ \E r \in Replica : Refresher(r)
=============================================================================
