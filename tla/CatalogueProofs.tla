--------------------------- MODULE CatalogueProofs ---------------------------
(***************************************************************************)
(* Proofs about the catalogue, for every initial database the schema       *)
(* admits, any documents, accounts, feeds, replicas and pods, and any      *)
(* number of writes, faults and requests at a time.                        *)
(***************************************************************************)
EXTENDS CatalogueProperties, FiniteSetTheorems, WellFoundedInduction, TLAPS

-----------------------------------------------------------------------------
(***************************************************************************)
(* The inductive invariants                                                *)
(***************************************************************************)
Bounded(d) == \E b \in Nat : \A s \in Q!SBOMs(d) : d.sbom[s].at <= b

(* What every write of the database preserves.                             *)
Valid(d) == Schema(d) /\ ForeignKeys(d) /\ Bounded(d)

(* What an open ingest has found it has locked: its source and namespace   *)
(* stay, and the link it did not insert was there.                         *)
Ingests ==
    \A i \in ingest :
      /\ DOMAIN i = {"sbom", "source", "ns", "at", "step", "link"}
      /\ i.at \in Nat /\ i.link \in BOOLEAN /\ i.step \in Steps
      /\ i.step = "written" =>
           /\ i.source \in DOMAIN db.source /\ i.ns \in db.ns
           /\ i.link = FALSE => <<Doc[i.sbom].artifact, i.ns>> \in db.links \cup lost

(* One replica refreshes at a time, and the temporary tables are its.      *)
Replicas ==
    /\ replica \in [Replica -> [step : {"idle", "due", "pass"}, age : {"never", "recent", "gap", "interval"},
                                seen : Marks, last : Marks]]
    /\ \A p, r \in Replica : replica[p].step = "pass" /\ replica[r].step = "pass" => p = r
    /\ \E S : built \in Seq(S)
    /\ built # <<>> => \E r \in Replica : replica[r].step = "pass"

Clock ==
    /\ DOMAIN budget = {"kinds", "docs", "up", "left", "faults"}
    /\ budget.left \in 0 .. End

IInv == Valid(db) /\ LinksFollowSBOMs /\ Ingests /\ Replicas /\ Clock

-----------------------------------------------------------------------------
(***************************************************************************)
(* Writes of one table                                                     *)
(***************************************************************************)
(* The cascades of a deleted SBOM leave no reference to it.                *)
LEMMA DropSBOMsValid ==
    ASSUME NEW d, NEW S, Valid(d)
    PROVE  /\ Valid(DropSBOMs(d, S))
           /\ Q!SBOMs(DropSBOMs(d, S)) = Q!SBOMs(d) \ S
           /\ \A s \in Q!SBOMs(d) \ S : DropSBOMs(d, S).sbom[s] = d.sbom[s]
           /\ \A c \in DOMAIN d \ {"sbom", "rollup"} : DropSBOMs(d, S)[c] = d[c]
<1> DEFINE e == DropSBOMs(d, S)
<1>1. /\ DOMAIN e = DOMAIN d
      /\ e.sbom = [s \in DOMAIN d.sbom \ S |-> d.sbom[s]]
      /\ e.rollup = [d.rollup EXCEPT !["sbomVuln"] = {r \in @ : r.sbom \notin S}]
      /\ \A c \in DOMAIN d \ {"sbom", "rollup"} : e[c] = d[c]
  BY DEF DropSBOMs, Restrict, Valid, Schema
<1>2. /\ \A t \in Q!Tables \ {"sbomVuln"} : e.rollup[t] = d.rollup[t]
      /\ e.rollup["sbomVuln"] = {r \in d.rollup["sbomVuln"] : r.sbom \notin S}
      /\ DOMAIN e.rollup = Q!Tables
  BY <1>1 DEF Valid, Schema, Q!Tables
<1> HIDE DEF e
<1>3. IsFiniteSet(DOMAIN e.sbom)
  BY <1>1, FS_Subset DEF Valid, Schema, Q!SBOMs
<1>4. Schema(e)
  BY <1>1, <1>2, <1>3 DEF Valid, Schema, Q!SBOMs, Q!Clusters
<1>5. ForeignKeys(e)
  BY <1>1, <1>2 DEF Valid, Schema, ForeignKeys, Q!SBOMs, Q!Clusters
<1>6. Bounded(e)
  BY <1>1 DEF Valid, Bounded, Q!SBOMs
<1> QED  BY <1>1, <1>4, <1>5, <1>6 DEF e, Valid, Q!SBOMs

(* Those of a deleted source take what hangs on it, and its SBOMs forget it. *)
LEMMA DropSourcesValid ==
    ASSUME NEW d, NEW S, Valid(d)
    PROVE  /\ Valid(DropSources(d, S))
           /\ DOMAIN DropSources(d, S).source = DOMAIN d.source \ S
           /\ \A q \in DOMAIN d.source \ S : DropSources(d, S).source[q] = d.source[q]
           /\ Q!SBOMs(DropSources(d, S)) = Q!SBOMs(d)
           /\ \A s \in Q!SBOMs(d) : DropSources(d, S).sbom[s].ns = d.sbom[s].ns
           /\ \A s \in Q!SBOMs(d) : DropSources(d, S).sbom[s].source \notin S \/ DropSources(d, S).sbom[s].source = None
           /\ \A c \in {"ns", "public", "members", "artifacts", "links", "watch", "match", "rollup"} :
                DropSources(d, S)[c] = d[c]
<1> DEFINE e == DropSources(d, S)
           kept == {"ns", "public", "members", "artifacts", "links", "watch", "match", "rollup"}
<1>1. /\ DOMAIN e = DOMAIN d
      /\ e.source = [q \in DOMAIN d.source \ S |-> d.source[q]]
      /\ e.window = [q \in DOMAIN d.window \ S |-> d.window[q]]
      /\ e.registry = [q \in DOMAIN d.registry \ S |-> d.registry[q]]
      /\ e.cluster = [q \in DOMAIN d.cluster \ S |-> d.cluster[q]]
      /\ e.workload = {w \in d.workload : w.cluster \notin S}
      /\ e.job = [j \in {j \in DOMAIN d.job : j[1] \notin S} |-> d.job[j]]
      /\ e.sbom = [s \in DOMAIN d.sbom |-> IF d.sbom[s].source \in S THEN [d.sbom[s] EXCEPT !.source = None] ELSE d.sbom[s]]
      /\ \A c \in kept : e[c] = d[c]
  BY DEF DropSources, Restrict, Valid, Schema
<1> HIDE DEF e
<1>2. /\ DOMAIN e.sbom = DOMAIN d.sbom
      /\ \A s \in DOMAIN d.sbom :
           /\ DOMAIN e.sbom[s] = DOMAIN d.sbom[s]
           /\ e.sbom[s].ns = d.sbom[s].ns /\ e.sbom[s].at = d.sbom[s].at
           /\ e.sbom[s].source = IF d.sbom[s].source \in S THEN None ELSE d.sbom[s].source
  BY <1>1 DEF Valid, Schema, Q!SBOMs
<1>3. Schema(e)
  BY <1>1, <1>2 DEF Valid, Schema, Q!SBOMs, Q!Clusters
<1>4. ForeignKeys(e)
  BY <1>1, <1>2 DEF Valid, Schema, ForeignKeys, Q!SBOMs, Q!Clusters
<1>5. Bounded(e)
  BY <1>2 DEF Valid, Bounded, Q!SBOMs
<1> QED  BY <1>1, <1>2, <1>3, <1>4, <1>5 DEF e, Valid, Q!SBOMs

(* Those of a deleted namespace take its SBOMs, sources, members and links. *)
LEMMA DropNamespaceValid ==
    ASSUME NEW d, NEW n, Valid(d)
    PROVE  /\ Valid(DropNamespace(d, n))
           /\ DropNamespace(d, n).ns = d.ns \ {n}
           /\ DOMAIN DropNamespace(d, n).source = {q \in DOMAIN d.source : d.source[q].ns # n}
           /\ DropNamespace(d, n).links = {l \in d.links : l[2] # n}
           /\ Q!SBOMs(DropNamespace(d, n)) = {s \in Q!SBOMs(d) : d.sbom[s].ns # n}
           /\ \A s \in Q!SBOMs(DropNamespace(d, n)) : DropNamespace(d, n).sbom[s].ns = d.sbom[s].ns
<1> DEFINE S == {s \in DOMAIN d.sbom : d.sbom[s].ns = n}
           T == {q \in DOMAIN d.source : d.source[q].ns = n}
           b == DropSBOMs(d, S)
           e == DropSources(b, T)
           f == DropNamespace(d, n)
<1>1. /\ Valid(b) /\ Q!SBOMs(b) = Q!SBOMs(d) \ S
      /\ \A s \in Q!SBOMs(b) : b.sbom[s] = d.sbom[s]
      /\ \A c \in DOMAIN d \ {"sbom", "rollup"} : b[c] = d[c]
  BY DropSBOMsValid
<1>2. b.source = d.source /\ b.links = d.links /\ b.ns = d.ns
  BY <1>1 DEF Valid, Schema
<1> HIDE DEF b
<1>3. /\ Valid(e) /\ DOMAIN e.source = DOMAIN b.source \ T
      /\ \A q \in DOMAIN b.source \ T : e.source[q] = b.source[q]
      /\ Q!SBOMs(e) = Q!SBOMs(b) /\ \A s \in Q!SBOMs(b) : e.sbom[s].ns = b.sbom[s].ns
      /\ e.links = b.links /\ e.ns = b.ns
  BY <1>1, DropSourcesValid, SMTT(60)
<1> HIDE DEF e
<1>4. /\ DOMAIN f = DOMAIN e
      /\ f.ns = e.ns \ {n} /\ f.public = e.public \ {n}
      /\ f.members = {m \in e.members : m[2] # n} /\ f.links = {l \in e.links : l[2] # n}
      /\ f.rollup = [t \in Q!Tables |-> {r \in e.rollup[t] : r.ns # n}]
      /\ \A c \in DOMAIN e \ {"ns", "public", "members", "links", "rollup"} : f[c] = e[c]
  BY <1>3, ZenonT(60) DEF DropNamespace, Valid, Schema, b, e
<1> HIDE DEF f
<1>5. /\ \A s \in Q!SBOMs(e) : e.sbom[s].ns # n
      /\ \A q \in DOMAIN e.source : e.source[q].ns # n
  BY <1>1, <1>2, <1>3 DEF Q!SBOMs
<1>6. Schema(f)
  BY <1>3, <1>4 DEF Valid, Schema, Q!SBOMs, Q!Clusters
<1>7. ForeignKeys(f)
  <2>1. /\ f.artifacts = e.artifacts /\ f.watch = e.watch /\ f.source = e.source /\ f.sbom = e.sbom
        /\ f.cluster = e.cluster /\ f.workload = e.workload /\ f.registry = e.registry
        /\ f.job = e.job /\ f.window = e.window
    BY <1>3, <1>4 DEF Valid, Schema
  <2>2. /\ f.members \subseteq User \X f.ns /\ f.links \subseteq f.artifacts \X f.ns /\ f.public \subseteq f.ns
    BY <1>3, <1>4, <2>1 DEF Valid, ForeignKeys
  <2>3. /\ \A q \in DOMAIN f.source : f.source[q].ns \in f.ns
        /\ \A s \in Q!SBOMs(f) : f.sbom[s].ns \in f.ns
    BY <1>3, <1>4, <1>5, <2>1 DEF Valid, ForeignKeys, Q!SBOMs
  <2>4. /\ \A t \in Q!Tables : \A row \in f.rollup[t] : row.ns \in f.ns
        /\ \A row \in f.rollup["sbomVuln"] : row.sbom \in Q!SBOMs(f)
    BY <1>3, <1>4, <2>1 DEF Valid, ForeignKeys, Q!SBOMs, Q!Tables
  <2> QED  BY <1>3, <2>1, <2>2, <2>3, <2>4 DEF Valid, ForeignKeys, Q!SBOMs, Q!Clusters
<1>8. Bounded(f)
  BY <1>3, <1>4 DEF Valid, Schema, Bounded, Q!SBOMs
<1>9. f.sbom = e.sbom /\ f.source = e.source
  BY <1>3, <1>4 DEF Valid, Schema
<1> QED  BY <1>1, <1>2, <1>3, <1>4, <1>6, <1>7, <1>8, <1>9 DEF f, Valid, Q!SBOMs

(* A set of naturals with an upper bound has a greatest element.           *)
LEMMA MaxNat ==
    ASSUME NEW T, T \subseteq Nat, T # {}, NEW b \in Nat, \A x \in T : x <= b
    PROVE  Q!Max(T) \in T /\ \A x \in T : x <= Q!Max(T)
<1> DEFINE U == {n \in Nat : \A x \in T : x <= n}
<1>1. U \subseteq Nat /\ U # {}
  OBVIOUS
<1>2. PICK m \in U : \A n \in U : ~(<<n, m>> \in OpToRel(<, Nat))
  BY <1>1, NatLessThanWellFounded, WFMin, Zenon
<1>3. \A n \in U : ~(n < m)
  BY <1>1, <1>2, Zenon DEF OpToRel
<1>4. m \in T
  <2>1. SUFFICES ASSUME m \notin T PROVE FALSE
    OBVIOUS
  <2>2. PICK y \in T : TRUE
    OBVIOUS
  <2>3. m \in Nat /\ \A x \in T : x \in Nat /\ x <= m /\ x # m
    BY <2>1
  <2> HIDE DEF U
  <2>4. m - 1 \in Nat
    BY <2>2, <2>3
  <2>5. \A x \in T : x <= m - 1
    BY <2>3, <2>4
  <2>6. m - 1 \in U
    BY <2>4, <2>5 DEF U
  <2> QED  BY <1>3, <2>3, <2>6
<1> QED  BY <1>4 DEF Q!Max

(* The last created_at of a set of SBOMs is one of theirs.                 *)
LEMMA LastCreated ==
    ASSUME NEW d, Valid(d), NEW S \in SUBSET Q!SBOMs(d), S # {}
    PROVE  \E s \in S : \A t \in S : d.sbom[t].at <= d.sbom[s].at
<1> DEFINE T == {d.sbom[s].at : s \in S}
<1>1. PICK b \in Nat : \A s \in Q!SBOMs(d) : d.sbom[s].at <= b
  BY DEF Valid, Bounded
<1>2. T \subseteq Nat /\ T # {} /\ \A x \in T : x <= b
  BY <1>1 DEF Valid, Schema
<1> HIDE DEF T
<1>3. Q!Max(T) \in T /\ \A x \in T : x <= Q!Max(T)
  BY <1>2, MaxNat
<1> QED  BY <1>3 DEF T

(* ScanSucceeds stamps an SBOM after every other.                          *)
LEMMA NextCreated ==
    ASSUME NEW d, Valid(d)
    PROVE  LET top == Q!Max({0} \cup {d.sbom[s].at : s \in Q!SBOMs(d)})
           IN top \in Nat /\ \A s \in Q!SBOMs(d) : d.sbom[s].at <= top
<1> DEFINE T == {0} \cup {d.sbom[s].at : s \in Q!SBOMs(d)}
<1>1. PICK b \in Nat : \A s \in Q!SBOMs(d) : d.sbom[s].at <= b
  BY DEF Valid, Bounded
<1>2. T \subseteq Nat /\ T # {} /\ \A x \in T : x <= b
  BY <1>1 DEF Valid, Schema
<1>3. \A s \in Q!SBOMs(d) : d.sbom[s].at \in T
  OBVIOUS
<1> HIDE DEF T
<1>4. Q!Max(T) \in T /\ \A x \in T : x <= Q!Max(T)
  BY <1>2, MaxNat
<1>5. Q!Max(T) \in Nat /\ \A s \in Q!SBOMs(d) : d.sbom[s].at <= Q!Max(T)
  BY <1>2, <1>3, <1>4
<1> QED  BY <1>5 DEF T

(* A new row, or a row again, with keys of the tables as they are.         *)
LEMMA AddSBOMValid ==
    ASSUME NEW d, Valid(d), NEW s, NEW row, NEW L,
           DOMAIN row = {"ns", "source", "at", "index"}, row.at \in Nat,
           row.ns \in d.ns, row.source \in DOMAIN d.source, L \subseteq {<<Doc[s].artifact, row.ns>>}
    PROVE  Valid([d EXCEPT !.sbom = Upsert(@, s, row), !.artifacts = @ \cup {Doc[s].artifact}, !.links = @ \cup L])
<1> DEFINE e == [d EXCEPT !.sbom = Upsert(@, s, row), !.artifacts = @ \cup {Doc[s].artifact}, !.links = @ \cup L]
<1>1. /\ DOMAIN e = DOMAIN d /\ e.sbom = Upsert(d.sbom, s, row)
      /\ e.artifacts = d.artifacts \cup {Doc[s].artifact} /\ e.links = d.links \cup L
      /\ \A c \in DOMAIN d \ {"sbom", "artifacts", "links"} : e[c] = d[c]
  BY DEF Valid, Schema
<1>2. /\ DOMAIN e.sbom = DOMAIN d.sbom \cup {s} /\ e.sbom[s] = row
      /\ \A t \in DOMAIN d.sbom \ {s} : e.sbom[t] = d.sbom[t]
  BY <1>1 DEF Upsert
<1> HIDE DEF e
<1>3. IsFiniteSet(DOMAIN e.sbom)
  BY <1>2, FS_AddElement DEF Valid, Schema, Q!SBOMs
<1>4. \A t \in DOMAIN e.sbom :
        DOMAIN e.sbom[t] = {"ns", "source", "at", "index"} /\ e.sbom[t].at \in Nat
  BY <1>2 DEF Valid, Schema, Q!SBOMs
<1>5. Schema(e)
  BY <1>1, <1>3, <1>4 DEF Valid, Schema, Q!SBOMs, Q!Clusters
<1>6. ForeignKeys(e)
  <2>1. \A c \in {"ns", "public", "members", "source", "watch", "rollup", "window", "cluster", "workload", "registry", "job"} :
          e[c] = d[c]
    BY <1>1 DEF Valid, Schema
  <2>2. e.links \subseteq e.artifacts \X e.ns /\ e.watch \subseteq User \X e.artifacts
    BY <1>1, <2>1 DEF Valid, ForeignKeys
  <2>3. \A t \in DOMAIN e.sbom :
          /\ e.sbom[t].ns \in e.ns /\ e.sbom[t].source \in DOMAIN e.source \cup {None}
          /\ Doc[t].artifact \in e.artifacts
    BY <1>1, <1>2, <2>1 DEF Valid, ForeignKeys, Q!SBOMs
  <2>4. \A r \in e.rollup["sbomVuln"] : r.sbom \in DOMAIN e.sbom
    BY <1>2, <2>1 DEF Valid, ForeignKeys, Q!SBOMs
  <2> QED  BY <2>1, <2>2, <2>3, <2>4 DEF Valid, ForeignKeys, Q!SBOMs, Q!Clusters
<1>7. Bounded(e)
  <2>1. PICK b \in Nat : \A t \in DOMAIN d.sbom : d.sbom[t].at <= b
    BY DEF Valid, Bounded, Q!SBOMs
  <2>2. \A t \in DOMAIN e.sbom : e.sbom[t].at <= b + row.at
    BY <1>2, <2>1 DEF Valid, Schema, Q!SBOMs
  <2> QED  BY <2>1, <2>2 DEF Bounded, Q!SBOMs
<1> QED  BY <1>5, <1>6, <1>7 DEF e, Valid

-----------------------------------------------------------------------------
(***************************************************************************)
(* Every step keeps the database valid                                     *)
(***************************************************************************)
LEMMA IngestValid ==
    ASSUME Valid(db), Ingests, NEW i \in ingest, CommitIngest(i)
    PROVE  Valid(db')
<1> DEFINE added == [ns |-> i.ns, source |-> i.source, at |-> i.at, index |-> None]
           L == IF i.link THEN {<<Doc[i.sbom].artifact, i.ns>>} ELSE {}
<1>1. i.at \in Nat /\ i.ns \in db.ns /\ i.source \in DOMAIN db.source /\ i.link \in BOOLEAN
  BY DEF CommitIngest, Ingests
<1>2. DOMAIN added = {"ns", "source", "at", "index"} /\ added.at = i.at /\ added.ns = i.ns /\ added.source = i.source
  OBVIOUS
<1>3. db' = [db EXCEPT !.sbom = Upsert(@, i.sbom, added), !.artifacts = @ \cup {Doc[i.sbom].artifact},
                       !.links = @ \cup L]
  <2>1. CASE i.link = TRUE   BY <2>1 DEF CommitIngest
  <2>2. CASE i.link = FALSE  BY <2>2 DEF CommitIngest
  <2> QED  BY <1>1, <2>1, <2>2
<1>4. L \subseteq {<<Doc[i.sbom].artifact, added.ns>>}
  BY <1>2
<1> HIDE DEF added, L
<1> QED  BY <1>1, <1>2, <1>3, <1>4, AddSBOMValid

(* Deletes: the cascades, after the scan jobs' tombstones.                 *)
LEMMA PruneScanJobsValid ==
    ASSUME NEW d, NEW S, Valid(d)
    PROVE  /\ Valid(PruneScanJobs(d, S))
           /\ \A c \in DOMAIN d \ {"job"} : PruneScanJobs(d, S)[c] = d[c]
           /\ DOMAIN PruneScanJobs(d, S) = DOMAIN d
<1> DEFINE e == PruneScanJobs(d, S)
<1>1. /\ DOMAIN e = DOMAIN d /\ DOMAIN e.job = DOMAIN d.job
      /\ \A c \in DOMAIN d \ {"job"} : e[c] = d[c]
  BY DEF PruneScanJobs, Valid, Schema
<1> HIDE DEF e
<1>2. Schema(e) /\ ForeignKeys(e) /\ Bounded(e)
  BY <1>1 DEF Valid, Schema, ForeignKeys, Bounded, Q!SBOMs, Q!Clusters
<1> QED  BY <1>1, <1>2 DEF e, Valid

LEMMA DeletesValid ==
    ASSUME Valid(db)
    PROVE  /\ \A s : DeleteSBOM(s) => Valid(db')
           /\ \A n : DeleteNamespace(n) => Valid(db')
           /\ \A q : DeleteSource(q) \/ DeleteCluster(q) => Valid(db')
           /\ DeleteRetentionBatch => Valid(db')
<1>1. ASSUME NEW s, DeleteSBOM(s) PROVE Valid(db')
  BY <1>1, PruneScanJobsValid, DropSBOMsValid DEF DeleteSBOM
<1>2. ASSUME NEW n, DeleteNamespace(n) PROVE Valid(db')
  BY <1>2, DropNamespaceValid DEF DeleteNamespace
<1>3. ASSUME NEW q, DeleteSource(q) \/ DeleteCluster(q) PROVE Valid(db')
  BY <1>3, DropSourcesValid DEF DeleteSource, DeleteCluster
<1>4. ASSUME DeleteRetentionBatch PROVE Valid(db')
  BY <1>4, DropSBOMsValid DEF DeleteRetentionBatch
<1> QED  BY <1>1, <1>2, <1>3, <1>4

LEMMA DeleteArtifactValid ==
    ASSUME Valid(db), NEW a, DeleteArtifact(a)
    PROVE  Valid(db')
<1> DEFINE S == Q!SBOMsOf(db, a)
           p == PruneScanJobs(db, S)
           d == DropSBOMs(p, S)
<1>1. Valid(d) /\ Q!SBOMs(d) = Q!SBOMs(p) \ S /\ Q!SBOMs(p) = Q!SBOMs(db)
  BY PruneScanJobsValid, DropSBOMsValid DEF Valid, Schema, Q!SBOMs
<1> HIDE DEF p
<1>2. \A s \in Q!SBOMs(d) : Doc[s].artifact # a
  BY <1>1 DEF Q!SBOMsOf
<1>3. db' = [d EXCEPT !.artifacts = @ \ {a}, !.links = {l \in @ : l[1] # a}, !.watch = {w \in @ : w[2] # a}]
  BY DEF DeleteArtifact, p
<1> HIDE DEF d
<1>4. /\ DOMAIN db' = DOMAIN d
      /\ db'.artifacts = d.artifacts \ {a} /\ db'.links = {l \in d.links : l[1] # a}
      /\ db'.watch = {w \in d.watch : w[2] # a}
      /\ \A c \in DOMAIN d \ {"artifacts", "links", "watch"} : db'[c] = d[c]
  BY <1>1, <1>3 DEF Valid, Schema
<1> DEFINE e == db'
<1>5. Valid(e)
  <2> HIDE DEF e
  <2>1. Schema(e)
    BY <1>1, <1>4, ZenonT(60) DEF e, Valid, Schema, Q!SBOMs, Q!Clusters
  <2>2. ForeignKeys(e)
    <3>1. \A c \in {"ns", "public", "members", "source", "sbom", "rollup", "window", "cluster", "workload", "registry", "job"} :
            e[c] = d[c]
      BY <1>1, <1>4 DEF e, Valid, Schema
    <3>2. e.links \subseteq e.artifacts \X e.ns /\ e.watch \subseteq User \X e.artifacts
      BY <1>1, <1>4, <3>1 DEF e, Valid, ForeignKeys
    <3>3. \A t \in DOMAIN e.sbom :
            /\ e.sbom[t].ns \in e.ns /\ e.sbom[t].source \in DOMAIN e.source \cup {None}
            /\ Doc[t].artifact \in e.artifacts
      BY <1>1, <1>2, <1>4, <3>1 DEF e, Valid, ForeignKeys, Q!SBOMs
    <3> QED  BY <1>1, <3>1, <3>2, <3>3 DEF Valid, ForeignKeys, Q!SBOMs, Q!Clusters
  <2>3. Bounded(e)
    BY <1>1, <1>4 DEF e, Valid, Schema, Bounded, Q!SBOMs
  <2> QED  BY <2>1, <2>2, <2>3 DEF Valid
<1> QED  BY <1>5

(* A move takes a registry and its SBOMs to another namespace.             *)
LEMMA MoveValid ==
    ASSUME Valid(db), NEW q, NEW n, MoveNamespace(q, n)
    PROVE  Valid(db')
<1> DEFINE moved == {s \in Q!SBOMs(db) : db.sbom[s].source = q}
           artifacts == {Doc[s].artifact : s \in moved}
           e == db'
<1>1. PICK L : /\ L \subseteq db.links \cup (artifacts \X {n})
               /\ db' = [db EXCEPT !.source[q].ns = n,
                                   !.sbom = [s \in Q!SBOMs(db) |-> IF s \in moved THEN [db.sbom[s] EXCEPT !.ns = n] ELSE db.sbom[s]],
                                   !.links = L]
  BY DEF MoveNamespace
<1>2. n \in db.ns /\ q \in DOMAIN db.source /\ db.source[q].kind = "oci_registry"
  BY DEF MoveNamespace
<1>3. /\ DOMAIN e = DOMAIN db /\ e.links = L
      /\ DOMAIN e.source = DOMAIN db.source /\ DOMAIN e.sbom = DOMAIN db.sbom
      /\ \A p \in DOMAIN db.source \ {q} : e.source[p] = db.source[p]
      /\ e.source[q] = [db.source[q] EXCEPT !.ns = n]
      /\ \A s \in DOMAIN db.sbom : e.sbom[s] = db.sbom[s] \/ e.sbom[s] = [db.sbom[s] EXCEPT !.ns = n]
      /\ \A c \in DOMAIN db \ {"sbom", "source", "links"} : e[c] = db[c]
  BY <1>1, <1>2 DEF Valid, Schema, Q!SBOMs
<1>4. artifacts \subseteq db.artifacts
  BY DEF Valid, ForeignKeys
<1>5. L \subseteq db.artifacts \X db.ns
  BY <1>1, <1>2, <1>4 DEF Valid, ForeignKeys
<1> HIDE DEF e, artifacts
<1>6. /\ \A p \in DOMAIN e.source :
           /\ DOMAIN e.source[p] = DOMAIN db.source[p] /\ e.source[p].kind = db.source[p].kind
           /\ e.source[p].ns \in db.ns
           /\ db.source[p].kind # "oci_registry" => e.source[p] = db.source[p]
      /\ \A s \in DOMAIN e.sbom :
           /\ DOMAIN e.sbom[s] = DOMAIN db.sbom[s]
           /\ e.sbom[s].ns \in db.ns /\ e.sbom[s].at = db.sbom[s].at /\ e.sbom[s].source = db.sbom[s].source
  <2>1. /\ DOMAIN e.source[q] = DOMAIN db.source[q] /\ e.source[q].kind = db.source[q].kind
        /\ e.source[q].ns = n
    BY <1>2, <1>3 DEF Valid, Schema
  <2>2. \A p \in DOMAIN e.source :
           /\ DOMAIN e.source[p] = DOMAIN db.source[p] /\ e.source[p].kind = db.source[p].kind
           /\ e.source[p].ns \in db.ns
           /\ db.source[p].kind # "oci_registry" => e.source[p] = db.source[p]
    BY <1>2, <1>3, <2>1 DEF Valid, ForeignKeys
  <2>3. ASSUME NEW s \in DOMAIN e.sbom
        PROVE  /\ DOMAIN e.sbom[s] = DOMAIN db.sbom[s]
               /\ e.sbom[s].ns \in {db.sbom[s].ns, n} /\ e.sbom[s].at = db.sbom[s].at
               /\ e.sbom[s].source = db.sbom[s].source
    <3>1. s \in DOMAIN db.sbom /\ DOMAIN db.sbom[s] = {"ns", "source", "at", "index"}
      BY <1>3, <2>3 DEF Valid, Schema, Q!SBOMs
    <3>2. CASE e.sbom[s] = db.sbom[s]
      BY <3>2
    <3>3. CASE e.sbom[s] = [db.sbom[s] EXCEPT !.ns = n]
      BY <3>1, <3>3
    <3> QED  BY <1>3, <3>1, <3>2, <3>3
  <2> QED  BY <1>2, <1>3, <2>2, <2>3 DEF Valid, ForeignKeys, Q!SBOMs
<1>7. \A c \in {"ns", "public", "members", "artifacts", "watch", "rollup", "window", "cluster", "workload", "registry", "job"} :
        e[c] = db[c]
  BY <1>3 DEF Valid, Schema
<1>8. Schema(e)
  BY <1>3, <1>6, <1>7 DEF Valid, Schema, Q!SBOMs, Q!Clusters
<1>9. ForeignKeys(e)
  <2>1. /\ Q!Clusters(e) = {p \in DOMAIN e.source : e.source[p].kind = "cluster"}
        /\ \A k \in Q!Clusters(e) : e.cluster[k].ns = e.source[k].ns
    BY <1>3, <1>6, <1>7 DEF Valid, ForeignKeys, Q!Clusters
  <2>2. \A s \in Q!SBOMs(e) : /\ e.sbom[s].ns \in e.ns
                              /\ e.sbom[s].source \in DOMAIN e.source \cup {None}
                              /\ Doc[s].artifact \in e.artifacts
    BY <1>3, <1>6, <1>7 DEF Valid, ForeignKeys, Q!SBOMs
  <2>3. e.links \subseteq e.artifacts \X e.ns
    BY <1>3, <1>5, <1>7
  <2> QED  BY <1>3, <1>6, <1>7, <2>1, <2>2, <2>3 DEF Valid, ForeignKeys, Q!SBOMs, Q!Clusters
<1>10. Bounded(e)
  BY <1>3, <1>6 DEF Valid, Bounded, Q!SBOMs
<1> QED  BY <1>8, <1>9, <1>10, SMTT(60) DEF e, Valid

(* The tables without rows that depend on them.                            *)
LEMMA RowsValid ==
    ASSUME Valid(db),
           \/ \E n \in db.ns : UpdateNamespace(n)
           \/ \E u \in User, n \in db.ns : SetMember(u, n)
           \/ \E u \in User, a \in DOMAIN Artifact : Watch(u, a) \/ Unwatch(u, a)
           \/ \E q \in DOMAIN db.source, S \in SUBSET (Q!SBOMs(db) \cup budget.docs) : ReplaceWindow(q, S)
           \/ \E m \in FeedRow : FeedChange(m)
           \/ \E q \in DOMAIN db.registry : EnableRegistry(q)
           \/ \E j \in DOMAIN db.job : ScanFails(j)
    PROVE  Valid(db')
<1> DEFINE e == db'
<1>1. PICK X \in SUBSET db.ns, M \in SUBSET (User \X db.ns), W \in SUBSET (User \X db.artifacts) :
        /\ DOMAIN e = DOMAIN db
        /\ e.public = X /\ e.members = M /\ e.watch = W
        /\ DOMAIN e.window \subseteq DOMAIN db.source
        /\ DOMAIN e.registry = DOMAIN db.registry /\ DOMAIN e.job = DOMAIN db.job
        /\ \A c \in DOMAIN db \ {"public", "members", "watch", "window", "match", "registry", "job"} : e[c] = db[c]
  <2>1. ASSUME NEW n \in db.ns, UpdateNamespace(n)
        PROVE  e.public \subseteq db.ns /\ DOMAIN e = DOMAIN db /\ \A c \in DOMAIN db \ {"public"} : e[c] = db[c]
    BY <2>1 DEF UpdateNamespace, Valid, Schema, ForeignKeys
  <2>2. ASSUME NEW u \in User, NEW n \in db.ns, SetMember(u, n)
        PROVE  e.members \subseteq User \X db.ns /\ DOMAIN e = DOMAIN db /\ \A c \in DOMAIN db \ {"members"} : e[c] = db[c]
    BY <2>2 DEF SetMember, Valid, Schema, ForeignKeys
  <2>3. ASSUME NEW u \in User, NEW a \in DOMAIN Artifact, Watch(u, a) \/ Unwatch(u, a)
        PROVE  e.watch \subseteq User \X db.artifacts /\ DOMAIN e = DOMAIN db /\ \A c \in DOMAIN db \ {"watch"} : e[c] = db[c]
    BY <2>3 DEF Watch, Unwatch, Valid, Schema, ForeignKeys
  <2>4. ASSUME NEW q \in DOMAIN db.source, NEW S, ReplaceWindow(q, S)
        PROVE  /\ DOMAIN e.window = DOMAIN db.window \cup {q}
               /\ DOMAIN e = DOMAIN db /\ \A c \in DOMAIN db \ {"window"} : e[c] = db[c]
    BY <2>4 DEF ReplaceWindow, Upsert, Valid, Schema
  <2>5. ASSUME NEW m, FeedChange(m)
        PROVE  DOMAIN e = DOMAIN db /\ \A c \in DOMAIN db \ {"match"} : e[c] = db[c]
    BY <2>5 DEF FeedChange
  <2>6. ASSUME NEW q, EnableRegistry(q)
        PROVE  /\ DOMAIN e.registry = DOMAIN db.registry
               /\ DOMAIN e = DOMAIN db /\ \A c \in DOMAIN db \ {"registry"} : e[c] = db[c]
    BY <2>6 DEF EnableRegistry, Valid, Schema
  <2>7. ASSUME NEW j, ScanFails(j)
        PROVE  /\ DOMAIN e.job = DOMAIN db.job
               /\ DOMAIN e = DOMAIN db /\ \A c \in DOMAIN db \ {"job"} : e[c] = db[c]
    BY <2>7 DEF ScanFails, Valid, Schema
  <2> HIDE DEF e
  <2>8. /\ db.public \subseteq db.ns /\ db.members \subseteq User \X db.ns /\ db.watch \subseteq User \X db.artifacts
        /\ DOMAIN db.window \subseteq DOMAIN db.source
        /\ {"public", "members", "watch", "window", "match", "registry", "job"} \subseteq DOMAIN db
    BY DEF Valid, Schema, ForeignKeys
  <2>11. CASE \E n \in db.ns : UpdateNamespace(n)
    BY <2>11, <2>1, <2>8
  <2>12. CASE \E u \in User, n \in db.ns : SetMember(u, n)
    BY <2>12, <2>2, <2>8
  <2>13. CASE \E u \in User, a \in DOMAIN Artifact : Watch(u, a) \/ Unwatch(u, a)
    BY <2>13, <2>3, <2>8
  <2>14. CASE \E q \in DOMAIN db.source, S \in SUBSET (Q!SBOMs(db) \cup budget.docs) : ReplaceWindow(q, S)
    BY <2>14, <2>4, <2>8
  <2>15. CASE \E m \in FeedRow : FeedChange(m)
    BY <2>15, <2>5, <2>8
  <2>16. CASE \E q \in DOMAIN db.registry : EnableRegistry(q)
    BY <2>16, <2>6, <2>8
  <2>17. CASE \E j \in DOMAIN db.job : ScanFails(j)
    BY <2>17, <2>7, <2>8
  <2> QED  BY <2>11, <2>12, <2>13, <2>14, <2>15, <2>16, <2>17
<1> HIDE DEF e
<1>2. Schema(e)
  BY <1>1 DEF Valid, Schema, Q!SBOMs, Q!Clusters
<1>3. ForeignKeys(e)
  BY <1>1 DEF Valid, Schema, ForeignKeys, Q!SBOMs, Q!Clusters
<1>4. Bounded(e)
  BY <1>1 DEF Valid, Schema, Bounded, Q!SBOMs
<1> QED  BY <1>2, <1>3, <1>4 DEF e, Valid

(* A swap of snapshots the tables' foreign keys accept.                    *)
LEMMA SwapValid ==
    ASSUME Valid(db), Replicas, NEW r \in Replica, SwapRollupSnapshots(r)
    PROVE  Valid(db')
<1>1. SUFFICES ASSUME KeysHold(built),
                      db' = [db EXCEPT !.rollup = [t \in Q!Tables |-> built[CHOOSE i \in DOMAIN TableOrder : TableOrder[i] = t]]]
               PROVE  Valid(db')
  BY DEF SwapRollupSnapshots
<1>2. DOMAIN built = 1 .. 6 /\ DOMAIN TableOrder = 1 .. 6
  BY DEF Replicas, SwapRollupSnapshots, TableOrder
<1> DEFINE e == db'
           at(t) == CHOOSE i \in DOMAIN TableOrder : TableOrder[i] = t
<1>3. /\ DOMAIN e = DOMAIN db
      /\ e.rollup = [t \in Q!Tables |-> built[at(t)]]
      /\ \A c \in DOMAIN db \ {"rollup"} : e[c] = db[c]
  BY <1>1 DEF Valid, Schema
<1>4. \A t \in Q!Tables : at(t) \in 1 .. 6 /\ TableOrder[at(t)] = t
  <2>1. \A t \in Q!Tables : \E i \in 1 .. 6 : TableOrder[i] = t
    BY DEF Q!Tables, TableOrder
  <2> QED  BY <1>2, <2>1
<1> HIDE DEF e, at
<1>5. /\ \A t \in Q!Tables : \A row \in e.rollup[t] : row.ns \in db.ns
      /\ \A row \in e.rollup["sbomVuln"] : row.sbom \in Q!SBOMs(db)
  <2>1. \A t \in Q!Tables : e.rollup[t] = built[at(t)] /\ at(t) \in DOMAIN built /\ TableOrder[at(t)] = t
    BY <1>2, <1>3, <1>4
  <2>2. "sbomVuln" \in Q!Tables
    BY DEF Q!Tables
  <2> QED  BY <1>1, <2>1, <2>2 DEF KeysHold
<1>6. DOMAIN e.rollup = Q!Tables
  BY <1>3
<1>7. \A c \in {"ns", "public", "members", "source", "sbom", "artifacts", "links", "watch", "window", "cluster", "workload",
               "registry", "job"} : e[c] = db[c]
  BY <1>3 DEF Valid, Schema
<1>8. Schema(e)
  BY <1>3, <1>6, <1>7 DEF Valid, Schema, Q!SBOMs, Q!Clusters
<1>9. ForeignKeys(e)
  BY <1>5, <1>7 DEF Valid, ForeignKeys, Q!SBOMs, Q!Clusters
<1> QED  BY <1>7, <1>8, <1>9 DEF e, Valid, Bounded, Q!SBOMs

(* The cluster's row and the source it is.                                 *)
LEMMA ClusterValid ==
    ASSUME Valid(db), NEW k
    PROVE  /\ \A n : CreateCluster(k, n) => Valid(db')
           /\ UpdateCluster(k) => Valid(db')
<1> DEFINE e == db'
<1>1. ASSUME NEW n, CreateCluster(k, n) PROVE Valid(e)
  <2>1. k \notin DOMAIN db.source /\ n \in db.ns
    BY <1>1 DEF CreateCluster
  <2>2. /\ DOMAIN e = DOMAIN db
        /\ e.cluster = Upsert(db.cluster, k, [ns |-> n, seen |-> 0, auto |-> TRUE])
        /\ e.source = Upsert(db.source, k, [ns |-> n, kind |-> "cluster"])
        /\ \A c \in DOMAIN db \ {"cluster", "source"} : e[c] = db[c]
    BY <1>1 DEF CreateCluster, Valid, Schema
  <2> HIDE DEF e
  <2>3. /\ DOMAIN e.cluster = DOMAIN db.cluster \cup {k} /\ DOMAIN e.source = DOMAIN db.source \cup {k}
        /\ e.cluster[k] = [ns |-> n, seen |-> 0, auto |-> TRUE] /\ e.source[k] = [ns |-> n, kind |-> "cluster"]
        /\ \A q \in DOMAIN db.cluster \ {k} : e.cluster[q] = db.cluster[q]
        /\ \A q \in DOMAIN db.source \ {k} : e.source[q] = db.source[q]
    BY <2>2 DEF Upsert
  <2>4. \A c \in {"ns", "public", "members", "sbom", "artifacts", "links", "watch", "rollup", "window", "workload",
                 "registry", "job"} : e[c] = db[c]
    BY <2>2 DEF Valid, Schema
  <2>5. /\ \A q \in DOMAIN e.source : DOMAIN e.source[q] = {"ns", "kind"} /\ e.source[q].ns \in db.ns
        /\ \A q \in DOMAIN e.cluster : DOMAIN e.cluster[q] = {"ns", "seen", "auto"}
    BY <2>1, <2>3 DEF Valid, Schema, ForeignKeys, Q!Clusters
  <2>6. /\ DOMAIN e.cluster = {q \in DOMAIN e.source : e.source[q].kind = "cluster"}
        /\ \A q \in DOMAIN e.cluster : e.cluster[q].ns = e.source[q].ns
    BY <2>1, <2>3 DEF Valid, ForeignKeys, Q!Clusters
  <2>7. Schema(e)
    BY <2>2, <2>4, <2>5 DEF Valid, Schema, Q!SBOMs, Q!Clusters
  <2>8. ForeignKeys(e)
    BY <2>3, <2>4, <2>5, <2>6 DEF Valid, ForeignKeys, Q!SBOMs, Q!Clusters
  <2> QED  BY <2>4, <2>7, <2>8 DEF Valid, Bounded, Q!SBOMs
<1>2. ASSUME UpdateCluster(k) PROVE Valid(e)
  <2>0. PICK b : e = [db EXCEPT !.cluster[k].auto = b]
    BY <1>2 DEF UpdateCluster
  <2> HIDE DEF e
  <2>1. /\ DOMAIN e = DOMAIN db
        /\ e.cluster = [db.cluster EXCEPT ![k].auto = b]
        /\ \A c \in DOMAIN db \ {"cluster"} : e[c] = db[c]
    BY <2>0 DEF Valid, Schema
  <2>2. /\ DOMAIN e.cluster = DOMAIN db.cluster
        /\ \A q \in DOMAIN db.cluster : DOMAIN e.cluster[q] = DOMAIN db.cluster[q] /\ e.cluster[q].ns = db.cluster[q].ns
    BY <2>1 DEF Valid, Schema, Q!Clusters
  <2>3. Schema(e) /\ ForeignKeys(e) /\ Bounded(e)
    BY <2>1, <2>2 DEF Valid, Schema, ForeignKeys, Bounded, Q!SBOMs, Q!Clusters
  <2> QED  BY <2>3 DEF Valid
<1> QED  BY <1>1, <1>2 DEF e

(* A push stamps, then replaces its cluster's rows.                        *)
LEMMA InventoryValid ==
    ASSUME Valid(db), NEW i, Stamp(i) \/ ReplaceInventory(i)
    PROVE  Valid(db')
<1> DEFINE e == db'
           others == {"ns", "public", "members", "source", "sbom", "artifacts", "links", "watch", "rollup", "window",
                      "registry", "job"}
<1>1. ASSUME /\ DOMAIN e = DOMAIN db /\ \A c \in others : e[c] = db[c]
             /\ DOMAIN e.cluster = DOMAIN db.cluster
             /\ \A k \in DOMAIN db.cluster :
                  DOMAIN e.cluster[k] = DOMAIN db.cluster[k] /\ e.cluster[k].ns = db.cluster[k].ns
             /\ \A w \in e.workload : "cluster" \in DOMAIN w /\ w.cluster \in DOMAIN db.cluster
      PROVE  Valid(e)
  <2> HIDE DEF e
  <2>1. Schema(e)
    BY <1>1 DEF Valid, Schema, Q!SBOMs, Q!Clusters
  <2>2. ForeignKeys(e)
    BY <1>1 DEF Valid, ForeignKeys, Q!SBOMs, Q!Clusters
  <2> QED  BY <1>1, <2>1, <2>2 DEF Valid, Bounded, Q!SBOMs
<1>2. CASE Stamp(i)
  <2>1. e = Ranked(db, Stamps)
    BY <1>2 DEF Stamp
  <2> HIDE DEF e
  <2>2. /\ DOMAIN e = DOMAIN db /\ \A c \in others : e[c] = db[c]
        /\ \A x \in e.workload : \E w \in db.workload : x = [w EXCEPT !.last = RankIn(Stamps, w.last)]
        /\ e.cluster = [k \in DOMAIN db.cluster |-> [db.cluster[k] EXCEPT !.seen = RankIn(Stamps, db.cluster[k].seen)]]
    <3>2. PICK S : S = Stamps
      OBVIOUS
    <3>3. e = Ranked(db, S)
      BY <2>1, <3>2
    <3>4. /\ DOMAIN e = DOMAIN db /\ \A c \in others : e[c] = db[c]
          /\ e.workload = {[w EXCEPT !.last = RankIn(S, w.last)] : w \in db.workload}
      BY <3>3 DEF Ranked, Valid, Schema
    <3>5. e.cluster = [k \in DOMAIN db.cluster |-> [db.cluster[k] EXCEPT !.seen = RankIn(S, db.cluster[k].seen)]]
      BY <3>3 DEF Ranked, Valid, Schema
    <3> QED  BY <3>2, <3>4, <3>5
  <2>3. \A k \in DOMAIN db.cluster :
           DOMAIN e.cluster[k] = DOMAIN db.cluster[k] /\ e.cluster[k].ns = db.cluster[k].ns
    BY <2>2 DEF Valid, Schema, Q!Clusters
  <2>4. \A w \in e.workload : "cluster" \in DOMAIN w /\ w.cluster \in DOMAIN db.cluster
    BY <2>2 DEF Valid, Schema, ForeignKeys, Q!Clusters
  <2> QED  BY <1>1, <2>2, <2>3, <2>4 DEF e
<1>3. CASE ReplaceInventory(i)
  <2> DEFINE p == request[i]
             W == UpsertAndPrune(p.cluster, p.rows, p.at)
  <2>1. /\ request[i].cluster \in DOMAIN db.cluster
        /\ db' = [db EXCEPT !.workload = UpsertAndPrune(request[i].cluster, request[i].rows, request[i].at),
                            !.cluster[request[i].cluster].seen = request[i].at]
    BY <1>3 DEF ReplaceInventory, Q!Clusters
  <2>2. \A w \in W : w \in db.workload \/ \E x \in p.rows : w = UpsertAll(x, [cluster |-> p.cluster, last |-> p.at])
    BY DEF UpsertAndPrune
  <2>3. \A x : /\ "cluster" \in DOMAIN UpsertAll(x, [cluster |-> p.cluster, last |-> p.at])
               /\ UpsertAll(x, [cluster |-> p.cluster, last |-> p.at]).cluster = p.cluster
    BY DEF UpsertAll
  <2>3a. p.cluster \in DOMAIN db.cluster /\ e = [db EXCEPT !.workload = W, !.cluster[p.cluster].seen = p.at]
    BY <2>1
  <2> HIDE DEF e, W, p
  <2>4. /\ DOMAIN e = DOMAIN db /\ \A c \in others : e[c] = db[c] /\ e.workload = W
        /\ e.cluster = [db.cluster EXCEPT ![p.cluster].seen = p.at]
    BY <2>3a DEF Valid, Schema
  <2>5. /\ DOMAIN e.cluster = DOMAIN db.cluster
        /\ \A k \in DOMAIN db.cluster :
             DOMAIN e.cluster[k] = DOMAIN db.cluster[k] /\ e.cluster[k].ns = db.cluster[k].ns
    BY <2>4 DEF Valid, Schema, Q!Clusters
  <2>6. \A w \in db.workload : "cluster" \in DOMAIN w /\ w.cluster \in DOMAIN db.cluster
    BY DEF Valid, Schema, ForeignKeys, Q!Clusters
  <2>7. \A w \in e.workload : "cluster" \in DOMAIN w /\ w.cluster \in DOMAIN db.cluster
    BY <2>3a, <2>2, <2>3, <2>4, <2>6
  <2> QED  BY <1>1, <2>4, <2>5, <2>7 DEF e
<1> QED  BY <1>2, <1>3

(* A job is added for a source that is there, or for none.                 *)
LEMMA JobsValid ==
    ASSUME NEW d, NEW f, Valid(d), \A j \in DOMAIN f : j[1] \in DOMAIN d.source
    PROVE  Valid([d EXCEPT !.job = f])
<1> DEFINE e == [d EXCEPT !.job = f]
<1>1. DOMAIN e = DOMAIN d /\ e.job = f /\ \A c \in DOMAIN d \ {"job"} : e[c] = d[c]
  BY DEF Valid, Schema
<1> HIDE DEF e
<1>2. \A c \in {"ns", "public", "members", "source", "sbom", "artifacts", "links", "watch", "rollup", "window", "cluster",
                "workload", "registry"} : e[c] = d[c]
  BY <1>1 DEF Valid, Schema
<1>3. Schema(e) /\ ForeignKeys(e) /\ Bounded(e)
  BY <1>1, <1>2 DEF Valid, Schema, ForeignKeys, Bounded, Q!SBOMs, Q!Clusters
<1> QED  BY <1>3 DEF e, Valid

LEMMA SubmitsValid ==
    ASSUME Valid(db), NEW i, DropFailedJobs(i) \/ Submit(i)
    PROVE  Valid(db')
<1>0. \A j \in DOMAIN db.job : j[1] \in DOMAIN db.source
  BY DEF Valid, ForeignKeys
<1>1. CASE DropFailedJobs(i)
  <2> DEFINE D == {j \in DOMAIN db.job : j \in UNION {img.failed : img \in request[i].images} => db.job[j].state # "failed"}
  <2>1. db' = [db EXCEPT !.job = Restrict(db.job, D)]
    BY <1>1 DEF DropFailedJobs
  <2>2. DOMAIN Restrict(db.job, D) = D /\ D \subseteq DOMAIN db.job
    BY DEF Restrict
  <2> QED  BY <1>0, <2>1, <2>2, JobsValid
<1>2. ASSUME NEW img, NEW P, SubmitForRunningImage(i, img, P)
      PROVE  Valid(db')
  <2>1. PICK x : db' = SubmitJobs(db, img.owner, P, x)
    BY <1>2 DEF SubmitForRunningImage
  <2>2. CASE img.owner \notin DOMAIN db.source
    BY <2>1, <2>2 DEF SubmitJobs
  <2>3. CASE img.owner \in DOMAIN db.source
    <3>1. PICK g : DOMAIN g = {<<img.owner, y>> : y \in P} /\ db' = [db EXCEPT !.job = UpsertAll(@, g)]
      BY <2>1, <2>3 DEF SubmitJobs
    <3>2. DOMAIN UpsertAll(db.job, g) = DOMAIN db.job \cup DOMAIN g
      BY DEF UpsertAll
    <3>3. \A j \in DOMAIN UpsertAll(db.job, g) : j[1] \in DOMAIN db.source
      BY <1>0, <2>3, <3>1, <3>2
    <3>4. db' = [db EXCEPT !.job = UpsertAll(db.job, g)]
      BY <3>1
    <3> QED  BY <3>3, <3>4, JobsValid
  <2> QED  BY <2>2, <2>3
<1>3. ASSUME NEW img, RecordRefusal(i, img)
      PROVE  Valid(db')
  <2>1. CASE UNCHANGED db
    BY <2>1
  <2>2. CASE img.owner \in DOMAIN db.source /\ db' = RecordRefusedScanJob(db, img, classifyPullError(img))
    <3>1. CASE <<img.owner, img.digest>> \in DOMAIN db.job
      BY <2>2, <3>1 DEF RecordRefusedScanJob
    <3>2. CASE <<img.owner, img.digest>> \notin DOMAIN db.job
      <4>1. PICK x : db' = [db EXCEPT !.job = Upsert(db.job, <<img.owner, img.digest>>, x)]
        BY <2>2, <3>2 DEF RecordRefusedScanJob
      <4>2. DOMAIN Upsert(db.job, <<img.owner, img.digest>>, x) = DOMAIN db.job \cup {<<img.owner, img.digest>>}
        BY DEF Upsert
      <4>3. \A j \in DOMAIN Upsert(db.job, <<img.owner, img.digest>>, x) : j[1] \in DOMAIN db.source
        BY <1>0, <2>2, <4>2
      <4> QED  BY <4>1, <4>3, JobsValid
    <3> QED  BY <3>1, <3>2
  <2> QED  BY <1>3, <2>1, <2>2 DEF RecordRefusal
<1>4. CASE Submit(i)
  BY <1>2, <1>3, <1>4 DEF Submit
<1> QED  BY <1>1, <1>4

(* A scan adds its SBOM and link, unless the SBOM is there.                *)
LEMMA ScanValid ==
    ASSUME Valid(db), NEW j, ScanSucceeds(j)
    PROVE  Valid(db')
<1> DEFINE s == j[2]
           top == Q!Max({0} \cup {db.sbom[t].at : t \in Q!SBOMs(db)})
           added == [ns |-> db.source[j[1]].ns, source |-> j[1], index |-> db.job[j].index, at |-> 1 + top]
           f == [db.job EXCEPT ![j].state = "succeeded"]
           d == [db EXCEPT !.job = f]
<1>1. j \in DOMAIN db.job
  BY DEF ScanSucceeds
<1>2. j[1] \in DOMAIN db.source /\ db.source[j[1]].ns \in db.ns
  BY <1>1 DEF Valid, ForeignKeys
<1>3. top \in Nat
  BY NextCreated
<1>4. Valid(d)
  <2>1. DOMAIN f = DOMAIN db.job
    OBVIOUS
  <2>2. \A x \in DOMAIN f : x[1] \in DOMAIN db.source
    BY <2>1 DEF Valid, ForeignKeys
  <2> HIDE DEF f
  <2> QED  BY <2>2, JobsValid
<1>5. d.ns = db.ns /\ d.source = db.source /\ Q!SBOMs(d) = Q!SBOMs(db)
  BY DEF Valid, Schema, Q!SBOMs
<1>6. db' = IF s \in Q!SBOMs(db) THEN d
            ELSE [d EXCEPT !.sbom = Upsert(@, s, added), !.artifacts = @ \cup {Doc[s].artifact},
                           !.links = @ \cup {<<Doc[s].artifact, added.ns>>}]
  <2>1. d = [db EXCEPT !.job[j].state = "succeeded"]
    BY DEF Valid, Schema
  <2> HIDE DEF d
  <2> QED  BY <2>1 DEF ScanSucceeds
<1>7. /\ DOMAIN added = {"ns", "source", "at", "index"} /\ added.at \in Nat
      /\ added.ns \in d.ns /\ added.source \in DOMAIN d.source
  BY <1>2, <1>3, <1>5
<1> HIDE DEF d, added, s
<1> QED  BY <1>4, <1>6, <1>7, AddSBOMValid

LEMMA ValidStep ==
    ASSUME Valid(db), Ingests, Replicas, [Next]_vars
    PROVE  Valid(db')
<1>1. CASE UNCHANGED vars
  BY <1>1 DEF vars, catalogueVars
<1>2. CASE API
  <2>1. ASSUME NEW s \in DOMAIN Doc, DeleteSBOM(s) \/ Report(s) PROVE Valid(db')
    BY <2>1, DeletesValid DEF Report
  <2>2. ASSUME NEW s \in DOMAIN Doc, NEW q \in DOMAIN db.source, ResolveIngest(s, q) PROVE Valid(db')
    BY <2>2 DEF ResolveIngest
  <2>3. ASSUME NEW i \in ingest, WriteIngest(i) \/ CommitIngest(i) \/ FailIngest(i) PROVE Valid(db')
    BY <2>3, IngestValid DEF WriteIngest, FailIngest
  <2>4. ASSUME NEW a \in DOMAIN Artifact, DeleteArtifact(a) PROVE Valid(db')
    BY <2>4, DeleteArtifactValid
  <2>5. ASSUME NEW n \in db.ns, DeleteNamespace(n) PROVE Valid(db')
    BY <2>5, DeletesValid
  <2>6. ASSUME NEW q \in DOMAIN db.source, DeleteSource(q) PROVE Valid(db')
    BY <2>6, DeletesValid
  <2>7. ASSUME NEW q \in DOMAIN db.source, NEW n \in db.ns, MoveNamespace(q, n) PROVE Valid(db')
    BY <2>7, MoveValid
  <2>8. CASE DayPasses
    BY <2>8 DEF DayPasses
  <2> QED  BY <1>2, <2>1, <2>2, <2>3, <2>4, <2>5, <2>6, <2>7, <2>8, RowsValid DEF API
<1>3. CASE Sweeper
  BY <1>3, DeletesValid DEF Sweeper, ListBatch, SweepFails
<1>4. ASSUME NEW r \in Replica, Refresher(r) PROVE Valid(db')
  <2>1. CASE SwapRollupSnapshots(r)
    BY <2>1, SwapValid
  <2>2. CASE ReadAndTick(r) \/ BlindTick(r)
    BY <2>2 DEF ReadAndTick, BlindTick, Tick
  <2>3. CASE TryLockRollupRefresh(r) \/ BuildRollupSnapshots(r) \/ PassFails(r) \/ Restart(r) \/ Age(r)
    BY <2>3 DEF TryLockRollupRefresh, BuildRollupSnapshots, PassFails, Restart, Age
  <2> QED  BY <1>4, <2>1, <2>2, <2>3 DEF Refresher, Pass
<1>5. ASSUME NEW i \in Request, Serve(i) \/ LosePush(i) PROVE Valid(db')
  BY <1>5, InventoryValid, SubmitsValid DEF Serve, NotFound, Resolve, LosePush
<1>6. ASSUME NEW k \in Reporting, Agent(k) \/ DeleteCluster(k) \/ UpdateCluster(k) PROVE Valid(db')
  BY <1>6, DeletesValid, ClusterValid DEF Agent, Send
<1>7. ASSUME NEW k \in Reporting, NEW n \in db.ns, CreateCluster(k, n) PROVE Valid(db')
  BY <1>7, ClusterValid
<1>8. ASSUME NEW k \in Reporting, NEW P \in Fleet, PodsChange(k, P) PROVE Valid(db')
  BY <1>8 DEF PodsChange
<1>9. ASSUME NEW k \in Reporting, NEW i \in Request, NEW d \in DOMAIN Manifest, IngestUnknown(k, i, {d}) PROVE Valid(db')
  BY <1>9 DEF IngestUnknown
<1>10. ASSUME NEW q \in DOMAIN db.registry, EnableRegistry(q) PROVE Valid(db')
  BY <1>10, RowsValid
<1>11. ASSUME NEW j \in DOMAIN db.job, ScanSucceeds(j) \/ ScanFails(j) PROVE Valid(db')
  BY <1>11, RowsValid, ScanValid
<1>12. CASE CatalogueNext
  BY <1>12, <1>2, <1>3, <1>4 DEF CatalogueNext
<1> QED  BY <1>1, <1>5, <1>6, <1>7, <1>8, <1>9, <1>10, <1>11, <1>12 DEF Next

-----------------------------------------------------------------------------
(***************************************************************************)
(* Links and open ingests                                                  *)
(***************************************************************************)
(* A step that concerns neither SBOMs, links nor ingests.                  *)
Kept ==
    /\ db'.sbom = db.sbom /\ db'.links = db.links /\ db'.ns = db.ns
    /\ DOMAIN db.source \subseteq DOMAIN db'.source
    /\ lost' = lost /\ ingest' = ingest

LEMMA StepKinds ==
    ASSUME Valid(db), [Next]_vars
    PROVE  \/ Kept
           \/ DeleteRetentionBatch \/ \E s : DeleteSBOM(s)
           \/ \E s, q : ResolveIngest(s, q)
           \/ \E i \in ingest : WriteIngest(i) \/ CommitIngest(i) \/ FailIngest(i)
           \/ \E a : DeleteArtifact(a)
           \/ \E n : DeleteNamespace(n)
           \/ \E q : DeleteSource(q) \/ DeleteCluster(q)
           \/ \E q, n : MoveNamespace(q, n)
           \/ \E j : ScanSucceeds(j)
<1>1. CASE UNCHANGED vars
  BY <1>1 DEF vars, catalogueVars, Kept
<1>2. CASE API
  <2>1. ASSUME NEW s, Report(s) PROVE Kept
    BY <2>1 DEF Report, Kept
  <2>2. ASSUME NEW n, UpdateNamespace(n) PROVE Kept
    BY <2>2 DEF UpdateNamespace, Kept, Valid, Schema
  <2>3. ASSUME NEW u, NEW n, SetMember(u, n) PROVE Kept
    BY <2>3 DEF SetMember, Kept, Valid, Schema
  <2>4. ASSUME NEW u, NEW a, Watch(u, a) \/ Unwatch(u, a) PROVE Kept
    BY <2>4 DEF Watch, Unwatch, Kept, Valid, Schema
  <2>5. ASSUME NEW q, NEW S, ReplaceWindow(q, S) PROVE Kept
    BY <2>5 DEF ReplaceWindow, Kept, Valid, Schema
  <2>6. ASSUME NEW m, FeedChange(m) PROVE Kept
    BY <2>6 DEF FeedChange, Kept, Valid, Schema
  <2>7. CASE DayPasses
    BY <2>7 DEF DayPasses, Kept
  <2> QED  BY <1>2, <2>1, <2>2, <2>3, <2>4, <2>5, <2>6, <2>7 DEF API
<1>3. CASE Sweeper
  BY <1>3 DEF Sweeper, ListBatch, SweepFails, Kept
<1>4. ASSUME NEW r \in Replica, Refresher(r) PROVE Kept
  <2>1. CASE SwapRollupSnapshots(r)
    BY <2>1 DEF SwapRollupSnapshots, Kept, Valid, Schema
  <2>2. CASE ReadAndTick(r) \/ BlindTick(r)
    BY <2>2 DEF ReadAndTick, BlindTick, Tick, Kept
  <2>3. CASE TryLockRollupRefresh(r) \/ BuildRollupSnapshots(r) \/ PassFails(r) \/ Restart(r) \/ Age(r)
    BY <2>3 DEF TryLockRollupRefresh, BuildRollupSnapshots, PassFails, Restart, Age, Kept
  <2> QED  BY <1>4, <2>1, <2>2, <2>3 DEF Refresher, Pass
<1>5. ASSUME NEW i \in Request, Serve(i) \/ LosePush(i) PROVE Kept
  <2>1. CASE Stamp(i)
    BY <2>1 DEF Stamp, Ranked, Unmoved, Kept, Valid, Schema
  <2>2. CASE ReplaceInventory(i)
    BY <2>2 DEF ReplaceInventory, Unmoved, Kept, Valid, Schema
  <2>3. CASE NotFound(i) \/ Resolve(i) \/ LosePush(i)
    BY <2>3 DEF NotFound, Resolve, LosePush, Unmoved, Kept
  <2>4. CASE DropFailedJobs(i)
    BY <2>4 DEF DropFailedJobs, Unmoved, Kept, Valid, Schema
  <2>5. CASE Submit(i)
    <3>1. ASSUME NEW img, NEW P, SubmitForRunningImage(i, img, P)
          PROVE  \E f : db' = [db EXCEPT !.job = f] \/ db' = db
      BY <3>1 DEF SubmitForRunningImage, SubmitJobs
    <3>2. ASSUME NEW img, RecordRefusal(i, img)
          PROVE  \E f : db' = [db EXCEPT !.job = f] \/ db' = db
      BY <3>2 DEF RecordRefusal, RecordRefusedScanJob
    <3>3. PICK f : db' = [db EXCEPT !.job = f] \/ db' = db
      BY <2>5, <3>1, <3>2 DEF Submit
    <3> QED  BY <2>5, <3>3 DEF Submit, Unmoved, Kept, Valid, Schema
  <2> QED  BY <1>5, <2>1, <2>2, <2>3, <2>4, <2>5 DEF Serve
<1>6. ASSUME NEW k \in Reporting, Agent(k) PROVE Kept
  BY <1>6 DEF Agent, Send, Unmoved, Kept
<1>7. ASSUME NEW k, UpdateCluster(k) PROVE Kept
  BY <1>7 DEF UpdateCluster, Unmoved, Kept, Valid, Schema
<1>8. ASSUME NEW k, NEW n, CreateCluster(k, n) PROVE Kept
  BY <1>8 DEF CreateCluster, Upsert, Unmoved, Kept, Valid, Schema
<1>9. ASSUME NEW k, NEW P, PodsChange(k, P) PROVE Kept
  BY <1>9 DEF PodsChange, Unmoved, Kept
<1>10. ASSUME NEW k, NEW i, NEW d, IngestUnknown(k, i, {d}) PROVE Kept
  BY <1>10 DEF IngestUnknown, Unmoved, Kept
<1>11. ASSUME NEW q, EnableRegistry(q) PROVE Kept
  BY <1>11 DEF EnableRegistry, Unmoved, Kept, Valid, Schema
<1>12. ASSUME NEW j, ScanFails(j) PROVE Kept
  BY <1>12 DEF ScanFails, Unmoved, Kept, Valid, Schema
<1>13. CASE CatalogueNext
  BY <1>13, <1>2, <1>3, <1>4 DEF CatalogueNext
<1> QED  BY <1>1, <1>5, <1>6, <1>7, <1>8, <1>9, <1>10, <1>11, <1>12, <1>13 DEF Next

LEMMA LinksStep ==
    ASSUME Valid(db), Ingests, LinksFollowSBOMs, [Next]_vars
    PROVE  LinksFollowSBOMs'
<1> DEFINE Link(s) == <<Doc[s].artifact, db.sbom[s].ns>>
<1>0. \A s \in Q!SBOMs(db) : Link(s) \in db.links \cup lost
  BY DEF LinksFollowSBOMs, LinkedBut

<1>1. SUFFICES ASSUME NEW s \in Q!SBOMs(db')
               PROVE  <<Doc[s].artifact, db'.sbom[s].ns>> \in db'.links \cup lost'
  BY DEF LinksFollowSBOMs, LinkedBut
<1>2. CASE Kept
  BY <1>0, <1>2 DEF Kept, Q!SBOMs
<1>3. CASE DeleteRetentionBatch
  <2>1. /\ Q!SBOMs(db') = Q!SBOMs(db) \ (sweep.ids \ Protected(db))
        /\ db'.sbom[s] = db.sbom[s] /\ db'.links = db.links /\ lost' = lost
    BY <1>3, DropSBOMsValid DEF DeleteRetentionBatch, Valid, Schema
  <2> QED  BY <1>0, <2>1
<1>4. ASSUME NEW t, DeleteSBOM(t) PROVE <<Doc[s].artifact, db'.sbom[s].ns>> \in db'.links \cup lost'
  <2> DEFINE d == PruneScanJobs(db, {t})
  <2>1. /\ Valid(d) /\ \A c \in DOMAIN db \ {"job"} : d[c] = db[c]
    BY PruneScanJobsValid
  <2>2. d.sbom = db.sbom /\ d.links = db.links
    BY <2>1 DEF Valid, Schema
  <2> HIDE DEF d
  <2>3. db' = DropSBOMs(d, {t}) /\ lost' = lost
    BY <1>4 DEF DeleteSBOM, d
  <2>4. /\ Q!SBOMs(db') = Q!SBOMs(d) \ {t}
        /\ db'.sbom[s] = d.sbom[s] /\ db'.links = d.links
    BY <2>1, <2>3, DropSBOMsValid DEF Valid, Schema
  <2> QED  BY <1>0, <2>2, <2>3, <2>4 DEF Q!SBOMs
<1>5. CASE (\E t, q : ResolveIngest(t, q)) \/ \E i \in ingest : WriteIngest(i) \/ FailIngest(i)
  BY <1>0, <1>5 DEF ResolveIngest, WriteIngest, FailIngest
<1>6. ASSUME NEW i \in ingest, CommitIngest(i)
      PROVE  <<Doc[s].artifact, db'.sbom[s].ns>> \in db'.links \cup lost'
  <2>1. /\ DOMAIN db'.sbom = DOMAIN db.sbom \cup {i.sbom} /\ db'.sbom[i.sbom].ns = i.ns
        /\ \A t \in DOMAIN db.sbom \ {i.sbom} : db'.sbom[t] = db.sbom[t]
    BY <1>6 DEF CommitIngest, Upsert, Valid, Schema
  <2>2. db'.links = IF i.link THEN db.links \cup {<<Doc[i.sbom].artifact, i.ns>>} ELSE db.links
    BY <1>6 DEF CommitIngest, Valid, Schema
  <2>3. i.link = TRUE \/ (i.link = FALSE /\ <<Doc[i.sbom].artifact, i.ns>> \in db.links \cup lost)
    BY <1>6 DEF CommitIngest, Ingests
  <2>4. lost' = lost
    BY <1>6 DEF CommitIngest
  <2>5. db.links \subseteq db'.links /\ (i.link = TRUE => <<Doc[i.sbom].artifact, i.ns>> \in db'.links)
    BY <2>2
  <2>6. CASE s = i.sbom
    BY <2>1, <2>3, <2>4, <2>5, <2>6
  <2>7. CASE s # i.sbom
    BY <1>0, <2>1, <2>4, <2>5, <2>7 DEF Q!SBOMs
  <2> QED  BY <2>6, <2>7
<1>7. ASSUME NEW a, DeleteArtifact(a) PROVE <<Doc[s].artifact, db'.sbom[s].ns>> \in db'.links \cup lost'
  <2> DEFINE S == Q!SBOMsOf(db, a)
             p == PruneScanJobs(db, S)
             d == DropSBOMs(p, S)
  <2>1. Valid(p) /\ p.sbom = db.sbom /\ p.links = db.links
    BY PruneScanJobsValid DEF Valid, Schema
  <2> HIDE DEF p
  <2>2. /\ Valid(d) /\ Q!SBOMs(d) = Q!SBOMs(p) \ S
        /\ \A t \in Q!SBOMs(p) \ S : d.sbom[t] = p.sbom[t]
        /\ d.links = p.links
    BY <2>1, DropSBOMsValid DEF Valid, Schema
  <2>3. /\ db' = [d EXCEPT !.artifacts = @ \ {a}, !.links = {l \in @ : l[1] # a}, !.watch = {w \in @ : w[2] # a}]
        /\ lost' = lost
    BY <1>7 DEF DeleteArtifact, p
  <2> HIDE DEF d
  <2>4. db'.sbom = d.sbom /\ db'.links = {l \in d.links : l[1] # a}
    BY <2>2, <2>3 DEF Valid, Schema
  <2>5. s \in Q!SBOMs(db) /\ Doc[s].artifact # a /\ db'.sbom[s].ns = db.sbom[s].ns
    BY <2>1, <2>2, <2>4 DEF Q!SBOMs, Q!SBOMsOf
  <2> QED  BY <1>0, <2>1, <2>2, <2>3, <2>4, <2>5
<1>8. ASSUME NEW n, DeleteNamespace(n) PROVE <<Doc[s].artifact, db'.sbom[s].ns>> \in db'.links \cup lost'
  <2>1. /\ db'.links = {l \in db.links : l[2] # n} /\ lost' = lost
        /\ s \in Q!SBOMs(db) /\ db.sbom[s].ns # n /\ db'.sbom[s].ns = db.sbom[s].ns
    BY <1>8, DropNamespaceValid DEF DeleteNamespace
  <2> QED  BY <1>0, <2>1
<1>9. ASSUME NEW q, DeleteSource(q) \/ DeleteCluster(q) PROVE <<Doc[s].artifact, db'.sbom[s].ns>> \in db'.links \cup lost'
  <2>1. db' = DropSources(db, {q}) /\ lost' = lost
    BY <1>9 DEF DeleteSource, DeleteCluster, Unmoved
  <2>2. s \in Q!SBOMs(db) /\ db'.sbom[s].ns = db.sbom[s].ns /\ db'.links = db.links
    BY <2>1, DropSourcesValid
  <2> QED  BY <1>0, <2>1, <2>2
<1>10. ASSUME NEW q, NEW n, MoveNamespace(q, n) PROVE <<Doc[s].artifact, db'.sbom[s].ns>> \in db'.links \cup lost'
  <2> DEFINE old == db.source[q].ns
             moved == {t \in Q!SBOMs(db) : db.sbom[t].source = q}
             sbom == [t \in Q!SBOMs(db) |-> IF t \in moved THEN [db.sbom[t] EXCEPT !.ns = n] ELSE db.sbom[t]]
             artifacts == {Doc[t].artifact : t \in moved}
             emptied == {<<a, old>> : a \in {a \in artifacts : ~\E t \in Q!SBOMs(db) :
                                                Doc[t].artifact = a /\ sbom[t].ns = old}}
  <2>1. n # old
    BY <1>10, SMTT(60) DEF MoveNamespace
  <2>0. PICK f : /\ db' = [db EXCEPT !.source = f, !.sbom = sbom,
                                    !.links = (@ \cup (artifacts \X {n})) \ emptied]
                 /\ lost \subseteq lost'
    BY <1>10, ZenonT(60) DEF MoveNamespace
  <2> HIDE DEF sbom, emptied, artifacts
  <2>2. db'.sbom = sbom /\ db'.links = (db.links \cup (artifacts \X {n})) \ emptied /\ lost \subseteq lost'
    BY <2>0 DEF Valid, Schema
  <2> USE DEF sbom, emptied, artifacts
  <2>3. s \in Q!SBOMs(db)
    BY <2>2 DEF Q!SBOMs
  <2>4. CASE s \in moved
    <3>1. sbom[s].ns = n
      BY <2>3, <2>4 DEF Valid, Schema
    <3>2. <<Doc[s].artifact, n>> \notin emptied
      BY <2>1
    <3> QED  BY <2>2, <2>4, <3>1, <3>2
  <2>5. CASE s \notin moved
    <3>1. sbom[s].ns = db.sbom[s].ns
      BY <2>3, <2>5
    <3>2. <<Doc[s].artifact, sbom[s].ns>> \notin emptied
      BY <2>3
    <3> HIDE DEF sbom, emptied, artifacts, moved
    <3> QED  BY <1>0, <2>2, <2>3, <3>1, <3>2
  <2> QED  BY <2>4, <2>5
<1>11. ASSUME NEW j, ScanSucceeds(j) PROVE <<Doc[s].artifact, db'.sbom[s].ns>> \in db'.links \cup lost'
  <2> DEFINE d == [db EXCEPT !.job[j].state = "succeeded"]
  <2>1. lost' = lost
    BY <1>11 DEF ScanSucceeds
  <2>2. DOMAIN d = DOMAIN db /\ d.sbom = db.sbom /\ d.links = db.links
    BY DEF Valid, Schema
  <2>3. CASE j[2] \in Q!SBOMs(db)
    <3>1. db' = d
      BY <1>11, <2>3 DEF ScanSucceeds
    <3> QED  BY <1>0, <2>1, <2>2, <3>1 DEF Q!SBOMs
  <2>4. CASE j[2] \notin Q!SBOMs(db)
    <3>1. PICK x : db' = [d EXCEPT !.sbom = Upsert(@, j[2], x), !.artifacts = @ \cup {Doc[j[2]].artifact},
                                   !.links = @ \cup {<<Doc[j[2]].artifact, x.ns>>}]
      BY <1>11, <2>4, ZenonT(60) DEF ScanSucceeds
    <3> HIDE DEF d
    <3>2. db'.sbom = Upsert(d.sbom, j[2], x) /\ db'.links = d.links \cup {<<Doc[j[2]].artifact, x.ns>>}
      BY <2>2, <3>1 DEF Valid, Schema
    <3> QED  BY <1>0, <2>1, <2>2, <3>2 DEF Upsert, Q!SBOMs
  <2> QED  BY <2>3, <2>4
<1> QED  BY <1>2, <1>3, <1>4, <1>5, <1>6, <1>7, <1>8, <1>9, <1>10, <1>11, StepKinds

(* What an open ingest has locked nobody deletes, and a move that takes its *)
(* link says so in lost.                                                   *)
LEMMA IngestsStep ==
    ASSUME Valid(db), Ingests, Clock, End \in Nat, [Next]_vars
    PROVE  Ingests'
<1> DEFINE Sound(i, e, l) ==
             /\ DOMAIN i = {"sbom", "source", "ns", "at", "step", "link"}
             /\ i.at \in Nat /\ i.link \in BOOLEAN /\ i.step \in Steps
             /\ i.step = "written" =>
                  /\ i.source \in DOMAIN e.source /\ i.ns \in e.ns
                  /\ i.link = FALSE => <<Doc[i.sbom].artifact, i.ns>> \in e.links \cup l
<1>0. \A i \in ingest : Sound(i, db, lost)
  BY DEF Ingests
<1>a. ASSUME \A i \in ingest' : Sound(i, db', lost') PROVE Ingests'
  BY <1>a DEF Ingests
<1>b. ASSUME \A i \in ingest : i.step = "written" =>
                 /\ i.source \in DOMAIN db'.source /\ i.ns \in db'.ns
                 /\ <<Doc[i.sbom].artifact, i.ns>> \in db.links \cup lost =>
                      <<Doc[i.sbom].artifact, i.ns>> \in db'.links \cup lost',
             ingest' = ingest
      PROVE  Ingests'
  BY <1>0, <1>a, <1>b
<1> HIDE DEF Sound
<1>1. CASE Kept
  BY <1>0, <1>1, <1>b DEF Kept, Sound
<1>2. CASE DeleteRetentionBatch
  <2>1. /\ db'.links = db.links /\ db'.source = db.source /\ db'.ns = db.ns /\ lost' = lost /\ ingest' = ingest
    BY <1>2, DropSBOMsValid DEF DeleteRetentionBatch, Valid, Schema
  <2> QED  BY <1>0, <1>b, <2>1 DEF Sound
<1>3. ASSUME NEW t, DeleteSBOM(t) PROVE Ingests'
  <2> DEFINE d == PruneScanJobs(db, {t})
  <2>1. /\ Valid(d) /\ \A c \in DOMAIN db \ {"job"} : d[c] = db[c]
    BY PruneScanJobsValid
  <2>2. d.source = db.source /\ d.links = db.links /\ d.ns = db.ns
    BY <2>1 DEF Valid, Schema
  <2> HIDE DEF d
  <2>3. db' = DropSBOMs(d, {t}) /\ lost' = lost /\ ingest' = ingest
    BY <1>3 DEF DeleteSBOM, d
  <2>4. /\ db'.links = db.links /\ db'.source = db.source /\ db'.ns = db.ns
    BY <2>1, <2>2, <2>3, DropSBOMsValid DEF Valid, Schema
  <2> QED  BY <1>0, <1>b, <2>3, <2>4 DEF Sound
<1>4. ASSUME NEW s, NEW q, ResolveIngest(s, q) PROVE Ingests'
  <2>1. Now \in Nat
    BY <1>4 DEF Now, Clock, ResolveIngest, Write
  <2>2. /\ ingest' = {[sbom |-> s, source |-> q, ns |-> db.source[q].ns, at |-> Now, step |-> "resolved", link |-> FALSE]}
    BY <1>4 DEF ResolveIngest
  <2> QED  BY <1>a, <2>1, <2>2 DEF Sound, Steps
<1>5. ASSUME NEW i \in ingest, WriteIngest(i) PROVE Ingests'
  <2> DEFINE b == <<Doc[i.sbom].artifact, i.ns>> \notin db.links
  <2>1. /\ ingest' = {[i EXCEPT !.step = "written", !.link = b]} /\ db' = db /\ lost' = lost
        /\ i.source \in DOMAIN db.source /\ i.ns \in db.ns
    BY <1>5 DEF WriteIngest
  <2>2. b \in BOOLEAN /\ (b = FALSE => <<Doc[i.sbom].artifact, i.ns>> \in db.links)
    OBVIOUS
  <2>3. DOMAIN i = {"sbom", "source", "ns", "at", "step", "link"} /\ i.at \in Nat
    BY <1>0 DEF Sound
  <2> HIDE DEF b
  <2>4. PICK j : j = [i EXCEPT !.step = "written", !.link = b]
    OBVIOUS
  <2>5. /\ DOMAIN j = DOMAIN i /\ j.at = i.at /\ j.link = b /\ j.step = "written"
        /\ j.source = i.source /\ j.ns = i.ns /\ j.sbom = i.sbom
    BY <2>3, <2>4
  <2>6. Sound(j, db, lost)
    BY <2>1, <2>2, <2>3, <2>5 DEF Sound, Steps
  <2> QED  BY <1>a, <2>1, <2>4, <2>6
<1>6. ASSUME NEW i \in ingest, CommitIngest(i) \/ FailIngest(i) PROVE Ingests'
  BY <1>6, <1>a DEF CommitIngest, FailIngest
<1>7. ASSUME NEW a, DeleteArtifact(a) PROVE Ingests'
  <2> DEFINE S == Q!SBOMsOf(db, a)
             p == PruneScanJobs(db, S)
             d == DropSBOMs(p, S)
  <2>1. /\ Valid(p) /\ p.source = db.source /\ p.links = db.links /\ p.ns = db.ns
    BY PruneScanJobsValid DEF Valid, Schema
  <2> HIDE DEF p
  <2>2. /\ Valid(d) /\ d.source = p.source /\ d.links = p.links /\ d.ns = p.ns
    BY <2>1, DropSBOMsValid DEF Valid, Schema
  <2>3. /\ db' = [d EXCEPT !.artifacts = @ \ {a}, !.links = {l \in @ : l[1] # a}, !.watch = {w \in @ : w[2] # a}]
        /\ lost' = lost /\ ingest' = ingest
        /\ \A i \in ingest : i.step = "written" => Doc[i.sbom].artifact # a
    BY <1>7 DEF DeleteArtifact, p
  <2> HIDE DEF d
  <2>4. db'.source = d.source /\ db'.ns = d.ns /\ db'.links = {l \in d.links : l[1] # a}
    BY <2>2, <2>3 DEF Valid, Schema
  <2>5. ASSUME NEW i \in ingest, i.step = "written"
        PROVE  /\ i.source \in DOMAIN db'.source /\ i.ns \in db'.ns
               /\ <<Doc[i.sbom].artifact, i.ns>> \in db.links \cup lost =>
                    <<Doc[i.sbom].artifact, i.ns>> \in db'.links \cup lost'
    BY <1>0, <2>1, <2>2, <2>3, <2>4, <2>5 DEF Sound
  <2> QED  BY <1>b, <2>3, <2>5
<1>8. ASSUME NEW n, DeleteNamespace(n) PROVE Ingests'
  <2>1. /\ db'.links = {l \in db.links : l[2] # n} /\ lost' = lost /\ ingest' = ingest
        /\ db'.ns = db.ns \ {n} /\ DOMAIN db'.source = {q \in DOMAIN db.source : db.source[q].ns # n}
    BY <1>8, DropNamespaceValid DEF DeleteNamespace
  <2>2. \A i \in ingest : i.step = "written" =>
          i.ns # n /\ \A q \in DOMAIN db.source : db.source[q].ns = n => i.source # q
    BY <1>8 DEF DeleteNamespace, Locked
  <2>3. ASSUME NEW i \in ingest, i.step = "written"
        PROVE  /\ i.source \in DOMAIN db'.source /\ i.ns \in db'.ns
               /\ <<Doc[i.sbom].artifact, i.ns>> \in db.links \cup lost =>
                    <<Doc[i.sbom].artifact, i.ns>> \in db'.links \cup lost'
    BY <1>0, <2>1, <2>2, <2>3 DEF Sound
  <2> QED  BY <1>b, <2>1, <2>3
<1>9. ASSUME NEW q, DeleteSource(q) \/ DeleteCluster(q) PROVE Ingests'
  <2>1. /\ db' = DropSources(db, {q}) /\ lost' = lost /\ ingest' = ingest
        /\ \A i \in ingest : i.step = "written" => i.source # q
    BY <1>9 DEF DeleteSource, DeleteCluster, Locked, Unmoved
  <2>2. DOMAIN db'.source = DOMAIN db.source \ {q} /\ db'.links = db.links /\ db'.ns = db.ns
    BY <2>1, DropSourcesValid
  <2> QED  BY <1>0, <1>b, <2>1, <2>2 DEF Sound
<1>10. ASSUME NEW q, NEW n, MoveNamespace(q, n) PROVE Ingests'
  <2> DEFINE old == db.source[q].ns
             moved == {s \in Q!SBOMs(db) : db.sbom[s].source = q}
             sbom == [s \in Q!SBOMs(db) |-> IF s \in moved THEN [db.sbom[s] EXCEPT !.ns = n] ELSE db.sbom[s]]
             artifacts == {Doc[s].artifact : s \in moved}
             emptied == {<<a, old>> : a \in {a \in artifacts : ~\E s \in Q!SBOMs(db) :
                                                Doc[s].artifact = a /\ sbom[s].ns = old}}
             open == {<<Doc[i.sbom].artifact, i.ns>> : i \in {i \in ingest : i.step = "written"}}
  <2>1. /\ db' = [db EXCEPT !.source[q].ns = n, !.sbom = sbom,
                            !.links = (@ \cup (artifacts \X {n})) \ emptied]
        /\ lost' = lost \cup (emptied \cap open \cap db.links) /\ ingest' = ingest
    BY <1>10 DEF MoveNamespace
  <2>2. \A i \in ingest : i.step = "written" => <<Doc[i.sbom].artifact, i.ns>> \in open
    OBVIOUS
  <2> HIDE DEF sbom, emptied, open, artifacts
  <2>3. /\ DOMAIN db'.source = DOMAIN db.source /\ db'.ns = db.ns
        /\ db'.links = (db.links \cup (artifacts \X {n})) \ emptied
    BY <2>1 DEF Valid, Schema
  <2>4. ASSUME NEW i \in ingest, i.step = "written"
        PROVE  /\ i.source \in DOMAIN db'.source /\ i.ns \in db'.ns
               /\ <<Doc[i.sbom].artifact, i.ns>> \in db.links \cup lost =>
                    <<Doc[i.sbom].artifact, i.ns>> \in db'.links \cup lost'
    BY <1>0, <2>1, <2>2, <2>3, <2>4 DEF Sound
  <2> QED  BY <1>b, <2>1, <2>4
<1>11. ASSUME NEW j, ScanSucceeds(j) PROVE Ingests'
  <2> DEFINE d == [db EXCEPT !.job[j].state = "succeeded"]
  <2>1. lost' = lost /\ ingest' = ingest
    BY <1>11 DEF ScanSucceeds
  <2>2. DOMAIN d = DOMAIN db /\ d.source = db.source /\ d.links = db.links /\ d.ns = db.ns
    BY DEF Valid, Schema
  <2>3. \E X, Y, Z : \/ db' = d
                     \/ db' = [d EXCEPT !.sbom = X, !.artifacts = Y, !.links = @ \cup Z]
    BY <1>11 DEF ScanSucceeds
  <2> HIDE DEF d
  <2>4. db'.source = db.source /\ db'.ns = db.ns /\ db.links \subseteq db'.links
    BY <2>2, <2>3 DEF Valid, Schema
  <2> QED  BY <1>0, <1>b, <2>1, <2>4 DEF Sound
<1> QED  BY <1>1, <1>2, <1>3, <1>4, <1>5, <1>6, <1>7, <1>8, <1>9, <1>10, <1>11, StepKinds

-----------------------------------------------------------------------------
(***************************************************************************)
(* The refresher                                                           *)
(***************************************************************************)
LEMMA WatermarkIsMark ==
    ASSUME Valid(db)
    PROVE  ReadRollupWatermark(db) \in Marks
<1>1. Cardinality(Q!SBOMs(db)) \in Nat
  BY FS_CardinalityType DEF Valid, Schema
<1>2. Q!Max({0} \cup {db.sbom[s].at : s \in Q!SBOMs(db)}) \in Nat
  BY NextCreated
<1> QED  BY <1>1, <1>2 DEF ReadRollupWatermark, Marks

LEMMA ReplicasStep ==
    ASSUME Valid(db), Replicas, [Next]_vars
    PROVE  Replicas'
<1> DEFINE State == [step : {"idle", "due", "pass"}, age : {"never", "recent", "gap", "interval"},
                     seen : Marks, last : Marks]
           At(r) == replica[r].step = "pass"
<1>0. NoMark \in Marks
  BY DEF Marks
<1>1. CASE UNCHANGED <<replica, built>>
  BY <1>1 DEF Replicas
<1>2. ASSUME NEW r \in Replica, Refresher(r) PROVE Replicas'
  <2>1. PICK x \in State : x = replica[r]
    BY DEF Replicas
  <2>2. ASSUME NEW y \in State, replica' = [replica EXCEPT ![r] = y],
               y.step = "pass" => \A p \in Replica \ {r} : replica[p].step # "pass",
               \E S : built' \in Seq(S),
               built' # <<>> => \E p \in Replica : replica'[p].step = "pass"
        PROVE  Replicas'
    <3>1. replica' \in [Replica -> State]
      BY <2>2 DEF Replicas
    <3>2. \A p, q \in Replica : replica'[p].step = "pass" /\ replica'[q].step = "pass" => p = q
      BY <2>2 DEF Replicas
    <3> QED  BY <2>2, <3>1, <3>2 DEF Replicas
  <2>3. ASSUME NEW mark \in Marks, Tick(r, mark) PROVE Replicas'
    <3> DEFINE y == [x EXCEPT !.step = "due", !.seen = mark]
    <3>1. replica' = [replica EXCEPT ![r] = y] /\ replica[r].step = "idle" /\ built' = built
      BY <2>1, <2>3 DEF Tick
    <3>2. y \in State /\ y.step = "due"
      BY <2>3
    <3> HIDE DEF y
    <3>3. \A p \in Replica : replica[p].step = "pass" => replica'[p].step = "pass"
      BY <3>1 DEF Replicas
    <3> QED  BY <2>2, <3>1, <3>2, <3>3 DEF Replicas
  <2>4. CASE ReadAndTick(r) \/ BlindTick(r)
    BY <1>0, <2>3, <2>4, WatermarkIsMark DEF ReadAndTick, BlindTick
  <2>5. recordPass(r) \in State /\ recordPass(r).step = "idle"
    <3>1. x.seen \in Marks /\ x.last \in Marks
      OBVIOUS
    <3> QED  BY <1>0, <2>1, <3>1 DEF recordPass
  <2>6. CASE TryLockRollupRefresh(r)
    <3>1. CASE replica' = [replica EXCEPT ![r] = recordPass(r)]
      <4>1. replica[r].step = "due" /\ built' = built
        BY <2>6 DEF TryLockRollupRefresh
      <4> DEFINE y == recordPass(r)
      <4> HIDE DEF y
      <4>2. replica' = [replica EXCEPT ![r] = y] /\ y \in State /\ y.step = "idle"
        BY <2>5, <3>1 DEF y
      <4>3. \A p \in Replica : replica[p].step = "pass" => replica'[p].step = "pass"
        BY <4>1, <4>2 DEF Replicas
      <4> QED  BY <2>2, <4>1, <4>2, <4>3 DEF Replicas
    <3>2. CASE replica' = [replica EXCEPT ![r].step = "pass"] /\ ~\E p \in Replica : replica[p].step = "pass"
      <4> DEFINE y == [x EXCEPT !.step = "pass"]
      <4>1. replica' = [replica EXCEPT ![r] = y] /\ y \in State /\ y.step = "pass" /\ built' = built
        BY <2>1, <2>6, <3>2 DEF TryLockRollupRefresh
      <4> HIDE DEF y
      <4>2. replica'[r].step = "pass"
        BY <4>1 DEF Replicas
      <4> QED  BY <2>2, <3>2, <4>1, <4>2 DEF Replicas
    <3> QED  BY <2>6, <3>1, <3>2 DEF TryLockRollupRefresh
  <2>7. CASE BuildRollupSnapshots(r)
    <3> DEFINE row == Q!Aggregate(db, TableOrder[Len(built) + 1])
    <3>1. built' = Append(built, row) /\ replica' = replica /\ replica[r].step = "pass"
      BY <2>7 DEF BuildRollupSnapshots
    <3> HIDE DEF row
    <3>2. PICK S : built \in Seq(S)
      BY DEF Replicas
    <3>3. built \in Seq(S \cup {row})
      BY <3>2
    <3>4. Append(built, row) \in Seq(S \cup {row})
      BY <3>3
    <3> QED  BY <3>1, <3>4 DEF Replicas
  <2>8. CASE SwapRollupSnapshots(r)
    <3>1. PICK y \in State : y.step = "idle" /\ replica' = [replica EXCEPT ![r] = y]
      <4> DEFINE z == [x EXCEPT !.step = "idle", !.seen = NoMark]
      <4>1. z \in State /\ z.step = "idle"
        BY <1>0
      <4>2. [replica EXCEPT ![r].step = "idle", ![r].seen = NoMark] = [replica EXCEPT ![r] = z]
        BY <2>1 DEF Replicas
      <4> HIDE DEF z
      <4> QED  BY <2>5, <2>8, <4>1, <4>2 DEF SwapRollupSnapshots
    <3>2. built' = <<>> /\ <<>> \in Seq({})
      BY <2>8 DEF SwapRollupSnapshots
    <3> QED  BY <2>2, <3>1, <3>2
  <2>9. CASE PassFails(r) \/ Restart(r)
    <3>1. PICK y \in State : y.step = "idle" /\ replica' = [replica EXCEPT ![r] = y]
      <4> DEFINE z == [x EXCEPT !.step = "idle", !.seen = NoMark]
      <4>1. z \in State /\ z.step = "idle" /\ Idle \in State /\ Idle.step = "idle"
        BY <1>0 DEF Idle
      <4>2. [replica EXCEPT ![r].step = "idle", ![r].seen = NoMark] = [replica EXCEPT ![r] = z]
        BY <2>1 DEF Replicas
      <4> HIDE DEF z
      <4> QED  BY <2>9, <4>1, <4>2 DEF PassFails, Restart
    <3>2. built' = IF replica[r].step = "pass" THEN <<>> ELSE built
      BY <2>9 DEF PassFails, Restart
    <3>3. CASE replica[r].step = "pass"
      <4>1. built' = <<>> /\ <<>> \in Seq({})
        BY <3>2, <3>3
      <4> QED  BY <2>2, <3>1, <4>1
    <3>4. CASE replica[r].step # "pass"
      <4>1. \A p \in Replica : replica[p].step = "pass" => replica'[p].step = "pass"
        BY <3>1, <3>4 DEF Replicas
      <4> QED  BY <2>2, <3>1, <3>2, <3>4, <4>1 DEF Replicas
    <3> QED  BY <3>3, <3>4
  <2>10. CASE Age(r)
    <3>1. PICK y \in State : y.step = "idle" /\ replica' = [replica EXCEPT ![r] = y]
      <4> DEFINE a == IF replica[r].age = "recent" THEN "gap" ELSE "interval"
                 z == [x EXCEPT !.age = a]
      <4>1. replica[r].step = "idle" /\ replica' = [replica EXCEPT ![r].age = a]
        BY <2>10 DEF Age
      <4>2. a \in {"gap", "interval"}
        OBVIOUS
      <4> HIDE DEF a
      <4>3. z \in State /\ z.step = "idle" /\ replica' = [replica EXCEPT ![r] = z]
        BY <2>1, <4>1, <4>2
      <4> HIDE DEF z
      <4> QED  BY <4>3
    <3>2. replica[r].step = "idle" /\ built' = built
      BY <2>10 DEF Age
    <3>3. \A p \in Replica : replica[p].step = "pass" => replica'[p].step = "pass"
      BY <3>1, <3>2 DEF Replicas
    <3> QED  BY <2>2, <3>1, <3>2, <3>3 DEF Replicas
  <2> QED  BY <1>2, <2>4, <2>6, <2>7, <2>8, <2>9, <2>10 DEF Refresher, Pass
<1>3. ASSUME ~\E r \in Replica : Refresher(r) PROVE UNCHANGED <<replica, built>>
  <2>1. CASE UNCHANGED vars
    BY <2>1, SMTT(60) DEF vars, catalogueVars
  <2>2. CASE API
    BY <2>2, ZenonT(60) DEF API, Jobs, DeleteSBOM, Report, ResolveIngest, WriteIngest, CommitIngest, FailIngest, DeleteArtifact,
                DeleteNamespace, UpdateNamespace, DeleteSource, MoveNamespace, ReplaceWindow, SetMember, Watch,
                Unwatch, FeedChange, DayPasses
  <2>3. CASE Sweeper
    BY <2>3 DEF Sweeper, ListBatch, DeleteRetentionBatch, SweepFails
  <2>4. ASSUME NEW i, Serve(i) \/ LosePush(i) PROVE UNCHANGED <<replica, built>>
    BY <2>4 DEF Serve, Unmoved, Jobs, Stamp, ReplaceInventory, NotFound, Resolve, DropFailedJobs, Submit, LosePush
  <2>5. ASSUME NEW k, Agent(k) \/ DeleteCluster(k) \/ UpdateCluster(k) PROVE UNCHANGED <<replica, built>>
    BY <2>5 DEF Unmoved, Jobs, Agent, Send, DeleteCluster, UpdateCluster
  <2>6. ASSUME NEW k, NEW n, CreateCluster(k, n) PROVE UNCHANGED <<replica, built>>
    BY <2>6 DEF Unmoved, Jobs, CreateCluster
  <2>7. ASSUME NEW k, NEW P, PodsChange(k, P) PROVE UNCHANGED <<replica, built>>
    BY <2>7 DEF Unmoved, Jobs, PodsChange
  <2>8. ASSUME NEW k, NEW i, NEW d, IngestUnknown(k, i, {d}) PROVE UNCHANGED <<replica, built>>
    BY <2>8 DEF Unmoved, Jobs, IngestUnknown
  <2>9. ASSUME NEW q, EnableRegistry(q) PROVE UNCHANGED <<replica, built>>
    BY <2>9 DEF Unmoved, Jobs, EnableRegistry
  <2>10. ASSUME NEW j, ScanSucceeds(j) \/ ScanFails(j) PROVE UNCHANGED <<replica, built>>
    BY <2>10 DEF Unmoved, Jobs, ScanSucceeds, ScanFails
  <2>11. CASE CatalogueNext
    BY <1>3, <2>2, <2>3, <2>11 DEF CatalogueNext
  <2> QED  BY <2>1, <2>4, <2>5, <2>6, <2>7, <2>8, <2>9, <2>10, <2>11 DEF Next
<1> QED  BY <1>1, <1>2, <1>3

-----------------------------------------------------------------------------
(***************************************************************************)
(* The invariant                                                           *)
(***************************************************************************)
(* The clock advances with the writes.                                      *)
Counted == UNCHANGED budget \/ Fault \/ \E kind : Write(kind)

LEMMA ClockStep ==
    ASSUME Clock, End \in Nat, [Next]_vars
    PROVE  Clock'
<1>1. Counted => Clock'
  BY DEF Clock, Fault, Write, Counted
<1>2. CASE UNCHANGED vars
  BY <1>1, <1>2, SMTT(60) DEF vars, catalogueVars, Counted
<1>3. CASE API
  BY <1>1, <1>3, ZenonT(60) DEF API, Jobs, DeleteSBOM, Report, ResolveIngest, WriteIngest, CommitIngest, FailIngest, DeleteArtifact,
              DeleteNamespace, UpdateNamespace, DeleteSource, MoveNamespace, ReplaceWindow, SetMember, Watch,
              Unwatch, FeedChange, DayPasses, Counted
<1>4. CASE Sweeper
  BY <1>1, <1>4 DEF Sweeper, ListBatch, DeleteRetentionBatch, SweepFails, Counted
<1>5. ASSUME NEW r, Refresher(r) PROVE Counted
  BY <1>5, SMTT(60) DEF Refresher, ReadAndTick, BlindTick, Pass, TryLockRollupRefresh, BuildRollupSnapshots,
              SwapRollupSnapshots, PassFails, Restart, Age, Counted
<1>6. ASSUME NEW i, Serve(i) \/ LosePush(i) PROVE Counted
  <2>1. ASSUME NEW img, NEW P, SubmitForRunningImage(i, img, P) PROVE Counted
    BY <2>1 DEF SubmitForRunningImage, Counted
  <2>2. ASSUME NEW img, RecordRefusal(i, img) PROVE Counted
    BY <2>2 DEF RecordRefusal, Counted
  <2>3. Submit(i) => Counted
    BY <2>1, <2>2 DEF Submit
  <2> QED  BY <1>6, <2>3 DEF Serve, Stamp, ReplaceInventory, NotFound, Resolve, DropFailedJobs, LosePush, Counted
<1>7. ASSUME NEW k, Agent(k) \/ DeleteCluster(k) \/ UpdateCluster(k) PROVE Counted
  BY <1>7 DEF Agent, Send, DeleteCluster, UpdateCluster, Counted
<1>8. ASSUME NEW k, NEW n, CreateCluster(k, n) PROVE Counted
  BY <1>8 DEF CreateCluster, Counted
<1>9. ASSUME NEW k, NEW P, PodsChange(k, P) PROVE Counted
  BY <1>9 DEF PodsChange, Counted
<1>10. ASSUME NEW k, NEW i, NEW d, IngestUnknown(k, i, {d}) PROVE Counted
  BY <1>10 DEF IngestUnknown, Counted
<1>11. ASSUME NEW q, EnableRegistry(q) PROVE Counted
  BY <1>11 DEF EnableRegistry, Counted
<1>12. ASSUME NEW j, ScanSucceeds(j) \/ ScanFails(j) PROVE Counted
  BY <1>12 DEF ScanSucceeds, ScanFails, Counted
<1>13. CASE CatalogueNext
  BY <1>1, <1>3, <1>4, <1>5, <1>13 DEF CatalogueNext
<1> QED  BY <1>1, <1>2, <1>6, <1>7, <1>8, <1>9, <1>10, <1>11, <1>12, <1>13 DEF Next

LEMMA InvInit == Init => IInv
<1> SUFFICES ASSUME NEW sc \in Scenario, Start(sc) PROVE IInv
  BY DEF Init
<1>1. /\ End \in Nat /\ sc.writes \in 0 .. End
      /\ Schema(sc.db) /\ ForeignKeys(sc.db) /\ LinkedBut(sc.db, {})
      /\ \A s \in Q!SBOMs(sc.db) : sc.db.sbom[s].at <= End
  BY ScenarioAssumption
<1>2. db = sc.db /\ ingest = {} /\ lost = {} /\ built = <<>> /\ replica = [r \in Replica |-> Idle]
  BY DEF Start
<1>3. Valid(db) /\ LinksFollowSBOMs
  BY <1>1, <1>2 DEF Valid, Bounded, LinksFollowSBOMs, LinkedBut
<1>4. Ingests
  BY <1>2 DEF Ingests
<1>5. Replicas
  <2>1. NoMark \in Marks
    BY DEF Marks
  <2>2. built \in Seq({})
    BY <1>2
  <2> QED  BY <1>2, <2>1, <2>2 DEF Replicas, Idle
<1>6. Clock
  BY <1>1 DEF Clock, Start
<1> QED  BY <1>3, <1>4, <1>5, <1>6 DEF IInv

LEMMA InvStep == IInv /\ [Next]_vars => IInv'
<1> SUFFICES ASSUME IInv, [Next]_vars PROVE IInv'
  OBVIOUS
<1>1. Valid(db) /\ LinksFollowSBOMs /\ Ingests /\ Replicas /\ Clock
  BY DEF IInv
<1>2. End \in Nat
  BY ScenarioAssumption
<1>3. Valid(db)'
  BY <1>1, ValidStep
<1>4. LinksFollowSBOMs'
  BY <1>1, LinksStep
<1>5. Ingests'
  BY <1>1, <1>2, IngestsStep
<1>6. Replicas'
  BY <1>1, ReplicasStep
<1>7. Clock'
  BY <1>1, <1>2, ClockStep
<1> QED  BY <1>3, <1>4, <1>5, <1>6, <1>7 DEF IInv

LEMMA Invariance == Spec => []IInv
  BY InvInit, InvStep, PTL DEF Spec

-----------------------------------------------------------------------------
(***************************************************************************)
(* The theorems                                                            *)
(***************************************************************************)
(* After any cascade of a delete, any late ingest, move, push or swap of    *)
(* old snapshots every table holds only keys of the tables it references,  *)
(* and the temporary tables belong to the one replica that holds the lock. *)
THEOREM TypeCorrect == Spec => []TypeOK
<1>1. IInv => TypeOK
  <2> SUFFICES ASSUME IInv PROVE TypeOK
    OBVIOUS
  <2>1. ForeignKeys(db) /\ Ingests /\ Replicas
    BY DEF IInv, Valid
  <2>2. Cardinality({r \in Replica : replica[r].step = "pass"}) <= 1
    <3> DEFINE P == {r \in Replica : replica[r].step = "pass"}
    <3>1. CASE P = {}
      BY <3>1, FS_EmptySet
    <3>2. CASE P # {}
      <4>0. PICK p \in P : TRUE
        BY <3>2
      <4>1. P = {p}
        BY <2>1, <4>0 DEF Replicas
      <4>2. Cardinality({p}) = 1
        BY FS_Singleton
      <4> QED  BY <4>1, <4>2
    <3> QED  BY <3>1, <3>2
  <2>3. \A r \in Replica : replica[r].seen \in Marks /\ replica[r].last \in Marks
    BY <2>1 DEF Replicas
  <2>4. \A i \in ingest : i.step \in Steps
    BY <2>1 DEF Ingests
  <2> QED  BY <2>1, <2>2, <2>3, <2>4 DEF TypeOK, Replicas
<1> QED  BY <1>1, Invariance, PTL

(* An artifact is linked to every namespace that holds one of its SBOMs,   *)
(* but for the links a move took from under an ingest that relied on them.  *)
THEOREM LinksComplete == Spec => []LinksFollowSBOMs
<1>1. IInv => LinksFollowSBOMs
  BY DEF IInv
<1> QED  BY <1>1, Invariance, PTL

-----------------------------------------------------------------------------
(***************************************************************************)
(* The sweeper                                                             *)
(***************************************************************************)
LEMMA IngestedIsCreated ==
    ASSUME NEW d, Valid(d), NEW s \in Q!SBOMs(d)
    PROVE  /\ Ingested(d, Q!SBOMs(d), s) \in Nat
           /\ d.sbom[s].at <= Ingested(d, Q!SBOMs(d), s)
           /\ \E x \in InSeries(d, Q!SBOMs(d), s) : Ingested(d, Q!SBOMs(d), s) = d.sbom[x].at
<1> DEFINE V == {t \in InSeries(d, Q!SBOMs(d), s) : Version(t) = Version(s)}
           T == {d.sbom[t].at : t \in V}
<1>1. V \subseteq Q!SBOMs(d) /\ V \subseteq InSeries(d, Q!SBOMs(d), s) /\ s \in V
  BY DEF InSeries
<1>2. PICK b \in Nat : \A t \in Q!SBOMs(d) : d.sbom[t].at <= b
  BY DEF Valid, Bounded
<1>3. T \subseteq Nat /\ \A x \in T : x <= b
  BY <1>1, <1>2 DEF Valid, Schema
<1>4. d.sbom[s].at \in T
  BY <1>1
<1>5. \A x \in T : \E t \in V : x = d.sbom[t].at
  OBVIOUS
<1>6. Ingested(d, Q!SBOMs(d), s) = Q!Max(T)
  BY DEF Ingested
<1> HIDE DEF T, V
<1>7. Q!Max(T) \in T /\ \A x \in T : x <= Q!Max(T)
  BY <1>3, <1>4, MaxNat
<1> QED  BY <1>1, <1>3, <1>4, <1>5, <1>6, <1>7

(* A series whose version s is not the newest has one that is.             *)
LEMMA NewerIsNewest ==
    ASSUME NEW d, Valid(d), NEW s \in Q!SBOMs(d), ~Newest(d, s)
    PROVE  \E t \in Q!SBOMs(d) : Newest(d, t) /\ Series(d, t) = Series(d, s) /\ d.sbom[s].at < d.sbom[t].at
<1> DEFINE all == Q!SBOMs(d)
           S == InSeries(d, all, s)
<1>1. S \subseteq all /\ s \in S /\ \A u \in S : InSeries(d, all, u) = S /\ Series(d, u) = Series(d, s)
  BY DEF InSeries
<1> HIDE DEF S
<1>2. \A u \in S : /\ Ingested(d, all, u) \in Nat /\ d.sbom[u].at <= Ingested(d, all, u)
                   /\ \E x \in S : Ingested(d, all, u) = d.sbom[x].at
  BY <1>1, IngestedIsCreated
<1>3. PICK t \in S : \A u \in S : d.sbom[u].at <= d.sbom[t].at
  BY <1>1, LastCreated
<1>4. \A u \in S : d.sbom[u].at \in Nat
  BY <1>1 DEF Valid, Schema
<1>5. \A u \in S : Ingested(d, all, u) <= d.sbom[t].at
  BY <1>2, <1>3
<1>6. \A u \in S : Ingested(d, all, u) <= Ingested(d, all, t)
  BY <1>2, <1>3, <1>4, <1>5
<1>7. Newest(d, t)
  BY <1>1, <1>6 DEF Newest
<1>8. PICK u \in S : ~(Ingested(d, all, u) <= Ingested(d, all, s))
  BY <1>1 DEF Newest
<1>9. d.sbom[s].at < d.sbom[t].at
  BY <1>1, <1>2, <1>4, <1>5, <1>8
<1> QED  BY <1>1, <1>7, <1>9

LEMMA SweepSteps ==
    ASSUME [Next]_vars
    PROVE  sweep' = sweep \/ ListBatch \/ DeleteRetentionBatch \/ SweepFails
<1> SUFFICES ASSUME ~Sweeper PROVE sweep' = sweep
  BY DEF Sweeper
<1>1. CASE UNCHANGED vars
  BY <1>1, SMTT(60) DEF vars, catalogueVars
<1>2. CASE API
  BY <1>2, ZenonT(60) DEF API, Jobs, DeleteSBOM, Report, ResolveIngest, WriteIngest, CommitIngest, FailIngest, DeleteArtifact,
              DeleteNamespace, UpdateNamespace, DeleteSource, MoveNamespace, ReplaceWindow, SetMember, Watch,
              Unwatch, FeedChange, DayPasses
<1>3. ASSUME NEW r, Refresher(r) PROVE sweep' = sweep
  BY <1>3 DEF Refresher, ReadAndTick, BlindTick, Tick, Pass, TryLockRollupRefresh, BuildRollupSnapshots,
              SwapRollupSnapshots, PassFails, Restart, Age
<1>4. ASSUME NEW i, Serve(i) \/ LosePush(i) PROVE sweep' = sweep
  BY <1>4 DEF Serve, Unmoved, Jobs, Stamp, ReplaceInventory, NotFound, Resolve, DropFailedJobs, Submit, LosePush
<1>5. ASSUME NEW k, Agent(k) \/ DeleteCluster(k) \/ UpdateCluster(k) PROVE sweep' = sweep
  BY <1>5 DEF Unmoved, Jobs, Agent, Send, DeleteCluster, UpdateCluster
<1>6. ASSUME NEW k, NEW n, CreateCluster(k, n) PROVE sweep' = sweep
  BY <1>6 DEF Unmoved, Jobs, CreateCluster
<1>7. ASSUME NEW k, NEW P, PodsChange(k, P) PROVE sweep' = sweep
  BY <1>7 DEF Unmoved, Jobs, PodsChange
<1>8. ASSUME NEW k, NEW i, NEW d, IngestUnknown(k, i, {d}) PROVE sweep' = sweep
  BY <1>8 DEF Unmoved, Jobs, IngestUnknown
<1>9. ASSUME NEW q, EnableRegistry(q) PROVE sweep' = sweep
  BY <1>9 DEF Unmoved, Jobs, EnableRegistry
<1>10. ASSUME NEW j, ScanSucceeds(j) \/ ScanFails(j) PROVE sweep' = sweep
  BY <1>10 DEF Unmoved, Jobs, ScanSucceeds, ScanFails
<1>11. CASE CatalogueNext
  BY <1>2, <1>3, <1>11 DEF CatalogueNext
<1> QED  BY <1>1, <1>4, <1>5, <1>6, <1>7, <1>8, <1>9, <1>10, <1>11 DEF Next

(* A sweep never takes the newest version of a series as it is when the    *)
(* batch is deleted, nor an image that runs by then, is being enriched or  *)
(* is less than a day old, whatever was written since the batch was listed. *)
THEOREM NewestKept == Spec => SeriesKept
<1> DEFINE Spared ==
      sweep.ids # {} /\ sweep' # sweep =>
        \A s \in Q!SBOMs(db) \ Q!SBOMs(db') :
          /\ s \notin busy \cup young /\ ~IsRunning(db, s)
          /\ \E t \in Q!SBOMs(db') : Series(db, t) = Series(db, s) /\ db.sbom[s].at < db.sbom[t].at
<1>1. ASSUME IInv, [Next]_vars PROVE Spared
  <2>1. SUFFICES ASSUME sweep.ids # {}, sweep' # sweep, NEW s \in Q!SBOMs(db) \ Q!SBOMs(db')
                 PROVE  /\ s \notin busy \cup young /\ ~IsRunning(db, s)
                        /\ \E t \in Q!SBOMs(db') : Series(db, t) = Series(db, s) /\ db.sbom[s].at < db.sbom[t].at
    OBVIOUS
  <2>2. CASE SweepFails
    BY <2>1, <2>2 DEF SweepFails
  <2>3. CASE DeleteRetentionBatch
    <3>1. Valid(db)
      BY <1>1 DEF IInv
    <3>2. Q!SBOMs(db') = Q!SBOMs(db) \ (sweep.ids \ Protected(db))
      BY <2>3, <3>1, DropSBOMsValid DEF DeleteRetentionBatch
    <3>3. s \in Q!SBOMs(db) /\ s \notin Protected(db)
      BY <2>1, <3>2
    <3>4. ~Newest(db, s) /\ ~IsRunning(db, s) /\ s \notin busy \cup young
      BY <3>3 DEF Protected
    <3>5. PICK t \in Q!SBOMs(db) : Newest(db, t) /\ Series(db, t) = Series(db, s) /\ db.sbom[s].at < db.sbom[t].at
      BY <3>1, <3>3, <3>4, NewerIsNewest
    <3>6. t \in Protected(db)
      BY <3>5 DEF Protected
    <3> QED  BY <3>2, <3>4, <3>5, <3>6
  <2> QED  BY <1>1, <2>1, <2>2, <2>3, SweepSteps DEF ListBatch
<1> QED  BY <1>1, Invariance, PTL DEF Spec, SeriesKept
=============================================================================
