-------------------------- MODULE AgreementProofs ---------------------------
(***************************************************************************)
(* Proofs that the pages that show one fact by different queries over      *)
(* different tables agree once the rollups are refreshed, for every        *)
(* database the writes reach.                                              *)
(***************************************************************************)
EXTENDS ReadProofs

-----------------------------------------------------------------------------
(***************************************************************************)
(* Counting                                                                *)
(***************************************************************************)
(* The queries count with the same Cardinality.                            *)
LEMMA CardinalitySame ==
    \A S : Q!Cardinality(S) = Cardinality(S) /\ H!S!Q!Cardinality(S) = Cardinality(S)
  BY Zenon DEF Q!Cardinality, H!S!Q!Cardinality, Cardinality

(* What a finite set is mapped to is finite, and as large as the set when  *)
(* nothing is mapped twice.                                                *)
LEMMA Image ==
    ASSUME NEW S, IsFiniteSet(S), NEW f
    PROVE  /\ IsFiniteSet({f[x] : x \in S})
           /\ (\A x, y \in S : f[x] = f[y] => x = y) => Cardinality({f[x] : x \in S}) = Cardinality(S)
<1> DEFINE T == {f[x] : x \in S}
           g == [x \in S |-> f[x]]
<1>1. g \in Surjection(S, T)
  BY DEF Surjection
<1>2. (\A x, y \in S : f[x] = f[y] => x = y) => g \in Injection(S, T)
  BY DEF Injection, IsInjective
<1> HIDE DEF T, g
<1> QED  BY <1>1, <1>2, FS_Surjection DEF T

(* A finite union of finite sets is finite.                                *)
LEMMA FiniteUnion ==
    ASSUME NEW S, IsFiniteSet(S), NEW f, \A x \in S : IsFiniteSet(f[x])
    PROVE  IsFiniteSet(UNION {f[x] : x \in S})
<1> DEFINE T == {f[x] : x \in S}
<1>1. IsFiniteSet(T)
  BY Image
<1>2. \A X \in T : IsFiniteSet(X)
  OBVIOUS
<1> HIDE DEF T
<1>3. IsFiniteSet(UNION T)
  BY <1>1, <1>2, FS_UNION
<1> QED  BY <1>3 DEF T

(* The community modules' sum of f over S.                                 *)
Summed(S, f) ==
    CHOOSE iter : iter = [s \in SUBSET S |-> IF s = {} THEN 0
                                             ELSE f[CHOOSE x \in s : TRUE] + iter[s \ {CHOOSE x \in s : TRUE}]]

(* It is g of S, if g grows by f of each element.                          *)
LEMMA SumIs ==
    ASSUME NEW S, IsFiniteSet(S), NEW f, NEW g, g[{}] = 0,
           \A s \in SUBSET S : \A x \in s : g[s] = f[x] + g[s \ {x}]
    PROVE  Summed(S, f)[S] = g[S]
<1> DEFINE pick(s) == CHOOSE x \in s : TRUE
           body(iter) == [s \in SUBSET S |-> IF s = {} THEN 0 ELSE f[pick(s)] + iter[s \ {pick(s)}]]
           it == Summed(S, f)
           g0 == [s \in SUBSET S |-> g[s]]
<1>1. \A s : s # {} => pick(s) \in s
  OBVIOUS
<1> HIDE DEF pick
<1>2. g0 = body(g0)
  <2>1. \A s \in SUBSET S : g0[s] = IF s = {} THEN 0 ELSE f[pick(s)] + g0[s \ {pick(s)}]
    <3> TAKE s \in SUBSET S
    <3>1. CASE s = {}
      BY <3>1
    <3>2. CASE s # {}
      <4>1. pick(s) \in s /\ s \ {pick(s)} \in SUBSET S
        BY <1>1, <3>2
      <4>2. g[s] = f[pick(s)] + g[s \ {pick(s)}]
        BY <4>1
      <4> QED  BY <3>2, <4>1, <4>2
    <3> QED  BY <3>1, <3>2
  <2> QED  BY <2>1
<1>3. it = body(it)
  <2>1. \E iter : iter = body(iter)
    BY <1>2
  <2> HIDE DEF body
  <2>2. it = CHOOSE iter : iter = body(iter)
    BY Zenon DEF Summed, body, pick
  <2> QED  BY <2>1, <2>2
<1> HIDE DEF it
<1> DEFINE B == {s \in SUBSET S : it[s] # g[s]}
<1>4. CASE B = {}
  BY <1>4 DEF it
<1>5. CASE B # {}
  <2>1. IsWellFoundedOn(StrictSubsetOrdering(S), SUBSET S)
    BY FS_StrictSubsetOrderingWellFounded, FS_FiniteSubsetsOfFinite
  <2>2. PICK s \in B : \A t \in B : ~(<<t, s>> \in StrictSubsetOrdering(S))
    BY <1>5, <2>1, WFMin, Zenon
  <2>3. s # {}
    <3>1. it[{}] = 0
      BY <1>3
    <3> QED  BY <3>1
  <2> DEFINE t == s \ {pick(s)}
  <2>4. t \in SUBSET S /\ t # s /\ t \subseteq s
    BY <1>1, <2>3
  <2>5. <<t, s>> \in StrictSubsetOrdering(S)
    BY <2>4 DEF StrictSubsetOrdering
  <2>6. it[t] = g[t]
    BY <2>2, <2>4, <2>5
  <2>7. it[s] = f[pick(s)] + it[t]
    BY <1>3, <2>3
  <2>8. g[s] = f[pick(s)] + g[t]
    BY <1>1, <2>3
  <2> QED  BY <2>2, <2>6, <2>7, <2>8
<1> QED  BY <1>4, <1>5

(* The rows of D count the elements of S that are theirs: together, S.     *)
Tagged(S, tag, x) == {s \in S : tag[s] = x}
Counts(S, D, tag, f) == (\A s \in S : tag[s] \in D) /\ \A x \in D : f[x] = Cardinality(Tagged(S, tag, x))

(* The counts of the rows sum up to the size of what they partition.       *)
LEMMA PartitionSum ==
    ASSUME NEW S, IsFiniteSet(S), NEW D, IsFiniteSet(D), NEW tag, NEW f, Counts(S, D, tag, f)
    PROVE  Summed(D, f)[D] = Cardinality(S)
<1> DEFINE of(T) == {s \in S : tag[s] \in T}
           g == [T \in SUBSET D |-> Cardinality(of(T))]
<1>1. \A T : IsFiniteSet(of(T)) /\ of(T) \subseteq S
  BY FS_Subset
<1>2. g[{}] = 0
  <2>1. of({}) = {}
    OBVIOUS
  <2> QED  BY <2>1, FS_EmptySet
<1>3. ASSUME NEW T \in SUBSET D, NEW x \in T PROVE g[T] = f[x] + g[T \ {x}]
  <2>1. /\ of({x}) = Tagged(S, tag, x)
        /\ of(T) = of({x}) \cup of(T \ {x}) /\ of({x}) \cap of(T \ {x}) = {}
    BY DEF Tagged
  <2> HIDE DEF of
  <2>1a. IsFiniteSet(of({x})) /\ IsFiniteSet(of(T \ {x}))
    BY <1>1
  <2>2. Cardinality(of(T)) = Cardinality(of({x})) + Cardinality(of(T \ {x})) - Cardinality({})
    <3>1. Cardinality(of({x}) \cup of(T \ {x})) =
             Cardinality(of({x})) + Cardinality(of(T \ {x})) - Cardinality(of({x}) \cap of(T \ {x}))
      BY <2>1a, FS_Union, Zenon
    <3> QED  BY <2>1, <3>1
  <2>3. Cardinality(of({x})) \in Nat /\ Cardinality(of(T \ {x})) \in Nat /\ Cardinality({}) = 0
    BY <1>1, FS_CardinalityType, FS_EmptySet
  <2>4. Cardinality(of(T)) = Cardinality(of({x})) + Cardinality(of(T \ {x}))
    BY <2>2, <2>3
  <2> QED  BY <2>1, <2>4 DEF Counts
<1>4. of(D) = S
  BY DEF Counts
<1> HIDE DEF of
<1>5. g[D] = Cardinality(S)
  BY <1>4
<1> HIDE DEF g
<1>6. \A s \in SUBSET D : \A x \in s : g[s] = f[x] + g[s \ {x}]
  BY <1>3
<1>7. Summed(D, f)[D] = g[D]
  BY <1>2, <1>6, SumIs, Zenon
<1> QED  BY <1>5, <1>7

-----------------------------------------------------------------------------
(***************************************************************************)
(* What the tables hold                                                    *)
(***************************************************************************)
Runs(P) == IsFiniteSet(P) /\ \A p \in P : IsFiniteSet(p.containers)
Reported(rows) == IsFiniteSet(rows) /\ \A w \in rows : "pods" \in DOMAIN w /\ w.pods \in Nat

(* Every SBOM has its document, every match its record and every workload  *)
(* its pods, and so will what is on its way.                               *)
Holding ==
    /\ Stored(db)
    /\ \A i \in ingest : i.sbom \in DOMAIN Doc
    /\ None \notin DOMAIN pods /\ \A k \in DOMAIN pods : Runs(pods[k])
    /\ DOMAIN request = Request
    /\ \A i \in Request : request[i].step \in {"sent", "open"} => Reported(request[i].rows)

(* Of those columns e holds nothing new.                                   *)
NothingNew(d, e) ==
    /\ Q!SBOMs(e) \subseteq Q!SBOMs(d) /\ e.artifacts \subseteq d.artifacts
    /\ e.match = d.match /\ e.workload \subseteq d.workload /\ e.ns \subseteq d.ns
    /\ DOMAIN e.source \subseteq DOMAIN d.source

(* A write that adds nothing leaves what is there with its records.        *)
LEMMA NothingNewStored ==
    ASSUME NEW d, NEW e, Stored(d), NothingNew(d, e)
    PROVE  Stored(e)
<1>1. IsFiniteSet(e.ns) /\ IsFiniteSet(e.workload)
  BY FS_Subset DEF Stored, NothingNew
<1> QED  BY <1>1 DEF Stored, NothingNew

(* The cascades take away.                                                 *)
LEMMA CascadesTake ==
    ASSUME NEW d, Valid(d), NEW S
    PROVE  NothingNew(d, DropSBOMs(d, S)) /\ NothingNew(d, DropSources(d, S))
<1>1. NothingNew(d, DropSBOMs(d, S))
  BY DropSBOMsValid DEF NothingNew, Valid, Schema
<1>2. NothingNew(d, DropSources(d, S))
  <2>1. DropSources(d, S).workload = {w \in d.workload : w.cluster \notin S}
    BY DEF DropSources, Valid, Schema
  <2> QED  BY <2>1, DropSourcesValid DEF NothingNew
<1> QED  BY <1>1, <1>2

(* The delete of a namespace, the cascades in it included, takes away.     *)
LEMMA NamespaceTakes ==
    ASSUME NEW d, Valid(d), NEW n
    PROVE  NothingNew(d, DropNamespace(d, n))
<1> DEFINE b == DropSBOMs(d, {s \in DOMAIN d.sbom : d.sbom[s].ns = n})
           e == DropSources(b, {q \in DOMAIN d.source : d.source[q].ns = n})
           f == DropNamespace(d, n)
<1>1. Valid(b) /\ NothingNew(d, b)
  BY DropSBOMsValid, CascadesTake
<1> HIDE DEF b
<1>2. Valid(e) /\ NothingNew(b, e)
  BY <1>1, DropSourcesValid, CascadesTake
<1>3. f = [e EXCEPT !.ns = @ \ {n}, !.public = @ \ {n},
                    !.members = {m \in @ : m[2] # n}, !.links = {l \in @ : l[2] # n},
                    !.rollup = [t \in Q!Tables |-> {r \in @[t] : r.ns # n}]]
  BY Zenon DEF DropNamespace, b
<1> HIDE DEF e, f
<1>4. f.sbom = e.sbom /\ f.artifacts = e.artifacts /\ f.match = e.match /\ f.workload = e.workload /\ f.ns \subseteq e.ns
      /\ f.source = e.source
  BY <1>2, <1>3 DEF Valid, Schema
<1> QED  BY <1>1, <1>2, <1>4 DEF f, NothingNew, Q!SBOMs

(* What the API writes without adding to those columns.                    *)
LEMMA WritesTake ==
    ASSUME Valid(db)
    PROVE  /\ \A s : DeleteSBOM(s) => NothingNew(db, db')
           /\ \A a : DeleteArtifact(a) => NothingNew(db, db')
           /\ \A n : DeleteNamespace(n) => NothingNew(db, db')
           /\ \A q : DeleteSource(q) \/ DeleteCluster(q) => NothingNew(db, db')
           /\ \A q, n : MoveNamespace(q, n) => NothingNew(db, db')
           /\ DeleteRetentionBatch => NothingNew(db, db')
<1>1. ASSUME NEW S PROVE NothingNew(db, DropSBOMs(PruneScanJobs(db, S), S))
  <2> DEFINE p == PruneScanJobs(db, S)
  <2>1. Valid(p) /\ \A c \in DOMAIN db \ {"job"} : p[c] = db[c]
    BY PruneScanJobsValid
  <2> HIDE DEF p
  <2>2. NothingNew(p, DropSBOMs(p, S))
    BY <2>1, CascadesTake
  <2> QED  BY <2>1, <2>2 DEF NothingNew, Valid, Schema, Q!SBOMs, p
<1>2. ASSUME NEW a, DeleteArtifact(a) PROVE NothingNew(db, db')
  <2> DEFINE d == DropSBOMs(PruneScanJobs(db, Q!SBOMsOf(db, a)), Q!SBOMsOf(db, a))
  <2>1. NothingNew(db, d) /\ Valid(d)
    BY <1>1, PruneScanJobsValid, DropSBOMsValid
  <2>2. db' = [d EXCEPT !.artifacts = @ \ {a}, !.links = {l \in @ : l[1] # a}, !.watch = {w \in @ : w[2] # a}]
    BY <1>2 DEF DeleteArtifact
  <2> HIDE DEF d
  <2> QED  BY <2>1, <2>2 DEF NothingNew, Valid, Schema, Q!SBOMs
<1>3. ASSUME NEW q, NEW n, MoveNamespace(q, n) PROVE NothingNew(db, db')
  <2> DEFINE old == db.source[q].ns
             moved == {s \in Q!SBOMs(db) : db.sbom[s].source = q}
             f == [s \in Q!SBOMs(db) |-> IF s \in moved THEN [db.sbom[s] EXCEPT !.ns = n] ELSE db.sbom[s]]
             taken == {Doc[s].artifact : s \in moved}
             emptied == {<<a, old>> : a \in {a \in taken : ~\E s \in Q!SBOMs(db) : Doc[s].artifact = a /\ f[s].ns = old}}
             L == (db.links \cup (taken \X {n})) \ emptied
  <2>1. db' = [db EXCEPT !.source[q].ns = n, !.sbom = f, !.links = L]
    BY <1>3 DEF MoveNamespace
  <2>2. DOMAIN f = Q!SBOMs(db)
    OBVIOUS
  <2> HIDE DEF f, L
  <2> QED  BY <2>1, <2>2 DEF NothingNew, Valid, Schema, Q!SBOMs
<1>4. ASSUME NEW q, DeleteSource(q) \/ DeleteCluster(q) PROVE NothingNew(db, db')
  BY <1>4, CascadesTake DEF DeleteSource, DeleteCluster
<1> QED  BY <1>1, <1>2, <1>3, <1>4, CascadesTake, NamespaceTakes DEF DeleteSBOM, DeleteNamespace, DeleteRetentionBatch

(* Nor what sets a flag, a member, a watch, a window, a job or the rollups. *)
LEMMA OtherWritesTake ==
    ASSUME Valid(db),
           \/ UNCHANGED db
           \/ \E n : UpdateNamespace(n)
           \/ \E u, n : SetMember(u, n)
           \/ \E u, a : Watch(u, a) \/ Unwatch(u, a)
           \/ \E q, S : ReplaceWindow(q, S)
           \/ \E q : EnableRegistry(q) \/ UpdateCluster(q)
           \/ \E j : ScanFails(j)
           \/ \E i : DropFailedJobs(i) \/ Submit(i)
           \/ \E r : SwapRollupSnapshots(r)
    PROVE  NothingNew(db, db')
<1> DEFINE Same(e) == e.sbom = db.sbom /\ e.artifacts = db.artifacts /\ e.match = db.match
                        /\ e.workload = db.workload /\ e.ns = db.ns /\ DOMAIN e.source = DOMAIN db.source
<1>1. Same(db') => NothingNew(db, db')
  BY DEF NothingNew, Q!SBOMs
<1>3. ASSUME NEW n, UpdateNamespace(n) PROVE Same(db')
  BY <1>3 DEF UpdateNamespace, Valid, Schema
<1>4. ASSUME NEW u, NEW n, SetMember(u, n) PROVE Same(db')
  BY <1>4 DEF SetMember, Valid, Schema
<1>5. ASSUME NEW u, NEW a, Watch(u, a) \/ Unwatch(u, a) PROVE Same(db')
  BY <1>5 DEF Watch, Unwatch, Valid, Schema
<1>6. ASSUME NEW q, NEW S, ReplaceWindow(q, S) PROVE Same(db')
  BY <1>6 DEF ReplaceWindow, Valid, Schema
<1>7. ASSUME NEW q, EnableRegistry(q) \/ UpdateCluster(q) PROVE Same(db')
  BY <1>7 DEF EnableRegistry, UpdateCluster, Valid, Schema
<1>9. ASSUME NEW j, ScanFails(j) PROVE Same(db')
  BY <1>9 DEF ScanFails, Valid, Schema
<1>10. ASSUME NEW i, DropFailedJobs(i) PROVE Same(db')
  BY <1>10 DEF DropFailedJobs, Valid, Schema
<1>11. ASSUME NEW i, NEW img, NEW P, SubmitForRunningImage(i, img, P) PROVE Same(db')
  <2>1. PICK x : db' = SubmitJobs(db, img.owner, P, x)
    BY <1>11 DEF SubmitForRunningImage
  <2> QED  BY <2>1 DEF SubmitJobs, Valid, Schema
<1>12. ASSUME NEW i, NEW img, RecordRefusal(i, img) PROVE Same(db')
  BY <1>12 DEF RecordRefusal, RecordRefusedScanJob, Valid, Schema
<1>13. ASSUME NEW i, Submit(i) PROVE Same(db')
  BY <1>13, <1>11, <1>12 DEF Submit
<1>14. ASSUME NEW r, SwapRollupSnapshots(r) PROVE Same(db')
  BY <1>14 DEF SwapRollupSnapshots, Valid, Schema
<1>15. UNCHANGED db => Same(db')
  OBVIOUS
<1> HIDE DEF Same
<1> QED  BY <1>1, <1>3, <1>4, <1>5, <1>6, <1>7, <1>9, <1>10, <1>13, <1>14, <1>15

(* A snapshot of finitely many pods is finite and counts them.             *)
LEMMA SnapshotReported ==
    ASSUME NEW P, Runs(P)
    PROVE  Reported(buildSnapshot(P))
<1> DEFINE shown(p) == {c \in p.containers : displayRef(c.image, c.spec) # NoValue}
           part(p) == {[pod |-> p, c |-> c] : c \in shown(p)}
           up == {p \in P : p.running}
           seen == UNION {part(p) : p \in up}
           key(x) == <<x.pod.ns, ownerOf(x.pod), x.c.name, normalizeImageID(x.c.id)>>
           of(i) == {x \in seen : key(x) = i}
           podsOf(i) == {x.pod : x \in of(i)}
           first(i) == (CHOOSE x \in of(i) : TRUE).c
           row(i) == [k8s |-> i[1], workload |-> i[2], container |-> i[3], digest |-> i[4],
                      ref |-> displayRef(first(i).image, first(i).spec), pods |-> Cardinality(podsOf(i))]
           keys == {key(x) : x \in seen}
<1>1. buildSnapshot(P) = {row(i) : i \in keys}
  BY Zenon DEF buildSnapshot
<1>2. IsFiniteSet(seen)
  <2>1. ASSUME NEW p \in up PROVE IsFiniteSet(part(p))
    <3> DEFINE f == [c \in shown(p) |-> [pod |-> p, c |-> c]]
    <3>1. IsFiniteSet(shown(p))
      BY FS_Subset DEF Runs
    <3>2. part(p) = {f[c] : c \in shown(p)}
      OBVIOUS
    <3> HIDE DEF f, part, shown
    <3> QED  BY <3>1, <3>2, Image
  <2>2. IsFiniteSet(up)
    BY FS_Subset DEF Runs
  <2> DEFINE f == [p \in up |-> part(p)]
  <2>3. \A p \in up : f[p] = part(p)
    OBVIOUS
  <2> HIDE DEF f, up, part
  <2>4. seen = UNION {f[p] : p \in up} /\ \A p \in up : IsFiniteSet(f[p])
    BY <2>1, <2>3
  <2> HIDE DEF seen
  <2> QED  BY <2>2, <2>4, FiniteUnion
<1> HIDE DEF seen
<1>3. IsFiniteSet(keys)
  <2> DEFINE f == [x \in seen |-> key(x)]
  <2>1. keys = {f[x] : x \in seen}
    OBVIOUS
  <2> HIDE DEF f, keys
  <2> QED  BY <1>2, <2>1, Image
<1>4. ASSUME NEW i PROVE Cardinality(podsOf(i)) \in Nat
  <2> DEFINE f == [x \in of(i) |-> x.pod]
  <2>1. IsFiniteSet(of(i))
    BY <1>2, FS_Subset
  <2>2. podsOf(i) = {f[x] : x \in of(i)}
    OBVIOUS
  <2> HIDE DEF f, of, podsOf
  <2> QED  BY <2>1, <2>2, Image, FS_CardinalityType
<1> HIDE DEF keys, podsOf, first
<1>5. \A i : "pods" \in DOMAIN row(i) /\ row(i).pods \in Nat
  BY <1>4
<1> HIDE DEF row
<1>6. IsFiniteSet({row(i) : i \in keys})
  <2> DEFINE f == [i \in keys |-> row(i)]
  <2>1. {row(i) : i \in keys} = {f[i] : i \in keys}
    OBVIOUS
  <2> HIDE DEF f
  <2> QED  BY <1>3, <2>1, Image
<1> QED  BY <1>1, <1>5, <1>6 DEF Reported

(* A row that is stamped again counts the same pods.                       *)
LEMMA RestampedStored ==
    ASSUME Valid(db), Stored(db), NEW i, Stamp(i)
    PROVE  Stored(db')
<1> DEFINE S == Stamps
           again(w) == [w EXCEPT !.last = RankIn(S, w.last)]
<1>1. db' = Ranked(db, S)
  BY DEF Stamp
<1> HIDE DEF S
<1>2. /\ db'.workload = {again(w) : w \in db.workload}
      /\ db'.sbom = db.sbom /\ db'.artifacts = db.artifacts /\ db'.match = db.match /\ db'.ns = db.ns
      /\ DOMAIN db'.source = DOMAIN db.source
  BY <1>1 DEF Ranked, Valid, Schema
<1>3. \A w : again(w).pods = w.pods
  OBVIOUS
<1> HIDE DEF again
<1>4. IsFiniteSet(db'.workload)
  <2> DEFINE f == [w \in db.workload |-> again(w)]
  <2>1. db'.workload = {f[w] : w \in db.workload}
    BY <1>2
  <2> HIDE DEF f
  <2> QED  BY <2>1, Image DEF Stored
<1> QED  BY <1>2, <1>3, <1>4 DEF Stored, Q!SBOMs

(* The rows of a push replace those of its cluster.                        *)
LEMMA ReplacedStored ==
    ASSUME Valid(db), Stored(db), NEW i, Reported(request[i].rows), ReplaceInventory(i)
    PROVE  Stored(db')
<1> DEFINE p == request[i]
           new(w) == UpsertAll(w, [cluster |-> p.cluster, last |-> p.at])
           old == {w \in db.workload : w.cluster = p.cluster =>
                      w.last >= p.at /\ WorkloadKey(w) \notin {WorkloadKey(x) : x \in p.rows}}
<1>1. /\ db'.workload = old \cup {new(w) : w \in p.rows}
      /\ db'.sbom = db.sbom /\ db'.artifacts = db.artifacts /\ db'.match = db.match /\ db'.ns = db.ns
      /\ DOMAIN db'.source = DOMAIN db.source
  BY DEF ReplaceInventory, UpsertAndPrune, Valid, Schema
<1>2. IsFiniteSet(old) /\ old \subseteq db.workload
  BY FS_Subset DEF Stored
<1>3. IsFiniteSet(p.rows) /\ \A w \in p.rows : "pods" \in DOMAIN w /\ w.pods \in Nat
  BY DEF Reported
<1>4. \A w \in p.rows : new(w).pods = w.pods
  BY <1>3 DEF UpsertAll
<1> DEFINE f == [w \in p.rows |-> new(w)]
           D == {f[w] : w \in p.rows}
<1>5. db'.workload = old \cup D /\ \A w \in D : w.pods \in Nat
  BY <1>1, <1>3, <1>4
<1>6. IsFiniteSet(D)
  BY <1>3, Image
<1> HIDE DEF f, D, old, new
<1>7. IsFiniteSet(db'.workload)
  BY <1>2, <1>5, <1>6, FS_Union
<1> QED  BY <1>1, <1>2, <1>5, <1>7 DEF Stored, Q!SBOMs

(* A new SBOM has its document.                                            *)
LEMMA AddedStored ==
    ASSUME Valid(db), Stored(db)
    PROVE  /\ \A i : CommitIngest(i) /\ i.sbom \in DOMAIN Doc => Stored(db')
           /\ \A j : ScanSucceeds(j) => Stored(db')
<1> DEFINE Adds(e, s) == /\ Q!SBOMs(e) \subseteq Q!SBOMs(db) \cup {s}
                         /\ e.artifacts \subseteq db.artifacts \cup {Doc[s].artifact}
                         /\ e.match = db.match /\ e.workload = db.workload /\ e.ns = db.ns
                         /\ DOMAIN e.source = DOMAIN db.source
<1>1. \A s \in DOMAIN Doc : Doc[s].artifact \in DOMAIN Artifact
  BY DocumentAssumption
<1>2. ASSUME NEW e, NEW s \in DOMAIN Doc, Adds(e, s) PROVE Stored(e)
  BY <1>1, <1>2 DEF Stored
<1>3. ASSUME NEW i, CommitIngest(i) PROVE Adds(db', i.sbom)
  <2>1. \A row : DOMAIN Upsert(db.sbom, i.sbom, row) = DOMAIN db.sbom \cup {i.sbom}
    BY DEF Upsert
  <2>2. PICK row, L : db' = [db EXCEPT !.sbom = Upsert(@, i.sbom, row),
                                        !.artifacts = @ \cup {Doc[i.sbom].artifact}, !.links = L]
    <3>1. PICK row : row = [ns |-> i.ns, source |-> i.source, at |-> i.at, index |-> None]
      OBVIOUS
    <3>2. PICK L : L = IF i.link THEN db.links \cup {<<Doc[i.sbom].artifact, i.ns>>} ELSE db.links
      OBVIOUS
    <3>3. db' = [db EXCEPT !.sbom = Upsert(@, i.sbom, row),
                           !.artifacts = @ \cup {Doc[i.sbom].artifact}, !.links = L]
      BY <1>3, <3>1, <3>2 DEF CommitIngest
    <3> QED  BY <3>3
  <2> QED  BY <2>1, <2>2 DEF Valid, Schema, Q!SBOMs
<1>4. ASSUME NEW j, ScanSucceeds(j) PROVE Adds(db', j[2]) /\ j[2] \in DOMAIN Doc
  <2> DEFINE s == j[2]
             row == [ns |-> db.source[j[1]].ns, source |-> j[1], index |-> db.job[j].index,
                     at |-> 1 + Q!Max({0} \cup {db.sbom[t].at : t \in Q!SBOMs(db)})]
             d == [db EXCEPT !.job[j].state = "succeeded"]
  <2>1. db' = IF s \in Q!SBOMs(db) THEN d
              ELSE [d EXCEPT !.sbom = Upsert(@, s, row), !.artifacts = @ \cup {Doc[s].artifact},
                             !.links = @ \cup {<<Doc[s].artifact, row.ns>>}]
    BY <1>4 DEF ScanSucceeds
  <2>2. /\ DOMAIN d = DOMAIN db
        /\ d.sbom = db.sbom /\ d.artifacts = db.artifacts /\ d.match = db.match /\ d.workload = db.workload /\ d.ns = db.ns
        /\ d.source = db.source
    BY DEF Valid, Schema
  <2>3. DOMAIN Upsert(db.sbom, s, row) = DOMAIN db.sbom \cup {s}
    BY DEF Upsert
  <2>4. s \in DOMAIN Doc
    BY <1>4 DEF ScanSucceeds
  <2> HIDE DEF d, row, s
  <2>5. ASSUME s \in Q!SBOMs(db) PROVE Adds(db', s)
    BY <2>1, <2>2, <2>5 DEF Q!SBOMs
  <2>6. ASSUME s \notin Q!SBOMs(db) PROVE Adds(db', s)
    <3>1. db'.sbom = Upsert(db.sbom, s, row) /\ db'.artifacts = db.artifacts \cup {Doc[s].artifact}
          /\ db'.match = db.match /\ db'.workload = db.workload /\ db'.ns = db.ns /\ db'.source = db.source
      BY <2>1, <2>2, <2>6 DEF Valid, Schema
    <3> QED  BY <2>3, <3>1 DEF Q!SBOMs
  <2> QED  BY <2>4, <2>5, <2>6 DEF s
<1> HIDE DEF Adds
<1> QED  BY <1>2, <1>3, <1>4

(* No step stores a row without its record: an ingest has its document, a  *)
(* matching pass its vulnerability, a push its pods.                       *)
LEMMA StoredStep ==
    ASSUME Valid(db), Holding, [Next]_vars
    PROVE  Stored(db')
<1>0. Stored(db)
  BY DEF Holding
<1>t. NothingNew(db, db') => Stored(db')
  BY <1>0, NothingNewStored
<1>u. UNCHANGED db => Stored(db')
  BY <1>0
<1>1. CASE UNCHANGED vars
  BY <1>1, <1>u DEF vars, catalogueVars
<1>2. CASE API
  <2>1. ASSUME NEW s \in DOMAIN Doc, DeleteSBOM(s) \/ Report(s) PROVE Stored(db')
    BY <2>1, <1>t, <1>u, WritesTake DEF Report
  <2>2. ASSUME NEW s \in DOMAIN Doc, NEW q \in DOMAIN db.source, ResolveIngest(s, q) PROVE Stored(db')
    BY <2>2, <1>u DEF ResolveIngest
  <2>3. ASSUME NEW i \in ingest, WriteIngest(i) \/ CommitIngest(i) \/ FailIngest(i) PROVE Stored(db')
    <3>1. i.sbom \in DOMAIN Doc
      BY DEF Holding
    <3>2. CASE CommitIngest(i)
      BY <1>0, <3>1, <3>2, AddedStored
    <3>3. CASE WriteIngest(i) \/ FailIngest(i)
      BY <1>u, <3>3 DEF WriteIngest, FailIngest
    <3> QED  BY <2>3, <3>2, <3>3
  <2>4. ASSUME NEW a, DeleteArtifact(a) PROVE Stored(db')
    BY <2>4, <1>t, WritesTake
  <2>5. ASSUME NEW n, DeleteNamespace(n) \/ UpdateNamespace(n) PROVE Stored(db')
    BY <2>5, <1>t, WritesTake, OtherWritesTake
  <2>6. ASSUME NEW q, DeleteSource(q) PROVE Stored(db')
    BY <2>6, <1>t, WritesTake
  <2>7. ASSUME NEW q, NEW n, MoveNamespace(q, n) PROVE Stored(db')
    BY <2>7, <1>t, WritesTake
  <2>8. ASSUME NEW q, NEW S, ReplaceWindow(q, S) PROVE Stored(db')
    BY <2>8, <1>t, OtherWritesTake
  <2>9. ASSUME NEW u, NEW n, SetMember(u, n) PROVE Stored(db')
    BY <2>9, <1>t, OtherWritesTake
  <2>10. ASSUME NEW u, NEW a, Watch(u, a) \/ Unwatch(u, a) PROVE Stored(db')
    BY <2>10, <1>t, OtherWritesTake
  <2>11. ASSUME NEW m \in FeedRow, FeedChange(m) PROVE Stored(db')
    <3>1. db'.match = (IF m \in db.match THEN db.match \ {m} ELSE db.match \cup {m})
          /\ db'.sbom = db.sbom /\ db'.artifacts = db.artifacts /\ db'.workload = db.workload /\ db'.ns = db.ns
          /\ db'.source = db.source
      BY <2>11 DEF FeedChange, Valid, Schema
    <3>2. m.vuln \in DOMAIN Vuln
      BY FeedAssumption
    <3>3. IsFiniteSet(db.match \ {m}) /\ IsFiniteSet(db.match \cup {m})
      BY <1>0, FS_AddElement, FS_RemoveElement DEF Stored
    <3> QED  BY <1>0, <3>1, <3>2, <3>3 DEF Stored, Q!SBOMs
  <2>12. CASE DayPasses
    BY <2>12, <1>u DEF DayPasses
  <2> QED  BY <1>2, <2>1, <2>2, <2>3, <2>4, <2>5, <2>6, <2>7, <2>8, <2>9, <2>10, <2>11, <2>12 DEF API
<1>3. CASE Sweeper
  BY <1>3, <1>t, <1>u, WritesTake DEF Sweeper, ListBatch, SweepFails
<1>4. ASSUME NEW r, Refresher(r) PROVE Stored(db')
  <2>1. CASE SwapRollupSnapshots(r)
    BY <2>1, <1>t, OtherWritesTake
  <2>2. CASE ReadAndTick(r) \/ BlindTick(r)
    BY <2>2, <1>u DEF ReadAndTick, BlindTick, Tick
  <2>3. CASE TryLockRollupRefresh(r) \/ BuildRollupSnapshots(r) \/ PassFails(r) \/ Restart(r) \/ Age(r)
    BY <2>3, <1>u DEF TryLockRollupRefresh, BuildRollupSnapshots, PassFails, Restart, Age
  <2> QED  BY <1>4, <2>1, <2>2, <2>3 DEF Refresher, Pass
<1>5. ASSUME NEW i \in Request, Serve(i) \/ LosePush(i) PROVE Stored(db')
  <2>1. CASE Stamp(i)
    BY <1>0, <2>1, RestampedStored
  <2>2. CASE ReplaceInventory(i)
    <3>1. Reported(request[i].rows)
      BY <2>2 DEF ReplaceInventory, Holding
    <3> QED  BY <1>0, <2>2, <3>1, ReplacedStored
  <2>3. CASE DropFailedJobs(i) \/ Submit(i)
    BY <2>3, <1>t, OtherWritesTake
  <2>4. CASE NotFound(i) \/ Resolve(i) \/ LosePush(i)
    BY <2>4, <1>u DEF NotFound, Resolve, LosePush
  <2> QED  BY <1>5, <2>1, <2>2, <2>3, <2>4 DEF Serve
<1>6. ASSUME NEW k, Agent(k) \/ DeleteCluster(k) \/ UpdateCluster(k) PROVE Stored(db')
  <2>1. CASE Agent(k)
    BY <2>1, <1>u DEF Agent, Send
  <2>2. CASE DeleteCluster(k)
    BY <2>2, <1>t, WritesTake
  <2>3. CASE UpdateCluster(k)
    BY <2>3, <1>t, OtherWritesTake
  <2> QED  BY <1>6, <2>1, <2>2, <2>3
<1>7. ASSUME NEW k \in Reporting, NEW n, CreateCluster(k, n) PROVE Stored(db')
  <2>1. /\ db'.sbom = db.sbom /\ db'.artifacts = db.artifacts /\ db'.match = db.match /\ db'.workload = db.workload
        /\ db'.ns = db.ns /\ DOMAIN db'.source = DOMAIN db.source \cup {k}
    BY <1>7 DEF CreateCluster, Upsert, Valid, Schema
  <2>2. k # None
    BY DEF Reporting, Holding
  <2> QED  BY <1>0, <2>1, <2>2 DEF Stored, Q!SBOMs
<1>8. ASSUME NEW k, NEW P, PodsChange(k, P) PROVE Stored(db')
  BY <1>8, <1>u DEF PodsChange
<1>9. ASSUME NEW k, NEW i, NEW d, IngestUnknown(k, i, {d}) PROVE Stored(db')
  BY <1>9, <1>u DEF IngestUnknown
<1>10. ASSUME NEW q, EnableRegistry(q) PROVE Stored(db')
  BY <1>10, <1>t, OtherWritesTake
<1>11. ASSUME NEW j, ScanSucceeds(j) \/ ScanFails(j) PROVE Stored(db')
  BY <1>11, <1>0, <1>t, AddedStored, OtherWritesTake
<1>12. CASE CatalogueNext
  BY <1>12, <1>2, <1>3, <1>4 DEF CatalogueNext
<1> QED  BY <1>1, <1>5, <1>6, <1>7, <1>8, <1>9, <1>10, <1>11, <1>12 DEF Next

(* What is on its way: documents of open ingests, pods and snapshots.      *)
LEMMA ArrivingStep ==
    ASSUME Holding, [Next]_vars
    PROVE  /\ \A i \in ingest' : i.sbom \in DOMAIN Doc
           /\ None \notin DOMAIN pods' /\ \A k \in DOMAIN pods' : Runs(pods'[k])
           /\ DOMAIN request' = Request
           /\ \A i \in Request : request'[i].step \in {"sent", "open"} => Reported(request'[i].rows)
<1> DEFINE I == \A i \in ingest' : i.sbom \in DOMAIN Doc
           P == None \notin DOMAIN pods' /\ \A k \in DOMAIN pods' : Runs(pods'[k])
           R == /\ DOMAIN request' = Request
                /\ \A i \in Request : request'[i].step \in {"sent", "open"} => Reported(request'[i].rows)
<1> SUFFICES I /\ P /\ R
  OBVIOUS
<1>i. UNCHANGED ingest => I
  BY DEF Holding
<1>p. UNCHANGED pods => P
  BY DEF Holding
<1>r. UNCHANGED request => R
  BY DEF Holding
<1>b. ASSUME NEW i, NEW x, Becomes(i, x), x.step \in {"sent", "open"} => Reported(x.rows) PROVE R
  BY <1>b DEF Becomes, Holding
<1> HIDE DEF P, R
<1>1. CASE UNCHANGED vars
  BY <1>1, <1>i, <1>p, <1>r DEF vars, catalogueVars, clusterVars
<1>2. ASSUME API PROVE I
  <2>1. ASSUME NEW s \in DOMAIN Doc, NEW q, ResolveIngest(s, q) PROVE I
    BY <2>1 DEF ResolveIngest
  <2>2. ASSUME NEW i \in ingest, WriteIngest(i) \/ CommitIngest(i) \/ FailIngest(i) PROVE I
    <3>1. i.sbom \in DOMAIN Doc
      BY DEF Holding
    <3>2. CASE WriteIngest(i)
      <4>1. ingest' = {[i EXCEPT !.step = "written", !.link = <<Doc[i.sbom].artifact, i.ns>> \notin db.links]}
        BY <3>2 DEF WriteIngest
      <4>2. \A x : [i EXCEPT !.step = "written", !.link = x].sbom = i.sbom
        OBVIOUS
      <4> QED  BY <3>1, <4>1, <4>2
    <3> QED  BY <2>2, <3>2 DEF CommitIngest, FailIngest
  <2>3. ASSUME NEW s, DeleteSBOM(s) \/ Report(s) PROVE I
    BY <2>3, <1>i DEF DeleteSBOM, Report
  <2>4. ASSUME NEW a, DeleteArtifact(a) PROVE I
    BY <2>4, <1>i DEF DeleteArtifact
  <2>5. ASSUME NEW n, DeleteNamespace(n) \/ UpdateNamespace(n) PROVE I
    BY <2>5, <1>i DEF DeleteNamespace, UpdateNamespace
  <2>6. ASSUME NEW q, NEW n, NEW S, DeleteSource(q) \/ MoveNamespace(q, n) \/ ReplaceWindow(q, S) PROVE I
    BY <2>6, <1>i DEF DeleteSource, MoveNamespace, ReplaceWindow
  <2>7. ASSUME NEW u, NEW n, NEW a, SetMember(u, n) \/ Watch(u, a) \/ Unwatch(u, a) PROVE I
    BY <2>7, <1>i DEF SetMember, Watch, Unwatch
  <2>8. ASSUME NEW m, FeedChange(m) \/ DayPasses PROVE I
    BY <2>8, <1>i DEF FeedChange, DayPasses
  <2> HIDE DEF I
  <2> QED  BY <1>2, <2>1, <2>2, <2>3, <2>4, <2>5, <2>6, <2>7, <2>8 DEF API
<1>3. ASSUME Sweeper PROVE I
  BY <1>3, <1>i DEF Sweeper, ListBatch, DeleteRetentionBatch, SweepFails
<1>4. ASSUME NEW r, Refresher(r) PROVE I
  BY <1>4, <1>i DEF Refresher, Pass, ReadAndTick, BlindTick, Tick, TryLockRollupRefresh, BuildRollupSnapshots,
                    SwapRollupSnapshots, PassFails, Restart, Age
<1> HIDE DEF I
<1>5. CASE CatalogueNext /\ UNCHANGED clusterVars
  BY <1>5, <1>2, <1>3, <1>4, <1>p, <1>r DEF CatalogueNext, clusterVars
<1>6. ASSUME NEW i \in Request, Serve(i) \/ LosePush(i) PROVE I /\ P /\ R
  <2>1. UNCHANGED <<ingest, pods>>
    BY <1>6 DEF Serve, LosePush, Stamp, ReplaceInventory, NotFound, Resolve, DropFailedJobs, Submit, Unmoved
  <2>2. ASSUME Stamp(i) PROVE R
    <3>1. request' = [j \in Request |->
             IF j = i THEN [step |-> "open", cluster |-> request[i].cluster, rows |-> request[i].rows, at |-> Cardinality(Stamps)]
             ELSE IF request[j].step = "open" THEN [request[j] EXCEPT !.at = RankIn(Stamps, @)]
             ELSE request[j]]
          /\ request[i].step = "sent"
      BY <2>2 DEF Stamp
    <3>2. Reported(request[i].rows)
      BY <3>1 DEF Holding
    <3>3. \A j \in Request : request'[j].step \in {"sent", "open"} => Reported(request'[j].rows)
      <4> SUFFICES ASSUME NEW j \in Request, request'[j].step \in {"sent", "open"} PROVE Reported(request'[j].rows)
        OBVIOUS
      <4> DEFINE S == Stamps
                 at(x) == [x EXCEPT !.at = RankIn(S, @)]
      <4>1. \A x : at(x).rows = x.rows
        OBVIOUS
      <4>2. request'[j] = (IF j = i THEN [step |-> "open", cluster |-> request[i].cluster, rows |-> request[i].rows,
                                          at |-> Cardinality(S)]
                           ELSE IF request[j].step = "open" THEN at(request[j]) ELSE request[j])
        BY <3>1
      <4> HIDE DEF at, S
      <4>3. CASE j = i
        BY <3>2, <4>2, <4>3
      <4>4. CASE j # i /\ request[j].step = "open"
        <5>1. request'[j].rows = request[j].rows
          BY <4>1, <4>2, <4>4
        <5> QED  BY <5>1, <4>4 DEF Holding
      <4>5. CASE j # i /\ request[j].step # "open"
        BY <4>2, <4>5 DEF Holding
      <4> QED  BY <4>3, <4>4, <4>5
    <3>4. DOMAIN request' = Request
      BY <3>1
    <3> QED  BY <3>3, <3>4 DEF R
  <2>3. Submitting(request[i].cluster, {}) = Free /\ \A k, X : Submitting(k, X).step \notin {"sent", "open"}
    BY DEF Submitting, Free
  <2>4. Free.step \notin {"sent", "open"}
    BY DEF Free
  <2>5. ASSUME ReplaceInventory(i) PROVE R
    <3>1. \/ Becomes(i, [step |-> "resolve", cluster |-> request[i].cluster, names |-> {}]) \/ Becomes(i, Free)
      BY <2>5 DEF ReplaceInventory
    <3> QED  BY <3>1, <2>4, <1>b
  <2>6. ASSUME NotFound(i) \/ LosePush(i) PROVE R
    <3>1. Becomes(i, Free)
      BY <2>6 DEF NotFound, LosePush
    <3> QED  BY <3>1, <2>4, <1>b
  <2>7. ASSUME Resolve(i) PROVE R
    <3>1. \/ \E X : Becomes(i, [step |-> "drop", cluster |-> request[i].cluster, images |-> X])
          \/ \E X : Becomes(i, Submitting(request[i].cluster, X))
      BY <2>7, Zenon DEF Resolve
    <3> QED  BY <3>1, <2>3, <1>b
  <2>8. ASSUME DropFailedJobs(i) PROVE R
    <3>1. \E X : Becomes(i, Submitting(request[i].cluster, X))
      BY <2>8, Zenon DEF DropFailedJobs
    <3> QED  BY <3>1, <2>3, <1>b
  <2>9. ASSUME Submit(i) PROVE R
    <3>1. \/ \E X : Becomes(i, Submitting(request[i].cluster, X))
          \/ Becomes(i, Free)
      BY <2>9, Zenon DEF Submit, SubmitForRunningImage, RecordRefusal, Rest
    <3> QED  BY <3>1, <2>3, <2>4, <1>b
  <2> QED  BY <1>6, <1>i, <1>p, <2>1, <2>2, <2>5, <2>6, <2>7, <2>8, <2>9 DEF Serve
<1>7. ASSUME NEW k \in Reporting, Agent(k) PROVE I /\ P /\ R
  <2>1. PICK i \in Request : Send(k, i)
    BY <1>7 DEF Agent
  <2>2. Reported(buildSnapshot(pods[k]))
    BY <2>1, SnapshotReported DEF Send, Holding
  <2>3. R
    BY <2>1, <2>2, <1>b DEF Send
  <2> QED  BY <1>i, <1>p, <2>1, <2>3 DEF Send, Unmoved
<1>8. ASSUME NEW k, NEW n, DeleteCluster(k) \/ UpdateCluster(k) \/ CreateCluster(k, n) \/ EnableRegistry(k) PROVE I /\ P /\ R
  BY <1>8, <1>i, <1>p, <1>r DEF DeleteCluster, UpdateCluster, CreateCluster, EnableRegistry, Unmoved, clusterVars
<1>9. ASSUME NEW k, NEW Q1 \in Fleet, PodsChange(k, Q1) PROVE I /\ P /\ R
  <2>1. Runs(Q1)
    BY PodsAssumption DEF Runs
  <2>2. P
    BY <1>9, <2>1 DEF P, PodsChange, Holding
  <2> QED  BY <1>9, <2>2, <1>i, <1>r DEF PodsChange, Unmoved
<1>10. ASSUME NEW k, NEW i, NEW d, IngestUnknown(k, i, {d}) PROVE I /\ P /\ R
  <2>1. R
    BY <1>10, <1>b DEF IngestUnknown
  <2> QED  BY <1>10, <2>1, <1>i, <1>p DEF IngestUnknown, Unmoved
<1>11. ASSUME NEW j, ScanSucceeds(j) \/ ScanFails(j) PROVE I /\ P /\ R
  BY <1>11, <1>i, <1>p, <1>r DEF ScanSucceeds, ScanFails, Unmoved, clusterVars
<1>12. I /\ P /\ R
  BY <1>1, <1>5, <1>6, <1>7, <1>8, <1>9, <1>10, <1>11 DEF Next
<1> QED  BY <1>12 DEF I, P, R

(* So every reachable database, and what is on its way there, holds them.  *)
LEMMA HoldingInvariant == Spec => []Holding
<1>1. Init => Holding
  <2> SUFFICES ASSUME NEW sc \in Scenario, Start(sc), pods = sc.pods, request = [i \in Request |-> Free] PROVE Holding
    BY DEF Init
  <2>1. db = sc.db /\ ingest = {}
    BY DEF Start
  <2>2. Stored(sc.db)
    BY ScenarioAssumption
  <2>3. None \notin DOMAIN sc.pods /\ \A k \in DOMAIN sc.pods : Runs(sc.pods[k])
    BY PodsAssumption DEF Runs
  <2>4. \A i \in Request : request[i].step \notin {"sent", "open"}
    BY DEF Free
  <2> QED  BY <2>1, <2>2, <2>3, <2>4 DEF Holding
<1>2. IInv /\ Holding /\ [Next]_vars => Holding'
  BY StoredStep, ArrivingStep DEF Holding, IInv
<1> QED  BY <1>1, <1>2, Invariance, PTL DEF Spec

-----------------------------------------------------------------------------
(***************************************************************************)
(* The statistics                                                          *)
(***************************************************************************)
(* A member without a private namespace sees what anyone may see.          *)
LEMMA OnlyPublic ==
    ASSUME NEW d, d.members \subseteq User \X d.ns, IsFiniteSet(d.ns), NEW v, ~v.admin,
           ~(Q!CountOwnedPrivateNamespaces(d, v.user) > 0)
    PROVE  /\ Q!visible_namespace_ids(d, v) = Q!visible_namespace_ids(d, Q!Anonymous)
           /\ \A a : Q!artifact_visible(d, v, a) <=> Q!artifact_visible(d, Q!Anonymous, a)
<1> DEFINE O == {n \in d.ns \ d.public : <<v.user, n>> \in d.members}
<1>1. ~(Cardinality(O) > 0)
  BY CardinalitySame DEF Q!CountOwnedPrivateNamespaces
<1>2. IsFiniteSet(O)
  BY FS_Subset
<1>3. O = {}
  BY <1>1, <1>2, FS_CardinalityType, FS_EmptySet
<1>4. \A n : <<None, n>> \notin d.members
  BY UserAssumption
<1>5. Q!Anonymous.user = None /\ ~Q!Anonymous.admin
  BY DEF Q!Anonymous, None
<1>6. Q!visible_namespace_ids(d, v) = Q!visible_namespace_ids(d, Q!Anonymous)
  BY <1>3, <1>4, <1>5 DEF Q!visible_namespace_ids
<1> QED  BY <1>5, <1>6 DEF Q!artifact_visible

(* Whoever sees the same namespaces and artifacts reads the same figures.  *)
LEMMA SameFigures ==
    ASSUME NEW d, NEW v, NEW w,
           Q!visible_namespace_ids(d, v) = Q!visible_namespace_ids(d, w),
           \A a : Q!artifact_visible(d, v, a) <=> Q!artifact_visible(d, w, a)
    PROVE  WarmDashboardStats(d, v) = WarmDashboardStats(d, w)
<1> DEFINE A(x) == {a \in d.artifacts : Q!artifact_visible(d, x, a)}
<1>1. A(v) = A(w)
  OBVIOUS
<1>2. Q!VisibleSBOMs(d, v) = Q!VisibleSBOMs(d, w)
  BY DEF Q!VisibleSBOMs
<1>3. \A t : Q!RollupRows(d, v, t) = Q!RollupRows(d, w, t)
  BY DEF Q!RollupRows
<1>4. Q!GetSummaryCounts(d, v) = Q!GetSummaryCounts(d, w)
  BY <1>1, <1>2, <1>3 DEF Q!GetSummaryCounts
<1>5. Q!GetArtifactTypeCounts(d, v) = Q!GetArtifactTypeCounts(d, w)
  BY <1>1 DEF Q!GetArtifactTypeCounts
<1>6. Q!GetLicenseCategoryCounts(d, v) = Q!GetLicenseCategoryCounts(d, w)
  <2>1. \A L : Q!IdentityCount(d, v, L) = Q!IdentityCount(d, w, L)
    BY <1>3 DEF Q!IdentityCount
  <2> QED  BY <1>3, <2>1, SMTT(60) DEF Q!GetLicenseCategoryCounts
<1>7. Q!GetSBOMIngestionTimeline(d, v) = Q!GetSBOMIngestionTimeline(d, w)
  BY <1>2 DEF Q!GetSBOMIngestionTimeline
<1>8. /\ Q!GetPackageGrowthTimeline(d, v) = Q!GetPackageGrowthTimeline(d, w)
      /\ Q!GetVersionGrowthTimeline(d, v) = Q!GetVersionGrowthTimeline(d, w)
  BY <1>3 DEF Q!GetPackageGrowthTimeline, Q!GetVersionGrowthTimeline
<1>9. Q!GetTopPackagesByVersionCount(d, v) = Q!GetTopPackagesByVersionCount(d, w)
  <2> DEFINE of(all, i) == {r \in all : r.id = i}
             G(all) == {[id |-> i, versions |-> Q!Cardinality(UNION {r.versions : r \in of(all, i)}),
                         sboms |-> Q!MapThenSumSet(LAMBDA r : r.sboms, of(all, i))] : i \in {r.id : r \in all}}
  <2>1. \A x : Q!GetTopPackagesByVersionCount(d, x) = G(Q!RollupRows(d, x, "component"))
    BY Zenon DEF Q!GetTopPackagesByVersionCount
  <2> HIDE DEF G
  <2> QED  BY <1>3, <2>1
<1>10. Q!GetVulnStats(d, v) = Q!GetVulnStats(d, w)
  BY <1>3 DEF Q!GetVulnStats
<1> QED  BY <1>4, <1>5, <1>6, <1>7, <1>8, <1>9, <1>10 DEF WarmDashboardStats

(* The statistics of a scope a viewer shares with the anonymous one are    *)
(* theirs: without a private namespace of their own they see what is       *)
(* public.                                                                 *)
LEMMA StatisticsShared ==
    ASSUME NEW d, d.members \subseteq User \X d.ns, IsFiniteSet(d.ns), NEW v
    PROVE  StatisticsAgree(d, v)
<1>1. CASE normalizeStatsScope(d, v) = v
  BY <1>1 DEF StatisticsAgree
<1>2. CASE ~(v.admin \/ v.user = None \/ Q!CountOwnedPrivateNamespaces(d, v.user) > 0)
  <2>1. normalizeStatsScope(d, v) = Q!Anonymous
    BY <1>2 DEF normalizeStatsScope
  <2>2. ~v.admin /\ ~(Q!CountOwnedPrivateNamespaces(d, v.user) > 0)
    BY <1>2, Zenon
  <2> QED  BY <2>1, <2>2, OnlyPublic, SameFigures DEF StatisticsAgree
<1> QED  BY <1>1, <1>2 DEF normalizeStatsScope

-----------------------------------------------------------------------------
(**************************************************************************)
(* The pages through the handlers' own instance                            *)
(**************************************************************************)
(* Each of the pages that agree reads the same through the handlers'       *)
(* instance.                                                               *)
LEMMA SameLicenses ==
    ASSUME NEW d, NEW v
    PROVE  H!S!ListLicenses(d, v) = ListLicenses(d, v)
  BY Zenon DEF
    H!S!ListLicenses, ListLicenses, H!S!Q!ListLicenses, Q!ListLicenses, H!S!Q!IdentityCount, Q!IdentityCount,
    H!S!Q!Cardinality, Q!Cardinality, H!S!Q!RollupRows, Q!RollupRows, H!S!Q!visible_namespace_ids,
    Q!visible_namespace_ids, H!S!Q!License, Q!License

(* The components of a license.                                            *)
LEMMA SameByLicense ==
    ASSUME NEW d, NEW v, NEW l
    PROVE  H!S!ListComponentsByLicense(d, v, l) = Q!ListComponentsByLicense(d, v, l)
  BY Zenon DEF
    H!S!ListComponentsByLicense, ListComponentsByLicense, H!S!Q!ListComponentsByLicense,
    Q!ListComponentsByLicense, H!S!Q!RollupRows, Q!RollupRows, H!S!Q!visible_namespace_ids,
    Q!visible_namespace_ids

(* An SBOM's page.                                                         *)
LEMMA SameSBOM ==
    ASSUME NEW d, NEW v, NEW s
    PROVE  H!S!GetSBOM(d, v, s) = GetSBOM(d, v, s)
  BY Zenon DEF
    H!S!GetSBOM, GetSBOM, H!S!Q!IsSBOMVisible, Q!IsSBOMVisible, H!S!Q!SBOMs, Q!SBOMs, H!S!Q!sbom_visible,
    Q!sbom_visible, H!S!Q!visible_namespace_ids, Q!visible_namespace_ids, H!S!Q!GetSBOM, Q!GetSBOM,
    H!S!Q!None, Q!None, H!S!Q!CountSBOMComponents, Q!CountSBOMComponents, H!S!Q!Cardinality, Q!Cardinality,
    H!S!Q!ListSBOMComponents, Q!ListSBOMComponents, H!S!Q!CountSBOMPackages, Q!CountSBOMPackages,
    H!S!Q!ListSBOMPackages, Q!ListSBOMPackages, H!S!currentDrift, currentDrift,
    H!S!Q!GetLatestProvenanceDrift, Q!GetLatestProvenanceDrift, H!S!buildVulnSummary, buildVulnSummary,
    H!S!Q!Severities, Q!Severities, H!S!Q!MapThenSumSet, Q!MapThenSumSet, H!S!Q!MapThenFoldSet,
    Q!MapThenFoldSet, H!S!Q!Bucket, Q!Bucket, H!S!Q!GetSBOMVulnSummary, Q!GetSBOMVulnSummary, H!S!Q!VulnsIn,
    Q!VulnsIn, H!S!Q!Scope, Q!Scope, H!S!Q!Purl, Q!Purl, H!S!Q!Rows, Q!Rows, H!S!Q!HasPurl, Q!HasPurl

(* The list of the top vulnerabilities.                                    *)
LEMMA SameTop ==
    ASSUME NEW d, NEW v
    PROVE  H!S!ListTopVulnerabilities(d, v, FALSE) = Q!ListTopVulnerabilities(d, v, FALSE)
  BY Zenon DEF
    H!S!ListTopVulnerabilities, ListTopVulnerabilities, H!S!Q!ListTopVulnerabilities,
    Q!ListTopVulnerabilities, H!S!Q!Seen, Q!Seen, H!S!Q!owned_namespace_ids, Q!owned_namespace_ids,
    H!S!Q!visible_namespace_ids, Q!visible_namespace_ids, H!S!Q!CanonicalRecord, Q!CanonicalRecord,
    H!S!Q!None, Q!None, H!S!Q!MapThenSumSet, Q!MapThenSumSet, H!S!Q!MapThenFoldSet, Q!MapThenFoldSet,
    H!S!Q!Cardinality, Q!Cardinality

(* A vulnerability's page.                                                 *)
LEMMA SameVuln ==
    ASSUME NEW d, NEW v, NEW x
    PROVE  H!S!GetVulnerabilityDetail(d, v, x) = GetVulnerabilityDetail(d, v, x)
  BY Zenon DEF
    H!S!GetVulnerabilityDetail, GetVulnerabilityDetail, H!S!Q!GetVulnerabilityByID, Q!GetVulnerabilityByID,
    H!S!Q!None, Q!None, H!S!None, None, H!S!Q!ListAffectedArtifactsByVuln, Q!ListAffectedArtifactsByVuln,
    H!S!Q!AffectedRows, Q!AffectedRows, H!S!Q!Rows, Q!Rows, H!S!Q!VisibleSBOMs, Q!VisibleSBOMs, H!S!Q!SBOMs,
    Q!SBOMs, H!S!Q!visible_namespace_ids, Q!visible_namespace_ids, H!S!Q!HasPurl, Q!HasPurl, H!S!Q!Purl,
    Q!Purl, H!S!Q!Cardinality, Q!Cardinality, H!S!Q!ListAffectedComponentsByVuln,
    Q!ListAffectedComponentsByVuln, H!S!Q!CountAffectedNamespacesByVuln, Q!CountAffectedNamespacesByVuln

(* The search for packages.                                                *)
LEMMA SameDistinct ==
    ASSUME NEW d, NEW v
    PROVE  H!S!SearchDistinctComponents(d, v) = Q!SearchDistinctComponents(d, v)
  BY Zenon DEF
    H!S!SearchDistinctComponents, SearchDistinctComponents, H!S!Q!SearchDistinctComponents,
    Q!SearchDistinctComponents, H!S!Q!RollupRows, Q!RollupRows, H!S!Q!visible_namespace_ids,
    Q!visible_namespace_ids, H!S!Q!Cardinality, Q!Cardinality, H!S!Q!None, Q!None, H!S!Q!MapThenSumSet,
    Q!MapThenSumSet, H!S!Q!MapThenFoldSet, Q!MapThenFoldSet, H!S!Q!MaxCounts, Q!MaxCounts, H!S!Q!Severities,
    Q!Severities, H!S!Q!Max, Q!Max

(* A package's versions.                                                   *)
LEMMA SameComponentVersions ==
    ASSUME NEW d, NEW v, NEW f
    PROVE  H!S!GetComponentVersions(d, v, f) = GetComponentVersions(d, v, f)
  BY Zenon DEF
    H!S!GetComponentVersions, GetComponentVersions, H!S!Q!CountComponentVersions, Q!CountComponentVersions,
    H!S!Q!SearchComponents, Q!SearchComponents, H!S!Q!Rows, Q!Rows, H!S!Q!VisibleSBOMs, Q!VisibleSBOMs,
    H!S!Q!SBOMs, Q!SBOMs, H!S!Q!visible_namespace_ids, Q!visible_namespace_ids, H!S!Q!ComponentMatch,
    Q!ComponentMatch, H!S!Q!None, Q!None, H!S!Q!Cardinality, Q!Cardinality, H!S!Q!HasPurl, Q!HasPurl,
    H!S!vulnCountsByPurl, vulnCountsByPurl, H!S!VulnCounts, VulnCounts, H!S!Q!Severities, Q!Severities,
    H!S!Cardinality, Cardinality, H!S!FirstByScore, FirstByScore, H!S!Q!Finding, Q!Finding, H!S!Q!Bucket,
    Q!Bucket, H!S!Q!ListVulnsByPurls, Q!ListVulnsByPurls, H!S!Q!Purl, Q!Purl, H!S!Q!GetComponentVersions,
    Q!GetComponentVersions

(* Where an artifact is used.                                              *)
LEMMA SameUsages ==
    ASSUME NEW d, NEW v, NEW a
    PROVE  H!S!GetArtifactUsages(d, v, a) = GetArtifactUsages(d, v, a)
  BY Zenon DEF
    H!S!GetArtifactUsages, GetArtifactUsages, H!S!Q!ListArtifactUsages, Q!ListArtifactUsages, H!S!Q!Rows,
    Q!Rows, H!S!Q!VisibleSBOMs, Q!VisibleSBOMs, H!S!Q!SBOMs, Q!SBOMs, H!S!Q!visible_namespace_ids,
    Q!visible_namespace_ids, H!S!Q!UsageJoin, Q!UsageJoin, H!S!Q!HasPurl, Q!HasPurl, H!S!Q!SameTuple,
    Q!SameTuple, H!S!Q!Identity, Q!Identity, H!S!Q!None, Q!None, H!S!Q!Newest, Q!Newest, H!S!Q!VisibleOf,
    Q!VisibleOf, H!S!Q!SBOMsOf, Q!SBOMsOf, H!S!modulePurlBases, modulePurlBases, H!S!Answer, Answer,
    H!S!visibleArtifact, visibleArtifact, H!S!Q!IsArtifactVisible, Q!IsArtifactVisible,
    H!S!Q!artifact_visible, Q!artifact_visible, H!S!Q!LinkedTo, Q!LinkedTo, H!S!Q!GetArtifactCurrentVersion,
    Q!GetArtifactCurrentVersion, H!S!SameKey, SameKey, H!S!componentKey, componentKey,
    H!S!normalizeComponentPurl, normalizeComponentPurl, H!S!identityQualifiers, identityQualifiers, H!S!Q!Limited,
    Q!Limited, H!S!Q!Cardinality, Q!Cardinality, H!S!commandMatch, commandMatch, H!S!None, None,
    H!S!IsStrictPrefix, IsStrictPrefix, H!S!IsPrefix, IsPrefix

(* What an artifact contains.                                              *)
LEMMA SameContains ==
    ASSUME NEW d, NEW v, NEW a
    PROVE  H!S!GetArtifactContains(d, v, a) = GetArtifactContains(d, v, a)
  BY Zenon DEF
    H!S!GetArtifactContains, GetArtifactContains, H!S!Answer, Answer, H!S!visibleArtifact, visibleArtifact,
    H!S!Q!IsArtifactVisible, Q!IsArtifactVisible, H!S!Q!artifact_visible, Q!artifact_visible, H!S!Q!LinkedTo,
    Q!LinkedTo, H!S!Q!visible_namespace_ids, Q!visible_namespace_ids, H!S!Q!ListArtifactContains,
    Q!ListArtifactContains, H!S!Q!VisibleOf, Q!VisibleOf, H!S!Q!SBOMsOf, Q!SBOMsOf, H!S!Q!SBOMs, Q!SBOMs,
    H!S!Q!VisibleSBOMs, Q!VisibleSBOMs, H!S!Q!GetArtifactCurrentVersion, Q!GetArtifactCurrentVersion,
    H!S!Q!None, Q!None, H!S!Q!Newest, Q!Newest, H!S!Q!ContainsJoin, Q!ContainsJoin, H!S!Q!HasPurl, Q!HasPurl,
    H!S!Q!SameTuple, Q!SameTuple, H!S!Q!Identity, Q!Identity, H!S!Q!IsStrictPrefix, Q!IsStrictPrefix,
    H!S!Q!IsPrefix, Q!IsPrefix, H!S!SameKey, SameKey, H!S!componentKey, componentKey,
    H!S!normalizeComponentPurl, normalizeComponentPurl, H!S!identityQualifiers, identityQualifiers, H!S!Q!Limited,
    Q!Limited, H!S!Q!Cardinality, Q!Cardinality, H!S!commandMatch, commandMatch, H!S!None, None,
    H!S!IsStrictPrefix, IsStrictPrefix, H!S!IsPrefix, IsPrefix

(* The list of artifacts.                                                  *)
LEMMA SameList ==
    ASSUME NEW d, NEW v, NEW f
    PROVE  H!S!ListArtifacts(d, v, f) = Q!ListArtifacts(d, v, f)
  BY Zenon DEF
    H!S!ListArtifacts, ListArtifacts, H!S!Q!ListArtifacts, Q!ListArtifacts, H!S!Q!Cardinality, Q!Cardinality,
    H!S!Q!SBOMsOf, Q!SBOMsOf, H!S!Q!SBOMs, Q!SBOMs, H!S!Q!SigningStatus, Q!SigningStatus,
    H!S!Q!SeverityCounts, Q!SeverityCounts, H!S!Q!Severities, Q!Severities, H!S!Q!Bucket, Q!Bucket,
    H!S!Q!RollupCounts, Q!RollupCounts, H!S!Q!HighestVersion, Q!HighestVersion, H!S!Q!ArtifactFilter,
    Q!ArtifactFilter, H!S!Q!LinkedTo, Q!LinkedTo, H!S!Q!owned_namespace_ids, Q!owned_namespace_ids,
    H!S!Q!artifact_visible, Q!artifact_visible, H!S!Q!visible_namespace_ids, Q!visible_namespace_ids

(* Its total.                                                              *)
LEMMA SameCount ==
    ASSUME NEW d, NEW v, NEW f
    PROVE  H!S!CountArtifacts(d, v, f) = Q!CountArtifacts(d, v, f)
  BY Zenon DEF
    H!S!CountArtifacts, CountArtifacts, H!S!Q!CountArtifacts, Q!CountArtifacts, H!S!Q!Cardinality,
    Q!Cardinality, H!S!Q!ArtifactFilter, Q!ArtifactFilter, H!S!Q!SBOMsOf, Q!SBOMsOf, H!S!Q!SBOMs, Q!SBOMs,
    H!S!Q!LinkedTo, Q!LinkedTo, H!S!Q!owned_namespace_ids, Q!owned_namespace_ids, H!S!Q!artifact_visible,
    Q!artifact_visible, H!S!Q!visible_namespace_ids, Q!visible_namespace_ids
-----------------------------------------------------------------------------
(***************************************************************************)
(* After a refresh                                                         *)
(***************************************************************************)
(* The rollups are the aggregates of the tables.                           *)
Fresh(d) == Valid(d) /\ Stored(d) /\ \A t \in Q!Tables : d.rollup[t] = Q!Aggregate(d, t)

(* The tables they read, and a row of each by its key.                     *)
Joining(sbom) == Q!Rows(DOMAIN sbom)
Matched(match, scope) == {m.vuln : m \in {m \in match : <<m.purl, m.set>> \in scope}}

ComponentKey(sbom, r) == <<sbom[r.sbom].ns, Q!Identity(r.c)>>
ComponentGroup(sbom, k) == {r \in Joining(sbom) : ComponentKey(sbom, r) = k}
GroupScope(G) == {<<Q!Purl(r.c), r.c.set>> : r \in {r \in G : Q!HasPurl(r.c)}}
                 \cup {<<r.c.source, 0>> : r \in {r \in G : r.c.source # <<>>}}
ComponentRow(sbom, match, k) ==
    [ns       |-> k[1], id |-> k[2],
     types    |-> {Head(r.c.base) : r \in {r \in ComponentGroup(sbom, k) : Q!HasPurl(r.c)}},
     versions |-> {r.c.version : r \in ComponentGroup(sbom, k)},
     sboms    |-> Q!Cardinality({r.sbom : r \in ComponentGroup(sbom, k)}),
     first    |-> Q!Min({sbom[r.sbom].at : r \in ComponentGroup(sbom, k)}),
     vulns    |-> Q!SeverityCounts(Matched(match, GroupScope(ComponentGroup(sbom, k))))]
ComponentRows(sbom, match) == {ComponentRow(sbom, match, k) : k \in {ComponentKey(sbom, r) : r \in Joining(sbom)}}

VersionedKey(sbom, r) == <<sbom[r.sbom].ns, Q!VersionedIdentity(r.c)>>
VersionRow(sbom, k) ==
    [ns |-> k[1], id |-> k[2],
     first |-> Q!Min({sbom[r.sbom].at : r \in {r \in Joining(sbom) : VersionedKey(sbom, r) = k}})]
VersionRows(sbom) == {VersionRow(sbom, k) : k \in {VersionedKey(sbom, r) : r \in Joining(sbom)}}

LicenseRow(sbom, l, r) == [license |-> l, ns |-> sbom[r.sbom].ns, id |-> Q!VersionedIdentity(r.c)]
LicenseRows(sbom) == UNION {{LicenseRow(sbom, l, r) : l \in r.c.licenses} : r \in Joining(sbom)}
LicenseGroup(sbom, l, n, i) ==
    {r \in Joining(sbom) : l \in r.c.licenses /\ sbom[r.sbom].ns = n /\ Q!VersionedIdentity(r.c) = i}
LicensedRow(sbom, k) ==
    [license |-> k.license, ns |-> k.ns, id |-> k.id,
     row |-> CHOOSE r \in LicenseGroup(sbom, k.license, k.ns, k.id) : TRUE]
LicensedRows(sbom) == {LicensedRow(sbom, k) : k \in LicenseRows(sbom)}

Hits(sbom, match) ==
    {h \in match \X Joining(sbom) :
       /\ Vuln[h[1].vuln].canonical # Q!None
       /\ Q!HasPurl(h[2].c) /\ h[1].purl = Q!Purl(h[2].c) /\ h[1].set = h[2].c.set}
HitKey(sbom, h) == <<Vuln[h[1].vuln].canonical, sbom[h[2].sbom].ns>>
HitGroup(sbom, match, k) == {h \in Hits(sbom, match) : HitKey(sbom, h) = k}
VulnRow(sbom, match, k) ==
    [canonical |-> k[1], ns |-> k[2],
     sboms |-> Q!Cardinality({h[2].sbom : h \in HitGroup(sbom, match, k)}),
     purls |-> {h[1].purl : h \in HitGroup(sbom, match, k)}]
VulnRows(sbom, match) == {VulnRow(sbom, match, k) : k \in {HitKey(sbom, h) : h \in Hits(sbom, match)}}

BadgeRow(sbom, match, s) ==
    [sbom |-> s, ns |-> sbom[s].ns, vulns |-> Q!SeverityCounts(Matched(match, Q!Scope({s})))]
BadgeRows(sbom, match) ==
    {BadgeRow(sbom, match, s) : s \in {s \in DOMAIN sbom : Matched(match, Q!Scope({s})) # {}}}

(* An aggregate is its rows, by those keys.                                *)
LEMMA AggregateRows ==
    \A d : /\ Q!Aggregate(d, "component") = ComponentRows(d.sbom, d.match)
           /\ Q!Aggregate(d, "version") = VersionRows(d.sbom)
           /\ Q!Aggregate(d, "license") = LicenseRows(d.sbom)
           /\ Q!Aggregate(d, "licenseComponent") = LicensedRows(d.sbom)
           /\ Q!Aggregate(d, "vuln") = VulnRows(d.sbom, d.match)
           /\ Q!Aggregate(d, "sbomVuln") = BadgeRows(d.sbom, d.match)
<1>1. \A d : Q!componentRollup(d) = ComponentRows(d.sbom, d.match)
  BY Zenon DEF Q!componentRollup, Q!SBOMs, Q!VulnsIn, ComponentRows, ComponentRow, ComponentKey, ComponentGroup, GroupScope,
               Joining, Matched
<1>2. \A d : Q!componentVersionRollup(d) = VersionRows(d.sbom)
  BY Zenon DEF Q!componentVersionRollup, Q!SBOMs, VersionRows, VersionRow, VersionedKey, Joining
<1>3. \A d : Q!licenseRollup(d) = LicenseRows(d.sbom)
  BY Zenon DEF Q!licenseRollup, Q!SBOMs, LicenseRows, LicenseRow, Joining
<1>4. \A d : Q!licenseComponentRollup(d) = LicensedRows(d.sbom)
  BY Zenon DEF Q!licenseComponentRollup, Q!licenseRollup, Q!SBOMs, LicensedRows, LicensedRow, LicenseGroup, LicenseRows,
               LicenseRow, Joining
<1>5. \A d : Q!vulnRollup(d) = VulnRows(d.sbom, d.match)
  BY Zenon DEF Q!vulnRollup, Q!SBOMs, VulnRows, VulnRow, HitGroup, HitKey, Hits, Joining
<1>6. \A d : Q!sbomVulnRollup(d) = BadgeRows(d.sbom, d.match)
  BY Zenon DEF Q!sbomVulnRollup, Q!SBOMs, Q!VulnsIn, BadgeRows, BadgeRow, Matched
<1> QED  BY <1>1, <1>2, <1>3, <1>4, <1>5, <1>6 DEF Q!Aggregate

(* They read no rollup.                                                    *)
LEMMA AggregatesReadTables ==
    ASSUME NEW d, NEW e, e.sbom = d.sbom, e.match = d.match, NEW t \in Q!Tables
    PROVE  Q!Aggregate(e, t) = Q!Aggregate(d, t)
  BY AggregateRows DEF Q!Tables

(* Their rows name namespaces and SBOMs of the tables.                     *)
LEMMA AggregatesRefer ==
    ASSUME NEW d, Valid(d)
    PROVE  /\ \A t \in Q!Tables : \A row \in Q!Aggregate(d, t) : row.ns \in d.ns
           /\ \A row \in Q!Aggregate(d, "sbomVuln") : row.sbom \in Q!SBOMs(d)
<1>1. \A r \in Joining(d.sbom) : d.sbom[r.sbom].ns \in d.ns
  BY DEF Joining, Q!Rows, Q!SBOMs, Valid, ForeignKeys
<1>2. \A row \in ComponentRows(d.sbom, d.match) : row.ns \in d.ns
  <2>1. \A r \in Joining(d.sbom) : ComponentRow(d.sbom, d.match, ComponentKey(d.sbom, r)).ns \in d.ns
    BY <1>1 DEF ComponentRow, ComponentKey
  <2> QED  BY <2>1 DEF ComponentRows
<1>3. \A row \in VersionRows(d.sbom) : row.ns \in d.ns
  <2>1. \A r \in Joining(d.sbom) : VersionRow(d.sbom, VersionedKey(d.sbom, r)).ns \in d.ns
    BY <1>1 DEF VersionRow, VersionedKey
  <2> QED  BY <2>1 DEF VersionRows
<1>4. \A row \in LicenseRows(d.sbom) : row.ns \in d.ns
  BY <1>1 DEF LicenseRows, LicenseRow
<1>5. \A row \in LicensedRows(d.sbom) : row.ns \in d.ns
  <2>1. \A k \in LicenseRows(d.sbom) : LicensedRow(d.sbom, k).ns \in d.ns
    BY <1>4 DEF LicensedRow
  <2> QED  BY <2>1 DEF LicensedRows
<1>6. \A row \in VulnRows(d.sbom, d.match) : row.ns \in d.ns
  <2>1. \A h \in Hits(d.sbom, d.match) : VulnRow(d.sbom, d.match, HitKey(d.sbom, h)).ns \in d.ns
    BY <1>1 DEF VulnRow, Hits, HitKey
  <2> QED  BY <2>1 DEF VulnRows
<1>7. \A row \in BadgeRows(d.sbom, d.match) : row.ns \in d.ns /\ row.sbom \in Q!SBOMs(d)
  <2>1. \A s \in DOMAIN d.sbom : BadgeRow(d.sbom, d.match, s).ns \in d.ns /\ BadgeRow(d.sbom, d.match, s).sbom = s
    BY DEF BadgeRow, Valid, ForeignKeys, Q!SBOMs
  <2> QED  BY <2>1 DEF BadgeRows, Q!SBOMs
<1> QED  BY <1>2, <1>3, <1>4, <1>5, <1>6, <1>7, AggregateRows DEF Q!Tables

(* A refresh of a database the writes reach leaves it one: the rows it     *)
(* writes refer to namespaces and SBOMs that are there.                    *)
LEMMA RefreshedFresh ==
    ASSUME NEW d, Valid(d), Stored(d)
    PROVE  Fresh(Refreshed(d))
<1> DEFINE e == Refreshed(d)
<1>1. /\ DOMAIN e = DOMAIN d
      /\ e.rollup = [t \in Q!Tables |-> Q!Aggregate(d, t)]
      /\ \A c \in DOMAIN d \ {"rollup"} : e[c] = d[c]
  BY DEF Refreshed, Valid, Schema
<1> HIDE DEF e
<1>2. \A c \in {"ns", "public", "members", "source", "sbom", "artifacts", "links", "match", "watch", "window", "cluster",
               "workload", "registry", "job"} : e[c] = d[c]
  BY <1>1 DEF Valid, Schema
<1>3. \A t \in Q!Tables : e.rollup[t] = Q!Aggregate(d, t)
  BY <1>1
<1>4. \A t \in Q!Tables : e.rollup[t] = Q!Aggregate(e, t)
  BY <1>2, <1>3, AggregatesReadTables
<1>5. "sbomVuln" \in Q!Tables
  BY DEF Q!Tables
<1>6. Schema(e)
  BY <1>1, <1>2 DEF Valid, Schema, Q!SBOMs, Q!Clusters
<1>7. /\ \A t \in Q!Tables : \A row \in e.rollup[t] : row.ns \in d.ns
      /\ \A row \in e.rollup["sbomVuln"] : row.sbom \in Q!SBOMs(d)
  BY <1>3, <1>5, AggregatesRefer
<1>8. ForeignKeys(e)
  BY <1>2, <1>7 DEF Valid, ForeignKeys, Q!SBOMs, Q!Clusters
<1>9. Valid(e)
  BY <1>2, <1>6, <1>8 DEF Valid, Bounded, Q!SBOMs
<1>10. Stored(e)
  BY <1>2 DEF Stored, Q!SBOMs
<1> QED  BY <1>4, <1>9, <1>10 DEF e, Fresh

(* What every document lists, together, is finite.                         *)
LEMMA RowsFinite ==
    ASSUME NEW d, Valid(d), Stored(d), NEW S \in SUBSET Q!SBOMs(d)
    PROVE  /\ IsFiniteSet(S) /\ IsFiniteSet(Q!Rows(S))
           /\ \A r \in Q!Rows(S) : r.sbom \in S /\ r.c \in Doc[r.sbom].components
<1>1. IsFiniteSet(S)
  BY FS_Subset DEF Valid, Schema
<1> DEFINE row(s, c) == [sbom |-> s, c |-> c]
           rows(s) == {row(s, c) : c \in Doc[s].components}
           part == [s \in S |-> rows(s)]
<1>2. ASSUME NEW s \in S PROVE IsFiniteSet(rows(s))
  <2>1. IsFiniteSet(Doc[s].components)
    BY DocumentAssumption DEF Stored
  <2> DEFINE f == [c \in Doc[s].components |-> row(s, c)]
  <2>2. rows(s) = {f[c] : c \in Doc[s].components}
    OBVIOUS
  <2> HIDE DEF f, rows
  <2> QED  BY <2>1, <2>2, Image
<1>3. Q!Rows(S) = UNION {part[s] : s \in S} /\ \A s \in S : part[s] = rows(s)
  <2>1. Q!Rows(S) = UNION {rows(s) : s \in S}
    BY Zenon DEF Q!Rows
  <2>2. \A s \in S : part[s] = rows(s)
    OBVIOUS
  <2> HIDE DEF part, rows
  <2> QED  BY <2>1, <2>2
<1> HIDE DEF part, rows
<1>4. IsFiniteSet(Q!Rows(S))
  BY <1>1, <1>2, <1>3, FiniteUnion
<1>5. \A r \in Q!Rows(S) : r.sbom \in S /\ r.c \in Doc[r.sbom].components
  BY DEF Q!Rows
<1> QED  BY <1>1, <1>4, <1>5

-----------------------------------------------------------------------------
(**************************************************************************)
(* Sums over rollup rows                                                   *)
(**************************************************************************)
(* The sum over a column of the rows D.                                    *)
Total(D, h) == Q!MapThenSumSet(LAMBDA r : r[h], D)

(* That sum as a recursion over the subsets of D.                          *)
LEMMA ColumnSum ==
    ASSUME NEW D, NEW h
    PROVE  Total(D, h) = Summed(D, [r \in D |-> r[h]])[D]
<1> DEFINE f == [r \in D |-> r[h]]
           pick(s) == CHOOSE x \in s : TRUE
           P(iter) == iter = [s \in SUBSET D |-> IF s = {} THEN 0 ELSE pick(s)[h] + iter[s \ {pick(s)}]]
           R(iter) == iter = [s \in SUBSET D |-> IF s = {} THEN 0 ELSE f[pick(s)] + iter[s \ {pick(s)}]]
<1>1. Total(D, h) = (CHOOSE iter : P(iter))[D]
  BY Zenon DEF Total, Q!MapThenSumSet, Q!MapThenFoldSet
<1>2. Summed(D, f) = CHOOSE iter : R(iter)
  BY Zenon DEF Summed
<1>3. \A s \in SUBSET D : s # {} => f[pick(s)] = pick(s)[h]
  <2>1. \A s : s # {} => pick(s) \in s
    OBVIOUS
  <2> HIDE DEF pick
  <2> QED  BY <2>1
<1> HIDE DEF pick, f
<1>4. \A iter : P(iter) <=> R(iter)
  BY <1>3
<1> HIDE DEF P, R
<1>5. (CHOOSE iter : P(iter)) = (CHOOSE iter : R(iter))
  BY <1>4
<1> QED  BY <1>1, <1>2, <1>5 DEF f

(* Rows that count the elements of S that are theirs sum up to S.          *)
Parts(S, D, tag, h) ==
    /\ \A s \in S : tag[s] \in D
    /\ \A x \in D : x[h] = Cardinality(Tagged(S, tag, x)) /\ \E s \in S : tag[s] = x

(* The column of such rows sums up to the size of S.                       *)
LEMMA PartsSum ==
    ASSUME NEW S, IsFiniteSet(S), NEW D, NEW tag, NEW h, Parts(S, D, tag, h)
    PROVE  Total(D, h) = Cardinality(S)
<1>1. IsFiniteSet(D)
  <2>1. D = {tag[s] : s \in S}
    BY DEF Parts
  <2>2. IsFiniteSet({tag[s] : s \in S})
    BY Image
  <2> QED  BY <2>1, <2>2
<1> DEFINE f == [r \in D |-> r[h]]
<1>2. \A x \in D : f[x] = Cardinality(Tagged(S, tag, x))
  BY DEF Parts
<1>3. Total(D, h) = Summed(D, f)[D]
  BY ColumnSum, Zenon
<1> HIDE DEF f
<1>4. Summed(D, f)[D] = Cardinality(S)
  <2>1. Counts(S, D, tag, f)
    BY <1>2 DEF Counts, Parts
  <2> QED  BY <1>1, <2>1, PartitionSum, Zenon
<1> QED  BY <1>3, <1>4
(* A set is as large as the one it is an image of, when no two map alike.   *)
LEMMA SameSize ==
    ASSUME NEW S, IsFiniteSet(S), NEW T, NEW f, \A x \in S : f[x] \in T, \A y \in T : \E x \in S : f[x] = y,
           \A x, y \in S : f[x] = f[y] => x = y
    PROVE  Cardinality(T) = Cardinality(S)
<1>1. T = {f[x] : x \in S}
  OBVIOUS
<1>2. Cardinality({f[x] : x \in S}) = Cardinality(S)
  BY Image
<1> QED  BY <1>1, <1>2
-----------------------------------------------------------------------------
(***************************************************************************)
(* One fact, two pages                                                     *)
(***************************************************************************)
(* The artifact list is as long as its total.                              *)
LEMMA ListedArtifacts ==
    ASSUME NEW d, Stored(d), NEW v, NEW f
    PROVE  Q!CountArtifacts(d, v, f) = Cardinality(Q!ListArtifacts(d, v, f))
<1> DEFINE A == Q!ArtifactFilter(d, v, f)
           row(a) == [id |-> a, sboms |-> Q!Cardinality(Q!SBOMsOf(d, a)),
                      sufficient |-> Q!Cardinality({s \in Q!SBOMsOf(d, a) : Doc[s].sufficient}),
                      signing |-> Q!SigningStatus(d, a),
                      vulns |-> IF Q!SBOMsOf(d, a) = {} THEN Q!SeverityCounts({})
                                ELSE Q!RollupCounts(d, Q!HighestVersion(d, Q!SBOMsOf(d, a)))]
           g == [a \in A |-> row(a)]
<1>1. IsFiniteSet(A)
  BY ArtifactAssumption, FS_Subset DEF Q!ArtifactFilter, Stored
<1>2. \A a : row(a).id = a
  OBVIOUS
<1>3. Q!ListArtifacts(d, v, f) = {row(a) : a \in A}
  BY Zenon DEF Q!ListArtifacts
<1> HIDE DEF row, A
<1>4. Q!ListArtifacts(d, v, f) = {g[a] : a \in A} /\ \A a, b \in A : g[a] = g[b] => a = b
  BY <1>2, <1>3
<1> HIDE DEF g
<1>5. Cardinality(Q!ListArtifacts(d, v, f)) = Cardinality(A)
  BY <1>1, <1>4, Image
<1> QED  BY <1>5, CardinalitySame DEF A, Q!CountArtifacts

(* The newest SBOM of some is one of them.                                 *)
LEMMA NewestIsOne ==
    ASSUME NEW d, Valid(d), NEW S \in SUBSET Q!SBOMs(d), S # {}
    PROVE  Q!Newest(d, S) \in S
<1>1. \E s \in S : \A t \in S : d.sbom[t].at <= d.sbom[s].at
  BY LastCreated
<1> QED  BY <1>1, Zenon DEF Q!Newest

(* The command of a Go module is in one of the bases looked up for it.     *)
LEMMA ModuleBases ==
    ASSUME NEW a \in DOMAIN Artifact, NEW c, c.base \in Seq(STRING), Len(c.base) # 1,
           c.base # <<>>, Artifact[a].base # <<>>, Head(Artifact[a].base) = "golang", IsStrictPrefix(c.base, Artifact[a].base)
    PROVE  c.base \in modulePurlBases(Artifact[a].base) /\ Len(c.base) >= 2 /\ Head(c.base) = "golang"
<1> DEFINE base == Artifact[a].base
           n == Len(c.base)
<1>1. base \in Seq(STRING)
  BY ArtifactAssumption
<1>2. n <= Len(base) /\ SubSeq(c.base, 1, n) = SubSeq(base, 1, n) /\ c.base # base
  BY DEF IsStrictPrefix, IsPrefix
<1>3. c.base = SubSeq(c.base, 1, n) /\ base = SubSeq(base, 1, Len(base))
  BY <1>1
<1>4. n \in Nat /\ n >= 2 /\ n <= Len(base) - 1 /\ Len(base) \in Nat
  <2>1. n \in Nat /\ Len(base) \in Nat /\ n # 0
    BY <1>1
  <2>2. n # Len(base)
    BY <1>2, <1>3
  <2>3. \A i, j \in Nat : i <= j /\ i # j /\ i # 0 /\ i # 1 => i >= 2 /\ i <= j - 1
    OBVIOUS
  <2> QED  BY <1>2, <2>1, <2>2, <2>3
<1>5. c.base = SubSeq(base, 1, n)
  BY <1>2, <1>3
<1>6. Head(c.base) = Head(base)
  BY <1>1, <1>4, <1>5
<1> QED  BY <1>4, <1>5, <1>6 DEF modulePurlBases

-----------------------------------------------------------------------------
(**************************************************************************)
(* Licenses and badges                                                     *)
(**************************************************************************)
(* The rollup rows a viewer is shown, and the components they stand for.   *)
LEMMA ShownRows ==
    ASSUME NEW d, Fresh(d), NEW v
    PROVE  /\ Valid(d) /\ Stored(d)
           /\ Q!VisibleSBOMs(d, v) \in SUBSET Q!SBOMs(d)
           /\ \A r : r \in Q!Rows(Q!VisibleSBOMs(d, v)) <=>
                       r \in Joining(d.sbom) /\ d.sbom[r.sbom].ns \in Q!visible_namespace_ids(d, v)
           /\ Joining(d.sbom) = Q!Rows(Q!SBOMs(d))
           /\ d.rollup["component"] = ComponentRows(d.sbom, d.match)
           /\ d.rollup["licenseComponent"] = LicensedRows(d.sbom)
           /\ d.rollup["license"] = LicenseRows(d.sbom)
           /\ d.rollup["vuln"] = VulnRows(d.sbom, d.match)
           /\ d.rollup["sbomVuln"] = BadgeRows(d.sbom, d.match)
<1>1. \A t \in {"component", "licenseComponent", "license", "vuln", "sbomVuln"} : d.rollup[t] = Q!Aggregate(d, t)
  BY DEF Fresh, Q!Tables
<1>2. \A r : r \in Q!Rows(Q!VisibleSBOMs(d, v)) <=>
                       r \in Joining(d.sbom) /\ d.sbom[r.sbom].ns \in Q!visible_namespace_ids(d, v)
  BY DEF Q!Rows, Joining, Q!VisibleSBOMs, Q!SBOMs
<1> QED  BY <1>1, <1>2, AggregateRows DEF Fresh, Q!VisibleSBOMs, Q!SBOMs, Joining

(* A license counts the components its page lists: the row that stands for *)
(* a versioned identity has it.                                            *)
LEMMA LicensedCount ==
    ASSUME NEW d, Fresh(d), NEW v, NEW l
    PROVE  Q!IdentityCount(d, v, {l}) = Cardinality({x.c : x \in Q!ListComponentsByLicense(d, v, l)})
<1> DEFINE N == Q!visible_namespace_ids(d, v)
           all == LicensedRows(d.sbom)
           rows == {r \in Q!RollupRows(d, v, "licenseComponent") : r.license = l}
           ids == {r.id : r \in rows}
           rep(i) == (CHOOSE r \in rows : r.id = i).row
           f == [i \in ids |-> rep(i).c]
           shown == {x.c : x \in Q!ListComponentsByLicense(d, v, l)}
<1>1. \A k \in LicenseRows(d.sbom) :
         /\ LicensedRow(d.sbom, k).license = k.license /\ LicensedRow(d.sbom, k).ns = k.ns /\ LicensedRow(d.sbom, k).id = k.id
         /\ LicensedRow(d.sbom, k).row \in Joining(d.sbom)
         /\ Q!VersionedIdentity(LicensedRow(d.sbom, k).row.c) = k.id
  <2> SUFFICES ASSUME NEW k \in LicenseRows(d.sbom)
               PROVE  /\ LicensedRow(d.sbom, k).license = k.license /\ LicensedRow(d.sbom, k).ns = k.ns
                      /\ LicensedRow(d.sbom, k).id = k.id
                      /\ LicensedRow(d.sbom, k).row \in Joining(d.sbom)
                      /\ Q!VersionedIdentity(LicensedRow(d.sbom, k).row.c) = k.id
    OBVIOUS
  <2>1. PICK r \in Joining(d.sbom) : \E m \in r.c.licenses : k = LicenseRow(d.sbom, m, r)
    BY DEF LicenseRows
  <2>2. r \in LicenseGroup(d.sbom, k.license, k.ns, k.id)
    BY <2>1 DEF LicenseGroup, LicenseRow
  <2>3. LicensedRow(d.sbom, k).row \in LicenseGroup(d.sbom, k.license, k.ns, k.id)
    BY <2>2 DEF LicensedRow
  <2> QED  BY <2>3, ZenonT(60) DEF LicensedRow, LicenseGroup
<1>2. /\ Q!RollupRows(d, v, "licenseComponent") = {r \in all : r.ns \in N}
      /\ Q!RollupRows(d, v, "license") = {r \in LicenseRows(d.sbom) : r.ns \in N}
  BY ShownRows DEF Q!RollupRows
<1>3. {r.id : r \in {r \in Q!RollupRows(d, v, "license") : r.license \in {l}}} = ids
  BY <1>1, <1>2 DEF LicensedRows
<1>4. \A i \in ids : Q!VersionedIdentity(rep(i).c) = i
  <2> TAKE i \in ids
  <2>1. (CHOOSE r \in rows : r.id = i) \in rows /\ (CHOOSE r \in rows : r.id = i).id = i
    OBVIOUS
  <2>2. PICK k \in LicenseRows(d.sbom) : (CHOOSE r \in rows : r.id = i) = LicensedRow(d.sbom, k)
    BY <1>2, <2>1 DEF LicensedRows
  <2> QED  BY <1>1, <2>1, <2>2
<1>5. IsFiniteSet(ids)
  <2> DEFINE g == [r \in Joining(d.sbom) |-> Q!VersionedIdentity(r.c)]
  <2>1. IsFiniteSet({g[r] : r \in Joining(d.sbom)})
    <3> HIDE DEF g
    <3>1. IsFiniteSet(Joining(d.sbom))
      BY ShownRows, RowsFinite
    <3> QED  BY <3>1, Image
  <2>2. ids \subseteq {g[r] : r \in Joining(d.sbom)}
    BY <1>1, <1>2 DEF LicensedRows
  <2> HIDE DEF g, ids
  <2> QED  BY <2>1, <2>2, FS_Subset
<1>6. shown = {f[i] : i \in ids}
  <2>1. Q!ListComponentsByLicense(d, v, l) = {rep(i) : i \in ids}
    BY Zenon DEF Q!ListComponentsByLicense
  <2> HIDE DEF rep, ids
  <2> QED  BY <2>1
<1>7. \A i, j \in ids : f[i] = f[j] => i = j
  <2> HIDE DEF rep, ids
  <2> QED  BY <1>4
<1> HIDE DEF f, ids, shown
<1>8. Cardinality(shown) = Cardinality(ids)
  BY <1>5, <1>6, <1>7, Image
<1> QED  BY <1>3, <1>8, CardinalitySame, SMTT(60) DEF shown, Q!IdentityCount

(* The badge kept for an SBOM counts its findings: the severities of the   *)
(* summary, folded into the buckets, share out what the badge counted.     *)
LEMMA BadgeCount ==
    ASSUME NEW d, Fresh(d), NEW s \in Q!SBOMs(d)
    PROVE  buildVulnSummary(Q!GetSBOMVulnSummary(d, s)) = Q!RollupCounts(d, s)
<1> DEFINE X == Matched(d.match, Q!Scope({s}))
           pair(x) == <<Vuln[x].canonical, Vuln[x].severity>>
           pairs == {pair(x) : x \in X}
           at(q) == {x \in X : Vuln[x].severity = q}
           names(q) == {Vuln[x].canonical : x \in at(q)}
           row(q) == [severity |-> q, count |-> Cardinality(names(q))]
           rows == {row(q) : q \in {Vuln[x].severity : x \in X}}
           F(b) == {f \in pairs : Q!Bucket(f[2]) = b}
           D(b) == {r \in rows : Q!Bucket(r.severity) = b}
           buckets == Q!Severities \cup {"UNKNOWN"}
<1>1. X = Q!VulnsIn(d, Q!Scope({s}))
  BY Zenon DEF Matched, Q!VulnsIn
<1>2. Q!SeverityCounts(X) = [b \in buckets |-> Cardinality(F(b))]
  BY CardinalitySame DEF Q!SeverityCounts
<1>3. Q!GetSBOMVulnSummary(d, s) = rows
  BY <1>1, CardinalitySame DEF Q!GetSBOMVulnSummary
<1>4. buildVulnSummary(rows) = [b \in buckets |-> Total(D(b), "count")]
  BY Zenon DEF buildVulnSummary, Total
<1>5. Q!RollupCounts(d, s) = Q!SeverityCounts(X)
  <2> DEFINE kept == {r \in d.rollup["sbomVuln"] : r.sbom = s}
             hurt == {t \in DOMAIN d.sbom : Matched(d.match, Q!Scope({t})) # {}}
  <2>1. \A t : BadgeRow(d.sbom, d.match, t).sbom = t
                 /\ BadgeRow(d.sbom, d.match, t).vulns = Q!SeverityCounts(Matched(d.match, Q!Scope({t})))
    BY DEF BadgeRow
  <2>2. d.rollup["sbomVuln"] = {BadgeRow(d.sbom, d.match, t) : t \in hurt}
    BY ShownRows, Zenon DEF BadgeRows
  <2>3. s \in hurt <=> X # {}
    BY DEF Q!SBOMs
  <2>3a. BadgeRow(d.sbom, d.match, s).vulns = Q!SeverityCounts(X)
    BY <2>1
  <2> HIDE DEF hurt, X
  <2>4. \A r \in kept : X # {} /\ r.vulns = Q!SeverityCounts(X)
    BY <2>1, <2>2, <2>3, <2>3a
  <2>5. X # {} => BadgeRow(d.sbom, d.match, s) \in kept
    BY <2>1, <2>2, <2>3
  <2>6. Q!RollupCounts(d, s) = IF kept = {} THEN Q!SeverityCounts({}) ELSE (CHOOSE r \in kept : TRUE).vulns
    BY Zenon DEF Q!RollupCounts
  <2> HIDE DEF kept
  <2> QED  BY <2>4, <2>5, <2>6
<1>6. IsFiniteSet(pairs)
  <2> DEFINE g == [m \in d.match |-> pair(m.vuln)]
  <2>1. IsFiniteSet(d.match)
    BY DEF Fresh, Stored
  <2>2. IsFiniteSet({g[m] : m \in d.match})
    <3> HIDE DEF g
    <3> QED  BY <2>1, Image
  <2>3. pairs \subseteq {g[m] : m \in d.match}
    BY DEF Matched
  <2> HIDE DEF g, pairs
  <2> QED  BY <2>2, <2>3, FS_Subset
<1>7. ASSUME NEW b \in buckets PROVE Total(D(b), "count") = Cardinality(F(b))
  <2> DEFINE tag == [f \in F(b) |-> row(f[2])]
             labels == {Vuln[x].severity : x \in X}
             E == D(b)
             G == F(b)
  <2>1. IsFiniteSet(G)
    <3> HIDE DEF pairs
    <3> QED  BY <1>6, FS_Subset
  <2>2. \A q : row(q).severity = q /\ row(q)["count"] = Cardinality(names(q))
    OBVIOUS
  <2>3. \A f \in G : f[2] \in labels /\ f[1] \in names(f[2]) /\ f = <<f[1], f[2]>> /\ Q!Bucket(f[2]) = b
    OBVIOUS
  <2>4. \A q \in labels : \A c \in names(q) : <<c, q>> \in pairs
    OBVIOUS
  <2>5. \A q \in labels : names(q) # {}
    OBVIOUS
  <2>6. rows = {row(q) : q \in labels}
    OBVIOUS
  <2> HIDE DEF row, names, labels, rows, pairs
  <2>7. \A f \in G : tag[f] = row(f[2]) /\ tag[f] \in E
    BY <2>2, <2>3, <2>6
  <2>8. \A x \in E : \E f \in G : tag[f] = x
    <3> SUFFICES ASSUME NEW x \in E PROVE \E f \in G : tag[f] = x
      OBVIOUS
    <3>1. PICK q \in labels : x = row(q)
      BY <2>6
    <3>2. PICK c \in names(q) : <<c, q>> \in G
      BY <2>2, <2>4, <2>5, <3>1
    <3> QED  BY <2>7, <3>1, <3>2
  <2>9. \A x \in E : x["count"] = Cardinality(Tagged(G, tag, x))
    <3> SUFFICES ASSUME NEW x \in E PROVE x["count"] = Cardinality(Tagged(G, tag, x))
      OBVIOUS
    <3>1. PICK q \in labels : x = row(q)
      BY <2>6
    <3> DEFINE g == [f \in Tagged(G, tag, x) |-> f[1]]
    <3>2. \A f \in Tagged(G, tag, x) : f \in G /\ f[2] = q /\ g[f] = f[1]
      BY <2>2, <2>7, <3>1 DEF Tagged
    <3>3. \A c \in names(q) : <<c, q>> \in Tagged(G, tag, x)
      BY <2>2, <2>4, <2>7, <3>1 DEF Tagged
    <3>4. IsFiniteSet(Tagged(G, tag, x))
      BY <2>1, FS_Subset DEF Tagged
    <3> HIDE DEF g, E, G, tag
    <3>5. /\ \A f \in Tagged(G, tag, x) : g[f] \in names(q)
          /\ \A c \in names(q) : \E f \in Tagged(G, tag, x) : g[f] = c
      <4>1. \A c \in names(q) : g[<<c, q>>] = c
        BY <3>2, <3>3
      <4> QED  BY <2>3, <3>2, <3>3, <4>1
    <3>6. \A f, h \in Tagged(G, tag, x) : g[f] = g[h] => f = h
      BY <2>3, <3>2
    <3>7. Cardinality(names(q)) = Cardinality(Tagged(G, tag, x))
      BY <3>4, <3>5, <3>6, SameSize
    <3> QED  BY <2>2, <3>1, <3>7
  <2> HIDE DEF tag, E, G
  <2>10. Total(E, "count") = Cardinality(G)
    <3>1. Parts(G, E, tag, "count")
      BY <2>7, <2>8, <2>9 DEF Parts
    <3> QED  BY <2>1, <3>1, PartsSum, Zenon
  <2> QED  BY <2>10 DEF E, G
<1> HIDE DEF F, D, X, buckets
<1> QED  BY <1>2, <1>3, <1>4, <1>5, <1>7

-----------------------------------------------------------------------------
(**************************************************************************)
(* Vulnerabilities                                                         *)
(**************************************************************************)
(* Finitely many numbers have a bound.                                     *)
LEMMA FiniteBound ==
    ASSUME NEW S \in SUBSET Nat, IsFiniteSet(S)
    PROVE  \E b \in Nat : \A x \in S : x <= b
<1> DEFINE B == {T \in SUBSET S : ~\E b \in Nat : \A x \in T : x <= b}
<1>1. SUFFICES B = {}
  OBVIOUS
<1>2. SUFFICES ASSUME B # {} PROVE FALSE
  OBVIOUS
<1>3. IsWellFoundedOn(StrictSubsetOrdering(S), SUBSET S)
  BY FS_StrictSubsetOrderingWellFounded, FS_FiniteSubsetsOfFinite
<1>4. PICK T \in B : \A U \in B : ~(<<U, T>> \in StrictSubsetOrdering(S))
  BY <1>2, <1>3, WFMin, Zenon
<1>5. T \in SUBSET S /\ ~\E b \in Nat : \A x \in T : x <= b
  OBVIOUS
<1>6. PICK y \in T : TRUE
  <2>1. T # {}
    BY <1>5
  <2> QED  BY <2>1
<1> DEFINE U == T \ {y}
<1>7. <<U, T>> \in StrictSubsetOrdering(S)
  BY <1>5, <1>6 DEF StrictSubsetOrdering
<1>8. PICK b \in Nat : \A x \in U : x <= b
  BY <1>4, <1>5, <1>7
<1>9. y \in Nat /\ \A x \in T : x <= b \/ x = y
  BY <1>5, <1>8
<1> HIDE DEF U, B
<1>10. CASE y <= b
  BY <1>5, <1>9, <1>10
<1>11. CASE ~(y <= b)
  <2>1. \A x \in T : x <= y
    BY <1>5, <1>9, <1>11
  <2> QED  BY <1>5, <1>9, <2>1
<1> QED  BY <1>10, <1>11

(* A record stands for each canonical id of the feed.                      *)
LEMMA CanonicalIsOne ==
    ASSUME NEW y \in DOMAIN Vuln
    PROVE  LET c == Vuln[y].canonical
           IN Q!CanonicalRecord(c) \in DOMAIN Vuln /\ Vuln[Q!CanonicalRecord(c)].canonical = c
<1> DEFINE c == Vuln[y].canonical
           X == {x \in DOMAIN Vuln : Vuln[x].canonical = c}
           known == {x \in X : Vuln[x].severity \notin {None, "UNKNOWN"}}
           from == IF known # {} THEN known ELSE X
           times == {Vuln[x].modified : x \in from}
<1>1. from # {} /\ from \subseteq X
  OBVIOUS
<1>2. times \subseteq Nat /\ times # {}
  BY <1>1, FeedAssumption
<1>3. \E b \in Nat : \A t \in times : t <= b
  <2> DEFINE f == [x \in DOMAIN Vuln |-> Vuln[x].modified]
  <2>1. IsFiniteSet({f[x] : x \in DOMAIN Vuln})
    <3> HIDE DEF f
    <3> QED  BY FeedAssumption, Image
  <2>2. times \subseteq {f[x] : x \in DOMAIN Vuln}
    BY <1>1
  <2> HIDE DEF f, times
  <2>3. IsFiniteSet(times)
    BY <2>1, <2>2, FS_Subset
  <2> QED  BY <1>2, <2>3, FiniteBound
<1>4. \E x \in from : \A z \in from : Vuln[z].modified <= Vuln[x].modified
  <2>1. PICK t \in times : \A u \in times : u <= t
    <3> HIDE DEF times
    <3> QED  BY <1>2, <1>3, MaxNat
  <2> HIDE DEF from
  <2> QED  BY <2>1
<1>5. Q!CanonicalRecord(c) = CHOOSE x \in from : \A z \in from : Vuln[z].modified <= Vuln[x].modified
  BY Zenon DEF Q!CanonicalRecord, Q!None, None
<1> HIDE DEF from
<1>6. Q!CanonicalRecord(c) \in from
  BY <1>4, <1>5
<1> QED  BY <1>1, <1>6

(* The SBOMs the viewer sees with a component that c matches by its purl.  *)
Affected(d, v, c) ==
    {s \in Q!VisibleSBOMs(d, v) :
       \E r \in Q!Rows({s}) : \E m \in d.match :
         Vuln[m.vuln].canonical = c /\ Q!HasPurl(r.c) /\ m.purl = Q!Purl(r.c) /\ m.set = r.c.set}

AffectedIn(d, v, c, n) == {s \in Affected(d, v, c) : d.sbom[s].ns = n}
AffectedOf(d, v, c, a) == {s \in Affected(d, v, c) : Doc[s].artifact = a}
AffectedSpaces(d, v, c) == {d.sbom[s].ns : s \in Affected(d, v, c)}
AffectedArtifacts(d, v, c) == {Doc[s].artifact : s \in Affected(d, v, c)}

PageRow(d, v, c, a) ==
    [id |-> a,
     sboms |-> Q!Cardinality({h[1].sbom : h \in {h \in Q!AffectedRows(d, v, c) : Doc[h[1].sbom].artifact = a}}),
     purls |-> Q!Cardinality({h[2].purl : h \in {h \in Q!AffectedRows(d, v, c) : Doc[h[1].sbom].artifact = a}})]

(* The rollup row of c in a namespace counts those of the namespace, and   *)
(* c's page counts them by artifact and by namespace.                      *)
LEMMA AffectedCounts ==
    ASSUME NEW d, Fresh(d), NEW v, NEW c, c # None
    PROVE  /\ \A n \in Q!visible_namespace_ids(d, v) :
                /\ VulnRow(d.sbom, d.match, <<c, n>>)["sboms"] = Cardinality(AffectedIn(d, v, c, n))
                /\ HitGroup(d.sbom, d.match, <<c, n>>) # {} <=> n \in AffectedSpaces(d, v, c)
           /\ Q!ListAffectedArtifactsByVuln(d, v, c) = {PageRow(d, v, c, a) : a \in AffectedArtifacts(d, v, c)}
           /\ \A a \in AffectedArtifacts(d, v, c) : PageRow(d, v, c, a)["sboms"] = Cardinality(AffectedOf(d, v, c, a))
           /\ Q!CountAffectedNamespacesByVuln(d, v, c) = Cardinality(AffectedSpaces(d, v, c))
<1> DEFINE N == Q!visible_namespace_ids(d, v)
           J == Joining(d.sbom)
           A == Affected(d, v, c)
           hit(m, r) == Vuln[m.vuln].canonical = c /\ Q!HasPurl(r.c) /\ m.purl = Q!Purl(r.c) /\ m.set = r.c.set
<1>1. \A s : s \in A <=> s \in Q!SBOMs(d) /\ d.sbom[s].ns \in N /\ \E r \in J : r.sbom = s /\ \E m \in d.match : hit(m, r)
  BY DEF Affected, Q!Rows, Joining, Q!VisibleSBOMs, Q!SBOMs
<1>2. \A r \in J : r.sbom \in Q!SBOMs(d)
  BY DEF Joining, Q!Rows, Q!SBOMs
<1>3. ASSUME NEW n \in N
      PROVE  /\ {h[2].sbom : h \in HitGroup(d.sbom, d.match, <<c, n>>)} = {s \in A : d.sbom[s].ns = n}
             /\ HitGroup(d.sbom, d.match, <<c, n>>) # {} <=> \E s \in A : d.sbom[s].ns = n
  <2> DEFINE G == HitGroup(d.sbom, d.match, <<c, n>>)
  <2>1. \A h : h \in G <=> h \in d.match \X J /\ hit(h[1], h[2]) /\ d.sbom[h[2].sbom].ns = n
    BY DEF HitGroup, Hits, HitKey, Q!None, None
  <2>2. \A h \in G : h[1] \in d.match /\ h[2] \in J /\ hit(h[1], h[2]) /\ d.sbom[h[2].sbom].ns = n
    BY <2>1
  <2>3. \A m \in d.match : \A r \in J : hit(m, r) /\ d.sbom[r.sbom].ns = n => <<m, r>> \in G
    BY <2>1
  <2> HIDE DEF G, hit, J, A, N
  <2>4. \A h \in G : h[2].sbom \in A /\ d.sbom[h[2].sbom].ns = n
    BY <1>1, <1>2, <1>3, <2>2
  <2>5. \A s \in A : d.sbom[s].ns = n => \E h \in G : h[2].sbom = s
    <3> SUFFICES ASSUME NEW s \in A, d.sbom[s].ns = n PROVE \E h \in G : h[2].sbom = s
      OBVIOUS
    <3>1. PICK r \in J : r.sbom = s /\ \E m \in d.match : hit(m, r)
      BY <1>1
    <3>2. PICK m \in d.match : hit(m, r)
      BY <3>1
    <3>3. <<m, r>> \in G /\ <<m, r>>[2].sbom = s
      BY <2>3, <3>1, <3>2
    <3> QED  BY <3>3, Zenon
  <2>6. {h[2].sbom : h \in G} = {s \in A : d.sbom[s].ns = n}
    BY <2>4, <2>5
  <2> QED  BY <2>4, <2>5, <2>6 DEF A, G
<1> DEFINE All == Q!AffectedRows(d, v, c)
<1>4. \A h : h \in All <=> h \in Q!Rows(Q!VisibleSBOMs(d, v)) \X d.match /\ hit(h[2], h[1])
  BY DEF Q!AffectedRows
<1>5. \A h \in All : h[2] \in d.match /\ h[1] \in J /\ hit(h[2], h[1]) /\ d.sbom[h[1].sbom].ns \in N
  BY <1>4, ShownRows
<1>6. \A m \in d.match : \A r \in J : hit(m, r) /\ d.sbom[r.sbom].ns \in N => <<r, m>> \in All
  BY <1>4, ShownRows
<1> HIDE DEF All, hit, J, A, N
<1>7. \A h \in All : h[1].sbom \in A
  BY <1>1, <1>2, <1>5
<1>8. \A s \in A : \E h \in All : h[1].sbom = s
  <2> TAKE s \in A
  <2>1. PICK r \in J : r.sbom = s /\ \E m \in d.match : hit(m, r)
    BY <1>1
  <2>2. PICK m \in d.match : hit(m, r)
    BY <2>1
  <2>3. d.sbom[r.sbom].ns \in N
    BY <1>1, <2>1
  <2>4. <<r, m>> \in All /\ <<r, m>>[1].sbom = s
    BY <1>6, <2>1, <2>2, <2>3
  <2> QED  BY <2>4, Zenon
<1>9. \A a : {h[1].sbom : h \in {h \in All : Doc[h[1].sbom].artifact = a}} = AffectedOf(d, v, c, a)
  BY <1>7, <1>8 DEF AffectedOf, A
<1>10. {Doc[h[1].sbom].artifact : h \in All} = AffectedArtifacts(d, v, c)
  BY <1>7, <1>8 DEF AffectedArtifacts, A
<1>11. {d.sbom[h[1].sbom].ns : h \in All} = AffectedSpaces(d, v, c)
  BY <1>7, <1>8 DEF AffectedSpaces, A
<1>12. \A n \in N : /\ VulnRow(d.sbom, d.match, <<c, n>>)["sboms"] = Cardinality(AffectedIn(d, v, c, n))
                    /\ HitGroup(d.sbom, d.match, <<c, n>>) # {} <=> n \in AffectedSpaces(d, v, c)
  <2> SUFFICES ASSUME NEW n \in N
               PROVE  /\ VulnRow(d.sbom, d.match, <<c, n>>)["sboms"] = Cardinality(AffectedIn(d, v, c, n))
                      /\ HitGroup(d.sbom, d.match, <<c, n>>) # {} <=> n \in AffectedSpaces(d, v, c)
    OBVIOUS
  <2>1. {h[2].sbom : h \in HitGroup(d.sbom, d.match, <<c, n>>)} = AffectedIn(d, v, c, n)
    BY <1>3, Zenon DEF AffectedIn, A
  <2>2. VulnRow(d.sbom, d.match, <<c, n>>)["sboms"]
          = Q!Cardinality({h[2].sbom : h \in HitGroup(d.sbom, d.match, <<c, n>>)})
    BY DEF VulnRow
  <2>3. HitGroup(d.sbom, d.match, <<c, n>>) # {} <=> n \in AffectedSpaces(d, v, c)
    BY <1>3 DEF AffectedSpaces, A
  <2> QED  BY <2>1, <2>2, <2>3, CardinalitySame
<1>13. Q!ListAffectedArtifactsByVuln(d, v, c) = {PageRow(d, v, c, a) : a \in AffectedArtifacts(d, v, c)}
  <2>1. Q!ListAffectedArtifactsByVuln(d, v, c) = {PageRow(d, v, c, a) : a \in {Doc[h[1].sbom].artifact : h \in All}}
    BY Zenon DEF Q!ListAffectedArtifactsByVuln, PageRow, All
  <2> QED  BY <1>10, <2>1
<1>14. \A a \in AffectedArtifacts(d, v, c) : PageRow(d, v, c, a)["sboms"] = Cardinality(AffectedOf(d, v, c, a))
  <2> TAKE a \in AffectedArtifacts(d, v, c)
  <2>1. PageRow(d, v, c, a)["sboms"]
             = Q!Cardinality({h[1].sbom : h \in {h \in All : Doc[h[1].sbom].artifact = a}})
    BY DEF PageRow, All
  <2> QED  BY <1>9, <2>1, CardinalitySame
<1>15. Q!CountAffectedNamespacesByVuln(d, v, c) = Cardinality(AffectedSpaces(d, v, c))
  BY <1>11, CardinalitySame DEF Q!CountAffectedNamespacesByVuln, All
<1> QED  BY <1>12, <1>13, <1>14, <1>15 DEF N

(* Its rollup rows that the viewer is shown.                               *)
SpaceRows(d, v, c) == {y \in Q!RollupRows(d, v, "vuln") : y.canonical = c}

(* A vulnerability's totals are its page's: the SBOMs of its rollup rows   *)
(* are those of the artifacts it lists, and it has a row per namespace.    *)
LEMMA VulnTotals ==
    ASSUME NEW d, Fresh(d), NEW v, NEW r \in Q!ListTopVulnerabilities(d, v, FALSE)
    PROVE  \E page : /\ GetVulnerabilityDetail(d, v, r.id) = {page}
                     /\ r.sboms = Total(page.artifacts, "sboms")
                     /\ page.namespaces = Cardinality(SpaceRows(d, v, r.canonical))
<1> DEFINE N == Q!visible_namespace_ids(d, v)
           rows == {y \in d.rollup["vuln"] : y.ns \in N}
           of(c) == {y \in rows : y.canonical = c}
           top(c) == [canonical |-> c, id |-> Q!CanonicalRecord(c), sboms |-> Total(of(c), "sboms"),
                      purls |-> Q!Cardinality(UNION {y.purls : y \in of(c)})]
<1>1. Q!ListTopVulnerabilities(d, v, FALSE) = {top(c) : c \in {y.canonical : y \in rows}}
  BY Zenon DEF Q!ListTopVulnerabilities, Q!Seen, Total
<1>2. PICK c \in {y.canonical : y \in rows} : r = top(c)
  BY <1>1
<1> DEFINE A == Affected(d, v, c)
           row(n) == VulnRow(d.sbom, d.match, <<c, n>>)
           spaces == AffectedSpaces(d, v, c)
<1>3. \A k : /\ VulnRow(d.sbom, d.match, k).canonical = k[1] /\ VulnRow(d.sbom, d.match, k).ns = k[2]
  BY DEF VulnRow
<1>4. d.rollup["vuln"] = {VulnRow(d.sbom, d.match, k) : k \in {HitKey(d.sbom, h) : h \in Hits(d.sbom, d.match)}}
  BY ShownRows, Zenon DEF VulnRows
<1>5. PICK y \in DOMAIN Vuln : Vuln[y].canonical = c /\ c # None
  <2>1. PICK h \in Hits(d.sbom, d.match) : HitKey(d.sbom, h)[1] = c
    BY <1>2, <1>3, <1>4
  <2>2. h[1] \in d.match /\ Vuln[h[1].vuln].canonical = c /\ c # None
    BY <2>1 DEF Hits, HitKey, None
  <2> QED  BY <2>2 DEF Fresh, Stored
<1>6. \A n : (\E h \in Hits(d.sbom, d.match) : HitKey(d.sbom, h) = <<c, n>>) <=> HitGroup(d.sbom, d.match, <<c, n>>) # {}
  BY DEF HitGroup
<1>7. \A n \in N : /\ row(n)["sboms"] = Cardinality(AffectedIn(d, v, c, n))
                   /\ HitGroup(d.sbom, d.match, <<c, n>>) # {} <=> n \in spaces
  BY <1>5, AffectedCounts
<1>8. spaces \subseteq N /\ A \subseteq Q!SBOMs(d) /\ A \subseteq Q!VisibleSBOMs(d, v)
  BY DEF Affected, AffectedSpaces, Q!VisibleSBOMs
<1>9. IsFiniteSet(A)
  BY <1>8, ShownRows, RowsFinite
<1>10. of(c) = {row(n) : n \in spaces}
  <2>1. \A z \in of(c) : \E n \in spaces : z = row(n)
    <3> SUFFICES ASSUME NEW z \in of(c) PROVE \E n \in spaces : z = row(n)
      OBVIOUS
    <3>1. PICK h \in Hits(d.sbom, d.match) : z = VulnRow(d.sbom, d.match, HitKey(d.sbom, h))
      BY <1>4
    <3>2. HitKey(d.sbom, h) = <<c, z.ns>> /\ z.ns \in N
      BY <1>3, <3>1 DEF HitKey
    <3>3. z.ns \in spaces
      BY <1>6, <1>7, <3>2
    <3> QED  BY <3>1, <3>2, <3>3
  <2>2. \A n \in spaces : row(n) \in of(c)
    <3> SUFFICES ASSUME NEW n \in spaces PROVE row(n) \in of(c)
      OBVIOUS
    <3>1. n \in N
      BY <1>8
    <3>2. \E h \in Hits(d.sbom, d.match) : HitKey(d.sbom, h) = <<c, n>>
      BY <1>6, <1>7, <3>1
    <3>3. row(n) \in d.rollup["vuln"]
      BY <1>4, <3>2
    <3> QED  BY <1>3, <3>1, <3>3
  <2> HIDE DEF of, spaces, row
  <2> QED  BY <2>1, <2>2
<1>11. \A n : row(n).ns = n
  BY <1>3
<1>12. \A n \in spaces : row(n)["sboms"] = Cardinality(AffectedIn(d, v, c, n))
  BY <1>7, <1>8
<1> HIDE DEF row, A
<1>13. Total(of(c), "sboms") = Cardinality(A)
  <2> DEFINE tag == [s \in A |-> row(d.sbom[s].ns)]
             D == of(c)
  <2>1. \A s \in A : tag[s] \in D /\ tag[s] = row(d.sbom[s].ns)
    BY <1>10 DEF AffectedSpaces, A
  <2>2. ASSUME NEW x \in D PROVE x["sboms"] = Cardinality(Tagged(A, tag, x)) /\ \E s \in A : tag[s] = x
    <3>1. PICK n \in spaces : x = row(n)
      BY <1>10
    <3>2. Tagged(A, tag, x) = AffectedIn(d, v, c, n)
      BY <1>11, <2>1, <3>1 DEF Tagged, AffectedIn, A
    <3>3. \E s \in A : d.sbom[s].ns = n
      BY DEF AffectedSpaces, A
    <3> QED  BY <1>12, <2>1, <3>1, <3>2, <3>3
  <2> HIDE DEF D, tag
  <2>3. Parts(A, D, tag, "sboms")
    BY <2>1, <2>2 DEF Parts
  <2>4. Total(D, "sboms") = Cardinality(A)
    BY <1>9, <2>3, PartsSum, Zenon
  <2> QED  BY <2>4 DEF D
<1>14. Cardinality(of(c)) = Cardinality(spaces)
  <2> DEFINE f == [n \in spaces |-> row(n)]
             g == [s \in A |-> d.sbom[s].ns]
             D == of(c)
  <2>1. IsFiniteSet(spaces)
    <3>1. spaces = {g[s] : s \in A}
      BY DEF AffectedSpaces, A
    <3> HIDE DEF g, spaces
    <3>2. IsFiniteSet({g[s] : s \in A})
      BY <1>9, Image
    <3> QED  BY <3>1, <3>2
  <2>2. \A n \in spaces : f[n] = row(n)
    OBVIOUS
  <2> HIDE DEF f, spaces
  <2>3. /\ \A n \in spaces : f[n] \in D
        /\ \A x \in D : \E n \in spaces : f[n] = x
        /\ \A m, n \in spaces : f[m] = f[n] => m = n
    BY <1>10, <1>11, <2>2
  <2> HIDE DEF D
  <2>4. Cardinality(D) = Cardinality(spaces)
    BY <2>1, <2>3, SameSize
  <2> QED  BY <2>4 DEF D
<1> DEFINE id == Q!CanonicalRecord(c)
           entry(a) == PageRow(d, v, c, a)
           entries == Q!ListAffectedArtifactsByVuln(d, v, c)
           page == [id |-> id, artifacts |-> entries, components |-> Q!ListAffectedComponentsByVuln(d, v, c),
                    namespaces |-> Q!CountAffectedNamespacesByVuln(d, v, c)]
<1>15. id \in DOMAIN Vuln /\ Vuln[id].canonical = c /\ id # None
  BY <1>5, CanonicalIsOne, FeedAssumption
<1>16. GetVulnerabilityDetail(d, v, id) = {page}
  <2>1. Q!GetVulnerabilityByID(id) = {id}
    BY <1>15 DEF Q!GetVulnerabilityByID
  <2> HIDE DEF id
  <2> QED  BY <1>15, <2>1 DEF GetVulnerabilityDetail
<1>17. entries = {entry(a) : a \in AffectedArtifacts(d, v, c)}
  BY <1>5, AffectedCounts
<1>18. /\ \A a : entry(a).id = a
       /\ \A a \in AffectedArtifacts(d, v, c) : entry(a)["sboms"] = Cardinality(AffectedOf(d, v, c, a))
  <2>1. \A a : entry(a).id = a
    BY DEF PageRow
  <2>2. \A a \in AffectedArtifacts(d, v, c) : PageRow(d, v, c, a)["sboms"] = Cardinality(AffectedOf(d, v, c, a))
    BY <1>5, AffectedCounts
  <2> QED  BY <2>1, <2>2
<1> HIDE DEF entry, entries
<1>19. Total(entries, "sboms") = Cardinality(A)
  <2> DEFINE tag == [s \in A |-> entry(Doc[s].artifact)]
  <2>1. \A s \in A : tag[s] \in entries /\ tag[s] = entry(Doc[s].artifact)
    BY <1>17 DEF AffectedArtifacts, A
  <2>2. ASSUME NEW x \in entries PROVE x["sboms"] = Cardinality(Tagged(A, tag, x)) /\ \E s \in A : tag[s] = x
    <3>1. PICK a \in AffectedArtifacts(d, v, c) : x = entry(a)
      BY <1>17
    <3>2. Tagged(A, tag, x) = AffectedOf(d, v, c, a)
      BY <1>18, <2>1, <3>1 DEF Tagged, AffectedOf, A
    <3>3. \E s \in A : Doc[s].artifact = a
      BY DEF AffectedArtifacts, A
    <3> QED  BY <1>18, <2>1, <3>1, <3>2, <3>3
  <2> HIDE DEF tag
  <2>3. Parts(A, entries, tag, "sboms")
    BY <2>1, <2>2 DEF Parts
  <2> QED  BY <1>9, <2>3, PartsSum, Zenon
<1>20. page.namespaces = Cardinality(spaces)
  BY <1>5, AffectedCounts
<1>21. Q!RollupRows(d, v, "vuln") = rows /\ r.canonical = c /\ r.id = id /\ r.sboms = Total(of(c), "sboms")
  BY <1>2 DEF Q!RollupRows
<1>22. SpaceRows(d, v, r.canonical) = of(c)
  BY <1>21 DEF SpaceRows
<1>23. page.artifacts = entries
  OBVIOUS
<1> HIDE DEF page, of, rows, id, spaces
<1> QED  BY <1>13, <1>14, <1>16, <1>19, <1>20, <1>21, <1>22, <1>23

-----------------------------------------------------------------------------
(**************************************************************************)
(* Packages                                                                *)
(**************************************************************************)
(* The components of one identity that the viewer sees, and their SBOMs.   *)
Copies(d, v, i) == {r \in Q!Rows(Q!VisibleSBOMs(d, v)) : Q!Identity(r.c) = i}
CopiesThere(d, v, i, n) == {r \in Copies(d, v, i) : d.sbom[r.sbom].ns = n}
VersionsThere(d, v, i, n) == {r.c.version : r \in CopiesThere(d, v, i, n)}
Carriers(d, v, i) == {r.sbom : r \in Copies(d, v, i)}
CarriersIn(d, v, i, n) == {s \in Carriers(d, v, i) : d.sbom[s].ns = n}

(* A package's rollup row in a namespace is about its copies there.        *)
LEMMA CopiesCounts ==
    ASSUME NEW d, Fresh(d), NEW v, NEW i, NEW n \in Q!visible_namespace_ids(d, v)
    PROVE  LET row == ComponentRow(d.sbom, d.match, <<n, i>>)
           IN /\ row.ns = n /\ row.id = i
              /\ row["sboms"] = Cardinality(CarriersIn(d, v, i, n))
              /\ row.versions = VersionsThere(d, v, i, n)
              /\ row \in d.rollup["component"] <=> \E r \in Copies(d, v, i) : d.sbom[r.sbom].ns = n
<1> DEFINE row == ComponentRow(d.sbom, d.match, <<n, i>>)
           G == ComponentGroup(d.sbom, <<n, i>>)
<1>1. \A r : r \in G <=> r \in Joining(d.sbom) /\ d.sbom[r.sbom].ns = n /\ Q!Identity(r.c) = i
  BY DEF ComponentGroup, ComponentKey
<1>2. G = CopiesThere(d, v, i, n)
  BY <1>1, ShownRows DEF CopiesThere, Copies
<1>3. /\ row.ns = n /\ row.id = i /\ row.versions = {r.c.version : r \in G}
      /\ row["sboms"] = Q!Cardinality({r.sbom : r \in G})
  BY DEF ComponentRow
<1>4. {r.sbom : r \in G} = CarriersIn(d, v, i, n)
  BY <1>2 DEF CarriersIn, Carriers, CopiesThere
<1>5. \A k : ComponentRow(d.sbom, d.match, k).ns = k[1] /\ ComponentRow(d.sbom, d.match, k).id = k[2]
  BY DEF ComponentRow
<1>6. d.rollup["component"] = {ComponentRow(d.sbom, d.match, k) : k \in {ComponentKey(d.sbom, r) : r \in Joining(d.sbom)}}
  BY ShownRows, Zenon DEF ComponentRows
<1>7. row \in d.rollup["component"] <=> \E r \in Copies(d, v, i) : d.sbom[r.sbom].ns = n
  <2>1. ASSUME NEW r \in Copies(d, v, i), d.sbom[r.sbom].ns = n PROVE row \in d.rollup["component"]
    <3>1. r \in Joining(d.sbom) /\ ComponentKey(d.sbom, r) = <<n, i>>
      BY <2>1, ShownRows DEF Copies, ComponentKey
    <3> QED  BY <1>6, <3>1
  <2>2. ASSUME row \in d.rollup["component"] PROVE \E r \in Copies(d, v, i) : d.sbom[r.sbom].ns = n
    <3>1. PICK r \in Joining(d.sbom) : row = ComponentRow(d.sbom, d.match, ComponentKey(d.sbom, r))
      BY <1>6, <2>2
    <3>2. d.sbom[r.sbom].ns = n /\ Q!Identity(r.c) = i
      <4> HIDE DEF row
      <4> QED  BY <1>3, <1>5, <3>1 DEF ComponentKey
    <3> QED  BY <3>1, <3>2, ShownRows DEF Copies
  <2> QED  BY <2>1, <2>2
<1> HIDE DEF row, G
<1> QED  BY <1>2, <1>3, <1>4, <1>7, CardinalitySame DEF row, VersionsThere

(* A package counts the versions and the SBOMs that its page counts.       *)
LEMMA PackageCounts ==
    ASSUME NEW d, Fresh(d), NEW v, NEW r \in Q!SearchDistinctComponents(d, v), r.id[2] # None
    PROVE  LET f == [name |-> r.id[1], group |-> r.id[2], version |-> None, type |-> r.id[3]]
               counts == GetComponentVersions(d, v, f).counts
           IN r.versions = counts.versions /\ r.sboms = counts.sboms
<1> DEFINE N == Q!visible_namespace_ids(d, v)
           all == Q!RollupRows(d, v, "component")
           of(i) == {x \in all : x.id = i}
           top(i) == [id       |-> i,
                      types    |-> UNION {x.types : x \in of(i)},
                      versions |-> Q!Cardinality((UNION {x.versions : x \in of(i)}) \ {Q!None}),
                      sboms    |-> Total(of(i), "sboms"),
                      vulns    |-> Q!MaxCounts(of(i))]
<1>1. Q!SearchDistinctComponents(d, v) = {top(i) : i \in {x.id : x \in all}}
  BY Zenon DEF Q!SearchDistinctComponents, Total
<1>2. PICK i \in {x.id : x \in all} : r = top(i)
  BY <1>1
<1>3. r.id = i /\ r.sboms = Total(of(i), "sboms") /\ r.versions = Q!Cardinality((UNION {x.versions : x \in of(i)}) \ {Q!None})
  BY <1>2
<1> DEFINE f == [name |-> i[1], group |-> i[2], version |-> None, type |-> i[3]]
           row(n) == ComponentRow(d.sbom, d.match, <<n, i>>)
           spaces == {n \in N : \E x \in Copies(d, v, i) : d.sbom[x.sbom].ns = n}
<1>4. PICK y \in Joining(d.sbom) : Q!Identity(y.c) = i
  <2>1. \A k : ComponentRow(d.sbom, d.match, k).id = k[2]
    BY DEF ComponentRow
  <2>2. all \subseteq ComponentRows(d.sbom, d.match)
    BY ShownRows DEF Q!RollupRows
  <2> QED  BY <2>1, <2>2 DEF ComponentRows, ComponentKey
<1>5. i[1] # None /\ i[3] # None /\ i[2] # None
  <2>1. y.sbom \in Q!SBOMs(d) /\ y.c \in Doc[y.sbom].components
    BY ShownRows, RowsFinite
  <2>2. None \notin {y.c.name, y.c.type}
    BY <2>1, DocumentAssumption DEF Fresh, Stored
  <2> QED  BY <1>3, <1>4, <2>2 DEF Q!Identity
<1>6. \A c : i = Q!Identity(c) <=> Q!ComponentMatch(c, f)
  <2>1. i = <<i[1], i[2], i[3]>>
    BY <1>4 DEF Q!Identity
  <2>2. \A c : Q!ComponentMatch(c, f) <=> i[1] = c.name /\ i[2] = c.group /\ i[3] = c.type
    BY <1>5 DEF Q!ComponentMatch, Q!None, None
  <2>3. \A c : i = Q!Identity(c) <=> i[1] = c.name /\ i[2] = c.group /\ i[3] = c.type
    BY <2>1 DEF Q!Identity
  <2> QED  BY <2>2, <2>3
<1> HIDE DEF f
<1>7. Q!SearchComponents(d, v, f) = Copies(d, v, i)
  BY <1>6 DEF Q!SearchComponents, Copies
<1>8. of(i) = {row(n) : n \in spaces}
  <2>1. \A n \in N : row(n).ns = n /\ row(n).id = i /\ (row(n) \in d.rollup["component"] <=> n \in spaces)
    BY CopiesCounts
  <2>2. \A k : ComponentRow(d.sbom, d.match, k).ns = k[1] /\ ComponentRow(d.sbom, d.match, k).id = k[2]
    BY DEF ComponentRow
  <2>3. \A x \in of(i) : x.ns \in N /\ x = row(x.ns)
    <3> SUFFICES ASSUME NEW x \in of(i) PROVE x.ns \in N /\ x = row(x.ns)
      OBVIOUS
    <3>1. x \in ComponentRows(d.sbom, d.match) /\ x.ns \in N /\ x.id = i
      BY ShownRows DEF Q!RollupRows
    <3>2. PICK z \in Joining(d.sbom) : x = ComponentRow(d.sbom, d.match, ComponentKey(d.sbom, z))
      BY <3>1 DEF ComponentRows
    <3>3. ComponentKey(d.sbom, z) = <<x.ns, i>>
      BY <2>2, <3>1, <3>2 DEF ComponentKey
    <3> QED  BY <3>1, <3>2, <3>3
  <2>4. \A x : x \in of(i) <=> x \in d.rollup["component"] /\ x.ns \in N /\ x.id = i
    BY DEF Q!RollupRows
  <2>5. spaces \subseteq N
    OBVIOUS
  <2> HIDE DEF of, row, spaces, N
  <2>6. \A n \in spaces : row(n) \in of(i)
    BY <2>1, <2>4, <2>5
  <2>7. \A x \in of(i) : x.ns \in spaces /\ x = row(x.ns)
    BY <2>1, <2>3, <2>4
  <2> QED  BY <2>6, <2>7
<1>9. \A n \in spaces : /\ row(n).ns = n /\ row(n)["sboms"] = Cardinality(CarriersIn(d, v, i, n))
                        /\ row(n).versions = VersionsThere(d, v, i, n)
  <2> SUFFICES ASSUME NEW n \in N
               PROVE  /\ row(n).ns = n /\ row(n)["sboms"] = Cardinality(CarriersIn(d, v, i, n))
                      /\ row(n).versions = VersionsThere(d, v, i, n)
    OBVIOUS
  <2> QED  BY CopiesCounts
<1>10. \A x \in Copies(d, v, i) : d.sbom[x.sbom].ns \in spaces /\ x \in CopiesThere(d, v, i, d.sbom[x.sbom].ns)
  BY ShownRows DEF Copies, CopiesThere
<1>11. UNION {x.versions : x \in of(i)} = {x.c.version : x \in Copies(d, v, i)}
  <2> DEFINE A == Copies(d, v, i)
             D == of(i)
  <2>1. \A n : CopiesThere(d, v, i, n) \subseteq A
    BY DEF CopiesThere
  <2> HIDE DEF of, row, spaces, A
  <2>2. \A x \in D : \A z \in x.versions : \E y1 \in A : z = y1.c.version
    <3> SUFFICES ASSUME NEW x \in D, NEW z \in x.versions PROVE \E y1 \in A : z = y1.c.version
      OBVIOUS
    <3>1. PICK n \in spaces : x = row(n)
      BY <1>8
    <3>2. z \in {u.c.version : u \in CopiesThere(d, v, i, n)}
      BY <1>9, <3>1 DEF VersionsThere
    <3> QED  BY <2>1, <3>2
  <2>3. \A y1 \in A : \E x \in D : y1.c.version \in x.versions
    <3> SUFFICES ASSUME NEW y1 \in A PROVE \E x \in D : y1.c.version \in x.versions
      OBVIOUS
    <3> DEFINE n == d.sbom[y1.sbom].ns
    <3>1. n \in spaces /\ y1 \in CopiesThere(d, v, i, n)
      BY <1>10 DEF A
    <3>2. row(n) \in D /\ row(n).versions = {u.c.version : u \in CopiesThere(d, v, i, n)}
      BY <1>8, <1>9, <3>1 DEF VersionsThere
    <3> QED  BY <3>1, <3>2
  <2> HIDE DEF D
  <2>4. UNION {x.versions : x \in D} = {x.c.version : x \in A}
    BY <2>2, <2>3
  <2> QED  BY <2>4 DEF D, A
<1>12. Total(of(i), "sboms") = Cardinality(Carriers(d, v, i))
  <2> DEFINE A == Carriers(d, v, i)
             D == of(i)
             tag == [s \in A |-> row(d.sbom[s].ns)]
  <2>1. A \subseteq Q!SBOMs(d) /\ \A s \in A : d.sbom[s].ns \in spaces
    BY <1>10, ShownRows, RowsFinite DEF Carriers, Copies
  <2>2. IsFiniteSet(A)
    BY <2>1, ShownRows, RowsFinite
  <2>3. \A s \in A : tag[s] = row(d.sbom[s].ns) /\ tag[s] \in D
    BY <1>8, <2>1
  <2>4. ASSUME NEW x \in D PROVE x["sboms"] = Cardinality(Tagged(A, tag, x)) /\ \E s \in A : tag[s] = x
    <3>1. PICK n \in spaces : x = row(n)
      BY <1>8
    <3>2. PICK z \in Copies(d, v, i) : d.sbom[z.sbom].ns = n
      OBVIOUS
    <3>3. z.sbom \in A /\ d.sbom[z.sbom].ns = n
      BY <3>2 DEF Carriers
    <3> HIDE DEF row, spaces, of, tag
    <3>4. tag[z.sbom] = x
      BY <2>3, <3>1, <3>3
    <3>5. \A s \in A : tag[s] = x <=> d.sbom[s].ns = n
      <4>1. \A m \in spaces : row(m).ns = m
        BY <1>9
      <4> QED  BY <2>1, <2>3, <3>1, <4>1
    <3>6. Tagged(A, tag, x) = CarriersIn(d, v, i, n)
      BY <3>5 DEF Tagged, CarriersIn, A
    <3> QED  BY <1>9, <3>1, <3>3, <3>4, <3>6
  <2> HIDE DEF D, tag, A
  <2>5. Parts(A, D, tag, "sboms")
    BY <2>3, <2>4 DEF Parts
  <2>6. Total(D, "sboms") = Cardinality(A)
    BY <2>2, <2>5, PartsSum, Zenon
  <2> QED  BY <2>6 DEF D, A
<1>13. /\ GetComponentVersions(d, v, f).counts.versions = Q!Cardinality({x.c.version : x \in Copies(d, v, i)} \ {Q!None})
       /\ GetComponentVersions(d, v, f).counts.sboms = Q!Cardinality(Carriers(d, v, i))
  BY <1>7 DEF GetComponentVersions, Q!CountComponentVersions, Carriers
<1> HIDE DEF of, row, spaces, top
<1>14. r.versions = GetComponentVersions(d, v, f).counts.versions
  BY <1>3, <1>11, <1>13, Zenon
<1>15. r.sboms = GetComponentVersions(d, v, f).counts.sboms
  BY <1>3, <1>12, <1>13, CardinalitySame
<1> QED  BY <1>3, <1>14, <1>15, Zenon DEF f

-----------------------------------------------------------------------------
(**************************************************************************)
(* Usages                                                                  *)
(**************************************************************************)
(* What the service keeps of the joined rows is the artifact's: each join   *)
(* finds every component that is, and the discovery query one more only if  *)
(* its purl has the artifact's base.                                        *)
ExactMatch(a, c) == SameKey(a, c) \/ commandMatch(a, c)
SameBase(a, c) == Q!HasPurl(c) /\ c.base = Artifact[a].base

LEMMA JoinsAgree ==
    ASSUME NEW a \in DOMAIN Artifact, NEW s \in DOMAIN Doc, NEW c \in Doc[s].components
    PROVE  /\ ExactMatch(a, c) => Q!ContainsJoin(a, c) /\ Q!UsageJoin(a, modulePurlBases(Artifact[a].base), c)
           /\ SameBase(a, c) => Q!UsageJoin(a, modulePurlBases(Artifact[a].base), c)
           /\ Q!DiscoverUsage(a, c) <=> ExactMatch(a, c) \/ SameBase(a, c)
<1> DEFINE base == Artifact[a].base
           prefix == IsStrictPrefix(c.base, base)
           tuple == Q!SameTuple(a, c)
           bases == modulePurlBases(base)
           same == SameKey(a, c)
<1>1. c.base \in Seq(STRING) /\ Len(c.base) # 1
  BY DocumentAssumption
<1>2. Artifact[a].name # None
  BY ArtifactAssumption
<1>3. c.base # <<>> /\ base # <<>> /\ Head(base) = "golang" /\ prefix =>
        c.base \in bases /\ Len(c.base) >= 2 /\ Head(c.base) = "golang"
  BY <1>1, ModuleBases
<1>4. Q!IsStrictPrefix(c.base, base) <=> prefix
  BY DEF Q!IsStrictPrefix, Q!IsPrefix, IsStrictPrefix, IsPrefix
<1>5. tuple => c.base = <<>> /\ base = <<>>
  BY DEF Q!SameTuple, Q!HasPurl
<1>6. /\ same => (c.base # <<>> /\ base = c.base) \/ tuple
      /\ tuple => same
  <2> DEFINE pair(x) == normalizeComponentPurl(x)
             triple(x) == <<x.type, x.name, x.group>>
             key(x) == IF x.base # <<>> THEN <<"purl", pair(x)>> ELSE <<"tuple", triple(x)>>
  <2>1. componentKey(Artifact[a]) = key(Artifact[a]) /\ componentKey(c) = key(c)
    BY DEF componentKey, Q!HasPurl
  <2>2. \A x : pair(x)[1] = x.base
    BY DEF normalizeComponentPurl
  <2>3. tuple <=> c.base = <<>> /\ base = <<>> /\ triple(Artifact[a]) = triple(c)
    BY DEF Q!SameTuple, Q!HasPurl, Q!Identity
  <2> HIDE DEF pair, triple, tuple
  <2>4. key(Artifact[a]) = key(c) => (c.base # <<>> /\ base # <<>> /\ pair(Artifact[a]) = pair(c))
                                       \/ (c.base = <<>> /\ base = <<>> /\ triple(Artifact[a]) = triple(c))
    OBVIOUS
  <2>5. key(Artifact[a]) = key(c) => (c.base # <<>> /\ base = c.base) \/ tuple
    BY <2>2, <2>3, <2>4
  <2>6. tuple => key(Artifact[a]) = key(c)
    BY <2>3
  <2> QED  BY <2>1, <2>5, <2>6 DEF SameKey
<1>7. commandMatch(a, c) <=> /\ c.file # None /\ base # <<>> /\ c.base # <<>> /\ Head(c.base) = "golang"
                             /\ Head(base) = "golang" /\ prefix /\ c.file = Artifact[a].name
  BY DEF commandMatch, Q!HasPurl
<1>8. Q!ContainsJoin(a, c) <=> (c.base # <<>> /\ base = c.base) \/ tuple \/ (c.base # <<>> /\ c.file # None /\ prefix)
  BY <1>4 DEF Q!ContainsJoin, Q!HasPurl, Q!None, None
<1>9. Q!UsageJoin(a, bases, c) <=> (base # <<>> /\ c.base # <<>> /\ c.base = base) \/ tuple
                                       \/ (c.base # <<>> /\ c.file # None /\ c.base \in bases)
  BY DEF Q!UsageJoin, Q!HasPurl, Q!None, None
<1>10. Q!DiscoverUsage(a, c) <=> \/ base # <<>> /\ c.base # <<>> /\ c.base = base
                                 \/ base = <<>> /\ tuple
                                 \/ /\ base # <<>> /\ Head(base) = "golang" /\ c.base # <<>>
                                    /\ c.file = Artifact[a].name /\ Len(c.base) >= 2 /\ prefix
  BY <1>4 DEF Q!DiscoverUsage, Q!HasPurl
<1>11. ExactMatch(a, c) <=> same \/ commandMatch(a, c)
  BY DEF ExactMatch
<1>12. SameBase(a, c) <=> c.base # <<>> /\ c.base = base
  BY DEF SameBase, Q!HasPurl
<1> HIDE DEF base, prefix, tuple, bases, same
<1>13. ExactMatch(a, c) => Q!ContainsJoin(a, c) /\ Q!UsageJoin(a, bases, c)
  BY <1>3, <1>6, <1>7, <1>8, <1>9, <1>11
<1>14. SameBase(a, c) => Q!UsageJoin(a, bases, c)
  BY <1>9, <1>12
<1>15. Q!DiscoverUsage(a, c) <=> ExactMatch(a, c) \/ SameBase(a, c)
  BY <1>2, <1>3, <1>5, <1>6, <1>7, <1>10, <1>11, <1>12
<1> QED  BY <1>13, <1>14, <1>15 DEF bases, base

(* The newest SBOM the viewer sees of a contains b, or a package of its     *)
(* purl base.                                                               *)
NewestOf(d, v, a) == Q!Newest(d, Q!VisibleOf(d, v, a))

NewestContains(d, v, a, b) ==
    /\ a # b /\ Q!VisibleOf(d, v, a) # {}
    /\ \E c \in Doc[NewestOf(d, v, a)].components : ExactMatch(b, c)

NewestHolds(d, v, a, b) ==
    /\ a # b /\ Q!VisibleOf(d, v, a) # {}
    /\ \E c \in Doc[NewestOf(d, v, a)].components : SameBase(b, c)

LEMMA NewestSeen ==
    ASSUME NEW d, Valid(d), Stored(d), NEW v, NEW a, Q!VisibleOf(d, v, a) # {}
    PROVE  /\ NewestOf(d, v, a) \in Q!VisibleOf(d, v, a) /\ NewestOf(d, v, a) \in Q!VisibleSBOMs(d, v)
           /\ NewestOf(d, v, a) \in DOMAIN Doc /\ Doc[NewestOf(d, v, a)].artifact = a
<1>1. Q!VisibleOf(d, v, a) \in SUBSET Q!SBOMs(d)
  BY DEF Q!VisibleOf, Q!SBOMsOf
<1>2. NewestOf(d, v, a) \in Q!VisibleOf(d, v, a)
  BY <1>1, NewestIsOne DEF NewestOf
<1> QED  BY <1>1, <1>2 DEF Q!VisibleOf, Q!SBOMsOf, Stored

(* The rows of the usage query of b.                                        *)
UsageRows(d, v, b) == Q!ListArtifactUsages(d, v, b, modulePurlBases(Artifact[b].base))

LEMMA UsageRow ==
    ASSUME NEW d, Valid(d), Stored(d), NEW v, NEW b \in DOMAIN Artifact
    PROVE  /\ \A r \in UsageRows(d, v, b) :
                /\ r.artifact \in DOMAIN Artifact /\ r.artifact # b /\ Q!VisibleOf(d, v, r.artifact) # {}
                /\ r.c \in Doc[NewestOf(d, v, r.artifact)].components
           /\ \A a \in DOMAIN Artifact : a # b /\ Q!VisibleOf(d, v, a) # {} =>
                \A c \in Doc[NewestOf(d, v, a)].components : ExactMatch(b, c) \/ SameBase(b, c) =>
                  \E r \in UsageRows(d, v, b) : r.artifact = a /\ r.c = c
<1> DEFINE row(r) == [artifact |-> Doc[r.sbom].artifact, sbom |-> r.sbom, c |-> r.c]
           R == {r \in Q!Rows(Q!VisibleSBOMs(d, v)) :
                   /\ Q!UsageJoin(b, modulePurlBases(Artifact[b].base), r.c)
                   /\ Doc[r.sbom].artifact # b
                   /\ r.sbom = NewestOf(d, v, Doc[r.sbom].artifact)}
<1>1. UsageRows(d, v, b) = {row(r) : r \in R}
  BY Zenon DEF UsageRows, Q!ListArtifactUsages, NewestOf
<1>2. \A r \in R : row(r).artifact = Doc[r.sbom].artifact /\ row(r).c = r.c
  OBVIOUS
<1>3. ASSUME NEW r \in R
      PROVE  /\ Doc[r.sbom].artifact \in DOMAIN Artifact /\ Doc[r.sbom].artifact # b
             /\ Q!VisibleOf(d, v, Doc[r.sbom].artifact) # {}
             /\ r.c \in Doc[NewestOf(d, v, Doc[r.sbom].artifact)].components
  <2> DEFINE a == Doc[r.sbom].artifact
  <2>1. r \in Q!Rows(Q!VisibleSBOMs(d, v)) /\ a # b /\ r.sbom = NewestOf(d, v, a)
    OBVIOUS
  <2>2. r.sbom \in Q!VisibleSBOMs(d, v) /\ r.c \in Doc[r.sbom].components
    BY <2>1, RowsFinite DEF Q!VisibleSBOMs
  <2>3. r.sbom \in Q!VisibleOf(d, v, a)
    BY <2>2 DEF Q!VisibleOf, Q!SBOMsOf, Q!VisibleSBOMs
  <2>4. a \in DOMAIN Artifact
    BY <2>2, DocumentAssumption DEF Q!VisibleSBOMs, Stored
  <2> QED  BY <2>1, <2>2, <2>3, <2>4
<1>4. ASSUME NEW a \in DOMAIN Artifact, a # b, Q!VisibleOf(d, v, a) # {},
             NEW c \in Doc[NewestOf(d, v, a)].components, ExactMatch(b, c) \/ SameBase(b, c)
      PROVE  \E r \in R : Doc[r.sbom].artifact = a /\ r.c = c
  <2> DEFINE s == NewestOf(d, v, a)
             r == [sbom |-> s, c |-> c]
  <2>1. s \in Q!VisibleSBOMs(d, v) /\ s \in DOMAIN Doc /\ Doc[s].artifact = a
    BY <1>4, NewestSeen
  <2>2. Q!UsageJoin(b, modulePurlBases(Artifact[b].base), c)
    BY <1>4, <2>1, JoinsAgree
  <2>3. r \in Q!Rows(Q!VisibleSBOMs(d, v)) /\ r.sbom = s /\ r.c = c
    BY <2>1 DEF Q!Rows
  <2> HIDE DEF r
  <2>4. r \in R
    BY <1>4, <2>1, <2>2, <2>3
  <2> QED  BY <2>1, <2>3, <2>4
<1> HIDE DEF row, R
<1> QED  BY <1>1, <1>2, <1>3, <1>4

(* The rows that are kept are some of the rows, and all of them uncut.      *)
LEMMA SomeKept ==
    ASSUME NEW rows, NEW S \in Q!Limited(rows, RelationLimit)
    PROVE  S \subseteq rows
  BY DEF Q!Limited

(* A usage page names only artifacts whose newest SBOM contains b, and all  *)
(* of them unless its rows are cut.                                         *)
LEMMA UsedBy ==
    ASSUME NEW d, Valid(d), Stored(d), NEW v, NEW b \in DOMAIN Artifact, NEW X \in GetArtifactUsages(d, v, b)
    PROVE  /\ \A x \in X : x.r.artifact \in DOMAIN Artifact /\ NewestContains(d, v, x.r.artifact, b)
           /\ UsagesCut(d, v, b)
                \/ \A a \in DOMAIN Artifact : NewestContains(d, v, a, b) => \E x \in X : x.r.artifact = a
<1> DEFINE rows == UsageRows(d, v, b)
           current == Q!GetArtifactCurrentVersion(d, v, b)
           shown(S) == {[r |-> r, current |-> current] : r \in {r \in S : ExactMatch(b, r.c)}}
<1>1. PICK S \in Q!Limited(rows, RelationLimit) : X = shown(S)
  <2>1. GetArtifactUsages(d, v, b) = IF visibleArtifact(d, v, b) THEN {shown(S) : S \in Q!Limited(rows, RelationLimit)} ELSE {}
    BY Zenon DEF GetArtifactUsages, UsageRows, ExactMatch
  <2> HIDE DEF shown, rows
  <2> QED  BY <2>1
<1>2. S \subseteq rows
  BY SomeKept
<1>3. UsagesCut(d, v, b) \/ S = rows
  <2>1. UsagesCut(d, v, b) <=> Q!Limited(rows, RelationLimit) # {rows}
    BY DEF UsagesCut, UsageRows
  <2> HIDE DEF rows
  <2> QED  BY <2>1
<1>4. /\ \A x \in X : \E r \in S : x.r = r /\ ExactMatch(b, r.c)
      /\ \A r \in S : ExactMatch(b, r.c) => \E x \in X : x.r = r
  <2> DEFINE pair(r) == [r |-> r, current |-> current]
             K == {r \in S : ExactMatch(b, r.c)}
  <2>1. X = {pair(r) : r \in K} /\ \A r : pair(r).r = r
    BY <1>1
  <2> HIDE DEF pair
  <2> QED  BY <2>1
<1> HIDE DEF rows, shown
<1>5. \A r \in rows : /\ r.artifact \in DOMAIN Artifact
                      /\ ExactMatch(b, r.c) => NewestContains(d, v, r.artifact, b)
  BY UsageRow DEF rows, NewestContains
<1>6. \A a \in DOMAIN Artifact : NewestContains(d, v, a, b) => \E r \in rows : r.artifact = a /\ ExactMatch(b, r.c)
  <2> SUFFICES ASSUME NEW a \in DOMAIN Artifact, NewestContains(d, v, a, b)
               PROVE  \E r \in rows : r.artifact = a /\ ExactMatch(b, r.c)
    OBVIOUS
  <2>1. PICK c \in Doc[NewestOf(d, v, a)].components : ExactMatch(b, c)
    BY DEF NewestContains
  <2>2. \E r \in rows : r.artifact = a /\ r.c = c
    BY <2>1, UsageRow DEF rows, NewestContains
  <2> QED  BY <2>1, <2>2
<1>7. \A x \in X : x.r.artifact \in DOMAIN Artifact /\ NewestContains(d, v, x.r.artifact, b)
  BY <1>2, <1>4, <1>5
<1>8. S = rows => \A a \in DOMAIN Artifact : NewestContains(d, v, a, b) => \E x \in X : x.r.artifact = a
  BY <1>4, <1>6
<1> QED  BY <1>3, <1>7, <1>8

(* The page of what a contains, likewise.                                   *)
LEMMA ContainedIn ==
    ASSUME NEW d, Valid(d), Stored(d), NEW v, NEW a, NEW X \in GetArtifactContains(d, v, a)
    PROVE  /\ \A r \in X : NewestContains(d, v, a, r.artifact)
           /\ ContainsCut(d, v, a)
                \/ \A b \in d.artifacts : Q!artifact_visible(d, v, b) /\ NewestContains(d, v, a, b) => \E r \in X : r.artifact = b
<1> DEFINE s == NewestOf(d, v, a)
           rows == Q!ListArtifactContains(d, v, a)
           kept(r) == ExactMatch(r.artifact, r.c)
           shown(S) == {r \in S : kept(r)}
           row(e, c) == [artifact |-> e, c |-> c, current |-> Q!GetArtifactCurrentVersion(d, v, e)]
           found(c) == {e \in d.artifacts \ {a} : Q!ContainsJoin(e, c) /\ Q!artifact_visible(d, v, e)}
           part(c) == {row(e, c) : e \in found(c)}
<1>1. PICK S \in Q!Limited(rows, RelationLimit) : X = shown(S)
  <2>1. GetArtifactContains(d, v, a) = IF visibleArtifact(d, v, a) THEN {shown(S) : S \in Q!Limited(rows, RelationLimit)} ELSE {}
    BY Zenon DEF GetArtifactContains, ExactMatch
  <2> HIDE DEF shown, rows
  <2> QED  BY <2>1
<1>2. S \subseteq rows
  BY SomeKept
<1>3. ContainsCut(d, v, a) \/ S = rows
  <2>1. ContainsCut(d, v, a) <=> Q!Limited(rows, RelationLimit) # {rows}
    BY DEF ContainsCut
  <2> HIDE DEF rows
  <2> QED  BY <2>1
<1>4. rows = IF Q!VisibleOf(d, v, a) = {} THEN {} ELSE UNION {part(c) : c \in Doc[s].components}
  BY Zenon DEF Q!ListArtifactContains, NewestOf
<1>5. \A e, c : row(e, c).artifact = e /\ row(e, c).c = c
  OBVIOUS
<1>6. ASSUME NEW r \in rows, kept(r) PROVE NewestContains(d, v, a, r.artifact)
  <2>1. Q!VisibleOf(d, v, a) # {}
    BY <1>4
  <2>2. PICK c \in Doc[s].components : r \in part(c)
    BY <1>4, <2>1
  <2>3. PICK e \in found(c) : r = row(e, c)
    BY <2>2
  <2>4. r.artifact = e /\ r.c = c /\ e # a
    BY <1>5, <2>3
  <2> QED  BY <1>6, <2>1, <2>4 DEF NewestContains
<1>7. ASSUME NEW b \in d.artifacts, Q!artifact_visible(d, v, b), NewestContains(d, v, a, b)
      PROVE  \E r \in rows : r.artifact = b /\ kept(r)
  <2>1. PICK c \in Doc[s].components : ExactMatch(b, c)
    BY <1>7 DEF NewestContains
  <2>2. b \in DOMAIN Artifact /\ s \in DOMAIN Doc
    BY <1>7, NewestSeen DEF NewestContains, Stored
  <2>3. Q!ContainsJoin(b, c)
    BY <2>1, <2>2, JoinsAgree
  <2>4. row(b, c) \in part(c)
    BY <1>7, <2>3 DEF NewestContains
  <2>5. row(b, c) \in rows
    <3> HIDE DEF part, row, rows
    <3> QED  BY <1>4, <1>7, <2>4 DEF NewestContains
  <2>6. row(b, c).artifact = b /\ kept(row(b, c))
    <3>1. row(b, c).artifact = b /\ row(b, c).c = c
      BY <1>5
    <3> HIDE DEF row
    <3> QED  BY <2>1, <3>1
  <2> HIDE DEF row, rows, kept
  <2> QED  BY <2>5, <2>6
<1> HIDE DEF rows, kept
<1>8. \A r : r \in X <=> r \in S /\ kept(r)
  BY <1>1
<1> QED  BY <1>2, <1>3, <1>6, <1>7, <1>8

(* What contains an artifact is where it is used, unless a page is cut.     *)
LEMMA ContainedIsUsed ==
    ASSUME NEW d, Fresh(d), NEW v, NEW a \in d.artifacts, Q!artifact_visible(d, v, a),
           NEW b \in d.artifacts, Q!artifact_visible(d, v, b),
           NEW X \in GetArtifactContains(d, v, a), NEW Y \in GetArtifactUsages(d, v, b)
    PROVE  /\ (\E r \in X : r.artifact = b) => (\E r \in Y : r.r.artifact = a) \/ UsagesCut(d, v, b)
           /\ (\E r \in Y : r.r.artifact = a) => (\E r \in X : r.artifact = b) \/ ContainsCut(d, v, a)
<1>1. Valid(d) /\ Stored(d) /\ a \in DOMAIN Artifact /\ b \in DOMAIN Artifact
  BY DEF Fresh, Stored
<1>2. (\E r \in X : r.artifact = b) => NewestContains(d, v, a, b)
  BY <1>1, ContainedIn
<1>3. (\E r \in Y : r.r.artifact = a) => NewestContains(d, v, a, b)
  BY <1>1, UsedBy
<1>4. NewestContains(d, v, a, b) => (\E r \in Y : r.r.artifact = a) \/ UsagesCut(d, v, b)
  BY <1>1, UsedBy
<1>5. NewestContains(d, v, a, b) => (\E r \in X : r.artifact = b) \/ ContainsCut(d, v, a)
  BY <1>1, ContainedIn
<1> QED  BY <1>2, <1>3, <1>4, <1>5

(* The public usage count of an artifact counts those its usage page may    *)
(* name and those that hold a package of its purl base.                     *)
LEMMA DiscoveryCounts ==
    ASSUME NEW d, Valid(d), Stored(d)
    PROVE  DiscoveryAgrees(d)
<1> DEFINE v == Q!Anonymous
           latest == {NewestOf(d, v, a) : a \in {Doc[s].artifact : s \in Q!VisibleSBOMs(d, v)}}
           consumers(a) == {s \in latest : Doc[s].artifact # a /\ \E c \in Doc[s].components : Q!DiscoverUsage(a, c)}
           counted(a) == {Doc[s].artifact : s \in consumers(a)}
           top(a) == [id |-> a, usages |-> Q!Cardinality(counted(a)),
                      versions |-> Q!Cardinality({Doc[s].version : s \in Q!VisibleOf(d, v, a)}),
                      sboms |-> Q!Cardinality(Q!VisibleOf(d, v, a))]
           others(a) == {x.artifact : x \in {x \in UsageRows(d, v, a) : SameBase(a, x.c)}}
<1>1. Q!GetDiscoverTopArtifacts(d) = {top(a) : a \in {Doc[s].artifact : s \in latest}}
  BY Zenon DEF Q!GetDiscoverTopArtifacts, Q!GetDiscoverRecentArtifacts, NewestOf
<1>2. \A a : Q!VisibleOf(d, v, a) # {} => NewestOf(d, v, a) \in latest
  BY DEF Q!VisibleOf, Q!SBOMsOf
<1>3. \A s \in latest : LET a == Doc[s].artifact IN
        Q!VisibleOf(d, v, a) # {} /\ s = NewestOf(d, v, a) /\ s \in DOMAIN Doc /\ a \in DOMAIN Artifact
  <2> TAKE s \in latest
  <2>1. PICK t \in Q!VisibleSBOMs(d, v) : s = NewestOf(d, v, Doc[t].artifact)
    OBVIOUS
  <2>2. t \in Q!VisibleOf(d, v, Doc[t].artifact)
    BY DEF Q!VisibleOf, Q!SBOMsOf, Q!VisibleSBOMs
  <2>3. Doc[s].artifact = Doc[t].artifact /\ s \in DOMAIN Doc
    BY <2>1, <2>2, NewestSeen
  <2> QED  BY <2>1, <2>2, <2>3, DocumentAssumption
<1> HIDE DEF latest
<1>4. ASSUME NEW a \in DOMAIN Artifact
      PROVE  /\ counted(a) \subseteq DOMAIN Artifact
             /\ \A b \in DOMAIN Artifact : b \in counted(a) <=> NewestContains(d, v, b, a) \/ NewestHolds(d, v, b, a)
  <2>1. \A s \in DOMAIN Doc : \A c \in Doc[s].components : Q!DiscoverUsage(a, c) <=> ExactMatch(a, c) \/ SameBase(a, c)
    BY JoinsAgree
  <2>2. \A s \in consumers(a) : LET b == Doc[s].artifact IN
          b \in DOMAIN Artifact /\ (NewestContains(d, v, b, a) \/ NewestHolds(d, v, b, a))
    BY <1>3, <2>1 DEF NewestContains, NewestHolds
  <2>3. ASSUME NEW b \in DOMAIN Artifact, NewestContains(d, v, b, a) \/ NewestHolds(d, v, b, a)
        PROVE  NewestOf(d, v, b) \in consumers(a) /\ Doc[NewestOf(d, v, b)].artifact = b
    <3>1. Q!VisibleOf(d, v, b) # {} /\ b # a
      BY <2>3 DEF NewestContains, NewestHolds
    <3>2. NewestOf(d, v, b) \in latest /\ Doc[NewestOf(d, v, b)].artifact = b /\ NewestOf(d, v, b) \in DOMAIN Doc
      BY <1>2, <3>1, NewestSeen
    <3>3. \E c \in Doc[NewestOf(d, v, b)].components : Q!DiscoverUsage(a, c)
      BY <2>1, <2>3, <3>2 DEF NewestContains, NewestHolds
    <3> QED  BY <3>1, <3>2, <3>3
  <2> HIDE DEF consumers
  <2> QED  BY <2>2, <2>3
<1> HIDE DEF counted
<1>5. \A a \in DOMAIN Artifact : \A b : b \in others(a) <=> b \in DOMAIN Artifact /\ NewestHolds(d, v, b, a)
  <2> TAKE a \in DOMAIN Artifact
  <2>1. ASSUME NEW r \in UsageRows(d, v, a), SameBase(a, r.c)
        PROVE  r.artifact \in DOMAIN Artifact /\ NewestHolds(d, v, r.artifact, a)
    BY <2>1, UsageRow DEF NewestHolds
  <2>2. ASSUME NEW b \in DOMAIN Artifact, NewestHolds(d, v, b, a)
        PROVE  \E r \in UsageRows(d, v, a) : r.artifact = b /\ SameBase(a, r.c)
    <3>1. PICK c \in Doc[NewestOf(d, v, b)].components : SameBase(a, c)
      BY <2>2 DEF NewestHolds
    <3>2. \E r \in UsageRows(d, v, a) : r.artifact = b /\ r.c = c
      BY <2>2, <3>1, UsageRow DEF NewestHolds
    <3> QED  BY <3>1, <3>2
  <2> QED  BY <2>1, <2>2
<1> HIDE DEF others
<1>6. ASSUME NEW a \in DOMAIN Artifact, NEW X \in GetArtifactUsages(d, v, a)
      PROVE  LET listed == {x.r.artifact : x \in X}
             IN /\ Cardinality(listed) <= Cardinality(counted(a))
                /\ UsagesCut(d, v, a) \/ Cardinality(counted(a)) = Cardinality(listed \cup others(a))
  <2> DEFINE listed == {x.r.artifact : x \in X}
  <2>1. /\ \A b \in listed : b \in DOMAIN Artifact /\ NewestContains(d, v, b, a)
        /\ UsagesCut(d, v, a) \/ \A b \in DOMAIN Artifact : NewestContains(d, v, b, a) => b \in listed
    BY UsedBy
  <2> HIDE DEF listed
  <2>2. listed \subseteq counted(a)
    BY <1>4, <2>1
  <2>3. IsFiniteSet(counted(a))
    BY <1>4, ArtifactAssumption, FS_Subset
  <2>4. Cardinality(listed) <= Cardinality(counted(a))
    BY <2>2, <2>3, FS_Subset
  <2>5. UsagesCut(d, v, a) \/ counted(a) = listed \cup others(a)
    BY <1>4, <1>5, <2>1
  <2> QED  BY <2>4, <2>5 DEF listed
<1>7. \A a : top(a).id = a /\ top(a).usages = Cardinality(counted(a))
  BY CardinalitySame
<1> HIDE DEF top
<1>8. ASSUME NEW r \in Q!GetDiscoverTopArtifacts(d), visibleArtifact(d, v, r.id), NEW X \in GetArtifactUsages(d, v, r.id)
      PROVE  LET listed == {x.r.artifact : x \in X}
             IN /\ Cardinality(listed) <= r.usages
                /\ UsagesCut(d, v, r.id) \/ r.usages = Cardinality(listed \cup others(r.id))
  <2>1. r.usages = Cardinality(counted(r.id)) /\ r.id \in DOMAIN Artifact
    BY <1>1, <1>7, <1>8 DEF visibleArtifact, Stored
  <2> QED  BY <1>6, <2>1
<1> QED  BY <1>8, Zenon DEF DiscoveryAgrees, others, UsageRows, SameBase

-----------------------------------------------------------------------------
(**************************************************************************)
(* The pages through the handlers                                          *)
(**************************************************************************)
(* The one body of a reply.                                                *)
Body(reply) == CHOOSE x \in reply.body : TRUE

(* What the handlers reply are the answers of the queries.                 *)
Replies(d, ctx, v) ==
    /\ Body(H!ListLicenses(d, ctx)) = ListLicenses(d, v)
    /\ \A l : Body(H!ListComponentsByLicense(d, ctx, l)) = Q!ListComponentsByLicense(d, v, l)
    /\ \A s : GetSBOM(d, v, s) # {} => H!GetSBOM(d, ctx, s).body = GetSBOM(d, v, s)
    /\ Body(H!ListTopVulnerabilities(d, ctx)) = Q!ListTopVulnerabilities(d, v, FALSE)
    /\ \A x, p : GetVulnerabilityDetail(d, v, x) = {p} => Body(H!GetVulnerability(d, ctx, x)) = p
    /\ Body(H!SearchDistinctComponents(d, ctx)) = Q!SearchDistinctComponents(d, v)
    /\ \A f : Body(H!GetComponentVersions(d, ctx, f)) = GetComponentVersions(d, v, f)
    /\ \A a : H!GetArtifactContains(d, ctx, a).body = GetArtifactContains(d, v, a)
    /\ \A a : H!GetArtifactUsages(d, ctx, a).body = GetArtifactUsages(d, v, a)

(* The lookups pass, so the handlers hand the queries' answers on.         *)
LEMMA HandlersReply ==
    ASSUME NEW d, NEW ctx
    PROVE  Replies(d, ctx, H!visibilityFilterFromContext(ctx))
<1> DEFINE v == H!visibilityFilterFromContext(ctx)
<1> HIDE DEF v
<1>1. \A x : Body(H!OK({x})) = x
  BY DEF Body, H!OK
<1>2. \A x : Body(H!mapServiceError({x})) = x /\ \A S : H!mapServiceError(S).body = S
  BY DEF Body, H!mapServiceError, H!OK, H!Refuse
<1>3. H!ListLicenses(d, ctx) = H!OK({ListLicenses(d, v)})
  BY SameLicenses DEF H!ListLicenses, v
<1>4. \A l : H!ListComponentsByLicense(d, ctx, l) = H!OK({Q!ListComponentsByLicense(d, v, l)})
  BY SameByLicense DEF H!ListComponentsByLicense, v
<1>5. \A s : H!GetSBOM(d, ctx, s) = H!mapServiceError(GetSBOM(d, v, s))
  BY SameSBOM DEF H!GetSBOM, v
<1>6. H!ListTopVulnerabilities(d, ctx) = H!OK({Q!ListTopVulnerabilities(d, v, FALSE)})
  BY SameTop DEF H!ListTopVulnerabilities, H!listTopVulnerabilities, v
<1>7. \A x : H!GetVulnerability(d, ctx, x) = H!mapServiceError(GetVulnerabilityDetail(d, v, x))
  BY SameVuln DEF H!GetVulnerability, v
<1>8. H!SearchDistinctComponents(d, ctx) = H!OK({Q!SearchDistinctComponents(d, v)})
  BY SameDistinct DEF H!SearchDistinctComponents, v
<1>9. \A f : H!GetComponentVersions(d, ctx, f) = H!OK({GetComponentVersions(d, v, f)})
  BY SameComponentVersions DEF H!GetComponentVersions, v
<1>10. \A a : H!GetArtifactContains(d, ctx, a) = H!mapServiceError(GetArtifactContains(d, v, a))
  BY SameContains DEF H!GetArtifactContains, v
<1>11. \A a : H!GetArtifactUsages(d, ctx, a) = H!mapServiceError(GetArtifactUsages(d, v, a))
  BY SameUsages DEF H!GetArtifactUsages, v
<1> QED  BY <1>1, <1>2, <1>3, <1>4, <1>5, <1>6, <1>7, <1>8, <1>9, <1>10, <1>11, Zenon DEF v, Replies

(* The artifact list and its total.                                        *)
LEMMA ListedWhole ==
    ASSUME NEW d, Stored(d), NEW ctx, NEW all
    PROVE  Body(H!ListArtifacts(d, ctx, all)).total = Cardinality(Body(H!ListArtifacts(d, ctx, all)).data)
<1> DEFINE v == H!visibilityFilterFromContext(ctx)
           f == [owned |-> FALSE, sufficient |-> ~all]
           page == [data |-> Q!ListArtifacts(d, v, f), total |-> Q!CountArtifacts(d, v, f)]
<1>1. H!ListArtifacts(d, ctx, all) = H!OK({page})
  BY SameList, SameCount DEF H!ListArtifacts, H!listArtifacts
<1>2. Body(H!OK({page})) = page
  <2> HIDE DEF page
  <2> QED  BY DEF Body, H!OK
<1>3. page.total = Cardinality(page.data)
  BY ListedArtifacts
<1> HIDE DEF page
<1> QED  BY <1>1, <1>2, <1>3

(* After a refresh the pages that show one fact twice agree.               *)
LEMMA SharedPages ==
    ASSUME NEW d, Fresh(d), NEW ctx
    PROVE  PagesAgree(d, ctx)
<1> DEFINE v == H!visibilityFilterFromContext(ctx)
           filter(r) == [name |-> r.id[1], group |-> r.id[2], version |-> None, type |-> r.id[3]]
           seen == {a \in d.artifacts : Q!artifact_visible(d, v, a)}
<1>0. Replies(d, ctx, v)
  BY HandlersReply
<1> HIDE DEF v
<1>1. \A r \in Body(H!ListLicenses(d, ctx)) :
        r.l.components = Cardinality({x.c : x \in Body(H!ListComponentsByLicense(d, ctx, r.l.license))})
  <2> SUFFICES ASSUME NEW r \in ListLicenses(d, v)
               PROVE  r.l.components = Cardinality({x.c : x \in Q!ListComponentsByLicense(d, v, r.l.license)})
    BY <1>0 DEF Replies
  <2>1. PICK q \in Q!ListLicenses(d, v) : r.l = q
    BY DEF ListLicenses
  <2>2. PICK l \in Q!License : q = [license |-> l, components |-> Q!IdentityCount(d, v, {l})]
    BY DEF Q!ListLicenses
  <2>3. r.l.license = l /\ r.l.components = Q!IdentityCount(d, v, {l})
    BY <2>1, <2>2
  <2> QED  BY <2>3, LicensedCount
<1>2. \A s \in Q!VisibleSBOMs(d, v) : Body(H!GetSBOM(d, ctx, s)).vulns = Q!RollupCounts(d, s)
  <2> TAKE s \in Q!VisibleSBOMs(d, v)
  <2> DEFINE page == [row |-> Q!GetSBOM(d, s), components |-> Q!CountSBOMComponents(s), packages |-> Q!CountSBOMPackages(s),
                      drift |-> currentDrift(s), vulns |-> buildVulnSummary(Q!GetSBOMVulnSummary(d, s))]
  <2>1. Q!IsSBOMVisible(d, v, s) /\ s \in Q!SBOMs(d)
    BY DEF Q!IsSBOMVisible, Q!sbom_visible, Q!VisibleSBOMs
  <2>2. GetSBOM(d, v, s) = {page}
    BY <2>1 DEF GetSBOM
  <2>3. page.vulns = Q!RollupCounts(d, s)
    BY <2>1, BadgeCount
  <2> HIDE DEF page
  <2>4. Body(H!GetSBOM(d, ctx, s)) = page
    BY <2>2, <1>0 DEF Body, Replies
  <2> QED  BY <2>3, <2>4
<1>3. \A r \in Body(H!ListTopVulnerabilities(d, ctx)) :
        /\ r.sboms = Total(Body(H!GetVulnerability(d, ctx, r.id)).artifacts, "sboms")
        /\ Body(H!GetVulnerability(d, ctx, r.id)).namespaces
             = Cardinality(SpaceRows(d, v, r.canonical))
  <2> SUFFICES ASSUME NEW r \in Q!ListTopVulnerabilities(d, v, FALSE)
               PROVE  /\ r.sboms = Total(Body(H!GetVulnerability(d, ctx, r.id)).artifacts, "sboms")
                      /\ Body(H!GetVulnerability(d, ctx, r.id)).namespaces
                           = Cardinality(SpaceRows(d, v, r.canonical))
    BY <1>0 DEF Replies
  <2>1. PICK page : /\ GetVulnerabilityDetail(d, v, r.id) = {page}
                    /\ r.sboms = Total(page.artifacts, "sboms")
                    /\ page.namespaces = Cardinality(SpaceRows(d, v, r.canonical))
    BY VulnTotals
  <2>2. Body(H!GetVulnerability(d, ctx, r.id)) = page
    BY <2>1, <1>0 DEF Replies
  <2> QED  BY <2>1, <2>2
<1>4. \A r \in Body(H!SearchDistinctComponents(d, ctx)) : r.id[2] # None =>
        /\ r.versions = Body(H!GetComponentVersions(d, ctx, filter(r))).counts.versions
        /\ r.sboms = Body(H!GetComponentVersions(d, ctx, filter(r))).counts.sboms
  <2> SUFFICES ASSUME NEW r \in Q!SearchDistinctComponents(d, v), r.id[2] # None
               PROVE  /\ r.versions = GetComponentVersions(d, v, filter(r)).counts.versions
                      /\ r.sboms = GetComponentVersions(d, v, filter(r)).counts.sboms
    BY <1>0 DEF Replies
  <2> QED  BY PackageCounts
<1>5. \A a, b \in seen : \A X \in H!GetArtifactContains(d, ctx, a).body, Y \in H!GetArtifactUsages(d, ctx, b).body :
        /\ (\E r \in X : r.artifact = b) => (\E r \in Y : r.r.artifact = a) \/ UsagesCut(d, v, b)
        /\ (\E r \in Y : r.r.artifact = a) => (\E r \in X : r.artifact = b) \/ ContainsCut(d, v, a)
  <2> TAKE a, b \in seen
  <2>1. /\ H!GetArtifactContains(d, ctx, a).body = GetArtifactContains(d, v, a)
        /\ H!GetArtifactUsages(d, ctx, b).body = GetArtifactUsages(d, v, b)
    BY <1>0 DEF Replies
  <2> QED  BY <2>1, ContainedIsUsed
<1>6. \A all \in BOOLEAN : Body(H!ListArtifacts(d, ctx, all)).total = Cardinality(Body(H!ListArtifacts(d, ctx, all)).data)
  BY ListedWhole DEF Fresh
<1> QED  BY <1>1, <1>2, <1>3, <1>4, <1>5, <1>6, Zenon DEF PagesAgree, Body, Total, SpaceRows, v

-----------------------------------------------------------------------------
(**************************************************************************)
(* Diffs                                                                   *)
(**************************************************************************)
(* A map of components by key holds one row of each key.                   *)
LEMMA OneForEach ==
    ASSUME NEW key, IsFiniteSet(DOMAIN key), NEW M \in OnePerKey(key)
    PROVE  /\ M \subseteq DOMAIN key /\ IsFiniteSet(M)
           /\ \A m, n \in M : key[m] = key[n] => m = n
           /\ \A c \in DOMAIN key : \E m \in M : key[m] = key[c]
<1>1. M \subseteq DOMAIN key /\ IsFiniteSet(M)
  BY FS_Subset DEF OnePerKey
<1>2. ASSUME NEW c \in DOMAIN key PROVE \E m \in M : {n \in M : key[n] = key[c]} = {m}
  <2> DEFINE N == {n \in M : key[n] = key[c]}
  <2>1. IsFiniteSet(N)
    BY <1>1, FS_Subset
  <2>2. Cardinality(N) = 1
    BY Zenon DEF OnePerKey
  <2>3. N \subseteq M
    OBVIOUS
  <2> HIDE DEF N
  <2>4. PICK m : N = {m}
    BY <2>1, <2>2, FS_Singleton
  <2> QED  BY <2>3, <2>4 DEF N
<1> QED  BY <1>1, <1>2

(* The rows only one side has, those of a package whose version changed,   *)
(* and the pairs of an added and a removed package that are one package    *)
(* under a versioned name.                                                 *)
OnlyIn(M, N) == {c \in M : \A n \in N : componentKey(n) # componentKey(c)}
Unpaired(M, i, pairs) == {c \in M : \A p \in pairs : p[i] # c}
Before(old, c) == {m \in old : componentKey(m) = componentKey(c)}

Pairing(old, new, pairs) ==
    /\ \A p \in pairs : p[1] \in OnlyIn(new, old) /\ p[2] \in OnlyIn(old, new)
    /\ \A p, q \in pairs : p[1] = q[1] <=> p[2] = q[2]

Reconciled(old, new, pairs, X) ==
    X = {Change("added", c, {}) : c \in Unpaired(OnlyIn(new, old), 1, pairs)}
        \cup {Change("removed", c, {}) : c \in Unpaired(OnlyIn(old, new), 2, pairs)}
        \cup {Change("modified", c, Before(old, c)) : c \in {c \in new : \E o \in Before(old, c) : o.version # c.version}}
        \cup {Change("modified", p[1], {p[2]}) : p \in pairs}

(* The fields of a change in either direction.                             *)
LEMMA ChangeFields ==
    \A t, c, q : Change(t, c, q).type = t /\ Change(t, c, q).c = c /\ Change(t, c, q).previous = q
  BY DEF Change

(* What a diff reports is such a pairing's.                                *)
LEMMA ReconciledPairs ==
    ASSUME NEW old, IsFiniteSet(old), NEW new, IsFiniteSet(new),
           NEW X \in reconcileVersionedPackages(KeyChanges(old, new), new)
    PROVE  \E pairs : Pairing(old, new, pairs) /\ Reconciled(old, new, pairs, X)
<1> DEFINE changes == KeyChanges(old, new)
           key(x) == versionedNormKey(x.c)
           single(n) == n # <<>> /\ Cardinality({c \in new : versionedNormKey(c) = n}) = 1
           added == {x \in changes : x.type = "added" /\ single(key(x))}
           removed == {x \in changes : x.type = "removed" /\ \E a \in added : key(a) = key(x)}
           keys == [x \in removed |-> key(x)]
           pairsOf(P) == {p \in added \X P : key(p[1]) = key(p[2]) /\ p[1].c.name # p[2].c.name}
<1>1. PICK P \in OnePerKey(keys) :
        X = (changes \ UNION {{p[1], p[2]} : p \in pairsOf(P)})
            \cup {Change("modified", p[1].c, {p[2].c}) : p \in pairsOf(P)}
  BY Zenon DEF reconcileVersionedPackages
<1> DEFINE a(c) == Change("added", c, {})
           r(c) == Change("removed", c, {})
           m(c) == Change("modified", c, Before(old, c))
           Mod == {c \in new : \E o \in Before(old, c) : o.version # c.version}
<1>2. changes = {a(c) : c \in OnlyIn(new, old)} \cup {m(c) : c \in Mod} \cup {r(c) : c \in OnlyIn(old, new)}
  <2>1. \A c : {n \in old : componentKey(n) = componentKey(c)} = {} <=> \A n \in old : componentKey(n) # componentKey(c)
    OBVIOUS
  <2>2. \A c : {n \in new : componentKey(n) = componentKey(c)} = {} <=> \A n \in new : componentKey(n) # componentKey(c)
    OBVIOUS
  <2>3. changes = {a(c) : c \in {c \in new : Before(old, c) = {}}} \cup {m(c) : c \in Mod}
                  \cup {r(c) : c \in {c \in old : Before(new, c) = {}}}
    BY Zenon DEF KeyChanges, Before
  <2>4. {c \in new : Before(old, c) = {}} = OnlyIn(new, old) /\ {c \in old : Before(new, c) = {}} = OnlyIn(old, new)
    BY <2>1, <2>2 DEF OnlyIn, Before
  <2> QED  BY <2>3, <2>4
<1>3. \A x \in changes : /\ x.type = "added" => x.c \in OnlyIn(new, old) /\ x = a(x.c)
                         /\ x.type = "removed" => x.c \in OnlyIn(old, new) /\ x = r(x.c)
  BY <1>2, ChangeFields
<1>4. IsFiniteSet(removed)
  <2> DEFINE f == [x \in removed |-> x.c]
  <2>1. OnlyIn(old, new) \subseteq old
    BY DEF OnlyIn
  <2>2. IsFiniteSet(OnlyIn(old, new))
    BY <2>1, FS_Subset
  <2>3. f \in Injection(removed, OnlyIn(old, new))
    <3>1. \A x \in removed : x.c \in OnlyIn(old, new) /\ x = r(x.c)
      BY <1>3
    <3> HIDE DEF removed, r
    <3> QED  BY <3>1 DEF Injection, IsInjective
  <2> QED  BY <2>2, <2>3, FS_Injection
<1>5. P \subseteq removed /\ \A x, y \in P : key(x) = key(y) => x = y
  <2>1. IsFiniteSet(DOMAIN keys)
    BY <1>4
  <2>2. P \subseteq DOMAIN keys /\ \A x, y \in P : keys[x] = keys[y] => x = y
    BY <2>1, OneForEach
  <2> QED  BY <2>2
<1>6. \A x, y \in added : key(x) = key(y) => x = y
  <2> SUFFICES ASSUME NEW x \in added, NEW y \in added, key(x) = key(y) PROVE x = y
    OBVIOUS
  <2> DEFINE N == {c \in new : versionedNormKey(c) = key(x)}
  <2>1. IsFiniteSet(N) /\ Cardinality(N) = 1
    BY FS_Subset
  <2>2. x.c \in N /\ y.c \in N /\ x = a(x.c) /\ y = a(y.c)
    BY <1>3 DEF OnlyIn
  <2> HIDE DEF N
  <2>3. x.c = y.c
    BY <2>1, <2>2, FS_Singleton
  <2> QED  BY <2>2, <2>3
<1> DEFINE Q0 == pairsOf(P)
           pairs == {<<p[1].c, p[2].c>> : p \in Q0}
<1>7. \A p \in Q0 : /\ p[1] \in added /\ p[2] \in P /\ key(p[1]) = key(p[2])
                    /\ p[1] = a(p[1].c) /\ p[1].c \in OnlyIn(new, old)
                    /\ p[2] = r(p[2].c) /\ p[2].c \in OnlyIn(old, new)
  BY <1>3, <1>5
<1> HIDE DEF Q0, added, removed, keys, key, single, changes
<1>8. Pairing(old, new, pairs)
  <2>1. ASSUME NEW p \in Q0, NEW q \in Q0 PROVE p[1].c = q[1].c <=> p[2].c = q[2].c
    <3>1. p[1].c = q[1].c => p[1] = q[1]
      BY <1>7
    <3>2. p[2].c = q[2].c => p[2] = q[2]
      BY <1>7
    <3>3. p[1] = q[1] => p[2] = q[2]
      BY <1>7, <1>5
    <3>4. p[2] = q[2] => p[1] = q[1]
      BY <1>7, <1>6
    <3> QED  BY <3>1, <3>2, <3>3, <3>4
  <2> QED  BY <2>1, <1>7 DEF Pairing
<1>9. Reconciled(old, new, pairs, X)
  <2> DEFINE U == UNION {{p[1], p[2]} : p \in Q0}
             A1 == Unpaired(OnlyIn(new, old), 1, pairs)
             R1 == Unpaired(OnlyIn(old, new), 2, pairs)
             W == {Change("modified", p[1].c, {p[2].c}) : p \in Q0}
  <2>1. X = (changes \ U) \cup W
    BY <1>1 DEF Q0
  <2>0. /\ \A p \in Q0 : \E q \in pairs : q[1] = p[1].c /\ q[2] = p[2].c
        /\ \A q \in pairs : \E p \in Q0 : q[1] = p[1].c /\ q[2] = p[2].c
    <3>1. ASSUME NEW p \in Q0 PROVE \E q \in pairs : q[1] = p[1].c /\ q[2] = p[2].c
      <4> WITNESS <<p[1].c, p[2].c>> \in pairs
      <4> QED  OBVIOUS
    <3> QED  BY <3>1
  <2>2. W = {Change("modified", p[1], {p[2]}) : p \in pairs}
    <3> HIDE DEF pairs
    <3> QED  BY <2>0, ZenonT(60)
  <2>3. \A u : u \in U <=> \E p \in Q0 : u = a(p[1].c) \/ u = r(p[2].c)
    BY <1>7
  <2>4. \A c : c \in A1 <=> c \in OnlyIn(new, old) /\ \A p \in Q0 : p[1].c # c
    <3> HIDE DEF pairs
    <3> QED  BY <2>0 DEF Unpaired
  <2>5. \A c : c \in R1 <=> c \in OnlyIn(old, new) /\ \A p \in Q0 : p[2].c # c
    <3> HIDE DEF pairs
    <3> QED  BY <2>0 DEF Unpaired
  <2>6. \A c, e : /\ a(c) = a(e) <=> c = e
                  /\ r(c) = r(e) <=> c = e
                  /\ a(c) # r(e) /\ m(c) # a(e) /\ m(c) # r(e)
    BY ChangeFields
  <2> HIDE DEF U, W, A1, R1, pairs, changes, Mod, a, r, m
  <2>7. \A c : a(c) \in U <=> \E p \in Q0 : p[1].c = c
    BY <2>3, <2>6
  <2>8. \A c : r(c) \in U <=> \E p \in Q0 : p[2].c = c
    BY <2>3, <2>6
  <2>9. \A c : m(c) \notin U
    BY <2>3, <2>6
  <2>10. changes \ U = {a(c) : c \in A1} \cup {r(c) : c \in R1} \cup {m(c) : c \in Mod}
    <3>1. \A x \in changes \ U : x \in {a(c) : c \in A1} \cup {r(c) : c \in R1} \cup {m(c) : c \in Mod}
      BY <1>2, <2>4, <2>5, <2>7, <2>8
    <3>2. \A c \in A1 : a(c) \in changes \ U
      BY <1>2, <2>4, <2>7
    <3>3. \A c \in R1 : r(c) \in changes \ U
      BY <1>2, <2>5, <2>8
    <3>4. \A c \in Mod : m(c) \in changes \ U
      BY <1>2, <2>9
    <3> QED  BY <3>1, <3>2, <3>3, <3>4
  <2>11. X = {a(c) : c \in A1} \cup {r(c) : c \in R1} \cup {m(c) : c \in Mod}
             \cup {Change("modified", p[1], {p[2]}) : p \in pairs}
    BY <2>1, <2>2, <2>10
  <2> QED  BY <2>11 DEF a, r, m, A1, R1, Mod, Reconciled
<1> QED  BY <1>8, <1>9

(* The rows kept for the keys are as many as the keys.                     *)
LEMMA OnePerKeyRows ==
    ASSUME NEW C, IsFiniteSet(C), NEW M \in buildComponentMap(C)
    PROVE  /\ IsFiniteSet(M) /\ M \subseteq C
           /\ \A m, n \in M : componentKey(m) = componentKey(n) => m = n
           /\ Cardinality(M) = Cardinality({componentKey(c) : c \in C})
<1> DEFINE key == [c \in C |-> componentKey(c)]
           f == [m \in M |-> componentKey(m)]
<1>1. M \in OnePerKey(key) /\ IsFiniteSet(DOMAIN key) /\ DOMAIN key = C
  BY DEF buildComponentMap
<1>2. \A c \in C : key[c] = componentKey(c)
  OBVIOUS
<1> HIDE DEF key
<1>3. /\ M \subseteq C /\ IsFiniteSet(M)
      /\ \A m, n \in M : key[m] = key[n] => m = n
      /\ \A c \in C : \E m \in M : key[m] = key[c]
  BY <1>1, OneForEach
<1>4. {f[m] : m \in M} = {componentKey(c) : c \in C}
  BY <1>2, <1>3
<1>5. \A m, n \in M : f[m] = f[n] => m = n
  BY <1>2, <1>3
<1> HIDE DEF f
<1>6. Cardinality({f[m] : m \in M}) = Cardinality(M)
  BY <1>3, <1>5, Image
<1> QED  BY <1>2, <1>3, <1>4, <1>6

(* What a side keeps of the other, and the rest.                           *)
LEMMA TakenAndLeft ==
    ASSUME NEW S, IsFiniteSet(S), NEW T \in SUBSET S
    PROVE  /\ IsFiniteSet(T) /\ IsFiniteSet(S \ T)
           /\ Cardinality(T) \in Nat /\ Cardinality(S \ T) \in Nat
           /\ Cardinality(S) = Cardinality(T) + Cardinality(S \ T)
<1>1. IsFiniteSet(T) /\ IsFiniteSet(S \ T)
  BY FS_Subset, FS_Difference
<1>2. Cardinality(T) \in Nat /\ Cardinality(S \ T) \in Nat
  BY <1>1, FS_CardinalityType
<1>3. T \cup (S \ T) = S /\ T \cap (S \ T) = {}
  OBVIOUS
<1>4. Cardinality(T \cup (S \ T)) = Cardinality(T) + Cardinality(S \ T) - Cardinality(T \cap (S \ T))
  BY <1>1, FS_Union, Zenon
<1>5. Cardinality(S) = Cardinality(T) + Cardinality(S \ T) - Cardinality({})
  BY <1>3, <1>4, Zenon
<1>6. \A m, n : m \in Nat /\ n \in Nat => m + n - 0 = m + n
  OBVIOUS
<1>7. Cardinality(S) = Cardinality(T) + Cardinality(S \ T)
  BY <1>2, <1>5, <1>6, FS_EmptySet, Zenon
<1> QED  BY <1>1, <1>2, <1>7, Zenon

(* The rows of the two sides that are no addition and no removal are one   *)
(* another's.                                                              *)
LEMMA Balanced ==
    ASSUME NEW old, IsFiniteSet(old), NEW new, IsFiniteSet(new), NEW pairs, Pairing(old, new, pairs),
           \A m, n \in old : componentKey(m) = componentKey(n) => m = n,
           \A m, n \in new : componentKey(m) = componentKey(n) => m = n
    PROVE  Cardinality(Unpaired(OnlyIn(new, old), 1, pairs)) + Cardinality(old) =
             Cardinality(Unpaired(OnlyIn(old, new), 2, pairs)) + Cardinality(new)
<1> DEFINE A == Unpaired(OnlyIn(new, old), 1, pairs)
           R == Unpaired(OnlyIn(old, new), 2, pairs)
           rel(c, o) == componentKey(c) = componentKey(o) \/ \E p \in pairs : p[1] = c /\ p[2] = o
           g == [c \in new \ A |-> CHOOSE o \in old \ R : rel(c, o)]
<1>1. A \subseteq new /\ R \subseteq old
  BY DEF Unpaired, OnlyIn
<1>2. \A c \in new \ A : \E o \in old \ R : rel(c, o)
  <2> SUFFICES ASSUME NEW c \in new \ A PROVE \E o \in old \ R : rel(c, o)
    OBVIOUS
  <2>1. CASE c \in OnlyIn(new, old)
    BY <2>1 DEF Unpaired, OnlyIn, Pairing
  <2>2. CASE c \notin OnlyIn(new, old)
    BY <2>2 DEF Unpaired, OnlyIn
  <2> QED  BY <2>1, <2>2
<1>3. \A o \in old \ R : \E c \in new \ A : rel(c, o)
  <2> SUFFICES ASSUME NEW o \in old \ R PROVE \E c \in new \ A : rel(c, o)
    OBVIOUS
  <2>1. CASE o \in OnlyIn(old, new)
    BY <2>1 DEF Unpaired, OnlyIn, Pairing
  <2>2. CASE o \notin OnlyIn(old, new)
    BY <2>2 DEF Unpaired, OnlyIn
  <2> QED  BY <2>1, <2>2
<1>4. \A c, e \in new : \A o, q \in old : rel(c, o) /\ rel(e, q) => (c = e <=> o = q)
  BY DEF Pairing, OnlyIn
<1> HIDE DEF rel, A, R
<1>5. \A c \in new \ A : g[c] \in old \ R /\ rel(c, g[c])
  BY <1>2
<1> HIDE DEF g
<1>6. Cardinality(old \ R) = Cardinality(new \ A)
  <2>1. \A o \in old \ R : \E c \in new \ A : g[c] = o
    BY <1>3, <1>4, <1>5
  <2>2. \A c, e \in new \ A : g[c] = g[e] => c = e
    BY <1>4, <1>5
  <2>3. IsFiniteSet(new \ A)
    BY <1>1, TakenAndLeft
  <2> QED  BY <1>5, <2>1, <2>2, <2>3, SameSize
<1>7. /\ Cardinality(old) = Cardinality(R) + Cardinality(old \ R)
      /\ Cardinality(new) = Cardinality(A) + Cardinality(new \ A)
      /\ Cardinality(R) \in Nat /\ Cardinality(A) \in Nat
      /\ Cardinality(old \ R) \in Nat /\ Cardinality(new \ A) \in Nat
  BY <1>1, TakenAndLeft
<1>8. Cardinality(A) + Cardinality(old) = Cardinality(R) + Cardinality(new)
  BY <1>6, <1>7
<1> QED  BY <1>8 DEF A, R

(* The handlers' instance compares the same.                               *)
LEMMA SameDiffs ==
    ASSUME NEW C, NEW D
    PROVE  H!S!Diffs(C, D) = Diffs(C, D)
  BY Zenon DEF
    H!S!Diffs, Diffs, H!S!diffComponents, diffComponents, H!S!Summary, Summary, H!S!Directions, Directions,
    H!S!None, None, H!S!Q!None, Q!None, H!S!Cardinality, Cardinality,
    H!S!classifyDirection, classifyDirection, H!S!reconcileVersionedPackages, reconcileVersionedPackages,
    H!S!versionedNormKey, versionedNormKey, H!S!Q!HasPurl, Q!HasPurl, H!S!Front, Front, H!S!Change, Change,
    H!S!OnePerKey, OnePerKey, H!S!KeyChanges, KeyChanges, H!S!componentKey, componentKey,
    H!S!normalizeComponentPurl, normalizeComponentPurl, H!S!identityQualifiers, identityQualifiers,
    H!S!buildComponentMap, buildComponentMap

(* A diff counts each addition and each removal once, reports a row once,  *)
(* and what one change had before is nothing another change reports.       *)
LEMMA DiffCounts ==
    ASSUME NEW old, IsFiniteSet(old), NEW new, IsFiniteSet(new),
           \A m, n \in old : componentKey(m) = componentKey(n) => m = n,
           \A m, n \in new : componentKey(m) = componentKey(n) => m = n,
           NEW e \in diffComponents(old, new)
    PROVE  /\ e.summary["added"] + Cardinality(old) = e.summary["removed"] + Cardinality(new)
           /\ \A y, z \in e.changes : y # z => y.c # z.c /\ y.previous \cap ({z.c} \cup z.previous) = {}
<1>1. PICK X \in reconcileVersionedPackages(KeyChanges(old, new), new) : e.changes = X /\ e.summary = Summary(X)
  BY DEF diffComponents
<1>2. PICK pairs : Pairing(old, new, pairs) /\ Reconciled(old, new, pairs, X)
  BY ReconciledPairs
<1> DEFINE A == Unpaired(OnlyIn(new, old), 1, pairs)
           R == Unpaired(OnlyIn(old, new), 2, pairs)
           M == {c \in new : \E o \in Before(old, c) : o.version # c.version}
           a(c) == Change("added", c, {})
           r(c) == Change("removed", c, {})
<1>3. X = {a(c) : c \in A} \cup {r(c) : c \in R}
          \cup {Change("modified", c, Before(old, c)) : c \in M} \cup {Change("modified", p[1], {p[2]}) : p \in pairs}
  BY <1>2, Zenon DEF Reconciled
<1>4. /\ A \subseteq new /\ R \subseteq old /\ M \subseteq new
      /\ \A c \in A : c \in OnlyIn(new, old) /\ \A p \in pairs : p[1] # c
      /\ \A c \in R : c \in OnlyIn(old, new) /\ \A p \in pairs : p[2] # c
      /\ \A c \in M : c \notin OnlyIn(new, old)
      /\ \A c : \A o \in Before(old, c) : o \in old /\ componentKey(o) = componentKey(c)
      /\ \A c \in M : \E o \in Before(old, c) : o.version # c.version
  BY DEF Unpaired, OnlyIn, Before
<1> HIDE DEF A, R, M
<1>5. \A x \in X : \/ x.type = "added" /\ x.c \in A /\ x.previous = {} /\ x = a(x.c)
                   \/ x.type = "removed" /\ x.c \in R /\ x.previous = {} /\ x = r(x.c)
                   \/ x.type = "modified" /\ x.c \in M /\ x.previous = Before(old, x.c)
                      /\ x = Change("modified", x.c, x.previous)
                   \/ x.type = "modified" /\ (\E p \in pairs : x.c = p[1] /\ x.previous = {p[2]})
                      /\ x = Change("modified", x.c, x.previous)
  <2> TAKE x \in X
  <2>1. CASE \E c \in A : x = a(c)
    BY <2>1, ChangeFields
  <2>2. CASE \E c \in R : x = r(c)
    BY <2>2, ChangeFields
  <2>3. CASE \E c \in M : x = Change("modified", c, Before(old, c))
    BY <2>3, ChangeFields
  <2>4. CASE \E p \in pairs : x = Change("modified", p[1], {p[2]})
    BY <2>4, ChangeFields
  <2> QED  BY <1>3, <2>1, <2>2, <2>3, <2>4
<1>6. \A c : /\ c \in A => a(c) \in X /\ a(c).type = "added" /\ a(c).c = c
             /\ c \in R => r(c) \in X /\ r(c).type = "removed" /\ r(c).c = c
  BY <1>3, ChangeFields
<1>7. \A x \in X : /\ classifyDirection(x) = "added" <=> x.type = "added"
                   /\ classifyDirection(x) = "removed" <=> x.type = "removed"
  <2> TAKE x \in X
  <2>1. x.type \in {"added", "removed", "modified"}
    BY <1>5
  <2>2. x.type # "modified" => classifyDirection(x) = x.type
    BY DEF classifyDirection
  <2>3. x.type = "modified" => classifyDirection(x) \in {"modified", "upgraded", "downgraded"}
    BY DEF classifyDirection
  <2> QED  BY <2>1, <2>2, <2>3
<1>8. IsFiniteSet(A) /\ IsFiniteSet(R)
  BY <1>4, FS_Subset
<1> HIDE DEF a, r
<1>9. e.summary["added"] = Cardinality(A)
  <2> DEFINE T == {x \in X : classifyDirection(x) = "added"}
             f == [c \in A |-> a(c)]
  <2>1. e.summary["added"] = Cardinality(T)
    BY <1>1 DEF Summary, Directions
  <2>2. \A c \in A : f[c] \in T /\ f[c].c = c
    BY <1>6, <1>7
  <2>3. \A x \in T : \E c \in A : f[c] = x
    BY <1>5, <1>7
  <2>4. \A b, c \in A : f[b] = f[c] => b = c
    BY <2>2
  <2> HIDE DEF T, f
  <2> QED  BY <1>8, <2>1, <2>2, <2>3, <2>4, SameSize
<1>10. e.summary["removed"] = Cardinality(R)
  <2> DEFINE T == {x \in X : classifyDirection(x) = "removed"}
             f == [c \in R |-> r(c)]
  <2>1. e.summary["removed"] = Cardinality(T)
    BY <1>1 DEF Summary, Directions
  <2>2. \A c \in R : f[c] \in T /\ f[c].c = c
    BY <1>6, <1>7
  <2>3. \A x \in T : \E c \in R : f[c] = x
    BY <1>5, <1>7
  <2>4. \A b, c \in R : f[b] = f[c] => b = c
    BY <2>2
  <2> HIDE DEF T, f
  <2> QED  BY <1>8, <2>1, <2>2, <2>3, <2>4, SameSize
<1>11. Cardinality(A) + Cardinality(old) = Cardinality(R) + Cardinality(new)
  BY <1>2, Balanced DEF A, R
<1>12. ASSUME NEW y \in X, NEW z \in X, y # z
       PROVE  y.c # z.c /\ y.previous \cap ({z.c} \cup z.previous) = {}
  <2>1. /\ \A p \in pairs : p[1] \in OnlyIn(new, old) /\ p[2] \in OnlyIn(old, new)
        /\ \A p, q \in pairs : p[1] = q[1] <=> p[2] = q[2]
    BY <1>2 DEF Pairing
  <2>2. /\ \A c \in OnlyIn(new, old) : c \in new /\ \A o \in old : componentKey(o) # componentKey(c)
        /\ \A o \in OnlyIn(old, new) : o \in old /\ \A c \in new : componentKey(c) # componentKey(o)
    BY DEF OnlyIn
  <2> DEFINE added(x) == x.type = "added" /\ x.c \in A /\ x.previous = {} /\ x = a(x.c)
             removed(x) == x.type = "removed" /\ x.c \in R /\ x.previous = {} /\ x = r(x.c)
             modified(x) == x.c \in M /\ x.previous = Before(old, x.c) /\ x = Change("modified", x.c, x.previous)
             paired(x) == (\E p \in pairs : x.c = p[1] /\ x.previous = {p[2]}) /\ x = Change("modified", x.c, x.previous)
  <2>3. \A x \in X : added(x) \/ removed(x) \/ modified(x) \/ paired(x)
    BY <1>5
  <2>4. \A x \in {y, z} : \A w \in {y, z} \ {x} :
          added(x) => x.c # w.c /\ \A o \in x.previous : o # w.c /\ o \notin w.previous
    <3> SUFFICES ASSUME NEW x \in {y, z}, NEW w \in {y, z} \ {x}, added(x) PROVE x.c # w.c /\ x.previous = {}
      OBVIOUS
    <3>1. w \in X /\ x # w
      OBVIOUS
    <3>2. ~(added(w) /\ w.c = x.c) /\ ~(removed(w) /\ w.c = x.c)
      BY <1>4, <2>1, <2>2, <3>1
    <3>3. ~(modified(w) /\ w.c = x.c) /\ ~(paired(w) /\ w.c = x.c)
      BY <1>4, <2>1, <2>2, <3>1
    <3> QED  BY <2>3, <3>1, <3>2, <3>3
  <2>5. \A x \in {y, z} : \A w \in {y, z} \ {x} :
          removed(x) => x.c # w.c /\ \A o \in x.previous : o # w.c /\ o \notin w.previous
    <3> SUFFICES ASSUME NEW x \in {y, z}, NEW w \in {y, z} \ {x}, removed(x) PROVE x.c # w.c /\ x.previous = {}
      OBVIOUS
    <3>1. w \in X /\ x # w
      OBVIOUS
    <3>2. ~(added(w) /\ w.c = x.c) /\ ~(removed(w) /\ w.c = x.c)
      BY <1>4, <2>1, <2>2, <3>1
    <3>3. ~(modified(w) /\ w.c = x.c) /\ ~(paired(w) /\ w.c = x.c)
      BY <1>4, <2>1, <2>2, <3>1
    <3> QED  BY <2>3, <3>1, <3>2, <3>3
  <2>6. \A x \in {y, z} : \A w \in {y, z} \ {x} :
          modified(x) => x.c # w.c /\ \A o \in x.previous : o # w.c /\ o \notin w.previous
    <3> SUFFICES ASSUME NEW x \in {y, z}, NEW w \in {y, z} \ {x}, modified(x)
                 PROVE  x.c # w.c /\ \A o \in x.previous : o # w.c /\ o \notin w.previous
      OBVIOUS
    <3>1. w \in X /\ x # w
      OBVIOUS
    <3>2. x.c \in new /\ \A o \in x.previous : o \in old /\ componentKey(o) = componentKey(x.c)
      BY <1>4
    <3>2a. \A o \in x.previous : o # x.c
      BY <1>4, <3>2
    <3>3. CASE added(w)
      BY <1>4, <2>2, <3>1, <3>2, <3>3
    <3>4. CASE removed(w)
      BY <1>4, <2>2, <3>1, <3>2, <3>4
    <3>5. CASE modified(w)
      <4>1. w.c # x.c
        BY <3>1, <3>5
      <4>2. w.c \in new /\ \A o \in w.previous : componentKey(o) = componentKey(w.c)
        BY <1>4, <3>5
      <4> QED  BY <3>2, <3>2a, <4>1, <4>2
    <3>6. CASE paired(w)
      BY <1>4, <2>1, <2>2, <3>1, <3>2, <3>6
    <3> QED  BY <2>3, <3>1, <3>3, <3>4, <3>5, <3>6
  <2>7. \A x \in {y, z} : \A w \in {y, z} \ {x} :
          paired(x) => x.c # w.c /\ \A o \in x.previous : o # w.c /\ o \notin w.previous
    <3> SUFFICES ASSUME NEW x \in {y, z}, NEW w \in {y, z} \ {x}, paired(x)
                 PROVE  x.c # w.c /\ \A o \in x.previous : o # w.c /\ o \notin w.previous
      OBVIOUS
    <3>1. w \in X /\ x # w
      OBVIOUS
    <3>2. PICK p \in pairs : x.c = p[1] /\ x.previous = {p[2]}
      OBVIOUS
    <3>3. CASE added(w)
      BY <1>4, <2>1, <2>2, <3>1, <3>2, <3>3
    <3>4. CASE removed(w)
      BY <1>4, <2>1, <2>2, <3>1, <3>2, <3>4
    <3>5. CASE modified(w)
      BY <1>4, <2>1, <2>2, <3>1, <3>2, <3>5
    <3>6. CASE paired(w)
      <4>1. PICK q \in pairs : w.c = q[1] /\ w.previous = {q[2]}
        BY <3>6
      <4>2. q[1] # p[1]
        <5>1. q[1] = p[1] => q[2] = p[2]
          BY <2>1
        <5>2. x = Change("modified", p[1], {p[2]}) /\ w = Change("modified", q[1], {q[2]})
          BY <3>2, <3>6, <4>1
        <5> QED  BY <3>1, <5>1, <5>2
      <4>3. q[2] # p[2]
        BY <2>1, <4>2
      <4>4. q[1] \in new /\ \A c \in new : componentKey(c) # componentKey(p[2])
        BY <2>1, <2>2
      <4> QED  BY <3>2, <4>1, <4>2, <4>3, <4>4
    <3> QED  BY <2>3, <3>1, <3>3, <3>4, <3>5, <3>6
  <2> HIDE DEF added, removed, modified, paired
  <2>8. y.c # z.c /\ \A o \in y.previous : o # z.c /\ o \notin z.previous
    BY <1>12, <2>3, <2>4, <2>5, <2>6, <2>7
  <2> QED  BY <2>8
<1> QED  BY <1>1, <1>9, <1>10, <1>11, <1>12

(* So every diff adds up.                                                  *)
LEMMA DiffsBalance ==
    ASSUME NEW d, Stored(d)
    PROVE  DiffsAddUp(d)
<1> SUFFICES ASSUME NEW s \in Q!SBOMs(d), NEW t \in Q!SBOMs(d), NEW x \in H!GetDiffTree(d, Admin, s, t).body
             PROVE  /\ x.entry.summary["added"] + Cardinality({componentKey(c) : c \in Q!ListSBOMPackages(s)})
                         = x.entry.summary["removed"] + Cardinality({componentKey(c) : c \in Q!ListSBOMPackages(t)})
                    /\ \A y, z \in x.entry.changes :
                         y # z => y.c # z.c /\ y.previous \cap ({z.c} \cup z.previous) = {}
  BY Zenon DEF DiffsAddUp
<1> DEFINE C == Q!ListSBOMPackages(s)
           D == Q!ListSBOMPackages(t)
<1>1. x.entry \in Diffs(C, D)
  <2>1. x \in H!S!DiffSBOMsWithTree(d, H!visibilityFilterFromContext(Admin), s, t)
    BY DEF H!GetDiffTree, H!mapServiceError, H!OK, H!Refuse
  <2>2. x.entry \in H!S!Diffs(H!S!Q!ListSBOMPackages(s), H!S!Q!ListSBOMPackages(t))
    BY <2>1 DEF H!S!DiffSBOMsWithTree
  <2>3. H!S!Q!ListSBOMPackages(s) = C /\ H!S!Q!ListSBOMPackages(t) = D
    BY DEF H!S!Q!ListSBOMPackages, Q!ListSBOMPackages
  <2> QED  BY <2>2, <2>3, SameDiffs
<1>2. IsFiniteSet(C) /\ IsFiniteSet(D)
  BY DocumentAssumption, FS_Subset DEF Stored, Q!ListSBOMPackages
<1> HIDE DEF C, D
<1>3. PICK old \in buildComponentMap(C), new \in buildComponentMap(D) : x.entry \in diffComponents(old, new)
  BY <1>1 DEF Diffs
<1>4. /\ IsFiniteSet(old) /\ IsFiniteSet(new)
      /\ \A m, n \in old : componentKey(m) = componentKey(n) => m = n
      /\ \A m, n \in new : componentKey(m) = componentKey(n) => m = n
      /\ Cardinality(old) = Cardinality({componentKey(c) : c \in C})
      /\ Cardinality(new) = Cardinality({componentKey(c) : c \in D})
  BY <1>2, OnePerKeyRows
<1>5. /\ x.entry.summary["added"] + Cardinality(old) = x.entry.summary["removed"] + Cardinality(new)
      /\ \A y, z \in x.entry.changes : y # z => y.c # z.c /\ y.previous \cap ({z.c} \cup z.previous) = {}
  BY <1>3, <1>4, DiffCounts
<1> QED  BY <1>4, <1>5, Zenon DEF C, D

-----------------------------------------------------------------------------
(**************************************************************************)
(* The pages of a cluster                                                  *)
(**************************************************************************)
(* What the join finds for a workload depends on its digest alone.         *)
LEMMA JoinOfDigest ==
    ASSUME NEW d, NEW w, NEW u, w.digest = u.digest
    PROVE  Q!Matching(d, w) = Q!Matching(d, u) /\ Q!Match(d, w) = Q!Match(d, u) /\ Q!MatchState(d, w) = Q!MatchState(d, u)
<1>1. Q!Matching(d, w) = Q!Matching(d, u)
  BY DEF Q!Matching
<1>2. Q!Match(d, w) = Q!Match(d, u)
  BY <1>1 DEF Q!Match
<1> QED  BY <1>1, <1>2 DEF Q!MatchState

(* A workload is in one state, and it has one of the first two when some   *)
(* SBOM matches.                                                           *)
LEMMA OneState ==
    ASSUME NEW d, Valid(d), Stored(d), NEW w
    PROVE  /\ Q!MatchState(d, w) \in {"exact", "index", "unknown", "unresolvable"}
           /\ Q!MatchState(d, w) \in {"exact", "index"} <=> Q!Matching(d, w) # {}
           /\ Q!MatchState(d, w) = "unknown" <=> w.digest # None /\ Q!Matching(d, w) = {}
           /\ Q!MatchState(d, w) = "unresolvable" <=> w.digest = None
           /\ Q!Match(d, w) # None <=> Q!Matching(d, w) # {}
<1>0. Q!None = None
  BY DEF None
<1>1. Q!Matching(d, w) \subseteq Q!SBOMs(d) /\ (w.digest = None => Q!Matching(d, w) = {})
  BY <1>0 DEF Q!Matching
<1>2. None \notin Q!SBOMs(d)
  BY DocumentAssumption DEF Stored
<1>3. Q!Matching(d, w) # {} => Q!Match(d, w) \in Q!Matching(d, w)
  BY <1>1, NewestIsOne DEF Q!Match
<1>4. Q!Match(d, w) # None <=> Q!Matching(d, w) # {}
  <2>1. Q!Matching(d, w) = {} => Q!Match(d, w) = None
    BY <1>0 DEF Q!Match
  <2> QED  BY <1>1, <1>2, <1>3, <2>1
<1> QED  BY <1>1, <1>4, <1>0 DEF Q!MatchState

-----------------------------------------------------------------------------
(* A cluster's workloads in a match state, all of them for None, and those *)
(* that run an image.                                                      *)
InState(d, v, k, state) == {w \in Q!Inventory(d, v, k) : state \in {None, Q!MatchState(d, w)}}
OfImage(d, v, k, i) == {w \in Q!Inventory(d, v, k) : Q!ImageKey(w) = i}
OnlyState(state) == [NoFilter EXCEPT !.state = state]

(* The inventory is finite, and a state filter takes the workloads in that *)
(* state.                                                                  *)
LEMMA InventoryRows ==
    ASSUME NEW d, Stored(d), NEW v, NEW k
    PROVE  /\ IsFiniteSet(Q!Inventory(d, v, k)) /\ \A w \in Q!Inventory(d, v, k) : w.pods \in Nat
           /\ \A state : IsFiniteSet(InState(d, v, k, state)) /\ InState(d, v, k, state) \subseteq Q!Inventory(d, v, k)
           /\ \A state : Q!Filtered(d, v, k, OnlyState(state)) = InState(d, v, k, state)
           /\ InState(d, v, k, None) = Q!Inventory(d, v, k)
<1>1. Q!Inventory(d, v, k) \subseteq d.workload
  BY DEF Q!Inventory
<1>2. IsFiniteSet(Q!Inventory(d, v, k)) /\ \A w \in Q!Inventory(d, v, k) : w.pods \in Nat
  BY <1>1, FS_Subset DEF Stored
<1>3. ASSUME NEW state PROVE IsFiniteSet(InState(d, v, k, state)) /\ InState(d, v, k, state) \subseteq Q!Inventory(d, v, k)
  <2>1. InState(d, v, k, state) \subseteq Q!Inventory(d, v, k)
    BY DEF InState
  <2> QED  BY <1>2, <2>1, FS_Subset
<1>4. ASSUME NEW state PROVE Q!Filtered(d, v, k, OnlyState(state)) = InState(d, v, k, state)
  <2>1. OnlyState(state).k8s = None /\ OnlyState(state).state = state /\ Q!None = None
    BY DEF OnlyState, NoFilter, None
  <2> QED  BY <2>1 DEF Q!Filtered, InState
<1>5. InState(d, v, k, None) = Q!Inventory(d, v, k)
  BY DEF InState
<1> QED  BY <1>2, <1>3, <1>4, <1>5

(* The workload list has a row for each.                                   *)
LEMMA WorkloadPage ==
    ASSUME NEW d, Stored(d), NEW v, NEW k, NEW state
    PROVE  LET page == ListWorkloads(d, v, k, OnlyState(state))
           IN page.total = Cardinality(InState(d, v, k, state)) /\ page.total = Cardinality(page.data)
<1> DEFINE page == ListWorkloads(d, v, k, OnlyState(state))
           S == InState(d, v, k, state)
           row(w) == [row |-> w, join |-> Q!Joined(d, w)]
           f == [w \in S |-> workloadFromRepo(row(w))]
<1>1. Q!Filtered(d, v, k, OnlyState(state)) = S /\ IsFiniteSet(S)
  BY InventoryRows
<1>2. page.total = Cardinality(S)
  BY <1>1, CardinalitySame DEF ListWorkloads, pagedInventory, Q!CountClusterWorkloads
<1>3. page.data = {workloadFromRepo(r) : r \in {row(w) : w \in S}}
  <2>1. Q!ListClusterWorkloads(d, v, k, OnlyState(state)) = {row(w) : w \in S}
    BY <1>1, Zenon DEF Q!ListClusterWorkloads
  <2>2. page.data = {workloadFromRepo(r) : r \in Q!ListClusterWorkloads(d, v, k, OnlyState(state))}
    BY DEF ListWorkloads, pagedInventory
  <2> QED  BY <2>1, <2>2, Zenon
<1>4. \A w : workloadFromRepo(row(w)).row = w
  BY DEF workloadFromRepo
<1> HIDE DEF row, S, page
<1>5. page.data = {f[w] : w \in S} /\ \A w, u \in S : f[w] = f[u] => w = u
  BY <1>3, <1>4
<1> HIDE DEF f
<1>6. Cardinality(page.data) = Cardinality(S)
  BY <1>1, <1>5, Image
<1> QED  BY <1>2, <1>6 DEF page, S

(* The image list has a row for each image that runs in the state, and the *)
(* row is about all the cluster's workloads that run it.                   *)
LEMMA ImagePage ==
    ASSUME NEW d, Stored(d), NEW v, NEW k, NEW state
    PROVE  LET page == ListImages(d, v, k, OnlyState(state))
           IN /\ page.total = Cardinality(page.data)
              /\ \A x \in page.data :
                   /\ \E w \in InState(d, v, k, state) : x.image = Q!ImageKey(w)
                   /\ x["workloads"] = Cardinality(OfImage(d, v, k, x.image))
                   /\ x["pods"] = Total(OfImage(d, v, k, x.image), "pods")
              /\ \A w \in InState(d, v, k, state) : \E x \in page.data : x.image = Q!ImageKey(w)
              /\ \A x, y \in page.data : x.image = y.image => x = y
<1> DEFINE page == ListImages(d, v, k, OnlyState(state))
           S == InState(d, v, k, state)
           all == {w \in Q!Inventory(d, v, k) : OnlyState(state).k8s \in {Q!None, w.k8s}}
           of(i) == {w \in all : Q!ImageKey(w) = i}
           one(i) == CHOOSE w \in of(i) : TRUE
           row(i) == [image |-> i, workloads |-> Q!Cardinality(of(i)), pods |-> Q!Pods(of(i)),
                      namespaces |-> Q!Cardinality({w.k8s : w \in of(i)}), join |-> Q!Joined(d, one(i))]
           K == {Q!ImageKey(w) : w \in S}
           f == [i \in K |-> imageFromRepo(row(i))]
<1>1. OnlyState(state).k8s = None /\ OnlyState(state).state = state /\ Q!None = None
  BY DEF OnlyState, NoFilter, None
<1>2. all = Q!Inventory(d, v, k) /\ {w \in all : OnlyState(state).state \in {Q!None, Q!MatchState(d, w)}} = S
  BY <1>1 DEF InState
<1>3. Q!ListClusterImages(d, v, k, OnlyState(state)) =
        {row(i) : i \in {Q!ImageKey(w) : w \in {w \in all : OnlyState(state).state \in {Q!None, Q!MatchState(d, w)}}}}
  BY Zenon DEF Q!ListClusterImages
<1>4. \A i : of(i) = OfImage(d, v, k, i)
  BY <1>2 DEF OfImage
<1> HIDE DEF all, S
<1>5. \A i : /\ imageFromRepo(row(i)).image = i
             /\ imageFromRepo(row(i))["workloads"] = Q!Cardinality(of(i))
             /\ imageFromRepo(row(i))["pods"] = Q!Pods(of(i))
  <2> HIDE DEF of, one
  <2> QED  BY DEF imageFromRepo
<1>6. \A W : Q!Pods(W) = Total(W, "pods")
  BY Zenon DEF Q!Pods, Total
<1>7. page.data = {imageFromRepo(r) : r \in Q!ListClusterImages(d, v, k, OnlyState(state))}
  BY DEF ListImages, pagedInventory
<1> HIDE DEF page
<1>8. \A i \in K : /\ f[i].image = i /\ f[i]["workloads"] = Cardinality(OfImage(d, v, k, i))
                   /\ f[i]["pods"] = Total(OfImage(d, v, k, i), "pods")
  <2> HIDE DEF of, row
  <2> QED  BY <1>4, <1>5, <1>6, CardinalitySame
<1>9. page.data = {f[i] : i \in K}
  <2>1. Q!ListClusterImages(d, v, k, OnlyState(state)) = {row(i) : i \in K}
    BY <1>2, <1>3, Zenon
  <2> HIDE DEF row, K
  <2>2. page.data = {imageFromRepo(r) : r \in {row(i) : i \in K}}
    BY <1>7, <2>1
  <2> QED  BY <2>2
<1>10. IsFiniteSet(K)
  <2> DEFINE g == [w \in S |-> Q!ImageKey(w)]
  <2>1. IsFiniteSet(S)
    BY InventoryRows DEF S
  <2>2. K = {g[w] : w \in S}
    OBVIOUS
  <2> HIDE DEF K, g
  <2> QED  BY <2>1, <2>2, Image
<1>11. Cardinality(page.data) = Cardinality(K)
  <2>1. \A i, j \in K : f[i] = f[j] => i = j
    BY <1>8, ZenonT(60)
  <2> HIDE DEF f, K
  <2> QED  BY <1>9, <1>10, <2>1, Image
<1>12. ListImages(d, v, k, OnlyState(state)).total = Cardinality(K)
  <2>1. Q!Filtered(d, v, k, OnlyState(state)) = S
    BY InventoryRows DEF S
  <2>2. Q!CountClusterImages(d, v, k, OnlyState(state)) = Q!Cardinality(K)
    BY <2>1, Zenon DEF Q!CountClusterImages
  <2> QED  BY <2>2, CardinalitySame DEF ListImages, pagedInventory
<1> HIDE DEF f
<1>13. /\ page.total = Cardinality(page.data)
       /\ \A x \in page.data :
            /\ \E w \in S : x.image = Q!ImageKey(w)
            /\ x["workloads"] = Cardinality(OfImage(d, v, k, x.image))
            /\ x["pods"] = Total(OfImage(d, v, k, x.image), "pods")
       /\ \A w \in S : \E x \in page.data : x.image = Q!ImageKey(w)
       /\ \A x, y \in page.data : x.image = y.image => x = y
  <2>1. page.total = Cardinality(page.data)
    BY <1>11, <1>12 DEF page
  <2>2. \A x \in page.data : \E i \in K : x = f[i]
    BY <1>9
  <2>3. \A i \in K : f[i] \in page.data /\ \E w \in S : i = Q!ImageKey(w)
    BY <1>9
  <2>4. \A w \in S : Q!ImageKey(w) \in K
    OBVIOUS
  <2> HIDE DEF K
  <2> QED  BY <1>8, <2>1, <2>2, <2>3, <2>4
<1> QED  BY <1>13 DEF page, S

-----------------------------------------------------------------------------
(* The pods of the workloads W, one by one.                                *)
Units(W) == UNION {{<<w, j>> : j \in 1 .. w["pods"]} : w \in W}

(* There are as many of them as the pods columns say.                      *)
LEMMA UnitsCount ==
    ASSUME NEW W, IsFiniteSet(W), \A w \in W : w["pods"] \in Nat
    PROVE  IsFiniteSet(Units(W)) /\ Total(W, "pods") = Cardinality(Units(W))
<1> DEFINE of(w) == {<<w, j>> : j \in 1 .. w["pods"]}
           part == [w \in W |-> of(w)]
           S == Units(W)
           tag == [u \in S |-> u[1]]
           f == [w \in W |-> w["pods"]]
<1>1. ASSUME NEW w \in W PROVE IsFiniteSet(of(w)) /\ Cardinality(of(w)) = w["pods"]
  <2> DEFINE N == 1 .. w["pods"]
             g == [j \in N |-> <<w, j>>]
  <2>1. IsFiniteSet(N) /\ Cardinality(N) = w["pods"]
    <3>1. w["pods"] \in Nat
      OBVIOUS
    <3>2. \A n \in Nat : IsFiniteSet(1 .. n) /\ Cardinality(1 .. n) = n
      <4> TAKE n \in Nat
      <4>1. IsFiniteSet(1 .. n) /\ Cardinality(1 .. n) = IF 1 > n THEN 0 ELSE n - 1 + 1
        BY FS_Interval
      <4> QED  BY <4>1
    <3> QED  BY <3>1, <3>2
  <2>2. of(w) = {g[j] : j \in N} /\ \A i, j \in N : g[i] = g[j] => i = j
    OBVIOUS
  <2> HIDE DEF g, N, of
  <2> QED  BY <2>1, <2>2, Image
<1>2. S = UNION {part[w] : w \in W} /\ \A w \in W : part[w] = of(w)
  BY DEF Units
<1>3. IsFiniteSet(S)
  <2> HIDE DEF part, of, S
  <2> QED  BY <1>1, <1>2, FiniteUnion
<1>4. \A u \in S : tag[u] \in W
  BY DEF Units
<1>5. \A w \in W : Tagged(S, tag, w) = of(w)
  BY DEF Tagged, Units
<1>6. Counts(S, W, tag, f)
  <2>1. \A w \in W : f[w] = Cardinality(Tagged(S, tag, w))
    <3> HIDE DEF S, tag, of
    <3> QED  BY <1>1, <1>5
  <2> QED  BY <1>4, <2>1 DEF Counts
<1>7. Summed(W, f)[W] = Cardinality(S)
  <2> HIDE DEF f, S, tag
  <2> QED  BY <1>3, <1>6, PartitionSum
<1>8. Total(W, "pods") = Summed(W, f)[W]
  BY ColumnSum, Zenon
<1> QED  BY <1>3, <1>7, <1>8

(* The pods of groups of workloads are those of all the workloads.         *)
LEMMA GroupedPods ==
    ASSUME NEW W, IsFiniteSet(W), \A w \in W : w["pods"] \in Nat, NEW D, IsFiniteSet(D), NEW tag,
           \A w \in W : tag[w] \in D, \A x \in D : x["pods"] = Total(Tagged(W, tag, x), "pods")
    PROVE  Total(D, "pods") = Total(W, "pods")
<1> DEFINE S == Units(W)
           on == [u \in S |-> tag[u[1]]]
           f == [x \in D |-> x["pods"]]
<1>1. IsFiniteSet(S) /\ Total(W, "pods") = Cardinality(S)
  BY UnitsCount
<1>2. \A u \in S : on[u] \in D
  BY DEF Units
<1>3. \A x \in D : Tagged(S, on, x) = Units(Tagged(W, tag, x))
  BY DEF Tagged, Units
<1>4. \A x \in D : f[x] = Cardinality(Tagged(S, on, x))
  <2> TAKE x \in D
  <2> DEFINE G == Tagged(W, tag, x)
  <2>1. G \subseteq W
    BY DEF Tagged
  <2> HIDE DEF G
  <2>2. Total(G, "pods") = Cardinality(Units(G))
    BY <2>1, FS_Subset, UnitsCount
  <2> HIDE DEF S, on
  <2> QED  BY <1>3, <2>2 DEF G
<1>5. Counts(S, D, on, f)
  BY <1>2, <1>4 DEF Counts
<1>6. Summed(D, f)[D] = Cardinality(S)
  <2> HIDE DEF f, S, on
  <2> QED  BY <1>1, <1>5, PartitionSum
<1>7. Total(D, "pods") = Summed(D, f)[D]
  BY ColumnSum, Zenon
<1> QED  BY <1>1, <1>6, <1>7

(* The rows of the image list share the workloads of the state, and those  *)
(* of the whole list the pods.                                             *)
LEMMA ImageSums ==
    ASSUME NEW d, Stored(d), NEW v, NEW k, NEW state
    PROVE  LET D == ListImages(d, v, k, OnlyState(state)).data
           IN /\ Total(D, "workloads") = Cardinality(InState(d, v, k, state))
              /\ state = None => Total(D, "pods") = Total(Q!Inventory(d, v, k), "pods")
<1> DEFINE D == ListImages(d, v, k, OnlyState(state)).data
           S == InState(d, v, k, state)
           tag == [w \in S |-> CHOOSE x \in D : x.image = Q!ImageKey(w)]
<1>1. /\ \A x \in D : /\ \E w \in S : x.image = Q!ImageKey(w)
                      /\ x["workloads"] = Cardinality(OfImage(d, v, k, x.image))
                      /\ x["pods"] = Total(OfImage(d, v, k, x.image), "pods")
      /\ \A w \in S : \E x \in D : x.image = Q!ImageKey(w)
      /\ \A x, y \in D : x.image = y.image => x = y
  BY ImagePage
<1>2. \A w, u : Q!ImageKey(w) = Q!ImageKey(u) => w.digest = u.digest
  BY DEF Q!ImageKey
<1>3. \A w \in S : \A u \in Q!Inventory(d, v, k) : Q!ImageKey(u) = Q!ImageKey(w) => u \in S
  BY <1>2, JoinOfDigest DEF InState
<1>4. IsFiniteSet(S) /\ S \subseteq Q!Inventory(d, v, k)
  BY InventoryRows
<1> HIDE DEF D, S
<1>5. \A w \in S : tag[w] \in D /\ tag[w].image = Q!ImageKey(w)
  BY <1>1
<1> HIDE DEF tag
<1>6. \A x \in D : OfImage(d, v, k, x.image) = Tagged(S, tag, x) /\ \E w \in S : tag[w] = x
  <2> SUFFICES ASSUME NEW x \in D PROVE OfImage(d, v, k, x.image) = Tagged(S, tag, x) /\ \E w \in S : tag[w] = x
    OBVIOUS
  <2>1. PICK w \in S : x.image = Q!ImageKey(w)
    BY <1>1
  <2>2. \A u \in S : tag[u] = x <=> Q!ImageKey(u) = x.image
    BY <1>1, <1>5
  <2>3. \A u : u \in OfImage(d, v, k, x.image) <=> u \in S /\ tag[u] = x
    BY <1>3, <1>4, <2>1, <2>2 DEF OfImage
  <2> QED  BY <2>1, <2>2, <2>3 DEF Tagged
<1>7. Parts(S, D, tag, "workloads")
  BY <1>1, <1>5, <1>6 DEF Parts
<1>8. Total(D, "workloads") = Cardinality(S)
  BY <1>4, <1>7, PartsSum
<1>9. state = None => Total(D, "pods") = Total(Q!Inventory(d, v, k), "pods")
  <2> SUFFICES ASSUME state = None PROVE Total(D, "pods") = Total(S, "pods")
    BY InventoryRows DEF S
  <2>1. IsFiniteSet(D)
    <3>1. D = {tag[w] : w \in S}
      BY <1>5, <1>6
    <3> QED  BY <1>4, <3>1, Image
  <2>2. \A w \in S : w["pods"] \in Nat
    BY <1>4, InventoryRows
  <2>3. \A x \in D : x["pods"] = Total(Tagged(S, tag, x), "pods")
    BY <1>1, <1>6
  <2> QED  BY <1>4, <1>5, <2>1, <2>2, <2>3, GroupedPods
<1> QED  BY <1>8, <1>9 DEF D, S

(* The facets share all the workloads.                                     *)
LEMMA FacetSums ==
    ASSUME NEW d, Stored(d), NEW v, NEW k
    PROVE  Total(NamespaceFacets(d, v, k), "workloads") = Cardinality(Q!Inventory(d, v, k))
<1> DEFINE S == Q!Inventory(d, v, k)
           row(n) == [k8s |-> n, workloads |-> Q!Cardinality({w \in S : w.k8s = n})]
           tag == [w \in S |-> row(w.k8s)]
           D == NamespaceFacets(d, v, k)
<1>1. D = {row(n) : n \in {w.k8s : w \in S}}
  BY Zenon DEF NamespaceFacets, Q!ListClusterK8sNamespaces
<1>2. IsFiniteSet(S)
  BY InventoryRows
<1>3. \A n : row(n).k8s = n /\ row(n)["workloads"] = Cardinality({w \in S : w.k8s = n})
  BY CardinalitySame
<1> HIDE DEF row, S, D
<1>4. \A w \in S : tag[w] = row(w.k8s) /\ tag[w] \in D
  BY <1>1
<1> HIDE DEF tag
<1>5. \A x \in D : x["workloads"] = Cardinality(Tagged(S, tag, x)) /\ \E w \in S : tag[w] = x
  <2> SUFFICES ASSUME NEW w \in S PROVE row(w.k8s)["workloads"] = Cardinality(Tagged(S, tag, row(w.k8s)))
    BY <1>1, <1>4
  <2>1. \A u \in S : tag[u] = row(w.k8s) <=> u.k8s = w.k8s
    BY <1>3, <1>4
  <2>2. {u \in S : u.k8s = w.k8s} = Tagged(S, tag, row(w.k8s))
    BY <2>1 DEF Tagged
  <2> QED  BY <1>3, <2>2, Zenon
<1>6. Parts(S, D, tag, "workloads")
  BY <1>4, <1>5 DEF Parts
<1>7. Total(D, "workloads") = Cardinality(S)
  BY <1>2, <1>6, PartsSum
<1> QED  BY <1>7 DEF D, S

(* The coverage counts the workloads of each state.                        *)
LEMMA CoverageCounts ==
    ASSUME NEW d, Valid(d), Stored(d), NEW v, NEW k
    PROVE  LET cover == Coverage(d, v, k)
               in(state) == Cardinality(InState(d, v, k, state))
           IN /\ cover.total = in(None) /\ cover.total = cover.matched + cover.unknown + cover.unresolvable
              /\ cover.matched = in("exact") + in("index")
              /\ cover.unknown = in("unknown") /\ cover.unresolvable = in("unresolvable")
              /\ cover.pods = Total(Q!Inventory(d, v, k), "pods")
<1> DEFINE all == Q!Inventory(d, v, k)
           matched == {w \in all : Q!Matching(d, w) # {}}
           blank == {w \in all : w.digest = None}
           gap == {w \in all \ matched : w.digest # None}
           cover == Coverage(d, v, k)
           S(state) == InState(d, v, k, state)
<1>0. IsFiniteSet(all) /\ S(None) = all /\ \A state : S(state) \subseteq all
  BY InventoryRows
<1>1. /\ cover.total = Cardinality(all) /\ cover.matched = Cardinality(matched)
      /\ cover.unknown = Cardinality(gap) /\ cover.unresolvable = Cardinality(blank)
      /\ cover.pods = Total(all, "pods")
  <2> DEFINE none == Q!None
             count(X) == Q!Cardinality(X)
             row == [total |-> count(all), unresolvable |-> count({w \in all : w.digest = none}),
                     unknown |-> count({w \in all \ matched : w.digest # none}),
                     matched |-> count(matched), pods |-> Q!Pods(all)]
  <2>1. cover = row
    BY Zenon DEF Coverage, Q!GetClusterWorkloadCoverage
  <2>2. none = None
    BY DEF None
  <2>3. \A X : count(X) = Cardinality(X)
    BY CardinalitySame
  <2>4. Q!Pods(all) = Total(all, "pods")
    BY Zenon DEF Q!Pods, Total
  <2> HIDE DEF none, count, all, matched
  <2> QED  BY <2>1, <2>2, <2>3, <2>4
<1>2. \A w : /\ Q!MatchState(d, w) \in {"exact", "index", "unknown", "unresolvable"}
             /\ Q!MatchState(d, w) \in {"exact", "index"} <=> Q!Matching(d, w) # {}
             /\ Q!MatchState(d, w) = "unknown" <=> w.digest # None /\ Q!Matching(d, w) = {}
             /\ Q!MatchState(d, w) = "unresolvable" <=> w.digest = None
  BY OneState
<1>s. \A state : state # None => \A w : w \in S(state) <=> w \in all /\ Q!MatchState(d, w) = state
  BY DEF InState
<1>n. None \notin {"exact", "index", "unknown", "unresolvable"}
  BY DEF None, Q!None
<1> HIDE DEF cover, S
<1>3. gap = S("unknown") /\ blank = S("unresolvable")
  BY <1>2, <1>s, <1>n
<1>4. S("exact") \subseteq matched /\ matched \ S("exact") = S("index")
  BY <1>2, <1>s, <1>n
<1>5. matched \subseteq all /\ gap \subseteq all \ matched /\ (all \ matched) \ gap = blank
  BY <1>2
<1> HIDE DEF all, matched, gap, blank
<1>6. /\ Cardinality(all) = Cardinality(matched) + Cardinality(all \ matched)
      /\ IsFiniteSet(matched) /\ IsFiniteSet(all \ matched) /\ Cardinality(matched) \in Nat
  BY <1>0, <1>5, TakenAndLeft
<1>7. /\ Cardinality(all \ matched) = Cardinality(gap) + Cardinality(blank)
      /\ Cardinality(gap) \in Nat /\ Cardinality(blank) \in Nat
  <2>1. /\ Cardinality(all \ matched) = Cardinality(gap) + Cardinality((all \ matched) \ gap)
        /\ Cardinality(gap) \in Nat /\ Cardinality((all \ matched) \ gap) \in Nat
    BY <1>5, <1>6, TakenAndLeft
  <2> QED  BY <1>5, <2>1, Zenon
<1>8. Cardinality(matched) = Cardinality(S("exact")) + Cardinality(S("index"))
  <2>1. Cardinality(matched) = Cardinality(S("exact")) + Cardinality(matched \ S("exact"))
    BY <1>4, <1>6, TakenAndLeft
  <2> QED  BY <1>4, <2>1, Zenon
<1>9. Cardinality(all) = Cardinality(matched) + Cardinality(gap) + Cardinality(blank)
  BY <1>6, <1>7
<1> QED  BY <1>0, <1>1, <1>3, <1>8, <1>9 DEF all, S, cover

(* The gap lists the images that run with a digest no SBOM matches, each   *)
(* still itself once it is resolved to a target and explained by its jobs. *)
LEMMA GapListed ==
    ASSUME NEW d, Valid(d), Stored(d), NEW v, NEW k
    PROVE  {<<x.ref, x.digest>> : x \in UnknownImages(d, v, k).images.data} =
             {x.image : x \in ListImages(d, v, k, OnlyState("unknown")).data}
<1> DEFINE resolved(row, at, to) ==
             [ref |-> row.ref, digest |-> row.digest, workloads |-> row.workloads, pods |-> row.pods, failed |-> {},
              host |-> at.host, repo |-> at.repo, reason |-> to.reason, registry |-> to.registry, owner |-> to.owner]
           image(row) == resolved(row, SplitImageRef(row.ref), resolveIngestTarget(d, k, SplitImageRef(row.ref)))
           explained(img) == IF img.reason = "ready" THEN applyJobs(d, img) ELSE img
           listed(row) == explained(image(row))
           S == InState(d, v, k, "unknown")
           gap == {w \in Q!Inventory(d, v, k) : w.digest # Q!None /\ Q!Matching(d, w) = {}}
           rows == Q!ListClusterUnknownImages(d, v, k)
           U == UnknownImages(d, v, k).images.data
           D == ListImages(d, v, k, OnlyState("unknown")).data
<1>1. U = {listed(row) : row \in rows}
  <2>1. resolveUnknownImages(d, v, k) = {listed(row) : row \in rows}
    BY Zenon DEF resolveUnknownImages
  <2>2. U = resolveUnknownImages(d, v, k)
    BY DEF UnknownImages, pagedInventory
  <2> QED  BY <2>1, <2>2, Zenon
<1>2. \A row : listed(row).ref = row.ref /\ listed(row).digest = row.digest
  <2> TAKE row
  <2>1. \A at, to : /\ resolved(row, at, to).ref = row.ref /\ resolved(row, at, to).digest = row.digest
                    /\ applyJobs(d, resolved(row, at, to)).ref = row.ref
                    /\ applyJobs(d, resolved(row, at, to)).digest = row.digest
    BY DEF applyJobs
  <2> HIDE DEF resolved
  <2> QED  BY <2>1
<1>3. gap = S
  <2>1. Q!None = None /\ None # "unknown"
    BY DEF None, Q!None
  <2> QED  BY <2>1, OneState DEF InState
<1>4. /\ \A row \in rows : \E w \in S : <<row.ref, row.digest>> = Q!ImageKey(w)
      /\ \A w \in S : \E row \in rows : <<row.ref, row.digest>> = Q!ImageKey(w)
  <2> DEFINE of(i) == {w \in gap : Q!ImageKey(w) = i}
             row(i) == [ref |-> i[1], digest |-> i[2], workloads |-> Q!Cardinality(of(i)), pods |-> Q!Pods(of(i))]
  <2>1. rows = {row(i) : i \in {Q!ImageKey(w) : w \in gap}}
    BY Zenon DEF Q!ListClusterUnknownImages
  <2>2. \A w : <<row(Q!ImageKey(w)).ref, row(Q!ImageKey(w)).digest>> = Q!ImageKey(w)
    BY DEF Q!ImageKey
  <2> HIDE DEF row, gap, rows
  <2> QED  BY <1>3, <2>1, <2>2
<1>5. /\ \A x \in D : \E w \in S : x.image = Q!ImageKey(w)
      /\ \A w \in S : \E x \in D : x.image = Q!ImageKey(w)
  BY ImagePage
<1> HIDE DEF listed, S, gap, rows, U, D
<1>6. \A i : (\E x \in U : i = <<x.ref, x.digest>>) <=> \E w \in S : i = Q!ImageKey(w)
  BY <1>1, <1>2, <1>4
<1>7. \A i : (\E x \in D : i = x.image) <=> \E w \in S : i = Q!ImageKey(w)
  BY <1>5
<1>8. {<<x.ref, x.digest>> : x \in U} = {x.image : x \in D}
  BY <1>6, <1>7
<1> QED  BY <1>8, Zenon DEF U, D

(* What runs with a vulnerability, one finding by itself.                  *)
LEMMA RunningPage ==
    ASSUME NEW d, Valid(d), Stored(d), NEW v, NEW k \in Q!Clusters(d)
    PROVE  LET page == RunningVulns(d, v, k, None)
           IN /\ page.total = Cardinality(page.data)
              /\ \A x \in page.data : x.workloads = Cardinality(WorkloadsForVulnerability(d, v, x.canonical, k))
<1> DEFINE run == Q!Running(d, v, k)
           I == Q!Inventory(d, v, k)
           records(c) == {x \in {r.vuln : r \in run} : Q!Finding(x) = c}
           worst(c) == CHOOSE x \in records(c) : \A y \in records(c) :
                         \/ Q!Rank(Vuln[x].severity) > Q!Rank(Vuln[y].severity)
                         \/ /\ Q!Rank(Vuln[x].severity) = Q!Rank(Vuln[y].severity)
                            /\ Vuln[x].score >= Vuln[y].score
           hits(c) == {r \in run : Q!Finding(r.vuln) = c}
           ws(c) == {r.workload : r \in hits(c)}
           row(c) == [id |-> worst(c), canonical |-> c, workloads |-> Q!Cardinality(ws(c))]
           C == {Q!Finding(r.vuln) : r \in run}
           page == RunningVulns(d, v, k, None)
           f == [c \in C |-> row(c)]
<1>0. Q!None = None
  BY DEF None
<1>1. page.data = {row(c) : c \in C}
  <2>1. Q!ListClusterRunningVulns(d, v, k, None) = {row(c) : c \in {c \in C : None \in {Q!None, Vuln[worst(c)].severity}}}
    BY Zenon DEF Q!ListClusterRunningVulns
  <2>2. page.data = Q!ListClusterRunningVulns(d, v, k, None)
    BY DEF RunningVulns, pagedInventory
  <2>3. {c \in C : None \in {Q!None, Vuln[worst(c)].severity}} = C
    BY <1>0
  <2> HIDE DEF page
  <2> QED  BY <2>1, <2>2, <2>3, Zenon
<1>2. page.total = Cardinality(C)
  <2>1. Q!CountClusterRunningVulns(d, v, k, None) =
          Q!Cardinality({Q!Finding(r.vuln) : r \in {r \in run : None \in {Q!None, Vuln[r.vuln].severity}}})
    BY Zenon DEF Q!CountClusterRunningVulns
  <2>2. {r \in run : None \in {Q!None, Vuln[r.vuln].severity}} = run
    BY <1>0
  <2>3. Q!CountClusterRunningVulns(d, v, k, None) = Q!Cardinality(C)
    BY <2>1, <2>2, Zenon
  <2>4. page.total = Q!CountClusterRunningVulns(d, v, k, None)
    BY DEF RunningVulns, pagedInventory
  <2> HIDE DEF page, C
  <2> QED  BY <2>3, <2>4, CardinalitySame
<1>3. \A r \in run : r.workload \in I /\ r.vuln \in {m.vuln : m \in d.match}
  BY DEF Q!Running, Q!CarriedBy, Q!VulnsIn
<1>4. IsFiniteSet(I)
  BY InventoryRows
<1>5. IsFiniteSet(C)
  <2> DEFINE g == [m \in d.match |-> Q!Finding(m.vuln)]
             T == {g[m] : m \in d.match}
  <2>1. IsFiniteSet(d.match)
    BY DEF Stored
  <2>2. C \subseteq T
    <3>1. \A m \in d.match : g[m] = Q!Finding(m.vuln)
      OBVIOUS
    <3> HIDE DEF g, run
    <3> QED  BY <1>3, <3>1
  <2> HIDE DEF g, C
  <2>3. IsFiniteSet(T)
    BY <2>1, Image
  <2> QED  BY <2>2, <2>3, FS_Subset
<1>6. \A c : row(c).canonical = c /\ row(c).workloads = Cardinality(ws(c))
  <2> HIDE DEF worst, ws
  <2> QED  BY CardinalitySame
<1>7. \A c : IsFiniteSet(ws(c))
  <2>1. \A c : ws(c) \subseteq I
    BY <1>3
  <2> HIDE DEF ws, I
  <2> QED  BY <1>4, <2>1, FS_Subset
<1> HIDE DEF page, row, run
<1>8. page.total = Cardinality(page.data)
  <2>1. \A c \in C : f[c] = row(c)
    OBVIOUS
  <2> HIDE DEF f, C
  <2>2. page.data = {f[c] : c \in C}
    BY <1>1, <2>1
  <2>3. \A b, c \in C : f[b] = f[c] => b = c
    BY <1>6, <2>1
  <2>4. Cardinality({f[c] : c \in C}) = Cardinality(C)
    BY <1>5, <2>3, Image
  <2> QED  BY <1>2, <2>2, <2>4
<1>9. ASSUME NEW c PROVE Cardinality(WorkloadsForVulnerability(d, v, c, k)) = Cardinality(ws(c))
  <2> DEFINE joined(r) == [row |-> r.workload, join |-> Q!Joined(d, r.workload)]
             of(x) == {joined(r) : r \in {r \in Q!Running(d, v, x) : Q!Finding(r.vuln) = c}}
             on(w) == workloadFromRepo([row |-> w, join |-> Q!Joined(d, w)])
             g == [w \in ws(c) |-> on(w)]
             W == WorkloadsForVulnerability(d, v, c, k)
  <2>1. Q!ListWorkloadsForVulnerability(d, v, c, k) = UNION {of(x) : x \in {x \in Q!Clusters(d) : k \in {Q!None, x}}}
    BY Zenon DEF Q!ListWorkloadsForVulnerability
  <2>2. W = {workloadFromRepo(r) : r \in Q!ListWorkloadsForVulnerability(d, v, c, k)}
    BY Zenon DEF WorkloadsForVulnerability
  <2>3. k # None
    BY DEF Stored, Valid, ForeignKeys
  <2>4. {x \in Q!Clusters(d) : k \in {Q!None, x}} = {k}
    BY <1>0, <2>3
  <2>5. Q!ListWorkloadsForVulnerability(d, v, c, k) = of(k)
    <3> HIDE DEF of
    <3> QED  BY <2>1, <2>4
  <2>6. of(k) = {joined(r) : r \in hits(c)}
    BY Zenon DEF run
  <2>7. \A r : workloadFromRepo(joined(r)) = on(r.workload)
    OBVIOUS
  <2>8. \A w : on(w).row = w
    BY DEF workloadFromRepo
  <2>9. W = {on(w) : w \in ws(c)}
    <3>1. W = {workloadFromRepo(joined(r)) : r \in hits(c)}
      <4> HIDE DEF joined, of, W, hits
      <4> QED  BY <2>2, <2>5, <2>6
    <3> HIDE DEF joined, on, W, hits
    <3> QED  BY <2>7, <3>1
  <2>10. \A w \in ws(c) : g[w] = on(w)
    OBVIOUS
  <2> HIDE DEF g, on, W, ws
  <2>11. W = {g[w] : w \in ws(c)}
    BY <2>9, <2>10
  <2>12. \A w, x \in ws(c) : g[w] = g[x] => w = x
    BY <2>8, <2>10
  <2>13. Cardinality({g[w] : w \in ws(c)}) = Cardinality(ws(c))
    BY <1>7, <2>12, Image
  <2> QED  BY <2>11, <2>13 DEF W
<1>10. \A x \in page.data : x.workloads = Cardinality(WorkloadsForVulnerability(d, v, x.canonical, k))
  <2> HIDE DEF ws, C
  <2> QED  BY <1>1, <1>6, <1>9
<1> QED  BY <1>8, <1>10 DEF page

(* All pages of a cluster together.                                        *)
LEMMA ClusterPages ==
    ASSUME NEW d, Valid(d), Stored(d), NEW v, NEW k \in Q!Clusters(d)
    PROVE  ClusterPagesAgree(d, v, k)
<1> DEFINE states == {None} \cup Q!MatchStates
           work == [state \in states |-> ListWorkloads(d, v, k, [NoFilter EXCEPT !.state = state])]
           images == [state \in states |-> ListImages(d, v, k, [NoFilter EXCEPT !.state = state])]
           count == [state \in states |-> work[state].total]
           cover == Coverage(d, v, k)
           in(state) == Cardinality(InState(d, v, k, state))
<1>1. \A state \in states : /\ work[state] = ListWorkloads(d, v, k, OnlyState(state))
                            /\ images[state] = ListImages(d, v, k, OnlyState(state))
                            /\ count[state] = work[state].total
  BY DEF OnlyState
<1>2. {None, "exact", "index", "unknown", "unresolvable"} \subseteq states
  BY DEF Q!MatchStates
<1> HIDE DEF work, images, count, states
<1>3. ASSUME NEW state \in states
      PROVE  /\ work[state].total = in(state) /\ count[state] = in(state)
             /\ work[state].total = Cardinality(work[state].data)
             /\ images[state].total = Cardinality(images[state].data)
             /\ work[state].total = Total(images[state].data, "workloads")
  <2>1. LET page == ListWorkloads(d, v, k, OnlyState(state))
        IN page.total = in(state) /\ page.total = Cardinality(page.data)
    BY WorkloadPage
  <2>2. LET page == ListImages(d, v, k, OnlyState(state)) IN page.total = Cardinality(page.data)
    BY ImagePage
  <2>3. Total(ListImages(d, v, k, OnlyState(state)).data, "workloads") = in(state)
    BY ImageSums
  <2> HIDE DEF in
  <2> QED  BY <1>1, <2>1, <2>2, <2>3
<1>4. /\ cover.total = count[None] /\ cover.total = cover.matched + cover.unknown + cover.unresolvable
      /\ cover.matched = count["exact"] + count["index"]
      /\ cover.unknown = count["unknown"] /\ cover.unresolvable = count["unresolvable"]
      /\ cover.pods = Total(Q!Inventory(d, v, k), "pods")
  <2>1. /\ cover.total = in(None) /\ cover.total = cover.matched + cover.unknown + cover.unresolvable
        /\ cover.matched = in("exact") + in("index")
        /\ cover.unknown = in("unknown") /\ cover.unresolvable = in("unresolvable")
        /\ cover.pods = Total(Q!Inventory(d, v, k), "pods")
    BY CoverageCounts
  <2> HIDE DEF in, cover
  <2> QED  BY <1>2, <1>3, <2>1
<1>5. cover.pods = Total(images[None].data, "pods")
  <2>1. Total(ListImages(d, v, k, OnlyState(None)).data, "pods") = Total(Q!Inventory(d, v, k), "pods")
    BY ImageSums
  <2> HIDE DEF cover
  <2> QED  BY <1>1, <1>2, <1>4, <2>1
<1>6. work[None].total = Total(NamespaceFacets(d, v, k), "workloads")
  <2>1. in(None) = Cardinality(Q!Inventory(d, v, k))
    BY InventoryRows
  <2> HIDE DEF in
  <2> QED  BY <1>2, <1>3, <2>1, FacetSums
<1>7. {<<x.ref, x.digest>> : x \in UnknownImages(d, v, k).images.data} = {x.image : x \in images["unknown"].data}
  <2>1. images["unknown"] = ListImages(d, v, k, OnlyState("unknown"))
    BY <1>1, <1>2
  <2> QED  BY <2>1, GapListed, Zenon
<1>8. LET page == RunningVulns(d, v, k, None)
      IN /\ page.total = Cardinality(page.data)
         /\ \A x \in page.data : x.workloads = Cardinality(WorkloadsForVulnerability(d, v, x.canonical, k))
  BY RunningPage
<1> QED  BY <1>3, <1>4, <1>5, <1>6, <1>7, <1>8, Zenon DEF ClusterPagesAgree, Total, work, images, count, states, cover

-----------------------------------------------------------------------------
(**************************************************************************)
(* The agreement theorems                                                  *)
(**************************************************************************)
(* Once the refresher has gone over what is stored, every page a viewer may *)
(* open says what the page it links to says: a license and its components,  *)
(* an SBOM's badge and its findings, a vulnerability and the artifacts and  *)
(* namespaces it affects, a package and its versions; and a list's total is *)
(* what it lists.  What an artifact contains names it among its usages, and *)
(* the other way round, but for the rows a relation query's limit takes     *)
(* away before their exact identities are compared.                         *)
THEOREM LinkedPagesAgree == Spec => [](\A ctx \in Contexts : PagesAgree(Refreshed(db), ctx))
<1>1. IInv /\ Holding => \A ctx \in Contexts : PagesAgree(Refreshed(db), ctx)
  <2> SUFFICES ASSUME IInv, Holding, NEW ctx \in Contexts PROVE PagesAgree(Refreshed(db), ctx)
    OBVIOUS
  <2>1. Fresh(Refreshed(db))
    BY RefreshedFresh DEF IInv, Holding
  <2> QED  BY <2>1, SharedPages
<1> QED  BY <1>1, Invariance, HoldingInvariant, PTL

(* The discovery page never counts fewer artifacts that use one than its    *)
(* usage page names.  Unless the limit cuts that page's rows, it counts     *)
(* besides exactly those that hold a package of the same purl base under    *)
(* other identity qualifiers.                                               *)
THEOREM DiscoveryAgreed == Spec => []DiscoveryAgrees(Refreshed(db))
<1>1. IInv /\ Holding => DiscoveryAgrees(Refreshed(db))
  BY RefreshedFresh, DiscoveryCounts DEF IInv, Holding, Fresh
<1> QED  BY <1>1, Invariance, HoldingInvariant, PTL

(* A viewer who owns no private namespace is served the figures warmed for  *)
(* anonymous viewers, and they are the ones computed for the viewer.        *)
THEOREM StatisticsAgreed ==
    Spec => [](\A ctx \in Contexts : StatisticsAgree(Refreshed(db), H!visibilityFilterFromContext(ctx)))
<1>1. IInv /\ Holding => \A ctx \in Contexts : StatisticsAgree(Refreshed(db), H!visibilityFilterFromContext(ctx))
  <2> SUFFICES ASSUME IInv, Holding, NEW ctx \in Contexts
               PROVE  StatisticsAgree(Refreshed(db), H!visibilityFilterFromContext(ctx))
    OBVIOUS
  <2>1. Fresh(Refreshed(db))
    BY RefreshedFresh DEF IInv, Holding
  <2>2. Refreshed(db).members \subseteq User \X Refreshed(db).ns /\ IsFiniteSet(Refreshed(db).ns)
    BY <2>1 DEF Fresh, Valid, ForeignKeys, Stored
  <2> QED  BY <2>2, StatisticsShared
<1> QED  BY <1>1, Invariance, HoldingInvariant, PTL

(* Every diff adds up, in whatever order the rows and the keys came: what   *)
(* the one side has, with what was added and without what was removed, are  *)
(* as many packages as the other side has, and no package is reported twice,*)
(* not even as another's previous one.                                      *)
THEOREM DiffsBalanced == Spec => []DiffsAddUp(Refreshed(db))
<1>1. IInv /\ Holding => DiffsAddUp(Refreshed(db))
  BY RefreshedFresh, DiffsBalance DEF IInv, Holding, Fresh
<1> QED  BY <1>1, Invariance, HoldingInvariant, PTL

(* The pages of a cluster agree, whatever was pushed to it in whatever      *)
(* order: coverage adds up over the states a workload can be in, the images *)
(* and the Kubernetes namespaces count every workload once, the gap is the  *)
(* images no SBOM matches, and a running vulnerability counts the workloads *)
(* its own page lists.                                                      *)
THEOREM ClusterPagesAgreed ==
    Spec => [](\A ctx \in Contexts : \A k \in Q!Clusters(Refreshed(db)) :
                 ClusterPagesAgree(Refreshed(db), H!visibilityFilterFromContext(ctx), k))
<1>1. IInv /\ Holding => \A ctx \in Contexts : \A k \in Q!Clusters(Refreshed(db)) :
                           ClusterPagesAgree(Refreshed(db), H!visibilityFilterFromContext(ctx), k)
  <2> SUFFICES ASSUME IInv, Holding, NEW ctx \in Contexts, NEW k \in Q!Clusters(Refreshed(db))
               PROVE  ClusterPagesAgree(Refreshed(db), H!visibilityFilterFromContext(ctx), k)
    OBVIOUS
  <2>1. Fresh(Refreshed(db))
    BY RefreshedFresh DEF IInv, Holding
  <2> QED  BY <2>1, ClusterPages DEF Fresh
<1> QED  BY <1>1, Invariance, HoldingInvariant, PTL
=============================================================================
