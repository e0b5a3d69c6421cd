----------------------------- MODULE ReadProofs -----------------------------
(***************************************************************************)
(* Proof that the reads tell a viewer nothing about the namespaces that    *)
(* viewer may not see, for every database the writes reach.                *)
(***************************************************************************)
EXTENDS CatalogueProofs

-----------------------------------------------------------------------------
(***************************************************************************)
(* Two databases that look alike                                           *)
(***************************************************************************)
VisibleArtifacts(d, v) == {a \in d.artifacts : Q!artifact_visible(d, v, a)}

(* The rows the queries read for v are the same in d and in e.             *)
Alike(d, e, v) ==
    LET S == Q!VisibleSBOMs(d, v)
        kind(x, s) == IF x.sbom[s].source = None THEN None ELSE x.source[x.sbom[s].source].kind
    IN /\ Q!visible_namespace_ids(e, v) = Q!visible_namespace_ids(d, v)
       /\ Q!owned_namespace_ids(e, v) = Q!owned_namespace_ids(d, v)
       /\ Q!owned_namespace_ids(e, v) \ e.public = Q!owned_namespace_ids(d, v) \ d.public
       /\ Q!VisibleSBOMs(e, v) = S
       /\ \A s \in S : /\ e.sbom[s] = d.sbom[s]
                       /\ kind(e, s) = kind(d, s)
                       /\ {r \in e.rollup["sbomVuln"] : r.sbom = s} = {r \in d.rollup["sbomVuln"] : r.sbom = s}
       /\ VisibleArtifacts(e, v) = VisibleArtifacts(d, v)
       /\ \A a : Q!LinkedTo(e, a) \cap Q!owned_namespace_ids(e, v) = Q!LinkedTo(d, a) \cap Q!owned_namespace_ids(d, v)
       /\ {q \in DOMAIN e.source : e.source[q].ns \in Q!visible_namespace_ids(e, v)} =
          {q \in DOMAIN d.source : d.source[q].ns \in Q!visible_namespace_ids(d, v)}
       /\ e.match = d.match /\ e.watch = d.watch
       /\ \A t \in Q!Tables \ {"sbomVuln"} : Q!RollupRows(e, v, t) = Q!RollupRows(d, v, t)

Viewer(v) == DOMAIN v = {"user", "admin"} /\ v.admin = FALSE

(* The columns of the database restricted to what v may see.               *)
RestrictedTo(d, v, e) ==
    LET N == Q!visible_namespace_ids(d, v)
        S == Q!VisibleSBOMs(d, v)
    IN /\ e.ns = N /\ e.public = d.public \cap N
       /\ e.members = {m \in d.members : m[2] \in N}
       /\ e.sbom = [s \in S |-> d.sbom[s]]
       /\ e.source = [q \in {q \in DOMAIN d.source : d.source[q].ns \in N
                               \/ \E s \in S : d.sbom[s].source = q} |-> d.source[q]]
       /\ e.artifacts = VisibleArtifacts(d, v)
       /\ e.links = {l \in d.links : l[2] \in N}
       /\ e.match = d.match /\ e.watch = d.watch /\ e.job = d.job
       /\ e.registry = [q \in {q \in DOMAIN d.registry : d.source[q].ns \in N} |-> d.registry[q]]
       /\ e.cluster = [k \in {k \in DOMAIN d.cluster : d.cluster[k].ns \in N} |-> d.cluster[k]]
       /\ e.workload = {w \in d.workload : d.cluster[w.cluster].ns \in N}
       /\ e.rollup = [t \in Q!Tables |->
            {row \in d.rollup[t] : IF t = "sbomVuln" THEN row.sbom \in S ELSE row.ns \in N}]

(* The tables of a restricted database, one by one.                        *)
LEMMA RestrictedColumns ==
    ASSUME NEW d, Valid(d), NEW v
    PROVE  RestrictedTo(d, v, Restricted(d, v))
  BY SMTT(60) DEF RestrictedTo, Restricted, VisibleArtifacts, Restrict, Valid, Schema

(* The restricted database shows the same to v, and to whoever sees less.  *)
LEMMA RestrictedAlike ==
    ASSUME NEW d, Valid(d), NEW v, Viewer(v), NEW e, RestrictedTo(d, v, e),
           NEW u, Viewer(u), Q!visible_namespace_ids(d, u) \subseteq Q!visible_namespace_ids(d, v)
    PROVE  Alike(d, e, u)
<1> DEFINE N == Q!visible_namespace_ids(d, v)
           S == Q!VisibleSBOMs(d, v)
           M == Q!visible_namespace_ids(d, u)
           T == Q!VisibleSBOMs(d, u)
<1>1. /\ e.ns = N /\ e.public = d.public \cap N
      /\ e.members = {m \in d.members : m[2] \in N}
      /\ e.sbom = [s \in S |-> d.sbom[s]]
      /\ e.source = [q \in {q \in DOMAIN d.source : d.source[q].ns \in N
                              \/ \E s \in S : d.sbom[s].source = q} |-> d.source[q]]
      /\ e.artifacts = VisibleArtifacts(d, v)
      /\ e.links = {l \in d.links : l[2] \in N}
      /\ e.match = d.match /\ e.watch = d.watch
      /\ e.rollup = [t \in Q!Tables |->
           {row \in d.rollup[t] : IF t = "sbomVuln" THEN row.sbom \in S ELSE row.ns \in N}]
  BY Zenon DEF RestrictedTo
<1>2. /\ N = {n \in d.ns : n \in d.public \/ <<v.user, n>> \in d.members} /\ v.admin = FALSE
      /\ M = {n \in d.ns : n \in d.public \/ <<u.user, n>> \in d.members} /\ u.admin = FALSE
      /\ M \subseteq N
  BY DEF Viewer, Q!visible_namespace_ids
<1> HIDE DEF N, M
<1>3. Q!visible_namespace_ids(e, u) = M
  BY <1>1, <1>2 DEF Q!visible_namespace_ids
<1>4. Q!owned_namespace_ids(e, u) = Q!owned_namespace_ids(d, u)
  BY <1>1, <1>2 DEF Q!owned_namespace_ids
<1>5. S = {s \in DOMAIN d.sbom : d.sbom[s].ns \in N} /\ T = {s \in DOMAIN d.sbom : d.sbom[s].ns \in M}
  BY DEF Q!VisibleSBOMs, Q!SBOMs, N, M
<1> HIDE DEF S, T
<1>6. Q!VisibleSBOMs(e, u) = T
  BY <1>1, <1>2, <1>3, <1>5, ZenonT(60) DEF Q!VisibleSBOMs, Q!SBOMs
<1> DEFINE kind(x, s) == IF x.sbom[s].source = None THEN None ELSE x.source[x.sbom[s].source].kind
<1>7. \A s \in T : /\ e.sbom[s] = d.sbom[s]
                   /\ kind(e, s) = kind(d, s)
                   /\ {r \in e.rollup["sbomVuln"] : r.sbom = s} = {r \in d.rollup["sbomVuln"] : r.sbom = s}
  <2>1. T \subseteq S /\ \A s \in T : e.sbom[s] = d.sbom[s]
    BY <1>1, <1>2, <1>5, ZenonT(60)
  <2>2. \A s \in T : kind(e, s) = kind(d, s)
    <3>1. SUFFICES ASSUME NEW s \in T PROVE kind(e, s) = kind(d, s)
      OBVIOUS
    <3>2. d.sbom[s].source = None \/ d.sbom[s].source \in DOMAIN d.source
      BY <1>5 DEF Valid, ForeignKeys, Q!SBOMs
    <3>3. d.sbom[s].source \in DOMAIN d.source => e.source[d.sbom[s].source] = d.source[d.sbom[s].source]
      BY <1>1, <2>1
    <3> QED  BY <2>1, <3>2, <3>3
  <2>3. \A s \in T : {r \in e.rollup["sbomVuln"] : r.sbom = s} = {r \in d.rollup["sbomVuln"] : r.sbom = s}
    BY <1>1, <2>1 DEF Q!Tables
  <2> QED  BY <2>1, <2>2, <2>3
<1>8. \A a : Q!LinkedTo(e, a) = Q!LinkedTo(d, a) \cap N
  BY <1>1, <1>2 DEF Q!LinkedTo
<1>9. VisibleArtifacts(e, u) = VisibleArtifacts(d, u)
  <2>1. \A a : Q!artifact_visible(d, u, a) => Q!artifact_visible(d, v, a)
    BY <1>2 DEF Q!artifact_visible, N, M
  <2>2. \A a \in VisibleArtifacts(d, v) : Q!LinkedTo(e, a) = {} <=> Q!LinkedTo(d, a) = {}
    BY <1>2, <1>8 DEF VisibleArtifacts, Q!artifact_visible, N
  <2>3. \A a : Q!LinkedTo(e, a) \cap M = Q!LinkedTo(d, a) \cap M
    BY <1>2, <1>8
  <2>4. \A a \in VisibleArtifacts(d, v) : Q!artifact_visible(e, u, a) <=> Q!artifact_visible(d, u, a)
    BY <1>2, <1>3, <2>2, <2>3 DEF Q!artifact_visible, M
  <2> QED  BY <1>1, <2>1, <2>4 DEF VisibleArtifacts
<1>10. /\ Q!owned_namespace_ids(d, u) \subseteq N
       /\ Q!owned_namespace_ids(e, u) \ e.public = Q!owned_namespace_ids(d, u) \ d.public
       /\ \A a : Q!LinkedTo(e, a) \cap Q!owned_namespace_ids(e, u) = Q!LinkedTo(d, a) \cap Q!owned_namespace_ids(d, u)
  <2>1. Q!owned_namespace_ids(d, u) \subseteq N
    BY <1>2 DEF Q!owned_namespace_ids
  <2> QED  BY <1>1, <1>4, <1>8, <2>1
<1>11. \A t \in Q!Tables \ {"sbomVuln"} : Q!RollupRows(e, u, t) = Q!RollupRows(d, u, t)
  BY <1>1, <1>2, <1>3, SMTT(60) DEF Q!RollupRows, M
<1>12. {q \in DOMAIN e.source : e.source[q].ns \in Q!visible_namespace_ids(e, u)} =
       {q \in DOMAIN d.source : d.source[q].ns \in Q!visible_namespace_ids(d, u)}
  BY <1>1, <1>2, <1>3, ZenonT(60) DEF M
<1> QED  BY <1>1, <1>3, <1>4, <1>6, <1>7, <1>9, <1>10, <1>11, <1>12 DEF Alike, M, T

(* The queries of the API's own instance read the same rows.               *)
HAlike(d, e, v) ==
    LET S == H!S!Q!VisibleSBOMs(d, v)
    IN /\ H!S!Q!visible_namespace_ids(e, v) = H!S!Q!visible_namespace_ids(d, v)
       /\ H!S!Q!owned_namespace_ids(e, v) = H!S!Q!owned_namespace_ids(d, v)
       /\ H!S!Q!VisibleSBOMs(e, v) = S
       /\ \A s \in S : /\ e.sbom[s] = d.sbom[s]
                       /\ H!S!Q!GetSBOM(e, s) = H!S!Q!GetSBOM(d, s)
                       /\ H!S!Q!RollupCounts(e, s) = H!S!Q!RollupCounts(d, s)
       /\ \A X \in SUBSET S : H!S!Q!Newest(e, X) = H!S!Q!Newest(d, X) /\ (X # {} => H!S!Q!Newest(d, X) \in X)
       /\ {a \in e.artifacts : H!S!Q!artifact_visible(e, v, a)} = {a \in d.artifacts : H!S!Q!artifact_visible(d, v, a)}
       /\ \A a : H!S!Q!VisibleOf(e, v, a) = H!S!Q!VisibleOf(d, v, a) /\ H!S!Q!VisibleOf(d, v, a) \subseteq S
       /\ \A a : H!S!Q!LinkedTo(e, a) \cap H!S!Q!owned_namespace_ids(e, v) =
                 H!S!Q!LinkedTo(d, a) \cap H!S!Q!owned_namespace_ids(d, v)
       /\ e.match = d.match /\ e.watch = d.watch
       /\ \A t \in {"component", "version", "license", "licenseComponent", "vuln"} :
            H!S!Q!RollupRows(e, v, t) = H!S!Q!RollupRows(d, v, t)

(* The reads that the handlers make through their own instance are the ones*)
(* of the service.                                                         *)
LEMMA SameAliases ==
    ASSUME NEW d, NEW v
    PROVE  /\ H!S!Q!visible_namespace_ids(d, v) = Q!visible_namespace_ids(d, v)
           /\ H!S!Q!owned_namespace_ids(d, v) = Q!owned_namespace_ids(d, v)
           /\ H!S!Q!VisibleSBOMs(d, v) = Q!VisibleSBOMs(d, v)
           /\ \A a : H!S!Q!LinkedTo(d, a) = Q!LinkedTo(d, a)
           /\ \A a : H!S!Q!artifact_visible(d, v, a) <=> Q!artifact_visible(d, v, a)
           /\ \A t : H!S!Q!RollupRows(d, v, t) = Q!RollupRows(d, v, t)
<1>1. H!S!Q!visible_namespace_ids(d, v) = Q!visible_namespace_ids(d, v)
  BY Zenon DEF H!S!Q!visible_namespace_ids, Q!visible_namespace_ids
<1>2. H!S!Q!owned_namespace_ids(d, v) = Q!owned_namespace_ids(d, v)
  BY Zenon DEF H!S!Q!owned_namespace_ids, Q!owned_namespace_ids
<1>3. H!S!Q!VisibleSBOMs(d, v) = Q!VisibleSBOMs(d, v)
  BY <1>1 DEF H!S!Q!VisibleSBOMs, Q!VisibleSBOMs, H!S!Q!SBOMs, Q!SBOMs
<1>4. \A a : H!S!Q!LinkedTo(d, a) = Q!LinkedTo(d, a)
  BY Zenon DEF H!S!Q!LinkedTo, Q!LinkedTo
<1>5. \A a : H!S!Q!artifact_visible(d, v, a) <=> Q!artifact_visible(d, v, a)
  BY <1>1, <1>4 DEF H!S!Q!artifact_visible, Q!artifact_visible
<1>6. \A t : H!S!Q!RollupRows(d, v, t) = Q!RollupRows(d, v, t)
  BY <1>1 DEF H!S!Q!RollupRows, Q!RollupRows
<1> QED  BY <1>1, <1>2, <1>3, <1>4, <1>5, <1>6

(* The queries' helpers find the same rows in both databases.              *)
LEMMA AlikeReads ==
    ASSUME NEW d, Valid(d), NEW e, NEW v, Alike(d, e, v)
    PROVE  HAlike(d, e, v)
<1> DEFINE S == H!S!Q!VisibleSBOMs(d, v)
           kind(x, s) == IF x.sbom[s].source = None THEN None ELSE x.source[x.sbom[s].source].kind
<1>1. /\ H!S!Q!visible_namespace_ids(e, v) = H!S!Q!visible_namespace_ids(d, v)
      /\ H!S!Q!owned_namespace_ids(e, v) = H!S!Q!owned_namespace_ids(d, v)
      /\ H!S!Q!VisibleSBOMs(e, v) = S
  BY SameAliases DEF Alike
<1>2. \A s \in S : /\ e.sbom[s] = d.sbom[s]
                   /\ kind(e, s) = kind(d, s)
                   /\ {r \in e.rollup["sbomVuln"] : r.sbom = s} = {r \in d.rollup["sbomVuln"] : r.sbom = s}
  <2>1. S = Q!VisibleSBOMs(d, v)
    BY SameAliases
  <2> HIDE DEF S
  <2> QED  BY <2>1, Zenon DEF Alike
<1>3. \A s \in S : H!S!Q!GetSBOM(e, s) = H!S!Q!GetSBOM(d, s)
  BY <1>2 DEF H!S!Q!GetSBOM, H!S!Q!None, None, Q!None
<1>4. \A s \in S : H!S!Q!RollupCounts(e, s) = H!S!Q!RollupCounts(d, s)
  <2>1. SUFFICES ASSUME NEW s \in S PROVE H!S!Q!RollupCounts(e, s) = H!S!Q!RollupCounts(d, s)
    OBVIOUS
  <2> DEFINE counts(rows) == IF rows = {} THEN H!S!Q!SeverityCounts({}) ELSE (CHOOSE r \in rows : TRUE).vulns
  <2>2. \A x : H!S!Q!RollupCounts(x, s) = counts({r \in x.rollup["sbomVuln"] : r.sbom = s})
    BY Zenon DEF H!S!Q!RollupCounts
  <2> HIDE DEF counts
  <2> QED  BY <1>2, <2>2
<1>5. S \subseteq Q!SBOMs(d)
  BY SameAliases DEF Q!VisibleSBOMs
<1>6. ASSUME NEW X \in SUBSET S
      PROVE  H!S!Q!Newest(e, X) = H!S!Q!Newest(d, X) /\ (X # {} => H!S!Q!Newest(d, X) \in X)
  <2>1. \A s \in X : (\A t \in X : e.sbom[t].at <= e.sbom[s].at) <=> (\A t \in X : d.sbom[t].at <= d.sbom[s].at)
    BY <1>2
  <2>2. H!S!Q!Newest(e, X) = H!S!Q!Newest(d, X)
    BY <2>1 DEF H!S!Q!Newest
  <2>3. X # {} => \E s \in X : \A t \in X : d.sbom[t].at <= d.sbom[s].at
    BY <1>5, LastCreated
  <2> QED  BY <2>2, <2>3, Zenon DEF H!S!Q!Newest
<1>7. {a \in e.artifacts : H!S!Q!artifact_visible(e, v, a)} = {a \in d.artifacts : H!S!Q!artifact_visible(d, v, a)}
  BY SameAliases DEF Alike, VisibleArtifacts
<1>8. \A a : H!S!Q!VisibleOf(e, v, a) = H!S!Q!VisibleOf(d, v, a) /\ H!S!Q!VisibleOf(d, v, a) \subseteq S
  BY <1>1 DEF H!S!Q!VisibleOf, H!S!Q!SBOMsOf, H!S!Q!VisibleSBOMs
<1>9. /\ \A a : H!S!Q!LinkedTo(e, a) \cap H!S!Q!owned_namespace_ids(e, v) =
                H!S!Q!LinkedTo(d, a) \cap H!S!Q!owned_namespace_ids(d, v)
      /\ e.match = d.match /\ e.watch = d.watch
      /\ \A t \in {"component", "version", "license", "licenseComponent", "vuln"} :
           H!S!Q!RollupRows(e, v, t) = H!S!Q!RollupRows(d, v, t)
  BY SameAliases DEF Alike, Q!Tables
<1> QED  BY <1>1, <1>2, <1>3, <1>4, <1>6, <1>7, <1>8, <1>9 DEF HAlike

-----------------------------------------------------------------------------
(***************************************************************************)
(* The queries                                                             *)
(***************************************************************************)
(* Of an artifact's versions and SBOMs.                                    *)
LEMMA VersionQueries ==
    ASSUME NEW d, NEW e, NEW v, HAlike(d, e, v), NEW a
    PROVE  /\ H!S!Q!CountArtifactVersions(e, v, a) = H!S!Q!CountArtifactVersions(d, v, a)
           /\ H!S!Q!CountSBOMsByArtifact(e, v, a) = H!S!Q!CountSBOMsByArtifact(d, v, a)
           /\ H!S!Q!CountSufficientSBOMsByArtifact(e, v, a) = H!S!Q!CountSufficientSBOMsByArtifact(d, v, a)
           /\ H!S!Q!ListArtifactVersions(e, v, a) = H!S!Q!ListArtifactVersions(d, v, a)
           /\ H!S!Q!ListSBOMCandidatesByArtifact(e, v, a) = H!S!Q!ListSBOMCandidatesByArtifact(d, v, a)
           /\ H!S!Q!ListSBOMsByArtifact(e, v, a) = H!S!Q!ListSBOMsByArtifact(d, v, a)
           /\ H!S!Q!GetArtifactCurrentVersion(e, v, a) = H!S!Q!GetArtifactCurrentVersion(d, v, a)
<1> DEFINE S == H!S!Q!VisibleOf(d, v, a)
           of(k) == {s \in S : H!S!Q!VersionKey(s) = k}
           K == {H!S!Q!VersionKey(s) : s \in S}
<1>1. /\ H!S!Q!VisibleOf(e, v, a) = S
      /\ \A s \in S : e.sbom[s] = d.sbom[s] /\ H!S!Q!RollupCounts(e, s) = H!S!Q!RollupCounts(d, s)
      /\ \A X \in SUBSET S : H!S!Q!Newest(e, X) = H!S!Q!Newest(d, X) /\ (X # {} => H!S!Q!Newest(d, X) \in X)
  BY DEF HAlike
<1> HIDE DEF S
<1>2. H!S!Q!ListArtifactVersions(e, v, a) = H!S!Q!ListArtifactVersions(d, v, a)
  <2>1. \A k \in K : of(k) \in SUBSET S /\ of(k) # {}
    OBVIOUS
  <2>2. \A k \in K : /\ H!S!Q!Newest(e, of(k)) = H!S!Q!Newest(d, of(k))
                     /\ H!S!Q!RollupCounts(e, H!S!Q!Newest(d, of(k))) = H!S!Q!RollupCounts(d, H!S!Q!Newest(d, of(k)))
    BY <1>1, <2>1
  <2> QED  BY <1>1, <2>2 DEF S, H!S!Q!ListArtifactVersions
<1>3. /\ H!S!Q!CountArtifactVersions(e, v, a) = H!S!Q!CountArtifactVersions(d, v, a)
      /\ H!S!Q!CountSBOMsByArtifact(e, v, a) = H!S!Q!CountSBOMsByArtifact(d, v, a)
      /\ H!S!Q!CountSufficientSBOMsByArtifact(e, v, a) = H!S!Q!CountSufficientSBOMsByArtifact(d, v, a)
  BY <1>1 DEF S, H!S!Q!CountArtifactVersions, H!S!Q!CountSBOMsByArtifact, H!S!Q!CountSufficientSBOMsByArtifact
<1>4. H!S!Q!ListSBOMCandidatesByArtifact(e, v, a) = H!S!Q!ListSBOMCandidatesByArtifact(d, v, a)
  BY <1>1 DEF S, H!S!Q!ListSBOMCandidatesByArtifact
<1>5. H!S!Q!ListSBOMsByArtifact(e, v, a) = H!S!Q!ListSBOMsByArtifact(d, v, a)
  BY <1>1 DEF S, H!S!Q!ListSBOMsByArtifact
<1>6. H!S!Q!GetArtifactCurrentVersion(e, v, a) = H!S!Q!GetArtifactCurrentVersion(d, v, a)
  BY <1>1 DEF S, H!S!Q!GetArtifactCurrentVersion
<1> QED  BY <1>2, <1>3, <1>4, <1>5, <1>6

(* Of what an artifact contains and where it is used.                      *)
LEMMA RelationQueries ==
    ASSUME NEW d, NEW e, NEW v, HAlike(d, e, v), NEW a
    PROVE  /\ H!S!Q!ListArtifactContains(e, v, a) = H!S!Q!ListArtifactContains(d, v, a)
           /\ \A modules : H!S!Q!ListArtifactUsages(e, v, a, modules) = H!S!Q!ListArtifactUsages(d, v, a, modules)
<1>1. \A b : H!S!Q!GetArtifactCurrentVersion(e, v, b) = H!S!Q!GetArtifactCurrentVersion(d, v, b)
  BY VersionQueries
<1>2. /\ \A b : H!S!Q!VisibleOf(e, v, b) = H!S!Q!VisibleOf(d, v, b)
      /\ \A b : H!S!Q!Newest(e, H!S!Q!VisibleOf(d, v, b)) = H!S!Q!Newest(d, H!S!Q!VisibleOf(d, v, b))
      /\ {b \in e.artifacts : H!S!Q!artifact_visible(e, v, b)} = {b \in d.artifacts : H!S!Q!artifact_visible(d, v, b)}
      /\ H!S!Q!VisibleSBOMs(e, v) = H!S!Q!VisibleSBOMs(d, v)
  BY DEF HAlike
<1>3. \A c : {b \in e.artifacts \ {a} : H!S!Q!ContainsJoin(b, c) /\ H!S!Q!artifact_visible(e, v, b)}
             = {b \in d.artifacts \ {a} : H!S!Q!ContainsJoin(b, c) /\ H!S!Q!artifact_visible(d, v, b)}
  BY <1>2
<1>4. H!S!Q!ListArtifactContains(e, v, a) = H!S!Q!ListArtifactContains(d, v, a)
  BY <1>1, <1>2, <1>3 DEF H!S!Q!ListArtifactContains
<1>5. \A modules : H!S!Q!ListArtifactUsages(e, v, a, modules) = H!S!Q!ListArtifactUsages(d, v, a, modules)
  BY <1>2 DEF H!S!Q!ListArtifactUsages
<1> QED  BY <1>4, <1>5

(* Of the findings of SBOMs: they read the matches alone.                  *)
LEMMA FindingQueries ==
    ASSUME NEW d, NEW e, e.match = d.match
    PROVE  /\ \A S : H!S!Q!Findings(e, S) = H!S!Q!Findings(d, S)
           /\ \A scope : H!S!Q!VulnsIn(e, scope) = H!S!Q!VulnsIn(d, scope)
           /\ \A s : H!S!Q!ListSBOMVulns(e, s) = H!S!Q!ListSBOMVulns(d, s)
           /\ \A s : H!S!Q!CountSBOMVulns(e, s) = H!S!Q!CountSBOMVulns(d, s)
           /\ \A s : H!S!Q!GetSBOMVulnSummary(e, s) = H!S!Q!GetSBOMVulnSummary(d, s)
           /\ \A s : H!S!Q!ListSBOMComponentVulns(e, s) = H!S!Q!ListSBOMComponentVulns(d, s)
           /\ \A s, X : H!S!Q!ListSBOMVulnAffectedPackages(e, s, X) = H!S!Q!ListSBOMVulnAffectedPackages(d, s, X)
           /\ \A c : H!S!Q!ListVulnsByPurl(e, c) = H!S!Q!ListVulnsByPurl(d, c)
           /\ \A P : H!S!Q!ListVulnsByPurls(e, P) = H!S!Q!ListVulnsByPurls(d, P)
<1>1. \A S : H!S!Q!Findings(e, S) = H!S!Q!Findings(d, S)
  BY DEF H!S!Q!Findings
<1>2. \A scope : H!S!Q!VulnsIn(e, scope) = H!S!Q!VulnsIn(d, scope)
  BY DEF H!S!Q!VulnsIn
<1>3. ASSUME NEW s PROVE H!S!Q!ListSBOMVulns(e, s) = H!S!Q!ListSBOMVulns(d, s)
  <2>1. H!S!Q!Findings(e, {s}) = H!S!Q!Findings(d, {s})
    BY <1>1
  <2> QED  BY <2>1, Zenon DEF H!S!Q!ListSBOMVulns
<1>4. ASSUME NEW s PROVE /\ H!S!Q!CountSBOMVulns(e, s) = H!S!Q!CountSBOMVulns(d, s)
                         /\ H!S!Q!GetSBOMVulnSummary(e, s) = H!S!Q!GetSBOMVulnSummary(d, s)
  <2>1. H!S!Q!VulnsIn(e, H!S!Q!Scope({s})) = H!S!Q!VulnsIn(d, H!S!Q!Scope({s}))
    BY <1>2
  <2>2. H!S!Q!CountSBOMVulns(e, s) = H!S!Q!CountSBOMVulns(d, s)
    BY <2>1, Zenon DEF H!S!Q!CountSBOMVulns
  <2>3. H!S!Q!GetSBOMVulnSummary(e, s) = H!S!Q!GetSBOMVulnSummary(d, s)
    BY <2>1, Zenon DEF H!S!Q!GetSBOMVulnSummary
  <2> QED  BY <2>2, <2>3
<1>5. ASSUME NEW s PROVE H!S!Q!ListSBOMComponentVulns(e, s) = H!S!Q!ListSBOMComponentVulns(d, s)
  <2>1. H!S!Q!Findings(e, {s}) = H!S!Q!Findings(d, {s})
    BY <1>1
  <2> QED  BY <2>1, Zenon DEF H!S!Q!ListSBOMComponentVulns
<1>6. ASSUME NEW s, NEW X
      PROVE  H!S!Q!ListSBOMVulnAffectedPackages(e, s, X) = H!S!Q!ListSBOMVulnAffectedPackages(d, s, X)
  <2>1. H!S!Q!Findings(e, {s}) = H!S!Q!Findings(d, {s})
    BY <1>1
  <2> QED  BY <2>1, Zenon DEF H!S!Q!ListSBOMVulnAffectedPackages
<1>7. \A c : H!S!Q!ListVulnsByPurl(e, c) = H!S!Q!ListVulnsByPurl(d, c)
  BY DEF H!S!Q!ListVulnsByPurl
<1>8. \A P : H!S!Q!ListVulnsByPurls(e, P) = H!S!Q!ListVulnsByPurls(d, P)
  BY DEF H!S!Q!ListVulnsByPurls
<1> QED  BY <1>1, <1>2, <1>3, <1>4, <1>5, <1>6, <1>7, <1>8

(* Of an artifact's findings: their scope is the newest visible SBOM of    *)
(* each of its highest versions.                                           *)
LEMMA ArtifactFindings ==
    ASSUME NEW d, NEW e, NEW v, HAlike(d, e, v), NEW a, NEW n
    PROVE  /\ H!S!Q!ArtifactScope(e, v, a, n) = H!S!Q!ArtifactScope(d, v, a, n)
           /\ H!S!Q!CountArtifactVulns(e, v, a, n) = H!S!Q!CountArtifactVulns(d, v, a, n)
           /\ H!S!Q!ListArtifactVulns(e, v, a, n) = H!S!Q!ListArtifactVulns(d, v, a, n)
           /\ \A X : H!S!Q!ListArtifactVulnAffectedVersions(e, v, a, n, X) =
                     H!S!Q!ListArtifactVulnAffectedVersions(d, v, a, n, X)
<1> DEFINE S == H!S!Q!VisibleOf(d, v, a)
           newest(x, T) == {H!S!Q!Newest(x, {s \in T : H!S!Q!VersionKey(s) = k}) : k \in {H!S!Q!VersionKey(s) : s \in T}}
           of(k) == {s \in S : H!S!Q!VersionKey(s) = k}
           K == {H!S!Q!VersionKey(s) : s \in S}
           above(x, N, s) == {t \in N : \/ Doc[s].semver < Doc[t].semver
                                        \/ Doc[s].semver = Doc[t].semver /\ x.sbom[s].at < x.sbom[t].at}
           lowest(x, N) == {s \in N : H!S!Q!Cardinality(above(x, N, s)) < n}
<1>1. /\ H!S!Q!VisibleOf(e, v, a) = S
      /\ \A s \in S : e.sbom[s] = d.sbom[s]
      /\ \A X \in SUBSET S : H!S!Q!Newest(e, X) = H!S!Q!Newest(d, X) /\ (X # {} => H!S!Q!Newest(d, X) \in X)
      /\ e.match = d.match
  BY DEF HAlike
<1>2. \A x : H!S!Q!ArtifactScope(x, v, a, n) = lowest(x, newest(x, H!S!Q!VisibleOf(x, v, a)))
  BY Zenon DEF H!S!Q!ArtifactScope
<1> HIDE DEF S
<1>3. newest(e, S) = newest(d, S) /\ newest(d, S) \subseteq S
  <2>1. \A k \in K : of(k) \in SUBSET S /\ of(k) # {}
    OBVIOUS
  <2>2. \A k \in K : H!S!Q!Newest(e, of(k)) = H!S!Q!Newest(d, of(k)) /\ H!S!Q!Newest(d, of(k)) \in S
    BY <1>1, <2>1
  <2> QED  BY <2>2
<1> DEFINE M == newest(d, S)
<1>4. \A s \in M : above(e, M, s) = above(d, M, s)
  <2> HIDE DEF M
  <2> QED  BY <1>1, <1>3 DEF M
<1> HIDE DEF newest
<1> HIDE DEF above
<1>5. H!S!Q!ArtifactScope(e, v, a, n) = H!S!Q!ArtifactScope(d, v, a, n)
  BY <1>1, <1>2, <1>3, <1>4 DEF S
<1> DEFINE T == H!S!Q!ArtifactScope(d, v, a, n)
<1>6. /\ H!S!Q!Findings(e, T) = H!S!Q!Findings(d, T)
      /\ H!S!Q!VulnsIn(e, H!S!Q!Scope(T)) = H!S!Q!VulnsIn(d, H!S!Q!Scope(T))
  BY <1>1, FindingQueries
<1>7. H!S!Q!CountArtifactVulns(e, v, a, n) = H!S!Q!CountArtifactVulns(d, v, a, n)
  BY <1>5, <1>6, Zenon DEF H!S!Q!CountArtifactVulns
<1>8. H!S!Q!ListArtifactVulns(e, v, a, n) = H!S!Q!ListArtifactVulns(d, v, a, n)
  BY <1>5, <1>6, Zenon DEF H!S!Q!ListArtifactVulns
<1>9. ASSUME NEW X
      PROVE  H!S!Q!ListArtifactVulnAffectedVersions(e, v, a, n, X) =
             H!S!Q!ListArtifactVulnAffectedVersions(d, v, a, n, X)
  BY <1>5, <1>6, Zenon DEF H!S!Q!ListArtifactVulnAffectedVersions
<1> QED  BY <1>5, <1>7, <1>8, <1>9

(* Of components and licenses.                                             *)
LEMMA ComponentQueries ==
    ASSUME NEW d, NEW e, NEW v, HAlike(d, e, v)
    PROVE  /\ \A f : H!S!Q!SearchComponents(e, v, f) = H!S!Q!SearchComponents(d, v, f)
           /\ \A f : H!S!Q!GetComponentVersions(e, v, f) = H!S!Q!GetComponentVersions(d, v, f)
           /\ \A f : H!S!Q!CountComponentVersions(e, v, f) = H!S!Q!CountComponentVersions(d, v, f)
           /\ \A f : H!S!Q!ListComponentVersionSummaries(e, v, f) = H!S!Q!ListComponentVersionSummaries(d, v, f)
           /\ H!S!Q!SearchDistinctComponents(e, v) = H!S!Q!SearchDistinctComponents(d, v)
           /\ H!S!Q!ListComponentPurlTypes(e, v) = H!S!Q!ListComponentPurlTypes(d, v)
           /\ \A L : H!S!Q!IdentityCount(e, v, L) = H!S!Q!IdentityCount(d, v, L)
           /\ H!S!Q!ListLicenses(e, v) = H!S!Q!ListLicenses(d, v)
           /\ \A l : H!S!Q!ListComponentsByLicense(e, v, l) = H!S!Q!ListComponentsByLicense(d, v, l)
<1>1. /\ H!S!Q!VisibleSBOMs(e, v) = H!S!Q!VisibleSBOMs(d, v)
      /\ H!S!Q!RollupRows(e, v, "component") = H!S!Q!RollupRows(d, v, "component")
      /\ H!S!Q!RollupRows(e, v, "license") = H!S!Q!RollupRows(d, v, "license")
      /\ H!S!Q!RollupRows(e, v, "licenseComponent") = H!S!Q!RollupRows(d, v, "licenseComponent")
  BY DEF HAlike
<1>2. \A f : H!S!Q!SearchComponents(e, v, f) = H!S!Q!SearchComponents(d, v, f)
  BY <1>1 DEF H!S!Q!SearchComponents
<1>3. \A f : H!S!Q!GetComponentVersions(e, v, f) = H!S!Q!GetComponentVersions(d, v, f)
  BY <1>2 DEF H!S!Q!GetComponentVersions
<1>4. \A f : H!S!Q!CountComponentVersions(e, v, f) = H!S!Q!CountComponentVersions(d, v, f)
  BY <1>2 DEF H!S!Q!CountComponentVersions
<1>5. ASSUME NEW f
      PROVE  H!S!Q!ListComponentVersionSummaries(e, v, f) = H!S!Q!ListComponentVersionSummaries(d, v, f)
  <2>1. H!S!Q!SearchComponents(e, v, f) = H!S!Q!SearchComponents(d, v, f)
    BY <1>2
  <2> QED  BY <2>1 DEF H!S!Q!ListComponentVersionSummaries
<1>6. H!S!Q!SearchDistinctComponents(e, v) = H!S!Q!SearchDistinctComponents(d, v)
  BY <1>1, Zenon DEF H!S!Q!SearchDistinctComponents
<1>7. H!S!Q!ListComponentPurlTypes(e, v) = H!S!Q!ListComponentPurlTypes(d, v)
  BY <1>1 DEF H!S!Q!ListComponentPurlTypes
<1>8. \A L : H!S!Q!IdentityCount(e, v, L) = H!S!Q!IdentityCount(d, v, L)
  BY <1>1 DEF H!S!Q!IdentityCount
<1>9. H!S!Q!ListLicenses(e, v) = H!S!Q!ListLicenses(d, v)
  <2>1. \A l : H!S!Q!IdentityCount(e, v, {l}) = H!S!Q!IdentityCount(d, v, {l})
    BY <1>8
  <2> DEFINE row(x, l) == [license |-> l, components |-> H!S!Q!IdentityCount(x, v, {l})]
  <2>2. \A l : row(e, l) = row(d, l)
    BY <2>1
  <2>3. \A x : H!S!Q!ListLicenses(x, v) = {row(x, l) : l \in H!S!Q!License}
    BY Zenon DEF H!S!Q!ListLicenses
  <2> HIDE DEF row
  <2> QED  BY <2>2, <2>3
<1>10. ASSUME NEW l PROVE H!S!Q!ListComponentsByLicense(e, v, l) = H!S!Q!ListComponentsByLicense(d, v, l)
  <2> DEFINE of(R) == {r \in R : r.license = l}
             one(R) == {(CHOOSE r \in of(R) : r.id = i).row : i \in {r.id : r \in of(R)}}
  <2>1. \A x : H!S!Q!ListComponentsByLicense(x, v, l) = one(H!S!Q!RollupRows(x, v, "licenseComponent"))
    BY Zenon DEF H!S!Q!ListComponentsByLicense
  <2> HIDE DEF one
  <2> QED  BY <1>1, <2>1
<1> QED  BY <1>2, <1>3, <1>4, <1>5, <1>6, <1>7, <1>8, <1>9, <1>10

(* Of vulnerabilities across the catalogue.                                *)
LEMMA VulnerabilityQueries ==
    ASSUME NEW d, NEW e, NEW v, HAlike(d, e, v)
    PROVE  /\ \A x : H!S!Q!ListAffectedArtifactsByVuln(e, v, x) = H!S!Q!ListAffectedArtifactsByVuln(d, v, x)
           /\ \A x : H!S!Q!ListAffectedComponentsByVuln(e, v, x) = H!S!Q!ListAffectedComponentsByVuln(d, v, x)
           /\ \A x : H!S!Q!CountAffectedNamespacesByVuln(e, v, x) = H!S!Q!CountAffectedNamespacesByVuln(d, v, x)
<1>1. /\ H!S!Q!VisibleSBOMs(e, v) = H!S!Q!VisibleSBOMs(d, v) /\ e.match = d.match
      /\ \A s \in H!S!Q!VisibleSBOMs(d, v) : e.sbom[s] = d.sbom[s]
  BY DEF HAlike
<1>2. \A x : H!S!Q!AffectedRows(e, v, x) = H!S!Q!AffectedRows(d, v, x)
  BY <1>1 DEF H!S!Q!AffectedRows
<1>3. \A x : \A h \in H!S!Q!AffectedRows(d, v, x) : h[1].sbom \in H!S!Q!VisibleSBOMs(d, v)
  BY DEF H!S!Q!AffectedRows, H!S!Q!Rows
<1>4. ASSUME NEW x
      PROVE  /\ H!S!Q!ListAffectedArtifactsByVuln(e, v, x) = H!S!Q!ListAffectedArtifactsByVuln(d, v, x)
             /\ H!S!Q!ListAffectedComponentsByVuln(e, v, x) = H!S!Q!ListAffectedComponentsByVuln(d, v, x)
             /\ H!S!Q!CountAffectedNamespacesByVuln(e, v, x) = H!S!Q!CountAffectedNamespacesByVuln(d, v, x)
  <2> DEFINE hits == H!S!Q!AffectedRows(d, v, x)
  <2>1. H!S!Q!AffectedRows(e, v, x) = hits
    BY <1>2
  <2>2. H!S!Q!ListAffectedArtifactsByVuln(e, v, x) = H!S!Q!ListAffectedArtifactsByVuln(d, v, x)
    BY <2>1, Zenon DEF H!S!Q!ListAffectedArtifactsByVuln
  <2>3. H!S!Q!ListAffectedComponentsByVuln(e, v, x) = H!S!Q!ListAffectedComponentsByVuln(d, v, x)
    BY <2>1, Zenon DEF H!S!Q!ListAffectedComponentsByVuln
  <2>4. {e.sbom[h[1].sbom].ns : h \in hits} = {d.sbom[h[1].sbom].ns : h \in hits}
    BY <1>1, <1>3
  <2>5. H!S!Q!CountAffectedNamespacesByVuln(e, v, x) = H!S!Q!CountAffectedNamespacesByVuln(d, v, x)
    BY <2>1, <2>4, Zenon DEF H!S!Q!CountAffectedNamespacesByVuln
  <2> QED  BY <2>2, <2>3, <2>5
<1> QED  BY <1>4

(* Of the statistics.                                                      *)
LEMMA StatisticsQueries ==
    ASSUME NEW d, NEW e, NEW v, HAlike(d, e, v)
    PROVE  H!S!WarmDashboardStats(e, v) = H!S!WarmDashboardStats(d, v)
<1>1. /\ H!S!Q!VisibleSBOMs(e, v) = H!S!Q!VisibleSBOMs(d, v)
      /\ \A s \in H!S!Q!VisibleSBOMs(d, v) : e.sbom[s] = d.sbom[s]
      /\ {a \in e.artifacts : H!S!Q!artifact_visible(e, v, a)} = {a \in d.artifacts : H!S!Q!artifact_visible(d, v, a)}
      /\ H!S!Q!RollupRows(e, v, "component") = H!S!Q!RollupRows(d, v, "component")
      /\ H!S!Q!RollupRows(e, v, "version") = H!S!Q!RollupRows(d, v, "version")
      /\ H!S!Q!RollupRows(e, v, "license") = H!S!Q!RollupRows(d, v, "license")
      /\ H!S!Q!RollupRows(e, v, "vuln") = H!S!Q!RollupRows(d, v, "vuln")
  BY DEF HAlike
<1>2. H!S!Q!GetSummaryCounts(e, v) = H!S!Q!GetSummaryCounts(d, v)
  BY <1>1 DEF H!S!Q!GetSummaryCounts
<1>3. H!S!Q!GetArtifactTypeCounts(e, v) = H!S!Q!GetArtifactTypeCounts(d, v)
  BY <1>1 DEF H!S!Q!GetArtifactTypeCounts
<1>4. H!S!Q!GetLicenseCategoryCounts(e, v) = H!S!Q!GetLicenseCategoryCounts(d, v)
  <2> DEFINE L(l) == {k \in H!S!Q!License : Category[k] = Category[l]}
             row(x, l) == [category |-> Category[l], components |-> H!S!Q!IdentityCount(x, v, L(l))]
  <2>1. \A X : H!S!Q!IdentityCount(e, v, X) = H!S!Q!IdentityCount(d, v, X)
    BY <1>1 DEF H!S!Q!IdentityCount
  <2>2. \A x : H!S!Q!GetLicenseCategoryCounts(x, v) = {row(x, l) : l \in {r.license : r \in H!S!Q!RollupRows(x, v, "license")}}
    BY Zenon DEF H!S!Q!GetLicenseCategoryCounts
  <2> HIDE DEF L
  <2>3. \A l : row(e, l) = row(d, l)
    BY <2>1
  <2> HIDE DEF row
  <2> QED  BY <1>1, <2>2, <2>3, ZenonT(60)
<1>5. H!S!Q!GetSBOMIngestionTimeline(e, v) = H!S!Q!GetSBOMIngestionTimeline(d, v)
  <2> DEFINE S == H!S!Q!VisibleSBOMs(d, v)
             of(x, t) == {s \in S : x.sbom[s].at = t}
             days(x) == {x.sbom[s].at : s \in S}
  <2> HIDE DEF S
  <2>1. days(e) = days(d) /\ \A t : of(e, t) = of(d, t)
    BY <1>1 DEF S
  <2>2. \A x : H!S!Q!VisibleSBOMs(x, v) = S =>
          H!S!Q!GetSBOMIngestionTimeline(x, v) = {<<t, H!S!Q!Cardinality(of(x, t))>> : t \in days(x)}
    BY Zenon DEF H!S!Q!GetSBOMIngestionTimeline
  <2> HIDE DEF of, days
  <2> QED  BY <1>1, <2>1, <2>2 DEF S
<1>6. /\ H!S!Q!GetPackageGrowthTimeline(e, v) = H!S!Q!GetPackageGrowthTimeline(d, v)
      /\ H!S!Q!GetVersionGrowthTimeline(e, v) = H!S!Q!GetVersionGrowthTimeline(d, v)
  BY <1>1 DEF H!S!Q!GetPackageGrowthTimeline, H!S!Q!GetVersionGrowthTimeline
<1>7. H!S!Q!GetTopPackagesByVersionCount(e, v) = H!S!Q!GetTopPackagesByVersionCount(d, v)
  BY <1>1, Zenon DEF H!S!Q!GetTopPackagesByVersionCount
<1>8. H!S!Q!GetVulnStats(e, v) = H!S!Q!GetVulnStats(d, v)
  BY <1>1 DEF H!S!Q!GetVulnStats
<1> QED  BY <1>2, <1>3, <1>4, <1>5, <1>6, <1>7, <1>8 DEF H!S!WarmDashboardStats

(* Of the artifact list and the worst vulnerabilities: all the viewer may  *)
(* see, or what is the viewer's own.                                       *)
LEMMA ListQueries ==
    ASSUME NEW d, NEW e, NEW v, HAlike(d, e, v)
    PROVE  /\ \A f : ~f.sufficient => H!S!Q!ArtifactFilter(e, v, f) = H!S!Q!ArtifactFilter(d, v, f)
           /\ \A owned \in BOOLEAN : H!S!Q!ListTopVulnerabilities(e, v, owned) = H!S!Q!ListTopVulnerabilities(d, v, owned)
<1>1. /\ H!S!Q!visible_namespace_ids(e, v) = H!S!Q!visible_namespace_ids(d, v)
      /\ H!S!Q!owned_namespace_ids(e, v) = H!S!Q!owned_namespace_ids(d, v)
      /\ {a \in e.artifacts : H!S!Q!artifact_visible(e, v, a)} = {a \in d.artifacts : H!S!Q!artifact_visible(d, v, a)}
      /\ \A a : H!S!Q!LinkedTo(e, a) \cap H!S!Q!owned_namespace_ids(e, v) =
                H!S!Q!LinkedTo(d, a) \cap H!S!Q!owned_namespace_ids(d, v)
      /\ H!S!Q!RollupRows(e, v, "vuln") = H!S!Q!RollupRows(d, v, "vuln")
  BY DEF HAlike
<1>2. \A x : H!S!Q!owned_namespace_ids(x, v) \subseteq H!S!Q!visible_namespace_ids(x, v)
  BY DEF H!S!Q!owned_namespace_ids, H!S!Q!visible_namespace_ids
<1>3. \A x, a : H!S!Q!LinkedTo(x, a) \cap H!S!Q!owned_namespace_ids(x, v) # {} => H!S!Q!artifact_visible(x, v, a)
  BY <1>2 DEF H!S!Q!artifact_visible
<1>4. {a \in e.artifacts : H!S!Q!LinkedTo(e, a) \cap H!S!Q!owned_namespace_ids(e, v) # {}} =
      {a \in d.artifacts : H!S!Q!LinkedTo(d, a) \cap H!S!Q!owned_namespace_ids(d, v) # {}}
  BY <1>1, <1>3
<1>5. ASSUME NEW f, ~f.sufficient
      PROVE  H!S!Q!ArtifactFilter(e, v, f) = H!S!Q!ArtifactFilter(d, v, f)
  <2>1. CASE f.owned
    BY <1>4, <1>5, <2>1 DEF H!S!Q!ArtifactFilter
  <2>2. CASE ~f.owned
    BY <1>1, <1>5, <2>2 DEF H!S!Q!ArtifactFilter
  <2> QED  BY <2>1, <2>2
<1>6. ASSUME NEW owned \in BOOLEAN
      PROVE  H!S!Q!ListTopVulnerabilities(e, v, owned) = H!S!Q!ListTopVulnerabilities(d, v, owned)
  <2> DEFINE rows(x) == {r \in x.rollup["vuln"] : r.ns \in H!S!Q!Seen(x, v, owned)}
             of(R, c) == {r \in R : r.canonical = c}
             top(R) == {[canonical |-> c, id |-> H!S!Q!CanonicalRecord(c),
                         sboms |-> H!S!Q!MapThenSumSet(LAMBDA r : r.sboms, of(R, c)),
                         purls |-> H!S!Q!Cardinality(UNION {r.purls : r \in of(R, c)})] : c \in {r.canonical : r \in R}}
  <2>1. \A x : rows(x) = {r \in H!S!Q!RollupRows(x, v, "vuln") : r.ns \in H!S!Q!Seen(x, v, owned)}
    BY <1>2 DEF H!S!Q!RollupRows, H!S!Q!Seen
  <2>2. H!S!Q!Seen(e, v, owned) = H!S!Q!Seen(d, v, owned)
    BY <1>1 DEF H!S!Q!Seen
  <2>3. \A x : H!S!Q!ListTopVulnerabilities(x, v, owned) = top(rows(x))
    BY Zenon DEF H!S!Q!ListTopVulnerabilities
  <2> HIDE DEF top, rows
  <2>4. rows(e) = rows(d)
    BY <1>1, <2>1, <2>2
  <2> QED  BY <2>3, <2>4
<1> QED  BY <1>5, <1>6

(* Of what anyone may discover.                                            *)
LEMMA DiscoveryQueries ==
    ASSUME NEW d, NEW e, HAlike(d, e, H!S!Q!Anonymous)
    PROVE  H!S!WarmDiscovery(e) = H!S!WarmDiscovery(d)
<1> DEFINE u == H!S!Q!Anonymous
           S == H!S!Q!VisibleSBOMs(d, u)
<1>1. /\ H!S!Q!VisibleSBOMs(e, u) = S
      /\ \A a : H!S!Q!VisibleOf(e, u, a) = H!S!Q!VisibleOf(d, u, a)
      /\ \A a : H!S!Q!Newest(e, H!S!Q!VisibleOf(d, u, a)) = H!S!Q!Newest(d, H!S!Q!VisibleOf(d, u, a))
      /\ H!S!Q!RollupRows(e, u, "vuln") = H!S!Q!RollupRows(d, u, "vuln")
  BY DEF HAlike
<1>2. H!S!Q!GetDiscoverRecentArtifacts(e) = H!S!Q!GetDiscoverRecentArtifacts(d)
  BY <1>1 DEF H!S!Q!GetDiscoverRecentArtifacts
<1>3. H!S!Q!GetDiscoverTopArtifacts(e) = H!S!Q!GetDiscoverTopArtifacts(d)
  <2> DEFINE consumers(L, a) ==
               {s \in L : Doc[s].artifact # a /\ \E c \in Doc[s].components : H!S!Q!DiscoverUsage(a, c)}
             row(L, P, a) ==
               [id |-> a, usages |-> H!S!Q!Cardinality({Doc[s].artifact : s \in consumers(L, a)}),
                versions |-> H!S!Q!Cardinality({Doc[s].version : s \in P}), sboms |-> H!S!Q!Cardinality(P)]
             latest(x) == H!S!Q!GetDiscoverRecentArtifacts(x)
  <2>1. \A x : H!S!Q!GetDiscoverTopArtifacts(x) =
               {row(latest(x), H!S!Q!VisibleOf(x, u, a), a) : a \in {Doc[s].artifact : s \in latest(x)}}
    BY Zenon DEF H!S!Q!GetDiscoverTopArtifacts
  <2> HIDE DEF row
  <2>2. latest(e) = latest(d) /\ \A a : row(latest(d), H!S!Q!VisibleOf(e, u, a), a) = row(latest(d), H!S!Q!VisibleOf(d, u, a), a)
    BY <1>1, <1>2
  <2> HIDE DEF latest
  <2> QED  BY <2>1, <2>2
<1>4. H!S!Q!GetDiscoverTopVulnerabilities(e) = H!S!Q!GetDiscoverTopVulnerabilities(d)
  BY <1>1, Zenon DEF H!S!Q!GetDiscoverTopVulnerabilities
<1>5. H!S!Q!GetDiscoverLicenseSpread(e) = H!S!Q!GetDiscoverLicenseSpread(d)
  <2>1. H!S!Q!ListLicenses(e, u) = H!S!Q!ListLicenses(d, u)
    BY ComponentQueries
  <2> QED  BY <2>1 DEF H!S!Q!GetDiscoverLicenseSpread
<1> QED  BY <1>2, <1>3, <1>4, <1>5 DEF H!S!WarmDiscovery

-----------------------------------------------------------------------------
(***************************************************************************)
(* The answers                                                             *)
(***************************************************************************)
(* About an artifact the viewer may see.                                   *)
LEMMA ArtifactAnswersSame ==
    ASSUME NEW d, NEW e, NEW ctx, HAlike(d, e, H!visibilityFilterFromContext(ctx)), NEW A,
           \A a \in A : a \in d.artifacts /\ H!S!Q!artifact_visible(d, H!visibilityFilterFromContext(ctx), a)
    PROVE  ArtifactAnswers(e, ctx, A) = ArtifactAnswers(d, ctx, A)
<1> DEFINE v == H!visibilityFilterFromContext(ctx)
           counts(x, a) == {<<y.sboms, y.sufficient, y.versions, y.watched>> : y \in H!GetArtifact(x, ctx, a).body}
<1>1. SUFFICES ASSUME NEW a \in A
               PROVE  /\ counts(e, a) = counts(d, a)
                      /\ H!ListArtifactVersions(e, ctx, a, "auto") = H!ListArtifactVersions(d, ctx, a, "auto")
                      /\ H!GetArtifactChangelog(e, ctx, a, WholeLog) = H!GetArtifactChangelog(d, ctx, a, WholeLog)
                      /\ H!ListArtifactVulns(e, ctx, a, 0) = H!ListArtifactVulns(d, ctx, a, 0)
                      /\ H!ListArtifactSBOMs(e, ctx, a) = H!ListArtifactSBOMs(d, ctx, a)
                      /\ H!GetArtifactUsages(e, ctx, a) = H!GetArtifactUsages(d, ctx, a)
                      /\ H!GetArtifactContains(e, ctx, a) = H!GetArtifactContains(d, ctx, a)
  BY DEF ArtifactAnswers
<1>2. /\ a \in d.artifacts /\ H!S!Q!artifact_visible(d, v, a)
      /\ a \in e.artifacts /\ H!S!Q!artifact_visible(e, v, a)
      /\ e.watch = d.watch
  BY DEF HAlike
<1> HIDE DEF v
<1>3. /\ H!S!Q!IsArtifactVisible(d, v, a) = TRUE /\ H!S!Q!IsArtifactVisible(e, v, a) = TRUE
      /\ H!S!visibleArtifact(d, v, a) = TRUE /\ H!S!visibleArtifact(e, v, a) = TRUE
  BY <1>2 DEF H!S!Q!IsArtifactVisible, H!S!visibleArtifact
<1>4. counts(e, a) = counts(d, a)
  <2> DEFINE watched(x) == v.user # H!S!None /\ H!S!Q!IsArtifactWatched(x, v.user, a)
             totals(x) == <<H!S!Q!CountSBOMsByArtifact(x, v, a), H!S!Q!CountSufficientSBOMsByArtifact(x, v, a),
                            H!S!Q!CountArtifactVersions(x, v, a), watched(x)>>
  <2>1. watched(e) = watched(d)
    BY <1>2 DEF H!S!Q!IsArtifactWatched
  <2> HIDE DEF watched
  <2>2. totals(e) = totals(d)
    BY <2>1, VersionQueries DEF v
  <2>3. ASSUME NEW x, H!S!Q!IsArtifactVisible(x, v, a), a \in x.artifacts
        PROVE  counts(x, a) = {totals(x)}
    <3> DEFINE row == [row |-> H!S!Q!GetArtifact(x, a), sboms |-> H!S!Q!CountSBOMsByArtifact(x, v, a),
                       sufficient |-> H!S!Q!CountSufficientSBOMsByArtifact(x, v, a),
                       versions |-> H!S!Q!CountArtifactVersions(x, v, a), watched |-> watched(x)]
    <3>1. H!S!GetArtifact(x, v, a) = {row}
      BY <2>3 DEF H!S!GetArtifact, H!S!Answer, watched
    <3> HIDE DEF row
    <3>2. H!GetArtifact(x, ctx, a).body = {row}
      BY <3>1 DEF H!GetArtifact, H!mapServiceError, H!OK, v
    <3>3. <<row.sboms, row.sufficient, row.versions, row.watched>> = totals(x)
      BY DEF row
    <3> QED  BY <3>2, <3>3
  <2> QED  BY <1>2, <1>3, <2>2, <2>3
<1>5. H!ListArtifactVersions(e, ctx, a, "auto") = H!ListArtifactVersions(d, ctx, a, "auto")
  <2>1. H!S!Q!ListArtifactVersions(e, v, a) = H!S!Q!ListArtifactVersions(d, v, a)
    BY VersionQueries DEF v
  <2>2. \A mode : H!S!ListVersionsByArtifact(e, v, a, mode) = H!S!ListVersionsByArtifact(d, v, a, mode)
    BY <2>1, Zenon DEF H!S!ListVersionsByArtifact
  <2> QED  BY <2>2 DEF H!ListArtifactVersions, v
<1>6. H!GetArtifactChangelog(e, ctx, a, WholeLog) = H!GetArtifactChangelog(d, ctx, a, WholeLog)
  <2>1. H!S!Q!ListSBOMCandidatesByArtifact(e, v, a) = H!S!Q!ListSBOMCandidatesByArtifact(d, v, a)
    BY VersionQueries DEF v
  <2> DEFINE q == [WholeLog EXCEPT !.mode = H!ParseVersionSortMode(@)]
  <2> HIDE DEF q
  <2>2. H!S!GetArtifactChangelog(e, v, a, q) = H!S!GetArtifactChangelog(d, v, a, q)
    BY <1>3, <2>1, Zenon DEF H!S!GetArtifactChangelog
  <2> QED  BY <2>2 DEF H!GetArtifactChangelog, q, v
<1>7. H!ListArtifactVulns(e, ctx, a, 0) = H!ListArtifactVulns(d, ctx, a, 0)
  <2> DEFINE n == H!S!clampVersionScope(0, 20, 200)
             versions(x, rows) == H!S!Q!ListArtifactVulnAffectedVersions(x, v, a, n, {r.canonical : r \in rows})
             joined(rows, affected) ==
               {[r |-> r, affected |-> {y \in affected : y.canonical = r.canonical}] : r \in rows}
             page(x, rows) == joined(rows, versions(x, rows))
             whole(x) == [total |-> H!S!Q!CountArtifactVulns(x, v, a, n), rows |-> page(x, H!S!Q!ListArtifactVulns(x, v, a, n)),
                          versions |-> H!S!Q!CountArtifactVersions(x, v, a)]
  <2>1. \A x : H!S!ListArtifactVulns(x, v, a, 0) = H!S!Answer(H!S!Q!IsArtifactVisible(x, v, a), whole(x))
    BY Zenon DEF H!S!ListArtifactVulns
  <2> HIDE DEF n, joined
  <2>2. whole(e) = whole(d)
    <3>1. /\ H!S!Q!CountArtifactVulns(e, v, a, n) = H!S!Q!CountArtifactVulns(d, v, a, n)
          /\ H!S!Q!ListArtifactVulns(e, v, a, n) = H!S!Q!ListArtifactVulns(d, v, a, n)
          /\ \A X : H!S!Q!ListArtifactVulnAffectedVersions(e, v, a, n, X) =
                    H!S!Q!ListArtifactVulnAffectedVersions(d, v, a, n, X)
      BY ArtifactFindings DEF v
    <3>2. H!S!Q!CountArtifactVersions(e, v, a) = H!S!Q!CountArtifactVersions(d, v, a)
      BY VersionQueries DEF v
    <3>3. \A rows : versions(e, rows) = versions(d, rows)
      BY <3>1
    <3> HIDE DEF versions
    <3> QED  BY <3>1, <3>2, <3>3
  <2> HIDE DEF whole
  <2>3. H!S!ListArtifactVulns(e, v, a, 0) = H!S!ListArtifactVulns(d, v, a, 0)
    BY <1>3, <2>1, <2>2
  <2> QED  BY <2>3 DEF H!ListArtifactVulns, v
<1>8. H!ListArtifactSBOMs(e, ctx, a) = H!ListArtifactSBOMs(d, ctx, a)
  BY VersionQueries DEF H!ListArtifactSBOMs, H!S!ListSBOMsByArtifact
<1>9. H!GetArtifactUsages(e, ctx, a) = H!GetArtifactUsages(d, ctx, a)
  <2> DEFINE shown(rows, current) ==
               {{[r |-> r, current |-> current] : r \in {r \in S : H!S!SameKey(a, r.c) \/ H!S!commandMatch(a, r.c)}} :
                  S \in H!S!Q!Limited(rows, RelationLimit)}
             whole(x) == shown(H!S!Q!ListArtifactUsages(x, v, a, H!S!modulePurlBases(Artifact[a].base)),
                               H!S!Q!GetArtifactCurrentVersion(x, v, a))
  <2>1. \A x : H!S!GetArtifactUsages(x, v, a) = IF H!S!visibleArtifact(x, v, a) THEN whole(x) ELSE {}
    BY Zenon DEF H!S!GetArtifactUsages
  <2> HIDE DEF shown
  <2>2. whole(e) = whole(d)
    BY VersionQueries, RelationQueries DEF v
  <2> HIDE DEF whole
  <2>3. H!S!GetArtifactUsages(e, v, a) = H!S!GetArtifactUsages(d, v, a)
    BY <1>3, <2>1, <2>2
  <2> QED  BY <2>3 DEF H!GetArtifactUsages, v
<1>10. H!GetArtifactContains(e, ctx, a) = H!GetArtifactContains(d, ctx, a)
  <2> DEFINE shown(rows) ==
               {{r \in S : H!S!SameKey(r.artifact, r.c) \/ H!S!commandMatch(r.artifact, r.c)} :
                  S \in H!S!Q!Limited(rows, RelationLimit)}
             whole(x) == shown(H!S!Q!ListArtifactContains(x, v, a))
  <2>1. \A x : H!S!GetArtifactContains(x, v, a) = IF H!S!visibleArtifact(x, v, a) THEN whole(x) ELSE {}
    BY Zenon DEF H!S!GetArtifactContains
  <2> HIDE DEF shown
  <2>2. whole(e) = whole(d)
    BY RelationQueries DEF v
  <2> HIDE DEF whole
  <2>3. H!S!GetArtifactContains(e, v, a) = H!S!GetArtifactContains(d, v, a)
    BY <1>3, <2>1, <2>2
  <2> QED  BY <2>3 DEF H!GetArtifactContains, v
<1> QED  BY <1>4, <1>5, <1>6, <1>7, <1>8, <1>9, <1>10

(* About an SBOM the viewer may see.                                       *)
LEMMA SBOMAnswersSame ==
    ASSUME NEW d, NEW e, NEW ctx, HAlike(d, e, H!visibilityFilterFromContext(ctx)),
           Alike(d, e, H!visibilityFilterFromContext(ctx)),
           NEW T, T \subseteq Q!VisibleSBOMs(d, H!visibilityFilterFromContext(ctx))
    PROVE  SBOMAnswers(e, ctx, T) = SBOMAnswers(d, ctx, T)
<1> DEFINE v == H!visibilityFilterFromContext(ctx)
           detail(x, s, c) == <<c, H!GetComponent(x, ctx, s, c), H!GetComponentVulns(x, ctx, s, c)>>
<1>1. SUFFICES ASSUME NEW s \in T
               PROVE  /\ H!GetSBOM(e, ctx, s) = H!GetSBOM(d, ctx, s)
                      /\ H!ListSBOMDriftHistory(e, ctx, s) = H!ListSBOMDriftHistory(d, ctx, s)
                      /\ H!ListSBOMVulns(e, ctx, s) = H!ListSBOMVulns(d, ctx, s)
                      /\ H!GetSBOMDependencies(e, ctx, s) = H!GetSBOMDependencies(d, ctx, s)
                      /\ H!ListSBOMComponents(e, ctx, s) = H!ListSBOMComponents(d, ctx, s)
                      /\ ListSBOMsByDigest(e, v, s) = ListSBOMsByDigest(d, v, s)
                      /\ \A c : detail(e, s, c) = detail(d, s, c)
  <2> DEFINE answers(x, s) ==
               [sbom |-> H!GetSBOM(x, ctx, s), drift |-> H!ListSBOMDriftHistory(x, ctx, s), vulns |-> H!ListSBOMVulns(x, ctx, s),
                graph |-> H!GetSBOMDependencies(x, ctx, s), page |-> H!ListSBOMComponents(x, ctx, s),
                digest |-> ListSBOMsByDigest(x, v, s), details |-> {detail(x, s, c) : c \in Doc[s].components}]
  <2>1. \A x : SBOMAnswers(x, ctx, T) = [s \in T |-> answers(x, s)]
    BY Zenon DEF SBOMAnswers
  <2> HIDE DEF detail
  <2>2. \A s \in T : answers(e, s) = answers(d, s)
    BY <1>1
  <2> HIDE DEF answers
  <2> QED  BY <2>1, <2>2
<1> HIDE DEF v
<1>2. /\ H!S!Q!IsSBOMVisible(d, v, s) = TRUE /\ H!S!Q!IsSBOMVisible(e, v, s) = TRUE
      /\ H!S!Q!GetSBOM(e, s) = H!S!Q!GetSBOM(d, s) /\ e.match = d.match
  <2>1. /\ s \in H!S!Q!VisibleSBOMs(d, v) /\ s \in H!S!Q!VisibleSBOMs(e, v)
        /\ H!S!Q!GetSBOM(e, s) = H!S!Q!GetSBOM(d, s) /\ e.match = d.match
    BY SameAliases DEF HAlike, v
  <2>2. \A x : s \in H!S!Q!VisibleSBOMs(x, v) => H!S!Q!IsSBOMVisible(x, v, s)
    BY DEF H!S!Q!VisibleSBOMs, H!S!Q!IsSBOMVisible, H!S!Q!sbom_visible
  <2> QED  BY <2>1, <2>2 DEF H!S!Q!IsSBOMVisible
<1>3. \A C : H!S!decorateComponentVulns(e, s, C) = H!S!decorateComponentVulns(d, s, C)
  <2>1. H!S!Q!ListSBOMComponentVulns(e, s) = H!S!Q!ListSBOMComponentVulns(d, s)
    BY <1>2, FindingQueries
  <2> QED  BY <2>1, Zenon DEF H!S!decorateComponentVulns
<1>4. H!GetSBOM(e, ctx, s) = H!GetSBOM(d, ctx, s)
  <2>1. H!S!Q!GetSBOMVulnSummary(e, s) = H!S!Q!GetSBOMVulnSummary(d, s)
    BY <1>2, FindingQueries
  <2>2. H!S!GetSBOM(e, v, s) = H!S!GetSBOM(d, v, s)
    BY <1>2, <2>1, Zenon DEF H!S!GetSBOM
  <2> QED  BY <2>2 DEF H!GetSBOM, v
<1>5. H!ListSBOMDriftHistory(e, ctx, s) = H!ListSBOMDriftHistory(d, ctx, s)
  BY <1>2 DEF H!ListSBOMDriftHistory, H!S!ListSBOMDriftHistory, v
<1>6. H!ListSBOMVulns(e, ctx, s) = H!ListSBOMVulns(d, ctx, s)
  <2> DEFINE packages(x, rows) == H!S!Q!ListSBOMVulnAffectedPackages(x, s, {r.canonical : r \in rows})
             joined(rows, P) == {[r |-> r, packages |-> {p \in P : p.canonical = r.canonical}] : r \in rows}
             whole(x) == [total |-> H!S!Q!CountSBOMVulns(x, s),
                          rows |-> joined(H!S!Q!ListSBOMVulns(x, s), packages(x, H!S!Q!ListSBOMVulns(x, s)))]
  <2>1. \A x : H!S!Q!IsSBOMVisible(x, v, s) => H!S!ListSBOMVulns(x, v, s) = {whole(x)}
    BY Zenon DEF H!S!ListSBOMVulns
  <2> HIDE DEF joined
  <2>2. whole(e) = whole(d)
    <3>1. /\ H!S!Q!CountSBOMVulns(e, s) = H!S!Q!CountSBOMVulns(d, s)
          /\ H!S!Q!ListSBOMVulns(e, s) = H!S!Q!ListSBOMVulns(d, s)
          /\ \A X : H!S!Q!ListSBOMVulnAffectedPackages(e, s, X) = H!S!Q!ListSBOMVulnAffectedPackages(d, s, X)
      BY <1>2, FindingQueries
    <3>2. \A rows : packages(e, rows) = packages(d, rows)
      BY <3>1
    <3> HIDE DEF packages
    <3> QED  BY <3>1, <3>2
  <2> HIDE DEF whole
  <2>3. H!S!ListSBOMVulns(e, v, s) = H!S!ListSBOMVulns(d, v, s)
    BY <1>2, <2>1, <2>2
  <2> QED  BY <2>3 DEF H!ListSBOMVulns, v
<1>7. H!GetSBOMDependencies(e, ctx, s) = H!GetSBOMDependencies(d, ctx, s)
  <2>1. H!S!decorateComponentVulns(e, s, H!S!Q!ListSBOMComponents(s)) =
          H!S!decorateComponentVulns(d, s, H!S!Q!ListSBOMComponents(s))
    BY <1>3
  <2>2. H!S!GetSBOMDependencies(e, v, s) = H!S!GetSBOMDependencies(d, v, s)
    BY <1>2, <2>1, Zenon DEF H!S!GetSBOMDependencies
  <2> QED  BY <2>2 DEF H!GetSBOMDependencies, v
<1>8. H!ListSBOMComponents(e, ctx, s) = H!ListSBOMComponents(d, ctx, s)
  BY <1>2, <1>3 DEF H!ListSBOMComponents, H!S!ListSBOMComponentsPage, v
<1>9. ListSBOMsByDigest(e, v, s) = ListSBOMsByDigest(d, v, s)
  BY DEF ListSBOMsByDigest, Q!ListSBOMsByDigest, Alike, v
<1>10. ASSUME NEW c PROVE detail(e, s, c) = detail(d, s, c)
  <2>1. H!S!GetComponent(e, v, s, c) = H!S!GetComponent(d, v, s, c)
    BY <1>2, Zenon DEF H!S!GetComponent
  <2>2. H!S!Q!ListVulnsByPurl(e, c) = H!S!Q!ListVulnsByPurl(d, c)
    BY <1>2, FindingQueries
  <2>3. H!S!GetComponentVulns(e, v, s, c) = H!S!GetComponentVulns(d, v, s, c)
    BY <2>1, <2>2, Zenon DEF H!S!GetComponentVulns
  <2> QED  BY <2>1, <2>3 DEF H!GetComponent, H!GetComponentVulns, v
<1> QED  BY <1>4, <1>5, <1>6, <1>7, <1>8, <1>9, <1>10

(* The feed, the lookups and the lists of the viewer's own.                *)
LEMMA FeedSame ==
    ASSUME NEW d, Valid(d), NEW e, NEW v, Alike(d, e, v)
    PROVE  Feed(e, v) = Feed(d, v)
<1> DEFINE watched(x) == {w[2] : w \in {w \in x.watch : w[1] = v.user}}
           sboms(x) == UNION {Q!VisibleOf(x, v, a) : a \in watched(x)}
           latest(x, S) == {Q!Newest(x, Q!VisibleOf(x, v, a)) : a \in {Doc[s].artifact : s \in S}}
           earlier(x, S, s) == {t \in S : Doc[t].artifact = Doc[s].artifact /\ x.sbom[t].at < x.sbom[s].at}
           previous(x, S, s) == IF earlier(x, S, s) = {} THEN Q!None ELSE Doc[Q!Newest(x, earlier(x, S, s))].version
           versions(x, S) == {[kind |-> "new_version", sbom |-> s, previous |-> previous(x, S, s)] : s \in S}
           drifts(S) == UNION {{[kind |-> "drift", sbom |-> s, previous |-> t.to] : t \in Doc[s].drift} : s \in S}
           own(s) == {<<Q!Purl(c), c.set>> : c \in {c \in Doc[s].components : Q!HasPurl(c)}}
           vulns(x, s) == {[kind |-> "vulnerability", sbom |-> s, previous |-> Vuln[y].canonical] : y \in Q!VulnsIn(x, own(s))}
           S == Q!VisibleSBOMs(d, v)
           W == sboms(d)
<1>1. /\ Q!VisibleSBOMs(e, v) = S /\ \A s \in S : e.sbom[s] = d.sbom[s]
      /\ e.match = d.match /\ e.watch = d.watch
  BY Zenon DEF Alike
<1>2. \A a : Q!VisibleOf(e, v, a) = Q!VisibleOf(d, v, a) /\ Q!VisibleOf(d, v, a) \subseteq S
  BY <1>1 DEF Q!VisibleOf, Q!SBOMsOf, Q!VisibleSBOMs
<1>3. ASSUME NEW X \in SUBSET S PROVE Q!Newest(e, X) = Q!Newest(d, X)
  <2>1. \A s \in X : (\A t \in X : e.sbom[t].at <= e.sbom[s].at) <=> (\A t \in X : d.sbom[t].at <= d.sbom[s].at)
    BY <1>1
  <2> QED  BY <2>1 DEF Q!Newest
<1> HIDE DEF S
<1>4. sboms(e) = W /\ W \subseteq S
  BY <1>1, <1>2
<1> HIDE DEF W
<1>5. latest(e, W) = latest(d, W)
  BY <1>2, <1>3
<1>6. versions(e, W) = versions(d, W)
  <2>1. \A s \in W : earlier(e, W, s) = earlier(d, W, s) /\ earlier(d, W, s) \in SUBSET S
    BY <1>1, <1>4
  <2> HIDE DEF earlier
  <2>2. \A s \in W : previous(e, W, s) = previous(d, W, s)
    BY <1>3, <2>1
  <2> HIDE DEF previous
  <2> QED  BY <2>2
<1>7. \A s : vulns(e, s) = vulns(d, s)
  <2>1. \A scope : Q!VulnsIn(e, scope) = Q!VulnsIn(d, scope)
    BY <1>1 DEF Q!VulnsIn
  <2> HIDE DEF own
  <2> QED  BY <2>1
<1>8. \A x : Q!ListWatchedArtifactEvents(x, v.user, v) =
             versions(x, sboms(x)) \cup drifts(sboms(x)) \cup (UNION {vulns(x, s) : s \in latest(x, sboms(x))})
  BY DEF Q!ListWatchedArtifactEvents
<1> HIDE DEF versions, drifts, vulns, latest, sboms
<1>9. UNION {vulns(e, s) : s \in latest(e, W)} = UNION {vulns(d, s) : s \in latest(d, W)}
  BY <1>5, <1>7
<1>10. Q!ListWatchedArtifactEvents(e, v.user, v) = Q!ListWatchedArtifactEvents(d, v.user, v)
  BY <1>4, <1>6, <1>8, <1>9 DEF W
<1> QED  BY <1>10 DEF Feed

(* A lookup of an artifact finds the same.                                 *)
LEMMA ArtifactLookupSame ==
    ASSUME NEW d, NEW e, NEW v, Alike(d, e, v), NEW x
    PROVE  LookupArtifact(e, v, x) = LookupArtifact(d, v, x)
<1>1. VisibleArtifacts(e, v) = VisibleArtifacts(d, v)
  BY Zenon DEF Alike
<1> QED  BY <1>1 DEF LookupArtifact, Q!LookupArtifacts, VisibleArtifacts

(* So do the lookup of an SBOM, the drift list and the owner's activity.   *)
LEMMA LookupsSame ==
    ASSUME NEW d, NEW e, NEW v, Alike(d, e, v)
    PROVE  /\ LookupSBOM(e, v, AnySBOM) = LookupSBOM(d, v, AnySBOM)
           /\ ListRecentProvenanceDrift(e, v, FALSE) = ListRecentProvenanceDrift(d, v, FALSE)
           /\ ListOwnedActivity(e, v.user) = ListOwnedActivity(d, v.user)
           /\ Q!ListNamespaces(e, v, FALSE) = Q!ListNamespaces(d, v, FALSE)
           /\ Q!ListSources(e, v, FALSE) = Q!ListSources(d, v, FALSE)
<1>1. /\ Q!visible_namespace_ids(e, v) = Q!visible_namespace_ids(d, v)
      /\ Q!owned_namespace_ids(e, v) = Q!owned_namespace_ids(d, v)
      /\ Q!VisibleSBOMs(e, v) = Q!VisibleSBOMs(d, v)
      /\ \A s \in Q!VisibleSBOMs(d, v) : e.sbom[s] = d.sbom[s]
      /\ {q \in DOMAIN e.source : e.source[q].ns \in Q!visible_namespace_ids(e, v)} =
         {q \in DOMAIN d.source : d.source[q].ns \in Q!visible_namespace_ids(d, v)}
  BY Zenon DEF Alike
<1>2. LookupSBOM(e, v, AnySBOM) = LookupSBOM(d, v, AnySBOM)
  BY <1>1 DEF LookupSBOM, Q!LookupSBOMs
<1>4. ListRecentProvenanceDrift(e, v, FALSE) = ListRecentProvenanceDrift(d, v, FALSE)
  <2> DEFINE drifts(S) == UNION {{[sbom |-> s, drift |-> t] : t \in Doc[s].drift} : s \in S}
             seen(x) == {s \in Q!SBOMs(x) : x.sbom[s].ns \in Q!Seen(x, v, FALSE)}
  <2>1. \A x : Q!ListRecentProvenanceDrift(x, v, FALSE) = drifts(seen(x))
    BY Zenon DEF Q!ListRecentProvenanceDrift
  <2> HIDE DEF drifts
  <2>2. \A x : seen(x) = Q!VisibleSBOMs(x, v)
    BY DEF Q!Seen, Q!VisibleSBOMs
  <2> QED  BY <1>1, <2>1, <2>2 DEF ListRecentProvenanceDrift
<1>5. ListOwnedActivity(e, v.user) = ListOwnedActivity(d, v.user)
  <2> DEFINE mine(x) == {s \in Q!SBOMs(x) : x.sbom[s].ns \in Q!owned_namespace_ids(x, v)}
             of(x, M) == {[id |-> s, ns |-> x.sbom[s].ns, artifact |-> Doc[s].artifact] : s \in M}
             rows(x) == of(x, mine(x))
             w == [user |-> v.user, admin |-> FALSE]
  <2>1. \A x : Q!owned_namespace_ids(x, w) = Q!owned_namespace_ids(x, v)
    BY DEF Q!owned_namespace_ids
  <2>2. \A x : mine(x) = {s \in Q!VisibleSBOMs(x, v) : x.sbom[s].ns \in Q!owned_namespace_ids(x, v)}
    BY DEF Q!VisibleSBOMs, Q!owned_namespace_ids, Q!visible_namespace_ids
  <2>3. mine(e) = mine(d) /\ \A s \in mine(d) : e.sbom[s] = d.sbom[s]
    BY <1>1, <2>2
  <2> HIDE DEF mine, w
  <2>4. rows(e) = rows(d)
    BY <2>3
  <2>5. ASSUME NEW x PROVE Q!ListOwnedActivity(x, v.user) = rows(x)
    <3>1. {s \in Q!SBOMs(x) : x.sbom[s].ns \in Q!owned_namespace_ids(x, w)} = mine(x)
      BY <2>1 DEF mine
    <3>2. Q!ListOwnedActivity(x, v.user) = of(x, {s \in Q!SBOMs(x) : x.sbom[s].ns \in Q!owned_namespace_ids(x, w)})
      BY Zenon DEF Q!ListOwnedActivity, w
    <3> HIDE DEF of
    <3> QED  BY <3>1, <3>2
  <2> HIDE DEF rows
  <2> QED  BY <2>4, <2>5 DEF ListOwnedActivity
<1>6. /\ Q!ListNamespaces(e, v, FALSE) = Q!ListNamespaces(d, v, FALSE)
      /\ Q!ListSources(e, v, FALSE) = Q!ListSources(d, v, FALSE)
  BY <1>1 DEF Q!ListNamespaces, Q!ListSources, Q!Seen
<1> QED  BY <1>2, <1>4, <1>5, <1>6

(* What the services make of the queries about components, licenses and    *)
(* vulnerabilities.                                                        *)
LEMMA CatalogueAnswersSame ==
    ASSUME NEW d, NEW e, NEW ctx, HAlike(d, e, H!visibilityFilterFromContext(ctx))
    PROVE  /\ H!ListSBOMs(e, ctx) = H!ListSBOMs(d, ctx)
           /\ \A f, p : H!SearchComponents(e, ctx, f, p) = H!SearchComponents(d, ctx, f, p)
           /\ H!SearchDistinctComponents(e, ctx) = H!SearchDistinctComponents(d, ctx)
           /\ \A f : H!GetComponentVersions(e, ctx, f) = H!GetComponentVersions(d, ctx, f)
           /\ \A f : H!ListComponentVersionSummaries(e, ctx, f) = H!ListComponentVersionSummaries(d, ctx, f)
           /\ H!ListComponentPurlTypes(e, ctx) = H!ListComponentPurlTypes(d, ctx)
           /\ H!ListLicenses(e, ctx) = H!ListLicenses(d, ctx)
           /\ \A l : H!ListComponentsByLicense(e, ctx, l) = H!ListComponentsByLicense(d, ctx, l)
           /\ \A x : H!GetVulnerability(e, ctx, x) = H!GetVulnerability(d, ctx, x)
           /\ H!ListTopVulnerabilities(e, ctx) = H!ListTopVulnerabilities(d, ctx)
<1> DEFINE v == H!visibilityFilterFromContext(ctx)
<1>1. HAlike(d, e, v)
  OBVIOUS
<1> HIDE DEF v
<1>2. H!ListSBOMs(e, ctx) = H!ListSBOMs(d, ctx)
  BY <1>1 DEF H!ListSBOMs, H!S!ListSBOMs, H!S!Q!ListSBOMs, HAlike, v
<1>3. ASSUME NEW f, NEW p PROVE H!SearchComponents(e, ctx, f, p) = H!SearchComponents(d, ctx, f, p)
  <2>1. H!S!SearchComponents(e, v, f) = H!S!SearchComponents(d, v, f)
    BY <1>1, ComponentQueries DEF H!S!SearchComponents
  <2> QED  BY <2>1, Zenon DEF H!SearchComponents, v
<1>4. H!SearchDistinctComponents(e, ctx) = H!SearchDistinctComponents(d, ctx)
  BY <1>1, ComponentQueries DEF H!SearchDistinctComponents, H!S!SearchDistinctComponents, v
<1>5. \A p : H!S!vulnCountsByPurl(e, p) = H!S!vulnCountsByPurl(d, p)
  <2>1. ASSUME NEW p PROVE H!S!vulnCountsByPurl(e, p) = H!S!vulnCountsByPurl(d, p)
    <3>1. H!S!Q!ListVulnsByPurls(e, {p}) = H!S!Q!ListVulnsByPurls(d, {p})
      BY <1>1, FindingQueries DEF HAlike
    <3> QED  BY <3>1, Zenon DEF H!S!vulnCountsByPurl
  <2> QED  BY <2>1
<1>6. ASSUME NEW f PROVE H!GetComponentVersions(e, ctx, f) = H!GetComponentVersions(d, ctx, f)
  <2> DEFINE row(x, r) == [r |-> r, vulns |-> IF H!S!Q!HasPurl(r.row.c) THEN H!S!vulnCountsByPurl(x, H!S!Q!Purl(r.row.c))
                                              ELSE H!S!VulnCounts({})]
             all(x, C, R) == [counts |-> C, rows |-> {row(x, r) : r \in R}]
  <2>1. \A x : H!S!GetComponentVersions(x, v, f) =
               all(x, H!S!Q!CountComponentVersions(x, v, f), H!S!Q!GetComponentVersions(x, v, f))
    BY Zenon DEF H!S!GetComponentVersions
  <2>2. \A r : row(e, r) = row(d, r)
    BY <1>5
  <2> HIDE DEF row
  <2>3. \A C, R : all(e, C, R) = all(d, C, R)
    BY <2>2
  <2> HIDE DEF all
  <2>4. H!S!GetComponentVersions(e, v, f) = H!S!GetComponentVersions(d, v, f)
    BY <1>1, <2>1, <2>3, ComponentQueries
  <2> QED  BY <2>4, Zenon DEF H!GetComponentVersions, v
<1>7. ASSUME NEW f PROVE H!ListComponentVersionSummaries(e, ctx, f) = H!ListComponentVersionSummaries(d, ctx, f)
  <2> DEFINE g == [f EXCEPT !.version = H!S!None]
             row(x, r) == [r |-> r, vulns |-> IF r.purl = <<>> THEN H!S!VulnCounts({}) ELSE H!S!vulnCountsByPurl(x, r.purl)]
             all(x, C, R) == [counts |-> C, rows |-> {row(x, r) : r \in R}]
  <2>1. \A x : H!S!ListComponentVersionSummaries(x, v, f) =
               all(x, H!S!Q!CountComponentVersions(x, v, g), H!S!Q!ListComponentVersionSummaries(x, v, g))
    BY Zenon DEF H!S!ListComponentVersionSummaries
  <2>2. \A r : row(e, r) = row(d, r)
    BY <1>5
  <2> HIDE DEF row, g
  <2>3. \A C, R : all(e, C, R) = all(d, C, R)
    BY <2>2
  <2> HIDE DEF all
  <2>4. H!S!ListComponentVersionSummaries(e, v, f) = H!S!ListComponentVersionSummaries(d, v, f)
    BY <1>1, <2>1, <2>3, ComponentQueries
  <2> QED  BY <2>4, Zenon DEF H!ListComponentVersionSummaries, v
<1>8. H!ListComponentPurlTypes(e, ctx) = H!ListComponentPurlTypes(d, ctx)
  BY <1>1, ComponentQueries DEF H!ListComponentPurlTypes, H!S!ListComponentPurlTypes, v
<1>9. H!ListLicenses(e, ctx) = H!ListLicenses(d, ctx)
  <2>1. H!S!Q!ListLicenses(e, v) = H!S!Q!ListLicenses(d, v)
    BY <1>1, ComponentQueries
  <2>2. H!S!ListLicenses(e, v) = H!S!ListLicenses(d, v)
    BY <2>1, Zenon DEF H!S!ListLicenses
  <2> QED  BY <2>2, Zenon DEF H!ListLicenses, v
<1>10. ASSUME NEW l PROVE H!ListComponentsByLicense(e, ctx, l) = H!ListComponentsByLicense(d, ctx, l)
  <2>1. H!S!Q!ListComponentsByLicense(e, v, l) = H!S!Q!ListComponentsByLicense(d, v, l)
    BY <1>1, ComponentQueries
  <2> QED  BY <2>1, Zenon DEF H!ListComponentsByLicense, H!S!ListComponentsByLicense, v
<1>11. ASSUME NEW x PROVE H!GetVulnerability(e, ctx, x) = H!GetVulnerability(d, ctx, x)
  <2> DEFINE detail(z, y) ==
               [id |-> y, artifacts |-> H!S!Q!ListAffectedArtifactsByVuln(z, v, Vuln[y].canonical),
                components |-> H!S!Q!ListAffectedComponentsByVuln(z, v, Vuln[y].canonical),
                namespaces |-> H!S!Q!CountAffectedNamespacesByVuln(z, v, Vuln[y].canonical)]
  <2>1. \A z : H!S!GetVulnerabilityDetail(z, v, x) = {detail(z, y) : y \in H!S!Q!GetVulnerabilityByID(x)}
    BY Zenon DEF H!S!GetVulnerabilityDetail
  <2>2. \A y : detail(e, y) = detail(d, y)
    BY <1>1, VulnerabilityQueries
  <2> HIDE DEF detail
  <2>3. H!S!GetVulnerabilityDetail(e, v, x) = H!S!GetVulnerabilityDetail(d, v, x)
    BY <2>1, <2>2
  <2> QED  BY <2>3, Zenon DEF H!GetVulnerability, v
<1>12. H!ListTopVulnerabilities(e, ctx) = H!ListTopVulnerabilities(d, ctx)
  <2>1. H!S!Q!ListTopVulnerabilities(e, v, FALSE) = H!S!Q!ListTopVulnerabilities(d, v, FALSE)
    BY <1>1, ListQueries
  <2> QED  BY <2>1, Zenon DEF H!ListTopVulnerabilities, H!listTopVulnerabilities, H!S!ListTopVulnerabilities, v
<1> QED  BY <1>2, <1>3, <1>4, <1>6, <1>7, <1>8, <1>9, <1>10, <1>11, <1>12

(* The lists: what the viewer may see, what is the viewer's own and what   *)
(* everybody is told.                                                      *)
LEMMA ListAnswersSame ==
    ASSUME NEW d, Valid(d), NEW e, NEW ctx, ctx.role # "admin",
           Alike(d, e, H!visibilityFilterFromContext(ctx)), Alike(d, e, Q!Anonymous)
    PROVE  ListAnswers(e, ctx) = ListAnswers(d, ctx)
<1> DEFINE v == H!visibilityFilterFromContext(ctx)
<1>1. /\ Alike(d, e, v) /\ HAlike(d, e, v) /\ HAlike(d, e, H!S!Q!Anonymous)
      /\ H!visibilityFilterFromContext(ctx) = v
  BY AlikeReads DEF H!S!Q!Anonymous, Q!Anonymous, H!S!Q!None, Q!None
<1>2. v.admin = FALSE /\ v.user = ctx.id /\ H!ownedFilterFromContext(ctx) = v
  BY DEF H!visibilityFilterFromContext, H!ownedFilterFromContext
<1> HIDE DEF v
<1>3. \A owned \in BOOLEAN : {x.total : x \in H!listArtifacts(e, v, owned, TRUE).body} =
                             {x.total : x \in H!listArtifacts(d, v, owned, TRUE).body}
  <2>1. SUFFICES ASSUME NEW owned \in BOOLEAN
                 PROVE  {x.total : x \in H!listArtifacts(e, v, owned, TRUE).body} =
                        {x.total : x \in H!listArtifacts(d, v, owned, TRUE).body}
    OBVIOUS
  <2> DEFINE f == [owned |-> owned, sufficient |-> ~TRUE]
  <2>2. \A z : {x.total : x \in H!listArtifacts(z, v, owned, TRUE).body} = {H!S!CountArtifacts(z, v, f)}
    BY DEF H!listArtifacts, H!OK
  <2>3. H!S!CountArtifacts(e, v, f) = H!S!CountArtifacts(d, v, f)
    <3>1. ~f.sufficient
      OBVIOUS
    <3> HIDE DEF f
    <3>2. H!S!Q!ArtifactFilter(e, v, f) = H!S!Q!ArtifactFilter(d, v, f)
      BY <1>1, <3>1, ListQueries
    <3> QED  BY <3>2, Zenon DEF H!S!CountArtifacts, H!S!Q!CountArtifacts
  <2> QED  BY <2>2, <2>3
<1>4. {x.total : x \in H!ListArtifacts(e, ctx, TRUE).body} = {x.total : x \in H!ListArtifacts(d, ctx, TRUE).body}
  BY <1>1, <1>3 DEF H!ListArtifacts
<1>5. {x.total : x \in H!ListMyArtifacts(e, ctx, TRUE).body} = {x.total : x \in H!ListMyArtifacts(d, ctx, TRUE).body}
  BY <1>2, <1>3 DEF H!ListMyArtifacts, H!Refuse
<1>6. H!ListMyVulnerabilities(e, ctx) = H!ListMyVulnerabilities(d, ctx)
  <2>1. H!S!Q!ListTopVulnerabilities(e, v, TRUE) = H!S!Q!ListTopVulnerabilities(d, v, TRUE)
    BY <1>1, ListQueries
  <2>2. H!listTopVulnerabilities(e, v, TRUE) = H!listTopVulnerabilities(d, v, TRUE)
    BY <2>1, Zenon DEF H!listTopVulnerabilities, H!S!ListTopVulnerabilities
  <2> QED  BY <1>2, <2>2 DEF H!ListMyVulnerabilities
<1>7. \A l : LookupLicense(e, v, l) = LookupLicense(d, v, l)
  <2>1. \A L : Q!IdentityCount(e, v, L) = Q!IdentityCount(d, v, L)
    <3>1. Q!RollupRows(e, v, "license") = Q!RollupRows(d, v, "license")
      BY <1>1 DEF Alike, Q!Tables
    <3> QED  BY <3>1 DEF Q!IdentityCount
  <2> DEFINE row(x, l) == [license |-> l, components |-> Q!IdentityCount(x, v, {l})]
             rows(x) == {row(x, l) : l \in Q!License}
  <2>2. \A x : Q!ListLicenses(x, v) = rows(x)
    BY Zenon DEF Q!ListLicenses
  <2>3. \A l : row(e, l) = row(d, l)
    BY <2>1, Zenon
  <2> HIDE DEF row
  <2>4. rows(e) = rows(d)
    BY <2>3
  <2> HIDE DEF rows
  <2>5. Q!ListLicenses(e, v) = Q!ListLicenses(d, v)
    BY <2>2, <2>4
  <2> QED  BY <2>5 DEF LookupLicense, ListLicenses
<1>8. H!GetDashboardStats(e, ctx) = H!GetDashboardStats(d, ctx)
  <2> DEFINE scope(x) == H!S!normalizeStatsScope(x, v)
  <2>1. scope(e) = scope(d)
    <3> DEFINE private(x) == {n \in x.ns \ x.public : <<v.user, n>> \in x.members}
    <3>1. \A x : private(x) = Q!owned_namespace_ids(x, v) \ x.public
      BY DEF Q!owned_namespace_ids
    <3>2. private(e) = private(d)
      BY <1>1, <3>1 DEF Alike
    <3> HIDE DEF private
    <3>3. H!S!Q!CountOwnedPrivateNamespaces(e, v.user) = H!S!Q!CountOwnedPrivateNamespaces(d, v.user)
      BY <3>2, Zenon DEF H!S!Q!CountOwnedPrivateNamespaces, private
    <3> QED  BY <3>3, Zenon DEF H!S!normalizeStatsScope
  <2>2. scope(d) = v \/ scope(d) = H!S!Q!Anonymous
    BY DEF H!S!normalizeStatsScope
  <2>3. H!S!WarmDashboardStats(e, scope(d)) = H!S!WarmDashboardStats(d, scope(d))
    BY <1>1, <2>2, StatisticsQueries
  <2> QED  BY <1>1, <2>1, <2>3 DEF H!GetDashboardStats
<1>9. H!GetDiscovery(e) = H!GetDiscovery(d)
  BY <1>1, DiscoveryQueries DEF H!GetDiscovery
<1>10. /\ LookupSBOM(e, v, AnySBOM) = LookupSBOM(d, v, AnySBOM)
       /\ \A x : LookupArtifact(e, v, x) = LookupArtifact(d, v, x)
       /\ ListRecentProvenanceDrift(e, v, FALSE) = ListRecentProvenanceDrift(d, v, FALSE)
       /\ ListOwnedActivity(e, v.user) = ListOwnedActivity(d, v.user)
       /\ Q!ListNamespaces(e, v, FALSE) = Q!ListNamespaces(d, v, FALSE)
       /\ Q!ListSources(e, v, FALSE) = Q!ListSources(d, v, FALSE)
       /\ Feed(e, v) = Feed(d, v)
  <2>1. Feed(e, v) = Feed(d, v)
    BY <1>1, FeedSame
  <2>2. /\ LookupSBOM(e, v, AnySBOM) = LookupSBOM(d, v, AnySBOM)
        /\ ListRecentProvenanceDrift(e, v, FALSE) = ListRecentProvenanceDrift(d, v, FALSE)
        /\ ListOwnedActivity(e, v.user) = ListOwnedActivity(d, v.user)
        /\ Q!ListNamespaces(e, v, FALSE) = Q!ListNamespaces(d, v, FALSE)
        /\ Q!ListSources(e, v, FALSE) = Q!ListSources(d, v, FALSE)
    BY <1>1, LookupsSame
  <2>3. ASSUME NEW x PROVE LookupArtifact(e, v, x) = LookupArtifact(d, v, x)
    BY <1>1, ArtifactLookupSame
  <2> QED  BY <2>1, <2>2, <2>3, Zenon
<1>11. /\ H!ListSBOMs(e, ctx) = H!ListSBOMs(d, ctx)
       /\ \A f, p : H!SearchComponents(e, ctx, f, p) = H!SearchComponents(d, ctx, f, p)
       /\ H!SearchDistinctComponents(e, ctx) = H!SearchDistinctComponents(d, ctx)
       /\ \A f : H!GetComponentVersions(e, ctx, f) = H!GetComponentVersions(d, ctx, f)
       /\ \A f : H!ListComponentVersionSummaries(e, ctx, f) = H!ListComponentVersionSummaries(d, ctx, f)
       /\ H!ListComponentPurlTypes(e, ctx) = H!ListComponentPurlTypes(d, ctx)
       /\ H!ListLicenses(e, ctx) = H!ListLicenses(d, ctx)
       /\ \A l : H!ListComponentsByLicense(e, ctx, l) = H!ListComponentsByLicense(d, ctx, l)
       /\ \A x : H!GetVulnerability(e, ctx, x) = H!GetVulnerability(d, ctx, x)
       /\ H!ListTopVulnerabilities(e, ctx) = H!ListTopVulnerabilities(d, ctx)
  BY <1>1, CatalogueAnswersSame
<1> DEFINE names(x) == {LookupArtifact(x, v, Artifact[a].name) : a \in DOMAIN Artifact}
           search(x) == {H!SearchComponents(x, ctx, [Everything EXCEPT !.name = n], <<>>) : n \in {"ssl", None}}
           licensed(x) == [l \in DOMAIN Category |-> <<H!ListComponentsByLicense(x, ctx, l), LookupLicense(x, v, l)>>]
           details(x) == [y \in DOMAIN Vuln |-> H!GetVulnerability(x, ctx, y)]
           artifacts(x) == {y.total : y \in H!ListArtifacts(x, ctx, TRUE).body}
           owned(x) == {y.total : y \in H!ListMyArtifacts(x, ctx, TRUE).body}
           all(x, N, S, L, D, A, O) ==
             [artifacts |-> A, owned |-> O, sboms |-> H!ListSBOMs(x, ctx), lookup |-> LookupSBOM(x, v, AnySBOM),
              names |-> N, drift |-> ListRecentProvenanceDrift(x, v, FALSE), activity |-> ListOwnedActivity(x, v.user),
              search |-> S, distinct |-> H!SearchDistinctComponents(x, ctx),
              versions |-> H!GetComponentVersions(x, ctx, Everything),
              summaries |-> H!ListComponentVersionSummaries(x, ctx, Everything),
              types |-> H!ListComponentPurlTypes(x, ctx), licenses |-> H!ListLicenses(x, ctx), licensed |-> L,
              top |-> <<H!ListTopVulnerabilities(x, ctx), H!ListMyVulnerabilities(x, ctx)>>, details |-> D,
              spaces |-> Q!ListNamespaces(x, v, FALSE), sources |-> Q!ListSources(x, v, FALSE),
              feed |-> Feed(x, v), stats |-> H!GetDashboardStats(x, ctx), discovery |-> H!GetDiscovery(x)]
<1>12. \A x : ListAnswers(x, ctx) = all(x, names(x), search(x), licensed(x), details(x), artifacts(x), owned(x))
  BY Zenon DEF ListAnswers, v
<1>13. names(e) = names(d)
  BY <1>10
<1>14. search(e) = search(d)
  BY <1>11
<1>15. licensed(e) = licensed(d)
  BY <1>7, <1>11
<1>16. details(e) = details(d)
  BY <1>11
<1>17. artifacts(e) = artifacts(d) /\ owned(e) = owned(d)
  BY <1>4, <1>5, Zenon
<1> HIDE DEF names, search, licensed, details, artifacts, owned
<1>18. \A N, S, L, D, A, O : all(e, N, S, L, D, A, O) = all(d, N, S, L, D, A, O)
  BY <1>6, <1>8, <1>9, <1>10, <1>11, ZenonT(60)
<1> HIDE DEF all
<1>19. ListAnswers(e, ctx) = all(e, names(d), search(d), licensed(d), details(d), artifacts(d), owned(d))
  BY <1>12, <1>13, <1>14, <1>15, <1>16, <1>17
<1> QED  BY <1>12, <1>18, <1>19

-----------------------------------------------------------------------------
(***************************************************************************)
(* The cluster pages: they show the SBOM an image matches wherever it is   *)
(***************************************************************************)
LEMMA MatchSame ==
    ASSUME NEW d, NEW e, e.sbom = d.sbom, e.match = d.match
    PROVE  /\ \A w : /\ Q!Matching(e, w) = Q!Matching(d, w)
                     /\ Q!Match(e, w) = Q!Match(d, w)
                     /\ Q!MatchState(e, w) = Q!MatchState(d, w)
                     /\ Q!Joined(e, w) = Q!Joined(d, w)
           /\ \A s : Q!CarriedBy(e, s) = Q!CarriedBy(d, s)
<1>1. \A w : Q!Matching(e, w) = Q!Matching(d, w)
  BY Zenon DEF Q!Matching, Q!SBOMs
<1>2. \A X : Q!Newest(e, X) = Q!Newest(d, X)
  BY Zenon DEF Q!Newest
<1>3. \A w : Q!Match(e, w) = Q!Match(d, w)
  BY <1>1, <1>2, Zenon DEF Q!Match
<1>4. \A w : Q!MatchState(e, w) = Q!MatchState(d, w)
  BY <1>3, Zenon DEF Q!MatchState
<1>5. \A s : Q!CarriedBy(e, s) = Q!CarriedBy(d, s)
  <2>1. \A scope : Q!VulnsIn(e, scope) = Q!VulnsIn(d, scope)
    BY DEF Q!VulnsIn
  <2> QED  BY <2>1, Zenon DEF Q!CarriedBy
<1>6. \A s : Q!RunningCounts(e, s) = Q!RunningCounts(d, s)
  <2>1. SUFFICES ASSUME NEW s PROVE Q!RunningCounts(e, s) = Q!RunningCounts(d, s)
    OBVIOUS
  <2>2. Q!CarriedBy(e, s) = Q!CarriedBy(d, s)
    BY <1>5
  <2> QED  BY <2>2, Zenon DEF Q!RunningCounts
<1>7. \A w : Q!Joined(e, w) = Q!Joined(d, w)
  <2>1. SUFFICES ASSUME NEW w PROVE Q!Joined(e, w) = Q!Joined(d, w)
    OBVIOUS
  <2>2. /\ Q!Match(e, w) = Q!Match(d, w) /\ Q!MatchState(e, w) = Q!MatchState(d, w)
        /\ Q!RunningCounts(e, Q!Match(d, w)) = Q!RunningCounts(d, Q!Match(d, w))
    BY <1>3, <1>4, <1>6
  <2> QED  BY <2>2, Zenon DEF Q!Joined
<1> QED  BY <1>1, <1>3, <1>4, <1>5, <1>7

(* The queries over one cluster's rows.                                    *)
LEMMA InventoryQueries ==
    ASSUME NEW d, NEW e, e.sbom = d.sbom, e.match = d.match, NEW v, NEW k,
           Q!Inventory(e, v, k) = Q!Inventory(d, v, k)
    PROVE  /\ \A f : /\ Q!ListClusterWorkloads(e, v, k, f) = Q!ListClusterWorkloads(d, v, k, f)
                     /\ Q!CountClusterWorkloads(e, v, k, f) = Q!CountClusterWorkloads(d, v, k, f)
                     /\ Q!ListClusterImages(e, v, k, f) = Q!ListClusterImages(d, v, k, f)
                     /\ Q!CountClusterImages(e, v, k, f) = Q!CountClusterImages(d, v, k, f)
           /\ Q!ListClusterK8sNamespaces(e, v, k) = Q!ListClusterK8sNamespaces(d, v, k)
           /\ Q!GetClusterWorkloadCoverage(e, v, k) = Q!GetClusterWorkloadCoverage(d, v, k)
           /\ Q!ListClusterUnknownImages(e, v, k) = Q!ListClusterUnknownImages(d, v, k)
           /\ Q!Running(e, v, k) = Q!Running(d, v, k)
           /\ \A x : /\ Q!CountClusterRunningVulns(e, v, k, x) = Q!CountClusterRunningVulns(d, v, k, x)
                     /\ Q!ListClusterRunningVulns(e, v, k, x) = Q!ListClusterRunningVulns(d, v, k, x)
<1>1. /\ \A w : /\ Q!Matching(e, w) = Q!Matching(d, w)
                /\ Q!Match(e, w) = Q!Match(d, w)
                /\ Q!MatchState(e, w) = Q!MatchState(d, w)
                /\ Q!Joined(e, w) = Q!Joined(d, w)
      /\ \A s : Q!CarriedBy(e, s) = Q!CarriedBy(d, s)
  BY MatchSame
<1>2. Q!Inventory(e, v, k) = Q!Inventory(d, v, k)
  OBVIOUS
<1>3. \A f : Q!Filtered(e, v, k, f) = Q!Filtered(d, v, k, f)
  BY <1>1, <1>2 DEF Q!Filtered
<1>4. ASSUME NEW f PROVE Q!ListClusterWorkloads(e, v, k, f) = Q!ListClusterWorkloads(d, v, k, f)
  <2>1. Q!Filtered(e, v, k, f) = Q!Filtered(d, v, k, f)
    BY <1>3
  <2> QED  BY <1>1, <2>1 DEF Q!ListClusterWorkloads
<1>5. ASSUME NEW f PROVE /\ Q!CountClusterWorkloads(e, v, k, f) = Q!CountClusterWorkloads(d, v, k, f)
                         /\ Q!CountClusterImages(e, v, k, f) = Q!CountClusterImages(d, v, k, f)
  <2>1. Q!Filtered(e, v, k, f) = Q!Filtered(d, v, k, f)
    BY <1>3
  <2> QED  BY <2>1, Zenon DEF Q!CountClusterWorkloads, Q!CountClusterImages
<1>6. ASSUME NEW f PROVE Q!ListClusterImages(e, v, k, f) = Q!ListClusterImages(d, v, k, f)
  <2> DEFINE all(I) == {w \in I : f.k8s \in {Q!None, w.k8s}}
             of(I, i) == {w \in all(I) : Q!ImageKey(w) = i}
             one(I, i) == CHOOSE w \in of(I, i) : TRUE
             row(x, I, i) ==
               [image |-> i, workloads |-> Q!Cardinality(of(I, i)), pods |-> Q!Pods(of(I, i)),
                namespaces |-> Q!Cardinality({w.k8s : w \in of(I, i)}), join |-> Q!Joined(x, one(I, i))]
             keys(x, I) == {Q!ImageKey(w) : w \in {w \in all(I) : f.state \in {Q!None, Q!MatchState(x, w)}}}
             page(x, I) == {row(x, I, i) : i \in keys(x, I)}
  <2>1. \A x : Q!ListClusterImages(x, v, k, f) = page(x, Q!Inventory(x, v, k))
    BY Zenon DEF Q!ListClusterImages
  <2>2. \A I, i : row(e, I, i) = row(d, I, i)
    BY <1>1, Zenon
  <2> HIDE DEF row
  <2>3. \A I : keys(e, I) = keys(d, I)
    BY <1>1
  <2> HIDE DEF keys
  <2>4. \A I : page(e, I) = page(d, I)
    BY <2>2, <2>3
  <2> HIDE DEF page
  <2> QED  BY <1>2, <2>1, <2>4
<1>7. Q!ListClusterK8sNamespaces(e, v, k) = Q!ListClusterK8sNamespaces(d, v, k)
  BY <1>2, Zenon DEF Q!ListClusterK8sNamespaces
<1>8. Q!GetClusterWorkloadCoverage(e, v, k) = Q!GetClusterWorkloadCoverage(d, v, k)
  <2> DEFINE matched(x, I) == {w \in I : Q!Matching(x, w) # {}}
             cover(I, M) ==
               [total |-> Q!Cardinality(I), unresolvable |-> Q!Cardinality({w \in I : w.digest = Q!None}),
                unknown |-> Q!Cardinality({w \in I \ M : w.digest # Q!None}), matched |-> Q!Cardinality(M), pods |-> Q!Pods(I)]
  <2>1. \A x : Q!GetClusterWorkloadCoverage(x, v, k) = cover(Q!Inventory(x, v, k), matched(x, Q!Inventory(x, v, k)))
    BY Zenon DEF Q!GetClusterWorkloadCoverage
  <2> HIDE DEF cover
  <2>2. \A I : matched(e, I) = matched(d, I)
    BY <1>1
  <2> HIDE DEF matched
  <2> QED  BY <1>2, <2>1, <2>2
<1>9. Q!ListClusterUnknownImages(e, v, k) = Q!ListClusterUnknownImages(d, v, k)
  <2> DEFINE gap(x, I) == {w \in I : w.digest # Q!None /\ Q!Matching(x, w) = {}}
             of(G, i) == {w \in G : Q!ImageKey(w) = i}
             page(G) ==
               {[ref |-> i[1], digest |-> i[2], workloads |-> Q!Cardinality(of(G, i)), pods |-> Q!Pods(of(G, i))] :
                  i \in {Q!ImageKey(w) : w \in G}}
  <2>1. \A x : Q!ListClusterUnknownImages(x, v, k) = page(gap(x, Q!Inventory(x, v, k)))
    BY Zenon DEF Q!ListClusterUnknownImages
  <2> HIDE DEF page
  <2>2. \A I : gap(e, I) = gap(d, I)
    BY <1>1
  <2> HIDE DEF gap
  <2> QED  BY <1>2, <2>1, <2>2
<1>10. Q!Running(e, v, k) = Q!Running(d, v, k)
  <2> DEFINE of(x, w) == {[workload |-> w, vuln |-> y] : y \in Q!CarriedBy(x, Q!Match(x, w))}
             matched(x, I) == {w \in I : Q!Match(x, w) # Q!None}
             run(x, I) == UNION {of(x, w) : w \in matched(x, I)}
  <2>1. \A x : Q!Running(x, v, k) = run(x, Q!Inventory(x, v, k))
    BY Zenon DEF Q!Running
  <2>2. \A w : of(e, w) = of(d, w)
    BY <1>1, Zenon
  <2> HIDE DEF of
  <2>3. \A I : matched(e, I) = matched(d, I)
    BY <1>1
  <2> HIDE DEF matched
  <2>4. \A I : run(e, I) = run(d, I)
    BY <2>2, <2>3
  <2> HIDE DEF run
  <2> QED  BY <1>2, <2>1, <2>4
<1>11. ASSUME NEW x PROVE /\ Q!CountClusterRunningVulns(e, v, k, x) = Q!CountClusterRunningVulns(d, v, k, x)
                          /\ Q!ListClusterRunningVulns(e, v, k, x) = Q!ListClusterRunningVulns(d, v, k, x)
  <2>1. Q!CountClusterRunningVulns(e, v, k, x) = Q!CountClusterRunningVulns(d, v, k, x)
    BY <1>10, Zenon DEF Q!CountClusterRunningVulns
  <2>2. Q!ListClusterRunningVulns(e, v, k, x) = Q!ListClusterRunningVulns(d, v, k, x)
    BY <1>10, ZenonT(60) DEF Q!ListClusterRunningVulns
  <2> QED  BY <2>1, <2>2
<1> QED  BY <1>4, <1>5, <1>6, <1>7, <1>8, <1>9, <1>10, <1>11

(* The rows the cluster pages read for v are the same in d and in e; the   *)
(* SBOMs are all there.                                                    *)
VisibleClusters(d, v) == {k \in Q!Clusters(d) : d.cluster[k].ns \in Q!visible_namespace_ids(d, v)}

ClusterAlike(d, e, v) ==
    /\ Q!visible_namespace_ids(e, v) = Q!visible_namespace_ids(d, v)
    /\ e.sbom = d.sbom /\ e.match = d.match /\ e.job = d.job
    /\ VisibleClusters(e, v) = VisibleClusters(d, v)
    /\ \A k \in VisibleClusters(d, v) : e.cluster[k] = d.cluster[k]
    /\ \A k : Q!Inventory(e, v, k) = Q!Inventory(d, v, k)
    /\ \A n \in Q!visible_namespace_ids(d, v) :
         /\ Q!ListRegistriesByNamespace(e, n) = Q!ListRegistriesByNamespace(d, n)
         /\ \A q \in Q!ListRegistriesByNamespace(d, n) : e.registry[q] = d.registry[q]

(* The columns of a database whose SBOMs are put back.                     *)
LEMMA SBOMsPutBack ==
    ASSUME NEW d, Valid(d), NEW e, DOMAIN e = DOMAIN d, NEW X
    PROVE  LET f == [e EXCEPT !.sbom = X]
           IN /\ f.sbom = X /\ f.ns = e.ns /\ f.public = e.public /\ f.members = e.members
              /\ f.source = e.source /\ f.match = e.match /\ f.job = e.job
              /\ f.registry = e.registry /\ f.cluster = e.cluster /\ f.workload = e.workload
  BY DEF Valid, Schema

(* A restricted database whose SBOMs are put back looks alike to the       *)
(* cluster pages: the inventory says of any digest whether it is stored, in*)
(* whatever namespace.                                                     *)
LEMMA RestrictedClusterAlike ==
    ASSUME NEW d, Valid(d), NEW v, Viewer(v), NEW e, RestrictedTo(d, v, e), DOMAIN e = DOMAIN d
    PROVE  /\ ClusterAlike(d, [e EXCEPT !.sbom = d.sbom], v)
           /\ ClusterAlike(d, [d EXCEPT !.sbom = d.sbom], v)
<1> DEFINE f == [e EXCEPT !.sbom = d.sbom]
           g == [d EXCEPT !.sbom = d.sbom]
           N == Q!visible_namespace_ids(d, v)
<1>1. /\ f.sbom = d.sbom /\ f.ns = e.ns /\ f.public = e.public /\ f.members = e.members
      /\ f.source = e.source /\ f.match = e.match /\ f.job = e.job
      /\ f.registry = e.registry /\ f.cluster = e.cluster /\ f.workload = e.workload
  BY SBOMsPutBack
<1>2. /\ g.sbom = d.sbom /\ g.ns = d.ns /\ g.public = d.public /\ g.members = d.members
      /\ g.source = d.source /\ g.match = d.match /\ g.job = d.job
      /\ g.registry = d.registry /\ g.cluster = d.cluster /\ g.workload = d.workload
  BY SBOMsPutBack
<1> HIDE DEF f, g
<1>3. ClusterAlike(d, g, v)
  <2>1. Q!visible_namespace_ids(g, v) = Q!visible_namespace_ids(d, v)
    BY <1>2 DEF Q!visible_namespace_ids
  <2> QED  BY <1>2, <2>1 DEF ClusterAlike, VisibleClusters, Q!Clusters, Q!Inventory, Q!ListRegistriesByNamespace
<1>4. /\ e.ns = N /\ e.public = d.public \cap N
      /\ e.members = {m \in d.members : m[2] \in N}
      /\ e.source = [q \in {q \in DOMAIN d.source : d.source[q].ns \in N
                              \/ \E s \in Q!VisibleSBOMs(d, v) : d.sbom[s].source = q} |-> d.source[q]]
      /\ e.match = d.match /\ e.job = d.job
      /\ e.registry = [q \in {q \in DOMAIN d.registry : d.source[q].ns \in N} |-> d.registry[q]]
      /\ e.cluster = [k \in {k \in DOMAIN d.cluster : d.cluster[k].ns \in N} |-> d.cluster[k]]
      /\ e.workload = {w \in d.workload : d.cluster[w.cluster].ns \in N}
  BY Zenon DEF RestrictedTo
<1>5. N = {n \in d.ns : n \in d.public \/ <<v.user, n>> \in d.members} /\ v.admin = FALSE
  BY DEF Viewer, Q!visible_namespace_ids
<1> HIDE DEF N
<1>6. Q!visible_namespace_ids(f, v) = N
  BY <1>1, <1>4, <1>5 DEF Q!visible_namespace_ids
<1>7. /\ VisibleClusters(d, v) = {k \in DOMAIN d.cluster : d.cluster[k].ns \in N}
      /\ VisibleClusters(f, v) = VisibleClusters(d, v)
      /\ \A k \in VisibleClusters(d, v) : f.cluster[k] = d.cluster[k]
  <2>1. VisibleClusters(d, v) = {k \in DOMAIN d.cluster : d.cluster[k].ns \in N}
    BY DEF VisibleClusters, Q!Clusters, N
  <2> QED  BY <1>1, <1>4, <1>6, <2>1 DEF VisibleClusters, Q!Clusters
<1>8. \A k : Q!Inventory(f, v, k) = Q!Inventory(d, v, k)
  <2>1. SUFFICES ASSUME NEW k PROVE Q!Inventory(f, v, k) = Q!Inventory(d, v, k)
    OBVIOUS
  <2>2. Q!Inventory(d, v, k) = {w \in d.workload : w.cluster = k /\ d.cluster[k].ns \in N}
    BY DEF Q!Inventory, N
  <2>3. \A w \in d.workload : w.cluster \in DOMAIN d.cluster
    BY DEF Valid, ForeignKeys, Q!Clusters
  <2>4. Q!Inventory(f, v, k) = {w \in e.workload : w.cluster = k /\ e.cluster[k].ns \in N}
    BY <1>1, <1>6 DEF Q!Inventory
  <2>5. \A w \in d.workload : d.cluster[w.cluster].ns \in N => e.cluster[w.cluster] = d.cluster[w.cluster]
    BY <1>4, <2>3
  <2>6. e.workload = {w \in d.workload : d.cluster[w.cluster].ns \in N}
    BY <1>4
  <2> QED  BY <2>2, <2>4, <2>5, <2>6
<1>9. \A n \in N : /\ Q!ListRegistriesByNamespace(f, n) = Q!ListRegistriesByNamespace(d, n)
                   /\ \A q \in Q!ListRegistriesByNamespace(d, n) : f.registry[q] = d.registry[q]
  <2>1. DOMAIN d.registry \subseteq DOMAIN d.source
    BY DEF Valid, ForeignKeys
  <2>2. \A q \in DOMAIN d.registry : d.source[q].ns \in N => e.source[q] = d.source[q]
    BY <1>4, <2>1
  <2>3. DOMAIN e.registry = {q \in DOMAIN d.registry : d.source[q].ns \in N}
    BY <1>4
  <2>4. \A q \in DOMAIN e.registry : e.registry[q] = d.registry[q]
    BY <1>4
  <2>5. SUFFICES ASSUME NEW n \in N
                 PROVE  /\ Q!ListRegistriesByNamespace(f, n) = Q!ListRegistriesByNamespace(d, n)
                        /\ \A q \in Q!ListRegistriesByNamespace(d, n) : f.registry[q] = d.registry[q]
    OBVIOUS
  <2>6. Q!ListRegistriesByNamespace(f, n) = {q \in DOMAIN e.registry : e.source[q].ns = n}
    BY <1>1 DEF Q!ListRegistriesByNamespace
  <2>7. Q!ListRegistriesByNamespace(d, n) = {q \in DOMAIN d.registry : d.source[q].ns = n}
    BY DEF Q!ListRegistriesByNamespace
  <2>8. Q!ListRegistriesByNamespace(f, n) = Q!ListRegistriesByNamespace(d, n)
    BY <2>2, <2>3, <2>6, <2>7
  <2> QED  BY <1>1, <2>3, <2>4, <2>7, <2>8
<1>10. ClusterAlike(d, f, v)
  BY <1>1, <1>4, <1>6, <1>7, <1>8, <1>9 DEF ClusterAlike, N
<1> QED  BY <1>3, <1>10 DEF f, g

(* The gap: its images, the registry each resolves to and its jobs.        *)
LEMMA UnknownImagesSame ==
    ASSUME NEW d, NEW e, NEW v, ClusterAlike(d, e, v), NEW k \in VisibleClusters(d, v)
    PROVE  resolveUnknownImages(e, v, k) = resolveUnknownImages(d, v, k)
<1> DEFINE n == d.cluster[k].ns
           R == Q!ListRegistriesByNamespace(d, n)
<1>1. /\ e.cluster[k].ns = n /\ Q!ListRegistriesByNamespace(e, n) = R
      /\ \A q \in R : e.registry[q] = d.registry[q]
  BY DEF ClusterAlike, VisibleClusters
<1> HIDE DEF n
<1>2. \A img : resolveIngestTarget(e, k, img) = resolveIngestTarget(d, k, img)
  <2> SUFFICES ASSUME NEW img PROVE resolveIngestTarget(e, k, img) = resolveIngestTarget(d, k, img)
    OBVIOUS
  <2> DEFINE here(x, T) == {q \in T : NormalizeRegistryHost(x.registry[q].host) = img.host}
             enabled(x, T) == {q \in T : x.registry[q].enabled}
             claims(x, T) == {q \in T : ClaimsRepository(x.registry[q], img.repo)}
             first(x, T) == CHOOSE q \in T : \A y \in T : x.registry[q].created <= x.registry[y].created
             target(reason, registry, owner) == [reason |-> reason, registry |-> registry, owner |-> owner]
             of(x, A, B, C) ==
               IF img.host = None THEN target("unparseable_ref", None, None)
               ELSE IF C # {} THEN target("ready", first(x, C), first(x, C))
               ELSE IF B # {} THEN target("ready", first(x, B), k)
               ELSE IF A # {} THEN target("registry_disabled", first(x, A), None)
               ELSE target("ready", None, k)
             A == here(d, R)
             B == enabled(d, A)
             C == claims(d, B)
  <2>1. \A x : resolveIngestTarget(x, k, img) =
               of(x, here(x, Q!ListRegistriesByNamespace(x, x.cluster[k].ns)),
                  enabled(x, here(x, Q!ListRegistriesByNamespace(x, x.cluster[k].ns))),
                  claims(x, enabled(x, here(x, Q!ListRegistriesByNamespace(x, x.cluster[k].ns)))))
    BY Zenon DEF resolveIngestTarget
  <2>2. /\ here(e, R) = A /\ A \subseteq R
        /\ enabled(e, A) = B /\ B \subseteq R
        /\ claims(e, B) = C /\ C \subseteq R
    BY <1>1
  <2> HIDE DEF here, enabled, claims, A, B, C, R
  <2>3. \A T \in SUBSET R : first(e, T) = first(d, T)
    <3> SUFFICES ASSUME NEW T \in SUBSET R PROVE first(e, T) = first(d, T)
      OBVIOUS
    <3>1. \A q \in T : (\A y \in T : e.registry[q].created <= e.registry[y].created) <=>
                       (\A y \in T : d.registry[q].created <= d.registry[y].created)
      BY <1>1
    <3> QED  BY <3>1
  <2> HIDE DEF first
  <2>4. of(e, A, B, C) = of(d, A, B, C)
    BY <2>2, <2>3
  <2> HIDE DEF of
  <2>5. resolveIngestTarget(e, k, img) = of(e, A, B, C)
    BY <1>1, <2>1, <2>2
  <2>6. resolveIngestTarget(d, k, img) = of(d, A, B, C)
    BY <2>1, Zenon DEF A, B, C, R, n
  <2> QED  BY <2>4, <2>5, <2>6
<1>3. \A img : applyJobs(e, img) = applyJobs(d, img)
  <2>1. e.job = d.job
    BY DEF ClusterAlike
  <2>2. \A D : Q!ListScanJobsForDigests(e, D) = Q!ListScanJobsForDigests(d, D)
    BY <2>1 DEF Q!ListScanJobsForDigests
  <2> SUFFICES ASSUME NEW img PROVE applyJobs(e, img) = applyJobs(d, img)
    OBVIOUS
  <2> DEFINE mine(J) == {j \in J : j[1] = img.owner}
             reasons(job, J) == {jobStateReason(job[j]) : j \in mine(J)} \ {None}
             of(job, J) ==
               [img EXCEPT
                  !.failed = {j \in mine(J) : jobStateReason(job[j]) \in {"unauthorized", "egress_denied", "failed"}},
                  !.reason = IF reasons(job, J) = {} THEN @
                             ELSE CHOOSE r \in reasons(job, J) :
                                    \A x \in reasons(job, J) : jobReasonRank(x) <= jobReasonRank(r)]
  <2>3. \A x : applyJobs(x, img) = of(x.job, Q!ListScanJobsForDigests(x, {img.digest}))
    BY Zenon DEF applyJobs
  <2> HIDE DEF of
  <2> QED  BY <2>1, <2>2, <2>3
<1>4. Q!ListClusterUnknownImages(e, v, k) = Q!ListClusterUnknownImages(d, v, k)
  BY InventoryQueries DEF ClusterAlike
<1> DEFINE resolved(row, at, to) ==
             [ref |-> row.ref, digest |-> row.digest, workloads |-> row.workloads, pods |-> row.pods, failed |-> {},
              host |-> at.host, repo |-> at.repo, reason |-> to.reason, registry |-> to.registry, owner |-> to.owner]
           image(x, row) == resolved(row, SplitImageRef(row.ref), resolveIngestTarget(x, k, SplitImageRef(row.ref)))
           explained(x, img) == IF img.reason = "ready" THEN applyJobs(x, img) ELSE img
           running(x) == Q!ListClusterUnknownImages(x, v, k)
<1>5. \A x : resolveUnknownImages(x, v, k) = {explained(x, image(x, row)) : row \in running(x)}
  BY Zenon DEF resolveUnknownImages
<1>6. \A row : image(e, row) = image(d, row)
  BY <1>2, Zenon
<1>7. \A img : explained(e, img) = explained(d, img)
  BY <1>3, Zenon
<1> HIDE DEF image, explained, running
<1>8. running(e) = running(d)
  BY <1>4 DEF running
<1>9. \A row : explained(e, image(e, row)) = explained(d, image(d, row))
  BY <1>6, <1>7
<1> DEFINE all(x) == {explained(x, image(x, row)) : row \in running(x)}
<1>10. all(e) = all(d)
  BY <1>8, <1>9
<1>11. resolveUnknownImages(e, v, k) = all(e) /\ resolveUnknownImages(d, v, k) = all(d)
  BY <1>5, Zenon
<1> QED  BY <1>10, <1>11, Zenon

(* Hence every cluster page is the same.                                   *)
LEMMA ClusterAnswersSame ==
    ASSUME NEW d, NEW e, NEW v, ClusterAlike(d, e, v)
    PROVE  LET K == {k \in Q!Clusters(d) : visibleCluster(d, v, k)}
           IN ClusterAnswers(e, v, K) = ClusterAnswers(d, v, K)
<1> DEFINE K == {k \in Q!Clusters(d) : visibleCluster(d, v, k)}
<1>1. /\ e.sbom = d.sbom /\ e.match = d.match
      /\ \A k : Q!Inventory(e, v, k) = Q!Inventory(d, v, k)
      /\ VisibleClusters(e, v) = VisibleClusters(d, v)
      /\ Q!visible_namespace_ids(e, v) = Q!visible_namespace_ids(d, v)
      /\ \A k \in VisibleClusters(d, v) : e.cluster[k] = d.cluster[k]
  BY DEF ClusterAlike
<1>2. ASSUME NEW k \in K
      PROVE  /\ ListClusterWorkloads(e, v, k, NoFilter) = ListClusterWorkloads(d, v, k, NoFilter)
             /\ ListClusterImages(e, v, k, NoFilter) = ListClusterImages(d, v, k, NoFilter)
             /\ ListClusterVulns(e, v, k) = ListClusterVulns(d, v, k)
             /\ ListClusterNamespaces(e, v, k) = ListClusterNamespaces(d, v, k)
             /\ ListClusterUnknownImages(e, v, k) = ListClusterUnknownImages(d, v, k)
  <2>1. k \in VisibleClusters(d, v) /\ visibleCluster(d, v, k)
    BY DEF visibleCluster, VisibleClusters
  <2>2. visibleCluster(e, v, k) = TRUE /\ visibleCluster(d, v, k) = TRUE
    BY <1>1, <2>1 DEF visibleCluster, VisibleClusters
  <2> HIDE DEF K
  <2>3. /\ \A f : /\ Q!ListClusterWorkloads(e, v, k, f) = Q!ListClusterWorkloads(d, v, k, f)
                  /\ Q!CountClusterWorkloads(e, v, k, f) = Q!CountClusterWorkloads(d, v, k, f)
                  /\ Q!ListClusterImages(e, v, k, f) = Q!ListClusterImages(d, v, k, f)
                  /\ Q!CountClusterImages(e, v, k, f) = Q!CountClusterImages(d, v, k, f)
        /\ Q!ListClusterK8sNamespaces(e, v, k) = Q!ListClusterK8sNamespaces(d, v, k)
        /\ Q!GetClusterWorkloadCoverage(e, v, k) = Q!GetClusterWorkloadCoverage(d, v, k)
        /\ \A x : /\ Q!CountClusterRunningVulns(e, v, k, x) = Q!CountClusterRunningVulns(d, v, k, x)
                  /\ Q!ListClusterRunningVulns(e, v, k, x) = Q!ListClusterRunningVulns(d, v, k, x)
    BY <1>1, InventoryQueries
  <2>4. Coverage(e, v, k) = Coverage(d, v, k) /\ NamespaceFacets(e, v, k) = NamespaceFacets(d, v, k)
    BY <2>3 DEF Coverage, NamespaceFacets
  <2>5. ListWorkloads(e, v, k, NoFilter) = ListWorkloads(d, v, k, NoFilter)
    <3>1. /\ Q!ListClusterWorkloads(e, v, k, NoFilter) = Q!ListClusterWorkloads(d, v, k, NoFilter)
          /\ Q!CountClusterWorkloads(e, v, k, NoFilter) = Q!CountClusterWorkloads(d, v, k, NoFilter)
      BY <2>3
    <3> QED  BY <3>1, Zenon DEF ListWorkloads
  <2>6. ListImages(e, v, k, NoFilter) = ListImages(d, v, k, NoFilter)
    <3>1. /\ Q!ListClusterImages(e, v, k, NoFilter) = Q!ListClusterImages(d, v, k, NoFilter)
          /\ Q!CountClusterImages(e, v, k, NoFilter) = Q!CountClusterImages(d, v, k, NoFilter)
      BY <2>3
    <3> QED  BY <3>1, Zenon DEF ListImages
  <2>7. RunningVulns(e, v, k, None) = RunningVulns(d, v, k, None)
    <3>1. /\ Q!CountClusterRunningVulns(e, v, k, None) = Q!CountClusterRunningVulns(d, v, k, None)
          /\ Q!ListClusterRunningVulns(e, v, k, None) = Q!ListClusterRunningVulns(d, v, k, None)
      BY <2>3
    <3> QED  BY <3>1, Zenon DEF RunningVulns
  <2>8. UnknownImages(e, v, k) = UnknownImages(d, v, k)
    <3>1. resolveUnknownImages(e, v, k) = resolveUnknownImages(d, v, k)
      BY <2>1, UnknownImagesSame
    <3> QED  BY <3>1, Zenon DEF UnknownImages
  <2> QED  BY <2>2, <2>4, <2>5, <2>6, <2>7, <2>8, Zenon
           DEF ListClusterWorkloads, ListClusterImages, ListClusterVulns, ListClusterNamespaces,
               ListClusterUnknownImages, listClusterInventory
<1>3. Q!ListClusters(e, v, FALSE) = Q!ListClusters(d, v, FALSE)
  BY <1>1 DEF Q!ListClusters, Q!Seen, VisibleClusters
<1>4. \A c : ListVulnWorkloads(e, v, c) = ListVulnWorkloads(d, v, c)
  <2> SUFFICES ASSUME NEW c PROVE ListVulnWorkloads(e, v, c) = ListVulnWorkloads(d, v, c)
    OBVIOUS
  <2> DEFINE row(x, r) == [row |-> r.workload, join |-> Q!Joined(x, r.workload)]
             of(x, k) == {row(x, r) : r \in {r \in Q!Running(x, v, k) : Q!Finding(r.vuln) = c}}
             rows(x, Ks) == UNION {of(x, k) : k \in Ks}
  <2>1. \A x : Q!ListWorkloadsForVulnerability(x, v, c, Q!None) =
               rows(x, {k \in Q!Clusters(x) : Q!None \in {Q!None, k}})
    BY Zenon DEF Q!ListWorkloadsForVulnerability
  <2>2. \A r : row(e, r) = row(d, r)
    BY <1>1, MatchSame
  <2>3. \A k : Q!Running(e, v, k) = Q!Running(d, v, k)
    BY <1>1, InventoryQueries
  <2> HIDE DEF row
  <2>4. \A k : of(e, k) = of(d, k)
    BY <2>2, <2>3
  <2>5. \A x, k : k \in Q!Clusters(x) \ VisibleClusters(x, v) => of(x, k) = {}
    <3>1. \A x, k : k \in Q!Clusters(x) \ VisibleClusters(x, v) => Q!Inventory(x, v, k) = {}
      BY DEF VisibleClusters, Q!Inventory
    <3>2. \A x, k : Q!Inventory(x, v, k) = {} => Q!Running(x, v, k) = {}
      BY DEF Q!Running
    <3> QED  BY <3>1, <3>2
  <2> HIDE DEF of
  <2>6. \A x : rows(x, {k \in Q!Clusters(x) : Q!None \in {Q!None, k}}) = rows(x, VisibleClusters(x, v))
    BY <2>5 DEF VisibleClusters
  <2>7. rows(e, VisibleClusters(e, v)) = rows(d, VisibleClusters(d, v))
    BY <1>1, <2>4
  <2> HIDE DEF rows
  <2>8. Q!ListWorkloadsForVulnerability(e, v, c, None) = Q!ListWorkloadsForVulnerability(d, v, c, None)
    BY <2>1, <2>6, <2>7 DEF None
  <2> QED  BY <2>8, Zenon DEF ListVulnWorkloads, WorkloadsForVulnerability
<1> DEFINE page(x, k) ==
             [workloads |-> ListClusterWorkloads(x, v, k, NoFilter), images |-> ListClusterImages(x, v, k, NoFilter),
              vulns |-> ListClusterVulns(x, v, k), facets |-> ListClusterNamespaces(x, v, k),
              gap |-> ListClusterUnknownImages(x, v, k)]
           pages(x, Ks) == [k \in Ks |-> page(x, k)]
           vulns(x) == [y \in DOMAIN Vuln |-> ListVulnWorkloads(x, v, Q!Finding(y))]
<1>5. \A x, Ks : ClusterAnswers(x, v, Ks) =
                 [clusters |-> pages(x, Ks), list |-> Q!ListClusters(x, v, FALSE), vulns |-> vulns(x)]
  BY Zenon DEF ClusterAnswers
<1>6. \A k \in K : page(e, k) = page(d, k)
  BY <1>2, Zenon
<1> HIDE DEF page, K
<1>7. pages(e, K) = pages(d, K)
  BY <1>6
<1>8. vulns(e) = vulns(d)
  BY <1>4
<1> HIDE DEF pages, vulns
<1>9. ClusterAnswers(e, v, K) = ClusterAnswers(d, v, K)
  BY <1>3, <1>5, <1>7, <1>8, Zenon
<1> QED  BY <1>9 DEF K

-----------------------------------------------------------------------------
(***************************************************************************)
(* What is hidden is not found                                             *)
(***************************************************************************)
LEMMA HiddenClusters ==
    ASSUME NEW d, NEW v, NEW k, ~visibleCluster(d, v, k)
    PROVE  GetCluster(d, v, k) = {} /\ ListClusterWorkloads(d, v, k, NoFilter) = {}
  BY DEF GetCluster, ListClusterWorkloads, listClusterInventory, Answer

(* An artifact the viewer may not see is not found by any page about it.   *)
LEMMA HiddenArtifacts ==
    ASSUME NEW d, NEW ctx, NEW a, ~Q!artifact_visible(d, H!visibilityFilterFromContext(ctx), a)
    PROVE  /\ H!GetArtifact(d, ctx, a).status = 404
           /\ H!ListArtifactVulns(d, ctx, a, 0).status = 404
           /\ H!GetArtifactUsages(d, ctx, a).status = 404
           /\ H!GetArtifactContains(d, ctx, a).status = 404
           /\ H!GetArtifactVulnSummary(d, ctx, a).status = 404
           /\ H!GetArtifactLicenseSummary(d, ctx, a).status = 404
           /\ H!GetArtifactChangelog(d, ctx, a, WholeLog).status = 404
<1> DEFINE v == H!visibilityFilterFromContext(ctx)
<1>1. ~H!S!Q!IsArtifactVisible(d, v, a)
  BY SameAliases DEF H!S!Q!IsArtifactVisible
<1> HIDE DEF v
<1>2. ~H!S!visibleArtifact(d, v, a)
  BY <1>1 DEF H!S!visibleArtifact
<1>3. H!mapServiceError({}).status = 404
  BY DEF H!mapServiceError, H!Refuse
<1>4. H!S!GetArtifact(d, v, a) = {}
  BY <1>1 DEF H!S!GetArtifact, H!S!Answer
<1>5. H!S!ListArtifactVulns(d, v, a, 0) = {}
  BY <1>1 DEF H!S!ListArtifactVulns, H!S!Answer
<1>6. H!S!GetArtifactUsages(d, v, a) = {} /\ H!S!GetArtifactContains(d, v, a) = {}
  BY <1>2 DEF H!S!GetArtifactUsages, H!S!GetArtifactContains, H!S!Answer
<1>7. H!S!GetArtifactVulnSummary(d, v, a) = {} /\ H!S!GetArtifactLicenseSummary(d, v, a) = {}
  BY <1>1 DEF H!S!GetArtifactVulnSummary, H!S!GetArtifactLicenseSummary, H!S!Answer
<1>8. \A q : H!S!GetArtifactChangelog(d, v, a, q) = {}
  BY <1>1 DEF H!S!GetArtifactChangelog
<1> QED  BY <1>3, <1>4, <1>5, <1>6, <1>7, <1>8
         DEF H!GetArtifact, H!ListArtifactVulns, H!GetArtifactUsages, H!GetArtifactContains, H!GetArtifactVulnSummary,
             H!GetArtifactLicenseSummary, H!GetArtifactChangelog, v

(* Neither is a hidden SBOM, on whichever side of a diff it is.            *)
LEMMA HiddenSBOMs ==
    ASSUME NEW d, NEW ctx, ctx.role # "admin", NEW s \in Q!SBOMs(d),
           s \notin Q!VisibleSBOMs(d, H!visibilityFilterFromContext(ctx))
    PROVE  /\ H!GetSBOM(d, ctx, s).status = 404
           /\ H!ListSBOMVulns(d, ctx, s).status = 404
           /\ H!GetSBOMDependencies(d, ctx, s).status = 404
           /\ \A t : /\ H!DiffSBOMs(d, ctx, s, t).status = 404
                     /\ H!DiffSBOMs(d, ctx, t, s).status = 404
                     /\ H!GetDiffTree(d, ctx, t, s).status = 404
<1> DEFINE v == H!visibilityFilterFromContext(ctx)
<1>1. ~v.admin
  BY DEF H!visibilityFilterFromContext
<1>2. s \notin Q!VisibleSBOMs(d, v)
  OBVIOUS
<1> HIDE DEF v
<1>3. ~H!S!Q!IsSBOMVisible(d, v, s)
  BY <1>1, <1>2, SameAliases DEF H!S!Q!IsSBOMVisible, H!S!Q!sbom_visible, Q!VisibleSBOMs, Q!SBOMs
<1>4. H!mapServiceError({}).status = 404
  BY DEF H!mapServiceError, H!Refuse
<1>5. H!S!GetSBOM(d, v, s) = {} /\ H!S!ListSBOMVulns(d, v, s) = {} /\ H!S!GetSBOMDependencies(d, v, s) = {}
  BY <1>3 DEF H!S!GetSBOM, H!S!ListSBOMVulns, H!S!GetSBOMDependencies
<1>6. \A t : /\ H!S!DiffSBOMs(d, v, s, t) = {} /\ H!S!DiffSBOMs(d, v, t, s) = {}
             /\ H!S!DiffSBOMsWithTree(d, v, t, s) = {}
  BY <1>3 DEF H!S!DiffSBOMs, H!S!DiffSBOMsWithTree
<1> QED  BY <1>4, <1>5, <1>6
         DEF H!GetSBOM, H!ListSBOMVulns, H!GetSBOMDependencies, H!DiffSBOMs, H!GetDiffTree, v

-----------------------------------------------------------------------------
(***************************************************************************)
(* The theorem                                                             *)
(***************************************************************************)
(* Whoever asks without being an administrator, and what that shows.       *)
LEMMA Viewers ==
    ASSUME NEW d, Valid(d), NEW ctx \in Contexts \ {Admin}
    PROVE  LET v == H!visibilityFilterFromContext(ctx)
           IN /\ ctx.role # "admin"
              /\ Viewer(v) /\ Viewer(Q!Anonymous)
              /\ Q!visible_namespace_ids(d, Q!Anonymous) \subseteq Q!visible_namespace_ids(d, v)
<1>1. ctx.role # "admin"
  BY DEF Contexts, Admin, SignedIn, H!Nobody, H!S!None, H!S!Q!None
<1>2. Viewer(H!visibilityFilterFromContext(ctx))
  BY <1>1 DEF Viewer, H!visibilityFilterFromContext
<1>3. Viewer(Q!Anonymous)
  BY DEF Viewer, Q!Anonymous
<1>4. \A n : <<Q!Anonymous.user, n>> \notin d.members
  <2>1. Q!Anonymous.user = None /\ None \notin User
    BY UserAssumption DEF Q!Anonymous, None, Q!None
  <2>2. d.members \subseteq User \X d.ns
    BY DEF Valid, ForeignKeys
  <2> QED  BY <2>1, <2>2
<1>5. Q!visible_namespace_ids(d, Q!Anonymous) \subseteq Q!visible_namespace_ids(d, H!visibilityFilterFromContext(ctx))
  BY <1>3, <1>4 DEF Q!visible_namespace_ids, Viewer
<1> QED  BY <1>1, <1>2, <1>3, <1>5

(* The database and what is left of it for the viewer answer alike.        *)
LEMMA Noninterference ==
    ASSUME NEW d, Valid(d), NEW ctx \in Contexts \ {Admin}
    PROVE  LET v == H!visibilityFilterFromContext(ctx)
               e == Restricted(d, v)
               A == {a \in d.artifacts : Q!artifact_visible(d, v, a)}
               T == Q!VisibleSBOMs(d, v)
               K == {k \in Q!Clusters(d) : visibleCluster(d, v, k)}
           IN /\ ArtifactAnswers(e, ctx, A) = ArtifactAnswers(d, ctx, A)
              /\ SBOMAnswers(e, ctx, T) = SBOMAnswers(d, ctx, T)
              /\ ListAnswers(e, ctx) = ListAnswers(d, ctx)
              /\ ClusterAnswers([e EXCEPT !.sbom = d.sbom], v, K) = ClusterAnswers([d EXCEPT !.sbom = d.sbom], v, K)
<1> DEFINE v == H!visibilityFilterFromContext(ctx)
           e == Restricted(d, v)
           A == {a \in d.artifacts : Q!artifact_visible(d, v, a)}
           T == Q!VisibleSBOMs(d, v)
           K == {k \in Q!Clusters(d) : visibleCluster(d, v, k)}
<1>1. /\ ctx.role # "admin" /\ Viewer(v) /\ Viewer(Q!Anonymous)
      /\ Q!visible_namespace_ids(d, Q!Anonymous) \subseteq Q!visible_namespace_ids(d, v)
  BY Viewers
<1>2. RestrictedTo(d, v, e) /\ DOMAIN e = DOMAIN d
  <2>1. RestrictedTo(d, v, e)
    BY RestrictedColumns
  <2>2. DOMAIN e = DOMAIN d
    BY Zenon DEF Restricted
  <2> QED  BY <2>1, <2>2
<1> HIDE DEF e
<1>3. Alike(d, e, v) /\ Alike(d, e, Q!Anonymous) /\ HAlike(d, e, v)
  <2>1. Alike(d, e, v)
    BY <1>1, <1>2, RestrictedAlike
  <2>2. Alike(d, e, Q!Anonymous)
    BY <1>1, <1>2, RestrictedAlike
  <2> QED  BY <2>1, <2>2, AlikeReads
<1>4. ArtifactAnswers(e, ctx, A) = ArtifactAnswers(d, ctx, A)
  <2>1. \A a \in A : a \in d.artifacts /\ H!S!Q!artifact_visible(d, v, a)
    BY SameAliases
  <2> HIDE DEF A
  <2> QED  BY <1>3, <2>1, ArtifactAnswersSame
<1>5. SBOMAnswers(e, ctx, T) = SBOMAnswers(d, ctx, T)
  BY <1>1, <1>3, SBOMAnswersSame
<1>6. ListAnswers(e, ctx) = ListAnswers(d, ctx)
  BY <1>1, <1>3, ListAnswersSame
<1>7. ClusterAnswers([e EXCEPT !.sbom = d.sbom], v, K) = ClusterAnswers([d EXCEPT !.sbom = d.sbom], v, K)
  <2> DEFINE f == [e EXCEPT !.sbom = d.sbom]
             g == [d EXCEPT !.sbom = d.sbom]
  <2>1. ClusterAlike(d, f, v) /\ ClusterAlike(d, g, v)
    BY <1>1, <1>2, RestrictedClusterAlike
  <2> HIDE DEF f, g
  <2>2. ClusterAnswers(f, v, K) = ClusterAnswers(d, v, K) /\ ClusterAnswers(g, v, K) = ClusterAnswers(d, v, K)
    BY <2>1, ClusterAnswersSame
  <2>3. ClusterAnswers(f, v, K) = ClusterAnswers(g, v, K)
    BY <2>2
  <2> QED  BY <2>3 DEF f, g
<1> QED  BY <1>4, <1>5, <1>6, <1>7 DEF e

(* No reply tells a viewer anything about a namespace that viewer may not  *)
(* see, and what is hidden is not found, whatever was moved, published,    *)
(* hidden, deleted or left stale before.                                   *)
THEOREM NothingHiddenShown == Spec => []ReadsScoped
<1>1. ASSUME Valid(db) PROVE ReadsScoped
  <2> DEFINE v(ctx) == H!visibilityFilterFromContext(ctx)
             A(ctx) == {a \in db.artifacts : Q!artifact_visible(db, v(ctx), a)}
             T(ctx) == Q!VisibleSBOMs(db, v(ctx))
             K(ctx) == {k \in Q!Clusters(db) : visibleCluster(db, v(ctx), k)}
             both(ctx) == {db, Restricted(db, v(ctx))}
  <2>1. ASSUME NEW ctx \in Contexts \ {Admin}
        PROVE  /\ Cardinality({ArtifactAnswers(d, ctx, A(ctx)) : d \in both(ctx)}) = 1
               /\ Cardinality({SBOMAnswers(d, ctx, T(ctx)) : d \in both(ctx)}) = 1
               /\ Cardinality({ListAnswers(d, ctx) : d \in both(ctx)}) = 1
               /\ Cardinality({ClusterAnswers([d EXCEPT !.sbom = db.sbom], v(ctx), K(ctx)) : d \in both(ctx)}) = 1
    <3> DEFINE w == v(ctx)
               e == Restricted(db, w)
               B == A(ctx)
               U == T(ctx)
               L == K(ctx)
               clusters(d) == ClusterAnswers([d EXCEPT !.sbom = db.sbom], w, L)
    <3>1. /\ ArtifactAnswers(e, ctx, B) = ArtifactAnswers(db, ctx, B)
          /\ SBOMAnswers(e, ctx, U) = SBOMAnswers(db, ctx, U)
          /\ ListAnswers(e, ctx) = ListAnswers(db, ctx)
          /\ clusters(e) = clusters(db)
      BY <1>1, Noninterference, Zenon
    <3> HIDE DEF e, clusters, B, U, L
    <3>2. /\ {ArtifactAnswers(d, ctx, B) : d \in {db, e}} = {ArtifactAnswers(db, ctx, B)}
          /\ {SBOMAnswers(d, ctx, U) : d \in {db, e}} = {SBOMAnswers(db, ctx, U)}
          /\ {ListAnswers(d, ctx) : d \in {db, e}} = {ListAnswers(db, ctx)}
          /\ {clusters(d) : d \in {db, e}} = {clusters(db)}
      BY <3>1
    <3>3. /\ Cardinality({ArtifactAnswers(d, ctx, B) : d \in {db, e}}) = 1
          /\ Cardinality({SBOMAnswers(d, ctx, U) : d \in {db, e}}) = 1
          /\ Cardinality({ListAnswers(d, ctx) : d \in {db, e}}) = 1
          /\ Cardinality({clusters(d) : d \in {db, e}}) = 1
      BY <3>2, FS_Singleton
    <3> QED  BY <3>3 DEF e, clusters, B, U, L
  <2>2. ASSUME NEW ctx \in Contexts \ {Admin}, NEW k \in Q!Clusters(db) \ K(ctx)
        PROVE  GetCluster(db, v(ctx), k) = {} /\ ListClusterWorkloads(db, v(ctx), k, NoFilter) = {}
    BY <2>2, HiddenClusters
  <2>3. ASSUME NEW ctx \in Contexts \ {Admin}, NEW a \in db.artifacts \ A(ctx)
        PROVE  \A r \in {H!GetArtifact(db, ctx, a), H!ListArtifactVulns(db, ctx, a, 0), H!GetArtifactUsages(db, ctx, a),
                         H!GetArtifactContains(db, ctx, a), H!GetArtifactVulnSummary(db, ctx, a),
                         H!GetArtifactLicenseSummary(db, ctx, a), H!GetArtifactChangelog(db, ctx, a, WholeLog)} : r.status = 404
    BY <2>3, HiddenArtifacts
  <2>4. ASSUME NEW ctx \in Contexts \ {Admin}, NEW s \in Q!SBOMs(db) \ T(ctx)
        PROVE  /\ \A r \in {H!GetSBOM(db, ctx, s), H!ListSBOMVulns(db, ctx, s), H!GetSBOMDependencies(db, ctx, s)} :
                    r.status = 404
               /\ \A t \in Q!SBOMs(db) :
                    \A r \in {H!DiffSBOMs(db, ctx, s, t), H!DiffSBOMs(db, ctx, t, s), H!GetDiffTree(db, ctx, t, s)} :
                      r.status = 404
    <3>1. ctx.role # "admin"
      BY <1>1, Viewers
    <3> QED  BY <3>1, <2>4, HiddenSBOMs
  <2> DEFINE artifactsSame(ctx) == Cardinality({ArtifactAnswers(d, ctx, A(ctx)) : d \in both(ctx)}) = 1
             sbomsSame(ctx) == Cardinality({SBOMAnswers(d, ctx, T(ctx)) : d \in both(ctx)}) = 1
             listsSame(ctx) == Cardinality({ListAnswers(d, ctx) : d \in both(ctx)}) = 1
             clustersSame(ctx) ==
               Cardinality({ClusterAnswers([d EXCEPT !.sbom = db.sbom], v(ctx), K(ctx)) : d \in both(ctx)}) = 1
             clustersMissing(ctx) == \A k \in Q!Clusters(db) \ K(ctx) :
               GetCluster(db, v(ctx), k) = {} /\ ListClusterWorkloads(db, v(ctx), k, NoFilter) = {}
             artifactsMissing(ctx) == \A a \in db.artifacts \ A(ctx) :
               \A r \in {H!GetArtifact(db, ctx, a), H!ListArtifactVulns(db, ctx, a, 0), H!GetArtifactUsages(db, ctx, a),
                          H!GetArtifactContains(db, ctx, a), H!GetArtifactVulnSummary(db, ctx, a),
                          H!GetArtifactLicenseSummary(db, ctx, a), H!GetArtifactChangelog(db, ctx, a, WholeLog)} : r.status = 404
             sbomsMissing(ctx) == \A s \in Q!SBOMs(db) \ T(ctx) :
               /\ \A r \in {H!GetSBOM(db, ctx, s), H!ListSBOMVulns(db, ctx, s), H!GetSBOMDependencies(db, ctx, s)} :
                    r.status = 404
               /\ \A t \in Q!SBOMs(db) :
                    \A r \in {H!DiffSBOMs(db, ctx, s, t), H!DiffSBOMs(db, ctx, t, s), H!GetDiffTree(db, ctx, t, s)} :
                      r.status = 404
             scoped(ctx) == /\ artifactsSame(ctx)
                            /\ sbomsSame(ctx)
                            /\ listsSame(ctx)
                            /\ clustersSame(ctx)
                            /\ clustersMissing(ctx)
                            /\ artifactsMissing(ctx)
                            /\ sbomsMissing(ctx)
  <2>5. ASSUME NEW ctx \in Contexts \ {Admin} PROVE scoped(ctx)
    <3>1. artifactsSame(ctx) /\ sbomsSame(ctx) /\ listsSame(ctx) /\ clustersSame(ctx)  BY <2>1, Zenon
    <3>2. clustersMissing(ctx)   BY <2>2, Zenon
    <3>3. artifactsMissing(ctx)  BY <2>3, Zenon
    <3>4. sbomsMissing(ctx)      BY <2>4, Zenon
    <3> HIDE DEF artifactsSame, sbomsSame, listsSame, clustersSame, clustersMissing, artifactsMissing, sbomsMissing
    <3> QED  BY <3>1, <3>2, <3>3, <3>4, Zenon
  <2>6. (\A ctx \in Contexts \ {Admin} : scoped(ctx)) => ReadsScoped
    BY Zenon DEF ReadsScoped
  <2> QED  BY <2>5, <2>6, Zenon
<1>2. IInv => ReadsScoped
  BY <1>1 DEF IInv
<1> QED  BY <1>2, Invariance, PTL
=============================================================================
