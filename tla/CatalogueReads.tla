--------------------------- MODULE CatalogueReads ---------------------------
(***************************************************************************)
(* The queries behind OCIDex's lists, counts and detail pages, and the     *)
(* aggregates that define the rollup tables, as operators over a database  *)
(* value.  One operator is one query of internal/repository.  A list is    *)
(* the set of its rows: ordering, paging and the optional text filters     *)
(* are left out; columns that only repeat the row's own text are too.  The *)
(* one cut that is kept, of the relation queries, is Limited.              *)
(*                                                                         *)
(* db.ns, db.public     the namespaces, and those with visibility public   *)
(* db.members           namespace_member, as <<user, namespace>>           *)
(* db.source            source id -> [ns, kind]                            *)
(* db.sbom              SBOM id -> [ns, source, at]; at is created_at      *)
(* db.artifacts, db.links   artifact rows; artifact_namespace              *)
(* db.match             package_vulnerability, as [purl, set, vuln]        *)
(* db.watch             artifact_watch, as <<user, artifact>>              *)
(* db.rollup            the six rollup tables                              *)
(*                                                                         *)
(* What a document says is the constant Doc: its artifact, its version     *)
(* fields, flavor, signing status and components.  A purl is a triple: its *)
(* base, a sequence of path segments, its version and its qualifiers, each *)
(* [name, value, release]; release is what follows a distro's family.  A   *)
(* base of <<>> is a NULL purl, and a source of <<>> a NULL source_purl.   *)
(* Artifact[a].place is its rank by name, type and id.                     *)
(***************************************************************************)
EXTENDS Naturals, FiniteSets, Sequences, FiniteSetsExt, SequencesExt

CONSTANTS Artifact, Doc, Vuln, Category

None == "none"
Anonymous == [user |-> None, admin |-> FALSE]

Severities == {"CRITICAL", "HIGH", "MEDIUM", "LOW"}
Bucket(label) == IF label \in Severities THEN label ELSE "UNKNOWN"
Rank(label) == CASE label = "CRITICAL" -> 4 [] label = "HIGH" -> 3
                 [] label = "MEDIUM" -> 2 [] label = "LOW" -> 1 [] OTHER -> 0

----------------------------------------------------------------------------
(* The visibility functions of the schema. *)

visible_namespace_ids(db, v) ==
  {n \in db.ns : v.admin \/ n \in db.public \/ <<v.user, n>> \in db.members}

owned_namespace_ids(db, v) == {n \in db.ns : <<v.user, n>> \in db.members}

LinkedTo(db, a) == {n \in db.ns : <<a, n>> \in db.links}

artifact_visible(db, v, a) ==
  \/ v.admin
  \/ LinkedTo(db, a) = {}
  \/ LinkedTo(db, a) \cap visible_namespace_ids(db, v) # {}

sbom_visible(db, v, s) ==
  v.admin \/ db.sbom[s].ns \in visible_namespace_ids(db, v)

----------------------------------------------------------------------------
(* Shared pieces of the queries. *)

SBOMs(db) == DOMAIN db.sbom
VisibleSBOMs(db, v) == {s \in SBOMs(db) : db.sbom[s].ns \in visible_namespace_ids(db, v)}
SBOMsOf(db, a) == {s \in SBOMs(db) : Doc[s].artifact = a}
VisibleOf(db, v, a) == SBOMsOf(db, a) \cap VisibleSBOMs(db, v)

(* ORDER BY created_at DESC LIMIT 1. *)
Newest(db, S) == CHOOSE s \in S : \A t \in S : db.sbom[t].at <= db.sbom[s].at

(* ORDER BY the version numbers DESC NULLS LAST, created_at DESC LIMIT 1. *)
HighestVersion(db, S) ==
  CHOOSE s \in S : \A t \in S \ {s} :
    \/ Doc[t].semver < Doc[s].semver
    \/ Doc[t].semver = Doc[s].semver /\ db.sbom[t].at <= db.sbom[s].at

(* COALESCE(subject_version, imageVersion, id). *)
VersionKey(s) == IF Doc[s].version # None THEN Doc[s].version
                 ELSE IF Doc[s].image # None THEN Doc[s].image ELSE s

HasPurl(c) == c.base # <<>>
Purl(c) == <<c.base, c.version, c.quals>>
Identity(c) == <<c.name, c.group, c.type>>
VersionedIdentity(c) == <<c.name, c.group, c.version, c.type>>

(* component joined with sbom. *)
Rows(S) == UNION {{[sbom |-> s, c |-> c] : c \in Doc[s].components} : s \in S}

(* The scope of a match: purl with the symbol set, and source_purl. *)
Scope(S) ==
  {<<Purl(r.c), r.c.set>> : r \in {r \in Rows(S) : HasPurl(r.c)}}
  \cup {<<r.c.source, 0>> : r \in {r \in Rows(S) : r.c.source # <<>>}}

VulnsIn(db, scope) == {m.vuln : m \in {m \in db.match : <<m.purl, m.set>> \in scope}}

(* COALESCE(NULLIF(canonical_id, ''), id). *)
Finding(x) == IF Vuln[x].canonical = None THEN x ELSE Vuln[x].canonical

(* One finding per distinct canonical id and severity, in severity buckets. *)
SeverityCounts(X) ==
  [b \in Severities \cup {"UNKNOWN"} |->
    Cardinality({f \in {<<Vuln[x].canonical, Vuln[x].severity>> : x \in X} : Bucket(f[2]) = b})]

----------------------------------------------------------------------------
(* The rollup tables: repository/rollup_refresh.go. *)

componentRollup(db) ==
  LET all == Rows(SBOMs(db))
      key(r) == <<db.sbom[r.sbom].ns, Identity(r.c)>>
      group(k) == {r \in all : key(r) = k}
      scope(G) == {<<Purl(r.c), r.c.set>> : r \in {r \in G : HasPurl(r.c)}}
                  \cup {<<r.c.source, 0>> : r \in {r \in G : r.c.source # <<>>}}
  IN {[ns       |-> k[1], id |-> k[2],
       types    |-> {Head(r.c.base) : r \in {r \in group(k) : HasPurl(r.c)}},
       versions |-> {r.c.version : r \in group(k)},
       sboms    |-> Cardinality({r.sbom : r \in group(k)}),
       first    |-> Min({db.sbom[r.sbom].at : r \in group(k)}),
       vulns    |-> SeverityCounts(VulnsIn(db, scope(group(k))))] : k \in {key(r) : r \in all}}

componentVersionRollup(db) ==
  LET all == Rows(SBOMs(db))
      key(r) == <<db.sbom[r.sbom].ns, VersionedIdentity(r.c)>>
  IN {[ns |-> k[1], id |-> k[2],
       first |-> Min({db.sbom[r.sbom].at : r \in {r \in all : key(r) = k}})] : k \in {key(r) : r \in all}}

licenseRollup(db) ==
  UNION {{[license |-> l, ns |-> db.sbom[r.sbom].ns, id |-> VersionedIdentity(r.c)] :
            l \in r.c.licenses} : r \in Rows(SBOMs(db))}

(* The representative component is one of the group; its id orders it. *)
licenseComponentRollup(db) ==
  LET all == Rows(SBOMs(db))
      group(l, n, i) == {r \in all : l \in r.c.licenses /\ db.sbom[r.sbom].ns = n /\ VersionedIdentity(r.c) = i}
  IN {[license |-> k.license, ns |-> k.ns, id |-> k.id,
       row |-> CHOOSE r \in group(k.license, k.ns, k.id) : TRUE] : k \in licenseRollup(db)}

vulnRollup(db) ==
  LET hits == {h \in db.match \X Rows(SBOMs(db)) :
                 /\ Vuln[h[1].vuln].canonical # None
                 /\ HasPurl(h[2].c) /\ h[1].purl = Purl(h[2].c) /\ h[1].set = h[2].c.set}
      key(h) == <<Vuln[h[1].vuln].canonical, db.sbom[h[2].sbom].ns>>
      group(k) == {h \in hits : key(h) = k}
  IN {[canonical |-> k[1], ns |-> k[2],
       sboms |-> Cardinality({h[2].sbom : h \in group(k)}),
       purls |-> {h[1].purl : h \in group(k)}] : k \in {key(h) : h \in hits}}

sbomVulnRollup(db) ==
  {[sbom |-> s, ns |-> db.sbom[s].ns, vulns |-> SeverityCounts(VulnsIn(db, Scope({s})))] :
     s \in {s \in SBOMs(db) : VulnsIn(db, Scope({s})) # {}}}

Tables == {"component", "version", "license", "licenseComponent", "vuln", "sbomVuln"}

Aggregate(db, table) ==
  CASE table = "component" -> componentRollup(db)
    [] table = "version" -> componentVersionRollup(db)
    [] table = "license" -> licenseRollup(db)
    [] table = "licenseComponent" -> licenseComponentRollup(db)
    [] table = "vuln" -> vulnRollup(db)
    [] table = "sbomVuln" -> sbomVulnRollup(db)

(* A rollup's rows in the namespaces a reader may see. *)
RollupRows(db, v, table) == {r \in db.rollup[table] : r.ns \in visible_namespace_ids(db, v)}

(* LEFT JOIN sbom_vuln_rollup; an SBOM without a row counts as zeros. *)
RollupCounts(db, s) ==
  LET rows == {r \in db.rollup["sbomVuln"] : r.sbom = s}
  IN IF rows = {} THEN SeverityCounts({}) ELSE (CHOOSE r \in rows : TRUE).vulns

----------------------------------------------------------------------------
(* artifact.sql.go *)

CountArtifactVersions(db, v, a) == Cardinality({VersionKey(s) : s \in VisibleOf(db, v, a)})

(* f: the owned_only and sufficient_only arguments. *)
ArtifactFilter(db, v, f) ==
  {a \in db.artifacts :
     /\ f.sufficient => \E s \in SBOMsOf(db, a) : Doc[s].sufficient
     /\ IF f.owned THEN LinkedTo(db, a) \cap owned_namespace_ids(db, v) # {}
                   ELSE artifact_visible(db, v, a)}

CountArtifacts(db, v, f) == Cardinality(ArtifactFilter(db, v, f))

CountSBOMsByArtifact(db, v, a) == Cardinality(VisibleOf(db, v, a))

CountSufficientSBOMsByArtifact(db, v, a) ==
  Cardinality({s \in VisibleOf(db, v, a) : Doc[s].sufficient})

(* The first of these statuses that some SBOM of the artifact has. *)
SigningStatus(db, a) ==
  LET has(status) == \E s \in SBOMsOf(db, a) : Doc[s].signing = status
  IN IF has("artifact_missing") THEN "artifact_missing"
     ELSE IF has("verification_failed") THEN "verification_failed"
     ELSE IF has("signed") THEN "signed"
     ELSE IF has("verified") THEN "verified" ELSE "unsigned"

GetArtifact(db, a) == [id |-> a, signing |-> SigningStatus(db, a)]

GetArtifactNamespaceID(db, a) ==
  IF LinkedTo(db, a) = {} THEN None ELSE CHOOSE n \in LinkedTo(db, a) : TRUE

ListArtifactVersions(db, v, a) ==
  LET of(k) == {s \in VisibleOf(db, v, a) : VersionKey(s) = k}
  IN {[version |-> k, newest |-> Newest(db, of(k)),
       archs   |-> {Doc[s].arch : s \in of(k)} \ {None},
       sboms   |-> Cardinality(of(k)),
       vulns   |-> RollupCounts(db, Newest(db, of(k)))] : k \in {VersionKey(s) : s \in VisibleOf(db, v, a)}}

(* sbom_count, signing status and severities range over all its SBOMs. *)
ListArtifacts(db, v, f) ==
  {[id |-> a, sboms |-> Cardinality(SBOMsOf(db, a)),
    sufficient |-> Cardinality({s \in SBOMsOf(db, a) : Doc[s].sufficient}),
    signing |-> SigningStatus(db, a),
    vulns |-> IF SBOMsOf(db, a) = {} THEN SeverityCounts({})
              ELSE RollupCounts(db, HighestVersion(db, SBOMsOf(db, a)))] : a \in ArtifactFilter(db, v, f)}

ListSBOMCandidatesByArtifact(db, v, a) ==
  {[id |-> s, at |-> db.sbom[s].at, version |-> Doc[s].version, flavor |-> Doc[s].flavor] : s \in VisibleOf(db, v, a)}

ListSBOMsByArtifact(db, v, a) ==
  {[id |-> s, at |-> db.sbom[s].at, sufficient |-> Doc[s].sufficient,
    components |-> Cardinality(Doc[s].components)] : s \in VisibleOf(db, v, a)}

LookupArtifacts(db, v, name) ==
  {a \in db.artifacts : Artifact[a].name = name /\ artifact_visible(db, v, a)}

----------------------------------------------------------------------------
(* artifact_relations.sql.go: the joins are coarse, on a purl's base without *)
(* its qualifiers.                                                           *)

(* ORDER BY the artifact's name, type and id LIMIT limit: the rows that may  *)
(* be kept, for those of one artifact have no order.                         *)
Limited(rows, limit) ==
  IF Cardinality(rows) <= limit THEN {rows}
  ELSE {S \in SUBSET rows :
          /\ Cardinality(S) = limit
          /\ \A r \in S, q \in rows \ S : Artifact[r.artifact].place <= Artifact[q.artifact].place}

(* Mutant: of the newest SBOM in any namespace. *)
CurrentVersionAnywhere(db, v, a) ==
  IF SBOMsOf(db, a) = {} THEN None ELSE Doc[Newest(db, SBOMsOf(db, a))].version

(* The version of the newest SBOM the viewer can see. *)
GetArtifactCurrentVersion(db, v, a) ==
  IF VisibleOf(db, v, a) = {} THEN None ELSE Doc[Newest(db, VisibleOf(db, v, a))].version

SameTuple(a, c) ==
  /\ ~HasPurl(c) /\ Artifact[a].base = <<>>
  /\ <<Artifact[a].name, Artifact[a].group, Artifact[a].type>> = Identity(c)

(* Mutant: without the module prefix of a Go command. *)
ContainsByKey(a, c) == (HasPurl(c) /\ Artifact[a].base = c.base) \/ SameTuple(a, c)

(* The join condition between an artifact and a component. *)
ContainsJoin(a, c) ==
  \/ HasPurl(c) /\ Artifact[a].base = c.base
  \/ SameTuple(a, c)
  \/ HasPurl(c) /\ c.file # None /\ IsStrictPrefix(c.base, Artifact[a].base)

ListArtifactContains(db, v, a) ==
  IF VisibleOf(db, v, a) = {} THEN {}
  ELSE UNION {{[artifact |-> b, c |-> c, current |-> GetArtifactCurrentVersion(db, v, b)] :
                b \in {b \in db.artifacts \ {a} : ContainsJoin(b, c) /\ artifact_visible(db, v, b)}} :
                  c \in Doc[Newest(db, VisibleOf(db, v, a))].components}

(* modules: the purl bases of the Go modules the subject may be a command of. *)
UsageJoin(a, modules, c) ==
  \/ Artifact[a].base # <<>> /\ HasPurl(c) /\ c.base = Artifact[a].base
  \/ SameTuple(a, c)
  \/ HasPurl(c) /\ c.file # None /\ c.base \in modules

ListArtifactUsages(db, v, a, modules) ==
  {[artifact |-> Doc[r.sbom].artifact, sbom |-> r.sbom, c |-> r.c] :
     r \in {r \in Rows(VisibleSBOMs(db, v)) :
              /\ UsageJoin(a, modules, r.c)
              /\ Doc[r.sbom].artifact # a
              /\ r.sbom = Newest(db, VisibleOf(db, v, Doc[r.sbom].artifact))}}
=============================================================================
