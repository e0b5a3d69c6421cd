--------------------------- MODULE SearchService ---------------------------
(***************************************************************************)
(* The search, relation, watch, statistics and discovery services: what    *)
(* one request answers, as a function of the database.  A service method   *)
(* keeps its name; the queries it calls are those of ClusterReads.         *)
(*                                                                         *)
(* Where a method may answer ErrNotFound its result is a set: empty for    *)
(* not found, otherwise the answer, or the answers the code can give when  *)
(* neither a query nor Go's maps fix one.                                  *)
(***************************************************************************)
EXTENDS Naturals, Sequences, FiniteSets, SequencesExt

CONSTANTS Artifact, Doc, Vuln, Category,
          RelationLimit   \* rows one relation query returns; 200 in the code

Q == INSTANCE ClusterReads

None == Q!None

Answer(found, x) == IF found THEN {x} ELSE {}

----------------------------------------------------------------------------
(* search_artifact.go *)

GetArtifact(db, v, a) ==
  Answer(Q!IsArtifactVisible(db, v, a) /\ a \in db.artifacts,
    [row        |-> Q!GetArtifact(db, a),
     sboms      |-> Q!CountSBOMsByArtifact(db, v, a),
     sufficient |-> Q!CountSufficientSBOMsByArtifact(db, v, a),
     versions   |-> Q!CountArtifactVersions(db, v, a),
     watched    |-> v.user # None /\ Q!IsArtifactWatched(db, v.user, a)])

isSemver(row) == Doc[row.newest].semver > 0

resolveSortMode(mode, semvers, total) ==
  IF mode = "auto" THEN (IF semvers > 0 /\ semvers * 2 >= total THEN "semver" ELSE "all")
                   ELSE mode

(* Nothing checks that the artifact is visible; its versions are filtered. *)
ListVersionsByArtifact(db, v, a, mode) ==
  LET all == Q!ListArtifactVersions(db, v, a)
      semvers == {x \in all : isSemver(x)}
      resolved == resolveSortMode(mode, Cardinality(semvers), Cardinality(all))
  IN [rows |-> IF resolved = "semver" THEN semvers ELSE all,
      hasSemver |-> semvers # {}, mode |-> resolved]

CountArtifacts(db, v, f) == Q!CountArtifacts(db, v, f)
ListArtifacts(db, v, f) == Q!ListArtifacts(db, v, f)

GetArtifactLicenseSummary(db, v, a) ==
  Answer(Q!IsArtifactVisible(db, v, a),
    [licenses |-> {[l |-> r, category |-> Category[r.license]] : r \in Q!LicenseSummaryByArtifact(db, a)},
     sbom     |-> IF Q!SBOMsOf(db, a) = {} THEN None ELSE Q!GetLatestSBOMRef(db, a)])

(* Per-severity counts folded into the five buckets; None when there are none. *)
buildVulnSummary(rows) ==
  [b \in Q!Severities \cup {"UNKNOWN"} |->
     Q!MapThenSumSet(LAMBDA r : r.count, {r \in rows : Q!Bucket(r.severity) = b})]

GetArtifactVulnSummary(db, v, a) ==
  Answer(Q!IsArtifactVisible(db, v, a), buildVulnSummary(Q!GetArtifactVulnSummary(db, a)))

(* default and max: the version scope used for 0 and the most one may ask. *)
clampVersionScope(scope, default, max) ==
  IF scope = 0 THEN default ELSE IF scope > max THEN max ELSE scope

ListArtifactVulns(db, v, a, scope) ==
  LET n == clampVersionScope(scope, 20, 200)
      versions(rows) == Q!ListArtifactVulnAffectedVersions(db, v, a, n, {r.canonical : r \in rows})
      joined(rows, affected) ==
        {[r |-> r, affected |-> {x \in affected : x.canonical = r.canonical}] : r \in rows}
      page(rows) == joined(rows, versions(rows))
  IN Answer(Q!IsArtifactVisible(db, v, a),
       [total    |-> Q!CountArtifactVulns(db, v, a, n),
        rows     |-> page(Q!ListArtifactVulns(db, v, a, n)),
        versions |-> Q!CountArtifactVersions(db, v, a)])

----------------------------------------------------------------------------
(* search_sbom.go *)

(* A recorded drift is shown while it still names the present status. *)
currentDrift(s) ==
  IF Doc[s].drift = {} THEN {}
  ELSE {d \in {Q!GetLatestProvenanceDrift(s)} : d.to = Doc[s].signing}

GetSBOM(db, v, s) ==
  IF ~Q!IsSBOMVisible(db, v, s) THEN {}
  ELSE {[row |-> Q!GetSBOM(db, s),
         components |-> Q!CountSBOMComponents(s), packages |-> Q!CountSBOMPackages(s),
         drift |-> currentDrift(s), vulns |-> buildVulnSummary(Q!GetSBOMVulnSummary(db, s))]}

ListSBOMDriftHistory(db, v, s) ==
  Answer(Q!IsSBOMVisible(db, v, s), Q!ListProvenanceDriftBySBOM(s))

ListRecentProvenanceDrift(db, v, owned) == Q!ListRecentProvenanceDrift(db, v, owned)

ListOwnedActivity(db, user) == IF user = None THEN {} ELSE Q!ListOwnedActivity(db, user)

(* The findings of a component: one per canonical id, the row with the     *)
(* highest score deciding its severity.                                     *)
FirstByScore(X) ==
  {x \in X : \A y \in X \ {x} : Q!Finding(y) = Q!Finding(x) => Vuln[y].score < Vuln[x].score}

VulnCounts(X) ==
  [b \in Q!Severities \cup {"UNKNOWN"} |->
     Cardinality({x \in FirstByScore(X) : Q!Bucket(Vuln[x].severity) = b})]

decorateComponentVulns(db, s, C) ==
  LET rows == Q!ListSBOMComponentVulns(db, s)
  IN {[c |-> c, vulns |-> VulnCounts({r.id : r \in {r \in rows : Q!HasPurl(c) /\ r.purl = Q!Purl(c)}})] : c \in C}

ListSBOMVulns(db, v, s) ==
  IF ~Q!IsSBOMVisible(db, v, s) THEN {}
  ELSE LET rows == Q!ListSBOMVulns(db, s)
           packages == Q!ListSBOMVulnAffectedPackages(db, s, {r.canonical : r \in rows})
       IN {[total |-> Q!CountSBOMVulns(db, s),
            rows  |-> {[r |-> r, packages |-> {p \in packages : p.canonical = r.canonical}] : r \in rows}]}

ListSBOMs(db, v) == Q!ListSBOMs(db, v)
ListSBOMsByArtifact(db, v, a) == Q!ListSBOMsByArtifact(db, v, a)
ListSBOMsByDigest(db, v, d) == Q!ListSBOMsByDigest(db, v, d)

(* Roots: what the document's own component depends on; without that, the  *)
(* components nothing depends on that depend on something.                  *)
DependencyRoots(s) ==
  LET edges == Q!ListDependenciesBySBOM(s)
      out(r) == {d[2] : d \in {d \in edges : d[1] = r}}
      refs == {c.ref : c \in Q!ListSBOMComponents(s)}
  IN IF out(Q!GetSBOMMetadataBomRef(s)) # {} THEN out(Q!GetSBOMMetadataBomRef(s))
     ELSE {r \in refs : out(r) # {} /\ ~\E d \in edges : d[2] = r}

GetSBOMDependencies(db, v, s) ==
  IF ~Q!IsSBOMVisible(db, v, s) THEN {}
  ELSE {[nodes |-> {[n |-> n, direct |-> n.c.ref \in DependencyRoots(s)] :
                      n \in decorateComponentVulns(db, s, Q!ListSBOMComponents(s))},
         edges |-> Q!ListDependenciesBySBOM(s), roots |-> DependencyRoots(s)]}

ListSBOMComponents(db, v, s) ==
  IF Q!IsSBOMVisible(db, v, s) THEN {decorateComponentVulns(db, s, Q!ListSBOMComponents(s))} ELSE {}

ListSBOMComponentsPage(db, v, s) ==
  IF Q!IsSBOMVisible(db, v, s) THEN {decorateComponentVulns(db, s, Q!ListSBOMComponentsPage(s))} ELSE {}

----------------------------------------------------------------------------
(* search_component.go *)

SearchComponents(db, v, f) == Q!SearchComponents(db, v, f)
SearchDistinctComponents(db, v) == Q!SearchDistinctComponents(db, v)

(* By purl alone: the symbol set of the component is not looked at. *)
vulnCountsByPurl(db, p) == VulnCounts({r[2] : r \in Q!ListVulnsByPurls(db, {p})})

GetComponentVersions(db, v, f) ==
  [counts |-> Q!CountComponentVersions(db, v, f),
   rows   |-> {[r |-> r, vulns |-> IF Q!HasPurl(r.row.c) THEN vulnCountsByPurl(db, Q!Purl(r.row.c)) ELSE VulnCounts({})] :
                 r \in Q!GetComponentVersions(db, v, f)}]

(* The version filter does not apply here. *)
ListComponentVersionSummaries(db, v, f) ==
  LET g == [f EXCEPT !.version = None]
  IN [counts |-> Q!CountComponentVersions(db, v, g),
      rows   |-> {[r |-> r, vulns |-> IF r.purl = <<>> THEN VulnCounts({}) ELSE vulnCountsByPurl(db, r.purl)] :
                    r \in Q!ListComponentVersionSummaries(db, v, g)}]

(* A component in the first layer comes from the base image, when the      *)
(* image names one.                                                         *)
resolveComponentLayer(s, c) ==
  [layer |-> IF c.layer \in Doc[s].layers THEN {c.layer} ELSE {},
   base  |-> Doc[s].hasBase /\ c.layer = 0 /\ c.layer \in Doc[s].layers]

GetComponent(db, v, s, c) ==
  IF ~Q!IsSBOMVisible(db, v, s) THEN {}
  ELSE {[c |-> c, licenses |-> Q!ListComponentLicenses(c), at |-> resolveComponentLayer(s, c)]}

GetComponentVulns(db, v, s, c) ==
  IF GetComponent(db, v, s, c) = {} THEN {}
  ELSE {IF Q!HasPurl(c) THEN Q!ListVulnsByPurl(db, c) ELSE {}}

ListComponentPurlTypes(db, v) == Q!ListComponentPurlTypes(db, v)

----------------------------------------------------------------------------
(* search_license.go, search_lookup.go and search_vuln.go *)

ListLicenses(db, v) == {[l |-> r, category |-> Category[r.license]] : r \in Q!ListLicenses(db, v)}

ListComponentsByLicense(db, v, l) == Q!ListComponentsByLicense(db, v, l)

LookupArtifact(db, v, name) == Q!LookupArtifacts(db, v, name)
LookupLicense(db, v, l) == {r \in ListLicenses(db, v) : r.l.license = l}
LookupSBOM(db, v, f) == Q!LookupSBOMs(db, v, f)

ListTopVulnerabilities(db, v, owned) == Q!ListTopVulnerabilities(db, v, owned)

GetVulnerabilityDetail(db, v, id) ==
  {[id         |-> x,
    artifacts  |-> Q!ListAffectedArtifactsByVuln(db, v, Vuln[x].canonical),
    components |-> Q!ListAffectedComponentsByVuln(db, v, Vuln[x].canonical),
    namespaces |-> Q!CountAffectedNamespacesByVuln(db, v, Vuln[x].canonical)] : x \in Q!GetVulnerabilityByID(id)}

----------------------------------------------------------------------------
(* component_identity.go *)

identityQualifiers == {"distro", "arch", "epoch", "repository_url"}

(* Without the version, the qualifiers that are noise, and a distro's release. *)
normalizeComponentPurl(c) ==
  <<c.base, {<<q.name, q.value>> : q \in {q \in c.quals : q.name \in identityQualifiers}}>>

(* Of an artifact or of a component. *)
componentKey(c) ==
  IF Q!HasPurl(c) THEN <<"purl", normalizeComponentPurl(c)>> ELSE <<"tuple", <<c.type, c.name, c.group>>>>

----------------------------------------------------------------------------
(* artifact_relations.go: the query's rows are cut first, then matched by   *)
(* their exact key.                                                         *)

SameKey(a, c) == componentKey(Artifact[a]) = componentKey(c)

(* Every strict prefix of the Go module path with a segment of its own. *)
modulePurlBases(base) ==
  IF base = <<>> \/ Head(base) # "golang" THEN {}
  ELSE {SubSeq(base, 1, i) : i \in 2 .. Len(base) - 1}

commandMatch(a, c) ==
  /\ c.file # None /\ Artifact[a].base # <<>> /\ Q!HasPurl(c)
  /\ Head(c.base) = "golang" /\ Head(Artifact[a].base) = "golang"
  /\ IsStrictPrefix(c.base, Artifact[a].base)
  /\ c.file = Artifact[a].name

visibleArtifact(db, v, a) == Q!IsArtifactVisible(db, v, a) /\ a \in db.artifacts

GetArtifactUsages(db, v, a) ==
  LET rows == Q!ListArtifactUsages(db, v, a, modulePurlBases(Artifact[a].base))
      exact(S) == {[r |-> r, current |-> Q!GetArtifactCurrentVersion(db, v, a)] :
                     r \in {r \in S : SameKey(a, r.c) \/ commandMatch(a, r.c)}}
  IN IF visibleArtifact(db, v, a) THEN {exact(S) : S \in Q!Limited(rows, RelationLimit)} ELSE {}

GetArtifactContains(db, v, a) ==
  LET exact(S) == {r \in S : SameKey(r.artifact, r.c) \/ commandMatch(r.artifact, r.c)}
  IN IF visibleArtifact(db, v, a)
     THEN {exact(S) : S \in Q!Limited(Q!ListArtifactContains(db, v, a), RelationLimit)} ELSE {}

----------------------------------------------------------------------------
(* watch.go, search_stats.go and discover.go *)

CanWatch(db, v, a) == v.user # None /\ Q!IsArtifactVisible(db, v, a)

Watches(db, user) == IF user = None THEN {} ELSE Q!ListArtifactWatches(db, user)
Feed(db, v) == IF v.user = None THEN {} ELSE Q!ListWatchedArtifactEvents(db, v.user, v)

(* A viewer without a private namespace of their own reads as anonymous. *)
normalizeStatsScope(db, v) ==
  IF v.admin \/ v.user = None \/ Q!CountOwnedPrivateNamespaces(db, v.user) > 0 THEN v ELSE Q!Anonymous

WarmDashboardStats(db, v) ==
  [counts   |-> Q!GetSummaryCounts(db, v), types |-> Q!GetArtifactTypeCounts(db, v),
   licenses |-> Q!GetLicenseCategoryCounts(db, v), ingested |-> Q!GetSBOMIngestionTimeline(db, v),
   packages |-> Q!GetPackageGrowthTimeline(db, v), versions |-> Q!GetVersionGrowthTimeline(db, v),
   top      |-> Q!GetTopPackagesByVersionCount(db, v), vulns |-> Q!GetVulnStats(db, v)]

WarmDiscovery(db) ==
  [top   |-> Q!GetDiscoverTopArtifacts(db), recent |-> Q!GetDiscoverRecentArtifacts(db),
   vulns |-> Q!GetDiscoverTopVulnerabilities(db), licenses |-> Q!GetDiscoverLicenseSpread(db)]
=============================================================================
