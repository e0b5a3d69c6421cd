----------------------------- MODULE SearchAPI -----------------------------
(***************************************************************************)
(* The read handlers of internal/api/search.go: who is asking, what is     *)
(* refused, and which service method answers.  A handler keeps its name.   *)
(* The cursors are left out: a list is answered whole, as the pages of a   *)
(* client that follows them to the end.                                    *)
(*                                                                         *)
(* ctx is the signed-in user, [id, role], or Nobody.  A reply is its       *)
(* status and the bodies it may have; a refusal has none.                  *)
(***************************************************************************)
CONSTANTS Artifact, Doc, Vuln, Category, RelationLimit

S == INSTANCE SearchDiff

Nobody == [id |-> S!None, role |-> S!None]

OK(bodies) == [status |-> 200, body |-> bodies]
Refuse(status) == [status |-> status, body |-> {}]

(* An empty answer is ErrNotFound. *)
mapServiceError(answers) == IF answers = {} THEN Refuse(404) ELSE OK(answers)

visibilityFilterFromContext(ctx) == [user |-> ctx.id, admin |-> ctx.role = "admin"]

(* An admin's own namespaces are their own. *)
ownedFilterFromContext(ctx) == [user |-> ctx.id, admin |-> FALSE]

----------------------------------------------------------------------------
(* Components and licenses. *)

SearchDistinctComponents(db, ctx) ==
  OK({S!SearchDistinctComponents(db, visibilityFilterFromContext(ctx))})

GetComponentVersions(db, ctx, f) ==
  OK({S!GetComponentVersions(db, visibilityFilterFromContext(ctx), f)})

ListComponentVersionSummaries(db, ctx, f) ==
  OK({S!ListComponentVersionSummaries(db, visibilityFilterFromContext(ctx), f)})

ListComponentPurlTypes(db, ctx) == OK({S!ListComponentPurlTypes(db, visibilityFilterFromContext(ctx))})

(* The name or the purl must be given: not every component row is scanned. *)
SearchComponents(db, ctx, f, purl) ==
  IF f.name = S!None /\ purl = <<>> THEN Refuse(400)
  ELSE OK({{r \in S!SearchComponents(db, visibilityFilterFromContext(ctx), f) :
              purl \in {<<>>, S!Q!Purl(r.c)}}})

GetComponent(db, ctx, s, c) == mapServiceError(S!GetComponent(db, visibilityFilterFromContext(ctx), s, c))
GetComponentVulns(db, ctx, s, c) == mapServiceError(S!GetComponentVulns(db, visibilityFilterFromContext(ctx), s, c))

ListLicenses(db, ctx) == OK({S!ListLicenses(db, visibilityFilterFromContext(ctx))})
ListComponentsByLicense(db, ctx, l) == OK({S!ListComponentsByLicense(db, visibilityFilterFromContext(ctx), l)})

----------------------------------------------------------------------------
(* SBOMs. *)

ListSBOMs(db, ctx) == OK({S!ListSBOMs(db, visibilityFilterFromContext(ctx))})
GetSBOM(db, ctx, s) == mapServiceError(S!GetSBOM(db, visibilityFilterFromContext(ctx), s))

ListSBOMComponents(db, ctx, s) == mapServiceError(S!ListSBOMComponentsPage(db, visibilityFilterFromContext(ctx), s))
ListSBOMVulns(db, ctx, s) == mapServiceError(S!ListSBOMVulns(db, visibilityFilterFromContext(ctx), s))
GetSBOMDependencies(db, ctx, s) == mapServiceError(S!GetSBOMDependencies(db, visibilityFilterFromContext(ctx), s))
ListSBOMDriftHistory(db, ctx, s) == mapServiceError(S!ListSBOMDriftHistory(db, visibilityFilterFromContext(ctx), s))

DiffSBOMs(db, ctx, from, to) == mapServiceError(S!DiffSBOMs(db, visibilityFilterFromContext(ctx), from, to))
GetDiffTree(db, ctx, from, to) == mapServiceError(S!DiffSBOMsWithTree(db, visibilityFilterFromContext(ctx), from, to))

----------------------------------------------------------------------------
(* Artifacts. *)

(* all: insufficiently enriched artifacts too.  The total comes from a      *)
(* query of its own.                                                        *)
listArtifacts(db, v, owned, all) ==
  LET f == [owned |-> owned, sufficient |-> ~all]
  IN OK({[data |-> S!ListArtifacts(db, v, f), total |-> S!CountArtifacts(db, v, f)]})

ListArtifacts(db, ctx, all) == listArtifacts(db, visibilityFilterFromContext(ctx), FALSE, all)

ListMyArtifacts(db, ctx, all) ==
  IF ctx = Nobody THEN Refuse(401) ELSE listArtifacts(db, ownedFilterFromContext(ctx), TRUE, all)

GetArtifact(db, ctx, a) == mapServiceError(S!GetArtifact(db, visibilityFilterFromContext(ctx), a))
ListArtifactSBOMs(db, ctx, a) == OK({S!ListSBOMsByArtifact(db, visibilityFilterFromContext(ctx), a)})

(* Anything else asked for is auto. *)
ParseVersionSortMode(mode) == IF mode \in {"semver", "all"} THEN mode ELSE "auto"

ListArtifactVersions(db, ctx, a, mode) ==
  OK({S!ListVersionsByArtifact(db, visibilityFilterFromContext(ctx), a, ParseVersionSortMode(mode))})

GetArtifactLicenseSummary(db, ctx, a) == mapServiceError(S!GetArtifactLicenseSummary(db, visibilityFilterFromContext(ctx), a))
GetArtifactVulnSummary(db, ctx, a) == mapServiceError(S!GetArtifactVulnSummary(db, visibilityFilterFromContext(ctx), a))
GetArtifactUsages(db, ctx, a) == mapServiceError(S!GetArtifactUsages(db, visibilityFilterFromContext(ctx), a))
GetArtifactContains(db, ctx, a) == mapServiceError(S!GetArtifactContains(db, visibilityFilterFromContext(ctx), a))
ListArtifactVulns(db, ctx, a, scope) == mapServiceError(S!ListArtifactVulns(db, visibilityFilterFromContext(ctx), a, scope))

GetArtifactChangelog(db, ctx, a, q) ==
  mapServiceError(S!GetArtifactChangelog(db, visibilityFilterFromContext(ctx), a, [q EXCEPT !.mode = ParseVersionSortMode(@)]))

----------------------------------------------------------------------------
(* Vulnerabilities and statistics. *)

listTopVulnerabilities(db, v, owned) == OK({S!ListTopVulnerabilities(db, v, owned)})

ListTopVulnerabilities(db, ctx) == listTopVulnerabilities(db, visibilityFilterFromContext(ctx), FALSE)

ListMyVulnerabilities(db, ctx) ==
  IF ctx = Nobody THEN Refuse(401) ELSE listTopVulnerabilities(db, ownedFilterFromContext(ctx), TRUE)

GetVulnerability(db, ctx, x) == mapServiceError(S!GetVulnerabilityDetail(db, visibilityFilterFromContext(ctx), x))

(* Both from a cache: db is the database as the warmer last read it.  Until *)
(* then the reply has no figures and says that it is warming.                *)
GetDashboardStats(db, ctx) ==
  OK({S!WarmDashboardStats(db, S!normalizeStatsScope(db, visibilityFilterFromContext(ctx)))})

(* The same for everybody. *)
GetDiscovery(db) == OK({S!WarmDiscovery(db)})
=============================================================================
