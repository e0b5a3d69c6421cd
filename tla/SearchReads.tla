---------------------------- MODULE SearchReads ----------------------------
(***************************************************************************)
(* The search, vulnerability, statistics, discovery and watch queries.     *)
(* Conventions are those of CatalogueReads: one operator is one query, a   *)
(* list is the set of its rows, a filter argument of None is not applied.  *)
(***************************************************************************)
EXTENDS CatalogueReads

License == DOMAIN Category

(* owned: the owned_only argument. *)
Seen(db, v, owned) == IF owned THEN owned_namespace_ids(db, v) ELSE visible_namespace_ids(db, v)

----------------------------------------------------------------------------
(* search.sql.go *)

(* f: name, group, version and type, each None when the filter is not set. *)
ComponentMatch(c, f) ==
  /\ f.name \in {None, c.name}
  /\ f.group \in {None, c.group}
  /\ f.version \in {None, c.version}
  /\ f.type \in {None, c.type}

SearchComponents(db, v, f) == {r \in Rows(VisibleSBOMs(db, v)) : ComponentMatch(r.c, f)}

GetComponentVersions(db, v, f) ==
  {[row |-> r, artifact |-> Doc[r.sbom].artifact, arch |-> Doc[r.sbom].arch] : r \in SearchComponents(db, v, f)}

(* COUNT(DISTINCT version) leaves a NULL version out. *)
CountComponentVersions(db, v, f) ==
  LET rows == SearchComponents(db, v, f)
  IN [total     |-> Cardinality(rows),
      versions  |-> Cardinality({r.c.version : r \in rows} \ {None}),
      artifacts |-> Cardinality({Doc[r.sbom].artifact : r \in rows}),
      sboms     |-> Cardinality({r.sbom : r \in rows})]

ListComponentVersionSummaries(db, v, f) ==
  LET rows == SearchComponents(db, v, f)
      of(x) == {r \in rows : r.c.version = x}
      purls(x) == {Purl(r.c) : r \in {r \in of(x) : HasPurl(r.c)}}
  IN {[version   |-> x,
       purl      |-> IF purls(x) = {} THEN <<>> ELSE CHOOSE p \in purls(x) : TRUE,
       sboms     |-> Cardinality({r.sbom : r \in of(x)}),
       artifacts |-> Cardinality({Doc[r.sbom].artifact : r \in of(x)})] : x \in {r.c.version : r \in rows}}

ListSBOMComponents(s) == Doc[s].components
ListSBOMPackages(s) == {c \in Doc[s].components : c.type # "file"}
ListSBOMComponentsPage(s) == ListSBOMPackages(s)
ListSBOMPackagesBySBOMIDs(S) == {r \in Rows(S) : r.c.type # "file"}
CountSBOMComponents(s) == Cardinality(ListSBOMComponents(s))
CountSBOMPackages(s) == Cardinality(ListSBOMPackages(s))
ListDependenciesBySBOM(s) == Doc[s].depends
GetSBOMMetadataBomRef(s) == Doc[s].root

(* Over every SBOM of the artifact, whoever asks. *)
GetLatestSBOMRef(db, a) == Newest(db, SBOMsOf(db, a))

GetSBOM(db, s) ==
  [id |-> s, artifact |-> Doc[s].artifact, ns |-> db.sbom[s].ns,
   kind |-> IF db.sbom[s].source = None THEN None ELSE db.source[db.sbom[s].source].kind]

(* An SBOM is named by its digest, which is unique. *)
ListSBOMs(db, v) == VisibleSBOMs(db, v)
ListSBOMsByDigest(db, v, d) == {s \in VisibleSBOMs(db, v) : s = d}

(* COALESCE(subject_version, imageVersion), without the id to fall back to. *)
NamedVersion(s) == IF Doc[s].version # None THEN Doc[s].version ELSE Doc[s].image

LookupSBOMs(db, v, f) ==
  {s \in VisibleSBOMs(db, v) :
     /\ f.digest \in {None, s}
     /\ f.artifact \in {None, Artifact[Doc[s].artifact].name}
     /\ f.version \in {None, NamedVersion(s)}
     /\ f.arch \in {None, Doc[s].arch}
     /\ f.flavor \in {None, Doc[s].flavor}}

IsArtifactVisible(db, v, a) == artifact_visible(db, v, a)
IsSBOMVisible(db, v, s) == s \in SBOMs(db) /\ sbom_visible(db, v, s)

ListOwnedActivity(db, user) ==
  {[id |-> s, ns |-> db.sbom[s].ns, artifact |-> Doc[s].artifact] :
     s \in {s \in SBOMs(db) : db.sbom[s].ns \in owned_namespace_ids(db, [user |-> user, admin |-> FALSE])}}

(* Of the artifact's newest SBOM in any namespace. *)
LicenseSummaryByArtifact(db, a) ==
  IF SBOMsOf(db, a) = {} THEN {}
  ELSE LET cs == Doc[GetLatestSBOMRef(db, a)].components
       IN {[license |-> l, components |-> Cardinality({c \in cs : l \in c.licenses})] :
             l \in UNION {c.licenses : c \in cs}}

ListComponentLicenses(c) == c.licenses

(* From the rollups. *)
ListComponentPurlTypes(db, v) == UNION {r.types : r \in RollupRows(db, v, "component")}

IdentityCount(db, v, licenses) ==
  Cardinality({r.id : r \in {r \in RollupRows(db, v, "license") : r.license \in licenses}})

(* LEFT JOIN: a license nobody the viewer sees uses is listed with zero. *)
ListLicenses(db, v) == {[license |-> l, components |-> IdentityCount(db, v, {l})] : l \in License}

ListComponentsByLicense(db, v, l) ==
  LET rows == {r \in RollupRows(db, v, "licenseComponent") : r.license = l}
  IN {(CHOOSE r \in rows : r.id = i).row : i \in {r.id : r \in rows}}

MaxCounts(rows) ==
  [b \in Severities \cup {"UNKNOWN"} |-> Max({r.vulns[b] : r \in rows})]

SearchDistinctComponents(db, v) ==
  LET all == RollupRows(db, v, "component")
      of(i) == {r \in all : r.id = i}
  IN {[id       |-> i,
       types    |-> UNION {r.types : r \in of(i)},
       versions |-> Cardinality((UNION {r.versions : r \in of(i)}) \ {None}),
       sboms    |-> MapThenSumSet(LAMBDA r : r.sboms, of(i)),
       vulns    |-> MaxCounts(of(i))] : i \in {r.id : r \in all}}

----------------------------------------------------------------------------
(* vulnerability.sql.go *)

(* scope JOIN package_vulnerability, for components with a purl of their own. *)
Findings(db, S) ==
  {h \in Rows(S) \X db.match :
     /\ HasPurl(h[1].c)
     /\ \/ h[2].purl = Purl(h[1].c) /\ h[2].set = h[1].c.set
        \/ h[2].purl = h[1].c.source /\ h[2].set = 0}

ViaSource(H) == \A h \in H : h[2].purl # Purl(h[1].c)

(* The record with the highest severity, then score, stands for its finding. *)
Worst(X) ==
  CHOOSE x \in X : \A y \in X \ {x} :
    \/ Rank(Vuln[y].severity) < Rank(Vuln[x].severity)
    \/ Rank(Vuln[y].severity) = Rank(Vuln[x].severity) /\ Vuln[y].score <= Vuln[x].score

(* DISTINCT ON (canonical_id): a known severity first, then modified_at DESC. *)
CanonicalRecord(canonical) ==
  LET X == {x \in DOMAIN Vuln : Vuln[x].canonical = canonical}
      known == {x \in X : Vuln[x].severity \notin {None, "UNKNOWN"}}
      from == IF known # {} THEN known ELSE X
  IN CHOOSE x \in from : \A y \in from : Vuln[y].modified <= Vuln[x].modified

OfFinding(H, f) == {h \in H : Finding(h[2].vuln) = f}
FindingIDs(H) == {Finding(h[2].vuln) : h \in H}

ListSBOMVulns(db, s) ==
  LET H == Findings(db, {s})
  IN {[canonical |-> f, id |-> Worst({h[2].vuln : h \in OfFinding(H, f)}),
       packages  |-> Cardinality({Purl(h[1].c) : h \in OfFinding(H, f)})] : f \in FindingIDs(H)}

(* The count's scope also takes source purls of components without a purl. *)
CountSBOMVulns(db, s) == Cardinality({Finding(x) : x \in VulnsIn(db, Scope({s}))})

GetSBOMVulnSummary(db, s) ==
  LET X == VulnsIn(db, Scope({s}))
  IN {[severity |-> q,
       count    |-> Cardinality({Vuln[x].canonical : x \in {x \in X : Vuln[x].severity = q}})] :
         q \in {Vuln[x].severity : x \in X}}

ListSBOMComponentVulns(db, s) ==
  LET H == Findings(db, {s})
  IN {[purl |-> k[1], id |-> k[2],
       viaSource |-> ViaSource({h \in H : Purl(h[1].c) = k[1] /\ h[2].vuln = k[2]})] :
         k \in {<<Purl(h[1].c), h[2].vuln>> : h \in H}}

ListSBOMVulnAffectedPackages(db, s, findings) ==
  LET H == {h \in Findings(db, {s}) : Finding(h[2].vuln) \in findings}
      key(h) == <<Finding(h[2].vuln), Purl(h[1].c), h[1].c.name, h[1].c.group>>
  IN {[canonical |-> k[1], purl |-> k[2], name |-> k[3],
       viaSource |-> ViaSource({h \in H : key(h) = k})] : k \in {key(h) : h \in H}}

ListVulnsByPurl(db, c) ==
  LET hits == {m \in db.match : (m.purl = Purl(c) /\ m.set = c.set) \/ (m.purl = c.source /\ m.set = 0)}
  IN {[id |-> x, viaSource |-> ~\E m \in hits : m.vuln = x /\ m.purl = Purl(c)] : x \in {m.vuln : m \in hits}}

(* Whatever the symbol set. *)
ListVulnsByPurls(db, purls) == {<<m.purl, m.vuln>> : m \in {m \in db.match : m.purl \in purls}}

(* The SBOMs an artifact's findings are read from: the newest visible one   *)
(* of each version, for the scope highest versions.                         *)
ArtifactScope(db, v, a, scope) ==
  LET newest == {Newest(db, {s \in VisibleOf(db, v, a) : VersionKey(s) = k}) :
                   k \in {VersionKey(s) : s \in VisibleOf(db, v, a)}}
      above(s) == {t \in newest :
                     \/ Doc[s].semver < Doc[t].semver
                     \/ Doc[s].semver = Doc[t].semver /\ db.sbom[s].at < db.sbom[t].at}
  IN {s \in newest : Cardinality(above(s)) < scope}

CountArtifactVulns(db, v, a, scope) ==
  Cardinality({Finding(x) : x \in VulnsIn(db, Scope(ArtifactScope(db, v, a, scope)))})

ListArtifactVulns(db, v, a, scope) ==
  LET row(f, hits) ==
        [canonical |-> f, id |-> Worst({h[2].vuln : h \in hits}),
         packages  |-> Cardinality({Purl(h[1].c) : h \in hits}),
         versions  |-> Cardinality({VersionKey(h[1].sbom) : h \in hits})]
      listed(H) == {row(f, OfFinding(H, f)) : f \in FindingIDs(H)}
  IN listed(Findings(db, ArtifactScope(db, v, a, scope)))

ListArtifactVulnAffectedVersions(db, v, a, scope, findings) ==
  LET row(k, hits) ==
        [canonical |-> k[1], sbom |-> k[2], version |-> VersionKey(k[2]),
         packages  |-> Cardinality({Purl(h[1].c) : h \in hits}),
         names     |-> {h[1].c.name : h \in hits}]
      key(h) == <<Finding(h[2].vuln), h[1].sbom>>
      listed(H) == {row(k, {h \in H : key(h) = k}) : k \in {key(h) : h \in H}}
  IN listed({h \in Findings(db, ArtifactScope(db, v, a, scope)) : Finding(h[2].vuln) \in findings})

(* Of the highest version in any namespace. *)
GetArtifactVulnSummary(db, a) ==
  IF SBOMsOf(db, a) = {} THEN {} ELSE GetSBOMVulnSummary(db, HighestVersion(db, SBOMsOf(db, a)))

(* The record of that id before any other of that canonical id or alias:    *)
(* the records the query may give, none when there is none.                  *)
GetVulnerabilityByID(id) ==
  LET X == {x \in DOMAIN Vuln : x = id \/ Vuln[x].canonical = id \/ id \in Vuln[x].aliases}
  IN IF id \in X THEN {id} ELSE X

(* The components a vulnerability matches by their own purl. *)
AffectedRows(db, v, canonical) ==
  {h \in Rows(VisibleSBOMs(db, v)) \X db.match :
     /\ Vuln[h[2].vuln].canonical = canonical
     /\ HasPurl(h[1].c) /\ h[2].purl = Purl(h[1].c) /\ h[2].set = h[1].c.set}

ListAffectedArtifactsByVuln(db, v, canonical) ==
  LET H == AffectedRows(db, v, canonical)
      of(a) == {h \in H : Doc[h[1].sbom].artifact = a}
  IN {[id |-> a, sboms |-> Cardinality({h[1].sbom : h \in of(a)}),
       purls |-> Cardinality({h[2].purl : h \in of(a)})] : a \in {Doc[h[1].sbom].artifact : h \in H}}

ListAffectedComponentsByVuln(db, v, canonical) ==
  LET H == AffectedRows(db, v, canonical)
      of(k) == {h \in H : <<h[1].c.name, h[1].c.group>> = k}
  IN {[name |-> k[1], group |-> k[2],
       affected |-> {h[1].c.version : h \in of(k)} \ {None},
       purls |-> Cardinality({h[2].purl : h \in of(k)})] : k \in {<<h[1].c.name, h[1].c.group>> : h \in H}}

CountAffectedNamespacesByVuln(db, v, canonical) ==
  Cardinality({db.sbom[h[1].sbom].ns : h \in AffectedRows(db, v, canonical)})

ListTopVulnerabilities(db, v, owned) ==
  LET rows == {r \in db.rollup["vuln"] : r.ns \in Seen(db, v, owned)}
      of(c) == {r \in rows : r.canonical = c}
  IN {[canonical |-> c, id |-> CanonicalRecord(c),
       sboms |-> MapThenSumSet(LAMBDA r : r.sboms, of(c)),
       purls |-> Cardinality(UNION {r.purls : r \in of(c)})] : c \in {r.canonical : r \in rows}}

----------------------------------------------------------------------------
(* stats.sql.go *)

GetArtifactTypeCounts(db, v) ==
  LET seen == {a \in db.artifacts : artifact_visible(db, v, a)}
  IN {[type |-> t, artifacts |-> Cardinality({a \in seen : Artifact[a].type = t})] :
        t \in {Artifact[a].type : a \in seen}}

GetLicenseCategoryCounts(db, v) ==
  {[category |-> Category[l], components |-> IdentityCount(db, v, {k \in License : Category[k] = Category[l]})] :
     l \in {r.license : r \in RollupRows(db, v, "license")}}

(* Days on which something was first seen, with the running total. *)
Growth(rows) ==
  LET first(i) == Min({r.first : r \in {r \in rows : r.id = i}})
      ids == {r.id : r \in rows}
  IN {<<d, Cardinality({i \in ids : first(i) <= d})>> : d \in {first(i) : i \in ids}}

GetPackageGrowthTimeline(db, v) == Growth(RollupRows(db, v, "component"))
GetVersionGrowthTimeline(db, v) == Growth(RollupRows(db, v, "version"))

GetSBOMIngestionTimeline(db, v) ==
  {<<d, Cardinality({s \in VisibleSBOMs(db, v) : db.sbom[s].at = d})>> :
     d \in {db.sbom[s].at : s \in VisibleSBOMs(db, v)}}

(* license_count counts the license table. *)
GetSummaryCounts(db, v) ==
  LET libraries == {r \in RollupRows(db, v, "component") : r.id[3] = "library"}
  IN [artifacts |-> Cardinality({a \in db.artifacts : artifact_visible(db, v, a)}),
      sboms     |-> Cardinality(VisibleSBOMs(db, v)),
      packages  |-> Cardinality({r.id : r \in libraries}),
      versions  |-> Cardinality(UNION {{<<r.id, x>> : x \in r.versions} : r \in libraries}),
      licenses  |-> Cardinality(License)]

(* COALESCE(version, '') counts a NULL version as one more. *)
GetTopPackagesByVersionCount(db, v) ==
  LET all == RollupRows(db, v, "component")
      of(i) == {r \in all : r.id = i}
  IN {[id |-> i, versions |-> Cardinality(UNION {r.versions : r \in of(i)}),
       sboms |-> MapThenSumSet(LAMBDA r : r.sboms, of(i))] : i \in {r.id : r \in all}}

GetVulnStats(db, v) ==
  LET reachable == {r.canonical : r \in RollupRows(db, v, "vuln")}
  IN [b \in Severities \cup {"UNKNOWN"} |->
       Cardinality({c \in reachable : Bucket(Vuln[CanonicalRecord(c)].severity) = b})]

----------------------------------------------------------------------------
(* discover.sql.go: what anyone may see. *)

GetDiscoverLicenseSpread(db) ==
  {r \in ListLicenses(db, Anonymous) : r.components > 0}

GetDiscoverRecentArtifacts(db) ==
  {Newest(db, VisibleOf(db, Anonymous, a)) : a \in {Doc[s].artifact : s \in VisibleSBOMs(db, Anonymous)}}

(* One consumer's component uses the artifact: by purl base, by tuple when  *)
(* the artifact has no purl, or as the command of one of its Go modules.    *)
(* Identity qualifiers are not looked at: the count is a superset.          *)
DiscoverUsage(a, c) ==
  LET base == Artifact[a].base
  IN \/ base # <<>> /\ HasPurl(c) /\ c.base = base
     \/ base = <<>> /\ SameTuple(a, c)
     \/ /\ base # <<>> /\ Head(base) = "golang"
        /\ HasPurl(c) /\ c.file = Artifact[a].name
        /\ Len(c.base) >= 2 /\ IsStrictPrefix(c.base, base)

GetDiscoverTopArtifacts(db) ==
  LET latest == GetDiscoverRecentArtifacts(db)
      public(a) == VisibleOf(db, Anonymous, a)
      consumers(a) == {s \in latest : Doc[s].artifact # a /\ \E c \in Doc[s].components : DiscoverUsage(a, c)}
  IN {[id |-> a, usages |-> Cardinality({Doc[s].artifact : s \in consumers(a)}),
       versions |-> Cardinality({Doc[s].version : s \in public(a)}),
       sboms |-> Cardinality(public(a))] : a \in {Doc[s].artifact : s \in latest}}

GetDiscoverTopVulnerabilities(db) ==
  LET all == RollupRows(db, Anonymous, "vuln")
      of(c) == {r \in all : r.canonical = c}
      purls(c) == UNION {r.purls : r \in of(c)}
  IN {[canonical |-> c, sboms |-> MapThenSumSet(LAMBDA r : r.sboms, of(c)),
       artifacts |-> Cardinality({Doc[r.sbom].artifact :
         r \in {r \in Rows(VisibleSBOMs(db, Anonymous)) : HasPurl(r.c) /\ Purl(r.c) \in purls(c)}})] :
           c \in {r.canonical : r \in all}}

----------------------------------------------------------------------------
(* watch.sql.go, watch_feed.sql.go, source.sql.go, namespace.sql.go and    *)
(* provenance_drift.sql.go.                                                *)

IsArtifactWatched(db, user, a) == <<user, a>> \in db.watch

(* The count is over every SBOM of the artifact. *)
ListArtifactWatches(db, user) ==
  {[id |-> w[2], sboms |-> Cardinality(SBOMsOf(db, w[2]))] : w \in {w \in db.watch : w[1] = user}}

(* New versions, drift, and the findings of the newest SBOM by its own purls. *)
ListWatchedArtifactEvents(db, user, v) ==
  LET watched == {w[2] : w \in {w \in db.watch : w[1] = user}}
      sboms == UNION {VisibleOf(db, v, a) : a \in watched}
      latest == {Newest(db, VisibleOf(db, v, a)) : a \in {Doc[s].artifact : s \in sboms}}
      earlier(s) == {t \in sboms : Doc[t].artifact = Doc[s].artifact /\ db.sbom[t].at < db.sbom[s].at}
      own(s) == {<<Purl(c), c.set>> : c \in {c \in Doc[s].components : HasPurl(c)}}
  IN {[kind |-> "new_version", sbom |-> s,
       previous |-> IF earlier(s) = {} THEN None ELSE Doc[Newest(db, earlier(s))].version] : s \in sboms}
     \cup (UNION {{[kind |-> "drift", sbom |-> s, previous |-> d.to] : d \in Doc[s].drift} : s \in sboms})
     \cup (UNION {{[kind |-> "vulnerability", sbom |-> s, previous |-> Vuln[x].canonical] :
                     x \in VulnsIn(db, own(s))} : s \in latest})

ListNamespaces(db, v, owned) == Seen(db, v, owned)

ListSources(db, v, owned) == {q \in DOMAIN db.source : db.source[q].ns \in Seen(db, v, owned)}

ListProvenanceDriftBySBOM(s) == Doc[s].drift

GetLatestProvenanceDrift(s) == CHOOSE d \in Doc[s].drift : \A e \in Doc[s].drift : e.at <= d.at

ListRecentProvenanceDrift(db, v, owned) ==
  UNION {{[sbom |-> s, drift |-> d] : d \in Doc[s].drift} :
           s \in {s \in SBOMs(db) : db.sbom[s].ns \in Seen(db, v, owned)}}

CountOwnedPrivateNamespaces(db, user) ==
  Cardinality({n \in db.ns \ db.public : <<user, n>> \in db.members})
=============================================================================
