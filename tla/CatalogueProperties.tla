------------------------ MODULE CatalogueProperties ------------------------
(***************************************************************************)
(* What the catalogue promises.  The read properties evaluate the service  *)
(* methods on every database the writes reach.                             *)
(***************************************************************************)
EXTENDS Clusters

H == INSTANCE SearchAPI

SignedIn(u) == [id |-> u, role |-> "member"]
Admin == [id |-> None, role |-> "admin"]
Contexts == {H!Nobody, Admin} \cup {SignedIn(u) : u \in User}

Marks == {NoMark} \cup (Nat \X Nat)
Steps == {"resolved", "written"}

(* Every table holds only keys of the tables it references, whatever the    *)
(* cascades of a delete, a late ingest or a swap of old snapshots did; the  *)
(* temporary tables belong to the one replica that holds the lock.           *)
TypeOK ==
  /\ ForeignKeys(db)
  /\ \A i \in ingest : i.step \in Steps
  /\ \A r \in Replica : replica[r].seen \in Marks /\ replica[r].last \in Marks
  /\ Cardinality({r \in Replica : replica[r].step = "pass"}) <= 1
  /\ built # <<>> => \E r \in Replica : replica[r].step = "pass"

----------------------------------------------------------------------------
(* The database as it would be if it held only what v may see. *)
Restricted(d, v) ==
  LET N == Q!visible_namespace_ids(d, v)
      S == Q!VisibleSBOMs(d, v)
  IN [d EXCEPT !.ns = N, !.public = @ \cap N,
               !.members = {m \in @ : m[2] \in N},
               !.sbom = Restrict(@, S),
               !.source = Restrict(@, {q \in DOMAIN @ : @[q].ns \in N \/ \E s \in S : d.sbom[s].source = q}),
               !.artifacts = {a \in @ : Q!artifact_visible(d, v, a)},
               !.links = {l \in @ : l[2] \in N},
               !.registry = Restrict(@, {q \in DOMAIN @ : d.source[q].ns \in N}),
               !.cluster = Restrict(@, {k \in DOMAIN @ : @[k].ns \in N}),
               !.workload = {w \in @ : d.cluster[w.cluster].ns \in N},
               !.rollup = [t \in Q!Tables |-> {row \in @[t] : IF t = "sbomVuln" THEN row.sbom \in S ELSE row.ns \in N}]]

Everything == [name |-> None, group |-> None, version |-> None, type |-> None]
AnySBOM == [digest |-> None, artifact |-> None, version |-> None, arch |-> None, flavor |-> None]

WholeLog == [version |-> None, arch |-> None, flavor |-> None, mode |-> "auto", page |-> [limit |-> 0, offset |-> 0]]

(* The answers about the artifacts A and the SBOMs T. *)
ArtifactAnswers(d, ctx, A) ==
  [a \in A |->
    [counts |-> {<<x.sboms, x.sufficient, x.versions, x.watched>> : x \in H!GetArtifact(d, ctx, a).body},
     versions |-> H!ListArtifactVersions(d, ctx, a, "auto"), log |-> H!GetArtifactChangelog(d, ctx, a, WholeLog),
     vulns |-> H!ListArtifactVulns(d, ctx, a, 0), sboms |-> H!ListArtifactSBOMs(d, ctx, a),
     usages |-> H!GetArtifactUsages(d, ctx, a), contains |-> H!GetArtifactContains(d, ctx, a)]]

SBOMAnswers(d, ctx, T) ==
  [s \in T |->
    [sbom |-> H!GetSBOM(d, ctx, s), drift |-> H!ListSBOMDriftHistory(d, ctx, s), vulns |-> H!ListSBOMVulns(d, ctx, s),
     graph |-> H!GetSBOMDependencies(d, ctx, s), page |-> H!ListSBOMComponents(d, ctx, s),
     digest |-> ListSBOMsByDigest(d, H!visibilityFilterFromContext(ctx), s),
     details |-> {<<c, H!GetComponent(d, ctx, s, c), H!GetComponentVulns(d, ctx, s, c)>> : c \in Doc[s].components}]]

ListAnswers(d, ctx) ==
  LET v == H!visibilityFilterFromContext(ctx)
  IN [artifacts |-> {x.total : x \in H!ListArtifacts(d, ctx, TRUE).body},
      owned     |-> {x.total : x \in H!ListMyArtifacts(d, ctx, TRUE).body},
      sboms     |-> H!ListSBOMs(d, ctx), lookup |-> LookupSBOM(d, v, AnySBOM),
      names     |-> {LookupArtifact(d, v, Artifact[a].name) : a \in DOMAIN Artifact},
      drift     |-> ListRecentProvenanceDrift(d, v, FALSE), activity |-> ListOwnedActivity(d, v.user),
      search    |-> {H!SearchComponents(d, ctx, [Everything EXCEPT !.name = n], <<>>) : n \in {"ssl", None}},
      distinct  |-> H!SearchDistinctComponents(d, ctx),
      versions  |-> H!GetComponentVersions(d, ctx, Everything),
      summaries |-> H!ListComponentVersionSummaries(d, ctx, Everything),
      types     |-> H!ListComponentPurlTypes(d, ctx), licenses |-> H!ListLicenses(d, ctx),
      licensed  |-> [l \in DOMAIN Category |-> <<H!ListComponentsByLicense(d, ctx, l), LookupLicense(d, v, l)>>],
      top       |-> <<H!ListTopVulnerabilities(d, ctx), H!ListMyVulnerabilities(d, ctx)>>,
      details   |-> [x \in DOMAIN Vuln |-> H!GetVulnerability(d, ctx, x)],
      spaces    |-> Q!ListNamespaces(d, v, FALSE), sources |-> Q!ListSources(d, v, FALSE),
      feed      |-> Feed(d, v), stats |-> H!GetDashboardStats(d, ctx), discovery |-> H!GetDiscovery(d)]

(* The cluster pages show the SBOM an image matches in whatever namespace,  *)
(* so the hidden ones stay.                                                  *)
ClusterAnswers(d, v, K) ==
  [clusters |-> [k \in K |->
     [workloads |-> ListClusterWorkloads(d, v, k, NoFilter), images |-> ListClusterImages(d, v, k, NoFilter),
      vulns |-> ListClusterVulns(d, v, k), facets |-> ListClusterNamespaces(d, v, k),
      gap |-> ListClusterUnknownImages(d, v, k)]],
   list  |-> Q!ListClusters(d, v, FALSE),
   vulns |-> [x \in DOMAIN Vuln |-> ListVulnWorkloads(d, v, Q!Finding(x))]]

(* The reads look at db alone: it is examined between transactions, and     *)
(* before the refreshers have run.                                           *)
Quiet == ingest = {} /\ sweep.ids = {} /\ (\A i \in Request : request[i] = Free) /\ \A r \in Replica : replica[r] = Idle

(* What a viewer is told depends on nothing that viewer may not see: every  *)
(* reply is the one a database without the other namespaces would give, and *)
(* what is hidden is not found, also when only one side of a diff is.       *)
(* Moves, visibility and membership changes, deletes and stale rollups      *)
(* happen in between.  The artifact list's counts, the signing status, the  *)
(* license summary and the badge of an artifact range over all its SBOMs    *)
(* and are left out.                                                         *)
ReadsScoped ==
  Quiet => \A ctx \in Contexts \ {Admin} :
    LET v == H!visibilityFilterFromContext(ctx)
        A == {a \in db.artifacts : Q!artifact_visible(db, v, a)}
        T == Q!VisibleSBOMs(db, v)
        K == {k \in Q!Clusters(db) : visibleCluster(db, v, k)}
        Same(answers) == Cardinality(answers) = 1
        both == {db, Restricted(db, v)}
        missing(replies) == \A r \in replies : r.status = 404
    IN /\ Same({ArtifactAnswers(d, ctx, A) : d \in both})
       /\ Same({SBOMAnswers(d, ctx, T) : d \in both})
       /\ Same({ListAnswers(d, ctx) : d \in both})
       /\ Same({ClusterAnswers([d EXCEPT !.sbom = db.sbom], v, K) : d \in both})
       /\ \A k \in Q!Clusters(db) \ K :
            GetCluster(db, v, k) = {} /\ ListClusterWorkloads(db, v, k, NoFilter) = {}
       /\ \A a \in db.artifacts \ A :
            missing({H!GetArtifact(db, ctx, a), H!ListArtifactVulns(db, ctx, a, 0), H!GetArtifactUsages(db, ctx, a),
                     H!GetArtifactContains(db, ctx, a), H!GetArtifactVulnSummary(db, ctx, a),
                     H!GetArtifactLicenseSummary(db, ctx, a), H!GetArtifactChangelog(db, ctx, a, WholeLog)})
       /\ \A s \in Q!SBOMs(db) \ T :
            /\ missing({H!GetSBOM(db, ctx, s), H!ListSBOMVulns(db, ctx, s), H!GetSBOMDependencies(db, ctx, s)})
            /\ \A t \in Q!SBOMs(db) :
                 missing({H!DiffSBOMs(db, ctx, s, t), H!DiffSBOMs(db, ctx, t, s), H!GetDiffTree(db, ctx, t, s)})

----------------------------------------------------------------------------
Refreshed(d) == [d EXCEPT !.rollup = [t \in Q!Tables |-> Q!Aggregate(d, t)]]

(* The pages of one cluster: the totals are the lengths of the lists, the    *)
(* coverage adds up over the state filters, the image and facet counts over  *)
(* the workloads, the gap is the images without a match, and a finding's      *)
(* workload count is what its own page lists.                                 *)
ClusterPagesAgree(d, v, k) ==
  LET sum(f(_), S) == Q!MapThenSumSet(f, S)
      states == {None} \cup Q!MatchStates
      page(list) == list.total = Cardinality(list.data)
      covered(cover, total) ==
        /\ cover.total = total[None] /\ cover.total = cover.matched + cover.unknown + cover.unresolvable
        /\ cover.matched = total["exact"] + total["index"]
        /\ cover.unknown = total["unknown"] /\ cover.unresolvable = total["unresolvable"]
      listed(work, images) ==
        /\ \A state \in states :
             /\ page(work[state]) /\ page(images[state])
             /\ work[state].total = sum(LAMBDA x : x.workloads, images[state].data)
        /\ covered(Coverage(d, v, k), [state \in states |-> work[state].total])
        /\ Coverage(d, v, k).pods = sum(LAMBDA x : x.pods, images[None].data)
        /\ work[None].total = sum(LAMBDA x : x.workloads, NamespaceFacets(d, v, k))
        /\ {<<x.ref, x.digest>> : x \in UnknownImages(d, v, k).images.data} = {x.image : x \in images["unknown"].data}
      affected(vulns) ==
        /\ page(vulns)
        /\ \A x \in vulns.data : x.workloads = Cardinality(WorkloadsForVulnerability(d, v, x.canonical, k))
      in(state) == [NoFilter EXCEPT !.state = state]
  IN /\ listed([state \in states |-> ListWorkloads(d, v, k, in(state))],
               [state \in states |-> ListImages(d, v, k, in(state))])
     /\ affected(RunningVulns(d, v, k, None))

(* A relation's query returns only some of its rows.                        *)
UsagesCut(d, v, a) ==
  LET rows == Q!ListArtifactUsages(d, v, a, modulePurlBases(Artifact[a].base))
  IN Q!Limited(rows, RelationLimit) # {rows}
ContainsCut(d, v, a) ==
  LET rows == Q!ListArtifactContains(d, v, a)
  IN Q!Limited(rows, RelationLimit) # {rows}

(* A list backed by a rollup and the page it leads to: a license's count    *)
(* and its components, an SBOM's badge and its findings, a vulnerability's   *)
(* totals and its page, a package's counts and its versions, what contains   *)
(* an artifact and where it is used, the artifact list and its total.  Of a  *)
(* relation only a side whose query fills its rows may miss what the other   *)
(* side shows: the rows are cut before the exact identities are compared.    *)
PagesAgree(d, ctx) ==
  LET v == H!visibilityFilterFromContext(ctx)
      only(reply) == CHOOSE x \in reply.body : TRUE
      licensed(r) == r.l.components = Cardinality({x.c : x \in only(H!ListComponentsByLicense(d, ctx, r.l.license))})
      vulnerability(r, page) ==
        /\ r.sboms = Q!MapThenSumSet(LAMBDA y : y.sboms, page.artifacts)
        /\ page.namespaces = Cardinality({y \in Q!RollupRows(d, v, "vuln") : y.canonical = r.canonical})
      counted(r, counts) == r.versions = counts.versions /\ r.sboms = counts.sboms
      filter(r) == [name |-> r.id[1], group |-> r.id[2], version |-> None, type |-> r.id[3]]
      contains(a) == H!GetArtifactContains(d, ctx, a).body
      usages(b) == H!GetArtifactUsages(d, ctx, b).body
      related(a, b) ==
        \A X \in contains(a), Y \in usages(b) :
          LET contained == \E r \in X : r.artifact = b
              used == \E r \in Y : r.r.artifact = a
          IN /\ contained => used \/ UsagesCut(d, v, b)
             /\ used => contained \/ ContainsCut(d, v, a)
      whole(list) == list.total = Cardinality(list.data)
  IN /\ \A r \in only(H!ListLicenses(d, ctx)) : licensed(r)
     /\ \A s \in Q!VisibleSBOMs(d, v) : only(H!GetSBOM(d, ctx, s)).vulns = Q!RollupCounts(d, s)
     /\ \A r \in only(H!ListTopVulnerabilities(d, ctx)) : vulnerability(r, only(H!GetVulnerability(d, ctx, r.id)))
     /\ \A r \in only(H!SearchDistinctComponents(d, ctx)) :
          r.id[2] # None => counted(r, only(H!GetComponentVersions(d, ctx, filter(r))).counts)
     /\ \A a, b \in {a \in d.artifacts : Q!artifact_visible(d, v, a)} : related(a, b)
     /\ \A all \in BOOLEAN : whole(only(H!ListArtifacts(d, ctx, all)))

(* The diffs of two SBOMs, in whatever order the rows and the keys came:    *)
(* what was added less what was removed is what the new side has more, and   *)
(* every package is reported once.                                           *)
DiffsAddUp(d) ==
  LET keys(s) == Cardinality({componentKey(c) : c \in Q!ListSBOMPackages(s)})
  IN \A s, t \in Q!SBOMs(d) : \A x \in H!GetDiffTree(d, Admin, s, t).body :
       /\ x.entry.summary["added"] + keys(s) = x.entry.summary["removed"] + keys(t)
       /\ \A y, z \in x.entry.changes :
            y # z => y.c # z.c /\ y.previous \cap ({z.c} \cup z.previous) = {}

(* The tree draws each change of the new side at its own package, and an     *)
(* SBOM compared with itself is unchanged.                                   *)
TreesAgree(d) ==
  \A s, t \in Q!SBOMs(d) : \A x \in H!GetDiffTree(d, Admin, s, t).body :
    /\ \A n \in x.at : n[1].type # "removed" => \E p \in n[2] : componentKey(p) = componentKey(n[1].c)
    /\ s = t => x.entry.changes = {}

(* A changelog of one architecture page by page is the whole of it.  Where   *)
(* none is asked for or preferred each page is one of some architecture's    *)
(* changelog, so that two pages need not be of the same.                     *)
LogsPaged(logs) ==
  LET whole(arch) == logs[arch, 100, 0]
      arches == UNION {x.arches : x \in whole(None)}
      entry(x, i) == IF i \in DOMAIN x.entries THEN <<x.entries[i]>> ELSE <<>>
      paged(x, arch) ==
        /\ Len(x.entries) = Q!Min({x.total, 100})
        /\ \A i \in 1 .. Q!Min({x.total + 1, 100}) : {y.entries : y \in logs[arch, 1, i - 1]} = {entry(x, i)}
  IN /\ \A arch \in arches \ {None} : Cardinality(whole(arch)) = 1 /\ \A x \in whole(arch) : paged(x, arch)
     /\ arches # {} => whole(None) \subseteq UNION {whole(arch) : arch \in arches}
     /\ \A i \in UNION {DOMAIN x.entries : x \in whole(None)} :
          {y.entries : y \in logs[None, 1, i - 1]} = {entry(x, i) : x \in whole(None)}

(* The pages of a changelog fit, and each entry is the diff of the page that *)
(* compares its two SBOMs.                                                   *)
LogAgrees(d, ctx, a) ==
  LET arches == {None} \cup {Doc[s].arch : s \in DOMAIN Doc}
      asked(arch, limit, offset) ==
        [WholeLog EXCEPT !.arch = arch, !.page = [limit |-> limit, offset |-> offset]]
      compared(e) == e.diffs = {y.entry : y \in H!GetDiffTree(d, ctx, e.from, e.to).body}
      agree(logs) ==
        /\ LogsPaged(logs)
        /\ \A arch \in arches : \A x \in logs[arch, 100, 0] : \A i \in DOMAIN x.entries : compared(x.entries[i])
  IN agree([arch \in arches, limit \in {1, 100}, offset \in Nat |->
              H!GetArtifactChangelog(d, ctx, a, asked(arch, limit, offset)).body])

(* The public usage count of an artifact is at least what its own page      *)
(* lists.  Unless the page's rows are cut it exceeds that by exactly the     *)
(* artifacts that hold a package of the same purl base under other identity  *)
(* qualifiers, which the page leaves out.                                    *)
DiscoveryAgrees(d) ==
  \A r \in {r \in Q!GetDiscoverTopArtifacts(d) : visibleArtifact(d, Q!Anonymous, r.id)} :
    \A X \in GetArtifactUsages(d, Q!Anonymous, r.id) :
      LET listed == {x.r.artifact : x \in X}
          rows == Q!ListArtifactUsages(d, Q!Anonymous, r.id, modulePurlBases(Artifact[r.id].base))
          others == {x.artifact : x \in {x \in rows : Q!HasPurl(x.c) /\ x.c.base = Artifact[r.id].base}}
      IN /\ Cardinality(listed) <= r.usages
         /\ UsagesCut(d, Q!Anonymous, r.id) \/ r.usages = Cardinality(listed \cup others)

(* A viewer's statistics are those of the scope they are kept under.         *)
StatisticsAgree(d, v) == WarmDashboardStats(d, v) = WarmDashboardStats(d, normalizeStatsScope(d, v))

(* The pages that show one fact by different queries over different tables  *)
(* agree once the rollups are refreshed, and so do the public discovery      *)
(* counts and the anonymous view, and the statistics a viewer shares with    *)
(* the anonymous scope and their own.                                        *)
ReadsAgree ==
  Quiet => LET d == Refreshed(db) IN DiffsAddUp(d) /\ TreesAgree(d) /\ DiscoveryAgrees(d) /\ \A ctx \in Contexts :
    LET v == H!visibilityFilterFromContext(ctx)
    IN /\ PagesAgree(d, ctx) /\ StatisticsAgree(d, v)
       /\ \A a \in {a \in d.artifacts : Q!artifact_visible(d, v, a)} : LogAgrees(d, ctx, a)
       /\ \A k \in {k \in Q!Clusters(d) : visibleCluster(d, v, k)} : ClusterPagesAgree(d, v, k)

----------------------------------------------------------------------------
(* An artifact is linked to every namespace that holds one of its SBOMs, so *)
(* whoever may see the SBOM may see its artifact.  The one way to lose a    *)
(* link is a move that empties a namespace of the artifact while an ingest  *)
(* through another source, which found the link and relies on it, is open.  *)
LinksFollowSBOMs == LinkedBut(db, lost)

(* A retention sweep never takes the newest version of a series as it is    *)
(* when the batch is deleted, nor an image that has meanwhile started to    *)
(* run, is being enriched or is less than a day old.                         *)
SeriesKept ==
  [][sweep.ids # {} /\ sweep' # sweep =>
       \A s \in Q!SBOMs(db) \ Q!SBOMs(db') :
         /\ s \notin busy \cup young /\ ~IsRunning(db, s)
         /\ \E t \in Q!SBOMs(db') : Series(db, t) = Series(db, s) /\ db.sbom[s].at < db.sbom[t].at]_vars

(* While some replica runs the refresher the rollups catch up with the      *)
(* last write, also one that leaves the watermark alone, and in spite of a  *)
(* pass that failed, was skipped or was built over deleted rows.             *)
RollupsCatchUp ==
  <>[](budget.up # {} => \A t \in Q!Tables : db.rollup[t] = Q!Aggregate(db, t))

----------------------------------------------------------------------------
RowsOf(k) ==
  {[k8s |-> w.k8s, workload |-> w.workload, container |-> w.container, digest |-> w.digest,
    ref |-> w.ref, pods |-> w.pods] : w \in {w \in db.workload : w.cluster = k}}

(* Once a cluster's pods stop changing its inventory becomes and stays what *)
(* the agent sees, although pushes were lost, overlapped, were delayed past *)
(* a newer one and committed in either order.                               *)
InventoryHeals ==
  <>[](\A k \in DOMAIN pods \cap Q!Clusters(db) : RowsOf(k) = buildSnapshot(pods[k]))

(* A digest no scan can give an SBOM: its manifest is no image, or every    *)
(* platform of the index is stored, under another index or none.            *)
Unscannable(digest) ==
  \/ Manifest[digest].kind = "other"
  \/ Manifest[digest].kind = "index" /\ Manifest[digest].platforms \subseteq Q!SBOMs(db)

(* Every image an auto-ingesting cluster runs ends up with an SBOM or with  *)
(* a reason why not: it is not asked for again and again, nor forgotten     *)
(* after a lost call, a failed scan, a delete or an overlapping run.         *)
GapSettles ==
  <>[](\A k \in {k \in DOMAIN pods \cap Q!Clusters(db) : db.cluster[k].auto} :
         \A img \in resolveUnknownImages(db, Insider, k) :
           img.reason \notin {"ready", "scanning"} \/ Unscannable(img.digest))
=============================================================================
