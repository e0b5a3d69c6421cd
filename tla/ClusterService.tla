--------------------------- MODULE ClusterService ---------------------------
(***************************************************************************)
(* The cluster pages: what a request about a cluster answers, and how the  *)
(* images that run without an SBOM are resolved to a registry and a job.   *)
(* Paging, sort order and clamped parameters are left out.                 *)
(*                                                                         *)
(* Ref[r] is what an image reference says: [host, path], host None when    *)
(* its first segment is no host, path the segments of the repository.      *)
(***************************************************************************)
EXTENDS SearchDiff, InventoryAgent

CONSTANT Ref

NoFilter == [k8s |-> None, state |-> None]

(* Served to a signed-in user who may see the cluster's namespace. *)
visibleCluster(db, v, k) ==
  v # Q!Anonymous /\ k \in Q!Clusters(db) /\ db.cluster[k].ns \in Q!visible_namespace_ids(db, v)

----------------------------------------------------------------------------
(* service/cluster.go *)

pagedInventory(count, rows) == [total |-> count, data |-> rows]

(* Findings only where an SBOM was matched. *)
FindingsOf(join) == IF join.state \in {"exact", "index"} THEN {join.vulns} ELSE {}

workloadFromRepo(r) == [row |-> r.row, join |-> [r.join EXCEPT !.vulns = FindingsOf(r.join)]]
imageFromRepo(r) == [r EXCEPT !.join.vulns = FindingsOf(r.join)]

ListWorkloads(db, v, k, f) ==
  pagedInventory(Q!CountClusterWorkloads(db, v, k, f),
                 {workloadFromRepo(r) : r \in Q!ListClusterWorkloads(db, v, k, f)})

ListImages(db, v, k, f) ==
  pagedInventory(Q!CountClusterImages(db, v, k, f), {imageFromRepo(r) : r \in Q!ListClusterImages(db, v, k, f)})

NamespaceFacets(db, v, k) == Q!ListClusterK8sNamespaces(db, v, k)
Coverage(db, v, k) == Q!GetClusterWorkloadCoverage(db, v, k)

RunningVulns(db, v, k, severity) ==
  pagedInventory(Q!CountClusterRunningVulns(db, v, k, severity), Q!ListClusterRunningVulns(db, v, k, severity))

WorkloadsForVulnerability(db, v, c, cluster) ==
  {workloadFromRepo(r) : r \in Q!ListWorkloadsForVulnerability(db, v, c, cluster)}

----------------------------------------------------------------------------
(* service/cluster_ingest.go *)

DockerHub == "registry-1.docker.io"

NormalizeRegistryHost(host) ==
  IF host \in {"docker.io", "index.docker.io", "hub.docker.com"} THEN DockerHub ELSE host

SplitImageRef(r) ==
  IF Ref[r].host = None THEN [host |-> None, repo |-> <<>>]
  ELSE [host |-> NormalizeRegistryHost(Ref[r].host), repo |-> Ref[r].path]

(* An empty list of repositories claims every one. *)
ClaimsRepository(reg, repo) == reg.repos = {} \/ repo \in reg.repos

(* The registry that pulls the image and the source its SBOM belongs to. *)
resolveIngestTarget(db, k, img) ==
  LET here == {q \in Q!ListRegistriesByNamespace(db, db.cluster[k].ns) :
                 NormalizeRegistryHost(db.registry[q].host) = img.host}
      enabled == {q \in here : db.registry[q].enabled}
      claims == {q \in enabled : ClaimsRepository(db.registry[q], img.repo)}
      first(S) == CHOOSE q \in S : \A x \in S : db.registry[q].created <= db.registry[x].created
      target(reason, registry, owner) == [reason |-> reason, registry |-> registry, owner |-> owner]
  IN IF img.host = None THEN target("unparseable_ref", None, None)
     ELSE IF claims # {} THEN target("ready", first(claims), first(claims))
     ELSE IF enabled # {} THEN target("ready", first(enabled), k)
     ELSE IF here # {} THEN target("registry_disabled", first(here), None)
     ELSE target("ready", None, k)

(* Mutant: a pruned job implies no more than a succeeded one. *)
ForgetDeleted(job) ==
  CASE job.state \in {"queued", "running"} -> "scanning"
    [] job.state = "failed" -> IF job.why \in {"unauthorized", "egress_denied"} THEN job.why ELSE "failed"
    [] OTHER -> None

jobStateReason(job) ==
  CASE job.state \in {"queued", "running"} -> "scanning"
    [] job.state = "pruned" -> "deleted"
    [] job.state = "failed" -> IF job.why \in {"unauthorized", "egress_denied"} THEN job.why ELSE "failed"
    [] OTHER -> None

jobReasonRank(r) ==
  CASE r = "deleted" -> 1 [] r = "failed" -> 2 [] r = "egress_denied" -> 3
    [] r = "unauthorized" -> 4 [] r = "scanning" -> 5 [] OTHER -> 0

(* The jobs under the image's attribution, by digest or by index. *)
applyJobs(db, img) ==
  LET jobs == {j \in Q!ListScanJobsForDigests(db, {img.digest}) : j[1] = img.owner}
      reasons == {jobStateReason(db.job[j]) : j \in jobs} \ {None}
  IN [img EXCEPT
        !.failed = {j \in jobs : jobStateReason(db.job[j]) \in {"unauthorized", "egress_denied", "failed"}},
        !.reason = IF reasons = {} THEN @
                   ELSE CHOOSE r \in reasons : \A x \in reasons : jobReasonRank(x) <= jobReasonRank(r)]

resolveUnknownImages(db, v, k) ==
  LET resolved(row, at, to) ==
        [ref |-> row.ref, digest |-> row.digest, workloads |-> row.workloads, pods |-> row.pods, failed |-> {},
         host |-> at.host, repo |-> at.repo, reason |-> to.reason, registry |-> to.registry, owner |-> to.owner]
      image(row) == resolved(row, SplitImageRef(row.ref), resolveIngestTarget(db, k, SplitImageRef(row.ref)))
      explained(img) == IF img.reason = "ready" THEN applyJobs(db, img) ELSE img
  IN {explained(image(row)) : row \in Q!ListClusterUnknownImages(db, v, k)}

onlyDigests(images, digests) == {i \in images : i.digest \in digests}

SingleTenantHosts == {"registry.k8s.io", "k8s.gcr.io", "mcr.microsoft.com"}
MultiTenantHosts ==
  {"ghcr.io", "quay.io", "docker.io", "index.docker.io", DockerHub, "gcr.io", "public.ecr.aws"}

(* How many leading segments of a repository belong to the registry.  The   *)
(* hosts known by a suffix are listed by example.                            *)
registryTenancyDepth(host) ==
  CASE host \in SingleTenantHosts -> 0
    [] host \in MultiTenantHosts -> 1
    [] host \in {"us-docker.pkg.dev", "europe-docker.pkg.dev"} -> 2
    [] host \in {"us.gcr.io", "eu.gcr.io", "asia.gcr.io"} -> 1
    [] OTHER -> 0

(* At least one segment stays behind as the image. *)
registryScope(host, repo) ==
  LET depth == Q!Min({registryTenancyDepth(host), Q!Max({Len(repo), 1}) - 1})
  IN <<host>> \o SubSeq(repo, 1, depth)

hostRemedyRank(r) == CASE r = "unauthorized" -> 3 [] r = "registry_disabled" -> 2 [] OTHER -> 0

(* The registries that would close the gap. *)
rollUpHosts(all) ==
  LET wanted == {i \in all : hostRemedyRank(i.reason) > 0}
      of(s) == {i \in wanted : registryScope(i.host, i.repo) = s}
  IN {[scope |-> s, images |-> Cardinality(of(s)), pods |-> Q!Pods(of(s)),
       workloads |-> Q!MapThenSumSet(LAMBDA i : i.workloads, of(s)),
       repos |-> {i.repo : i \in of(s)},
       reason |-> CHOOSE r \in {i.reason : i \in of(s)} : \A i \in of(s) : hostRemedyRank(i.reason) <= hostRemedyRank(r)] :
         s \in {registryScope(i.host, i.repo) : i \in wanted}}

UnknownImages(db, v, k) ==
  LET page(all) ==
        [images |-> pagedInventory(Cardinality(all), all),
         reasons |-> [r \in {i.reason : i \in all} |-> Cardinality({i \in all : i.reason = r})],
         hosts |-> rollUpHosts(all)]
  IN page(resolveUnknownImages(db, v, k))

----------------------------------------------------------------------------
(* api/cluster.go *)

GetCluster(db, v, k) == Answer(visibleCluster(db, v, k), db.cluster[k].ns)

(* The coverage travels with every listing. *)
listClusterInventory(db, v, k, page) ==
  Answer(visibleCluster(db, v, k), [page |-> page, coverage |-> Coverage(db, v, k)])

ListClusterWorkloads(db, v, k, f) == listClusterInventory(db, v, k, ListWorkloads(db, v, k, f))
ListClusterImages(db, v, k, f) == listClusterInventory(db, v, k, ListImages(db, v, k, f))
ListClusterVulns(db, v, k) == listClusterInventory(db, v, k, RunningVulns(db, v, k, None))
ListClusterNamespaces(db, v, k) == Answer(visibleCluster(db, v, k), NamespaceFacets(db, v, k))
ListClusterUnknownImages(db, v, k) == Answer(visibleCluster(db, v, k), UnknownImages(db, v, k))
ListVulnWorkloads(db, v, c) == WorkloadsForVulnerability(db, v, c, None)
=============================================================================
