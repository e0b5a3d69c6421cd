---------------------------- MODULE ClusterReads ----------------------------
(***************************************************************************)
(* The queries over what clusters report to run.  Conventions are those of *)
(* CatalogueReads.                                                         *)
(*                                                                         *)
(* db.cluster    cluster id -> [ns, seen, auto]                            *)
(* db.workload   cluster_workload: [cluster, k8s, workload, container,     *)
(*               digest, ref, pods, last]; digest None is a NULL digest    *)
(* db.registry   registry id -> [host, enabled, repos, created]            *)
(* db.job        scan_jobs: <<attribution, digest>> -> [state, index, why] *)
(*                                                                         *)
(* db.sbom[s].index is index_digest; digest is the SBOM's own name.        *)
(***************************************************************************)
EXTENDS SearchReads

MatchStates == {"exact", "index", "unknown", "unresolvable"}

Clusters(db) == DOMAIN db.cluster

ListClusters(db, v, owned) == {k \in Clusters(db) : db.cluster[k].ns \in Seen(db, v, owned)}
ListClustersByNamespace(db, n) == {k \in Clusters(db) : db.cluster[k].ns = n}

(* The rows of a cluster whose namespace the viewer can see. *)
Inventory(db, v, k) ==
  {w \in db.workload : w.cluster = k /\ db.cluster[k].ns \in visible_namespace_ids(db, v)}

----------------------------------------------------------------------------
(* The lateral join of a workload with an SBOM, whatever its namespace. *)

Matching(db, w) ==
  IF w.digest = None THEN {} ELSE {s \in SBOMs(db) : w.digest \in {s, db.sbom[s].index}}

(* The SBOM of that digest before the newest of that index. *)
Match(db, w) ==
  CASE Matching(db, w) = {} -> None
    [] w.digest \in Matching(db, w) -> w.digest
    [] OTHER -> Newest(db, Matching(db, w))

MatchState(db, w) ==
  IF Match(db, w) # None THEN IF Match(db, w) = w.digest THEN "exact" ELSE "index"
  ELSE IF w.digest = None THEN "unresolvable" ELSE "unknown"

(* By purl and symbol set alone, without the source package. *)
CarriedBy(db, s) ==
  VulnsIn(db, {<<Purl(c), c.set>> : c \in {c \in Doc[s].components : HasPurl(c)}})

RunningCounts(db, s) ==
  [b \in Severities |-> Cardinality({Finding(x) : x \in {x \in CarriedBy(db, s) : Vuln[x].severity = b}})]

(* The joined columns; None where no SBOM matched. *)
Joined(db, w) ==
  LET s == Match(db, w)
  IN [state |-> MatchState(db, w), sbom |-> s,
      artifact |-> IF s = None THEN None ELSE Doc[s].artifact,
      version  |-> IF s = None THEN None ELSE Doc[s].version,
      vulns    |-> IF s = None THEN [b \in Severities |-> 0] ELSE RunningCounts(db, s)]

----------------------------------------------------------------------------
(* f: the k8s_namespace and match_state filters. *)

Filtered(db, v, k, f) ==
  {w \in Inventory(db, v, k) : f.k8s \in {None, w.k8s} /\ f.state \in {None, MatchState(db, w)}}

ListClusterWorkloads(db, v, k, f) == {[row |-> w, join |-> Joined(db, w)] : w \in Filtered(db, v, k, f)}
CountClusterWorkloads(db, v, k, f) == Cardinality(Filtered(db, v, k, f))

ImageKey(w) == <<w.ref, w.digest>>
Pods(W) == MapThenSumSet(LAMBDA w : w.pods, W)

(* Grouped first; the state filter applies to the groups. *)
ListClusterImages(db, v, k, f) ==
  LET all == {w \in Inventory(db, v, k) : f.k8s \in {None, w.k8s}}
      of(i) == {w \in all : ImageKey(w) = i}
      one(i) == CHOOSE w \in of(i) : TRUE
  IN {[image |-> i, workloads |-> Cardinality(of(i)), pods |-> Pods(of(i)),
       namespaces |-> Cardinality({w.k8s : w \in of(i)}), join |-> Joined(db, one(i))] :
        i \in {ImageKey(w) : w \in {w \in all : f.state \in {None, MatchState(db, w)}}}}

CountClusterImages(db, v, k, f) == Cardinality({ImageKey(w) : w \in Filtered(db, v, k, f)})

ListClusterK8sNamespaces(db, v, k) ==
  {[k8s |-> n, workloads |-> Cardinality({w \in Inventory(db, v, k) : w.k8s = n})] :
     n \in {w.k8s : w \in Inventory(db, v, k)}}

GetClusterWorkloadCoverage(db, v, k) ==
  LET all == Inventory(db, v, k)
      matched == {w \in all : Matching(db, w) # {}}
  IN [total        |-> Cardinality(all),
      unresolvable |-> Cardinality({w \in all : w.digest = None}),
      unknown      |-> Cardinality({w \in all \ matched : w.digest # None}),
      matched      |-> Cardinality(matched),
      pods         |-> Pods(all)]

ListClusterUnknownImages(db, v, k) ==
  LET gap == {w \in Inventory(db, v, k) : w.digest # None /\ Matching(db, w) = {}}
      of(i) == {w \in gap : ImageKey(w) = i}
  IN {[ref |-> i[1], digest |-> i[2], workloads |-> Cardinality(of(i)), pods |-> Pods(of(i))] :
        i \in {ImageKey(w) : w \in gap}}

----------------------------------------------------------------------------
(* What runs with a vulnerability. *)

Running(db, v, k) ==
  UNION {{[workload |-> w, vuln |-> x] : x \in CarriedBy(db, Match(db, w))} :
           w \in {w \in Inventory(db, v, k) : Match(db, w) # None}}

(* severity is compared with each record. *)
CountClusterRunningVulns(db, v, k, severity) ==
  Cardinality({Finding(r.vuln) : r \in {r \in Running(db, v, k) : severity \in {None, Vuln[r.vuln].severity}}})

(* severity is compared with the worst record of the finding. *)
ListClusterRunningVulns(db, v, k, severity) ==
  LET run == Running(db, v, k)
      records(c) == {x \in {r.vuln : r \in run} : Finding(x) = c}
      worst(c) == CHOOSE x \in records(c) : \A y \in records(c) :
                    \/ Rank(Vuln[x].severity) > Rank(Vuln[y].severity)
                    \/ /\ Rank(Vuln[x].severity) = Rank(Vuln[y].severity)
                       /\ Vuln[x].score >= Vuln[y].score
  IN {[id |-> worst(c), canonical |-> c,
       workloads |-> Cardinality({r.workload : r \in {r \in run : Finding(r.vuln) = c}})] :
        c \in {c \in {Finding(r.vuln) : r \in run} : severity \in {None, Vuln[worst(c)].severity}}}

(* cluster: None for every cluster the viewer can see. *)
ListWorkloadsForVulnerability(db, v, c, cluster) ==
  UNION {{[row |-> r.workload, join |-> Joined(db, r.workload)] :
            r \in {r \in Running(db, v, k) : Finding(r.vuln) = c}} :
              k \in {k \in Clusters(db) : cluster \in {None, k}}}

----------------------------------------------------------------------------
(* registry.sql.go, scan_jobs.sql.go *)

(* ORDER BY created_at. *)
(* By created_at: the caller takes the first. *)
ListRegistriesByNamespace(db, n) == {q \in DOMAIN db.registry : db.source[q].ns = n}

ListScanJobsForDigests(db, D) == {j \in DOMAIN db.job : j[2] \in D \/ db.job[j].index \in D}
=============================================================================
