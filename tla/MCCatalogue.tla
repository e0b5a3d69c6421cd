---------------------------- MODULE MCCatalogue ----------------------------
(***************************************************************************)
(* An instance of the catalogue for TLC: two namespaces, one of them       *)
(* private to a member, three sources, a Go command with several versions, *)
(* a container that ships it and a package that both hold.                 *)
(***************************************************************************)
EXTENDS CatalogueProperties

Qualifier(name, value) == [name |-> name, value |-> value, release |-> "none"]

Artifacts ==
  [app |-> [type |-> "application", name |-> "app", group |-> "none", base |-> <<"golang", "acme", "mod", "app">>,
            quals |-> {}, place |-> 2],
   img |-> [type |-> "container", name |-> "img", group |-> "none", base |-> <<>>, quals |-> {}, place |-> 3],
   lib |-> [type |-> "library", name |-> "acme-ssl", group |-> "none", base |-> <<"deb", "ssl">>,
            quals |-> {Qualifier("arch", "amd64"), Qualifier("distro", "debian")}, place |-> 1]]

Component(name, group, version, base) ==
  [type |-> "library", name |-> name, group |-> group, version |-> version, base |-> base, quals |-> {},
   source |-> <<>>, set |-> 0, licenses |-> {"MIT"}, file |-> "none", ref |-> name, layer |-> 0, stem |-> "none", rank |-> 0]

debian(arch, release) == {Qualifier("arch", arch), [Qualifier("distro", "debian") EXCEPT !.release = release]}
ssl(version, arch) ==
  [Component("ssl", "os", version, <<"deb", "ssl">>) EXCEPT
     !.quals = debian(arch, version) \cup {Qualifier("checksum", version)}, !.source = <<<<"deb", "openssl">>, version, {}>>, !.licenses = {"MIT", "GPL"}, !.layer = 1,
     !.rank = IF version = "1" THEN 1 ELSE 2]
main == [Component("mod", "acme", "2", <<"golang", "acme", "mod">>) EXCEPT !.file = "app", !.set = 1]
go(name, rank) == [Component(name, "os", name, <<"apk", name>>) EXCEPT !.stem = "go", !.rank = rank]
inner == [Component("img", "none", "none", <<>>) EXCEPT !.type = "container"]

Document(artifact, version, semver, components) ==
  [artifact |-> artifact, version |-> version, image |-> "none", semver |-> semver, arch |-> "amd64",
   flavor |-> "none", sufficient |-> TRUE, signing |-> "signed", components |-> components,
   depends |-> {<<"mod", "ssl">>}, root |-> "none", drift |-> {[to |-> "signed", at |-> 1]},
   layers |-> {0, 1}, hasBase |-> TRUE, built |-> 0]

Library(version, semver, arch, components) == [Document("lib", version, semver, components) EXCEPT !.arch = arch]

Docs ==
  [d1 |-> Document("app", "1.0", 1, {ssl("1", "amd64"), go("go1", 1)}),
   d2 |-> Document("app", "2.0", 2, {ssl("2", "amd64"), inner, go("go3", 3)}),
   d3 |-> Document("img", "latest", 0, {main, ssl("1", "amd64"), go("go1", 1), go("go2", 2)}),
   d4 |-> Library("1.0", 1, "riscv64", {go("go1", 1)}),
   d5 |-> Library("2.0", 2, "riscv64", {go("go2", 2)}),
   d6 |-> Library("3.0", 3, "ppc64le", {go("go1", 1), main}),
   d7 |-> Document("app", "3.0", 3, {ssl("1", "arm64")})]

Vulns ==
  [x1 |-> [canonical |-> "c1", severity |-> "HIGH", score |-> 7, modified |-> 1, aliases |-> {}],
   x2 |-> [canonical |-> "c1", severity |-> "CRITICAL", score |-> 9, modified |-> 2, aliases |-> {"x3"}],
   x3 |-> [canonical |-> "c3", severity |-> "none", score |-> 1, modified |-> 1, aliases |-> {}]]

Categories == [MIT |-> "permissive", GPL |-> "copyleft"]

Matches ==
  {[purl |-> Q!Purl(ssl("1", "amd64")), set |-> 0, vuln |-> "x1"],
   [purl |-> <<<<"deb", "openssl">>, "1", {}>>, set |-> 0, vuln |-> "x3"],
   [purl |-> Q!Purl(main), set |-> 1, vuln |-> "x2"]}

NoRollups == [t \in {"component", "version", "license", "licenseComponent", "vuln", "sbomVuln"} |-> {}]

Row(ns, source, at) == [ns |-> ns, source |-> source, at |-> at, index |-> "none"]

Database(sboms, links, match, watch) ==
  [ns |-> {"n1", "n2"}, public |-> {"n1"}, members |-> {<<"u", "n2">>},
   source |-> [q1 |-> [ns |-> "n1", kind |-> "oci_registry"], q2 |-> [ns |-> "n1", kind |-> "upload"],
               q3 |-> [ns |-> "n2", kind |-> "upload"]],
   sbom |-> sboms, artifacts |-> {l[1] : l \in links}, links |-> links, match |-> match,
   watch |-> watch, rollup |-> NoRollups, window |-> <<>>,
   cluster |-> <<>>, workload |-> {}, registry |-> <<>>, job |-> <<>>]

Mixed == Database([d1 |-> Row("n1", "q1", 1), d3 |-> Row("n2", "q3", 2)],
                  {<<"app", "n1">>, <<"img", "n2">>}, Matches, {<<"u", "app">>})
Uploads == Database([d1 |-> Row("n1", "q2", 1), d2 |-> Row("n1", "q2", 2)], {<<"app", "n1">>}, {}, {})
Walked == Database([d1 |-> Row("n1", "q1", 1), d2 |-> Row("n1", "q1", 2)], {<<"app", "n1">>}, {}, {})

Crowded == Database([s \in DOMAIN Docs \ {"d2"} |-> Row("n1", "q2", CHOOSE i \in 1 .. 6 : <<"d1", "d3", "d4", "d5", "d6", "d7">>[i] = s)],
                    {<<"app", "n1">>, <<"img", "n1">>, <<"lib", "n1">>}, {}, {})

Single == [Database([d1 |-> Row("n1", "q1", 1)], {<<"app", "n1">>}, Matches, {}) EXCEPT !.source = Restrict(@, {"q1"})]

----------------------------------------------------------------------------
(* What the clusters run. *)

Refs ==
  [app |-> [host |-> "ghcr.io", path |-> <<"acme", "app">>],
   tool |-> [host |-> "ghcr.io", path |-> <<"acme", "tool">>],
   web |-> [host |-> "docker.io", path |-> <<"library", "web">>],
   local |-> [host |-> "none", path |-> <<>>]]

Held(kind, platforms, private) == [kind |-> kind, platforms |-> platforms, private |-> private]

Manifests ==
  [d1 |-> Held("image", {}, TRUE), i1 |-> Held("index", {"d2", "d3"}, FALSE), d3 |-> Held("image", {}, FALSE),
   x1 |-> Held("egress_denied", {}, FALSE), o1 |-> Held("other", {}, FALSE)]

Container(name, ref, digest) ==
  [name |-> name, image |-> ref, spec |-> ref, id |-> [scheme |-> digest = "none", at |-> FALSE, digest |-> digest]]

Pod(name, owner, containers) ==
  [ns |-> "default", name |-> name, running |-> TRUE, owner |-> owner, containers |-> containers]

Deployed(name, containers) ==
  {Pod(p, [kind |-> "ReplicaSet", name |-> "rs", stem |-> name], containers) : p \in {"p1", "p2"}}
Loose(name, containers) == {Pod(name, [kind |-> "none", name |-> "none", stem |-> "none"], containers)}

Old == Deployed("app", {Container("main", "app", "d1")})
New == Deployed("app", {Container("main", "web", "i1")})
Refused == Loose("job", {Container("main", "tool", "x1")})
Odd == Deployed("app", {Container("main", "app", "d1"), Container("side", "local", "none")})
         \cup Loose("job", {Container("main", "web", "o1")})

Cluster(ns) == [ns |-> ns, seen |-> 0, auto |-> TRUE]

WithClusters(d) ==
  [d EXCEPT !.source = @ @@ [k1 |-> [ns |-> "n1", kind |-> "cluster"], k2 |-> [ns |-> "n2", kind |-> "cluster"]],
            !.cluster = [k1 |-> Cluster("n1"), k2 |-> Cluster("n2")],
            !.workload = {[cluster |-> "k2", k8s |-> "default", workload |-> <<"Job", "j">>, container |-> "main",
                           digest |-> "d3", ref |-> "web", pods |-> 1, last |-> 0]},
            !.registry = [q1 |-> [host |-> "ghcr.io", enabled |-> TRUE, repos |-> {<<"acme", "app">>}, created |-> 1]]]

Silent(d) == [d EXCEPT !.cluster["k1"].auto = FALSE]
Fresh == Database(<<>>, {}, Matches, {})

(* The API alone, with fewer kinds of writes and with all of them; the       *)
(* sweeper over uploads and over a walked registry; the refresher of two     *)
(* replicas, without and with a failure, and of one; a cluster that reports  *)
(* only, three that ingest too, one whose registry changes, one beside the   *)
(* sweeper; versions and architectures of a package others hold.             *)
Scenarios ==
  {[db |-> Refreshed(Mixed), up |-> {}, docs |-> {"d1", "d2", "d3"}, young |-> {}, writes |-> 3, faults |-> 0, pods |-> <<>>,
    kinds |-> {"ingest", "delete", "namespace", "move", "visibility", "member"}],
   [db |-> Refreshed(Mixed), up |-> {}, docs |-> {"d1", "d2", "d3"}, young |-> {}, writes |-> 2, faults |-> 0, pods |-> <<>>,
    kinds |-> {"ingest", "delete", "namespace", "source", "move", "visibility", "member", "watch", "feed"}],
   [db |-> Uploads, up |-> {}, docs |-> {"d1", "d2", "d3"}, young |-> {"d1", "d2"}, writes |-> 3, faults |-> 1, pods |-> <<>>,
    kinds |-> {"sweep", "delete", "report", "day"}],
   [db |-> Walked, up |-> {}, docs |-> {"d1", "d2"}, young |-> {}, writes |-> 3, faults |-> 1, pods |-> <<>>,
    kinds |-> {"sweep", "delete", "walk", "ingest"}],
   [db |-> Single, up |-> {"r1", "r2"}, docs |-> {"d2"}, young |-> {}, writes |-> 1, faults |-> 0, pods |-> <<>>,
    kinds |-> {"ingest", "namespace"}],
   [db |-> Single, up |-> {"r1", "r2"}, docs |-> {"d2"}, young |-> {}, writes |-> 1, faults |-> 1, pods |-> <<>>,
    kinds |-> {"move"}],
   [db |-> Single, up |-> {"r1"}, docs |-> {"d2"}, young |-> {}, writes |-> 1, faults |-> 1, pods |-> <<>>,
    kinds |-> {"ingest", "namespace", "move"}],
   [db |-> Silent(WithClusters(Fresh)), up |-> {}, docs |-> {"d1", "d2", "d3"}, young |-> {}, writes |-> 2, faults |-> 1, pods |-> [k1 |-> Old],
    kinds |-> {"pods", "cluster", "create"}],
   [db |-> WithClusters(Fresh), up |-> {}, docs |-> {"d1", "d2", "d3"}, young |-> {}, writes |-> 1, faults |-> 1, pods |-> [k1 |-> Old],
    kinds |-> {"delete", "cluster", "auto"}],
   [db |-> WithClusters(Fresh), up |-> {}, docs |-> {"d1", "d2", "d3"}, young |-> {}, writes |-> 1, faults |-> 0, pods |-> [k1 |-> New],
    kinds |-> {"delete"}],
   [db |-> WithClusters(Fresh), up |-> {}, docs |-> {"d1", "d2", "d3"}, young |-> {}, writes |-> 0, faults |-> 1, pods |-> [k1 |-> New],
    kinds |-> {}],
   [db |-> WithClusters(Fresh), up |-> {}, docs |-> {"d1", "d2", "d3"}, young |-> {}, writes |-> 1, faults |-> 1, pods |-> [k1 |-> Old \cup Refused],
    kinds |-> {"registry", "ingest_unknown", "source"}],
   [db |-> Silent(WithClusters(Uploads)), up |-> {}, docs |-> {"d1", "d2", "d3"}, young |-> {}, writes |-> 1, faults |-> 0, pods |-> [k1 |-> New],
    kinds |-> {"sweep", "pods"}],
   [db |-> Crowded, up |-> {}, docs |-> {}, young |-> {}, writes |-> 2, faults |-> 0, pods |-> <<>>,
    kinds |-> {"delete", "visibility"}]}

Fleets == {Old, New, Odd}
BareRefs == {"local"}
=============================================================================
