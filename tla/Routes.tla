------------------------------- MODULE Routes -------------------------------
(***************************************************************************)
(* Two tables that must agree: the guards the router wires in front of each*)
(* operation together with the checks its handler makes, and the contract  *)
(* internal/api/authclass.go declares for it. Access executes the first;   *)
(* AdmittedByRule compares its answers with the second.                    *)
(***************************************************************************)
EXTENDS Authz

\* A guard, check or rule that asks for no capability or resource leaves it empty.
Unset == ""

----------------------------------------------------------------------------
\* internal/api/router.go and internal/api/auth.go: what is wired where.
\* `at` names the resource whose namespace a capability guard asks about.

Guard(mw, cap, at) == [mw |-> mw, cap |-> cap, at |-> at]

authMW == Guard("authenticated", Unset, Unset)
memberMW == Guard("member", Unset, Unset)
adminMW == Guard("admin", Unset, Unset)
writeMW == Guard("write", Unset, Unset)
capMW(cap, at) == Guard("capability", cap, at)

Ops(ids, guards) == {[id |-> i, guards |-> guards] : i \in ids}

registerHealthOps == Ops({"health-check", "readiness-check"}, {})

registerVersionOp == Ops({"api-version"}, {})

registerSBOMOps ==
  Ops({"ingest-sbom"}, {memberMW, writeMW})
  \union Ops({"delete-sbom"}, {capMW("delete_artifact", "sbom"), writeMW})
  \union Ops({"list-sboms", "lookup-sbom", "get-sbom", "get-sbom-dependencies",
              "list-sbom-components", "list-sbom-vulns", "list-sbom-drift-history"}, {})

registerComponentOps ==
  Ops({"search-components", "search-distinct-components", "list-component-purl-types",
       "get-component-versions", "list-component-version-summaries", "get-component",
       "get-component-vulns"}, {})

registerLicenseOps == Ops({"list-licenses", "lookup-license", "list-components-by-license"}, {})

registerArtifactOps ==
  Ops({"delete-artifact"}, {capMW("delete_artifact", "artifact"), writeMW})
  \union Ops({"list-artifacts", "lookup-artifact", "get-artifact", "list-artifact-sboms",
              "list-artifact-versions", "get-artifact-changelog", "get-artifact-license-summary",
              "get-artifact-vuln-summary", "list-artifact-vulns", "get-artifact-usages",
              "get-artifact-contains"}, {})

registerDiffOps == Ops({"diff-sboms", "diff-tree"}, {})

registerWebhookOp == Ops({"registry-webhook"}, {})

registerRegistryOps ==
  Ops({"test-registry-connection"}, {adminMW, writeMW})
  \union Ops({"list-registries", "get-registry-trust-summary", "list-recent-drift",
              "get-registry", "get-registry-by-name"}, {authMW})
  \union Ops({"create-registry", "preview-registry-config"}, {authMW, writeMW})
  \union Ops({"update-registry", "delete-registry"}, {capMW("manage_source", "registry"), writeMW})
  \union Ops({"scan-registry"}, {capMW("trigger_scan", "registry"), writeMW})
  \union Ops({"get-registry-preview"}, {capMW("trigger_scan", "registry")})
  \union Ops({"regenerate-webhook-secret"}, {capMW("read_secret", "registry"), writeMW})

registerNamespaceOps ==
  Ops({"list-namespaces", "get-namespace-by-name", "get-namespace"}, {authMW})
  \union Ops({"create-namespace", "update-namespace", "delete-namespace"}, {authMW, writeMW})
  \union Ops({"list-namespace-members"}, {authMW, capMW("manage_member", "namespace")})
  \union Ops({"set-namespace-member", "remove-namespace-member"},
             {authMW, capMW("manage_member", "namespace"), writeMW})

registerSourceOps ==
  Ops({"list-sources", "get-source"}, {authMW})
  \union Ops({"create-source", "update-source", "delete-source"}, {authMW, writeMW})

registerClusterOps ==
  Ops({"list-clusters", "list-my-clusters", "get-cluster", "list-cluster-workloads",
       "list-cluster-images", "list-cluster-k8s-namespaces", "list-cluster-unknown-images",
       "list-cluster-vulns"}, {authMW})
  \union Ops({"create-cluster", "update-cluster", "delete-cluster", "put-cluster-inventory",
              "ingest-cluster-unknown-images"}, {authMW, writeMW})

registerStatsOps == Ops({"get-dashboard-stats"}, {})

registerDiscoverOps == Ops({"get-discovery"}, {})

registerVulnOps ==
  Ops({"list-top-vulnerabilities", "get-vulnerability"}, {})
  \union Ops({"list-vulnerability-workloads"}, {authMW})

registerJobOps ==
  Ops({"list-scan-jobs", "get-scan-job", "list-enrichment-jobs", "enrichment-jobs-summary"}, {authMW})
  \union Ops({"retry-scan-job", "cancel-scan-job", "retry-all-failed-scan-jobs",
              "retry-enrichment-job", "retry-all-failed-enrichment-jobs"}, {adminMW, writeMW})

\* The account's own collections and its watchlist.
registerMeOps ==
  Ops({"get-me", "list-my-namespaces", "list-my-sources", "list-my-registries",
       "list-my-artifacts", "list-my-activity", "list-my-drift-feed",
       "list-my-vulnerabilities", "list-my-watches", "list-my-watch-feed"}, {authMW})
  \union Ops({"watch-artifact", "unwatch-artifact"}, {authMW, writeMW})

\* Providers, identities, keys and users.
registerCredentialOps ==
  Ops({"list-auth-providers"}, {})
  \union Ops({"list-my-identities"}, {authMW})
  \union Ops({"link-identity", "unlink-identity"}, {authMW, writeMW})
  \union Ops({"create-api-key", "delete-api-key"}, {memberMW, writeMW})
  \union Ops({"list-api-keys"}, {memberMW})
  \union Ops({"list-users", "get-system-status"}, {adminMW})
  \union Ops({"update-user-role"}, {adminMW, writeMW})

\* Registered in a development build only.
registerDevOps == Ops({"dev-mint-session"}, {})

Registered ==
  UNION {registerHealthOps, registerVersionOp, registerSBOMOps, registerComponentOps,
         registerLicenseOps, registerArtifactOps, registerDiffOps, registerWebhookOp,
         registerRegistryOps, registerNamespaceOps, registerSourceOps, registerClusterOps,
         registerStatsOps, registerDiscoverOps, registerVulnOps, registerJobOps,
         registerMeOps, registerCredentialOps, registerDevOps}

Operations == {o.id : o \in Registered}

----------------------------------------------------------------------------
\* What the handlers check before they act: a capability in the namespace the
\* resource hangs from, that the caller may read it ("read": public, or
\* canReadPrivate), or that the caller may create a namespace ("create").

Checks(ids, check, cap, at) ==
  {[id |-> i, check |-> check, cap |-> cap, at |-> at] : i \in ids}

namespaceHandlers ==
  Checks({"get-namespace", "get-namespace-by-name"}, "read", "read_private", "namespace")
  \union Checks({"create-namespace"}, "create", Unset, Unset)
  \union Checks({"update-namespace"}, "capability", "manage_member", "namespace")
  \union Checks({"delete-namespace"}, "capability", "delete_namespace", "namespace")

\* list-sources and list-clusters check the namespace they are narrowed to.
sourceHandlers ==
  Checks({"list-sources"}, "read", "read_private", "namespace")
  \union Checks({"get-source"}, "read", "read_private", "source")
  \union Checks({"create-source"}, "capability", "manage_source", "namespace")
  \union Checks({"update-source", "delete-source"}, "capability", "manage_source", "source")

clusterWrites ==
  Checks({"list-clusters"}, "read", "read_private", "namespace")
  \union Checks({"create-cluster"}, "capability", "manage_cluster", "namespace")
  \union Checks({"update-cluster", "delete-cluster"}, "capability", "manage_cluster", "cluster")
  \union Checks({"put-cluster-inventory"}, "capability", "push_inventory", "cluster")
  \union Checks({"ingest-cluster-unknown-images"}, "capability", "trigger_scan", "cluster")

\* visibleCluster in front of every inventory read.
clusterReads ==
  Checks({"get-cluster", "list-cluster-workloads", "list-cluster-images",
          "list-cluster-k8s-namespaces", "list-cluster-unknown-images", "list-cluster-vulns"},
         "read", "read_private", "cluster")

registryReads == Checks({"get-registry", "get-registry-by-name"}, "read", "read_private", "registry")

resolveIngestSource == Checks({"ingest-sbom"}, "capability", "ingest", "source")

HandlerChecks ==
  UNION {namespaceHandlers, sourceHandlers, clusterWrites, clusterReads, registryReads,
         resolveIngestSource}

----------------------------------------------------------------------------
\* internal/api/authclass.go: the declared contract.

Rules(ids, class, cap, write) ==
  {[id |-> i, class |-> class, cap |-> cap, write |-> write] : i \in ids}

rulesMeta ==
  Rules({"health-check", "dev-mint-session", "readiness-check", "api-version"}, "public", Unset, FALSE)

rulesAuth ==
  Rules({"get-me", "list-my-namespaces", "list-my-sources", "list-my-clusters",
         "list-my-registries", "list-my-artifacts", "list-my-activity", "list-my-watches",
         "list-my-watch-feed", "list-my-drift-feed", "list-my-vulnerabilities",
         "list-my-identities"}, "authenticated", Unset, FALSE)
  \union Rules({"watch-artifact", "unwatch-artifact", "link-identity", "unlink-identity"},
               "authenticated", Unset, TRUE)
  \union Rules({"list-auth-providers"}, "public", Unset, FALSE)
  \union Rules({"create-api-key", "delete-api-key"}, "member", Unset, TRUE)
  \union Rules({"list-api-keys"}, "member", Unset, FALSE)
  \union Rules({"list-users", "get-system-status"}, "admin", Unset, FALSE)
  \union Rules({"update-user-role"}, "admin", Unset, TRUE)

rulesSBOMs ==
  Rules({"list-sboms", "lookup-sbom", "get-sbom", "get-sbom-dependencies",
         "list-sbom-components", "list-sbom-vulns", "list-sbom-drift-history", "diff-sboms",
         "diff-tree", "get-dashboard-stats", "get-discovery", "get-artifact-changelog",
         "get-artifact-license-summary"}, "public", Unset, FALSE)
  \union Rules({"ingest-sbom"}, "capability", "ingest", TRUE)
  \union Rules({"delete-sbom"}, "capability", "delete_artifact", TRUE)

rulesArtifacts ==
  Rules({"list-artifacts", "lookup-artifact", "get-artifact", "list-artifact-sboms",
         "list-artifact-versions", "get-artifact-vuln-summary", "list-artifact-vulns",
         "get-artifact-usages", "get-artifact-contains"}, "public", Unset, FALSE)
  \union Rules({"delete-artifact"}, "capability", "delete_artifact", TRUE)

rulesComponents ==
  Rules({"search-components", "search-distinct-components", "list-component-purl-types",
         "get-component-versions", "list-component-version-summaries", "get-component",
         "get-component-vulns", "list-licenses", "lookup-license",
         "list-components-by-license"}, "public", Unset, FALSE)

rulesVulnerabilities ==
  Rules({"list-top-vulnerabilities", "get-vulnerability"}, "public", Unset, FALSE)
  \union Rules({"list-vulnerability-workloads"}, "authenticated", Unset, FALSE)

rulesNamespaces ==
  Rules({"list-namespaces", "get-namespace", "get-namespace-by-name"}, "authenticated", Unset, FALSE)
  \union Rules({"create-namespace"}, "authenticated", Unset, TRUE)
  \union Rules({"update-namespace", "set-namespace-member", "remove-namespace-member"},
               "capability", "manage_member", TRUE)
  \union Rules({"delete-namespace"}, "capability", "delete_namespace", TRUE)
  \union Rules({"list-namespace-members"}, "capability", "manage_member", FALSE)

rulesSources ==
  Rules({"list-sources", "get-source"}, "authenticated", Unset, FALSE)
  \union Rules({"create-source", "update-source", "delete-source"}, "capability", "manage_source", TRUE)

rulesClusters ==
  Rules({"list-clusters", "get-cluster", "list-cluster-workloads", "list-cluster-images",
         "list-cluster-vulns", "list-cluster-k8s-namespaces", "list-cluster-unknown-images"},
        "authenticated", Unset, FALSE)
  \union Rules({"create-cluster", "update-cluster", "delete-cluster"},
               "capability", "manage_cluster", TRUE)
  \union Rules({"put-cluster-inventory"}, "capability", "push_inventory", TRUE)
  \union Rules({"ingest-cluster-unknown-images"}, "capability", "trigger_scan", TRUE)

rulesRegistries ==
  Rules({"list-registries", "get-registry", "get-registry-by-name",
         "get-registry-trust-summary", "list-recent-drift"}, "authenticated", Unset, FALSE)
  \union Rules({"create-registry", "preview-registry-config"}, "authenticated", Unset, TRUE)
  \union Rules({"update-registry", "delete-registry"}, "capability", "manage_source", TRUE)
  \union Rules({"scan-registry"}, "capability", "trigger_scan", TRUE)
  \union Rules({"get-registry-preview"}, "capability", "trigger_scan", FALSE)
  \union Rules({"regenerate-webhook-secret"}, "capability", "read_secret", TRUE)
  \union Rules({"test-registry-connection"}, "admin", Unset, TRUE)
  \union Rules({"registry-webhook"}, "secret", Unset, FALSE)

rulesJobs ==
  Rules({"list-scan-jobs", "get-scan-job", "list-enrichment-jobs", "enrichment-jobs-summary"},
        "authenticated", Unset, FALSE)
  \union Rules({"retry-scan-job", "cancel-scan-job", "retry-all-failed-scan-jobs",
                "retry-enrichment-job", "retry-all-failed-enrichment-jobs"}, "admin", Unset, TRUE)

authRules ==
  UNION {rulesMeta, rulesAuth, rulesSBOMs, rulesArtifacts, rulesComponents,
         rulesVulnerabilities, rulesNamespaces, rulesSources, rulesClusters,
         rulesRegistries, rulesJobs}
============================================================================
