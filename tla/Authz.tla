------------------------------- MODULE Authz -------------------------------
(***************************************************************************)
(* The capability model: what a namespace role grants, what a credential's *)
(* own ceiling leaves of it, and the checks the API layer builds on both.  *)
(* Everything here is a pure operator; Access keeps the state.             *)
(*                                                                         *)
(* A principal is what a request carries after authentication:             *)
(*   [user, role, byKey, caps, grants], where grants maps a namespace to   *)
(*   the caller's role there, as it was when the request was authenticated.*)
(***************************************************************************)
EXTENDS Integers, FiniteSets

CONSTANTS NoOne,  \* no account behind a request, an identity or a row
          NoNs    \* "the resource hangs from no namespace"

----------------------------------------------------------------------------
\* internal/authz/capability.go

Capabilities == {"read_private", "ingest", "trigger_scan", "push_inventory",
                 "delete_artifact", "manage_source", "manage_cluster",
                 "read_secret", "manage_member", "delete_namespace"}

Roles == {"owner", "maintainer", "security", "developer", "viewer"}

GlobalRoles == {"admin", "member", "viewer"}

roleCaps ==
  [owner      |-> Capabilities,
   maintainer |-> Capabilities \ {"manage_member", "delete_namespace"},
   security   |-> {"read_private", "trigger_scan"},
   developer  |-> {"read_private", "ingest", "trigger_scan", "push_inventory"},
   viewer     |-> {"read_private"}]

\* An unknown role grants nothing.
Allows(role, cap) == role \in Roles /\ cap \in roleCaps[role]

ValidRole(role) == role \in Roles

\* Set inclusion, not rank: security and developer are incomparable.
Dominates(role, other) == roleCaps[other] \subseteq roleCaps[role]

Mutating(cap) == cap # "read_private"

\* The whole list is refused when one name in it is unknown.
ParseCapabilities(names) == names \subseteq Capabilities

RolesWith(cap) == {role \in Roles : Allows(role, cap)}

Allow(globalRole, member, present, cap) ==
  \/ globalRole = "admin"
  \/ /\ present
     /\ globalRole = "viewer" => cap = "read_private"
     /\ Allows(member, cap)

----------------------------------------------------------------------------
\* internal/service/auth.go, internal/api/authz.go, internal/api/namespace.go

Anonymous == [user |-> NoOne, role |-> "viewer", byKey |-> FALSE, caps |-> {},
              grants |-> <<>>]

SignedIn(p) == p.user # NoOne

KeyAllows(p, cap) == p.byKey => cap \in p.caps

KeyAllowsAnyWrite(p) == p.byKey => \E cap \in p.caps : Mutating(cap)

(* Mutant: an administrator's key is not held to its ceiling. *)
CanAdminFirst(p, ns, cap) ==
  \/ p.role = "admin"
  \/ /\ KeyAllows(p, cap)
     /\ ns \in DOMAIN p.grants
     /\ Allow(p.role, p.grants[ns], TRUE, cap)

\* The key's ceiling is asked before the admin short-circuit of Allow.
Can(p, ns, cap) ==
  /\ KeyAllows(p, cap)
  /\ LET present == ns # NoNs /\ ns \in DOMAIN p.grants
     IN  Allow(p.role, IF present THEN p.grants[ns] ELSE "none", present, cap)

CanFromContext(p, ns, cap) == SignedIn(p) /\ Can(p, ns, cap)

callerCapabilities(p, ns) == {cap \in Capabilities : Can(p, ns, cap)}

MayGrant(p, ns, role) ==
  \/ p.role = "admin"
  \/ /\ ns # NoNs /\ ns \in DOMAIN p.grants
     /\ Dominates(p.grants[ns], role)

canReadPrivate(p, ns) == CanFromContext(p, ns, "read_private")

\* `restricted` is SELF_SERVICE_NAMESPACES=false.
requireNamespaceCreation(p, restricted) ==
  restricted => p.role \in {"admin", "member"}

----------------------------------------------------------------------------
\* internal/api/middleware.go: the route guards. `Found` is the set of
\* namespaces a resolver may answer: empty when the target does not exist,
\* which the route answers with 404.

RequireAuthenticated(p) == SignedIn(p)

RequireMember(p) == SignedIn(p) /\ p.role \in {"admin", "member"}

RequireAdmin(p) == SignedIn(p) /\ p.role = "admin"

RequireCapability(p, cap, Found) ==
  SignedIn(p) /\ \E ns \in Found : Can(p, ns, cap)

RequireWrite(p) == SignedIn(p) => KeyAllowsAnyWrite(p)

\* In the handler: the namespace must exist, then Can.
requireNamespaceCapability(p, ns, cap, Existing) ==
  ns \in Existing /\ Can(p, ns, cap)
============================================================================
