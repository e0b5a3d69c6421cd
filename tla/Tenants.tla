------------------------------ MODULE Tenants ------------------------------
(***************************************************************************)
(* What hangs from a namespace: upload sources, registries and clusters.   *)
(* A registry is a source row and a registry row under one id, and a       *)
(* namespace minted for it carries that id too. A cluster's source row     *)
(* follows it by trigger.                                                  *)
(***************************************************************************)
EXTENDS Access

\* UNIQUE (namespace_id, name). A cluster's source is named "cluster:<name>",
\* so cluster names do not meet the others.
NameFree(ns, kind, name, except) ==
  \A s \in DOMAIN db.source \ except :
    LET row == db.source[s] IN
    ~(row.ns = ns /\ row.name = name /\ (row.kind = "cluster") = (kind = "cluster"))

InsertSource(d, id, ns, kind, name) ==
  [d EXCEPT !.source = Upsert(@, id, [ns |-> ns, kind |-> kind, name |-> name]),
            !.used = @ \union {id}]

Renamed(id, name) == [db EXCEPT !.source[id].name = name]

RenameFits(id, name) == NameFree(db.source[id].ns, db.source[id].kind, name, {id})

----------------------------------------------------------------------------
\* Upload sources

CreateSource(c) ==
  LET r == req[c] IN
  /\ At(c, "admitted", "create-source") /\ IdLeft
  /\ Statement(c, r.arg.on \in DOMAIN db.ns /\ NameFree(r.arg.on, "upload", r.arg.name, {}),
       InsertSource(db, FreshId, r.arg.on, "upload", r.arg.name))

\* A cluster's source is edited through its cluster only.
refuseClusterSource(id) == id \in DOMAIN db.source /\ db.source[id].kind = "cluster"

UpdateSource(c) ==
  LET r == req[c] IN
  /\ At(c, "admitted", "update-source")
  /\ Statement(c, /\ r.arg.on \in DOMAIN db.source /\ ~refuseClusterSource(r.arg.on)
                  /\ RenameFits(r.arg.on, r.arg.name),
       Renamed(r.arg.on, r.arg.name))

DropSource(id) == [db EXCEPT !.source = Without(@, {id})]

DeleteSource(c) ==
  LET r == req[c] IN
  /\ At(c, "admitted", "delete-source")
  /\ Statement(c, r.arg.on \in DOMAIN db.source /\ ~refuseClusterSource(r.arg.on), DropSource(r.arg.on))

----------------------------------------------------------------------------
\* Registries

\* The namespace called name: "" when there is none, refused to a caller who is
\* neither a member nor an administrator, or who lacks the capability.
authorizeExistingNamespace(p, name) ==
  LET found == NsNamed(name) IN
  IF found = {} THEN [ok |-> TRUE, ns |-> NoNs]
  ELSE LET n == CHOOSE n \in found : TRUE
       IN  [ok |-> (n \in DOMAIN p.grants \/ p.role = "admin") /\ Can(p, n, "manage_source"), ns |-> n]

\* createRegistry runs this at most twice: `tries` counts the attempts.
AuthorizeRegistry(c, tries) ==
  LET r == req[c]
      target == IF r.arg.name2 = Blank THEN [ok |-> TRUE, ns |-> NoNs]
                ELSE authorizeExistingNamespace(r.p, r.arg.name2)
  IN
  /\ IF /\ target.ok
        /\ target.ns = NoNs => requireNamespaceCreation(r.p, conf.restrict)
     THEN Goto(c, IF target.ns = NoNs /\ r.arg.name2 # Blank THEN "resolve" ELSE "create",
               [ns |-> target.ns, tries |-> tries])
     ELSE Finish(c)
  /\ Read

createRegistry(c) == At(c, "admitted", "create-registry") /\ AuthorizeRegistry(c, 1)

(* Mutant: a namespace that exists by now is used as it is. *)
ResolveExisting(c) ==
  LET r == req[c]  n == FreshId  found == NsNamed(r.arg.name2) IN
  /\ At(c, "resolve", "create-registry") /\ IdLeft
  /\ IF found = {}
     THEN /\ Write(InsertNamespace(db, n, r.arg.name2, r.arg.vis # "private", r.p.user))
          /\ Goto(c, "create", [r.seen EXCEPT !.ns = n])
     ELSE Read /\ Goto(c, "create", [r.seen EXCEPT !.ns = CHOOSE m \in found : TRUE])

\* resolveNamespace only ever creates the named namespace. One that exists by
\* now sends the request back to authorize against it, once.
resolveNamespace(c) ==
  LET r == req[c]  n == FreshId IN
  /\ At(c, "resolve", "create-registry") /\ IdLeft
  /\ IF NsNamed(r.arg.name2) = {}
     THEN /\ Write(InsertNamespace(db, n, r.arg.name2, r.arg.vis # "private", r.p.user))
          /\ Goto(c, "create", [r.seen EXCEPT !.ns = n])
     ELSE /\ Read
          /\ IF r.seen.tries = 1 THEN Goto(c, "again", r.seen) ELSE Finish(c)

AuthorizeAgain(c) == At(c, "again", "create-registry") /\ AuthorizeRegistry(c, 2)

\* One statement: the source and registry rows and, when no namespace is given,
\* a namespace of the registry's own under the same id, owned by the caller.
CreateRegistry(c) ==
  LET r == req[c]
      id == FreshId
      mint == r.seen.ns = NoNs
      ns == IF mint THEN id ELSE r.seen.ns
  IN
  /\ At(c, "create", "create-registry") /\ IdLeft
  /\ Statement(c,
       IF mint THEN NsNamed(r.arg.name) = {}
       ELSE ns \in DOMAIN db.ns /\ NameFree(ns, "oci_registry", r.arg.name, {}),
       InsertSource(IF mint THEN InsertNamespace(db, id, r.arg.name, r.arg.vis # "private", r.p.user)
                    ELSE db,
                    id, ns, "oci_registry", r.arg.name))

\* UpdateRegistry and RegenerateWebhookSecret read the registry as it stands;
\* the second writes its name and visibility back unchanged.
ReadRegistry(c) ==
  LET r == req[c] IN
  /\ r.step = "admitted" /\ r.op \in {"update-registry", "regenerate-webhook-secret"}
  /\ IF r.arg.on \in OfKind("oci_registry")
     THEN LET row == db.source[r.arg.on]
              public == db.ns[row.ns].public
              edit == r.op = "update-registry"
          IN  Goto(c, "update",
                   [ns |-> row.ns,
                    name |-> IF edit THEN r.arg.name ELSE row.name,
                    public |-> IF edit /\ r.arg.vis # Blank THEN r.arg.vis = "public" ELSE public])
     ELSE Finish(c)
  /\ Read

\* The statement writes the registry's name to its source and its name and
\* visibility to the namespace with the registry's id.
UpdateRegistryRow(id, name, public) ==
  LET d == Renamed(id, name) IN
  IF id \in DOMAIN d.ns THEN [d EXCEPT !.ns[id] = [name |-> name, public |-> public]] ELSE d

\* A namespace move follows only when the update names a namespace.
UpdateRegistry(c) ==
  LET r == req[c]
      id == r.arg.on
      applies == /\ id \in OfKind("oci_registry")
                 /\ RenameFits(id, r.seen.name)
                 /\ id \in DOMAIN db.ns => NsNamed(r.seen.name) \subseteq {id}
      moves == applies /\ r.op = "update-registry" /\ r.arg.name2 # Blank
  IN
  /\ r.step = "update"
  /\ IF applies THEN Write(UpdateRegistryRow(id, r.seen.name, r.seen.public)) ELSE Read
  /\ IF moves THEN Goto(c, "authorize", r.seen) ELSE Finish(c)

\* The target must exist, and the caller must manage sources there too.
moveRegistryNamespace(c) ==
  LET r == req[c]  target == authorizeExistingNamespace(r.p, r.arg.name2) IN
  /\ At(c, "authorize", "update-registry")
  /\ IF target.ok /\ target.ns \notin {NoNs, r.seen.ns}
     THEN Goto(c, "move", [ns |-> target.ns]) ELSE Finish(c)
  /\ Read

\* One transaction; the SBOMs and links it carries along are Catalogue's.
MoveNamespace(c) ==
  LET r == req[c]  id == r.arg.on IN
  /\ At(c, "move", "update-registry")
  /\ Statement(c, /\ id \in DOMAIN db.source /\ r.seen.ns \in DOMAIN db.ns
                  /\ NameFree(r.seen.ns, "oci_registry", db.source[id].name, {id}),
       [db EXCEPT !.source[id].ns = r.seen.ns])

\* Deletes the source row, which takes the registry with it.
DeleteRegistry(c) ==
  LET r == req[c] IN
  /\ At(c, "admitted", "delete-registry")
  /\ Statement(c, r.arg.on \in DOMAIN db.source, DropSource(r.arg.on))

----------------------------------------------------------------------------
\* Clusters

CreateCluster(c) ==
  LET r == req[c] IN
  /\ At(c, "admitted", "create-cluster") /\ IdLeft
  /\ Statement(c, r.arg.on \in DOMAIN db.ns /\ NameFree(r.arg.on, "cluster", r.arg.name, {}),
       InsertSource(db, FreshId, r.arg.on, "cluster", r.arg.name))

UpdateCluster(c) ==
  LET r == req[c] IN
  /\ At(c, "admitted", "update-cluster")
  /\ Statement(c, r.arg.on \in OfKind("cluster") /\ RenameFits(r.arg.on, r.arg.name),
       Renamed(r.arg.on, r.arg.name))

DeleteCluster(c) ==
  LET r == req[c] IN
  /\ At(c, "admitted", "delete-cluster")
  /\ Statement(c, r.arg.on \in OfKind("cluster"), DropSource(r.arg.on))

----------------------------------------------------------------------------
TenantOps ==
  {"create-source", "update-source", "delete-source", "create-registry", "update-registry",
   "regenerate-webhook-secret", "delete-registry", "create-cluster", "update-cluster",
   "delete-cluster"}

\* Operations that change nothing modelled here answer and end.
Respond(c) ==
  /\ req[c].step = "admitted" /\ req[c].op \notin AccountOps \union TenantOps
  /\ Finish(c)
  /\ Read

TenantSteps(c) ==
  \/ CreateSource(c) \/ UpdateSource(c) \/ DeleteSource(c)
  \/ createRegistry(c) \/ resolveNamespace(c) \/ AuthorizeAgain(c) \/ CreateRegistry(c)
  \/ ReadRegistry(c) \/ UpdateRegistry(c) \/ moveRegistryNamespace(c) \/ MoveNamespace(c)
  \/ DeleteRegistry(c)
  \/ CreateCluster(c) \/ UpdateCluster(c) \/ DeleteCluster(c)
  \/ Respond(c)

Next == (\E c \in Conn : AccountSteps(c) \/ TenantSteps(c)) \/ Environment

Spec == Init /\ [][Next]_vars

----------------------------------------------------------------------------
\* Properties

\* A namespace that has an owner keeps that owner, and never gains a second,
\* until it is deleted, whatever grants and removals race: SetMember and
\* RemoveMember check the role they read, and only the row they read is safe
\* to overwrite later because the one-owner index lets nobody else become
\* owner meanwhile (service/namespace_member.go). A namespace an administrator
\* gave an owner to while a request on that user's membership was under way
\* is the one exception, so adopted namespaces are left out.
OwnerKept ==
  [][\A n \in DOMAIN db.ns \ adopted :
       Owners(n) # {} /\ n \in DOMAIN db'.ns => (Owners(n))' = Owners(n)]_vars

\* An identity passes from one account to another only by being unlinked in
\* between, and an account appears only together with an identity nobody held:
\* two first sign-ins with one identity, or a link racing a sign-in, end with
\* one account (service/auth.go resolveIdentity, LinkIdentity).
IdentityNeverMoves ==
  [][/\ \A i \in Identities : db.holder[i] = NoOne \/ db'.holder[i] \in {db.holder[i], NoOne}
     /\ \A u \in Users : db.role[u] = "none" /\ db'.role[u] # "none" =>
          \E i \in Identities : db.holder[i] = NoOne /\ db'.holder[i] = u]_vars

\* The resource whose namespace an operation's capability is asked about, as
\* the notes of the declared rules name it.
Anchor(op) ==
  CASE op \in {"ingest-sbom", "update-source", "delete-source"} -> "source"
    [] op = "delete-sbom" -> "sbom"
    [] op = "delete-artifact" -> "artifact"
    [] op \in {"update-cluster", "delete-cluster", "put-cluster-inventory",
               "ingest-cluster-unknown-images"} -> "cluster"
    [] op \in {"update-registry", "delete-registry", "scan-registry", "get-registry-preview",
               "regenerate-webhook-secret"} -> "registry"
    [] OTHER -> "namespace"

\* The caller as the database describes it now.
Live(cred) ==
  LET p == Principal(cred) IN IF SignedIn(p) THEN [p EXCEPT !.grants = Grants(p.user)] ELSE p

MeetsClass(rule, p, op, id) ==
  CASE rule.class \in {"public", "secret"} -> TRUE
    [] rule.class = "authenticated" -> p.user # NoOne
    [] rule.class = "member"        -> p.user # NoOne /\ p.role # "viewer"
    [] rule.class = "admin"         -> p.user # NoOne /\ p.role = "admin"
    [] rule.class = "capability"    ->
         /\ p.user # NoOne
         /\ p.byKey => rule.cap \in p.caps
         /\ \E n \in HangsFrom(Anchor(op), id) :
              p.role = "admin" \/ (p.role = "member" /\ RoleIn(n, p.user) \in RolesWith(rule.cap))

\* Operations whose handler narrows the declared class further.
Narrowed == {h.id : h \in {x \in HandlerChecks : x.check \in {"read", "create"}}}

\* A caller whose role, key and memberships have not changed since the request
\* was authenticated is admitted exactly when the operation's declared rule
\* admits it (api/authclass.go), for the guards the router wires and the checks
\* the handlers make (api/router.go, api/middleware.go, api/authz.go); a
\* handler that narrows the class admits nobody the rule refuses.
AdmittedByRule ==
  [][\A c \in Conn : req[c].step = "ready" /\ req'[c] # req[c] =>
       LET r == req[c]
           admitted == req'[c].step = "admitted"
           rule == CHOOSE x \in authRules : x.id = r.op
           permitted == /\ MeetsClass(rule, r.p, r.op, r.arg.on)
                        /\ rule.write /\ r.p.byKey => r.p.caps \ {"read_private"} # {}
       IN  r.p = Live(r.cred) =>
             (admitted => permitted) /\ (permitted /\ r.op \notin Narrowed => admitted)]_vars

\* Wherever a source, registry or cluster row appears, or a registry moves to,
\* the request that put it there minted that namespace, or its caller held the
\* capability to manage such rows there: a namespace another tenant creates
\* under the requested name between the lookup and the insert is authorized
\* again, never planted into (api/registry.go createRegistry).
PlantedByRight ==
  [][\A s \in DOMAIN db'.source :
       LET n == db'.source[s].ns
           cap == IF db'.source[s].kind = "cluster" THEN "manage_cluster" ELSE "manage_source"
       IN  \/ s \in DOMAIN db.source /\ db.source[s].ns = n
           \/ n \notin DOMAIN db.ns
           \/ \E c \in Conn : /\ req'[c] # req[c]
                              /\ \/ Can(req[c].p, n, cap)
                                 \/ RoleIn(n, req[c].p.user) = "owner"]_vars

\* "Name and visibility only propagate to the namespace when the registry owns
\* it outright": a registry's update never rewrites a namespace the registry
\* does not hang from (repository/registry.sql.go UpdateRegistry).
UpdateStaysHome ==
  [][\A c \in Conn : req[c].step = "update" =>
       \A n \in DOMAIN db.ns \intersect DOMAIN db'.ns :
         db'.ns[n] # db.ns[n] /\ req'[c] # req[c] => db.source[req[c].arg.on].ns = n]_vars
============================================================================
