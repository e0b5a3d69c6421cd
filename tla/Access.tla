------------------------------- MODULE Access -------------------------------
(***************************************************************************)
(* Accounts, credentials and namespaces behind the API, under concurrent   *)
(* requests. A request is authenticated, its grants are loaded, its route's*)
(* guards and its handler's checks admit or refuse it, and its handler then*)
(* reads and writes: each of those is a step of its own, so what a request *)
(* read may be stale when it writes. Tenants adds what hangs from a        *)
(* namespace.                                                              *)
(*                                                                         *)
(* db.role     account -> installation role, "none" before it exists       *)
(* db.holder   identity -> the account it is linked to, or NoOne           *)
(* db.session  token -> account; db.expired: tokens past their expiry      *)
(* db.key      API key -> [user, caps]                                     *)
(* db.ns       namespace -> [name, public]                                 *)
(* db.member   <<namespace, account>> -> role                              *)
(* db.source   source -> [ns, kind, name]; a registry or a cluster is a    *)
(*             source of that kind with the same id                        *)
(* db.sbom, db.artifact: the namespace(s) they hang from                   *)
(* db.used     ids ever issued: a row's id is a UUID and is never reissued *)
(***************************************************************************)
EXTENDS Routes, Functions, TableWrites

CONSTANTS Conn,        \* requests the server handles at once
          Users, Identities, Tokens, Keys,
          Ids,         \* ids of namespaces, sources, SBOMs and artifacts
          Worlds,      \* initial databases and configurations
          Asks(_)      \* the requests the clients of a world may send

VARIABLES db,
          req,         \* connection -> the request it carries
          conf,        \* the world: configuration and clients
          left,        \* requests clients will still send
          adopted      \* ownerless namespaces an administrator gave an owner

vars == <<db, req, conf, left, adopted>>

\* An account exists once it has a role.
Exists(d, u) == u \in Users /\ d.role[u] # "none"

\* The tables, and what their keys refer to.
Tables(d) ==
  /\ DOMAIN d = {"role", "holder", "session", "expired", "key", "ns", "member", "source", "sbom",
                 "artifact", "used"}
  /\ d.role \in [Users -> GlobalRoles \cup {"none"}] /\ DOMAIN d.holder = Identities
  /\ \A i \in Identities : d.holder[i] # NoOne => Exists(d, d.holder[i])
  /\ \A t \in DOMAIN d.session : Exists(d, d.session[t])
  /\ \A k \in DOMAIN d.key : Exists(d, d.key[k].user)
  /\ \A x \in DOMAIN d.member : x[1] \in DOMAIN d.ns
  /\ \A s \in DOMAIN d.source : DOMAIN d.source[s] = {"ns", "kind", "name"} /\ d.source[s].ns \in DOMAIN d.ns
  /\ DOMAIN d.ns \subseteq d.used /\ DOMAIN d.source \subseteq d.used /\ d.used \subseteq Ids

\* Browser routes outside the operation table, with no guard in front.
Browser == {"callback", "callback-link", "logout"}

\* The requests of a world reach a route of the router, and name identities and
\* accounts of the instance.
ASSUME WorldAssumption ==
  /\ NoNs \notin Ids
  /\ \A w \in Worlds :
       /\ Tables(w.db)
       /\ \A ask \in Asks(w.conf.clients) :
            /\ ask.op \in Operations \union Browser
            /\ ask.arg.identity \in Identities /\ ask.arg.who \in Users

Idle == [step |-> "idle"]

Init ==
  /\ \E w \in Worlds : db = w.db /\ conf = w.conf /\ left = w.requests
  /\ req = [c \in Conn |-> Idle]
  /\ adopted = {}

Without(f, S) == Restrict(f, DOMAIN f \ S)

At(c, step, op) == req[c].step = step /\ req[c].op = op

Goto(c, step, seen) == req' = [req EXCEPT ![c].step = step, ![c].seen = seen]

Finish(c) == req' = [req EXCEPT ![c] = Idle]

Write(new) == db' = new /\ UNCHANGED <<conf, left, adopted>>

Read == UNCHANGED <<db, conf, left, adopted>>

\* A statement that either applies or fails on a constraint; the request
\* answers and ends either way.
Statement(c, applies, new) ==
  /\ IF applies THEN Write(new) ELSE Read
  /\ Finish(c)

----------------------------------------------------------------------------
\* Authentication

ValidateAPIKey(k) ==
  IF k \in DOMAIN db.key
  THEN LET key == db.key[k]
       IN  [user |-> key.user, role |-> db.role[key.user], byKey |-> TRUE,
            caps |-> key.caps \intersect Capabilities, grants |-> <<>>]
  ELSE Anonymous

ValidateSession(t) ==
  IF t \in DOMAIN db.session \ db.expired
  THEN [user |-> db.session[t], role |-> db.role[db.session[t]], byKey |-> FALSE,
        caps |-> {}, grants |-> <<>>]
  ELSE Anonymous

Principal(cred) ==
  CASE cred.kind = "key"     -> ValidateAPIKey(cred.id)
    [] cred.kind = "session" -> ValidateSession(cred.id)
    [] OTHER                 -> Anonymous

Grants(u) ==
  [n \in {n \in DOMAIN db.ns : <<n, u>> \in DOMAIN db.member} |-> db.member[<<n, u>>]]

\* OptionalAuthenticate: a request with no or with invalid credentials goes on
\* as nobody.
OptionalAuthenticate(c) ==
  /\ req[c] = Idle /\ left > 0
  /\ \E ask \in Asks(conf.clients) :
       LET p == IF ask.op \in Browser THEN Anonymous ELSE Principal(ask.cred)
           step == IF ask.op \in Browser THEN "admitted"
                   ELSE IF SignedIn(p) THEN "grants" ELSE "ready"
       IN  req' = [req EXCEPT ![c] = [step |-> step, op |-> ask.op, cred |-> ask.cred,
                                      arg |-> ask.arg, p |-> p, seen |-> NoNs]]
  /\ left' = left - 1
  /\ UNCHANGED <<db, conf, adopted>>

\* A failed load leaves the caller without grants rather than refusing it.
LoadGrants(c) ==
  /\ req[c].step = "grants"
  /\ \E g \in {Grants(req[c].p.user), <<>>} :
       req' = [req EXCEPT ![c].step = "ready", ![c].p.grants = g]
  /\ Read

----------------------------------------------------------------------------
\* Admission

namespaceParam(id) == {id} \intersect DOMAIN db.ns

sourceNamespace(id) == {db.source[s].ns : s \in {id} \intersect DOMAIN db.source}

OfKind(kind) == {s \in DOMAIN db.source : db.source[s].kind = kind}

registryNamespace(id) == {db.source[s].ns : s \in {id} \intersect OfKind("oci_registry")}

clusterNamespace(id) == {db.source[s].ns : s \in {id} \intersect OfKind("cluster")}

sbomNamespace(id) == {db.sbom[s] : s \in {id} \intersect DOMAIN db.sbom}

\* The first of the artifact's namespaces by id, which is any of them.
artifactNamespace(id) ==
  IF id \in DOMAIN db.artifact /\ db.artifact[id] # {}
  THEN {CHOOSE n \in db.artifact[id] : TRUE} ELSE {}

HangsFrom(at, id) ==
  CASE at = "namespace" -> namespaceParam(id)
    [] at = "source"    -> sourceNamespace(id)
    [] at = "registry"  -> registryNamespace(id)
    [] at = "cluster"   -> clusterNamespace(id)
    [] at = "sbom"      -> sbomNamespace(id)
    [] at = "artifact"  -> artifactNamespace(id)
    [] OTHER            -> {}

Passes(p, g, id) ==
  CASE g.mw = "authenticated" -> RequireAuthenticated(p)
    [] g.mw = "member"        -> RequireMember(p)
    [] g.mw = "admin"         -> RequireAdmin(p)
    [] g.mw = "write"         -> RequireWrite(p)
    [] g.mw = "capability"    -> RequireCapability(p, g.cap, HangsFrom(g.at, id))

\* A list not narrowed to a namespace has nothing to check.
HandlerAllows(p, h, id) ==
  CASE h.check = "create"     -> requireNamespaceCreation(p, conf.restrict)
    [] h.check = "read"       ->
         \/ id = NoNs
         \/ \E n \in HangsFrom(h.at, id) : db.ns[n].public \/ canReadPrivate(p, n)
    [] h.check = "capability" ->
         \E n \in HangsFrom(h.at, id) : requireNamespaceCapability(p, n, h.cap, DOMAIN db.ns)

Admitted(op, p, id) ==
  /\ \A o \in Registered : o.id = op => \A g \in o.guards : Passes(p, g, id)
  /\ \A h \in HandlerChecks : h.id = op => HandlerAllows(p, h, id)

\* The route's guards and the handler's own check; a refused request ends.
Admit(c) ==
  /\ req[c].step = "ready"
  /\ IF Admitted(req[c].op, req[c].p, req[c].arg.on)
     THEN Goto(c, "admitted", NoNs)
     ELSE Finish(c)
  /\ Read

----------------------------------------------------------------------------
\* Namespaces and membership

NsNamed(name) == {n \in DOMAIN db.ns : db.ns[n].name = name}

\* Bound: the ids there are.
IdLeft == Ids \ db.used # {}

FreshId == CHOOSE i \in Ids : i \notin db.used

\* One statement writes the namespace and its owner row.
InsertNamespace(d, n, name, public, owner) ==
  [d EXCEPT !.ns = Upsert(@, n, [name |-> name, public |-> public]),
            !.member = Upsert(@, <<n, owner>>, "owner"),
            !.used = @ \union {n}]

CreateNamespace(c) ==
  LET r == req[c]
  IN  /\ At(c, "admitted", "create-namespace") /\ IdLeft
      /\ Statement(c, NsNamed(r.arg.name) = {},
           InsertNamespace(db, FreshId, r.arg.name, r.arg.vis = "public", r.p.user))

Blank == ""

\* Update reads the row and fills the blank fields from it.
ReadNamespace(c) ==
  LET r == req[c] IN
  /\ At(c, "admitted", "update-namespace")
  /\ IF r.arg.on \in DOMAIN db.ns
     THEN LET row == db.ns[r.arg.on] IN
          Goto(c, "write",
               [name |-> IF r.arg.name = Blank THEN row.name ELSE r.arg.name,
                public |-> IF r.arg.vis = Blank THEN row.public ELSE r.arg.vis = "public"])
     ELSE Finish(c)
  /\ Read

UpdateNamespace(c) ==
  LET r == req[c] IN
  /\ At(c, "write", "update-namespace")
  /\ Statement(c, r.arg.on \in DOMAIN db.ns /\ NsNamed(r.seen.name) \subseteq {r.arg.on},
       [db EXCEPT !.ns = Upsert(@, r.arg.on, r.seen)])

\* Everything beneath the namespace cascades away with it.
DropNamespace(n) ==
  [db EXCEPT !.ns = Without(@, {n}),
             !.member = Without(@, {x \in DOMAIN db.member : x[1] = n}),
             !.source = Without(@, {s \in DOMAIN db.source : db.source[s].ns = n}),
             !.sbom = Without(@, {s \in DOMAIN db.sbom : db.sbom[s] = n}),
             !.artifact = [a \in DOMAIN db.artifact |-> db.artifact[a] \ {n}]]

DeleteNamespace(c) ==
  LET n == req[c].arg.on IN
  /\ At(c, "admitted", "delete-namespace")
  /\ Statement(c, n \in DOMAIN db.ns, DropNamespace(n))

RoleIn(n, u) == IF <<n, u>> \in DOMAIN db.member THEN db.member[<<n, u>>] ELSE "none"

Owners(n) == {u \in Users : RoleIn(n, u) = "owner"}

\* The grant is checked against the caller's role, the target must exist, and
\* the row being overwritten must not be the owner's.
ReadMember(c) ==
  LET r == req[c] IN
  /\ At(c, "admitted", "set-namespace-member")
  /\ IF /\ ValidRole(r.arg.role) /\ MayGrant(r.p, r.arg.on, r.arg.role)
        /\ db.role[r.arg.who] # "none"
        /\ RoleIn(r.arg.on, r.arg.who) = "owner" => r.arg.role = "owner"
     THEN Goto(c, "write", NoNs)
     ELSE Finish(c)
  /\ Read

\* An upsert. The index namespace_one_owner refuses a second owner.
AddNamespaceMember(n, u, role) == [db EXCEPT !.member = Upsert(@, <<n, u>>, role)]

SetMember(c) ==
  LET r == req[c]
      applies == /\ r.arg.on \in DOMAIN db.ns
                 /\ r.arg.role = "owner" => Owners(r.arg.on) \subseteq {r.arg.who}
  IN
  /\ At(c, "write", "set-namespace-member")
  /\ db' = IF applies THEN AddNamespaceMember(r.arg.on, r.arg.who, r.arg.role) ELSE db
  /\ adopted' = IF applies /\ r.arg.role = "owner" /\ Owners(r.arg.on) = {}
                THEN adopted \union {r.arg.on} ELSE adopted
  /\ Finish(c)
  /\ UNCHANGED <<conf, left>>

(* Mutant: the role of the removed member is not looked at. *)
ReadRemovedAnyRole(c) ==
  LET r == req[c] IN
  /\ At(c, "admitted", "remove-namespace-member")
  /\ IF RoleIn(r.arg.on, r.arg.who) = "none" THEN Finish(c) ELSE Goto(c, "write", NoNs)
  /\ Read

ReadRemoved(c) ==
  LET r == req[c] IN
  /\ At(c, "admitted", "remove-namespace-member")
  /\ IF RoleIn(r.arg.on, r.arg.who) \in {"none", "owner"}
     THEN Finish(c)
     ELSE Goto(c, "write", NoNs)
  /\ Read

\* Deletes by namespace and user, whatever role the row has by now.
RemoveMember(c) ==
  LET r == req[c] IN
  /\ At(c, "write", "remove-namespace-member")
  /\ Statement(c, TRUE, [db EXCEPT !.member = Without(@, {<<r.arg.on, r.arg.who>>})])

----------------------------------------------------------------------------
\* Accounts and credentials

UpdateUserRole(c) ==
  LET r == req[c] IN
  /\ At(c, "admitted", "update-user-role")
  /\ Statement(c, db.role[r.arg.who] # "none" /\ r.arg.role \in GlobalRoles,
       [db EXCEPT !.role[r.arg.who] = r.arg.role])

\* No capabilities asked for means all of them.
CreateAPIKey(c) ==
  LET r == req[c]
      k == CHOOSE k \in Keys : k \notin DOMAIN db.key
  IN
  /\ At(c, "admitted", "create-api-key")
  /\ Statement(c, ParseCapabilities(r.arg.caps) /\ Keys # DOMAIN db.key,
       [db EXCEPT !.key = Upsert(@, k, [user |-> r.p.user,
                                 caps |-> IF r.arg.caps = {} THEN Capabilities ELSE r.arg.caps])])

\* Scoped to the caller: somebody else's key is not found.
DeleteAPIKey(c) ==
  LET r == req[c] IN
  /\ At(c, "admitted", "delete-api-key")
  /\ Statement(c, r.arg.on \in DOMAIN db.key /\ db.key[r.arg.on].user = r.p.user,
       [db EXCEPT !.key = Without(@, {r.arg.on})])

InsertSession(u) ==
  [db EXCEPT !.session = Upsert(@, CHOOSE t \in Tokens : t \notin DOMAIN db.session, u)]

\* Development builds: a session for an account named in the body.
DevMintSession(c) ==
  LET r == req[c] IN
  /\ At(c, "admitted", "dev-mint-session")
  /\ Statement(c, db.role[r.arg.who] # "none" /\ Tokens # DOMAIN db.session, InsertSession(r.arg.who))

HandleLogout(c) ==
  LET r == req[c] IN
  /\ At(c, "admitted", "logout")
  /\ Statement(c, TRUE, [db EXCEPT !.session = Without(@, {r.cred.id})])

\* Bound: only the sessions in conf.ending run out during the run.
SessionExpires(t) ==
  /\ t \in (DOMAIN db.session \intersect conf.ending) \ db.expired
  /\ Write([db EXCEPT !.expired = @ \union {t}])
  /\ UNCHANGED req

CleanExpiredSessions ==
  /\ db.expired \intersect DOMAIN db.session # {}
  /\ Write([db EXCEPT !.session = Without(@, db.expired)])
  /\ UNCHANGED req

----------------------------------------------------------------------------
\* Sign-in and linked identities

signupOpen(i) == conf.signup \/ i \in conf.bootstrap

\* resolveIdentity: the account that holds the identity, or a new one.
resolveIdentity(c) ==
  LET r == req[c]  u == db.holder[r.arg.identity] IN
  /\ At(c, "admitted", "callback")
  /\ IF u # NoOne THEN Goto(c, "promote", [user |-> u, role |-> db.role[u]])
     ELSE IF signupOpen(r.arg.identity) THEN Goto(c, "signup", NoNs)
     ELSE Finish(c)
  /\ Read

\* One statement writes the account and its identity; when another sign-in
\* wrote the identity first, nothing is written and it is looked up again.
CreateUserWithIdentity(c) ==
  LET i == req[c].arg.identity
      u == CHOOSE v \in Users : db.role[v] = "none"
  IN
  /\ At(c, "signup", "callback")
  /\ IF db.holder[i] = NoOne
     THEN /\ \E v \in Users : db.role[v] = "none"
          /\ Write([db EXCEPT !.role[u] = "viewer", !.holder[i] = u])
          /\ Goto(c, "promote", [user |-> u, role |-> "viewer"])
     ELSE Read /\ Goto(c, "lookup", NoNs)

LookUpWinner(c) ==
  LET u == db.holder[req[c].arg.identity] IN
  /\ At(c, "lookup", "callback")
  /\ IF u # NoOne THEN Goto(c, "promote", [user |-> u, role |-> db.role[u]]) ELSE Finish(c)
  /\ Read

\* Promotes and never demotes.
promoteBootstrapAdmin(c) ==
  LET r == req[c] IN
  /\ At(c, "promote", "callback")
  /\ IF r.seen.role # "admin" /\ r.arg.identity \in conf.bootstrap
     THEN Write([db EXCEPT !.role[r.seen.user] = "admin"]) ELSE Read
  /\ Goto(c, "session", r.seen)

CreateSession(c) ==
  /\ At(c, "session", "callback")
  /\ Statement(c, Tokens # DOMAIN db.session, InsertSession(req[c].seen.user))

\* The session's account must be the one the link was started from.
finishIdentityLink(c) ==
  LET r == req[c]  p == ValidateSession(r.cred.id) IN
  /\ At(c, "admitted", "callback-link")
  /\ IF SignedIn(p) /\ p.user = r.arg.who /\ db.holder[r.arg.identity] = NoOne
     THEN Goto(c, "write", [user |-> p.user])
     ELSE Finish(c)
  /\ Read

(* Mutant: the insert takes the identity over. *)
LinkOverwrites(c) ==
  LET i == req[c].arg.identity IN
  /\ At(c, "write", "callback-link")
  /\ Statement(c, TRUE, [db EXCEPT !.holder[i] = req[c].seen.user])

\* UNIQUE (provider, subject) is what decides between two racing links.
LinkIdentity(c) ==
  LET i == req[c].arg.identity IN
  /\ At(c, "write", "callback-link")
  /\ Statement(c, db.holder[i] = NoOne, [db EXCEPT !.holder[i] = req[c].seen.user])

CountIdentities(c) ==
  LET u == req[c].p.user IN
  /\ At(c, "admitted", "unlink-identity")
  /\ IF Cardinality({i \in Identities : db.holder[i] = u}) <= 1
     THEN Finish(c) ELSE Goto(c, "write", NoNs)
  /\ Read

UnlinkIdentity(c) ==
  LET r == req[c] IN
  /\ At(c, "write", "unlink-identity")
  /\ Statement(c, db.holder[r.arg.identity] = r.p.user,
       [db EXCEPT !.holder[r.arg.identity] = NoOne])

----------------------------------------------------------------------------
AccountSteps(c) ==
  \/ OptionalAuthenticate(c) \/ LoadGrants(c) \/ Admit(c)
  \/ CreateNamespace(c) \/ ReadNamespace(c) \/ UpdateNamespace(c) \/ DeleteNamespace(c)
  \/ ReadMember(c) \/ SetMember(c) \/ ReadRemoved(c) \/ RemoveMember(c)
  \/ UpdateUserRole(c) \/ CreateAPIKey(c) \/ DeleteAPIKey(c) \/ DevMintSession(c) \/ HandleLogout(c)
  \/ resolveIdentity(c) \/ CreateUserWithIdentity(c) \/ LookUpWinner(c)
  \/ promoteBootstrapAdmin(c) \/ CreateSession(c)
  \/ finishIdentityLink(c) \/ LinkIdentity(c) \/ CountIdentities(c) \/ UnlinkIdentity(c)

Environment == (\E t \in Tokens : SessionExpires(t)) \/ CleanExpiredSessions

AccountOps ==
  {"create-namespace", "update-namespace", "delete-namespace", "set-namespace-member",
   "remove-namespace-member", "update-user-role", "create-api-key", "delete-api-key",
   "dev-mint-session", "unlink-identity"} \union Browser
============================================================================
