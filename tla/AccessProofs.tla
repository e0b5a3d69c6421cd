---------------------------- MODULE AccessProofs ----------------------------
(***************************************************************************)
(* Proofs about Access and Tenants, for every set of connections, accounts *)
(* and ids, every world and whatever its clients ask.                      *)
(* The second part proves that the guards the router wires and the checks  *)
(* the handlers make admit whom the declared rules admit, for every        *)
(* operation, credential, target and database.                             *)
(***************************************************************************)
EXTENDS Tenants, TLAPS

-----------------------------------------------------------------------------
(***************************************************************************)
(* The inductive invariants                                                *)
(***************************************************************************)
Fields == {"step", "op", "cred", "arg", "p", "seen"}

Waiting == {"idle", "grants", "ready"}

(* What a request carries: its caller and the identity and account it names. *)
Requests ==
    /\ conf \in {w.conf : w \in Worlds}
    /\ DOMAIN req = Conn
    /\ \A c \in Conn : req[c] # Idle =>
         /\ DOMAIN req[c] = Fields /\ req[c].step # "idle"
         /\ req[c].arg.identity \in Identities /\ req[c].arg.who \in Users
         /\ SignedIn(req[c].p) => Exists(db, req[c].p.user)

(* A sign-in and a link under way are for an account that exists. *)
SignIns ==
    \A c \in Conn :
        \/ req[c].step \in {"promote", "session"} /\ req[c].op = "callback"
        \/ req[c].step = "write" /\ req[c].op = "callback-link"
        => Exists(db, req[c].seen.user)

(* What admission has shown of the requests that rely on it later. *)
Screened ==
    \A c \in Conn : req[c].step \notin Waiting =>
        /\ req[c].op \in {"create-api-key", "create-registry"} => SignedIn(req[c].p)
        /\ req[c].op = "set-namespace-member" => req[c].arg.on \in db.used
        /\ req[c].op = "create-source" => Can(req[c].p, req[c].arg.on, "manage_source")
        /\ req[c].op = "create-cluster" => Can(req[c].p, req[c].arg.on, "manage_cluster")

(* A write that would take an owner's role away is not under way: the one  *)
(* owner of a namespace can have become owner meanwhile only by adoption.  *)
Adopted == adopted \subseteq db.used

OwnersSafe ==
    \A c \in Conn :
        /\ req[c].step = "write"
        /\ \/ req[c].op = "set-namespace-member" /\ req[c].arg.role # "owner"
           \/ req[c].op = "remove-namespace-member"
        => /\ req[c].arg.on \in db.used
           /\ req[c].arg.on \in DOMAIN db.ns \ adopted =>
                RoleIn(req[c].arg.on, req[c].arg.who) # "owner"

(* The namespace a registry is about to be put into was authorized for the *)
(* caller, or is one that the request itself made.                         *)
Minted(n, u) ==
    /\ n \in db.used
    /\ n \in DOMAIN db.ns => n \notin adopted /\ RoleIn(n, u) = "owner"

Targets ==
    \A c \in Conn :
        /\ req[c].step \in {"resolve", "again", "create"} /\ req[c].op = "create-registry" =>
             DOMAIN req[c].seen = {"ns", "tries"}
        /\ req[c].step = "create" /\ req[c].op = "create-registry" /\ req[c].seen.ns # NoNs =>
             Can(req[c].p, req[c].seen.ns, "manage_source") \/ Minted(req[c].seen.ns, req[c].p.user)
        /\ req[c].step \in {"authorize", "move"} /\ req[c].op = "update-registry" =>
             /\ req[c].arg.on \in db.used
             /\ req[c].arg.on \in DOMAIN db.source => db.source[req[c].arg.on].kind = "oci_registry"
        /\ req[c].step = "move" /\ req[c].op = "update-registry" =>
             Can(req[c].p, req[c].seen.ns, "manage_source")

IInv ==
    Tables(db) /\ Requests /\ SignIns /\ Screened /\ Adopted /\ OwnersSafe /\ Targets
-----------------------------------------------------------------------------
(***************************************************************************)
(* Requests                                                                *)
(***************************************************************************)
(* A request under way moves to another step or ends; nobody else's moves. *)
Moved(c) == (\E s, v : s # "idle" /\ Goto(c, s, v)) \/ Finish(c)

LEMMA MovedRequest ==
    ASSUME NEW c \in Conn, DOMAIN req = Conn, req[c] # Idle, DOMAIN req[c] = Fields, req[c].step # "idle", Moved(c)
    PROVE  /\ DOMAIN req' = Conn
           /\ \A e \in Conn \ {c} : req'[e] = req[e]
           /\ req'[c] # Idle =>
                /\ DOMAIN req'[c] = Fields /\ req'[c].step # "idle"
                /\ req'[c].op = req[c].op /\ req'[c].arg = req[c].arg /\ req'[c].p = req[c].p
                /\ req'[c].cred = req[c].cred
<1>1. CASE Finish(c)
  BY <1>1 DEF Finish
<1>2. ASSUME NEW s, NEW v, s # "idle", Goto(c, s, v)
      PROVE  /\ DOMAIN req' = Conn
             /\ \A e \in Conn \ {c} : req'[e] = req[e]
             /\ DOMAIN req'[c] = Fields /\ req'[c].step # "idle"
             /\ req'[c].op = req[c].op /\ req'[c].arg = req[c].arg /\ req'[c].p = req[c].p
             /\ req'[c].cred = req[c].cred
  BY <1>2 DEF Goto, Fields
<1> QED  BY <1>1, <1>2 DEF Moved

(* Each step of a request authenticates it, loads its grants or moves it. *)
LEMMA RequestSteps ==
    ASSUME NEW c \in Conn, AccountSteps(c) \/ TenantSteps(c)
    PROVE  \/ OptionalAuthenticate(c) \/ LoadGrants(c)
           \/ req[c].step = "ready" /\ Admit(c) /\ Moved(c)
           \/ req[c].step \notin Waiting /\ Moved(c)
<1> USE DEF Waiting
<1>1. CASE Admit(c) \/ ReadNamespace(c) \/ ReadMember(c) \/ ReadRemoved(c)
           \/ resolveIdentity(c) \/ LookUpWinner(c) \/ finishIdentityLink(c) \/ CountIdentities(c)
  BY <1>1 DEF Moved, At, Admit, ReadNamespace, ReadMember, ReadRemoved, resolveIdentity, LookUpWinner,
              finishIdentityLink, CountIdentities
<1>2. CASE CreateUserWithIdentity(c) \/ promoteBootstrapAdmin(c)
  BY <1>2 DEF Moved, At, CreateUserWithIdentity, promoteBootstrapAdmin
<1>3. CASE CreateNamespace(c) \/ UpdateNamespace(c) \/ DeleteNamespace(c) \/ SetMember(c) \/ RemoveMember(c)
  BY <1>3 DEF Moved, At, Statement, CreateNamespace, UpdateNamespace, DeleteNamespace, SetMember, RemoveMember
<1>4. CASE UpdateUserRole(c) \/ CreateAPIKey(c) \/ DeleteAPIKey(c) \/ DevMintSession(c) \/ HandleLogout(c)
           \/ CreateSession(c) \/ LinkIdentity(c) \/ UnlinkIdentity(c)
  BY <1>4 DEF Moved, At, Statement, UpdateUserRole, CreateAPIKey, DeleteAPIKey, DevMintSession, HandleLogout,
              CreateSession, LinkIdentity, UnlinkIdentity
<1>5. CASE CreateSource(c) \/ UpdateSource(c) \/ DeleteSource(c) \/ MoveNamespace(c) \/ DeleteRegistry(c)
           \/ CreateCluster(c) \/ UpdateCluster(c) \/ DeleteCluster(c) \/ Respond(c) \/ CreateRegistry(c)
  BY <1>5 DEF Moved, At, Statement, CreateSource, UpdateSource, DeleteSource, MoveNamespace, DeleteRegistry,
              CreateCluster, UpdateCluster, DeleteCluster, Respond, CreateRegistry
<1>6. CASE createRegistry(c) \/ AuthorizeAgain(c) \/ resolveNamespace(c)
  BY <1>6, SMTT(60) DEF Moved, At, createRegistry, AuthorizeAgain, resolveNamespace, AuthorizeRegistry
<1>7. CASE ReadRegistry(c) \/ UpdateRegistry(c) \/ moveRegistryNamespace(c)
  BY <1>7 DEF Moved, At, ReadRegistry, UpdateRegistry, moveRegistryNamespace
<1> QED
  BY <1>1, <1>2, <1>3, <1>4, <1>5, <1>6, <1>7 DEF AccountSteps, TenantSteps

-----------------------------------------------------------------------------
(***************************************************************************)
(* Writes of the database                                                  *)
(***************************************************************************)
AccountWrites(c) ==
    \/ UpdateUserRole(c) \/ CreateAPIKey(c) \/ DeleteAPIKey(c) \/ DevMintSession(c) \/ HandleLogout(c)
    \/ CreateUserWithIdentity(c) \/ promoteBootstrapAdmin(c) \/ CreateSession(c)
    \/ LinkIdentity(c) \/ UnlinkIdentity(c)

NamespaceWrites(c) ==
    \/ CreateNamespace(c) \/ UpdateNamespace(c) \/ DeleteNamespace(c) \/ SetMember(c) \/ RemoveMember(c)
    \/ resolveNamespace(c) \/ CreateRegistry(c) \/ UpdateRegistry(c)

SourceWrites(c) ==
    \/ CreateSource(c) \/ UpdateSource(c) \/ DeleteSource(c) \/ MoveNamespace(c) \/ DeleteRegistry(c)
    \/ CreateCluster(c) \/ UpdateCluster(c) \/ DeleteCluster(c)

AccountsSame ==
    /\ conf' = conf /\ DOMAIN db' = DOMAIN db
    /\ db'.role = db.role /\ db'.holder = db.holder /\ db'.session = db.session /\ db'.key = db.key

NamespacesSame == db'.ns = db.ns /\ db'.member = db.member /\ adopted' = adopted

TenancySame ==
    /\ conf' = conf /\ DOMAIN db' = DOMAIN db
    /\ NamespacesSame /\ db'.source = db.source /\ db'.used = db.used

(* Every other step of a request only reads.                               *)
LEMMA WriteSteps ==
    ASSUME NEW c \in Conn, AccountSteps(c) \/ TenantSteps(c)
    PROVE  \/ UNCHANGED <<db, adopted, conf>>
           \/ AccountWrites(c) \/ NamespaceWrites(c) \/ SourceWrites(c)
<1>1. CASE \/ OptionalAuthenticate(c) \/ LoadGrants(c) \/ Admit(c) \/ ReadNamespace(c) \/ ReadMember(c)
           \/ ReadRemoved(c) \/ resolveIdentity(c) \/ LookUpWinner(c) \/ finishIdentityLink(c) \/ CountIdentities(c)
  BY <1>1 DEF Read, OptionalAuthenticate, LoadGrants, Admit, ReadNamespace, ReadMember, ReadRemoved,
              resolveIdentity, LookUpWinner, finishIdentityLink, CountIdentities
<1>2. CASE createRegistry(c) \/ AuthorizeAgain(c) \/ ReadRegistry(c) \/ moveRegistryNamespace(c) \/ Respond(c)
  BY <1>2 DEF Read, createRegistry, AuthorizeAgain, AuthorizeRegistry, ReadRegistry, moveRegistryNamespace, Respond
<1> QED
  BY <1>1, <1>2 DEF AccountSteps, TenantSteps, AccountWrites, NamespaceWrites, SourceWrites

(* Accounts and credentials are tables of their own.                       *)
LEMMA AccountFrame ==
    ASSUME Tables(db), NEW c, AccountWrites(c) \/ Environment
    PROVE  TenancySame
<1>0. DOMAIN db = {"role", "holder", "session", "expired", "key", "ns", "member", "source", "sbom", "artifact",
                   "used"}
  BY DEF Tables
<1> USE <1>0 DEF TenancySame, NamespacesSame, Write, Read
<1>1. CASE UpdateUserRole(c) \/ CreateAPIKey(c) \/ DeleteAPIKey(c) \/ DevMintSession(c) \/ HandleLogout(c)
  BY <1>1 DEF Statement, UpdateUserRole, CreateAPIKey, DeleteAPIKey, DevMintSession, HandleLogout, InsertSession
<1>2. CASE CreateUserWithIdentity(c) \/ promoteBootstrapAdmin(c) \/ CreateSession(c)
  BY <1>2 DEF Statement, CreateUserWithIdentity, promoteBootstrapAdmin, CreateSession, InsertSession
<1>3. CASE LinkIdentity(c) \/ UnlinkIdentity(c)
  BY <1>3 DEF Statement, LinkIdentity, UnlinkIdentity
<1>4. CASE Environment
  BY <1>4 DEF Environment, SessionExpires, CleanExpiredSessions
<1> QED  BY <1>1, <1>2, <1>3, <1>4 DEF AccountWrites

LEMMA NamespaceFrame ==
    ASSUME Tables(db), NEW c \in Conn, NamespaceWrites(c)
    PROVE  AccountsSame
<1>0. DOMAIN db = {"role", "holder", "session", "expired", "key", "ns", "member", "source", "sbom", "artifact",
                   "used"}
  BY DEF Tables
<1> USE <1>0 DEF AccountsSame, Write, Read
<1>1. CASE CreateNamespace(c) \/ UpdateNamespace(c) \/ DeleteNamespace(c)
  BY <1>1 DEF Statement, CreateNamespace, UpdateNamespace, DeleteNamespace, InsertNamespace, DropNamespace
<1>2. CASE SetMember(c) \/ RemoveMember(c)
  BY <1>2 DEF Statement, SetMember, RemoveMember, AddNamespaceMember
<1>3. CASE resolveNamespace(c) \/ CreateRegistry(c)
  BY <1>3, ZenonT(60) DEF Statement, resolveNamespace, CreateRegistry, InsertNamespace, InsertSource
<1>4. CASE UpdateRegistry(c)
  BY <1>4 DEF UpdateRegistry, UpdateRegistryRow, Renamed
<1> QED  BY <1>1, <1>2, <1>3, <1>4 DEF NamespaceWrites

LEMMA SourceFrame ==
    ASSUME Tables(db), NEW c \in Conn, SourceWrites(c)
    PROVE  AccountsSame /\ NamespacesSame
<1>0. DOMAIN db = {"role", "holder", "session", "expired", "key", "ns", "member", "source", "sbom", "artifact",
                   "used"}
  BY DEF Tables
<1> USE <1>0 DEF AccountsSame, NamespacesSame, Write, Read
<1>1. CASE CreateSource(c) \/ CreateCluster(c)
  BY <1>1 DEF Statement, CreateSource, CreateCluster, InsertSource
<1>2. CASE UpdateSource(c) \/ UpdateCluster(c) \/ MoveNamespace(c)
  BY <1>2 DEF Statement, UpdateSource, UpdateCluster, MoveNamespace, Renamed
<1>3. CASE DeleteSource(c) \/ DeleteRegistry(c) \/ DeleteCluster(c)
  BY <1>3 DEF Statement, DeleteSource, DeleteRegistry, DeleteCluster, DropSource
<1> QED  BY <1>1, <1>2, <1>3 DEF SourceWrites

(* The body of IdentityNeverMoves.                                         *)
IdentityKept ==
    /\ \A i \in Identities : db.holder[i] = NoOne \/ db'.holder[i] \in {db.holder[i], NoOne}
    /\ \A u \in Users : db.role[u] = "none" /\ db'.role[u] # "none" =>
         \E i \in Identities : db.holder[i] = NoOne /\ db'.holder[i] = u

(* Accounts never go away, and what names one names one that exists.       *)
LEMMA AccountsKept ==
    ASSUME Tables(db), Requests, SignIns, Screened, NEW c, (c \in Conn /\ AccountWrites(c)) \/ Environment
    PROVE  /\ Tables(db') /\ IdentityKept
           /\ \A u : Exists(db, u) => Exists(db', u)
<1> DEFINE Known == /\ db'.role \in [Users -> GlobalRoles \cup {"none"}] /\ DOMAIN db'.holder = Identities
                    /\ \A i \in Identities : db'.holder[i] # NoOne => Exists(db', db'.holder[i])
                    /\ \A t \in DOMAIN db'.session : Exists(db', db'.session[t])
                    /\ \A k \in DOMAIN db'.key : Exists(db', db'.key[k].user)
                    /\ IdentityKept
                    /\ \A u : Exists(db, u) => Exists(db', u)
<1>1. DOMAIN db = {"role", "holder", "session", "expired", "key", "ns", "member", "source", "sbom", "artifact", "used"}
  BY DEF Tables
<1>2. c \in Conn /\ req[c].step # "idle" =>
        /\ req[c].arg.identity \in Identities /\ req[c].arg.who \in Users
        /\ SignedIn(req[c].p) => Exists(db, req[c].p.user)
  BY DEF Requests, Idle
<1> USE DEF Exists
<1>3. ASSUME c \in Conn, UpdateUserRole(c) PROVE Known
  <2>1. \/ db' = db
        \/ /\ db' = [db EXCEPT !.role[req[c].arg.who] = req[c].arg.role]
           /\ db.role[req[c].arg.who] # "none" /\ req[c].arg.role \in GlobalRoles /\ req[c].arg.who \in Users
    BY <1>2, <1>3 DEF UpdateUserRole, Statement, At, Write, Read
  <2> QED  BY <1>1, <2>1 DEF Tables, IdentityKept, GlobalRoles
<1>4. ASSUME c \in Conn, promoteBootstrapAdmin(c) PROVE Known
  <2>1. Exists(db, req[c].seen.user)
    BY <1>4 DEF promoteBootstrapAdmin, At, SignIns
  <2>2. db' = db \/ db' = [db EXCEPT !.role[req[c].seen.user] = "admin"]
    BY <1>4 DEF promoteBootstrapAdmin, Write, Read
  <2> QED  BY <1>1, <2>1, <2>2 DEF Tables, IdentityKept, GlobalRoles
<1>5. ASSUME c \in Conn, CreateUserWithIdentity(c) PROVE Known
  <2> DEFINE i == req[c].arg.identity
             u == CHOOSE v \in Users : db.role[v] = "none"
  <2>1. i \in Identities
    BY <1>2, <1>5 DEF CreateUserWithIdentity, At
  <2>2. \/ db' = db
        \/ /\ db' = [db EXCEPT !.role[u] = "viewer", !.holder[i] = u]
           /\ db.holder[i] = NoOne /\ u \in Users /\ db.role[u] = "none"
    BY <1>5 DEF CreateUserWithIdentity, Write, Read
  <2> HIDE DEF i, u
  <2>3. db' = db => Known
    BY DEF Tables, IdentityKept
  <2>4. ASSUME db' # db
        PROVE  /\ db'.session = db.session /\ db'.key = db.key
               /\ db'.role = [db.role EXCEPT ![u] = "viewer"] /\ db'.holder = [db.holder EXCEPT ![i] = u]
    BY <1>1, <2>2, <2>4
  <2>5. ASSUME db' # db PROVE Known
    BY <2>1, <2>2, <2>4, <2>5 DEF Tables, IdentityKept, GlobalRoles
  <2> QED  BY <2>3, <2>5
<1>6. ASSUME c \in Conn, LinkIdentity(c) PROVE Known
  <2> DEFINE i == req[c].arg.identity
             u == req[c].seen.user
  <2>1. Exists(db, u)
    BY <1>6 DEF LinkIdentity, At, SignIns
  <2>2. \/ db' = db
        \/ db' = [db EXCEPT !.holder[i] = u] /\ db.holder[i] = NoOne
    BY <1>6 DEF LinkIdentity, Statement, Write, Read
  <2> HIDE DEF i, u
  <2> QED  BY <1>1, <2>1, <2>2 DEF Tables, IdentityKept
<1>7. ASSUME c \in Conn, UnlinkIdentity(c) PROVE Known
  <2>1. db' = db \/ db' = [db EXCEPT !.holder[req[c].arg.identity] = NoOne]
    BY <1>7 DEF UnlinkIdentity, Statement, Write, Read
  <2> QED  BY <1>1, <2>1 DEF Tables, IdentityKept
<1>8. ASSUME c \in Conn, DevMintSession(c) \/ CreateSession(c) PROVE Known
  <2>1. db' = db \/ \E u : Exists(db, u) /\ db' = InsertSession(u)
    <3>1. CASE DevMintSession(c)
      BY <1>2, <1>8, <3>1 DEF DevMintSession, Statement, At, Write, Read
    <3>2. CASE CreateSession(c)
      <4>1. Exists(db, req[c].seen.user)
        BY <1>8, <3>2 DEF CreateSession, At, SignIns
      <4> QED  BY <3>2, <4>1 DEF CreateSession, Statement, Write, Read
    <3> QED  BY <1>8, <3>1, <3>2
  <2>2. PICK u : db' = db \/ (Exists(db, u) /\ db' = InsertSession(u))
    BY <2>1
  <2>3. /\ db'.role = db.role /\ db'.holder = db.holder /\ db'.key = db.key
        /\ \A t \in DOMAIN db'.session :
             \/ t \in DOMAIN db.session /\ db'.session[t] = db.session[t]
             \/ db'.session[t] = u
    BY <1>1, <2>2 DEF InsertSession, Upsert
  <2> QED  BY <2>2, <2>3 DEF Tables, IdentityKept
<1>9. ASSUME HandleLogout(c) \/ Environment PROVE Known
  <2>1. PICK S : \/ db' = db \/ db' = [db EXCEPT !.session = Without(@, S)]
                 \/ db' = [db EXCEPT !.expired = S]
    BY <1>9 DEF HandleLogout, Environment, SessionExpires, CleanExpiredSessions, Statement, Write, Read
  <2>2. /\ db'.role = db.role /\ db'.holder = db.holder /\ db'.key = db.key
        /\ \A t \in DOMAIN db'.session : t \in DOMAIN db.session /\ db'.session[t] = db.session[t]
    BY <1>1, <2>1 DEF Without, Restrict
  <2> QED  BY <2>2 DEF Tables, IdentityKept
<1>10. ASSUME c \in Conn, CreateAPIKey(c) PROVE Known
  <2>1. Exists(db, req[c].p.user)
    BY <1>2, <1>10 DEF CreateAPIKey, At, Screened, Waiting
  <2>2. PICK k, caps : db' = db \/ db' = [db EXCEPT !.key = Upsert(@, k, [user |-> req[c].p.user, caps |-> caps])]
    BY <1>10 DEF CreateAPIKey, Statement, Write, Read
  <2>3. /\ db'.role = db.role /\ db'.holder = db.holder /\ db'.session = db.session
        /\ \A x \in DOMAIN db'.key :
             \/ x \in DOMAIN db.key /\ db'.key[x] = db.key[x]
             \/ db'.key[x].user = req[c].p.user
    BY <1>1, <2>2 DEF Upsert
  <2> QED  BY <2>1, <2>3 DEF Tables, IdentityKept
<1>11. ASSUME c \in Conn, DeleteAPIKey(c) PROVE Known
  <2>1. PICK S : db' = db \/ db' = [db EXCEPT !.key = Without(@, S)]
    BY <1>11 DEF DeleteAPIKey, Statement, Write, Read
  <2>2. /\ db'.role = db.role /\ db'.holder = db.holder /\ db'.session = db.session
        /\ \A k \in DOMAIN db'.key : k \in DOMAIN db.key /\ db'.key[k] = db.key[k]
    BY <1>1, <2>1 DEF Without, Restrict
  <2> QED  BY <2>2 DEF Tables, IdentityKept
<1>12. Known
  BY <1>3, <1>4, <1>5, <1>6, <1>7, <1>8, <1>9, <1>10, <1>11 DEF AccountWrites
<1> QED  BY <1>12, AccountFrame DEF Tables, TenancySame, NamespacesSame

(* An id is issued once.                                                   *)
LEMMA FreshIdIsNew == IdLeft => FreshId \in Ids \ db.used
  BY DEF IdLeft, FreshId

(* Keys stay keys of rows, ids are never issued again, and a source's kind *)
(* never changes.                                                          *)
Issued ==
    /\ db.used \subseteq db'.used
    /\ \A n \in DOMAIN db'.ns : n \in DOMAIN db.ns \/ n \notin db.used
    /\ \A s \in DOMAIN db'.source :
         \/ s \in DOMAIN db.source /\ db'.source[s].kind = db.source[s].kind
         \/ s \notin db.used

LEMMA TenancyKept ==
    ASSUME Tables(db), NEW c \in Conn, NamespaceWrites(c) \/ SourceWrites(c)
    PROVE  Tables(db') /\ Issued
<1> DEFINE Known == /\ \A x \in DOMAIN db'.member : x[1] \in DOMAIN db'.ns
                    /\ \A s \in DOMAIN db'.source :
                         DOMAIN db'.source[s] = {"ns", "kind", "name"} /\ db'.source[s].ns \in DOMAIN db'.ns
                    /\ DOMAIN db'.ns \subseteq db'.used /\ DOMAIN db'.source \subseteq db'.used
                    /\ db'.used \subseteq Ids
                    /\ Issued
<1>1. /\ DOMAIN db = {"role", "holder", "session", "expired", "key", "ns", "member", "source", "sbom",
                      "artifact", "used"}
      /\ \A x \in DOMAIN db.member : x[1] \in DOMAIN db.ns
      /\ \A s \in DOMAIN db.source :
           DOMAIN db.source[s] = {"ns", "kind", "name"} /\ db.source[s].ns \in DOMAIN db.ns
      /\ DOMAIN db.ns \subseteq db.used /\ DOMAIN db.source \subseteq db.used /\ db.used \subseteq Ids
  BY DEF Tables
<1>2. db' = db => Known
  BY <1>1 DEF Issued
<1>3. ASSUME NEW n, NEW row, NEW u, n \in Ids \ db.used,
             /\ db'.ns = Upsert(db.ns, n, row) /\ db'.member = Upsert(db.member, <<n, u>>, "owner")
             /\ db'.used = db.used \union {n} /\ db'.source = db.source
      PROVE  Known
  BY <1>1, <1>3 DEF Issued, Upsert
<1>4. ASSUME NEW id, NEW ns \in DOMAIN db'.ns, NEW kind, NEW name, id \in Ids \ db.used,
             DOMAIN db.ns \subseteq DOMAIN db'.ns, DOMAIN db'.ns \subseteq DOMAIN db.ns \union {id},
             \A x \in DOMAIN db'.member : x[1] \in DOMAIN db'.ns,
             /\ db'.source = Upsert(db.source, id, [ns |-> ns, kind |-> kind, name |-> name])
             /\ db'.used = db.used \union {id}
      PROVE  Known
  BY <1>1, <1>4 DEF Issued, Upsert
<1>5. ASSUME NEW S, /\ db'.source = Without(db.source, S) /\ db'.ns = db.ns
                    /\ db'.member = db.member /\ db'.used = db.used
      PROVE  Known
  BY <1>1, <1>5 DEF Issued, Without, Restrict
<1>6. ASSUME CreateNamespace(c) \/ resolveNamespace(c) PROVE Known
  <2>1. \/ db' = db
        \/ \E name, public : FreshId \in Ids \ db.used /\ db' = InsertNamespace(db, FreshId, name, public, req[c].p.user)
    BY <1>6, FreshIdIsNew DEF CreateNamespace, resolveNamespace, Statement, Write, Read
  <2>2. PICK name, public :
          \/ db' = db
          \/ FreshId \in Ids \ db.used /\ db' = InsertNamespace(db, FreshId, name, public, req[c].p.user)
    BY <2>1
  <2>3. ASSUME db' # db
        PROVE  /\ db'.ns = Upsert(db.ns, FreshId, [name |-> name, public |-> public])
               /\ db'.member = Upsert(db.member, <<FreshId, req[c].p.user>>, "owner")
               /\ db'.used = db.used \union {FreshId} /\ db'.source = db.source
    BY <1>1, <2>2, <2>3 DEF InsertNamespace
  <2> QED  BY <1>2, <1>3, <2>2, <2>3
<1>7. ASSUME UpdateNamespace(c) PROVE Known
  <2>1. \/ db' = db
        \/ req[c].arg.on \in DOMAIN db.ns /\ db' = [db EXCEPT !.ns = Upsert(@, req[c].arg.on, req[c].seen)]
    BY <1>7 DEF UpdateNamespace, Statement, Write, Read
  <2> QED  BY <1>1, <1>2, <2>1 DEF Upsert, Issued
<1>8. ASSUME DeleteNamespace(c) PROVE Known
  <2>1. db' = db \/ \E n : db' = DropNamespace(n)
    BY <1>8 DEF DeleteNamespace, Statement, Write, Read
  <2>2. PICK n : db' = db \/ db' = DropNamespace(n)
    BY <2>1
  <2>3. ASSUME db' = DropNamespace(n)
        PROVE  /\ DOMAIN db'.ns = DOMAIN db.ns \ {n} /\ db'.used = db.used
               /\ DOMAIN db'.member = {x \in DOMAIN db.member : x[1] # n}
               /\ DOMAIN db'.source = {s \in DOMAIN db.source : db.source[s].ns # n}
               /\ \A s \in DOMAIN db'.source : db'.source[s] = db.source[s]
    BY <1>1, <2>3 DEF DropNamespace, Without, Restrict
  <2> QED  BY <1>1, <1>2, <2>2, <2>3 DEF Issued
<1>9. ASSUME SetMember(c) PROVE Known
  <2>1. \/ db' = db
        \/ /\ req[c].arg.on \in DOMAIN db.ns
           /\ db' = [db EXCEPT !.member = Upsert(@, <<req[c].arg.on, req[c].arg.who>>, req[c].arg.role)]
    BY <1>9 DEF SetMember, AddNamespaceMember
  <2> QED  BY <1>1, <1>2, <2>1 DEF Upsert, Issued
<1>10. ASSUME RemoveMember(c) PROVE Known
  <2>1. db' = [db EXCEPT !.member = Without(@, {<<req[c].arg.on, req[c].arg.who>>})]
    BY <1>10 DEF RemoveMember, Statement, Write
  <2> QED  BY <1>1, <2>1 DEF Without, Restrict, Issued
<1>11. ASSUME CreateRegistry(c) PROVE Known
  <2> DEFINE id == FreshId
             ns == IF req[c].seen.ns = NoNs THEN id ELSE req[c].seen.ns
  <2>1. \/ db' = db
        \/ /\ id \in Ids \ db.used /\ req[c].seen.ns = NoNs
           /\ \E name, public :
                db' = InsertSource(InsertNamespace(db, id, name, public, req[c].p.user), id, ns, "oci_registry", name)
        \/ /\ id \in Ids \ db.used /\ req[c].seen.ns # NoNs /\ ns \in DOMAIN db.ns
           /\ \E name : db' = InsertSource(db, id, ns, "oci_registry", name)
    BY <1>11, FreshIdIsNew DEF CreateRegistry, Statement, Write, Read
  <2>2. PICK name, public :
          \/ db' = db
          \/ /\ id \in Ids \ db.used /\ req[c].seen.ns = NoNs
             /\ db' = InsertSource(InsertNamespace(db, id, name, public, req[c].p.user), id, ns, "oci_registry", name)
          \/ /\ id \in Ids \ db.used /\ req[c].seen.ns # NoNs /\ ns \in DOMAIN db.ns
             /\ db' = InsertSource(db, id, ns, "oci_registry", name)
    BY <2>1
  <2> HIDE DEF id
  <2>3. ASSUME id \in Ids \ db.used, req[c].seen.ns = NoNs,
               db' = InsertSource(InsertNamespace(db, id, name, public, req[c].p.user), id, ns, "oci_registry", name)
        PROVE  /\ db'.ns = Upsert(db.ns, id, [name |-> name, public |-> public])
               /\ db'.member = Upsert(db.member, <<id, req[c].p.user>>, "owner")
               /\ db'.source = Upsert(db.source, id, [ns |-> ns, kind |-> "oci_registry", name |-> name])
               /\ db'.used = db.used \union {id}
    BY <1>1, <2>3 DEF InsertSource, InsertNamespace
  <2>4. ASSUME id \in Ids \ db.used, req[c].seen.ns # NoNs, ns \in DOMAIN db.ns,
               db' = InsertSource(db, id, ns, "oci_registry", name)
        PROVE  /\ db'.ns = db.ns /\ db'.member = db.member
               /\ db'.source = Upsert(db.source, id, [ns |-> ns, kind |-> "oci_registry", name |-> name])
               /\ db'.used = db.used \union {id}
    BY <1>1, <2>4 DEF InsertSource
  <2>5. CASE db' = db
    BY <1>2, <2>5
  <2>6. CASE db' # db /\ req[c].seen.ns = NoNs
    <3>1. /\ ns = id /\ ns \in DOMAIN db'.ns
          /\ DOMAIN db.ns \subseteq DOMAIN db'.ns /\ DOMAIN db'.ns \subseteq DOMAIN db.ns \union {id}
          /\ \A x \in DOMAIN db'.member : x[1] \in DOMAIN db'.ns
      BY <1>1, <2>2, <2>3, <2>6 DEF Upsert
    <3> QED  BY <1>4, <2>2, <2>3, <2>6, <3>1
  <2>7. CASE db' # db /\ req[c].seen.ns # NoNs
    BY <1>1, <1>4, <2>2, <2>4, <2>7
  <2> QED  BY <2>5, <2>6, <2>7
<1>12. ASSUME UpdateRegistry(c) PROVE Known
  <2> DEFINE id == req[c].arg.on
  <2>1. db' = db \/ (id \in DOMAIN db.source /\ db' = UpdateRegistryRow(id, req[c].seen.name, req[c].seen.public))
    BY <1>12 DEF UpdateRegistry, OfKind, Write, Read
  <2> HIDE DEF id
  <2>2. ASSUME db' # db
        PROVE  /\ DOMAIN db'.ns = DOMAIN db.ns /\ db'.member = db.member /\ db'.used = db.used
               /\ db'.source = [db.source EXCEPT ![id].name = req[c].seen.name]
    <3> DEFINE d == Renamed(id, req[c].seen.name)
    <3>1. /\ DOMAIN d = DOMAIN db /\ d.source = [db.source EXCEPT ![id].name = req[c].seen.name]
          /\ d.ns = db.ns /\ d.member = db.member /\ d.used = db.used
      BY <1>1 DEF Renamed
    <3>2. db' = d \/ \E row : db' = [d EXCEPT !.ns[id] = row]
      BY <2>1, <2>2 DEF UpdateRegistryRow
    <3> HIDE DEF d
    <3> QED  BY <1>1, <3>1, <3>2
  <2> QED  BY <1>1, <1>2, <2>1, <2>2 DEF Issued
<1>13. ASSUME CreateSource(c) \/ CreateCluster(c) PROVE Known
  <2>1. \/ db' = db
        \/ /\ FreshId \in Ids \ db.used /\ req[c].arg.on \in DOMAIN db.ns
           /\ \E kind, name : db' = InsertSource(db, FreshId, req[c].arg.on, kind, name)
    BY <1>13, FreshIdIsNew DEF CreateSource, CreateCluster, Statement, Write, Read
  <2>2. PICK kind, name :
          \/ db' = db
          \/ /\ FreshId \in Ids \ db.used /\ req[c].arg.on \in DOMAIN db.ns
             /\ db' = InsertSource(db, FreshId, req[c].arg.on, kind, name)
    BY <2>1
  <2>3. ASSUME db' # db
        PROVE  /\ db'.ns = db.ns /\ db'.member = db.member /\ db'.used = db.used \union {FreshId}
               /\ db'.source = Upsert(db.source, FreshId, [ns |-> req[c].arg.on, kind |-> kind, name |-> name])
    BY <1>1, <2>2, <2>3 DEF InsertSource
  <2> QED  BY <1>1, <1>2, <1>4, <2>2, <2>3
<1>14. ASSUME UpdateSource(c) \/ UpdateCluster(c) PROVE Known
  <2>1. db' = db \/ (req[c].arg.on \in DOMAIN db.source /\ db' = Renamed(req[c].arg.on, req[c].arg.name))
    BY <1>14 DEF UpdateSource, UpdateCluster, OfKind, Statement, Write, Read
  <2> QED  BY <1>1, <1>2, <2>1 DEF Renamed, Issued
<1>15. ASSUME MoveNamespace(c) PROVE Known
  <2>1. \/ db' = db
        \/ /\ req[c].arg.on \in DOMAIN db.source /\ req[c].seen.ns \in DOMAIN db.ns
           /\ db' = [db EXCEPT !.source[req[c].arg.on].ns = req[c].seen.ns]
    BY <1>15 DEF MoveNamespace, Statement, Write, Read
  <2> QED  BY <1>1, <1>2, <2>1 DEF Issued
<1>16. ASSUME DeleteSource(c) \/ DeleteRegistry(c) \/ DeleteCluster(c) PROVE Known
  <2>1. db' = db \/ db' = DropSource(req[c].arg.on)
    BY <1>16 DEF DeleteSource, DeleteRegistry, DeleteCluster, Statement, Write, Read
  <2> QED  BY <1>1, <1>2, <1>5, <2>1 DEF DropSource
<1>17. Known
  BY <1>6, <1>7, <1>8, <1>9, <1>10, <1>11, <1>12, <1>13, <1>14, <1>15, <1>16 DEF NamespaceWrites, SourceWrites
<1> HIDE DEF Known
<1>18. AccountsSame
  BY NamespaceFrame, SourceFrame
<1> QED  BY <1>17, <1>18 DEF Known, AccountsSame, Tables, Exists

-----------------------------------------------------------------------------
(***************************************************************************)
(* Owners                                                                  *)
(***************************************************************************)
RolesSame ==
    /\ adopted' = adopted
    /\ \A n \in DOMAIN db.ns : n \in DOMAIN db'.ns => \A u : RoleIn(n, u)' = RoleIn(n, u)

Granted(c) ==
    LET r == req[c] IN
    /\ r.step = "write" /\ r.op = "set-namespace-member" /\ r.arg.on \in DOMAIN db.ns
    /\ r.arg.role = "owner" => Owners(r.arg.on) \subseteq {r.arg.who}
    /\ \A n, u : RoleIn(n, u)' = IF n = r.arg.on /\ u = r.arg.who THEN r.arg.role ELSE RoleIn(n, u)
    /\ adopted' = IF r.arg.role = "owner" /\ Owners(r.arg.on) = {} THEN adopted \union {r.arg.on} ELSE adopted

Removed(c) ==
    LET r == req[c] IN
    /\ r.step = "write" /\ r.op = "remove-namespace-member" /\ adopted' = adopted
    /\ \A n, u : RoleIn(n, u)' = IF n = r.arg.on /\ u = r.arg.who THEN "none" ELSE RoleIn(n, u)

(* Roles in a namespace that stays change by a grant or a removal only.    *)
LEMMA RoleSteps ==
    ASSUME Tables(db), NEW c \in Conn, NamespaceWrites(c)
    PROVE  RolesSame \/ Granted(c) \/ Removed(c)
<1>1. /\ DOMAIN db = {"role", "holder", "session", "expired", "key", "ns", "member", "source", "sbom",
                      "artifact", "used"}
      /\ DOMAIN db.ns \subseteq db.used
  BY DEF Tables
<1>2. ASSUME db'.member = db.member, adopted' = adopted PROVE RolesSame
  BY <1>2 DEF RolesSame, RoleIn
<1>3. ASSUME NEW n, NEW u, n \notin db.used, adopted' = adopted,
             db'.member = Upsert(db.member, <<n, u>>, "owner")
      PROVE  RolesSame
  <2>1. \A m \in DOMAIN db.ns : \A v : <<m, v>> # <<n, u>>
    BY <1>1, <1>3
  <2> QED  BY <1>3, <2>1 DEF RolesSame, RoleIn, Upsert
<1>4. ASSUME CreateNamespace(c) \/ resolveNamespace(c) \/ CreateRegistry(c) PROVE RolesSame
  <2>1. adopted' = adopted
    BY <1>4 DEF CreateNamespace, resolveNamespace, CreateRegistry, Statement, Write, Read
  <2>2. \/ db'.member = db.member
        \/ FreshId \notin db.used /\ db'.member = Upsert(db.member, <<FreshId, req[c].p.user>>, "owner")
    BY <1>1, <1>4, FreshIdIsNew DEF CreateNamespace, resolveNamespace, CreateRegistry, Statement, Write, Read,
                               InsertNamespace, InsertSource
  <2> QED  BY <1>2, <1>3, <2>1, <2>2
<1>5. ASSUME UpdateNamespace(c) \/ UpdateRegistry(c) PROVE RolesSame
  <2>1. db'.member = db.member /\ adopted' = adopted
    BY <1>1, <1>5 DEF UpdateNamespace, UpdateRegistry, UpdateRegistryRow, Renamed, Statement, Write, Read
  <2> QED  BY <1>2, <2>1
<1>6. ASSUME DeleteNamespace(c) PROVE RolesSame
  <2>1. adopted' = adopted
    BY <1>6 DEF DeleteNamespace, Statement, Write, Read
  <2>2. db' = db \/ \E n : db' = DropNamespace(n)
    BY <1>6 DEF DeleteNamespace, Statement, Write, Read
  <2>3. PICK n : db' = db \/ db' = DropNamespace(n)
    BY <2>2
  <2>4. ASSUME db' = DropNamespace(n)
        PROVE  /\ DOMAIN db'.ns = DOMAIN db.ns \ {n}
               /\ DOMAIN db'.member = {x \in DOMAIN db.member : x[1] # n}
               /\ \A x \in DOMAIN db'.member : db'.member[x] = db.member[x]
    BY <1>1, <2>4 DEF DropNamespace, Without, Restrict
  <2>5. \A m, u : m # n => (<<m, u>> \in DOMAIN DropNamespace(n).member <=> <<m, u>> \in DOMAIN db.member)
    BY <1>1 DEF DropNamespace, Without, Restrict
  <2> QED  BY <1>2, <2>1, <2>3, <2>4, <2>5 DEF RolesSame, RoleIn
<1>7. ASSUME SetMember(c) PROVE RolesSame \/ Granted(c)
  <2> DEFINE n == req[c].arg.on
             u == req[c].arg.who
             role == req[c].arg.role
  <2>1. \/ db' = db /\ adopted' = adopted
        \/ /\ req[c].step = "write" /\ req[c].op = "set-namespace-member" /\ n \in DOMAIN db.ns
           /\ role = "owner" => Owners(n) \subseteq {u}
           /\ db' = AddNamespaceMember(n, u, role)
           /\ adopted' = IF role = "owner" /\ Owners(n) = {} THEN adopted \union {n} ELSE adopted
    BY <1>7 DEF SetMember, At
  <2> HIDE DEF n, u, role
  <2>2. ASSUME db' = AddNamespaceMember(n, u, role)
        PROVE  \A m, v : RoleIn(m, v)' = IF m = n /\ v = u THEN role ELSE RoleIn(m, v)
    <3>1. db'.member = Upsert(db.member, <<n, u>>, role)
      BY <1>1, <2>2 DEF AddNamespaceMember
    <3> QED  BY <3>1 DEF RoleIn, Upsert
  <2> QED  BY <1>2, <2>1, <2>2 DEF Granted, n, u, role
<1>8. ASSUME RemoveMember(c) PROVE Removed(c)
  <2>1. /\ req[c].step = "write" /\ req[c].op = "remove-namespace-member" /\ adopted' = adopted
        /\ db'.member = Without(db.member, {<<req[c].arg.on, req[c].arg.who>>})
    BY <1>1, <1>8 DEF RemoveMember, At, Statement, Write
  <2> QED  BY <2>1 DEF Removed, RoleIn, Without, Restrict
<1> QED  BY <1>4, <1>5, <1>6, <1>7, <1>8 DEF NamespaceWrites

(* The body of OwnerKept, and what it takes for an account to become owner. *)
OwnersKept ==
    \A n \in DOMAIN db.ns \ adopted :
        Owners(n) # {} /\ n \in DOMAIN db'.ns => (Owners(n))' = Owners(n) /\ n \notin adopted'

NewOwnersAdopted ==
    \A n \in DOMAIN db.ns, u \in Users :
        n \in DOMAIN db'.ns /\ RoleIn(n, u) # "owner" /\ RoleIn(n, u)' = "owner" => n \in adopted'

LEMMA OwnersStep ==
    ASSUME Tables(db), Requests, OwnersSafe, NEW c \in Conn, NamespaceWrites(c)
    PROVE  /\ OwnersKept /\ NewOwnersAdopted
           /\ adopted \subseteq adopted' /\ adopted' \subseteq adopted \union DOMAIN db.ns
<1>1. CASE RolesSame
  BY <1>1 DEF RolesSame, OwnersKept, NewOwnersAdopted, Owners
<1>2. CASE Granted(c)
  <2> DEFINE n == req[c].arg.on
             u == req[c].arg.who
             role == req[c].arg.role
  <2>1. /\ n \in DOMAIN db.ns
        /\ role = "owner" => Owners(n) \subseteq {u}
        /\ \A m, v : RoleIn(m, v)' = IF m = n /\ v = u THEN role ELSE RoleIn(m, v)
        /\ adopted' = IF role = "owner" /\ Owners(n) = {} THEN adopted \union {n} ELSE adopted
        /\ role # "owner" => n \in adopted \/ RoleIn(n, u) # "owner"
    BY <1>2 DEF Granted, OwnersSafe
  <2> HIDE DEF n, u, role
  <2>2. ASSUME NEW m \in DOMAIN db.ns \ adopted, Owners(m) # {}
        PROVE  (Owners(m))' = Owners(m) /\ m \notin adopted'
    BY <2>1, <2>2 DEF Owners
  <2>3. NewOwnersAdopted
    BY <2>1 DEF NewOwnersAdopted, Owners
  <2> QED  BY <2>1, <2>2, <2>3 DEF OwnersKept
<1>3. CASE Removed(c)
  BY <1>3 DEF Removed, OwnersSafe, OwnersKept, NewOwnersAdopted, Owners
<1> QED  BY <1>1, <1>2, <1>3, RoleSteps

-----------------------------------------------------------------------------
(***************************************************************************)
(* The invariant                                                           *)
(***************************************************************************)
(* What every step keeps of the database.                                  *)
Kept ==
    /\ Tables(db') /\ Issued /\ conf' = conf
    /\ \A u : Exists(db, u) => Exists(db', u)
    /\ IdentityKept /\ OwnersKept /\ NewOwnersAdopted
    /\ adopted \subseteq adopted' /\ adopted' \subseteq adopted \union DOMAIN db.ns

LEMMA KeptStep ==
    ASSUME IInv, NEW c,
           \/ c \in Conn /\ (AccountSteps(c) \/ TenantSteps(c))
           \/ Environment
           \/ UNCHANGED vars
    PROVE  Kept
<1>1. Tables(db) /\ Requests /\ SignIns /\ Screened /\ OwnersSafe
  BY DEF IInv
<1>2. ASSUME NamespacesSame
      PROVE  OwnersKept /\ NewOwnersAdopted /\ adopted \subseteq adopted' /\ adopted' \subseteq adopted \union DOMAIN db.ns
  BY <1>2 DEF NamespacesSame, OwnersKept, NewOwnersAdopted, Owners, RoleIn
<1>3. ASSUME AccountsSame
      PROVE  IdentityKept /\ (\A u : Exists(db, u) => Exists(db', u)) /\ conf' = conf
  BY <1>3 DEF AccountsSame, IdentityKept, Exists
<1>4. CASE UNCHANGED <<db, conf, adopted>>
  <2>1. AccountsSame /\ NamespacesSame /\ Issued
    BY <1>4 DEF AccountsSame, NamespacesSame, Issued
  <2>2. Tables(db')
    BY <1>1, <1>4
  <2> QED  BY <1>2, <1>3, <2>1, <2>2 DEF Kept
<1>5. CASE (c \in Conn /\ AccountWrites(c)) \/ Environment
  <2>1. Tables(db') /\ IdentityKept /\ \A u : Exists(db, u) => Exists(db', u)
    BY <1>1, <1>5, AccountsKept
  <2>2. TenancySame
    BY <1>1, <1>5, AccountFrame
  <2>3. NamespacesSame /\ Issued /\ conf' = conf
    BY <2>2 DEF TenancySame, NamespacesSame, Issued
  <2> QED  BY <1>2, <2>1, <2>3 DEF Kept
<1>6. CASE c \in Conn /\ NamespaceWrites(c)
  BY <1>1, <1>3, <1>6, TenancyKept, NamespaceFrame, OwnersStep DEF Kept
<1>7. CASE c \in Conn /\ SourceWrites(c)
  BY <1>1, <1>2, <1>3, <1>7, TenancyKept, SourceFrame DEF Kept
<1> QED  BY <1>4, <1>5, <1>6, <1>7, WriteSteps DEF vars

(* A request's caller and its arguments stay what they were when it came.  *)
LEMMA RequestsKept ==
    ASSUME IInv, NEW c \in Conn, AccountSteps(c) \/ TenantSteps(c)
    PROVE  Requests'
<1>1. Kept /\ Tables(db) /\ Requests
  BY KeptStep DEF IInv
<1>2. conf' \in {w.conf : w \in Worlds}
  BY <1>1 DEF Kept, Requests
<1> DEFINE Fine(r) == /\ DOMAIN r = Fields /\ r.step # "idle"
                      /\ r.arg.identity \in Identities /\ r.arg.who \in Users
                      /\ SignedIn(r.p) => Exists(db', r.p.user)
<1>3. ASSUME NEW e \in Conn, req'[e] = req[e], req'[e] # Idle PROVE Fine(req'[e])
  BY <1>1, <1>3 DEF Kept, Requests
<1>4. CASE OptionalAuthenticate(c)
  <2>0. PICK ask \in Asks(conf.clients) :
          \E p \in {Anonymous, Principal(ask.cred)}, step \in {"admitted", "grants", "ready"} :
            req' = [req EXCEPT ![c] = [step |-> step, op |-> ask.op, cred |-> ask.cred, arg |-> ask.arg,
                                       p |-> p, seen |-> NoNs]]
    BY <1>4 DEF OptionalAuthenticate
  <2>1. PICK p \in {Anonymous, Principal(ask.cred)}, step \in {"admitted", "grants", "ready"} :
          req' = [req EXCEPT ![c] = [step |-> step, op |-> ask.op, cred |-> ask.cred, arg |-> ask.arg,
                                     p |-> p, seen |-> NoNs]]
    BY <2>0
  <2>2. ask.arg.identity \in Identities /\ ask.arg.who \in Users
    BY <1>1, <2>1, WorldAssumption DEF Requests
  <2>3. SignedIn(p) => Exists(db, p.user)
    BY <1>1, <2>1 DEF Principal, ValidateAPIKey, ValidateSession, Anonymous, SignedIn, Tables
  <2>4. Fine(req'[c])
    BY <1>1, <2>1, <2>2, <2>3 DEF Requests, Fields, Kept
  <2>5. DOMAIN req' = Conn /\ \A e \in Conn \ {c} : req'[e] = req[e]
    BY <1>1, <2>1 DEF Requests
  <2> QED  BY <1>2, <1>3, <2>4, <2>5 DEF Requests
<1>5. CASE LoadGrants(c)
  <2>1. PICK g : req' = [req EXCEPT ![c].step = "ready", ![c].p.grants = g]
    BY <1>5 DEF LoadGrants
  <2>2. DOMAIN req[c] = Fields /\ req[c] # Idle
    BY <1>1, <1>5 DEF LoadGrants, Requests, Idle
  <2>3. /\ DOMAIN req'[c] = Fields /\ req'[c].step = "ready" /\ req'[c].arg = req[c].arg
        /\ req'[c].p.user = req[c].p.user
    BY <1>1, <2>1, <2>2 DEF Requests, Fields
  <2>4. DOMAIN req' = Conn /\ \A e \in Conn \ {c} : req'[e] = req[e]
    BY <1>1, <2>1 DEF Requests
  <2>5. Fine(req'[c])
    BY <1>1, <2>2, <2>3 DEF Requests, Kept, SignedIn
  <2> QED  BY <1>2, <1>3, <2>4, <2>5 DEF Requests
<1>6. CASE req[c].step # "idle" /\ Moved(c)
  <2>1. req[c] # Idle /\ DOMAIN req = Conn /\ DOMAIN req[c] = Fields /\ req[c].step # "idle"
    BY <1>1, <1>6 DEF Requests, Idle
  <2>2. req'[c] # Idle => Fine(req'[c])
    BY <1>1, <1>6, <2>1, MovedRequest DEF Requests, Kept
  <2> QED  BY <1>2, <1>3, <1>6, <2>1, <2>2, MovedRequest DEF Requests
<1> QED  BY <1>4, <1>5, <1>6, RequestSteps DEF Waiting

(* The step and the note of a request that goes on.                        *)
LEMMA WentTo ==
    ASSUME Requests, NEW c \in Conn, req[c].step # "idle", NEW s, NEW v, Goto(c, s, v)
    PROVE  req'[c].step = s /\ req'[c].seen = v /\ req'[c].op = req[c].op
  BY DEF Requests, Goto, Fields, Idle

(* Which action brings a request to a step.                                *)
Reached(c, s) ==
    /\ s \in {"grants", "ready"} => OptionalAuthenticate(c) \/ LoadGrants(c)
    /\ s = "admitted" => OptionalAuthenticate(c) \/ Admit(c)
    /\ s = "promote" => resolveIdentity(c) \/ CreateUserWithIdentity(c) \/ LookUpWinner(c)
    /\ s = "session" => promoteBootstrapAdmin(c)
    /\ s = "write" => ReadNamespace(c) \/ ReadMember(c) \/ ReadRemoved(c) \/ finishIdentityLink(c) \/ CountIdentities(c)
    /\ s = "resolve" => createRegistry(c) \/ AuthorizeAgain(c)
    /\ s = "again" => resolveNamespace(c)
    /\ s = "create" => createRegistry(c) \/ AuthorizeAgain(c) \/ resolveNamespace(c)
    /\ s = "authorize" => UpdateRegistry(c)
    /\ s = "move" => moveRegistryNamespace(c)

LEMMA StepsReached ==
    ASSUME Requests, NEW c \in Conn, AccountSteps(c) \/ TenantSteps(c)
    PROVE  Reached(c, req'[c].step)
<1>1. ASSUME Finish(c) PROVE req'[c].step = "idle"
  BY <1>1 DEF Finish, Requests, Idle
<1>2. CASE OptionalAuthenticate(c)
  <2>1. req'[c].step \in {"admitted", "grants", "ready"}
    BY <1>2 DEF OptionalAuthenticate, Requests
  <2> QED  BY <1>2, <2>1 DEF Reached
<1>3. CASE LoadGrants(c)
  <2>1. req'[c].step = "ready"
    BY <1>3 DEF LoadGrants, Requests, Fields, Idle
  <2> QED  BY <1>3, <2>1 DEF Reached
<1>4. CASE Admit(c)
  BY <1>1, <1>4, WentTo DEF Admit, Reached
<1>5. CASE ReadNamespace(c) \/ ReadMember(c) \/ ReadRemoved(c) \/ finishIdentityLink(c) \/ CountIdentities(c)
  <2>1. req'[c].step \in {"idle", "write"}
    BY <1>1, <1>5, WentTo DEF ReadNamespace, ReadMember, ReadRemoved, finishIdentityLink, CountIdentities, At
  <2> QED  BY <1>5, <2>1 DEF Reached
<1>6. CASE resolveIdentity(c) \/ CreateUserWithIdentity(c) \/ LookUpWinner(c)
  <2>1. req'[c].step \in {"idle", "promote", "signup", "lookup"}
    BY <1>1, <1>6, WentTo DEF resolveIdentity, CreateUserWithIdentity, LookUpWinner, At
  <2> QED  BY <1>6, <2>1 DEF Reached
<1>7. CASE promoteBootstrapAdmin(c)
  BY <1>7, WentTo DEF promoteBootstrapAdmin, At, Reached
<1>8. CASE createRegistry(c) \/ AuthorizeAgain(c)
  <2>1. req'[c].step \in {"idle", "resolve", "create"}
    BY <1>1, <1>8, WentTo DEF createRegistry, AuthorizeAgain, AuthorizeRegistry, At
  <2> QED  BY <1>8, <2>1 DEF Reached
<1>9. CASE resolveNamespace(c)
  <2>1. req'[c].step \in {"idle", "again", "create"}
    BY <1>1, <1>9, WentTo DEF resolveNamespace, At
  <2> QED  BY <1>9, <2>1 DEF Reached
<1>10. CASE ReadRegistry(c)
  <2>1. req'[c].step \in {"idle", "update"}
    BY <1>1, <1>10, WentTo DEF ReadRegistry
  <2> QED  BY <2>1 DEF Reached
<1>11. CASE UpdateRegistry(c)
  <2>1. req'[c].step \in {"idle", "authorize"}
    BY <1>1, <1>11, WentTo DEF UpdateRegistry
  <2> QED  BY <1>11, <2>1 DEF Reached
<1>12. CASE moveRegistryNamespace(c)
  <2>1. req'[c].step \in {"idle", "move"}
    BY <1>1, <1>12, WentTo, SMTT(60) DEF moveRegistryNamespace, At
  <2> QED  BY <1>12, <2>1 DEF Reached
<1>13. ASSUME \/ CreateNamespace(c) \/ UpdateNamespace(c) \/ DeleteNamespace(c) \/ SetMember(c) \/ RemoveMember(c)
              \/ UpdateUserRole(c) \/ CreateAPIKey(c) \/ DeleteAPIKey(c) \/ DevMintSession(c) \/ HandleLogout(c)
              \/ CreateSession(c) \/ LinkIdentity(c) \/ UnlinkIdentity(c) \/ SourceWrites(c) \/ CreateRegistry(c)
              \/ Respond(c)
      PROVE  Finish(c)
  BY <1>13, ZenonT(60) DEF Statement, CreateNamespace, UpdateNamespace, DeleteNamespace, SetMember, RemoveMember,
       UpdateUserRole, CreateAPIKey, DeleteAPIKey, DevMintSession, HandleLogout, CreateSession, LinkIdentity,
       UnlinkIdentity, SourceWrites, CreateSource, UpdateSource, DeleteSource, MoveNamespace, DeleteRegistry,
       CreateCluster, UpdateCluster, DeleteCluster, CreateRegistry, Respond
<1>14. CASE Finish(c)
  BY <1>1, <1>14 DEF Reached
<1> QED
  BY <1>2, <1>3, <1>4, <1>5, <1>6, <1>7, <1>8, <1>9, <1>10, <1>11, <1>12, <1>13, <1>14
     DEF AccountSteps, TenantSteps, SourceWrites

(* One request moves at a time, and past admission it is what it was.      *)
LEMMA SameRequests ==
    ASSUME Requests, NEW c \in Conn, AccountSteps(c) \/ TenantSteps(c)
    PROVE  /\ \A e \in Conn \ {c} : req'[e] = req[e]
           /\ req'[c].step \notin Waiting /\ ~OptionalAuthenticate(c) =>
                /\ Admit(c) \/ req[c].step \notin Waiting
                /\ req'[c].op = req[c].op /\ req'[c].arg = req[c].arg /\ req'[c].p = req[c].p
<1>1. CASE OptionalAuthenticate(c)
  BY <1>1 DEF OptionalAuthenticate, Requests
<1>2. CASE LoadGrants(c)
  <2>1. DOMAIN req[c] = Fields
    BY <1>2 DEF LoadGrants, Requests, Idle
  <2>2. req'[c].step = "ready" /\ \A e \in Conn \ {c} : req'[e] = req[e]
    BY <1>2, <2>1 DEF LoadGrants, Requests, Fields
  <2> QED  BY <2>2 DEF Waiting
<1>3. CASE req[c].step # "idle" /\ Moved(c) /\ (Admit(c) \/ req[c].step \notin Waiting)
  <2>1. req[c] # Idle /\ DOMAIN req = Conn /\ DOMAIN req[c] = Fields
    BY <1>3 DEF Requests, Idle
  <2>2. req'[c] = Idle => req'[c].step \in Waiting
    BY DEF Idle, Waiting
  <2> QED  BY <1>3, <2>1, <2>2, MovedRequest
<1> QED  BY <1>1, <1>2, <1>3, RequestSteps DEF Waiting

(* Sign-ins and links go on for accounts that exist.                       *)
LEMMA SignInsKept ==
    ASSUME IInv, NEW c \in Conn, AccountSteps(c) \/ TenantSteps(c)
    PROVE  SignIns'
<1>1. Kept /\ Tables(db) /\ Requests /\ SignIns
  BY KeptStep DEF IInv
<1> DEFINE Due(r) == \/ r.step \in {"promote", "session"} /\ r.op = "callback"
                     \/ r.step = "write" /\ r.op = "callback-link"
<1>2. ASSUME NEW e \in Conn, e # c, Due(req'[e]) PROVE Exists(db', req'[e].seen.user)
  <2>1. req'[e] = req[e]
    BY <1>1, <1>2, SameRequests
  <2> QED  BY <1>1, <1>2, <2>1 DEF SignIns, Kept
<1>3. ASSUME Due(req'[c]) PROVE Exists(db', req'[c].seen.user)
  <2>1. Reached(c, req'[c].step)
    BY <1>1, StepsReached
  <2>2. req'[c].step # "idle"
    BY <1>3
  <2>3. CASE resolveIdentity(c) \/ LookUpWinner(c)
    <3>1. req[c].arg.identity \in Identities /\ req[c].step # "idle"
      BY <1>1, <2>3 DEF resolveIdentity, LookUpWinner, At, Requests, Idle
    <3> DEFINE u == db.holder[req[c].arg.identity]
    <3>2. u # NoOne => Exists(db, u)
      BY <1>1, <3>1 DEF Tables
    <3>3. req'[c].step = "promote"
      BY <1>1, <1>3, <2>3, <3>1, WentTo DEF resolveIdentity, LookUpWinner, At, Finish, Requests, Idle
    <3>4. u # NoOne /\ req'[c].seen.user = u
      BY <1>1, <2>3, <3>1, <3>3, WentTo DEF resolveIdentity, LookUpWinner, At, Finish, Requests, Idle
    <3> QED  BY <1>1, <3>2, <3>4 DEF Kept
  <2>4. CASE CreateUserWithIdentity(c)
    <3> DEFINE u == CHOOSE v \in Users : db.role[v] = "none"
    <3>1. req[c].step # "idle"
      BY <2>4 DEF CreateUserWithIdentity, At
    <3>2. req'[c].step # "lookup"
      BY <1>3
    <3>3. /\ u \in Users /\ db' = [db EXCEPT !.role[u] = "viewer", !.holder[req[c].arg.identity] = u]
          /\ req'[c].seen = [user |-> u, role |-> "viewer"]
      BY <1>1, <2>4, <3>1, <3>2, WentTo DEF CreateUserWithIdentity, Write
    <3> HIDE DEF u
    <3>4. db'.role[u] = "viewer"
      BY <1>1, <3>3 DEF Tables
    <3> QED  BY <3>3, <3>4 DEF Exists
  <2>5. CASE promoteBootstrapAdmin(c)
    <3>1. Exists(db, req[c].seen.user) /\ req[c].step # "idle"
      BY <1>1, <2>5 DEF promoteBootstrapAdmin, At, SignIns
    <3>2. req'[c].seen = req[c].seen
      BY <1>1, <2>5, <3>1, WentTo DEF promoteBootstrapAdmin
    <3> QED  BY <1>1, <3>1, <3>2 DEF Kept
  <2>6. CASE finishIdentityLink(c)
    <3> DEFINE p == ValidateSession(req[c].cred.id)
    <3>1. req[c].step # "idle"
      BY <2>6 DEF finishIdentityLink, At
    <3>2. SignedIn(p) /\ req'[c].seen = [user |-> p.user]
      BY <1>1, <2>2, <2>6, <3>1, WentTo DEF finishIdentityLink, Finish, Requests, Idle
    <3>3. Exists(db, p.user)
      BY <1>1, <3>2 DEF Tables, ValidateSession, SignedIn, Anonymous
    <3> QED  BY <1>1, <3>2, <3>3 DEF Kept
  <2>7. CASE ReadNamespace(c) \/ ReadMember(c) \/ ReadRemoved(c) \/ CountIdentities(c)
    <3>1. req[c].step # "idle" /\ req[c].op \notin {"callback", "callback-link"}
      BY <2>7 DEF ReadNamespace, ReadMember, ReadRemoved, CountIdentities, At
    <3>2. req'[c].op = req[c].op
      BY <1>1, <2>2, <2>7, <3>1, WentTo DEF ReadNamespace, ReadMember, ReadRemoved, CountIdentities, Finish, Requests, Idle
    <3> QED  BY <1>3, <3>1, <3>2
  <2> QED  BY <1>3, <2>1, <2>3, <2>4, <2>5, <2>6, <2>7 DEF Reached
<1> QED  BY <1>2, <1>3 DEF SignIns

(* What the guards and the handler's check of an operation show.           *)
LEMMA Admission ==
    ASSUME NEW p, NEW id
    PROVE  /\ Admitted("create-api-key", p, id) \/ Admitted("create-registry", p, id) => SignedIn(p)
           /\ Admitted("set-namespace-member", p, id) => id \in DOMAIN db.ns
           /\ Admitted("create-source", p, id) => Can(p, id, "manage_source")
           /\ Admitted("create-cluster", p, id) => Can(p, id, "manage_cluster")
<1>1. /\ [id |-> "create-api-key", guards |-> {memberMW, writeMW}] \in registerCredentialOps
      /\ [id |-> "create-registry", guards |-> {authMW, writeMW}] \in registerRegistryOps
      /\ [id |-> "set-namespace-member", guards |-> {authMW, capMW("manage_member", "namespace"), writeMW}]
           \in registerNamespaceOps
  BY DEF registerCredentialOps, registerRegistryOps, registerNamespaceOps, Ops
<1>2. registerCredentialOps \subseteq Registered /\ registerRegistryOps \subseteq Registered
      /\ registerNamespaceOps \subseteq Registered
  BY DEF Registered
<1>3. /\ [id |-> "create-source", check |-> "capability", cap |-> "manage_source", at |-> "namespace"] \in sourceHandlers
      /\ [id |-> "create-cluster", check |-> "capability", cap |-> "manage_cluster", at |-> "namespace"] \in clusterWrites
  BY DEF sourceHandlers, clusterWrites, Checks
<1>4. sourceHandlers \subseteq HandlerChecks /\ clusterWrites \subseteq HandlerChecks
  BY DEF HandlerChecks
<1>5. ASSUME Admitted("create-api-key", p, id) PROVE SignedIn(p)
  <2>1. Passes(p, memberMW, id)
    BY <1>1, <1>2, <1>5 DEF Admitted
  <2> QED  BY <2>1 DEF Passes, memberMW, Guard, RequireMember
<1>6. ASSUME Admitted("create-registry", p, id) PROVE SignedIn(p)
  <2>1. Passes(p, authMW, id)
    BY <1>1, <1>2, <1>6 DEF Admitted
  <2> QED  BY <2>1 DEF Passes, authMW, Guard, RequireAuthenticated
<1>7. ASSUME Admitted("set-namespace-member", p, id) PROVE id \in DOMAIN db.ns
  <2>1. Passes(p, capMW("manage_member", "namespace"), id)
    BY <1>1, <1>2, <1>7 DEF Admitted
  <2> QED  BY <2>1 DEF Passes, capMW, Guard, RequireCapability, HangsFrom, namespaceParam
<1>8. ASSUME Admitted("create-source", p, id) PROVE Can(p, id, "manage_source")
  <2>1. HandlerAllows(p, [id |-> "create-source", check |-> "capability", cap |-> "manage_source", at |-> "namespace"], id)
    BY <1>3, <1>4, <1>8 DEF Admitted
  <2> QED  BY <2>1 DEF HandlerAllows, requireNamespaceCapability, HangsFrom, namespaceParam
<1>9. ASSUME Admitted("create-cluster", p, id) PROVE Can(p, id, "manage_cluster")
  <2>1. HandlerAllows(p, [id |-> "create-cluster", check |-> "capability", cap |-> "manage_cluster", at |-> "namespace"], id)
    BY <1>3, <1>4, <1>9 DEF Admitted
  <2> QED  BY <2>1 DEF HandlerAllows, requireNamespaceCapability, HangsFrom, namespaceParam
<1> QED  BY <1>5, <1>6, <1>7, <1>8, <1>9

LEMMA ScreenedKept ==
    ASSUME IInv, NEW c \in Conn, AccountSteps(c) \/ TenantSteps(c)
    PROVE  Screened'
<1>1. Kept /\ Tables(db) /\ Requests /\ Screened
  BY KeptStep DEF IInv
<1> DEFINE Shown(r, used) ==
             /\ r.op \in {"create-api-key", "create-registry"} => SignedIn(r.p)
             /\ r.op = "set-namespace-member" => r.arg.on \in used
             /\ r.op = "create-source" => Can(r.p, r.arg.on, "manage_source")
             /\ r.op = "create-cluster" => Can(r.p, r.arg.on, "manage_cluster")
<1>2. db.used \subseteq db'.used
  BY <1>1 DEF Kept, Issued
<1>3. ASSUME NEW e \in Conn, e # c, req'[e].step \notin Waiting PROVE Shown(req'[e], db'.used)
  BY <1>1, <1>2, <1>3, SameRequests DEF Screened
<1>4. ASSUME req'[c].step \notin Waiting PROVE Shown(req'[c], db'.used)
  <2>1. CASE OptionalAuthenticate(c)
    <3>1. req'[c].op \in Browser
      BY <1>1, <1>4, <2>1 DEF OptionalAuthenticate, Requests, Waiting
    <3> QED  BY <3>1 DEF Browser
  <2>2. CASE ~OptionalAuthenticate(c) /\ Admit(c)
    <3>1. req[c].step # "idle" /\ req'[c].step # "idle"
      BY <1>4, <2>2 DEF Admit, Waiting
    <3>2. Admitted(req[c].op, req[c].p, req[c].arg.on)
      BY <1>1, <2>2, <3>1 DEF Admit, Finish, Requests, Idle
    <3>3. Shown(req[c], db.used)
      BY <1>1, <3>2, Admission DEF Tables
    <3> QED  BY <1>1, <1>2, <1>4, <2>2, <3>3, SameRequests
  <2>3. CASE ~OptionalAuthenticate(c) /\ ~Admit(c)
    BY <1>1, <1>2, <1>4, <2>3, SameRequests DEF Screened
  <2> QED  BY <2>1, <2>2, <2>3
<1> QED  BY <1>3, <1>4 DEF Screened

(* A request that will grant or remove a role does not name an owner.      *)
LEMMA OwnersSafeKept ==
    ASSUME IInv, NEW c \in Conn, AccountSteps(c) \/ TenantSteps(c)
    PROVE  OwnersSafe' /\ Adopted'
<1>1. Kept /\ Tables(db) /\ Requests /\ Screened /\ OwnersSafe /\ Adopted
  BY KeptStep DEF IInv
<1>2. Adopted'
  BY <1>1 DEF Adopted, Kept, Issued, Tables
<1> DEFINE Due(r) == /\ r.step = "write"
                     /\ \/ r.op = "set-namespace-member" /\ r.arg.role # "owner"
                        \/ r.op = "remove-namespace-member"
<1> DEFINE Safe(n, u) ==
             /\ n \in db'.used
             /\ n \in DOMAIN db'.ns \ adopted' /\ <<n, u>> \in DOMAIN db'.member => db'.member[<<n, u>>] # "owner"
<1>3. ASSUME NEW n \in db.used, NEW u \in Users, n \in DOMAIN db.ns \ adopted => RoleIn(n, u) # "owner"
      PROVE  Safe(n, u)
  BY <1>1, <1>3 DEF Kept, Issued, NewOwnersAdopted, RoleIn
<1>4. ASSUME NEW e \in Conn, Due(req[e])
      PROVE  /\ req[e].arg.on \in db.used /\ req[e].arg.who \in Users
             /\ req[e].arg.on \in DOMAIN db.ns \ adopted => RoleIn(req[e].arg.on, req[e].arg.who) # "owner"
  BY <1>1, <1>4 DEF OwnersSafe, Requests, Idle
<1>5. ASSUME NEW e \in Conn, e # c, Due(req'[e]) PROVE Safe(req'[e].arg.on, req'[e].arg.who)
  <2>1. req'[e] = req[e]
    BY <1>1, <1>5, SameRequests
  <2>2. Safe(req[e].arg.on, req[e].arg.who)
    BY <1>3, <1>4, <1>5, <2>1
  <2> QED  BY <2>1, <2>2
<1>6. ASSUME Due(req'[c]) PROVE Safe(req'[c].arg.on, req'[c].arg.who)
  <2>1. /\ ReadNamespace(c) \/ ReadMember(c) \/ ReadRemoved(c) \/ finishIdentityLink(c) \/ CountIdentities(c)
        /\ req'[c].step = "write"
    BY <1>1, <1>6, StepsReached DEF Reached
  <2>2. req[c].step = "admitted" /\ ~OptionalAuthenticate(c)
    BY <2>1 DEF ReadNamespace, ReadMember, ReadRemoved, finishIdentityLink, CountIdentities, At, OptionalAuthenticate, Idle
  <2>3. req'[c].op = req[c].op /\ req'[c].arg = req[c].arg /\ req[c].arg.who \in Users
    BY <1>1, <2>1, <2>2, SameRequests DEF Waiting, Requests, Idle
  <2>4. CASE ReadMember(c)
    <3>1. req[c].arg.on \in db.used
      BY <1>1, <2>2, <2>4 DEF ReadMember, At, Screened, Waiting
    <3>2. RoleIn(req[c].arg.on, req[c].arg.who) # "owner"
      BY <1>1, <1>6, <2>1, <2>2, <2>3, <2>4 DEF ReadMember, At, Finish, Requests, Idle
    <3>3. Safe(req[c].arg.on, req[c].arg.who)
      BY <1>3, <2>3, <3>1, <3>2
    <3> QED  BY <2>3, <3>3
  <2>5. CASE ReadRemoved(c)
    <3>1. RoleIn(req[c].arg.on, req[c].arg.who) \notin {"none", "owner"}
      BY <1>1, <2>1, <2>5 DEF ReadRemoved, Finish, Requests, Idle
    <3>2. <<req[c].arg.on, req[c].arg.who>> \in DOMAIN db.member
      BY <3>1 DEF RoleIn
    <3>3. req[c].arg.on \in db.used
      BY <1>1, <3>2 DEF Tables
    <3>4. Safe(req[c].arg.on, req[c].arg.who)
      BY <1>3, <2>3, <3>1, <3>3
    <3> QED  BY <2>3, <3>4
  <2>6. CASE ReadNamespace(c) \/ finishIdentityLink(c) \/ CountIdentities(c)
    BY <1>6, <2>3, <2>6 DEF ReadNamespace, finishIdentityLink, CountIdentities, At
  <2> QED  BY <2>1, <2>4, <2>5, <2>6
<1> QED  BY <1>2, <1>5, <1>6 DEF OwnersSafe, RoleIn

(* A registry goes only where its caller may put one.                      *)
LEMMA TargetsKept ==
    ASSUME IInv, NEW c \in Conn, AccountSteps(c) \/ TenantSteps(c)
    PROVE  Targets'
<1>1. Kept /\ Tables(db) /\ Requests /\ Screened /\ Targets
  BY KeptStep DEF IInv
<1> DEFINE Own(n, u) ==
             /\ n \in db'.used
             /\ n \in DOMAIN db'.ns =>
                  n \notin adopted' /\ <<n, u>> \in DOMAIN db'.member /\ db'.member[<<n, u>>] = "owner"
           Pulled(s) == s \in db'.used /\ (s \in DOMAIN db'.source => db'.source[s].kind = "oci_registry")
           Fine(r) ==
             /\ r.step \in {"resolve", "again", "create"} /\ r.op = "create-registry" => DOMAIN r.seen = {"ns", "tries"}
             /\ r.step = "create" /\ r.op = "create-registry" /\ r.seen.ns # NoNs =>
                  Can(r.p, r.seen.ns, "manage_source") \/ Own(r.seen.ns, r.p.user)
             /\ r.step \in {"authorize", "move"} /\ r.op = "update-registry" => Pulled(r.arg.on)
             /\ r.step = "move" /\ r.op = "update-registry" => Can(r.p, r.seen.ns, "manage_source")
<1>2. ASSUME NEW n, NEW u \in Users, Minted(n, u) PROVE Own(n, u)
  <2>1. n \in db'.used
    BY <1>1, <1>2 DEF Minted, Kept, Issued
  <2>2. ASSUME n \in DOMAIN db'.ns
        PROVE  n \notin adopted' /\ <<n, u>> \in DOMAIN db'.member /\ db'.member[<<n, u>>] = "owner"
    <3>1. n \in DOMAIN db.ns \ adopted /\ RoleIn(n, u) = "owner"
      BY <1>1, <1>2, <2>2 DEF Minted, Kept, Issued
    <3>2. u \in Owners(n)
      BY <3>1 DEF Owners
    <3>3. (Owners(n))' = Owners(n) /\ n \notin adopted'
      BY <1>1, <2>2, <3>1, <3>2 DEF Kept, OwnersKept
    <3> QED  BY <3>2, <3>3 DEF Owners, RoleIn
  <2> QED  BY <2>1, <2>2
<1>3. ASSUME NEW s \in db.used, s \in DOMAIN db.source => db.source[s].kind = "oci_registry" PROVE Pulled(s)
  BY <1>1, <1>3 DEF Kept, Issued
<1>4. ASSUME NEW e \in Conn, e # c PROVE Fine(req'[e])
  <2>1. req'[e] = req[e]
    BY <1>1, <1>4, SameRequests
  <2>2. ASSUME req[e].step = "create", req[e].op = "create-registry" PROVE req[e].p.user \in Users
    BY <1>1, <2>2 DEF Screened, Waiting, Requests, Idle, Exists
  <2> HIDE DEF Own, Pulled
  <2>3. Fine(req[e])
    BY <1>1, <1>2, <1>3, <2>2 DEF Targets
  <2> QED  BY <2>1, <2>3
<1>5. Fine(req'[c])
  <2> DEFINE Going == req'[c].step \in {"resolve", "again", "create", "authorize", "move"}
  <2>1. CASE ~Going
    BY <2>1
  <2>2. ASSUME Going
        PROVE  /\ createRegistry(c) \/ AuthorizeAgain(c) \/ resolveNamespace(c) \/ UpdateRegistry(c) \/ moveRegistryNamespace(c)
               /\ req[c].step # "idle" /\ req'[c].op = req[c].op /\ req'[c].arg = req[c].arg /\ req'[c].p = req[c].p
               /\ ~Finish(c)
    <3>1. createRegistry(c) \/ AuthorizeAgain(c) \/ resolveNamespace(c) \/ UpdateRegistry(c) \/ moveRegistryNamespace(c)
      BY <1>1, <2>2, StepsReached DEF Reached
    <3>2. req[c].step \notin Waiting /\ ~OptionalAuthenticate(c)
      BY <3>1 DEF createRegistry, AuthorizeAgain, resolveNamespace, UpdateRegistry, moveRegistryNamespace, At,
                  Waiting, OptionalAuthenticate, Idle
    <3>3. ~Finish(c)
      BY <1>1, <2>2 DEF Finish, Requests, Idle
    <3> QED  BY <1>1, <2>2, <3>1, <3>2, <3>3, SameRequests DEF Waiting
  <2>3. CASE Going /\ (createRegistry(c) \/ AuthorizeAgain(c))
    <3>1. PICK tries : AuthorizeRegistry(c, tries)
      BY <2>3 DEF createRegistry, AuthorizeAgain
    <3> DEFINE target == IF req[c].arg.name2 = Blank THEN [ok |-> TRUE, ns |-> NoNs]
                         ELSE authorizeExistingNamespace(req[c].p, req[c].arg.name2)
    <3>2. target.ok /\ \E s \in {"resolve", "create"} : Goto(c, s, [ns |-> target.ns, tries |-> tries])
      BY <2>2, <2>3, <3>1 DEF AuthorizeRegistry
    <3>3. target.ok /\ target.ns # NoNs => Can(req[c].p, target.ns, "manage_source")
      BY DEF authorizeExistingNamespace
    <3> HIDE DEF target
    <3>4. req'[c].step \in {"resolve", "create"} /\ req'[c].seen = [ns |-> target.ns, tries |-> tries]
      BY <1>1, <2>2, <2>3, <3>2, WentTo
    <3> QED  BY <2>2, <2>3, <3>2, <3>3, <3>4
  <2>4. CASE Going /\ resolveNamespace(c)
    <3>1. req[c].step = "resolve" /\ req[c].op = "create-registry"
      BY <2>4 DEF resolveNamespace, At
    <3>2. DOMAIN req[c].seen = {"ns", "tries"} /\ req[c].p.user \in Users
      BY <1>1, <3>1 DEF Targets, Screened, Waiting, Requests, Idle, Exists
    <3>3. \/ Goto(c, "again", req[c].seen)
          \/ /\ FreshId \notin db.used /\ Goto(c, "create", [req[c].seen EXCEPT !.ns = FreshId])
             /\ adopted' = adopted
             /\ \E name, public : db' = InsertNamespace(db, FreshId, name, public, req[c].p.user)
      BY <2>2, <2>4, FreshIdIsNew DEF resolveNamespace, Write
    <3>4. CASE Goto(c, "again", req[c].seen)
      BY <1>1, <2>2, <2>4, <3>2, <3>4, WentTo
    <3>5. CASE ~Goto(c, "again", req[c].seen)
      <4>1. PICK name, public :
              /\ FreshId \notin db.used /\ Goto(c, "create", [req[c].seen EXCEPT !.ns = FreshId])
              /\ adopted' = adopted
              /\ db' = InsertNamespace(db, FreshId, name, public, req[c].p.user)
        BY <3>3, <3>5
      <4>2. /\ FreshId \notin db.used /\ Goto(c, "create", [req[c].seen EXCEPT !.ns = FreshId]) /\ adopted' = adopted
            /\ db'.member = Upsert(db.member, <<FreshId, req[c].p.user>>, "owner")
            /\ db'.used = db.used \union {FreshId}
        BY <1>1, <4>1 DEF InsertNamespace, Tables
      <4> DEFINE n == FreshId
      <4> HIDE DEF n
      <4>3. req'[c].step = "create" /\ req'[c].seen = [req[c].seen EXCEPT !.ns = n]
        BY <1>1, <2>2, <2>4, <4>2, WentTo DEF n
      <4>4. DOMAIN req'[c].seen = {"ns", "tries"} /\ req'[c].seen.ns = n
        BY <3>2, <4>3
      <4>5. n \notin adopted
        BY <4>2 DEF IInv, Adopted, n
      <4>6. Own(n, req[c].p.user)
        BY <4>2, <4>5 DEF Upsert, n
      <4> HIDE DEF Own
      <4> QED  BY <2>2, <2>4, <4>3, <4>4, <4>6
    <3> QED  BY <3>4, <3>5
  <2>5. CASE Going /\ UpdateRegistry(c)
    <3>1. req[c].arg.on \in OfKind("oci_registry") /\ Goto(c, "authorize", req[c].seen)
      BY <2>2, <2>5 DEF UpdateRegistry
    <3>2. req'[c].step = "authorize"
      BY <1>1, <2>2, <2>5, <3>1, WentTo
    <3>3. Pulled(req[c].arg.on)
      BY <1>1, <1>3, <3>1 DEF OfKind, Tables
    <3> HIDE DEF Pulled
    <3> QED  BY <2>2, <2>5, <3>2, <3>3
  <2>6. CASE Going /\ moveRegistryNamespace(c)
    <3> DEFINE target == authorizeExistingNamespace(req[c].p, req[c].arg.name2)
    <3>1. /\ req[c].step = "authorize" /\ req[c].op = "update-registry"
          /\ target.ok /\ target.ns # NoNs /\ Goto(c, "move", [ns |-> target.ns])
      BY <2>2, <2>6 DEF moveRegistryNamespace, At
    <3>2. Can(req[c].p, target.ns, "manage_source")
      BY <3>1 DEF authorizeExistingNamespace
    <3> HIDE DEF target
    <3>3. req'[c].step = "move" /\ req'[c].seen = [ns |-> target.ns]
      BY <1>1, <2>2, <2>6, <3>1, WentTo
    <3>4. Pulled(req[c].arg.on)
      BY <1>1, <1>3, <3>1 DEF Targets
    <3> HIDE DEF Pulled
    <3> QED  BY <2>2, <2>6, <3>2, <3>3, <3>4
  <2> QED  BY <2>1, <2>2, <2>3, <2>4, <2>5, <2>6
<1> QED  BY <1>4, <1>5, ZenonT(60) DEF Targets, Minted, RoleIn

(* When no tenant's row changes, what the requests wait for stays as it is. *)
LEMMA Undisturbed ==
    ASSUME IInv, Kept, req' = req, TenancySame
    PROVE  IInv'
<1>1. Tables(db') /\ conf' = conf /\ \A u : Exists(db, u) => Exists(db', u)
  BY DEF Kept
<1>2. /\ db'.ns = db.ns /\ db'.member = db.member /\ adopted' = adopted
      /\ db'.source = db.source /\ db'.used = db.used
  BY DEF TenancySame, NamespacesSame
<1>3. Requests' /\ SignIns'
  BY <1>1 DEF IInv, Requests, SignIns
<1>4. Screened' /\ Adopted'
  BY <1>2 DEF IInv, Screened, Adopted
<1>5. OwnersSafe' /\ Targets'
  BY <1>2, Zenon DEF IInv, OwnersSafe, Targets, Minted, RoleIn
<1> QED  BY <1>1, <1>3, <1>4, <1>5 DEF IInv

LEMMA InvInit == Init => IInv
<1> SUFFICES ASSUME Init PROVE IInv
  OBVIOUS
<1>1. PICK w \in Worlds : db = w.db /\ conf = w.conf
  BY DEF Init
<1>2. req = [c \in Conn |-> Idle] /\ adopted = {}
  BY DEF Init
<1>3. Tables(db)
  BY <1>1, WorldAssumption
<1>4. \A c \in Conn : req[c] = Idle /\ req[c].step = "idle"
  BY <1>2 DEF Idle
<1>5. Requests
  BY <1>1, <1>2, <1>4 DEF Requests
<1>6. SignIns /\ Screened /\ Adopted /\ OwnersSafe /\ Targets
  BY <1>2, <1>4 DEF SignIns, Screened, Adopted, OwnersSafe, Targets, Waiting
<1> QED  BY <1>3, <1>5, <1>6 DEF IInv

LEMMA InvStep == IInv /\ [Next]_vars => IInv' /\ Kept
<1> SUFFICES ASSUME IInv, [Next]_vars PROVE IInv' /\ Kept
  OBVIOUS
<1>1. ASSUME NEW c \in Conn, AccountSteps(c) \/ TenantSteps(c) PROVE IInv' /\ Kept
  <2>1. Kept
    BY <1>1, KeptStep
  <2>2. Tables(db')
    BY <2>1 DEF Kept
  <2>3. Requests' /\ SignIns' /\ Screened' /\ OwnersSafe' /\ Adopted' /\ Targets'
    BY <1>1, RequestsKept, SignInsKept, ScreenedKept, OwnersSafeKept, TargetsKept
  <2> QED  BY <2>1, <2>2, <2>3 DEF IInv
<1>2. CASE Environment
  <2>1. Kept
    BY <1>2, KeptStep
  <2>2. TenancySame
    BY <1>2, AccountFrame DEF IInv
  <2>3. req' = req
    BY <1>2 DEF Environment, SessionExpires, CleanExpiredSessions
  <2> QED  BY <2>1, <2>2, <2>3, Undisturbed
<1>3. CASE UNCHANGED vars
  <2>1. Kept
    BY <1>3, KeptStep
  <2>2. TenancySame /\ req' = req
    BY <1>3 DEF vars, TenancySame, NamespacesSame
  <2> QED  BY <2>1, <2>2, Undisturbed
<1> QED  BY <1>1, <1>2, <1>3 DEF Next

(* What the requests under way rely on holds, whatever they race with.     *)
THEOREM Invariance == Spec => []IInv
<1>1. IInv /\ [Next]_vars => IInv'
  BY InvStep
<1> QED  BY InvInit, <1>1, PTL DEF Spec

-----------------------------------------------------------------------------
(***************************************************************************)
(* Theorems                                                                *)
(***************************************************************************)
(* Sign-ins and links never take an identity from the account that holds   *)
(* it, and an account appears only with an identity nobody held: both of   *)
(* LinkIdentity and CreateUserWithIdentity leave the race to UNIQUE        *)
(* (provider, subject) (service/auth.go).                                  *)
THEOREM IdentitiesStay == Spec => IdentityNeverMoves
<1>1. IInv /\ [Next]_vars =>
        [/\ \A i \in Identities : db.holder[i] = NoOne \/ db'.holder[i] \in {db.holder[i], NoOne}
         /\ \A u \in Users : db.role[u] = "none" /\ db'.role[u] # "none" =>
              \E i \in Identities : db.holder[i] = NoOne /\ db'.holder[i] = u]_vars
  BY InvStep DEF Kept, IdentityKept
<1> QED  BY <1>1, Invariance, PTL DEF Spec, IdentityNeverMoves

(* Whatever grants and removals race, a namespace that was not adopted     *)
(* keeps its owner and gains no second: what a request read of the member   *)
(* it writes is still so when it writes it (service/namespace_member.go).   *)
THEOREM OwnersStay == Spec => OwnerKept
<1>1. IInv /\ [Next]_vars =>
        [\A n \in DOMAIN db.ns \ adopted :
           Owners(n) # {} /\ n \in DOMAIN db'.ns => (Owners(n))' = Owners(n)]_vars
  BY InvStep DEF Kept, OwnersKept
<1> QED  BY <1>1, Invariance, PTL DEF Spec, OwnerKept

(* The body of PlantedByRight, for one row.                                *)
Planted(s) ==
    LET n == db'.source[s].ns
        cap == IF db'.source[s].kind = "cluster" THEN "manage_cluster" ELSE "manage_source"
    IN  \/ s \in DOMAIN db.source /\ db.source[s].ns = n
        \/ n \notin DOMAIN db.ns
        \/ \E c \in Conn : /\ req'[c] # req[c]
                           /\ \/ Can(req[c].p, n, cap)
                              \/ RoleIn(n, req[c].p.user) = "owner"

LEMMA PlantedStep ==
    ASSUME IInv, NEW c \in Conn, NamespaceWrites(c) \/ SourceWrites(c), NEW s \in DOMAIN db'.source
    PROVE  Planted(s)
<1>1. Tables(db) /\ Requests /\ Screened /\ Targets
  BY DEF IInv
<1>2. /\ DOMAIN db = {"role", "holder", "session", "expired", "key", "ns", "member", "source", "sbom",
                      "artifact", "used"}
      /\ \A x \in DOMAIN db.source : DOMAIN db.source[x] = {"ns", "kind", "name"} /\ db.source[x].ns \in DOMAIN db.ns
      /\ DOMAIN db.ns \subseteq db.used /\ DOMAIN db.source \subseteq db.used
  BY <1>1 DEF Tables
<1>3. ASSUME s \in DOMAIN db.source, db'.source[s].ns = db.source[s].ns PROVE Planted(s)
  BY <1>3 DEF Planted
<1>4. ASSUME Finish(c), req[c].step # "idle" PROVE req'[c] # req[c]
  BY <1>1, <1>4 DEF Finish, Requests, Idle
<1>5. ASSUME NEW id, NEW ns, NEW kind, NEW name, kind # "cluster",
             db'.source = Upsert(db.source, id, [ns |-> ns, kind |-> kind, name |-> name]),
             \/ ns \notin DOMAIN db.ns
             \/ /\ Can(req[c].p, ns, "manage_source") \/ RoleIn(ns, req[c].p.user) = "owner"
                /\ req'[c] # req[c]
      PROVE  Planted(s)
  BY <1>5 DEF Planted, Upsert
<1>6. CASE CreateNamespace(c) \/ UpdateNamespace(c) \/ SetMember(c) \/ RemoveMember(c) \/ resolveNamespace(c)
  <2>1. db'.source = db.source
    BY <1>2, <1>6, ZenonT(60) DEF CreateNamespace, UpdateNamespace, SetMember, RemoveMember, resolveNamespace, Statement,
                      Write, Read, InsertNamespace, AddNamespaceMember
  <2> QED  BY <1>3, <2>1
<1>7. CASE DeleteNamespace(c) \/ DeleteSource(c) \/ DeleteRegistry(c) \/ DeleteCluster(c)
  <2>1. \E S : db'.source = db.source \/ db'.source = Without(db.source, S)
    <3>1. CASE DeleteNamespace(c)
      BY <1>2, <3>1 DEF DeleteNamespace, DropNamespace, Statement, Write, Read
    <3>2. CASE DeleteSource(c) \/ DeleteRegistry(c) \/ DeleteCluster(c)
      BY <1>2, <3>2 DEF DeleteSource, DeleteRegistry, DeleteCluster, DropSource, Statement, Write, Read
    <3> QED  BY <1>7, <3>1, <3>2
  <2>2. s \in DOMAIN db.source /\ db'.source[s] = db.source[s]
    BY <2>1 DEF Without, Restrict
  <2> QED  BY <1>3, <2>2
<1>8. CASE UpdateSource(c) \/ UpdateCluster(c) \/ UpdateRegistry(c)
  <2> DEFINE id == req[c].arg.on
  <2>1. \E name : db'.source = db.source \/ db'.source = [db.source EXCEPT ![id].name = name]
    <3>1. CASE UpdateSource(c) \/ UpdateCluster(c)
      <4>1. db' = db \/ db' = Renamed(id, req[c].arg.name)
        BY <3>1 DEF UpdateSource, UpdateCluster, Statement, Write, Read
      <4>2. Renamed(id, req[c].arg.name).source = [db.source EXCEPT ![id].name = req[c].arg.name]
        BY <1>2 DEF Renamed
      <4> QED  BY <4>1, <4>2, Zenon
    <3>2. CASE UpdateRegistry(c)
      <4> DEFINE d == Renamed(id, req[c].seen.name)
      <4>1. db' = db \/ db' = d \/ \E i, row : db' = [d EXCEPT !.ns[i] = row]
        BY <3>2 DEF UpdateRegistry, UpdateRegistryRow, Write, Read
      <4>2. DOMAIN d = DOMAIN db /\ d.source = [db.source EXCEPT ![id].name = req[c].seen.name]
        BY <1>2 DEF Renamed
      <4> HIDE DEF d
      <4>3. db'.source = db.source \/ db'.source = d.source
        BY <1>2, <4>1, <4>2
      <4> QED  BY <4>2, <4>3, Zenon
    <3> QED  BY <1>8, <3>1, <3>2
  <2>2. s \in DOMAIN db.source /\ db'.source[s].ns = db.source[s].ns
    BY <1>2, <2>1
  <2> QED  BY <1>3, <2>2
<1>9. CASE CreateSource(c)
  <2>1. req'[c] # req[c] /\ Can(req[c].p, req[c].arg.on, "manage_source")
    BY <1>1, <1>4, <1>9 DEF CreateSource, Statement, At, Screened, Waiting
  <2>2. \/ db'.source = db.source
        \/ \E name : db'.source = Upsert(db.source, FreshId, [ns |-> req[c].arg.on, kind |-> "upload", name |-> name])
    BY <1>2, <1>9 DEF CreateSource, Statement, Write, Read, InsertSource
  <2> QED  BY <1>3, <1>5, <2>1, <2>2
<1>10. CASE CreateCluster(c)
  <2>1. req'[c] # req[c] /\ Can(req[c].p, req[c].arg.on, "manage_cluster")
    BY <1>1, <1>4, <1>10 DEF CreateCluster, Statement, At, Screened, Waiting
  <2>2. \/ db'.source = db.source
        \/ \E name : db'.source = Upsert(db.source, FreshId, [ns |-> req[c].arg.on, kind |-> "cluster", name |-> name])
    BY <1>2, <1>10 DEF CreateCluster, Statement, Write, Read, InsertSource
  <2>3. PICK name :
          \/ db'.source = db.source
          \/ db'.source = Upsert(db.source, FreshId, [ns |-> req[c].arg.on, kind |-> "cluster", name |-> name])
    BY <2>2
  <2>4. CASE s \in DOMAIN db.source /\ db'.source[s] = db.source[s]
    BY <1>3, <2>4
  <2>5. CASE db'.source[s] = [ns |-> req[c].arg.on, kind |-> "cluster", name |-> name]
    BY <2>1, <2>5 DEF Planted
  <2> QED  BY <2>3, <2>4, <2>5 DEF Upsert
<1>11. CASE CreateRegistry(c)
  <2> DEFINE ns == IF req[c].seen.ns = NoNs THEN FreshId ELSE req[c].seen.ns
  <2>1. req'[c] # req[c] /\ FreshId \notin DOMAIN db.ns
    BY <1>2, <1>4, <1>11, FreshIdIsNew DEF CreateRegistry, Statement, At
  <2>2. \/ db'.source = db.source
        \/ \E name : db'.source = Upsert(db.source, FreshId, [ns |-> ns, kind |-> "oci_registry", name |-> name])
    BY <1>2, <1>11 DEF CreateRegistry, Statement, Write, Read, InsertSource, InsertNamespace
  <2>3. \/ ns \notin DOMAIN db.ns
        \/ Can(req[c].p, ns, "manage_source") \/ RoleIn(ns, req[c].p.user) = "owner"
    BY <1>1, <1>11, <2>1 DEF CreateRegistry, At, Targets, Minted
  <2> HIDE DEF ns
  <2> QED  BY <1>3, <1>5, <2>1, <2>2, <2>3
<1>12. CASE MoveNamespace(c)
  <2> DEFINE id == req[c].arg.on
             n == req[c].seen.ns
  <2>1. /\ req'[c] # req[c] /\ Can(req[c].p, n, "manage_source")
        /\ id \in DOMAIN db.source => db.source[id].kind = "oci_registry"
    BY <1>1, <1>4, <1>12 DEF MoveNamespace, Statement, At, Targets
  <2>2. \/ db' = db
        \/ id \in DOMAIN db.source /\ db' = [db EXCEPT !.source[id].ns = n]
    BY <1>12 DEF MoveNamespace, Statement, Write, Read
  <2> HIDE DEF id, n
  <2>3. CASE s \in DOMAIN db.source /\ db'.source[s].ns = db.source[s].ns
    BY <1>3, <2>3
  <2>4. CASE db'.source[s].ns = n /\ db'.source[s].kind = "oci_registry"
    BY <2>1, <2>4 DEF Planted
  <2>5. \/ db'.source = db.source
        \/ id \in DOMAIN db.source /\ db'.source = [db.source EXCEPT ![id].ns = n]
    BY <1>2, <2>2
  <2> QED  BY <1>2, <2>1, <2>3, <2>4, <2>5
<1> QED
  BY <1>6, <1>7, <1>8, <1>9, <1>10, <1>11, <1>12 DEF NamespaceWrites, SourceWrites

(* A source, registry or cluster appears in, and a registry moves to, only *)
(* a namespace that its request made or whose capability its caller holds:  *)
(* one that another tenant created meanwhile is authorized again            *)
(* (api/registry.go createRegistry, moveRegistryNamespace).                 *)
THEOREM NothingPlanted == Spec => PlantedByRight
<1>1. ASSUME IInv, [Next]_vars, NEW s \in DOMAIN db'.source PROVE Planted(s)
  <2>1. ASSUME db'.source = db.source PROVE Planted(s)
    BY <2>1 DEF Planted
  <2>2. ASSUME NEW c \in Conn, AccountSteps(c) \/ TenantSteps(c) PROVE Planted(s)
    <3>1. CASE UNCHANGED <<db, adopted, conf>>
      BY <2>1, <3>1
    <3>2. CASE AccountWrites(c)
      BY <1>1, <2>1, <3>2, AccountFrame DEF TenancySame, IInv
    <3>3. CASE NamespaceWrites(c) \/ SourceWrites(c)
      BY <1>1, <3>3, PlantedStep
    <3> QED  BY <2>2, <3>1, <3>2, <3>3, WriteSteps
  <2>3. CASE Environment
    BY <1>1, <2>1, <2>3, AccountFrame DEF TenancySame, IInv
  <2>4. CASE UNCHANGED vars
    BY <2>1, <2>4 DEF vars
  <2> QED  BY <1>1, <2>2, <2>3, <2>4 DEF Next
<1>2. IInv /\ [Next]_vars =>
        [\A s \in DOMAIN db'.source :
           LET n == db'.source[s].ns
               cap == IF db'.source[s].kind = "cluster" THEN "manage_cluster" ELSE "manage_source"
           IN  \/ s \in DOMAIN db.source /\ db.source[s].ns = n
               \/ n \notin DOMAIN db.ns
               \/ \E c \in Conn : /\ req'[c] # req[c]
                                  /\ \/ Can(req[c].p, n, cap)
                                     \/ RoleIn(n, req[c].p.user) = "owner"]_vars
  BY <1>1, Zenon DEF Planted
<1> QED  BY <1>2, Invariance, PTL DEF Spec, PlantedByRight

-----------------------------------------------------------------------------
(***************************************************************************)
(* The tables, taken apart                                                 *)
(***************************************************************************)
(* An entry of the router's table, of the handlers' checks and of the      *)
(* contract belongs to one of the groups each is written down in.          *)
Routed(o) ==
    \/ o \in registerHealthOps \/ o \in registerVersionOp \/ o \in registerSBOMOps \/ o \in registerComponentOps
    \/ o \in registerLicenseOps \/ o \in registerArtifactOps \/ o \in registerDiffOps \/ o \in registerWebhookOp
    \/ o \in registerRegistryOps \/ o \in registerNamespaceOps \/ o \in registerSourceOps \/ o \in registerClusterOps
    \/ o \in registerStatsOps \/ o \in registerDiscoverOps \/ o \in registerVulnOps \/ o \in registerJobOps
    \/ o \in registerMeOps \/ o \in registerCredentialOps \/ o \in registerDevOps

Checked(h) ==
    \/ h \in namespaceHandlers \/ h \in sourceHandlers \/ h \in clusterWrites \/ h \in clusterReads
    \/ h \in registryReads \/ h \in resolveIngestSource

Ruled(x) ==
    \/ x \in rulesMeta \/ x \in rulesAuth \/ x \in rulesSBOMs \/ x \in rulesArtifacts
    \/ x \in rulesComponents \/ x \in rulesVulnerabilities \/ x \in rulesNamespaces \/ x \in rulesSources
    \/ x \in rulesClusters \/ x \in rulesRegistries \/ x \in rulesJobs

(* The three tables are the unions of their groups.                        *)
LEMMA Parts ==
    /\ \A o : o \in Registered <=> Routed(o)
    /\ \A h : h \in HandlerChecks <=> Checked(h)
    /\ \A x : x \in authRules <=> Ruled(x)
<1>1. \A o : o \in Registered <=> Routed(o)
  BY Zenon DEF Registered, Routed
<1>2. \A h : h \in HandlerChecks <=> Checked(h)
  BY Zenon DEF HandlerChecks, Checked
<1>3. \A x : x \in authRules <=> Ruled(x)
  BY Zenon DEF authRules, Ruled
<1> QED  BY <1>1, <1>2, <1>3

(* The router guards operation op with G, wherever it registers it.        *)
Guarded(op, G) == \A o \in Registered : o.id = op => o.guards = G

(* One entry of the declared contract.                                     *)
Rule(i, class, cap, write) == [id |-> i, class |-> class, cap |-> cap, write |-> write]

(* Every operation the router registers has a declared rule.               *)
LEMMA RuleForEach == \A i \in Operations : \E x \in authRules : x.id = i
<1>1. /\ \A i \in {"health-check", "dev-mint-session", "readiness-check", "api-version"} :
           Rule(i, "public", Unset, FALSE) \in rulesMeta
  BY SMT DEF Rule, Rules, rulesMeta
<1>2. /\ \A i \in {"get-me", "list-my-namespaces", "list-my-sources", "list-my-clusters",
                 "list-my-registries", "list-my-artifacts", "list-my-activity", "list-my-watches",
                 "list-my-watch-feed", "list-my-drift-feed", "list-my-vulnerabilities",
                 "list-my-identities"} :
           Rule(i, "authenticated", Unset, FALSE) \in rulesAuth
      /\ \A i \in {"watch-artifact", "unwatch-artifact", "link-identity", "unlink-identity"} :
           Rule(i, "authenticated", Unset, TRUE) \in rulesAuth
      /\ \A i \in {"list-auth-providers"} :
           Rule(i, "public", Unset, FALSE) \in rulesAuth
      /\ \A i \in {"create-api-key", "delete-api-key"} :
           Rule(i, "member", Unset, TRUE) \in rulesAuth
      /\ \A i \in {"list-api-keys"} :
           Rule(i, "member", Unset, FALSE) \in rulesAuth
      /\ \A i \in {"list-users", "get-system-status"} :
           Rule(i, "admin", Unset, FALSE) \in rulesAuth
      /\ \A i \in {"update-user-role"} :
           Rule(i, "admin", Unset, TRUE) \in rulesAuth
  BY SMT DEF Rule, Rules, rulesAuth
<1>3. /\ \A i \in {"list-sboms", "lookup-sbom", "get-sbom", "get-sbom-dependencies",
                 "list-sbom-components", "list-sbom-vulns", "list-sbom-drift-history", "diff-sboms",
                 "diff-tree", "get-dashboard-stats", "get-discovery", "get-artifact-changelog",
                 "get-artifact-license-summary"} :
           Rule(i, "public", Unset, FALSE) \in rulesSBOMs
      /\ \A i \in {"ingest-sbom"} :
           Rule(i, "capability", "ingest", TRUE) \in rulesSBOMs
      /\ \A i \in {"delete-sbom"} :
           Rule(i, "capability", "delete_artifact", TRUE) \in rulesSBOMs
  BY SMT DEF Rule, Rules, rulesSBOMs
<1>4. /\ \A i \in {"list-artifacts", "lookup-artifact", "get-artifact", "list-artifact-sboms",
                 "list-artifact-versions", "get-artifact-vuln-summary", "list-artifact-vulns",
                 "get-artifact-usages", "get-artifact-contains"} :
           Rule(i, "public", Unset, FALSE) \in rulesArtifacts
      /\ \A i \in {"delete-artifact"} :
           Rule(i, "capability", "delete_artifact", TRUE) \in rulesArtifacts
  BY SMT DEF Rule, Rules, rulesArtifacts
<1>5. /\ \A i \in {"search-components", "search-distinct-components", "list-component-purl-types",
                 "get-component-versions", "list-component-version-summaries", "get-component",
                 "get-component-vulns", "list-licenses", "lookup-license", "list-components-by-license"} :
           Rule(i, "public", Unset, FALSE) \in rulesComponents
  BY SMT DEF Rule, Rules, rulesComponents
<1>6. /\ \A i \in {"list-top-vulnerabilities", "get-vulnerability"} :
           Rule(i, "public", Unset, FALSE) \in rulesVulnerabilities
      /\ \A i \in {"list-vulnerability-workloads"} :
           Rule(i, "authenticated", Unset, FALSE) \in rulesVulnerabilities
  BY SMT DEF Rule, Rules, rulesVulnerabilities
<1>7. /\ \A i \in {"list-namespaces", "get-namespace", "get-namespace-by-name"} :
           Rule(i, "authenticated", Unset, FALSE) \in rulesNamespaces
      /\ \A i \in {"create-namespace"} :
           Rule(i, "authenticated", Unset, TRUE) \in rulesNamespaces
      /\ \A i \in {"update-namespace", "set-namespace-member", "remove-namespace-member"} :
           Rule(i, "capability", "manage_member", TRUE) \in rulesNamespaces
      /\ \A i \in {"delete-namespace"} :
           Rule(i, "capability", "delete_namespace", TRUE) \in rulesNamespaces
      /\ \A i \in {"list-namespace-members"} :
           Rule(i, "capability", "manage_member", FALSE) \in rulesNamespaces
  BY SMT DEF Rule, Rules, rulesNamespaces
<1>8. /\ \A i \in {"list-sources", "get-source"} :
           Rule(i, "authenticated", Unset, FALSE) \in rulesSources
      /\ \A i \in {"create-source", "update-source", "delete-source"} :
           Rule(i, "capability", "manage_source", TRUE) \in rulesSources
  BY SMT DEF Rule, Rules, rulesSources
<1>9. /\ \A i \in {"list-clusters", "get-cluster", "list-cluster-workloads", "list-cluster-images",
                 "list-cluster-vulns", "list-cluster-k8s-namespaces", "list-cluster-unknown-images"} :
           Rule(i, "authenticated", Unset, FALSE) \in rulesClusters
      /\ \A i \in {"create-cluster", "update-cluster", "delete-cluster"} :
           Rule(i, "capability", "manage_cluster", TRUE) \in rulesClusters
      /\ \A i \in {"put-cluster-inventory"} :
           Rule(i, "capability", "push_inventory", TRUE) \in rulesClusters
      /\ \A i \in {"ingest-cluster-unknown-images"} :
           Rule(i, "capability", "trigger_scan", TRUE) \in rulesClusters
  BY SMT DEF Rule, Rules, rulesClusters
<1>10. /\ \A i \in {"list-registries", "get-registry", "get-registry-by-name",
                  "get-registry-trust-summary", "list-recent-drift"} :
            Rule(i, "authenticated", Unset, FALSE) \in rulesRegistries
       /\ \A i \in {"create-registry", "preview-registry-config"} :
            Rule(i, "authenticated", Unset, TRUE) \in rulesRegistries
       /\ \A i \in {"update-registry", "delete-registry"} :
            Rule(i, "capability", "manage_source", TRUE) \in rulesRegistries
       /\ \A i \in {"scan-registry"} :
            Rule(i, "capability", "trigger_scan", TRUE) \in rulesRegistries
       /\ \A i \in {"get-registry-preview"} :
            Rule(i, "capability", "trigger_scan", FALSE) \in rulesRegistries
       /\ \A i \in {"regenerate-webhook-secret"} :
            Rule(i, "capability", "read_secret", TRUE) \in rulesRegistries
       /\ \A i \in {"test-registry-connection"} :
            Rule(i, "admin", Unset, TRUE) \in rulesRegistries
       /\ \A i \in {"registry-webhook"} :
            Rule(i, "secret", Unset, FALSE) \in rulesRegistries
  BY SMT DEF Rule, Rules, rulesRegistries
<1>11. /\ \A i \in {"list-scan-jobs", "get-scan-job", "list-enrichment-jobs", "enrichment-jobs-summary"} :
            Rule(i, "authenticated", Unset, FALSE) \in rulesJobs
       /\ \A i \in {"retry-scan-job", "cancel-scan-job", "retry-all-failed-scan-jobs",
                  "retry-enrichment-job", "retry-all-failed-enrichment-jobs"} :
            Rule(i, "admin", Unset, TRUE) \in rulesJobs
  BY SMT DEF Rule, Rules, rulesJobs
<1>12. \A o \in Registered : \E x \in authRules : x.id = o.id
  BY Parts, <1>1, <1>2, <1>3, <1>4, <1>5, <1>6, <1>7, <1>8, <1>9, <1>10, <1>11, SMTT(60)
     DEF Rule, Ruled, Routed, Ops,
     registerHealthOps, registerVersionOp, registerSBOMOps, registerComponentOps, registerLicenseOps,
     registerArtifactOps, registerDiffOps, registerWebhookOp, registerRegistryOps, registerNamespaceOps,
     registerSourceOps, registerClusterOps, registerStatsOps, registerDiscoverOps, registerVulnOps,
     registerJobOps, registerMeOps, registerCredentialOps, registerDevOps
<1> QED  BY <1>12, Zenon DEF Operations

(* The classes, and the capabilities a rule asks for.                      *)
Classes == {"public", "secret", "authenticated", "member", "admin", "capability"}

(* What a rule asks for, by its class.                                     *)
LEMMA RulesFine ==
    \A x \in authRules :
      /\ x.class \in Classes
      /\ x.class = "capability" => x.cap \in Capabilities \ {"read_private"}
      /\ x.class \in {"public", "secret"} => ~x.write
<1> USE DEF Ruled, Rules, rulesMeta, rulesAuth, rulesSBOMs, rulesArtifacts, rulesComponents, rulesVulnerabilities,
     rulesNamespaces, rulesSources, rulesClusters, rulesRegistries, rulesJobs
<1>1. \A x : Ruled(x) => x.class \in Classes
  BY SMTT(60) DEF Classes
<1>2. \A x : Ruled(x) => (x.class = "capability" => x.cap \in Capabilities \ {"read_private"})
  BY SMTT(60) DEF Capabilities
<1>3. \A x : Ruled(x) => (x.class \in {"public", "secret"} => ~x.write)
  BY SMTT(60)
<1> HIDE DEF Ruled
<1> QED  BY Parts, <1>1, <1>2, <1>3, Zenon

(* Operations whose handler asks for the capability, once it has found the *)
(* row; the router asks for the others'.                                   *)
InHandler ==
    {"ingest-sbom", "update-namespace", "delete-namespace", "create-source", "update-source", "delete-source",
     "create-cluster", "update-cluster", "delete-cluster", "put-cluster-inventory",
     "ingest-cluster-unknown-images"}

(* The guard every mutating operation has beside its own.                  *)
Floor(x) == IF x.write THEN {writeMW} ELSE {}

(* What the router wires in front of the operations of each class.         *)
LEMMA WiredAsDeclared ==
    \A x \in authRules :
      /\ x.class \in {"public", "secret"} => Guarded(x.id, {})
      /\ x.class = "authenticated" => Guarded(x.id, {authMW} \cup Floor(x))
      /\ x.class = "member" => Guarded(x.id, {memberMW} \cup Floor(x))
      /\ x.class = "admin" => Guarded(x.id, {adminMW} \cup Floor(x))
<1> USE DEF Guarded, Routed, Ruled, Ops, Rules,
     registerHealthOps, registerVersionOp, registerSBOMOps, registerComponentOps, registerLicenseOps,
     registerArtifactOps, registerDiffOps, registerWebhookOp, registerRegistryOps, registerNamespaceOps,
     registerSourceOps, registerClusterOps, registerStatsOps, registerDiscoverOps, registerVulnOps,
     registerJobOps, registerMeOps, registerCredentialOps, registerDevOps,
     rulesMeta, rulesAuth, rulesSBOMs, rulesArtifacts, rulesComponents, rulesVulnerabilities,
     rulesNamespaces, rulesSources, rulesClusters, rulesRegistries, rulesJobs
<1>1. \A x \in authRules : x.class \in {"public", "secret"} => Guarded(x.id, {})
  BY Parts, SMTT(60)
<1>2. \A x \in authRules : x.class = "authenticated" /\ ~x.write => Guarded(x.id, {authMW})
  BY Parts, SMTT(60)
<1>3. \A x \in authRules : x.class = "authenticated" /\ x.write => Guarded(x.id, {authMW, writeMW})
  BY Parts, SMTT(60)
<1>4. \A x \in authRules : x.class = "member" /\ ~x.write => Guarded(x.id, {memberMW})
  BY Parts, SMTT(60)
<1>5. \A x \in authRules : x.class = "member" /\ x.write => Guarded(x.id, {memberMW, writeMW})
  BY Parts, SMTT(60)
<1>6. \A x \in authRules : x.class = "admin" /\ ~x.write => Guarded(x.id, {adminMW})
  BY Parts, SMTT(60)
<1>7. \A x \in authRules : x.class = "admin" /\ x.write => Guarded(x.id, {adminMW, writeMW})
  BY Parts, SMTT(60)
<1> HIDE DEF Guarded
<1>8. ASSUME NEW x \in authRules
      PROVE  /\ x.write => \A g : {g} \cup Floor(x) = {g, writeMW}
             /\ ~x.write => \A g : {g} \cup Floor(x) = {g}
  BY DEF Floor
<1> QED  BY <1>1, <1>2, <1>3, <1>4, <1>5, <1>6, <1>7, <1>8, Zenon

(* A capability is asked about the namespace of the declared resource, by  *)
(* the router or by the handler, and by no other check.                    *)
LEMMA CapabilityGuards ==
    \A x \in authRules : x.class = "capability" =>
      IF x.id \in InHandler
      THEN /\ Guarded(x.id, {authMW, writeMW}) \/ Guarded(x.id, {memberMW, writeMW})
           /\ x.write /\ Anchor(x.id) \in {"namespace", "source", "cluster"}
      ELSE LET asked == {capMW(x.cap, Anchor(x.id))} \cup Floor(x)
           IN  Guarded(x.id, asked) \/ Guarded(x.id, {authMW} \cup asked)
<1> DEFINE Members == {"list-namespace-members", "set-namespace-member", "remove-namespace-member"}
<1> USE DEF Guarded, InHandler, Anchor, Routed, Ruled, Ops, Rules,
     registerHealthOps, registerVersionOp, registerSBOMOps, registerComponentOps, registerLicenseOps,
     registerArtifactOps, registerDiffOps, registerWebhookOp, registerRegistryOps, registerNamespaceOps,
     registerSourceOps, registerClusterOps, registerStatsOps, registerDiscoverOps, registerVulnOps,
     registerJobOps, registerMeOps, registerCredentialOps, registerDevOps,
     rulesMeta, rulesAuth, rulesSBOMs, rulesArtifacts, rulesComponents, rulesVulnerabilities,
     rulesNamespaces, rulesSources, rulesClusters, rulesRegistries, rulesJobs
<1>1. \A x \in authRules : x.class = "capability" /\ x.id \in InHandler \ {"ingest-sbom"}
        => Guarded(x.id, {authMW, writeMW})
  BY Parts, SMTT(60)
<1>2. \A x \in authRules : x.class = "capability" /\ x.id = "ingest-sbom"
        => Guarded(x.id, {memberMW, writeMW})
  BY Parts, SMTT(60)
<1>3. \A x \in authRules : x.class = "capability" /\ x.id \in Members /\ x.write
        => Guarded(x.id, {authMW, capMW(x.cap, Anchor(x.id)), writeMW})
  BY Parts, SMTT(60)
<1>4. \A x \in authRules : x.class = "capability" /\ x.id \in Members /\ ~x.write
        => Guarded(x.id, {authMW, capMW(x.cap, Anchor(x.id))})
  BY Parts, SMTT(60)
<1>5. \A x \in authRules : x.class = "capability" /\ x.id \notin Members \cup InHandler /\ x.write
        => Guarded(x.id, {capMW(x.cap, Anchor(x.id)), writeMW})
  BY Parts, SMTT(60)
<1>6. \A x \in authRules : x.class = "capability" /\ x.id \notin Members \cup InHandler /\ ~x.write
        => Guarded(x.id, {capMW(x.cap, Anchor(x.id))})
  BY Parts, SMTT(60)
<1>7. \A x \in authRules : x.class = "capability" /\ x.id \in InHandler => x.write
  BY Parts, SMTT(60)
<1>8. \A i \in InHandler : Anchor(i) \in {"namespace", "source", "cluster"}
  BY SMT
<1> HIDE DEF Guarded, InHandler, Anchor, Members
<1>9. ASSUME NEW x \in authRules, NEW G
      PROVE  /\ x.write => G \cup Floor(x) = G \cup {writeMW}
             /\ ~x.write => G \cup Floor(x) = G
  BY Zenon DEF Floor
<1>10. ASSUME NEW x \in authRules, x.class = "capability", x.id \notin InHandler
       PROVE  LET asked == {capMW(x.cap, Anchor(x.id))} \cup Floor(x)
              IN  Guarded(x.id, asked) \/ Guarded(x.id, {authMW} \cup asked)
  <2> DEFINE k == capMW(x.cap, Anchor(x.id))
  <2> HIDE DEF k
  <2>1. {k, writeMW} = {k} \cup {writeMW} /\ {authMW, k, writeMW} = {authMW} \cup ({k} \cup {writeMW})
        /\ {authMW, k} = {authMW} \cup {k}
    BY Zenon
  <2>2. CASE x.write
    <3>1. {k} \cup Floor(x) = {k, writeMW} /\ {authMW} \cup ({k} \cup Floor(x)) = {authMW, k, writeMW}
      BY <1>9, <2>1, <2>2, Zenon
    <3> QED  BY <1>3, <1>5, <1>10, <2>2, <3>1, Zenon DEF k
  <2>3. CASE ~x.write
    <3>1. {k} \cup Floor(x) = {k} /\ {authMW} \cup ({k} \cup Floor(x)) = {authMW, k}
      BY <1>9, <2>1, <2>3, Zenon
    <3> QED  BY <1>4, <1>6, <1>10, <2>3, <3>1, Zenon DEF k
  <2> QED  BY <2>2, <2>3
<1> QED  BY <1>1, <1>2, <1>7, <1>8, <1>10, Zenon

(* What the handlers ask of an operation that has a rule.                  *)
LEMMA ChecksAsDeclared ==
    \A x \in authRules :
      /\ \A h \in HandlerChecks : h.id = x.id =>
           IF x.class = "capability"
           THEN x.id \in InHandler /\ h.check = "capability" /\ h.cap = x.cap /\ h.at = Anchor(x.id)
           ELSE h.check \in {"read", "create"}
      /\ x.id \in InHandler => \E h \in HandlerChecks : h.id = x.id
<1>1. \A x \in authRules : \A h \in HandlerChecks : h.id = x.id =>
        IF x.class = "capability"
        THEN x.id \in InHandler /\ h.check = "capability" /\ h.cap = x.cap /\ h.at = Anchor(x.id)
        ELSE h.check \in {"read", "create"}
  BY Parts, SMTT(60) DEF InHandler, Anchor, Ruled, Checked, Rules, Checks,
     namespaceHandlers, sourceHandlers, clusterWrites, clusterReads,
     registryReads, resolveIngestSource,
     rulesMeta, rulesAuth, rulesSBOMs, rulesArtifacts, rulesComponents, rulesVulnerabilities,
     rulesNamespaces, rulesSources, rulesClusters, rulesRegistries, rulesJobs
<1> DEFINE Check(i, cap, at) == [id |-> i, check |-> "capability", cap |-> cap, at |-> at]
<1>2. /\ Check("update-namespace", "manage_member", "namespace") \in namespaceHandlers
      /\ Check("delete-namespace", "delete_namespace", "namespace") \in namespaceHandlers
      /\ Check("create-source", "manage_source", "namespace") \in sourceHandlers
      /\ \A i \in {"update-source", "delete-source"} : Check(i, "manage_source", "source") \in sourceHandlers
      /\ Check("create-cluster", "manage_cluster", "namespace") \in clusterWrites
      /\ \A i \in {"update-cluster", "delete-cluster"} : Check(i, "manage_cluster", "cluster") \in clusterWrites
      /\ Check("put-cluster-inventory", "push_inventory", "cluster") \in clusterWrites
      /\ Check("ingest-cluster-unknown-images", "trigger_scan", "cluster") \in clusterWrites
      /\ Check("ingest-sbom", "ingest", "source") \in resolveIngestSource
  BY SMT DEF Checks, namespaceHandlers, sourceHandlers, clusterWrites, resolveIngestSource
<1>3. \A i \in InHandler : \E h \in HandlerChecks : h.id = i
  BY Parts, <1>2, SMT DEF InHandler, Checked
<1> QED  BY <1>1, <1>3, Zenon

-----------------------------------------------------------------------------
(***************************************************************************)
(* What guards and checks ask of a caller                                  *)
(***************************************************************************)
(* A caller as the database describes it now.                              *)
LEMMA LiveCaller ==
    ASSUME Tables(db), NEW cred, NEW p, p = Live(cred), SignedIn(p)
    PROVE  p.role \in GlobalRoles /\ p.grants = Grants(p.user)
<1> DEFINE r == Principal(cred)
<1>1. SignedIn(r) => r.role \in GlobalRoles /\ DOMAIN r = {"user", "role", "byKey", "caps", "grants"}
  <2>1. \A u : Exists(db, u) => db.role[u] \in GlobalRoles
    BY DEF Tables, Exists
  <2>2. CASE r = Anonymous
    BY <2>2 DEF Anonymous, SignedIn
  <2>3. ASSUME NEW k \in DOMAIN db.key,
               r = [user |-> db.key[k].user, role |-> db.role[db.key[k].user], byKey |-> TRUE,
                    caps |-> db.key[k].caps \cap Capabilities, grants |-> <<>>]
        PROVE  r.role \in GlobalRoles /\ DOMAIN r = {"user", "role", "byKey", "caps", "grants"}
    BY <2>1, <2>3 DEF Tables
  <2>4. ASSUME NEW t \in DOMAIN db.session,
               r = [user |-> db.session[t], role |-> db.role[db.session[t]], byKey |-> FALSE,
                    caps |-> {}, grants |-> <<>>]
        PROVE  r.role \in GlobalRoles /\ DOMAIN r = {"user", "role", "byKey", "caps", "grants"}
    BY <2>1, <2>4 DEF Tables
  <2> QED  BY <2>2, <2>3, <2>4, ZenonT(60) DEF Principal, ValidateAPIKey, ValidateSession
<1> HIDE DEF r
<1>2. p = IF SignedIn(r) THEN [r EXCEPT !.grants = Grants(r.user)] ELSE r
  BY DEF Live, r
<1>3. SignedIn(r)
  BY <1>2
<1>4. p.user = r.user /\ p.role = r.role /\ p.grants = Grants(r.user)
  BY <1>1, <1>2, <1>3
<1> QED  BY <1>1, <1>3, <1>4, SMTT(60)

(* Can is the declared rule's own condition, for what mutates: the API     *)
(* key's ceiling before the admin short-circuit, and a global viewer's     *)
(* memberships only ever let it read.                                      *)
LEMMA CanAsDeclared ==
    ASSUME Tables(db), NEW p, p.role \in GlobalRoles, p.grants = Grants(p.user),
           NEW n, NEW cap \in Capabilities \ {"read_private"}
    PROVE  Can(p, n, cap) <=>
             /\ p.byKey => cap \in p.caps
             /\ p.role = "admin" \/ (p.role = "member" /\ RoleIn(n, p.user) \in RolesWith(cap))
<1> DEFINE Held == n # NoNs /\ n \in DOMAIN p.grants
<1>1. <<n, p.user>> \in DOMAIN db.member => n \in DOMAIN db.ns /\ n # NoNs
  <2> SUFFICES ASSUME <<n, p.user>> \in DOMAIN db.member
               PROVE  n \in DOMAIN db.ns /\ n # NoNs
    OBVIOUS
  <2>1. <<n, p.user>>[1] \in DOMAIN db.ns
    BY DEF Tables
  <2> QED  BY <2>1, WorldAssumption DEF Tables
<1>2. Held <=> <<n, p.user>> \in DOMAIN db.member
  BY <1>1 DEF Grants
<1>3. Held => p.grants[n] = db.member[<<n, p.user>>]
  BY <1>2 DEF Grants
<1>4. RoleIn(n, p.user) = IF Held THEN p.grants[n] ELSE "none"
  BY <1>2, <1>3 DEF RoleIn
<1>5. Can(p, n, cap) <=> (p.byKey => cap \in p.caps) /\ Allow(p.role, RoleIn(n, p.user), Held, cap)
  BY <1>4 DEF Can, KeyAllows
<1>6. \A role : role \in RolesWith(cap) <=> Allows(role, cap)
  BY DEF RolesWith, Allows
<1>7. ~Allows("none", cap)
  BY DEF Allows, Roles
<1>8. Allow(p.role, RoleIn(n, p.user), Held, cap)
        <=> p.role = "admin" \/ (p.role = "member" /\ RoleIn(n, p.user) \in RolesWith(cap))
  BY <1>4, <1>6, <1>7 DEF Allow, GlobalRoles
<1> QED  BY <1>5, <1>8

(* The route guards, one by one.                                           *)
LEMMA Guards ==
    ASSUME NEW p, NEW id
    PROVE  /\ Passes(p, authMW, id) <=> SignedIn(p)
           /\ Passes(p, memberMW, id) <=> SignedIn(p) /\ p.role \in {"admin", "member"}
           /\ Passes(p, adminMW, id) <=> SignedIn(p) /\ p.role = "admin"
           /\ SignedIn(p) => (Passes(p, writeMW, id) <=> (p.byKey => p.caps \ {"read_private"} # {}))
           /\ \A cap, at : Passes(p, capMW(cap, at), id) <=> SignedIn(p) /\ \E n \in HangsFrom(at, id) : Can(p, n, cap)
<1>1. Passes(p, authMW, id) <=> SignedIn(p)
  BY DEF Passes, authMW, Guard, RequireAuthenticated
<1>2. Passes(p, memberMW, id) <=> SignedIn(p) /\ p.role \in {"admin", "member"}
  BY DEF Passes, memberMW, Guard, RequireMember
<1>3. Passes(p, adminMW, id) <=> SignedIn(p) /\ p.role = "admin"
  BY DEF Passes, adminMW, Guard, RequireAdmin
<1>4. ASSUME SignedIn(p) PROVE Passes(p, writeMW, id) <=> (p.byKey => p.caps \ {"read_private"} # {})
  <2>1. Passes(p, writeMW, id) <=> RequireWrite(p)
    BY DEF Passes, writeMW, Guard
  <2>2. (\E cap \in p.caps : Mutating(cap)) <=> p.caps \ {"read_private"} # {}
    BY DEF Mutating
  <2> QED  BY <1>4, <2>1, <2>2 DEF RequireWrite, KeyAllowsAnyWrite
<1>5. ASSUME NEW cap, NEW at
      PROVE  Passes(p, capMW(cap, at), id) <=> SignedIn(p) /\ \E n \in HangsFrom(at, id) : Can(p, n, cap)
  BY DEF Passes, capMW, Guard, RequireCapability
<1> QED  BY <1>1, <1>2, <1>3, <1>4, <1>5

-----------------------------------------------------------------------------
(***************************************************************************)
(* Admission                                                               *)
(***************************************************************************)
(* What rule x asks of caller p, for a request on id.                      *)
Permits(x, p, id) ==
    /\ MeetsClass(x, p, x.id, id)
    /\ x.write /\ p.byKey => p.caps \ {"read_private"} # {}

(* Guards and checks together admit whom the rule permits; a handler that   *)
(* narrows the class admits fewer.                                         *)
LEMMA AdmittedAsDeclared ==
    ASSUME Tables(db), NEW cred, NEW p, p = Live(cred), NEW id, NEW x \in authRules, x.id \in Operations
    PROVE  /\ Admitted(x.id, p, id) => Permits(x, p, id)
           /\ Permits(x, p, id) /\ x.id \notin Narrowed => Admitted(x.id, p, id)
<1> DEFINE Wired == \A o \in Registered : o.id = x.id => \A g \in o.guards : Passes(p, g, id)
           Asked == \A h \in HandlerChecks : h.id = x.id => HandlerAllows(p, h, id)
           Writes == x.write /\ p.byKey => p.caps \ {"read_private"} # {}
           Reaches(n) == /\ p.byKey => x.cap \in p.caps
                         /\ p.role = "admin" \/ (p.role = "member" /\ RoleIn(n, p.user) \in RolesWith(x.cap))
<1>1. Admitted(x.id, p, id) <=> Wired /\ Asked
  BY Zenon DEF Admitted
<1>2. PICK o \in Registered : o.id = x.id
  BY Zenon DEF Operations
<1>3. \A G : Guarded(x.id, G) => (Wired <=> \A g \in G : Passes(p, g, id))
  BY <1>2, Zenon DEF Guarded
<1>4. \A g : (\A e \in {g} \cup Floor(x) : Passes(p, e, id)) <=> Passes(p, g, id) /\ (x.write => Passes(p, writeMW, id))
  BY Zenon DEF Floor
<1>5. SignedIn(p) => ((x.write => Passes(p, writeMW, id)) <=> Writes)
  BY Guards, Zenon
<1>6. SignedIn(p) => p.role \in GlobalRoles /\ p.grants = Grants(p.user)
  BY LiveCaller
<1>7. x.class # "capability" /\ x.id \notin Narrowed => Asked
  <2>1. ASSUME x.class # "capability", NEW h \in HandlerChecks, h.id = x.id
        PROVE  x.id \in Narrowed
    <3>1. h.check \in {"read", "create"}
      BY <2>1, ChecksAsDeclared, Zenon
    <3> QED  BY <2>1, <3>1, Zenon DEF Narrowed
  <2> QED  BY <2>1, Zenon
<1> HIDE DEF Wired, Asked, Writes, Reaches
<1>8. Permits(x, p, id) <=> MeetsClass(x, p, x.id, id) /\ Writes
  BY Zenon DEF Permits, Writes
<1>9. CASE x.class \in {"public", "secret"}
  <2>0. Guarded(x.id, {})
    BY <1>9, WiredAsDeclared, Zenon
  <2>1. Wired
    BY <1>3, <2>0
  <2>2. MeetsClass(x, p, x.id, id)
    BY <1>9 DEF MeetsClass
  <2>3. Writes
    BY <1>9, RulesFine, Zenon DEF Writes
  <2>4. x.class # "capability"
    BY <1>9
  <2> QED  BY <1>1, <1>7, <1>8, <2>1, <2>2, <2>3, <2>4, Zenon
<1>10. CASE x.class = "authenticated"
  <2>1. Wired <=> Passes(p, authMW, id) /\ (x.write => Passes(p, writeMW, id))
    BY <1>3, <1>4, <1>10, WiredAsDeclared, Zenon
  <2>2. MeetsClass(x, p, x.id, id) <=> SignedIn(p)
    BY <1>10 DEF MeetsClass, SignedIn
  <2>3. Passes(p, authMW, id) <=> SignedIn(p)
    BY Guards
  <2>4. x.class # "capability"
    BY <1>10
  <2> QED  BY <1>1, <1>5, <1>7, <1>8, <2>1, <2>2, <2>3, <2>4, Zenon
<1>11. CASE x.class = "member"
  <2>1. Wired <=> Passes(p, memberMW, id) /\ (x.write => Passes(p, writeMW, id))
    BY <1>3, <1>4, <1>11, WiredAsDeclared, Zenon
  <2>2. MeetsClass(x, p, x.id, id) <=> SignedIn(p) /\ p.role # "viewer"
    BY <1>11 DEF MeetsClass, SignedIn
  <2>3. Passes(p, memberMW, id) <=> SignedIn(p) /\ p.role \in {"admin", "member"}
    BY Guards
  <2>4. SignedIn(p) => (p.role # "viewer" <=> p.role \in {"admin", "member"})
    BY <1>6 DEF GlobalRoles
  <2>5. x.class # "capability"
    BY <1>11
  <2> QED  BY <1>1, <1>5, <1>7, <1>8, <2>1, <2>2, <2>3, <2>4, <2>5, Zenon
<1>12. CASE x.class = "admin"
  <2>1. Wired <=> Passes(p, adminMW, id) /\ (x.write => Passes(p, writeMW, id))
    BY <1>3, <1>4, <1>12, WiredAsDeclared, Zenon
  <2>2. MeetsClass(x, p, x.id, id) <=> SignedIn(p) /\ p.role = "admin"
    BY <1>12 DEF MeetsClass, SignedIn
  <2>3. Passes(p, adminMW, id) <=> SignedIn(p) /\ p.role = "admin"
    BY Guards
  <2>4. x.class # "capability"
    BY <1>12
  <2> QED  BY <1>1, <1>5, <1>7, <1>8, <2>1, <2>2, <2>3, <2>4, Zenon
<1>13. CASE x.class = "capability"
  <2> DEFINE Spaces == HangsFrom(Anchor(x.id), id)
  <2>1. x.cap \in Capabilities \ {"read_private"}
    BY <1>13, RulesFine, Zenon
  <2>2. SignedIn(p) => \A n : Can(p, n, x.cap) <=> Reaches(n)
    BY <1>6, <2>1, CanAsDeclared DEF Reaches
  <2>3. MeetsClass(x, p, x.id, id) <=> SignedIn(p) /\ \E n \in Spaces : Reaches(n)
    <3>1. MeetsClass(x, p, x.id, id) <=>
            /\ SignedIn(p)
            /\ p.byKey => x.cap \in p.caps
            /\ \E n \in Spaces : p.role = "admin" \/ (p.role = "member" /\ RoleIn(n, p.user) \in RolesWith(x.cap))
      BY <1>13 DEF MeetsClass, SignedIn
    <3> HIDE DEF Spaces
    <3> QED  BY <3>1, Zenon DEF Reaches
  <2>4. CASE x.id \in InHandler
    <3>1. /\ Guarded(x.id, {authMW, writeMW}) \/ Guarded(x.id, {memberMW, writeMW})
          /\ x.write /\ Anchor(x.id) \in {"namespace", "source", "cluster"}
      BY <1>13, <2>4, CapabilityGuards, Zenon
    <3>2. \A n \in Spaces : n \in DOMAIN db.ns
      BY <3>1 DEF HangsFrom, namespaceParam, sourceNamespace, clusterNamespace, OfKind, Tables
    <3>3. ASSUME NEW h \in HandlerChecks, h.id = x.id
          PROVE  HandlerAllows(p, h, id) <=> \E n \in Spaces : Can(p, n, x.cap)
      <4>1. h.check = "capability" /\ h.cap = x.cap /\ h.at = Anchor(x.id)
        BY <1>13, <3>3, ChecksAsDeclared, Zenon
      <4>2. HandlerAllows(p, h, id) <=> \E n \in Spaces : requireNamespaceCapability(p, n, x.cap, DOMAIN db.ns)
        BY <4>1 DEF HandlerAllows
      <4> HIDE DEF Spaces
      <4> QED  BY <3>2, <4>2, Zenon DEF requireNamespaceCapability
    <3> HIDE DEF Spaces
    <3>4. Asked <=> \E n \in Spaces : Can(p, n, x.cap)
      <4>1. PICK h \in HandlerChecks : h.id = x.id
        BY <2>4, ChecksAsDeclared, Zenon
      <4> QED  BY <3>3, <4>1, Zenon DEF Asked
    <3>5. Wired => SignedIn(p) /\ Writes
      <4>1. Wired => Passes(p, writeMW, id) /\ (Passes(p, authMW, id) \/ Passes(p, memberMW, id))
        BY <1>3, <3>1, Zenon
      <4> QED  BY <1>5, <4>1, Guards, Zenon
    <3>6. ASSUME SignedIn(p), Writes, \E n \in Spaces : Reaches(n)
          PROVE  Wired
      <4>1. p.role \in {"admin", "member"}
        BY <3>6, Zenon DEF Reaches
      <4>2. Passes(p, authMW, id) /\ Passes(p, memberMW, id) /\ Passes(p, writeMW, id)
        BY <1>5, <3>1, <3>6, <4>1, Guards, Zenon
      <4>3. CASE Guarded(x.id, {authMW, writeMW})
        <5>1. Wired <=> \A g \in {authMW, writeMW} : Passes(p, g, id)
          BY <1>3, <4>3, Zenon
        <5> QED  BY <4>2, <5>1
      <4>4. CASE Guarded(x.id, {memberMW, writeMW})
        <5>1. Wired <=> \A g \in {memberMW, writeMW} : Passes(p, g, id)
          BY <1>3, <4>4, Zenon
        <5> QED  BY <4>2, <5>1
      <4> QED  BY <3>1, <4>3, <4>4
    <3> QED  BY <1>1, <1>8, <2>2, <2>3, <3>4, <3>5, <3>6, Zenon
  <2>5. CASE x.id \notin InHandler
    <3> DEFINE k == capMW(x.cap, Anchor(x.id))
    <3>1. Guarded(x.id, {k} \cup Floor(x)) \/ Guarded(x.id, {authMW} \cup ({k} \cup Floor(x)))
      BY <1>13, <2>5, CapabilityGuards, Zenon
    <3>2. Passes(p, k, id) <=> SignedIn(p) /\ \E n \in Spaces : Can(p, n, x.cap)
      BY Guards, Zenon
    <3>3. Passes(p, authMW, id) <=> SignedIn(p)
      BY Guards
    <3>4. Asked
      BY <1>13, <2>5, ChecksAsDeclared, Zenon DEF Asked
    <3> HIDE DEF k, Spaces
    <3>5. Wired <=> Passes(p, k, id) /\ (x.write => Passes(p, writeMW, id))
      <4>1. CASE Guarded(x.id, {k} \cup Floor(x))
        BY <1>3, <1>4, <4>1, Zenon
      <4>2. CASE Guarded(x.id, {authMW} \cup ({k} \cup Floor(x)))
        <5>1. Wired <=> \A g \in {authMW} \cup ({k} \cup Floor(x)) : Passes(p, g, id)
          BY <1>3, <4>2, Zenon
        <5>2. (\A g \in {authMW} \cup ({k} \cup Floor(x)) : Passes(p, g, id))
                <=> Passes(p, authMW, id) /\ \A g \in {k} \cup Floor(x) : Passes(p, g, id)
          BY Zenon
        <5> QED  BY <1>4, <3>2, <3>3, <5>1, <5>2, Zenon
      <4> QED  BY <3>1, <4>1, <4>2
    <3> QED  BY <1>1, <1>5, <1>8, <2>2, <2>3, <3>2, <3>4, <3>5, Zenon
  <2> QED  BY <2>4, <2>5
<1> QED  BY <1>9, <1>10, <1>11, <1>12, <1>13, RulesFine DEF Classes

(* A request that waits for its grants or for admission came by a route of *)
(* the router's table, not by a browser route.                             *)
Routable == \A c \in Conn : req[c].step \in {"grants", "ready"} => req[c].op \in Operations

LEMMA RoutableInit == Init => Routable
  BY DEF Init, Routable, Idle

LEMMA RoutableStep == IInv /\ Routable /\ [Next]_vars => Routable'
<1> SUFFICES ASSUME IInv, Routable, [Next]_vars PROVE Routable'
  OBVIOUS
<1>1. ASSUME NEW c \in Conn, AccountSteps(c) \/ TenantSteps(c) PROVE Routable'
  <2>1. Requests
    BY DEF IInv
  <2>2. \A e \in Conn \ {c} : req'[e] = req[e]
    BY <1>1, <2>1, SameRequests
  <2>3. ASSUME req'[c].step \in {"grants", "ready"} PROVE req'[c].op \in Operations
    <3>1. OptionalAuthenticate(c) \/ LoadGrants(c)
      BY <1>1, <2>1, <2>3, StepsReached DEF Reached, Waiting
    <3>2. CASE OptionalAuthenticate(c)
      <4>1. PICK ask \in Asks(conf.clients) :
              \E p \in {Anonymous, Principal(ask.cred)}, step \in {"admitted", "grants", "ready"} :
                /\ req' = [req EXCEPT ![c] = [step |-> step, op |-> ask.op, cred |-> ask.cred, arg |-> ask.arg,
                                              p |-> p, seen |-> NoNs]]
                /\ ask.op \in Browser => step = "admitted"
        BY <3>2 DEF OptionalAuthenticate
      <4>2. PICK p \in {Anonymous, Principal(ask.cred)}, step \in {"admitted", "grants", "ready"} :
              /\ req' = [req EXCEPT ![c] = [step |-> step, op |-> ask.op, cred |-> ask.cred, arg |-> ask.arg,
                                            p |-> p, seen |-> NoNs]]
              /\ ask.op \in Browser => step = "admitted"
        BY <4>1
      <4>3. req'[c].op = ask.op /\ req'[c].step = step
        BY <2>1, <4>2 DEF Requests
      <4>4. ask.op \in Operations \union Browser
        BY <2>1, WorldAssumption DEF Requests
      <4> QED  BY <2>3, <4>2, <4>3, <4>4
    <3>3. CASE LoadGrants(c)
      <4>1. DOMAIN req[c] = Fields /\ c \in DOMAIN req
        BY <2>1, <3>3 DEF LoadGrants, Requests, Idle
      <4>2. req'[c].op = req[c].op
        BY <3>3, <4>1 DEF LoadGrants, Fields
      <4> QED  BY <3>3, <4>2 DEF LoadGrants, Routable
    <3> QED  BY <3>1, <3>2, <3>3
  <2> QED  BY <2>2, <2>3 DEF Routable
<1>2. CASE Environment
  BY <1>2 DEF Environment, SessionExpires, CleanExpiredSessions, Routable
<1>3. CASE UNCHANGED vars
  BY <1>3 DEF vars, Routable
<1> QED  BY <1>1, <1>2, <1>3 DEF Next

(* Only admission takes a request from "ready".                            *)
LEMMA ReadyStep ==
    ASSUME Requests, [Next]_vars, NEW c \in Conn, req[c].step = "ready", req'[c] # req[c]
    PROVE  req'[c].step = "admitted" <=> Admitted(req[c].op, req[c].p, req[c].arg.on)
<1>1. PICK e \in Conn : AccountSteps(e) \/ TenantSteps(e)
  BY DEF Next, vars, Environment, SessionExpires, CleanExpiredSessions
<1>2. e = c
  BY <1>1, SameRequests
<1>3. Admit(c)
  <2>1. ~OptionalAuthenticate(c)
    BY DEF OptionalAuthenticate, Idle
  <2>2. ~LoadGrants(c)
    BY DEF LoadGrants
  <2>3. req[c].step \in Waiting
    BY DEF Waiting
  <2> QED  BY <1>1, <1>2, <2>1, <2>2, <2>3, RequestSteps, Zenon
<1>4. CASE Admitted(req[c].op, req[c].p, req[c].arg.on)
  BY <1>3, <1>4, WentTo DEF Admit
<1>5. CASE ~Admitted(req[c].op, req[c].p, req[c].arg.on)
  <2>1. req'[c].step = "idle"
    BY <1>3, <1>5 DEF Admit, Finish, Requests, Idle
  <2> QED  BY <1>5, <2>1
<1> QED  BY <1>4, <1>5

(* For every operation of the API, every credential, target and database,  *)
(* and whatever else is under way: a caller unchanged since it was         *)
(* authenticated is admitted exactly when the declared rule admits it. The *)
(* guards of api/router.go, the checks of the handlers and the table of    *)
(* api/authclass.go, kept in three places, say the same thing.             *)
THEOREM AdmissionAsDeclared == Spec => AdmittedByRule
<1>1. IInv /\ Routable /\ [Next]_vars =>
        [\A c \in Conn : req[c].step = "ready" /\ req'[c] # req[c] =>
           LET r == req[c]
               admitted == req'[c].step = "admitted"
               rule == CHOOSE x \in authRules : x.id = r.op
               permitted == /\ MeetsClass(rule, r.p, r.op, r.arg.on)
                            /\ rule.write /\ r.p.byKey => r.p.caps \ {"read_private"} # {}
           IN  r.p = Live(r.cred) =>
                 (admitted => permitted) /\ (permitted /\ r.op \notin Narrowed => admitted)]_vars
  <2> SUFFICES ASSUME IInv, Routable, [Next]_vars, NEW c \in Conn, req[c].step = "ready", req'[c] # req[c],
                      req[c].p = Live(req[c].cred)
               PROVE  LET rule == CHOOSE x \in authRules : x.id = req[c].op
                          permitted == /\ MeetsClass(rule, req[c].p, req[c].op, req[c].arg.on)
                                       /\ rule.write /\ req[c].p.byKey => req[c].p.caps \ {"read_private"} # {}
                      IN  /\ req'[c].step = "admitted" => permitted
                          /\ permitted /\ req[c].op \notin Narrowed => req'[c].step = "admitted"
    BY Zenon
  <2> DEFINE rule == CHOOSE x \in authRules : x.id = req[c].op
  <2>1. req[c].op \in Operations
    BY Zenon DEF Routable
  <2>2. rule \in authRules /\ rule.id = req[c].op
    BY <2>1, RuleForEach, Zenon
  <2>3. Tables(db) /\ Requests
    BY DEF IInv
  <2> HIDE DEF rule
  <2>4. req'[c].step = "admitted" <=> Admitted(rule.id, req[c].p, req[c].arg.on)
    BY <2>2, <2>3, ReadyStep, Zenon
  <2>5. /\ Admitted(rule.id, req[c].p, req[c].arg.on) => Permits(rule, req[c].p, req[c].arg.on)
        /\ Permits(rule, req[c].p, req[c].arg.on) /\ rule.id \notin Narrowed => Admitted(rule.id, req[c].p, req[c].arg.on)
    BY <2>1, <2>2, <2>3, AdmittedAsDeclared, Zenon
  <2> QED  BY <2>2, <2>4, <2>5, Zenon DEF Permits, rule
<1>2. Spec => [](IInv /\ Routable)
  <2>1. Init => IInv /\ Routable
    BY InvInit, RoutableInit
  <2>2. IInv /\ Routable /\ [Next]_vars => (IInv /\ Routable)'
    BY InvStep, RoutableStep
  <2> QED  BY <2>1, <2>2, PTL DEF Spec
<1> QED  BY <1>1, <1>2, PTL DEF Spec, AdmittedByRule
=============================================================================
