------------------------------ MODULE MCAccess ------------------------------
(***************************************************************************)
(* An instance for TLC. Each world asks one question: which of the 114     *)
(* operations every credential is admitted to, and what two requests in    *)
(* flight can do to members, to accounts, to registries and to sources.    *)
(***************************************************************************)
EXTENDS Tenants, TLC

Symmetry == Permutations(Conn)

Arg == [on |-> NoNs, name |-> "x", name2 |-> Blank, vis |-> Blank, who |-> "bob",
        role |-> "viewer", caps |-> {"ingest"}, identity |-> "i1"]

Session(t) == [kind |-> "session", id |-> t]
Key(k) == [kind |-> "key", id |-> k]
NoCred == [kind |-> "none", id |-> "none"]

Ask(op, cred, arg) == [op |-> op, cred |-> cred, arg |-> arg]
On(id) == [Arg EXCEPT !.on = id]

\* n1 is private: ann owns it, bob develops in it, sid is its security member
\* and vic, a viewer installation-wide, was made its maintainer. n2 is bob's
\* and public; n0 has no owner. r2 is a registry in a namespace of its own.
Base ==
  [role |-> [root |-> "admin", ann |-> "member", bob |-> "member", sid |-> "member",
             vic |-> "viewer", new |-> "none", new2 |-> "none"],
   holder |-> [i1 |-> NoOne, i2 |-> NoOne, ia |-> "ann", ib |-> "ann", ic |-> "bob"],
   session |-> [t1 |-> "root", t2 |-> "ann", t3 |-> "bob", t4 |-> "vic", t5 |-> "ann"],
   expired |-> {"t5"},
   key |-> [k1 |-> [user |-> "ann", caps |-> {"read_private"}],
            k2 |-> [user |-> "ann", caps |-> {"manage_source", "ingest", "future"}],
            k3 |-> [user |-> "root", caps |-> {"ingest"}],
            k4 |-> [user |-> "sid", caps |-> Capabilities]],
   ns |-> [n0 |-> [name |-> "zero", public |-> TRUE], n1 |-> [name |-> "one", public |-> FALSE],
           n2 |-> [name |-> "two", public |-> TRUE], r2 |-> [name |-> "reg", public |-> FALSE]],
   member |-> (<<"n1", "ann">> :> "owner") @@ (<<"n1", "bob">> :> "developer")
              @@ (<<"n1", "sid">> :> "security") @@ (<<"n1", "vic">> :> "maintainer")
              @@ (<<"n2", "bob">> :> "owner") @@ (<<"r2", "ann">> :> "owner"),
   source |-> [s1 |-> [ns |-> "n1", kind |-> "upload", name |-> "up"],
               r1 |-> [ns |-> "n1", kind |-> "oci_registry", name |-> "hub"],
               c1 |-> [ns |-> "n1", kind |-> "cluster", name |-> "prod"],
               r2 |-> [ns |-> "r2", kind |-> "oci_registry", name |-> "reg"]],
   sbom |-> [b1 |-> "n1", b2 |-> "n2"], artifact |-> [a1 |-> {"n1"}, a2 |-> {}],
   used |-> {"n0", "n1", "n2", "r1", "r2", "s1", "c1", "b1", "b2", "a1", "a2"}]

World(clients, requests, signup, restrict, ending) ==
  [db |-> Base, requests |-> requests,
   conf |-> [clients |-> clients, signup |-> signup, restrict |-> restrict, ending |-> ending,
             bootstrap |-> {"i2"}]]

Credentials ==
  {NoCred, Session("t1"), Session("t2"), Session("t3"), Session("t4"), Session("t5"),
   Key("k1"), Key("k2"), Key("k3"), Key("k4"), Key("gone")}

Targets == {NoNs, "n0", "n1", "n2", "r2", "s1", "r1", "c1", "b1", "a1", "a2", "k1"}

\* One request: every operation, by every credential, on every target.
Matrix == {Ask(op, cred, On(id)) : op \in Operations, cred \in Credentials, id \in Targets}

SetRole(cred, n, who, role) ==
  Ask("set-namespace-member", cred, [On(n) EXCEPT !.who = who, !.role = role])
Drop(cred, n, who) == Ask("remove-namespace-member", cred, [On(n) EXCEPT !.who = who])

Roster ==
  {SetRole(Session("t1"), "n1", "bob", "owner"), SetRole(Session("t1"), "n1", "ann", "viewer"),
   SetRole(Session("t2"), "n1", "bob", "maintainer"), Drop(Session("t2"), "n1", "bob"),
   Drop(Session("t1"), "n1", "ann"), Ask("delete-namespace", Session("t2"), On("n1")),
   SetRole(Session("t1"), "n0", "bob", "owner"), SetRole(Session("t1"), "n0", "bob", "viewer"),
   Drop(Session("t1"), "n0", "bob"),
   Ask("update-user-role", Session("t1"), [Arg EXCEPT !.who = "ann", !.role = "viewer"])}

Callback(i) == Ask("callback", NoCred, [Arg EXCEPT !.identity = i])
Link(t, who, i) == Ask("callback-link", Session(t), [Arg EXCEPT !.who = who, !.identity = i])
Unlink(t, i) == Ask("unlink-identity", Session(t), [Arg EXCEPT !.identity = i])

SignIns ==
  {Callback("i1"), Callback("i2"), Callback("ic"), Link("t2", "ann", "i1"), Link("t3", "bob", "i1"),
   Link("t3", "bob", "ia"), Unlink("t2", "ia"), Unlink("t2", "i1"), Ask("logout", Session("t2"), Arg),
   Ask("dev-mint-session", NoCred, Arg), Ask("create-api-key", Session("t2"), Arg),
   Ask("update-user-role", Session("t1"), [Arg EXCEPT !.who = "bob", !.role = "admin"])}

Edit(cred, id, name, vis, to) ==
  Ask("update-registry", cred, [On(id) EXCEPT !.name = name, !.vis = vis, !.name2 = to])
NewRegistry(cred, name, ns) ==
  Ask("create-registry", cred, [Arg EXCEPT !.name = name, !.name2 = ns])
NewNamespace(cred, name) == Ask("create-namespace", cred, [Arg EXCEPT !.name = name])

Registries ==
  {NewRegistry(Session("t2"), "x", Blank), NewRegistry(Session("t2"), "y", "x"),
   NewRegistry(Session("t3"), "y", "one"), NewRegistry(Session("t4"), "z", "x"),
   NewNamespace(Session("t3"), "x"), NewNamespace(Session("t2"), "x"),
   Edit(Session("t2"), "r2", "reg", "public", "one"), Edit(Session("t2"), "r2", "x", Blank, Blank),
   Edit(Session("t2"), "r1", "hub", Blank, "reg"),
   Ask("regenerate-webhook-secret", Session("t2"), On("r2")),
   Ask("delete-registry", Session("t2"), On("r2")), Ask("delete-namespace", Session("t2"), On("r2"))}

Rename(op, cred, id, name) == Ask(op, cred, [On(id) EXCEPT !.name = name])

Sources ==
  {Rename("create-source", Session("t2"), "n1", "up"), Rename("create-source", Key("k2"), "n1", "x"),
   Rename("update-source", Session("t2"), "s1", "x"), Ask("delete-source", Session("t2"), On("s1")),
   Rename("update-source", Session("t2"), "c1", "x"), Rename("create-cluster", Session("t2"), "n1", "x"),
   Rename("update-cluster", Session("t2"), "c1", "x"), Ask("delete-cluster", Session("t2"), On("c1")),
   Ask("update-namespace", Session("t2"), [On("n1") EXCEPT !.name = Blank, !.vis = "public"]),
   Ask("update-namespace", Session("t2"), [On("n1") EXCEPT !.name = "x"]),
   Ask("delete-namespace", Session("t2"), On("n1")), Edit(Session("t2"), "r1", "x", Blank, "reg"),
   SetRole(Session("t2"), "n1", "bob", "maintainer"), NewNamespace(Session("t3"), "x")}

\* One client at a time moving and then editing a registry.
Moves == {Edit(Session("t2"), "r2", "reg", Blank, "one"), Edit(Session("t2"), "r2", "x", "public", Blank)}

Clients ==
  [matrix |-> Matrix, roster |-> Roster, signins |-> SignIns, registries |-> Registries,
   sources |-> Sources, moves |-> Moves]

ClientAsks(clients) == Clients[clients]

EveryWorld ==
  {World("matrix", 1, TRUE, TRUE, {}), World("roster", 3, TRUE, FALSE, {}),
   World("signins", 3, TRUE, FALSE, {"t2"}), World("signins", 2, FALSE, FALSE, {}),
   World("registries", 3, TRUE, FALSE, {}), World("registries", 2, TRUE, TRUE, {}),
   World("sources", 2, TRUE, FALSE, {})}

MovedWorld == {World("moves", 2, TRUE, FALSE, {})}
============================================================================
