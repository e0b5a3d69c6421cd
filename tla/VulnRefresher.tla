--------------------------- MODULE VulnRefresher ----------------------------
(***************************************************************************)
(* The vuln-worker: replicas elect a leader through a session advisory     *)
(* lock; the leader keeps package_vulnerability in step with the newest    *)
(* grype database build.  Every tick it matches the SBOMs not yet stamped  *)
(* with the open build, page by page, and a completed pass removes what    *)
(* other builds wrote.                                                     *)
(***************************************************************************)
EXTENDS VulnStore

CONSTANTS
    Replicas,
    SBOMs,          \* ids that may be ingested; ids order the pages
    MaxBuild,       \* bound: database builds published
    PageSize,
    Findings,       \* external: Findings[b][s], what grype matches; <<>> also
                    \* stands for a document it cannot decode
    LinkedSets(_),  \* the Go symbol sets an SBOM's components link
    MaxFaults       \* bound: failed statements and checks, crashes, lost
                    \* sessions and deleted SBOMs

NoReplica == "none"
Builds == 1 .. MaxBuild

ASSUME VulnRefresherAssumption ==
    /\ SBOMs \subseteq Nat \ {0}
    /\ MaxBuild \in Nat \ {0} /\ PageSize \in Nat \ {0}
    /\ MaxFaults \in Nat
    /\ Findings \in [Builds -> [SBOMs -> Seq(Finding)]]
    /\ \A s \in SBOMs : LinkedSets(s) \subseteq SymbolSets
    /\ NoReplica \notin Replicas

VARIABLES
    latest,     \* external: the newest build the listing offers
    sboms,      \* ids in the sbom table
    stamp,      \* sbom_vuln_match.db_built_at; 0 where there is no row
    vulns,      \* vulnerability, by id
    refs,       \* vulnerability_reference: the build that wrote it, by id
    mappings,   \* package_vulnerability, by key
    symbolSets, \* go_symbol_set ids
    matched,    \* vuln_refresh_state.db_built_at
    lock,       \* the session that holds the advisory lock
    exec,       \* per replica, its refresher
    alone,      \* history: the leader's session never broke
    gone,       \* ids of deleted SBOMs
    faults

tables == <<stamp, vulns, refs, mappings, symbolSets, matched>>
world == <<latest, sboms, gone>>
vars == <<world, tables, lock, exec, alone, faults>>

-----------------------------------------------------------------------------
Steps == {"waiting", "idle", "list", "rows", "mappings", "mark",
          "decide", "stale", "prune", "prunesets", "record"}

(* open: DB.built, which outlives a step, not a process. *)
Started == [pc |-> "waiting", open |-> 0, after |-> 0,
            docs |-> {}, full |-> FALSE, todo |-> {}]

At(r, pc) == exec[r].pc = pc
Go(r, pc) == exec' = [exec EXCEPT ![r].pc = pc]
Built(r) == exec[r].open

(* What an error leaves of a step: the next tick starts over. *)
Abandon(x) == [x EXCEPT !.pc = "idle", !.after = 0, !.docs = {},
                        !.full = FALSE, !.todo = {}]

(* The types of the variables. *)
TypeOK ==
    /\ latest \in Builds /\ sboms \subseteq SBOMs /\ gone \subseteq SBOMs \ sboms
    /\ stamp \in [SBOMs -> 0 .. MaxBuild]
    /\ DOMAIN vulns \subseteq VulnIDs /\ \A v \in DOMAIN vulns : vulns[v] \in VulnRow
    /\ DOMAIN refs \subseteq DOMAIN vulns
    /\ DOMAIN mappings \subseteq MappingKey
    /\ \A k \in DOMAIN mappings : k.vuln \in DOMAIN vulns
    /\ symbolSets \subseteq SymbolSets
    /\ matched \in 0 .. MaxBuild
    /\ lock \in Replicas \cup {NoReplica}
    /\ \A r \in Replicas :
        /\ exec[r].pc \in Steps /\ exec[r].open \in 0 .. MaxBuild
        /\ exec[r].pc \in Steps \ {"waiting", "idle"} => Built(r) # 0

Init ==
    /\ latest = 1 /\ sboms = {} /\ gone = {}
    /\ stamp = [s \in SBOMs |-> 0]
    /\ vulns = << >> /\ refs = << >> /\ mappings = << >> /\ matched = 0
    /\ symbolSets = {}
    /\ lock = NoReplica /\ exec = [r \in Replicas |-> Started]
    /\ alone = TRUE /\ faults = 0

Fault == faults < MaxFaults /\ faults' = faults + 1

-----------------------------------------------------------------------------
(***************************************************************************)
(* Around the worker: builds appear, SBOMs come and go.                    *)
(***************************************************************************)
PublishBuild ==
    /\ latest < MaxBuild /\ latest' = latest + 1
    /\ UNCHANGED <<sboms, gone, stamp, symbolSets>>

(* An SBOM id is drawn once; its symbol sets are stored with it. *)
IngestSBOM(s) ==
    /\ s \notin sboms \cup gone
    /\ sboms' = sboms \cup {s}
    /\ symbolSets' = symbolSets \cup LinkedSets(s)
    /\ UNCHANGED <<latest, gone, stamp>>

(* The stamp goes with the row (ON DELETE CASCADE); the mappings stay. *)
DeleteSBOM(s) ==
    /\ s \in sboms /\ Fault
    /\ sboms' = sboms \ {s} /\ gone' = gone \cup {s}
    /\ stamp' = [stamp EXCEPT ![s] = 0]
    /\ UNCHANGED <<latest, symbolSets>>

World ==
    /\ \/ (PublishBuild \/ \E s \in SBOMs : IngestSBOM(s)) /\ UNCHANGED faults
       \/ \E s \in SBOMs : DeleteSBOM(s)
    /\ UNCHANGED <<vulns, refs, mappings, matched, lock, exec, alone>>

-----------------------------------------------------------------------------
(***************************************************************************)
(* LeaderElect                                                             *)
(***************************************************************************)
TryLead(r) ==
    /\ At(r, "waiting") /\ lock = NoReplica
    /\ lock' = r /\ Go(r, "idle")
    /\ UNCHANGED <<world, tables, alone, faults>>

(* A crash, or an orderly stop: the session's lock goes with it. *)
Restart(r) ==
    /\ ~At(r, "waiting") /\ Fault
    /\ exec' = [exec EXCEPT ![r] = Started]
    /\ lock' = IF lock = r THEN NoReplica ELSE lock
    /\ UNCHANGED <<world, tables, alone>>

(* The lock's connection breaks: fn is not told and runs on. *)
LoseSession(r) ==
    /\ lock = r /\ Fault
    /\ lock' = NoReplica /\ alone' = FALSE
    /\ UNCHANGED <<world, tables, exec>>

-----------------------------------------------------------------------------
(***************************************************************************)
(* Step                                                                    *)
(***************************************************************************)
(* The matcher over whatever is open. *)
Begin(r, open) ==
    /\ At(r, "idle")
    /\ exec' = [exec EXCEPT ![r].open = open, ![r].pc = IF open = 0 THEN "idle" ELSE "list"]
    /\ UNCHANGED tables

(* Mutant: an open database is never checked again. *)
CheckDBOnce(r) ==
    \/ Begin(r, IF Built(r) = 0 THEN latest ELSE Built(r)) /\ UNCHANGED faults
    \/ Begin(r, Built(r)) /\ Fault

(* checkDB at nextCheck; a new process checks at once. *)
CheckDB(r) ==
    \/ Begin(r, latest) /\ UNCHANGED faults
    \/ Begin(r, Built(r)) /\ Fault

(* A tick before nextCheck. *)
Tick(r) == Built(r) # 0 /\ Begin(r, Built(r)) /\ UNCHANGED faults

(* Ids order the documents of a page, and the visits. *)
ToMatch(b, after) == {s \in sboms : stamp[s] # b /\ s > after}

(* ORDER BY id LIMIT: the first PageSize of the rows, or all there are. *)
Page(page, rows) ==
    /\ page \subseteq rows /\ \A s \in page, t \in rows \ page : s < t
    /\ Cardinality(page) <= PageSize
    /\ page = rows \/ Cardinality(page) = PageSize

Current(x) == Min(x.docs)

(* matchOne starts on the first document of the page. *)
Visit(x) ==
    LET fs == Findings[x.open][Current(x)]
    IN [x EXCEPT !.pc = IF fs = <<>> THEN "mark" ELSE "rows", !.todo = RowIDs(fs)]

ListSBOMsToMatch(x, page) ==
    LET y == [x EXCEPT !.docs = page, !.full = Cardinality(page) = PageSize]
    IN IF page = {} THEN [y EXCEPT !.pc = "decide"] ELSE Visit(y)

List(r) ==
    /\ At(r, "list")
    /\ \E page \in SUBSET ToMatch(Built(r), exec[r].after) :
        /\ Page(page, ToMatch(Built(r), exec[r].after))
        /\ exec' = [exec EXCEPT ![r] = ListSBOMsToMatch(@, page)]
    /\ UNCHANGED tables

Found(r) == Findings[Built(r)][Current(exec[r])]

Put(f, k, v) == [x \in DOMAIN f \cup {k} |-> IF x = k THEN v ELSE f[x]]

(* MergeVulnerability of one row, with its references. *)
MergeVulnerability(r) ==
    /\ At(r, "rows")
    /\ \E id \in exec[r].todo :
        LET old == IF id \in DOMAIN vulns THEN vulns[id] ELSE [built |-> 0]
        IN /\ vulns' = Put(vulns, id, MergeRow(old, RowOf(id, Found(r)), Built(r)))
           /\ refs' = Put(refs, id, Built(r))
           /\ exec' = [exec EXCEPT ![r] =
                IF @.todo # {id} THEN [@ EXCEPT !.todo = exec[r].todo \ {id}]
                ELSE [@ EXCEPT !.pc = "mappings", !.todo = MappingKeys(Found(r))]]
    /\ UNCHANGED <<stamp, mappings, symbolSets, matched>>

(* MergePackageVulns of one mapping; its vulnerability must still be there. *)
MergePackageVulns(r) ==
    /\ At(r, "mappings")
    /\ \E k \in exec[r].todo :
        LET old == IF k \in DOMAIN mappings THEN mappings[k] ELSE [fix |-> NoFix, built |-> 0]
        IN IF k.vuln \in DOMAIN vulns
           THEN /\ mappings' = Put(mappings, k, MergeFix(old, FixOf(k, Found(r)), Built(r)))
                /\ exec' = [exec EXCEPT ![r].todo = @ \ {k},
                                        ![r].pc = IF exec[r].todo = {k} THEN "mark" ELSE @]
           ELSE exec' = [exec EXCEPT ![r] = Abandon(@)] /\ UNCHANGED mappings
    /\ UNCHANGED <<stamp, vulns, refs, symbolSets, matched>>

(* The next document of the page, the next page, or the end of the list. *)
Advance(x) ==
    IF x.docs # {Current(x)} THEN Visit([x EXCEPT !.docs = @ \ {Current(x)}])
    ELSE [x EXCEPT !.pc = IF x.full THEN "list" ELSE "decide", !.docs = {}, !.after = Current(x)]

(* MarkSBOMMatched: the foreign key refuses an SBOM deleted meanwhile. *)
MarkSBOMMatched(r) ==
    /\ At(r, "mark")
    /\ LET s == Current(exec[r])
       IN IF s \in sboms
          THEN /\ stamp' = [stamp EXCEPT ![s] = Built(r)]
               /\ exec' = [exec EXCEPT ![r] = Advance(@)]
          ELSE exec' = [exec EXCEPT ![r] = Abandon(@)] /\ UNCHANGED stamp
    /\ UNCHANGED <<vulns, refs, mappings, symbolSets, matched>>

-----------------------------------------------------------------------------
(***************************************************************************)
(* completePass, when the open build is not the one recorded               *)
(***************************************************************************)
(* Mutant: the build is recorded, the cleanup forgotten. *)
DecideWithoutCleanup(r) ==
    /\ At(r, "decide")
    /\ exec' = [exec EXCEPT ![r] = [Abandon(@) EXCEPT
                   !.pc = IF matched = Built(r) THEN "idle" ELSE "record"]]
    /\ UNCHANGED tables

Decide(r) ==
    /\ At(r, "decide")
    /\ exec' = [exec EXCEPT ![r] = [Abandon(@) EXCEPT
                   !.pc = IF matched = Built(r) THEN "idle" ELSE "stale"]]
    /\ UNCHANGED tables

DeleteStaleMatches(r) ==
    /\ At(r, "stale") /\ Go(r, "prune")
    /\ mappings' = Restrict(mappings, {k \in DOMAIN mappings : mappings[k].built = Built(r)})
    /\ refs' = Restrict(refs, {v \in DOMAIN refs : refs[v] = Built(r)})
    /\ UNCHANGED <<stamp, vulns, symbolSets, matched>>

Orphan(v) == \A k \in DOMAIN mappings : k.vuln # v

PruneOrphanVulnerabilities(r) ==
    /\ At(r, "prune") /\ Go(r, "prunesets")
    /\ vulns' = Restrict(vulns, {v \in DOMAIN vulns : ~Orphan(v)})
    /\ refs' = Restrict(refs, {v \in DOMAIN refs : ~Orphan(v)})
    /\ UNCHANGED <<stamp, mappings, symbolSets, matched>>

PruneOrphanGoSymbolSets(r) ==
    /\ At(r, "prunesets") /\ Go(r, "record")
    /\ symbolSets' = symbolSets \cap UNION {LinkedSets(s) : s \in sboms}
    /\ UNCHANGED <<stamp, vulns, refs, mappings, matched>>

SetMatchedDBBuilt(r) ==
    /\ At(r, "record") /\ Go(r, "idle")
    /\ matched' = Built(r)
    /\ UNCHANGED <<stamp, vulns, refs, mappings, symbolSets>>

(* Any statement of a step may fail; the step returns its error. *)
StatementFails(r) ==
    /\ exec[r].pc \notin {"waiting", "idle"} /\ Fault
    /\ exec' = [exec EXCEPT ![r] = Abandon(@)]
    /\ UNCHANGED tables

CompletePass(r) ==
    \/ DeleteStaleMatches(r) \/ PruneOrphanVulnerabilities(r)
    \/ PruneOrphanGoSymbolSets(r) \/ SetMatchedDBBuilt(r)

Step(r) ==
    /\ \/ CheckDB(r) \/ Tick(r)
       \/ /\ \/ List(r) \/ MergeVulnerability(r) \/ MergePackageVulns(r) \/ MarkSBOMMatched(r)
             \/ Decide(r) \/ CompletePass(r)
          /\ UNCHANGED faults
       \/ StatementFails(r)
    /\ UNCHANGED <<world, lock, alone>>

Next ==
    \/ World
    \/ \E r \in Replicas : TryLead(r) \/ Restart(r) \/ LoseSession(r) \/ Step(r)

Spec == Init /\ [][Next]_vars

(***************************************************************************)
(* Each replica keeps trying for the lock, its step goes on, and among its *)
(* ticks there are always some past nextCheck.                             *)
(***************************************************************************)
FairSpec ==
    /\ Spec
    /\ \A r \in Replicas :
        /\ WF_vars(TryLead(r))
        /\ WF_vars(Step(r))
        /\ SF_vars(CheckDB(r) /\ UNCHANGED <<world, lock, alone>>)

-----------------------------------------------------------------------------
(***************************************************************************)
(* A stamp is true: while one leader writes, every finding of an SBOM's    *)
(* stamped build can be read through its mapping, with its references and  *)
(* its symbol sets, and the shared rows are no milder than this SBOM's own *)
(* view of them, whatever order SBOMs were matched in and wherever a pass  *)
(* broke off ("the result does not depend on SBOM order", refresh.go).     *)
(***************************************************************************)
Readable(f, row, b) ==
    /\ KeyOf(f) \in DOMAIN mappings
    /\ f.vuln \in DOMAIN refs
    /\ mappings[KeyOf(f)].built = b /\ f.fix # NoFix => mappings[KeyOf(f)].fix # NoFix
    /\ vulns[f.vuln].built = b => vulns[f.vuln].severity >= row.severity
                                   /\ vulns[f.vuln].score >= row.score

StampedIsWritten ==
    alone => \A s \in {t \in sboms : stamp[t] # 0} :
        LET fs == Findings[stamp[s]][s]
        IN /\ \A i \in DOMAIN fs : Readable(fs[i], RowOf(fs[i].vuln, fs), stamp[s])
           /\ LinkedSets(s) \subseteq symbolSets

(***************************************************************************)
(* A recorded build is clean: nothing an older build matched is left once  *)
(* completePass has recorded a newer one.                                  *)
(***************************************************************************)
OlderBuildsGone ==
    alone => \A k \in DOMAIN mappings : mappings[k].built >= matched

(***************************************************************************)
(* "A newly disclosed CVE reaches every stored SBOM on the next database   *)
(* build": each stored SBOM is matched against the newest build, through   *)
(* crashes, failed statements and a second leader on an older build.       *)
(***************************************************************************)
SBOMsMatched ==
    \A s \in SBOMs : s \in sboms ~> (s \notin sboms \/ stamp[s] = latest)
=============================================================================
