----------------------------- MODULE SearchDiff -----------------------------
(***************************************************************************)
(* Comparing SBOMs: the diff of two, its dependency tree, and the          *)
(* changelog of an artifact.                                               *)
(*                                                                         *)
(* A component carries what the comparison reads off its strings: stem,    *)
(* the last segment of the purl (without one, the name) cut before its     *)
(* version suffix, None when there is none; rank, the place of its version *)
(* in the order of its ecosystem, 0 when versions there have no order.     *)
(* The counts a tree shows under a package are left out.                   *)
(* Doc[s].built is the build date, 0 when no enrichment gave one.          *)
(*                                                                         *)
(* A map of components by key is the set of the rows that won their key.   *)
(* Neither the query nor Go's maps fix the order rows and keys come in, so *)
(* a diff is a set: the answers the code can give.  Nor is the timeline of *)
(* a changelog always the same, see selectArch.  The times of two SBOMs    *)
(* are taken to differ, so its order is.                                   *)
(***************************************************************************)
EXTENDS SearchService

----------------------------------------------------------------------------
(* component_identity.go and version_compare.go *)

(* The choices of one row for each key. *)
OnePerKey(key) ==
  {M \in SUBSET DOMAIN key : \A c \in DOMAIN key : Cardinality({m \in M : key[m] = key[c]}) = 1}

buildComponentMap(C) == OnePerKey([c \in C |-> componentKey(c)])

(* <<>> without a version suffix. *)
versionedNormKey(c) ==
  IF c.stem = None THEN <<>>
  ELSE IF Q!HasPurl(c) THEN Front(c.base) \o <<c.stem>> ELSE <<c.stem>>

Change(type, c, previous) == [type |-> type, c |-> c, previous |-> previous]

(* By exact key: previous holds the row a modified component had before. *)
KeyChanges(old, new) ==
  LET in(M, c) == {m \in M : componentKey(m) = componentKey(c)}
  IN {Change("added", c, {}) : c \in {c \in new : in(old, c) = {}}}
     \cup {Change("modified", c, in(old, c)) : c \in {c \in new : \E o \in in(old, c) : o.version # c.version}}
     \cup {Change("removed", o, {}) : o \in {o \in old : in(new, o) = {}}}

(* A package whose version is part of its name: removed and added under one *)
(* base is one change, unless the new side has several of that base.  Of    *)
(* several removed ones the first of the iteration is taken.                *)
reconcileVersionedPackages(changes, new) ==
  LET key(x) == versionedNormKey(x.c)
      single(n) == n # <<>> /\ Cardinality({c \in new : versionedNormKey(c) = n}) = 1
      added == {x \in changes : x.type = "added" /\ single(key(x))}
      removed == {x \in changes : x.type = "removed" /\ \E a \in added : key(a) = key(x)}
      pairs(P) == {p \in added \X P : key(p[1]) = key(p[2]) /\ p[1].c.name # p[2].c.name}
  IN {(changes \ UNION {{p[1], p[2]} : p \in pairs(P)})
        \cup {Change("modified", p[1].c, {p[2].c}) : p \in pairs(P)} :
          P \in OnePerKey([x \in removed |-> key(x)])}

Directions == {"added", "removed", "upgraded", "downgraded", "modified"}

classifyDirection(x) ==
  LET before == CHOOSE o \in x.previous : TRUE
  IN IF x.type # "modified" THEN x.type
     ELSE IF None \in {x.c.version, before.version} \/ 0 \in {x.c.rank, before.rank} THEN "modified"
     ELSE IF x.c.rank > before.rank THEN "upgraded"
     ELSE IF x.c.rank < before.rank THEN "downgraded" ELSE "modified"

Summary(changes) ==
  [d \in Directions |-> Cardinality({x \in changes : classifyDirection(x) = d})]

diffComponents(old, new) ==
  {[changes |-> X, summary |-> Summary(X)] : X \in reconcileVersionedPackages(KeyChanges(old, new), new)}

Diffs(C, D) ==
  UNION {diffComponents(p[1], p[2]) : p \in buildComponentMap(C) \X buildComponentMap(D)}

----------------------------------------------------------------------------
(* changelog.go and difftree.go *)

DiffSBOMs(db, v, from, to) ==
  IF \E s \in {from, to} : ~Q!IsSBOMVisible(db, v, s) THEN {}
  ELSE Diffs(Q!ListSBOMComponents(from), Q!ListSBOMComponents(to))

(* Direct: what the document's own component depends on.  Without that the  *)
(* roots are the packages nothing depends on, and none is direct.           *)
computeRootsAndDirect(s, P) ==
  LET edges == Q!ListDependenciesBySBOM(s)
      meta == Q!GetSBOMMetadataBomRef(s)
      direct == {e[2] : e \in {e \in edges : e[1] = meta}}
  IN IF meta # None /\ direct # {} THEN [roots |-> direct, direct |-> direct]
     ELSE [roots |-> {p.ref : p \in P} \ ({meta} \cup {e[2] : e \in edges}), direct |-> {}]

(* The package a change is drawn at: by purl, else by name and group. *)
annotateNodeRefs(x, P) ==
  LET same == {p \in P : Q!HasPurl(p) /\ Q!HasPurl(x.c) /\ Q!Purl(p) = Q!Purl(x.c)}
      named == {p \in P : p.name = x.c.name /\ p.group = x.c.group}
  IN IF same # {} THEN {CHOOSE p \in same : TRUE}
     ELSE IF named # {} THEN {CHOOSE p \in named : TRUE} ELSE {}

DiffSBOMsWithTree(db, v, from, to) ==
  LET P == Q!ListSBOMPackages(to)
  IN IF \E s \in {from, to} : ~Q!IsSBOMVisible(db, v, s) THEN {}
     ELSE {[entry |-> e, at |-> {<<x, annotateNodeRefs(x, P)>> : x \in e.changes},
            edges |-> Q!ListDependenciesBySBOM(to), graph |-> computeRootsAndDirect(to, P)] : e \in Diffs(Q!ListSBOMPackages(from), P)}

----------------------------------------------------------------------------
(* changelog_candidates.go *)

effectiveTime(r) == IF Doc[r.id].built # 0 THEN Doc[r.id].built ELSE r.at

laterThan(r, s) ==
  \/ effectiveTime(r) > effectiveTime(s)
  \/ effectiveTime(r) = effectiveTime(s) /\ r.at > s.at

TimelineVersion(r) == IF r.version # None THEN r.version ELSE r.id
GroupKey(r) == <<TimelineVersion(r), Doc[r.id].arch, r.flavor>>

deduplicateSBOMs(rows) == {r \in rows : ~\E s \in rows : GroupKey(s) = GroupKey(r) /\ laterThan(s, r)}

(* The architectures the timeline may be of: without the one asked for and  *)
(* without a preferred one, whichever a Go map gives first.                  *)
selectArch(requested, available) ==
  LET preferred == <<"amd64", "arm64", "arm", "386", "s390x">>
      found == {i \in DOMAIN preferred : preferred[i] \in available}
  IN IF requested # None /\ requested \in available THEN {requested}
     ELSE IF found # {} THEN {preferred[Q!Min(found)]}
     ELSE IF available # {} THEN available ELSE {None}

(* The first by name, which an SBOM without a flavor is; unknown comes last. *)
selectFlavor(requested, available) ==
  IF requested # None /\ requested \in available THEN requested
  ELSE IF None \in available \/ available = {} THEN None
  ELSE IF available = {"unknown"} THEN "unknown"
  ELSE CHOOSE f \in available \ {"unknown"} : TRUE

versionIsSemver(r) == r.version # None /\ Doc[r.id].semver > 0

candidateLess(mode, r, s) ==
  LET semver(x) == Doc[x.id].semver
  IN IF mode = "semver" /\ semver(r) # semver(s) THEN semver(r) < semver(s) ELSE laterThan(s, r)

sortCandidates(rows, mode) == SetToSortSeq(rows, LAMBDA r, s : candidateLess(mode, r, s))

clampPage(page) ==
  [limit  |-> IF page.limit <= 0 THEN 20 ELSE Q!Min({page.limit, 100}),
   offset |-> Q!Max({page.offset, 0})]

Entry(r, s) ==
  [from |-> r.id, to |-> s.id, diffs |-> Diffs(Q!ListSBOMPackages(r.id), Q!ListSBOMPackages(s.id))]

(* A page of the entries, newest first: those from offset on, each a pair   *)
(* of neighbours of the timeline, which runs oldest first.                  *)
Entries(timeline, limit, offset) ==
  LET newer(i) == Len(timeline) - offset - i + 1
  IN [i \in 1 .. Q!Min({limit, Len(timeline) - 1 - offset}) |-> Entry(timeline[newer(i) - 1], timeline[newer(i)])]

(* The versions among the groups, and how many of them are semantic.        *)
groupsSemverShare(best) ==
  LET versions(R) == Cardinality({TimelineVersion(r) : r \in R})
  IN [semver |-> versions({r \in best : versionIsSemver(r)}), total |-> versions(best)]

filterCandidates(best, arch, flavor, mode) ==
  {r \in best : /\ Doc[r.id].arch = arch /\ r.flavor = flavor
                /\ mode = "semver" => versionIsSemver(r)}

(* The changelogs of these rows, grouped as best: one for each timeline.    *)
Timelines(rows, best, share, q) ==
  LET arches == {Doc[r.id].arch : r \in rows}
      flavors == {r.flavor : r \in rows}
      mode == resolveSortMode(q.mode, share.semver, share.total)
      log(T) == [arches |-> arches, flavors |-> flavors, hasSemver |-> share.semver > 0, mode |-> mode,
                 total |-> Q!Max({Cardinality(T) - 1, 0}),
                 entries |-> Entries(sortCandidates(T, mode), clampPage(q.page).limit, clampPage(q.page).offset)]
  IN {log(filterCandidates(best, arch, selectFlavor(q.flavor, flavors), mode)) : arch \in selectArch(q.arch, arches)}

(* q: version, arch and flavor asked for, the sort mode and the page.       *)
Changelogs(candidates, q) ==
  LET rows == {r \in candidates : q.version \in {None, r.version}}
      best == deduplicateSBOMs(rows)
  IN Timelines(rows, best, groupsSemverShare(best), q)

GetArtifactChangelog(db, v, a, q) ==
  IF Q!IsArtifactVisible(db, v, a) THEN Changelogs(Q!ListSBOMCandidatesByArtifact(db, v, a), q) ELSE {}
=============================================================================
