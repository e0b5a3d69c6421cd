------------------------- MODULE VulnRefresherProofs --------------------------
(***************************************************************************)
(* Proofs about VulnRefresher, for every set of replicas and SBOMs, every  *)
(* sequence of database builds, whatever the matcher finds in them, every  *)
(* page size and any number of faults.                                     *)
(***************************************************************************)
EXTENDS VulnRefresher, FiniteSetTheorems, WellFoundedInduction, TLAPS

-----------------------------------------------------------------------------
(***************************************************************************)
(* The inductive invariants                                                *)
(***************************************************************************)
Execution == [pc : Steps, open : 0 .. MaxBuild, after : Nat, docs : SUBSET SBOMs,
              full : BOOLEAN, todo : SUBSET (VulnIDs \cup MappingKey)]

InDocument == {"rows", "mappings", "mark"}

(* The findings of the document a run is at.                               *)
Doc(x) == Findings[x.open][Current(x)]

(* A pass starts at the first page, a run opens before it works, and what  *)
(* is to be written of a document is what its findings name.               *)
Sound(x) ==
    /\ x.pc = "waiting" => x.open = 0
    /\ x.pc \in {"waiting", "idle", "stale", "prune", "prunesets", "record"} => x.after = 0
    /\ x.pc \notin {"waiting", "idle"} => x.open # 0
    /\ x.pc \in InDocument => x.docs # {}
    /\ x.pc = "rows" => x.todo \subseteq RowIDs(Doc(x))
    /\ x.pc = "mappings" => x.todo \subseteq MappingKeys(Doc(x))
    /\ x.open <= latest

Types ==
    /\ latest \in Builds /\ sboms \subseteq SBOMs /\ matched \in Nat
    /\ stamp \in [SBOMs -> 0 .. MaxBuild]
    /\ \A s \in SBOMs \ sboms : stamp[s] = 0
    /\ \A v \in DOMAIN vulns :
         vulns[v].built \in Nat /\ vulns[v].severity \in Int /\ vulns[v].score \in Int
    /\ \A v \in DOMAIN refs : refs[v] \in Nat
    /\ \A k \in DOMAIN mappings : mappings[k].built \in Nat
    /\ alone \in BOOLEAN
    /\ exec \in [Replicas -> Execution]
    /\ \A r \in Replicas : Sound(exec[r])

(* Who leads holds the lock, as long as no session broke. *)
OneLeader == alone => \A r \in Replicas : ~At(r, "waiting") => lock = r

(* Nothing is stored of a build after n. *)
UpTo(n) ==
    /\ matched <= n
    /\ \A s \in SBOMs : stamp[s] <= n
    /\ \A v \in DOMAIN vulns : vulns[v].built <= n
    /\ \A v \in DOMAIN refs : refs[v] <= n
    /\ \A k \in DOMAIN mappings : mappings[k].built <= n

(* The leader writes with the newest build anything was written with. *)
Newest(x) == x.open # 0 => UpTo(x.open)

(* After the clean-up only the open build's mappings are left. *)
Cleaned(x) ==
    x.pc \in {"prune", "prunesets", "record"} =>
        \A k \in DOMAIN mappings : mappings[k].built = x.open

(* SBOMs whose stamp an older build left. *)
Left(b) == {s \in sboms : stamp[s] # 0 /\ stamp[s] # b}

(* Every such SBOM is still ahead of the pass, and none at its end. *)
Ahead(x) ==
    /\ x.pc = "list" => \A s \in Left(x.open) : s > x.after
    /\ x.pc \in InDocument =>
         \A s \in Left(x.open) : s \in x.docs \/ (x.full /\ \A d \in x.docs : d < s)
    /\ x.pc \in {"decide", "stale"} => Left(x.open) = {}

(* What build b's findings fs need in the store: a row that is no milder,  *)
(* with its references, and a mapping that knows a fix if one of them does *)
RowKept(v, fs, b) ==
    /\ v \in DOMAIN refs /\ refs[v] >= b
    /\ v \in DOMAIN vulns /\ vulns[v].built >= b
    /\ vulns[v].built = b => /\ vulns[v].severity >= RowOf(v, fs).severity
                             /\ vulns[v].score >= RowOf(v, fs).score

Fixed(k, fs) == \E i \in DOMAIN fs : KeyOf(fs[i]) = k /\ fs[i].fix # NoFix

KeyKept(k, fs, b) ==
    /\ k \in DOMAIN mappings /\ mappings[k].built >= b
    /\ mappings[k].built = b /\ Fixed(k, fs) => mappings[k].fix # NoFix

RowsKept(V, fs, b) == \A v \in V : RowKept(v, fs, b)
KeysKept(K, fs, b) == \A k \in K : KeyKept(k, fs, b)
Kept(fs, b) == RowsKept(RowIDs(fs), fs, b) /\ KeysKept(MappingKeys(fs), fs, b)

StampedKept ==
    \A s \in sboms : stamp[s] # 0 => Kept(Findings[stamp[s]][s], stamp[s])

(* What of the current document is written already is in the store. *)
Progress(x) ==
    /\ x.pc = "rows" => RowsKept(RowIDs(Doc(x)) \ x.todo, Doc(x), x.open)
    /\ x.pc = "mappings" => /\ RowsKept(RowIDs(Doc(x)), Doc(x), x.open)
                            /\ KeysKept(MappingKeys(Doc(x)) \ x.todo, Doc(x), x.open)
    /\ x.pc = "mark" => Kept(Doc(x), x.open)

SetsKept == \A s \in sboms : LinkedSets(s) \subseteq symbolSets

(* All of it, while one leader writes. *)
Led(x) == Newest(x) /\ Cleaned(x) /\ Ahead(x) /\ Progress(x)

Store ==
    /\ UpTo(latest)
    /\ \A k \in DOMAIN mappings : mappings[k].built >= matched
    /\ StampedKept

LeaderInv == OneLeader /\ (alone => Store /\ \A r \in Replicas : Led(exec[r]))

-----------------------------------------------------------------------------
(***************************************************************************)
(* Least ids, largest ratings, and the rows a merge leaves                 *)
(***************************************************************************)

(* A set of naturals has a least element. *)
LEMMA MinNat ==
    ASSUME NEW S, S \subseteq Nat, S # {}
    PROVE  Min(S) \in S /\ \A y \in S : Min(S) <= y
<1>1. PICK x \in S : \A y \in S : ~(<<y, x>> \in OpToRel(<, Nat))
  BY NatLessThanWellFounded, WFMin, Zenon
<1>2. \A y \in S : ~(y < x)
  BY <1>1, Zenon DEF OpToRel
<1>3. \A y \in S : x <= y
  BY <1>2
<1> QED
  BY <1>3 DEF Min

(* A severity and a score are the largest of the ratings given. *)
LEMMA MaxSeverity ==
    ASSUME NEW S, S \subseteq Severity, S # {}
    PROVE  Max(S) \in Severity
<1>1. \E x \in S : \A y \in S : x >= y
  <2>1. \A y \in S : y \in Int /\ 0 <= y /\ y <= 4
    BY DEF Severity
  <2>2. CASE 4 \in S
    BY <2>1, <2>2
  <2>3. CASE 4 \notin S /\ 3 \in S
    BY <2>1, <2>3
  <2>4. CASE 4 \notin S /\ 3 \notin S /\ 2 \in S
    BY <2>1, <2>4
  <2>5. CASE 4 \notin S /\ 3 \notin S /\ 2 \notin S /\ 1 \in S
    BY <2>1, <2>5
  <2>6. CASE 4 \notin S /\ 3 \notin S /\ 2 \notin S /\ 1 \notin S
    BY <2>1, <2>6
  <2> QED
    BY <2>2, <2>3, <2>4, <2>5, <2>6
<1> QED
  BY <1>1 DEF Max

(* The same of any bounded set of integers: the distances to the bound are *)
(* naturals, and the least of them is that of the largest element.         *)
LEMMA MaxScore ==
    ASSUME NEW S, S \subseteq Score, S # {}
    PROVE  Max(S) \in Score
<1> DEFINE D == {10 - x : x \in S}
<1>1. \A x \in S : x \in Int /\ x <= 10
  BY DEF Score, NoScore
<1>2. D \subseteq Nat /\ D # {}
  BY <1>1
<1>3. PICK x \in S : Min(D) = 10 - x
  BY <1>2, MinNat
<1>4. \A y \in S : x >= y
  <2> TAKE y \in S
  <2>1. 10 - y \in D
    OBVIOUS
  <2>2. 10 - x <= 10 - y
    BY <1>2, <1>3, <2>1, MinNat
  <2> QED
    BY <1>1, <2>2
<1> QED
  BY <1>4 DEF Max

(* A row that is made of some findings carries a severity and a score. *)
LEMMA RowRatings ==
    ASSUME NEW fs \in Seq(Finding), NEW v \in RowIDs(fs)
    PROVE  RowOf(v, fs).severity \in Int /\ RowOf(v, fs).score \in Int
<1> DEFINE own == {f \in ToSet(fs) : f.vuln = v}
           label == Max({f.label : f \in own})
           mine == Max({f.own : f \in own})
           rel == Max({f.rel : f \in own})
<1>1. ToSet(fs) \subseteq Finding /\ own # {}
  BY DEF ToSet, RowIDs
<1>2. /\ {f.label : f \in own} \subseteq Severity /\ {f.label : f \in own} # {}
      /\ {f.own : f \in own} \subseteq Score /\ {f.own : f \in own} # {}
      /\ {f.rel : f \in own} \subseteq Score /\ {f.rel : f \in own} # {}
  BY <1>1 DEF Finding
<1>3. label \in Int /\ mine \in Int /\ rel \in Int
  <2>1. label \in Severity
    BY <1>2, MaxSeverity
  <2>2. mine \in Score /\ rel \in Score
    BY <1>2, MaxScore
  <2> HIDE DEF label, mine, rel
  <2> QED
    BY <2>1, <2>2 DEF Severity, Score, NoScore
<1>4. \A n \in Int : SeverityLabel(n) \in Int
  BY DEF SeverityLabel
<1>5. /\ RowOf(v, fs).severity =
           (IF label # 0 THEN label
            ELSE IF SeverityLabel(mine) # 0 THEN SeverityLabel(mine)
            ELSE SeverityLabel(rel))
      /\ RowOf(v, fs).score = (IF mine # NoScore THEN mine ELSE rel)
  BY DEF RowOf
<1> HIDE DEF label, mine, rel
<1> QED
  BY <1>3, <1>4, <1>5

(* The first finding with a fix gives the mapping one. *)
LEMMA FixKept ==
    ASSUME NEW fs \in Seq(Finding), NEW k, Fixed(k, fs)
    PROVE  FixOf(k, fs) # NoFix
<1> DEFINE I == {i \in DOMAIN fs : KeyOf(fs[i]) = k /\ fs[i].fix # NoFix}
<1>1. I # {} /\ I \subseteq Nat
  BY DEF Fixed
<1>2. Min(I) \in I
  BY <1>1, MinNat
<1> QED
  BY <1>1, <1>2 DEF FixOf

(* A merge leaves a row of build n at least as severe as the one it writes *)
(* and, when that was of the same build, as the one it finds.              *)
LEMMA MergedRow ==
    ASSUME NEW old, NEW new, NEW n \in Nat, new.severity \in Int, new.score \in Int,
           old.built = n => old.severity \in Int /\ old.score \in Int
    PROVE  LET row == MergeRow(old, new, n)
           IN /\ row.built = n /\ row.severity \in Int /\ row.score \in Int
              /\ row.severity >= new.severity /\ row.score >= new.score
              /\ old.built = n => row.severity >= old.severity /\ row.score >= old.score
BY DEF MergeRow, MoreSevere

(* The statements on one row and on one mapping, for the findings F of a   *)
(* document and build n.                                                   *)
RowAt(id) == IF id \in DOMAIN vulns THEN vulns[id] ELSE [built |-> 0]
KeyAt(k) == IF k \in DOMAIN mappings THEN mappings[k] ELSE [fix |-> NoFix, built |-> 0]

RowIsWritten(id, F, n) ==
    /\ vulns' = Put(vulns, id, MergeRow(RowAt(id), RowOf(id, F), n))
    /\ refs' = Put(refs, id, n)

KeyIsWritten(k, F, n) ==
    mappings' = Put(mappings, k, MergeFix(KeyAt(k), FixOf(k, F), n))

(* A statement on one row: what it leaves there is of its own build, as    *)
(* severe as the row it writes and as a row of that build it finds.        *)
LEMMA RowMerged ==
    ASSUME Types, NEW n \in Nat, n # 0,
           NEW F \in Seq(Finding), NEW id \in RowIDs(F), RowIsWritten(id, F, n)
    PROVE  /\ DOMAIN vulns' = DOMAIN vulns \cup {id}
           /\ DOMAIN refs' = DOMAIN refs \cup {id} /\ refs'[id] = n
           /\ vulns'[id].built = n
           /\ vulns'[id].severity \in Int /\ vulns'[id].score \in Int
           /\ vulns'[id].severity >= RowOf(id, F).severity
           /\ vulns'[id].score >= RowOf(id, F).score
           /\ id \in DOMAIN vulns /\ vulns[id].built = n =>
                 /\ vulns'[id].severity >= vulns[id].severity
                 /\ vulns'[id].score >= vulns[id].score
           /\ \A v \in DOMAIN vulns : v # id => vulns'[v] = vulns[v]
           /\ \A v \in DOMAIN refs : v # id => refs'[v] = refs[v]
<1> DEFINE old == RowAt(id)
           new == RowOf(id, F)
           row == MergeRow(old, new, n)
<1>1. new.severity \in Int /\ new.score \in Int
  BY RowRatings
<1>2. old.built = n => id \in DOMAIN vulns /\ old = vulns[id]
  BY DEF RowAt
<1>3. old.built = n => old.severity \in Int /\ old.score \in Int
  BY <1>2 DEF Types
<1>4. /\ row.built = n /\ row.severity \in Int /\ row.score \in Int
      /\ row.severity >= new.severity /\ row.score >= new.score
      /\ old.built = n => row.severity >= old.severity /\ row.score >= old.score
  <2> HIDE DEF new
  <2> QED
    BY <1>1, <1>3, MergedRow
<1>5. /\ vulns' = Put(vulns, id, row)
      /\ DOMAIN vulns' = DOMAIN vulns \cup {id} /\ vulns'[id] = row
      /\ \A v \in DOMAIN vulns : v # id => vulns'[v] = vulns[v]
  <2> HIDE DEF row
  <2>1. vulns' = Put(vulns, id, row)
    BY DEF row, RowIsWritten
  <2> QED
    BY <2>1 DEF Put
<1>6. /\ DOMAIN refs' = DOMAIN refs \cup {id} /\ refs'[id] = n
      /\ \A v \in DOMAIN refs : v # id => refs'[v] = refs[v]
  BY DEF Put, RowIsWritten
<1>7. id \in DOMAIN vulns /\ vulns[id].built = n =>
        row.severity >= vulns[id].severity /\ row.score >= vulns[id].score
  <2>1. id \in DOMAIN vulns => old = vulns[id]
    BY DEF RowAt
  <2> HIDE DEF row, old
  <2> QED
    BY <1>4, <2>1
<1>8. /\ vulns'[id].built = n
      /\ vulns'[id].severity \in Int /\ vulns'[id].score \in Int
      /\ vulns'[id].severity >= new.severity /\ vulns'[id].score >= new.score
      /\ id \in DOMAIN vulns /\ vulns[id].built = n =>
            /\ vulns'[id].severity >= vulns[id].severity
            /\ vulns'[id].score >= vulns[id].score
  <2> HIDE DEF row, new, old
  <2> QED
    BY <1>4, <1>5, <1>7
<1> QED
  BY <1>5, <1>6, <1>8, Zenon

(* A statement on one row takes nothing from what is kept, and adds it.    *)
LEMMA RowWritten ==
    ASSUME Types, NEW n \in Nat, UpTo(n),
           NEW F \in Seq(Finding), NEW id \in RowIDs(F), n # 0, RowIsWritten(id, F, n)
    PROVE  /\ \A v \in DOMAIN vulns' :
                /\ vulns'[v].built \in Nat /\ vulns'[v].built <= n
                /\ vulns'[v].severity \in Int /\ vulns'[v].score \in Int
           /\ \A v \in DOMAIN refs' : refs'[v] \in Nat /\ refs'[v] <= n
           /\ RowKept(id, F, n)'
           /\ \A b \in 0 .. n, fs \in Seq(Finding) : \A v \in RowIDs(fs) :
                 RowKept(v, fs, b) => RowKept(v, fs, b)'
<1> DEFINE new == RowOf(id, F)
           row == vulns'[id]
<1>4. /\ row.built = n /\ row.severity \in Int /\ row.score \in Int
      /\ row.severity >= new.severity /\ row.score >= new.score
      /\ id \in DOMAIN vulns /\ vulns[id].built = n =>
            row.severity >= vulns[id].severity /\ row.score >= vulns[id].score
  BY RowMerged, Zenon
<1>5. /\ DOMAIN vulns' = DOMAIN vulns \cup {id} /\ vulns'[id] = row
      /\ \A v \in DOMAIN vulns : v # id => vulns'[v] = vulns[v]
  BY DEF RowIsWritten, Put
<1>6. /\ DOMAIN refs' = DOMAIN refs \cup {id} /\ refs'[id] = n
      /\ \A v \in DOMAIN refs : v # id => refs'[v] = refs[v]
  BY DEF RowIsWritten, Put
<1> HIDE DEF row, new
<1>7. \A v \in DOMAIN vulns' :
         /\ vulns'[v].built \in Nat /\ vulns'[v].built <= n
         /\ vulns'[v].severity \in Int /\ vulns'[v].score \in Int
  BY <1>4, <1>5 DEF Types, UpTo
<1>8. \A v \in DOMAIN refs' : refs'[v] \in Nat /\ refs'[v] <= n
  BY <1>6 DEF Types, UpTo
<1>9. RowKept(id, F, n)'
  BY <1>4, <1>5, <1>6 DEF RowKept, new
<1>10. ASSUME NEW b \in 0 .. n, NEW fs \in Seq(Finding), NEW v \in RowIDs(fs),
              RowKept(v, fs, b)
       PROVE  RowKept(v, fs, b)'
  <2> DEFINE want == RowOf(v, fs)
  <2>1. want.severity \in Int /\ want.score \in Int
    BY RowRatings
  <2>2. /\ v \in DOMAIN refs /\ refs[v] >= b
        /\ v \in DOMAIN vulns /\ vulns[v].built >= b
        /\ vulns[v].built = b => /\ vulns[v].severity >= want.severity
                                 /\ vulns[v].score >= want.score
    BY <1>10 DEF RowKept
  <2> HIDE DEF want
  <2>3. CASE v # id
    BY <1>5, <1>6, <2>2, <2>3 DEF RowKept, want
  <2>4. CASE v = id
    <3>1. /\ v \in DOMAIN refs' /\ refs'[v] = n
          /\ v \in DOMAIN vulns' /\ vulns'[v] = row /\ row.built = n /\ n >= b
      BY <1>4, <1>5, <1>6, <2>4
    <3>2. CASE n = b
      <4>1. vulns[v].built \in Nat /\ vulns[v].built <= n
        BY <2>2, <2>4 DEF Types, UpTo
      <4>2. vulns[v].built = n /\ vulns[v].severity \in Int /\ vulns[v].score \in Int
        BY <2>2, <3>2, <4>1 DEF Types
      <4>3. row.severity >= want.severity /\ row.score >= want.score
        BY <1>4, <2>1, <2>2, <2>4, <3>2, <4>1, <4>2
      <4> QED
        BY <3>1, <3>2, <4>3 DEF RowKept, want
    <3>3. CASE n # b
      BY <3>1, <3>3 DEF RowKept
    <3> QED
      BY <3>2, <3>3
  <2> QED
    BY <2>3, <2>4
<1> QED
  BY <1>7, <1>8, <1>9, <1>10

(* The same of a statement on one mapping.                                 *)
LEMMA KeyWritten ==
    ASSUME Types, NEW n \in Nat, UpTo(n), n # 0,
           NEW F \in Seq(Finding), NEW k, KeyIsWritten(k, F, n)
    PROVE  /\ DOMAIN mappings' = DOMAIN mappings \cup {k}
           /\ mappings'[k].built = n
           /\ \A j \in DOMAIN mappings : j # k => mappings'[j] = mappings[j]
           /\ KeyKept(k, F, n)'
           /\ \A b \in 0 .. n, fs \in Seq(Finding) : \A j :
                 KeyKept(j, fs, b) => KeyKept(j, fs, b)'
<1> DEFINE old == KeyAt(k)
           fix == IF old.built # n \/ old.fix = NoFix THEN FixOf(k, F) ELSE old.fix
           m == [fix |-> fix, built |-> n]
<1>1. mappings' = Put(mappings, k, m)
  BY DEF MergeFix, KeyIsWritten
<1>2. m.built = n /\ m.fix = fix
  OBVIOUS
<1> HIDE DEF m
<1>3. /\ DOMAIN mappings' = DOMAIN mappings \cup {k} /\ mappings'[k] = m
      /\ \A j \in DOMAIN mappings : j # k => mappings'[j] = mappings[j]
  BY <1>1 DEF Put
<1>4. KeyKept(k, F, n)'
  <2>1. Fixed(k, F) => fix # NoFix
    BY FixKept
  <2> QED
    BY <1>2, <1>3, <2>1 DEF KeyKept
<1>5. ASSUME NEW b \in 0 .. n, NEW fs \in Seq(Finding), NEW j, KeyKept(j, fs, b)
      PROVE  KeyKept(j, fs, b)'
  <2>1. CASE j # k
    BY <1>3, <1>5, <2>1 DEF KeyKept
  <2>2. CASE j = k
    <3>1. k \in DOMAIN mappings /\ old = mappings[k]
      BY <1>5, <2>2 DEF KeyKept, KeyAt
    <3>2. old.built \in Nat /\ old.built <= n /\ old.built >= b
      BY <1>5, <2>2, <3>1 DEF Types, UpTo, KeyKept
    <3>3. CASE n = b /\ Fixed(k, fs)
      <4>1. old.built = n /\ old.fix # NoFix
        BY <1>5, <2>2, <3>1, <3>2, <3>3 DEF KeyKept
      <4>2. fix # NoFix
        BY <4>1
      <4> QED
        BY <1>2, <1>3, <2>2, <3>3, <4>2 DEF KeyKept
    <3>4. CASE ~(n = b /\ Fixed(k, fs))
      <4>1. n >= b
        OBVIOUS
      <4> HIDE DEF fix
      <4> QED
        BY <1>2, <1>3, <2>2, <3>4, <4>1 DEF KeyKept
    <3> QED
      BY <3>3, <3>4
  <2> QED
    BY <2>1, <2>2
<1> QED
  BY <1>2, <1>3, <1>4, <1>5

-----------------------------------------------------------------------------
(***************************************************************************)
(* What each step does to the replica that takes it                        *)
(***************************************************************************)
LEMMA SetExec ==
    ASSUME exec \in [Replicas -> Execution], NEW r \in Replicas, NEW y \in Execution,
           exec' = [exec EXCEPT ![r] = y]
    PROVE  /\ exec' \in [Replicas -> Execution]
           /\ exec'[r] = y
           /\ \A q \in Replicas : q # r => exec'[q] = exec[q]
OBVIOUS

(* The document a run is at is one of its page's, the first of those left. *)
LEMMA CurrentIs ==
    ASSUME NEW x \in Execution, x.docs # {}
    PROVE  /\ Current(x) \in x.docs /\ Current(x) \in SBOMs /\ Current(x) \in Nat
           /\ \A d \in x.docs : d \in Nat /\ Current(x) <= d
<1>1. x.docs \subseteq SBOMs /\ x.docs \subseteq Nat
  BY VulnRefresherAssumption DEF Execution
<1> QED
  BY <1>1, MinNat DEF Current

(* What a document's findings name.                                        *)
LEMMA FindingsIs ==
    ASSUME NEW b \in Builds, NEW s \in SBOMs
    PROVE  Findings[b][s] \in Seq(Finding)
BY VulnRefresherAssumption

LEMMA NamedIs ==
    ASSUME NEW fs \in Seq(Finding)
    PROVE  RowIDs(fs) \subseteq VulnIDs /\ MappingKeys(fs) \subseteq MappingKey
<1>1. \A i \in DOMAIN fs : fs[i] \in Finding
  OBVIOUS
<1> QED
  BY <1>1 DEF RowIDs, MappingKeys, KeyOf, Finding, MappingKey

(* The findings of the document a run is at.                               *)
LEMMA FoundIs ==
    ASSUME NEW x \in Execution, x.docs # {}, x.open # 0
    PROVE  /\ x.open \in Builds
           /\ Doc(x) \in Seq(Finding)
<1>1. x.open \in Builds
  BY VulnRefresherAssumption DEF Execution, Builds
<1> QED
  BY <1>1, CurrentIs, FindingsIs DEF Doc

LEMMA VisitIs ==
    ASSUME NEW x \in Execution, x.docs # {}, x.open # 0, NEW fs,
           fs = Doc(x), NEW y, y = Visit(x)
    PROVE  /\ y \in Execution /\ Current(y) = Current(x)
           /\ y.open = x.open /\ y.after = x.after /\ y.docs = x.docs /\ y.full = x.full
           /\ \/ y.pc = "mark" /\ fs = <<>>
              \/ y.pc = "rows" /\ y.todo = RowIDs(fs)
<1>1. RowIDs(fs) \subseteq VulnIDs
  BY FoundIs, NamedIs
<1>2. y = [x EXCEPT !.pc = IF fs = <<>> THEN "mark" ELSE "rows", !.todo = RowIDs(fs)]
  BY DEF Visit, Doc
<1> DEFINE todo == RowIDs(fs)
           pc == IF fs = <<>> THEN "mark" ELSE "rows"
<1>3. pc \in Steps /\ ((pc = "mark" /\ fs = <<>>) \/ pc = "rows")
  BY DEF Steps
<1>4. y = [x EXCEPT !.pc = pc, !.todo = todo] /\ todo \subseteq VulnIDs
  BY <1>1, <1>2
<1> HIDE DEF pc, todo
<1>5. /\ y \in Execution /\ y.pc = pc /\ y.todo = todo
      /\ y.open = x.open /\ y.after = x.after /\ y.docs = x.docs /\ y.full = x.full
  BY <1>3, <1>4 DEF Execution
<1> QED
  BY <1>3, <1>5 DEF Current, todo

(* An error ends the step between two ticks, with the database still open. *)
LEMMA AbandonIs ==
    ASSUME NEW x \in Execution
    PROVE  /\ Abandon(x) \in Execution
           /\ Abandon(x).pc = "idle" /\ Abandon(x).after = 0 /\ Abandon(x).open = x.open
BY DEF Abandon, Execution, Steps

(* A process starts with nothing open and waits for the lock.              *)
LEMMA StartedIs ==
    /\ Started \in Execution
    /\ Started.pc = "waiting" /\ Started.open = 0 /\ Started.after = 0
<1>1. 0 \in 0 .. MaxBuild
  BY VulnRefresherAssumption
<1> QED
  BY <1>1 DEF Started, Execution, Steps

LEMMA BeginStep ==
    ASSUME Types, NEW r \in Replicas, NEW open \in 0 .. MaxBuild, Begin(r, open)
    PROVE  /\ At(r, "idle")
           /\ \E y \in Execution :
                /\ exec' = [exec EXCEPT ![r] = y]
                /\ y.open = open /\ y.after = exec[r].after
                /\ (open = 0 /\ y.pc = "idle") \/ (open # 0 /\ y.pc = "list")
<1> DEFINE x == exec[r]
           pc == IF open = 0 THEN "idle" ELSE "list"
           y == [x EXCEPT !.open = open, !.pc = pc]
<1>1. x \in Execution
  BY DEF Types
<1>2. pc \in Steps /\ ((open = 0 /\ pc = "idle") \/ (open # 0 /\ pc = "list"))
  BY DEF Steps
<1>3. exec' = [exec EXCEPT ![r] = y]
  BY DEF Begin
<1>4. y \in Execution /\ y.open = open /\ y.after = x.after /\ y.pc = pc
  <2> HIDE DEF pc
  <2> QED
    BY <1>1, <1>2 DEF Execution
<1> HIDE DEF y, pc
<1> QED
  BY <1>2, <1>3, <1>4 DEF Begin

LEMMA ListStep ==
    ASSUME Types, NEW r \in Replicas, List(r)
    PROVE  /\ At(r, "list")
           /\ \E page \in SUBSET ToMatch(Built(r), exec[r].after), y \in Execution :
                /\ Page(page, ToMatch(Built(r), exec[r].after))
                /\ exec' = [exec EXCEPT ![r] = y]
                /\ y.open = exec[r].open /\ y.after = exec[r].after
                /\ \/ page = {} /\ y.pc = "decide"
                   \/ /\ page # {} /\ y.docs = page
                      /\ y.full = (Cardinality(page) = PageSize)
                      /\ \/ y.pc = "mark" /\ Doc(y) = <<>>
                         \/ /\ y.pc = "rows"
                            /\ y.todo = RowIDs(Doc(y))
<1> DEFINE x == exec[r]
<1>1. PICK page \in SUBSET ToMatch(Built(r), x.after) :
         /\ Page(page, ToMatch(Built(r), x.after))
         /\ exec' = [exec EXCEPT ![r] = ListSBOMsToMatch(x, page)]
  BY DEF List
<1>2. x \in Execution /\ x.open # 0 /\ page \subseteq SBOMs /\ At(r, "list")
  BY DEF List, Types, Sound, At, ToMatch
<1> DEFINE full == Cardinality(page) = PageSize
           z == [x EXCEPT !.docs = page, !.full = full]
<1>3. full \in BOOLEAN
  OBVIOUS
<1>4. z \in Execution /\ z.docs = page /\ z.open = x.open /\ z.after = x.after
      /\ z.full = full
  <2> HIDE DEF full
  <2> QED
    BY <1>2, <1>3 DEF Execution
<1>5. CASE page = {}
  <2> DEFINE y == [z EXCEPT !.pc = "decide"]
  <2>1. exec' = [exec EXCEPT ![r] = y]
    BY <1>1, <1>5 DEF ListSBOMsToMatch
  <2>2. y \in Execution /\ y.open = x.open /\ y.after = x.after /\ y.pc = "decide"
    <3> HIDE DEF z
    <3> QED
      BY <1>4 DEF Execution, Steps
  <2> HIDE DEF y
  <2> QED
    BY <1>1, <1>2, <1>5, <2>1, <2>2
<1>6. CASE page # {}
  <2> DEFINE y == Visit(z)
             fs == Doc(z)
  <2>1. exec' = [exec EXCEPT ![r] = y]
    BY <1>1, <1>6 DEF ListSBOMsToMatch
  <2>2. /\ y \in Execution /\ Current(y) = Current(z)
        /\ y.open = z.open /\ y.after = z.after /\ y.docs = z.docs /\ y.full = z.full
        /\ \/ y.pc = "mark" /\ fs = <<>>
           \/ y.pc = "rows" /\ y.todo = RowIDs(fs)
    <3>1. z.docs # {} /\ z.open # 0
      BY <1>2, <1>4, <1>6
    <3>2. fs = Doc(z) /\ y = Visit(z) /\ z \in Execution
      BY <1>4
    <3> HIDE DEF y, fs, z, full
    <3> QED
      BY <3>1, <3>2, VisitIs, Zenon
  <2>3. fs = Doc(y)
    BY <2>2 DEF Doc
  <2>4. y.full = (Cardinality(page) = PageSize)
    <3>1. y.full = full
      BY <1>4, <2>2, Zenon
    <3> QED
      BY <3>1, Zenon
  <2>5. /\ y.open = x.open /\ y.after = x.after /\ y.docs = page
        /\ \/ y.pc = "mark" /\ Doc(y) = <<>>
           \/ y.pc = "rows" /\ y.todo = RowIDs(Doc(y))
    BY <1>4, <2>2, <2>3, Zenon
  <2> HIDE DEF y, fs, z, full
  <2> QED
    BY <1>1, <1>2, <1>6, <2>1, <2>2, <2>4, <2>5, Zenon
<1> QED
  BY <1>5, <1>6

(* A row is written, and when it was the last the mappings come next.      *)
LEMMA RowStep ==
    ASSUME Types, NEW r \in Replicas, MergeVulnerability(r)
    PROVE  /\ At(r, "rows")
           /\ \E id \in exec[r].todo, y \in Execution :
                /\ RowIsWritten(id, Doc(exec[r]), Built(r))
                /\ exec' = [exec EXCEPT ![r] = y]
                /\ y.open = exec[r].open /\ y.after = exec[r].after
                /\ y.docs = exec[r].docs /\ y.full = exec[r].full
                /\ Current(y) = Current(exec[r])
                /\ \/ y.pc = "rows" /\ y.todo = exec[r].todo \ {id}
                   \/ /\ y.pc = "mappings" /\ y.todo = MappingKeys(Doc(exec[r]))
                      /\ exec[r].todo = {id}
<1> DEFINE x == exec[r]
           F == Doc(x)
<1>1. PICK id \in exec[r].todo :
        /\ RowIsWritten(id, Doc(exec[r]), Built(r))
        /\ exec' = [exec EXCEPT ![r] =
              IF @.todo # {id} THEN [@ EXCEPT !.todo = exec[r].todo \ {id}]
              ELSE [@ EXCEPT !.pc = "mappings", !.todo = MappingKeys(Doc(exec[r]))]]
  BY DEF MergeVulnerability, RowIsWritten, RowAt, Found, Doc, Built
<1>2. x \in Execution /\ At(r, "rows") /\ x.pc = "rows"
  BY DEF MergeVulnerability, At, Types
<1>3. MappingKeys(F) \subseteq MappingKey
  <2>1. x.docs # {} /\ x.open # 0
    BY <1>2 DEF Types, Sound, InDocument
  <2> QED
    BY <1>2, <2>1, FoundIs, NamedIs
<1> DEFINE To(y) == /\ y \in Execution /\ y.open = x.open /\ y.after = x.after
                    /\ y.docs = x.docs /\ y.full = x.full
                    /\ Current(y) = Current(x)
                    /\ \/ y.pc = "rows" /\ y.todo = x.todo \ {id}
                       \/ y.pc = "mappings" /\ y.todo = MappingKeys(F) /\ x.todo = {id}
<1>4. CASE x.todo # {id}
  <2> DEFINE y == [x EXCEPT !.todo = x.todo \ {id}]
  <2>1. To(y)
    BY <1>2 DEF Execution, Current
  <2>2. exec' = [exec EXCEPT ![r] = y]
    BY <1>1, <1>4
  <2> HIDE DEF y, F
  <2> QED
    BY <1>1, <1>2, <2>1, <2>2 DEF F
<1>5. CASE x.todo = {id}
  <2> DEFINE keys == MappingKeys(F)
             y == [x EXCEPT !.pc = "mappings", !.todo = keys]
  <2>1. To(y)
    <3>1. keys \subseteq MappingKey
      BY <1>3
    <3> HIDE DEF keys
    <3>2. /\ y \in Execution /\ y.open = x.open /\ y.after = x.after
          /\ y.docs = x.docs /\ y.full = x.full /\ y.pc = "mappings" /\ y.todo = keys
      BY <1>2, <3>1 DEF Execution, Steps
    <3> HIDE DEF y
    <3> QED
      BY <1>5, <3>2 DEF Current, keys
  <2>2. exec' = [exec EXCEPT ![r] = y]
    BY <1>1, <1>5, Zenon
  <2> HIDE DEF y, F
  <2> QED
    BY <1>1, <1>2, <2>1, <2>2 DEF F
<1> QED
  BY <1>4, <1>5

(* A mapping is written if its row is there; otherwise the step is over.   *)
LEMMA KeyStep ==
    ASSUME Types, NEW r \in Replicas, MergePackageVulns(r)
    PROVE  /\ At(r, "mappings")
           /\ \E k \in exec[r].todo, y \in Execution :
                /\ exec' = [exec EXCEPT ![r] = y]
                /\ y.open = exec[r].open
                /\ \/ /\ KeyIsWritten(k, Doc(exec[r]), Built(r))
                      /\ y.after = exec[r].after
                      /\ y.docs = exec[r].docs /\ y.full = exec[r].full
                      /\ Current(y) = Current(exec[r]) /\ y.todo = exec[r].todo \ {k}
                      /\ \/ y.pc = "mappings"
                         \/ y.pc = "mark" /\ exec[r].todo = {k}
                   \/ y.pc = "idle" /\ y.after = 0 /\ mappings' = mappings
<1> DEFINE x == exec[r]
           F == Doc(x)
<1>1. x \in Execution /\ At(r, "mappings") /\ x.pc = "mappings"
  BY DEF MergePackageVulns, At, Types
<1>2. PICK k \in x.todo :
         IF k.vuln \in DOMAIN vulns
         THEN /\ KeyIsWritten(k, F, Built(r))
              /\ exec' = [exec EXCEPT ![r].todo = @ \ {k},
                                      ![r].pc = IF x.todo = {k} THEN "mark" ELSE @]
         ELSE exec' = [exec EXCEPT ![r] = Abandon(@)] /\ UNCHANGED mappings
  BY DEF MergePackageVulns, KeyIsWritten, KeyAt, Found, Doc, Built
<1>3. CASE k.vuln \in DOMAIN vulns
  <2> DEFINE pc == IF x.todo = {k} THEN "mark" ELSE "mappings"
             y == [x EXCEPT !.todo = x.todo \ {k}, !.pc = pc]
  <2>1. exec' = [exec EXCEPT ![r] = y]
    BY <1>1, <1>2, <1>3
  <2>2. pc \in Steps /\ (pc = "mappings" \/ (pc = "mark" /\ x.todo = {k}))
    BY DEF Steps
  <2>3. /\ y \in Execution /\ y.open = x.open /\ y.after = x.after
        /\ y.docs = x.docs /\ y.full = x.full /\ y.pc = pc /\ y.todo = x.todo \ {k}
    <3> HIDE DEF pc
    <3> QED
      BY <1>1, <2>2 DEF Execution
  <2>4. Current(y) = Current(x)
    BY <2>3 DEF Current
  <2> HIDE DEF y, pc, F
  <2> QED
    BY <1>1, <1>2, <1>3, <2>1, <2>2, <2>3, <2>4 DEF F
<1>4. CASE k.vuln \notin DOMAIN vulns
  <2> DEFINE y == Abandon(x)
  <2>1. /\ y \in Execution /\ y.pc = "idle" /\ y.after = 0 /\ y.open = x.open
    BY <1>1, AbandonIs
  <2>2. exec' = [exec EXCEPT ![r] = y]
    BY <1>2, <1>4
  <2> HIDE DEF y
  <2> QED
    BY <1>1, <1>2, <1>4, <2>1, <2>2
<1> QED
  BY <1>3, <1>4

(* The stamp, and what comes next: another document, a page, or the end.   *)
LEMMA MarkStep ==
    ASSUME Types, NEW r \in Replicas, MarkSBOMMatched(r)
    PROVE  /\ At(r, "mark")
           /\ \E y \in Execution :
                /\ exec' = [exec EXCEPT ![r] = y]
                /\ y.open = exec[r].open
                /\ \/ y.pc = "idle" /\ y.after = 0 /\ stamp' = stamp
                   \/ /\ stamp' = [stamp EXCEPT ![Current(exec[r])] = Built(r)]
                      /\ Current(exec[r]) \in sboms
                      /\ \/ /\ y.docs = exec[r].docs \ {Current(exec[r])} /\ y.docs # {}
                            /\ y.full = exec[r].full /\ y.after = exec[r].after
                            /\ \/ y.pc = "mark" /\ Doc(y) = <<>>
                               \/ /\ y.pc = "rows"
                                  /\ y.todo = RowIDs(Doc(y))
                         \/ /\ exec[r].docs = {Current(exec[r])}
                            /\ y.after = Current(exec[r])
                            /\ y.pc = "list" /\ exec[r].full = TRUE
                         \/ /\ exec[r].docs = {Current(exec[r])}
                            /\ y.pc = "decide" /\ exec[r].full = FALSE
<1> DEFINE x == exec[r]
           s == Current(x)
<1>1. x \in Execution /\ At(r, "mark") /\ x.docs # {} /\ x.open # 0
  BY DEF MarkSBOMMatched, At, Types, Sound, InDocument
<1>2. s \in x.docs /\ s \in Nat
  BY <1>1, CurrentIs
<1>3. CASE s \notin sboms
  <2> DEFINE y == Abandon(x)
  <2>1. /\ y \in Execution /\ y.pc = "idle" /\ y.after = 0 /\ y.open = x.open
    BY <1>1, AbandonIs
  <2>2. exec' = [exec EXCEPT ![r] = y] /\ stamp' = stamp
    BY <1>3 DEF MarkSBOMMatched
  <2> HIDE DEF y
  <2> QED
    BY <1>1, <2>1, <2>2
<1>4. CASE s \in sboms
  <2>1. exec' = [exec EXCEPT ![r] = Advance(x)]
        /\ stamp' = [stamp EXCEPT ![s] = Built(r)]
    BY <1>4 DEF MarkSBOMMatched
  <2>2. CASE x.docs # {s}
    <3> DEFINE rest == x.docs \ {s}
               z == [x EXCEPT !.docs = rest]
               y == Visit(z)
               fs == Doc(z)
    <3>1. Advance(x) = y
      BY <2>2 DEF Advance
    <3>2. /\ z \in Execution /\ z.docs = rest /\ z.docs # {} /\ z.open = x.open
          /\ z.after = x.after /\ z.full = x.full /\ z.open # 0
      BY <1>1, <1>2, <2>2 DEF Execution
    <3>3. fs = Doc(z) /\ y = Visit(z)
      OBVIOUS
    <3> HIDE DEF y, fs, z
    <3>4. /\ y \in Execution /\ Current(y) = Current(z)
          /\ y.open = z.open /\ y.after = z.after /\ y.docs = z.docs /\ y.full = z.full
          /\ \/ y.pc = "mark" /\ fs = <<>>
             \/ y.pc = "rows" /\ y.todo = RowIDs(fs)
      BY <3>2, <3>3, VisitIs
    <3>5. fs = Doc(y)
      BY <3>3, <3>4 DEF Doc
    <3> HIDE DEF rest, s
    <3> QED
      BY <1>1, <1>4, <2>1, <3>1, <3>2, <3>4, <3>5, Zenon DEF rest, s
  <2>3. CASE x.docs = {s}
    <3> DEFINE pc == IF x.full THEN "list" ELSE "decide"
               y == [x EXCEPT !.pc = pc, !.docs = {}, !.after = s]
    <3>1. Advance(x) = y
      BY <2>3 DEF Advance
    <3>2. /\ y \in Execution /\ y.open = x.open /\ y.after = s /\ y.pc = pc
          /\ pc \in Steps
      BY <1>1, <1>2 DEF Execution, Steps
    <3>3. x.full \in BOOLEAN
      BY <1>1 DEF Execution
    <3>4. (x.full = TRUE /\ pc = "list") \/ (x.full = FALSE /\ pc = "decide")
      BY <3>3
    <3> HIDE DEF y, pc
    <3> QED
      BY <1>1, <1>4, <2>1, <2>3, <3>1, <3>2, <3>4
  <2> QED
    BY <2>2, <2>3
<1> QED
  BY <1>3, <1>4

(* The steps of the clean-up go one by one, from the comparison on.        *)
LEMMA DecideStep ==
    ASSUME Types, NEW r \in Replicas, Decide(r)
    PROVE  /\ At(r, "decide")
           /\ \E y \in Execution :
                /\ exec' = [exec EXCEPT ![r] = y]
                /\ y.open = exec[r].open /\ y.after = 0
                /\ y.pc \in {"idle", "stale"}
<1> DEFINE x == exec[r]
           z == Abandon(x)
           pc == IF matched = Built(r) THEN "idle" ELSE "stale"
           y == [z EXCEPT !.pc = pc]
<1>1. x \in Execution
  BY DEF Types
<1>2. z \in Execution /\ z.after = 0 /\ z.open = x.open
  BY <1>1, AbandonIs
<1>3. pc \in {"idle", "stale"} /\ pc \in Steps
  BY DEF Steps
<1>4. exec' = [exec EXCEPT ![r] = y] /\ At(r, "decide")
  BY DEF Decide
<1>5. y \in Execution /\ y.open = x.open /\ y.after = 0 /\ y.pc = pc
  <2> HIDE DEF pc, z
  <2> QED
    BY <1>2, <1>3 DEF Execution
<1> HIDE DEF y, pc
<1> QED
  BY <1>3, <1>4, <1>5

LEMMA GoStep ==
    ASSUME Types, NEW r \in Replicas, NEW pc \in Steps, Go(r, pc)
    PROVE  \E y \in Execution :
             /\ exec' = [exec EXCEPT ![r] = y]
             /\ y.open = exec[r].open /\ y.after = exec[r].after /\ y.pc = pc
<1> DEFINE y == [exec[r] EXCEPT !.pc = pc]
<1>1. exec' = [exec EXCEPT ![r] = y]
  BY DEF Go
<1>2. y \in Execution /\ y.open = exec[r].open /\ y.after = exec[r].after /\ y.pc = pc
  BY DEF Types, Execution
<1> HIDE DEF y
<1> QED
  BY <1>1, <1>2

-----------------------------------------------------------------------------
(***************************************************************************)
(* Types is inductive                                                      *)
(***************************************************************************)
LEMMA TypesInit == Init => Types
<1> SUFFICES ASSUME Init PROVE Types
  OBVIOUS
<1>1. exec = [r \in Replicas |-> Started] /\ Started \in Execution
  BY StartedIs DEF Init
<1>2. /\ latest \in Builds /\ sboms = {} /\ matched = 0 /\ alone = TRUE
      /\ stamp \in [SBOMs -> 0 .. MaxBuild] /\ \A s \in SBOMs : stamp[s] = 0
      /\ DOMAIN vulns = {} /\ DOMAIN refs = {} /\ DOMAIN mappings = {}
  BY VulnRefresherAssumption DEF Init, Builds
<1>3. \A r \in Replicas : exec[r] = Started
  BY <1>1
<1>4. Sound(Started)
  BY <1>2 DEF Sound, Started, Builds, InDocument
<1> QED
  BY <1>1, <1>2, <1>3, <1>4 DEF Types

(* A step of one replica keeps the types if it keeps its own.              *)
LEMMA StepTypes ==
    ASSUME Types, NEW r \in Replicas, NEW y \in Execution, exec' = [exec EXCEPT ![r] = y],
           Sound(y), UNCHANGED <<latest, sboms, alone>>,
           stamp' \in [SBOMs -> 0 .. MaxBuild], \A s \in SBOMs \ sboms : stamp'[s] = 0,
           matched' \in Nat,
           \A v \in DOMAIN vulns' :
             vulns'[v].built \in Nat /\ vulns'[v].severity \in Int /\ vulns'[v].score \in Int,
           \A v \in DOMAIN refs' : refs'[v] \in Nat,
           \A k \in DOMAIN mappings' : mappings'[k].built \in Nat
    PROVE  Types'
<1>1. exec' \in [Replicas -> Execution] /\ \A q \in Replicas : Sound(exec'[q])
  BY SetExec DEF Types
<1>2. (\A q \in Replicas : Sound(exec[q]))'
  BY <1>1 DEF Sound
<1> QED
  BY <1>1, <1>2 DEF Types

(* What changes no row needs only a sound execution.                       *)
LEMMA RowsUntouched ==
    ASSUME Types, NEW r \in Replicas, NEW y \in Execution, exec' = [exec EXCEPT ![r] = y],
           Sound(y), UNCHANGED <<latest, sboms, alone, stamp, matched, vulns, refs, mappings>>
    PROVE  Types'
<1>1. /\ stamp' \in [SBOMs -> 0 .. MaxBuild] /\ \A s \in SBOMs \ sboms : stamp'[s] = 0
      /\ matched' \in Nat
  BY DEF Types
<1>2. /\ \A v \in DOMAIN vulns' :
           vulns'[v].built \in Nat /\ vulns'[v].severity \in Int /\ vulns'[v].score \in Int
      /\ \A v \in DOMAIN refs' : refs'[v] \in Nat
      /\ \A k \in DOMAIN mappings' : mappings'[k].built \in Nat
  BY DEF Types
<1> QED
  BY <1>1, <1>2, StepTypes

LEMMA RowTyped ==
    ASSUME Types, NEW n \in Nat, n # 0,
           NEW F \in Seq(Finding), NEW id \in RowIDs(F), RowIsWritten(id, F, n)
    PROVE  /\ \A v \in DOMAIN vulns' :
                vulns'[v].built \in Nat /\ vulns'[v].severity \in Int /\ vulns'[v].score \in Int
           /\ \A v \in DOMAIN refs' : refs'[v] \in Nat
<1>1. /\ DOMAIN vulns' = DOMAIN vulns \cup {id}
      /\ DOMAIN refs' = DOMAIN refs \cup {id} /\ refs'[id] = n
      /\ \A v \in DOMAIN vulns : v # id => vulns'[v] = vulns[v]
      /\ \A v \in DOMAIN refs : v # id => refs'[v] = refs[v]
  BY DEF RowIsWritten, Put
<1>2. /\ vulns'[id].built = n
      /\ vulns'[id].severity \in Int /\ vulns'[id].score \in Int
  BY RowMerged, Zenon
<1> QED
  BY <1>1, <1>2 DEF Types

LEMMA TypesNext ==
    ASSUME Types, [Next]_vars
    PROVE  Types'
<1>1. CASE UNCHANGED vars
  BY <1>1 DEF vars, world, tables, Types, Sound
<1>2. CASE World
  <2>1. /\ exec' = exec /\ alone' = alone
        /\ UNCHANGED <<matched, vulns, refs, mappings>>
    BY <1>2 DEF World
  <2>2. latest' \in Builds /\ latest' >= latest
    BY <1>2, VulnRefresherAssumption
    DEF World, PublishBuild, IngestSBOM, DeleteSBOM, Types, Builds
  <2>3. sboms' \subseteq SBOMs
    BY <1>2 DEF World, PublishBuild, IngestSBOM, DeleteSBOM, Types
  <2>4. /\ stamp' \in [SBOMs -> 0 .. MaxBuild]
        /\ \A s \in SBOMs \ sboms' : stamp'[s] = 0
    <3>1. CASE PublishBuild \/ \E s \in SBOMs : IngestSBOM(s)
      BY <3>1 DEF PublishBuild, IngestSBOM, Types
    <3>2. ASSUME NEW s \in SBOMs, DeleteSBOM(s)
          PROVE  /\ stamp' \in [SBOMs -> 0 .. MaxBuild]
                 /\ \A t \in SBOMs \ sboms' : stamp'[t] = 0
      <4>1. 0 \in 0 .. MaxBuild
        BY VulnRefresherAssumption
      <4> QED
        BY <3>2, <4>1 DEF DeleteSBOM, Types
    <3> QED
      BY <1>2, <3>1, <3>2 DEF World
  <2>5. \A r \in Replicas : exec[r].open \in Nat
    BY DEF Types, Execution
  <2>6. (\A r \in Replicas : Sound(exec[r]))'
    BY <2>1, <2>2, <2>5 DEF Sound, Types, Builds
  <2> QED
    BY <2>1, <2>2, <2>3, <2>4, <2>6 DEF Types
<1>3. ASSUME NEW r \in Replicas, TryLead(r) \/ Restart(r)
      PROVE  Types'
  <2>1. PICK y \in Execution : /\ exec' = [exec EXCEPT ![r] = y]
                               /\ y.after = 0 /\ y.open = 0 /\ y.pc \in {"waiting", "idle"}
    <3>1. CASE TryLead(r)
      <4>1. Go(r, "idle") /\ At(r, "waiting")
        BY <3>1 DEF TryLead
      <4>2. exec[r].after = 0 /\ exec[r].open = 0
        BY <4>1 DEF At, Types, Sound
      <4>3. "idle" \in Steps
        BY DEF Steps
      <4> QED
        BY <4>1, <4>2, <4>3, GoStep
    <3>2. CASE Restart(r)
      BY <3>2, StartedIs DEF Restart
    <3> QED
      BY <1>3, <3>1, <3>2
  <2>2. latest \in Nat
    BY DEF Types, Builds
  <2>3. Sound(y)
    BY <2>1, <2>2 DEF Sound, InDocument
  <2>4. UNCHANGED <<latest, sboms, alone, stamp, matched, vulns, refs, mappings>>
    BY <1>3 DEF TryLead, Restart, world, tables
  <2> QED
    BY <2>1, <2>3, <2>4, RowsUntouched
<1>4. ASSUME NEW r \in Replicas, LoseSession(r)
      PROVE  Types'
  BY <1>4 DEF LoseSession, world, tables, Types, Sound
<1>5. ASSUME NEW r \in Replicas, Step(r)
      PROVE  Types'
  <2> DEFINE x == exec[r]
             rows == UNCHANGED <<stamp, matched, vulns, refs, mappings>>
  <2>1. /\ x \in Execution /\ Sound(x) /\ x.open \in 0 .. MaxBuild /\ latest \in Builds
        /\ UNCHANGED <<latest, sboms, alone>>
    BY <1>5 DEF Step, world, Types, Execution
  <2>2. ASSUME NEW open \in 0 .. MaxBuild, open <= latest, Begin(r, open)
        PROVE  Types'
    <3>1. PICK y \in Execution :
             /\ exec' = [exec EXCEPT ![r] = y]
             /\ y.open = open /\ y.after = x.after
             /\ (open = 0 /\ y.pc = "idle") \/ (open # 0 /\ y.pc = "list")
      BY <2>2, BeginStep
    <3>2. At(r, "idle") /\ UNCHANGED <<stamp, matched, vulns, refs, mappings>>
      BY <2>2 DEF Begin, tables
    <3>3. x.after = 0
      BY <2>1, <3>2 DEF Sound, At
    <3>4. Sound(y)
      BY <2>2, <3>1, <3>3 DEF Sound, InDocument
    <3> QED
      BY <2>1, <3>1, <3>2, <3>4, RowsUntouched
  <2>3. CASE List(r)
    <3>1. PICK page \in SUBSET ToMatch(Built(r), x.after), y \in Execution :
             /\ exec' = [exec EXCEPT ![r] = y] /\ y.open = x.open
             /\ \/ y.pc = "decide"
                \/ /\ page # {} /\ y.docs = page
                   /\ \/ y.pc = "mark"
                      \/ y.pc = "rows" /\ y.todo = RowIDs(Doc(y))
      BY <2>3, ListStep
    <3>2. At(r, "list") /\ UNCHANGED <<stamp, matched, vulns, refs, mappings>>
      BY <2>3 DEF List, tables
    <3>3. Sound(y)
      BY <2>1, <3>1, <3>2 DEF Sound, InDocument, At
    <3> QED
      BY <2>1, <3>1, <3>2, <3>3, RowsUntouched
  <2>4. CASE MergeVulnerability(r)
    <3>1. PICK id \in x.todo, y \in Execution :
             /\ RowIsWritten(id, Doc(exec[r]), Built(r))
             /\ exec' = [exec EXCEPT ![r] = y]
             /\ y.open = x.open /\ y.docs = x.docs /\ Current(y) = Current(x)
             /\ \/ y.pc = "rows" /\ y.todo = x.todo \ {id}
                \/ y.pc = "mappings" /\ y.todo = MappingKeys(Doc(x))
      BY <2>4, RowStep
    <3>2. At(r, "rows") /\ UNCHANGED <<stamp, matched, mappings>>
      BY <2>4 DEF MergeVulnerability
    <3>3. Sound(y)
      BY <2>1, <3>1, <3>2 DEF Sound, InDocument, At, Doc
    <3>4. /\ Built(r) \in Nat /\ Built(r) # 0 /\ Doc(x) \in Seq(Finding)
          /\ id \in RowIDs(Doc(x))
      <4>1. x.docs # {} /\ x.open # 0 /\ id \in RowIDs(Doc(x))
        BY <2>1, <3>1, <3>2 DEF Sound, At, InDocument
      <4> QED
        BY <2>1, <4>1, FoundIs DEF Built
    <3>5. /\ \A v \in DOMAIN vulns' :
               /\ vulns'[v].built \in Nat /\ vulns'[v].severity \in Int
               /\ vulns'[v].score \in Int
          /\ \A v \in DOMAIN refs' : refs'[v] \in Nat
      <4> HIDE DEF x
      <4>1. RowIsWritten(id, Doc(x), Built(r))
        BY <3>1 DEF x
      <4> QED
        BY <3>4, <4>1, RowTyped
    <3> QED
      BY <2>1, <3>1, <3>2, <3>3, <3>5, StepTypes DEF Types
  <2>5. CASE MergePackageVulns(r)
    <3>1. PICK k \in x.todo, y \in Execution :
             /\ exec' = [exec EXCEPT ![r] = y] /\ y.open = x.open
             /\ \/ /\ KeyIsWritten(k, Doc(x), Built(r))
                   /\ y.docs = x.docs /\ Current(y) = Current(x) /\ y.todo = x.todo \ {k}
                   /\ y.pc \in {"mappings", "mark"}
                \/ y.pc = "idle" /\ y.after = 0 /\ mappings' = mappings
      BY <2>5, KeyStep
    <3>2. At(r, "mappings") /\ UNCHANGED <<stamp, matched, vulns, refs>>
      BY <2>5 DEF MergePackageVulns
    <3>3. Sound(y)
      BY <2>1, <3>1, <3>2 DEF Sound, InDocument, At, Doc
    <3>4. \A j \in DOMAIN mappings' : mappings'[j].built \in Nat
      <4>1. CASE mappings' = mappings
        BY <4>1 DEF Types
      <4>2. CASE KeyIsWritten(k, Doc(x), Built(r))
        <5> DEFINE m == MergeFix(KeyAt(k), FixOf(k, Doc(x)), Built(r))
        <5>1. m.built = Built(r) /\ Built(r) \in Nat
          BY <2>1 DEF MergeFix, Built
        <5>2. mappings' = Put(mappings, k, m)
          BY <4>2 DEF KeyIsWritten
        <5> HIDE DEF m, x
        <5> QED
          BY <5>1, <5>2 DEF Put, Types
      <4> QED
        BY <3>1, <4>1, <4>2
    <3> QED
      BY <2>1, <3>1, <3>2, <3>3, <3>4, StepTypes DEF Types
  <2>6. CASE MarkSBOMMatched(r)
    <3>1. PICK y \in Execution :
             /\ exec' = [exec EXCEPT ![r] = y] /\ y.open = x.open
             /\ \/ y.pc = "idle" /\ y.after = 0 /\ stamp' = stamp
                \/ /\ stamp' = [stamp EXCEPT ![Current(x)] = Built(r)]
                   /\ Current(x) \in sboms
                   /\ \/ /\ y.docs # {}
                         /\ \/ y.pc = "mark"
                            \/ y.pc = "rows" /\ y.todo = RowIDs(Doc(y))
                      \/ y.pc \in {"list", "decide"}
      BY <2>6, MarkStep
    <3>2. At(r, "mark") /\ UNCHANGED <<matched, vulns, refs, mappings>>
      BY <2>6 DEF MarkSBOMMatched
    <3>3. Sound(y)
      BY <2>1, <3>1, <3>2 DEF Sound, InDocument, At
    <3>4. stamp' \in [SBOMs -> 0 .. MaxBuild] /\ \A s \in SBOMs \ sboms : stamp'[s] = 0
      BY <2>1, <3>1 DEF Types, Built
    <3> QED
      BY <2>1, <3>1, <3>2, <3>3, <3>4, StepTypes DEF Types
  <2>7. CASE Decide(r)
    <3>1. PICK y \in Execution :
             /\ exec' = [exec EXCEPT ![r] = y]
             /\ y.open = x.open /\ y.after = 0 /\ y.pc \in {"idle", "stale"}
      BY <2>7, DecideStep
    <3>2. At(r, "decide") /\ UNCHANGED <<stamp, matched, vulns, refs, mappings>>
      BY <2>7 DEF Decide, tables
    <3>3. Sound(y)
      BY <2>1, <3>1, <3>2 DEF Sound, InDocument, At
    <3> QED
      BY <2>1, <3>1, <3>2, <3>3, RowsUntouched
  <2>8. CASE CompletePass(r)
    <3>1. PICK pc \in Steps : /\ Go(r, pc) /\ pc \in {"prune", "prunesets", "record", "idle"}
                              /\ x.pc \in {"stale", "prune", "prunesets", "record"}
      BY <2>8 DEF CompletePass, DeleteStaleMatches, PruneOrphanVulnerabilities,
                  PruneOrphanGoSymbolSets, SetMatchedDBBuilt, At, Steps
    <3>2. PICK y \in Execution :
             /\ exec' = [exec EXCEPT ![r] = y]
             /\ y.open = x.open /\ y.after = x.after /\ y.pc = pc
      BY <3>1, GoStep
    <3>3. Sound(y)
      BY <2>1, <3>1, <3>2 DEF Sound, InDocument
    <3>4. stamp' = stamp /\ matched' \in Nat
      BY <2>1, <2>8 DEF CompletePass, DeleteStaleMatches, PruneOrphanVulnerabilities,
                  PruneOrphanGoSymbolSets, SetMatchedDBBuilt, Types, Built
    <3>5. /\ \A v \in DOMAIN vulns' : v \in DOMAIN vulns /\ vulns'[v] = vulns[v]
          /\ \A v \in DOMAIN refs' : v \in DOMAIN refs /\ refs'[v] = refs[v]
          /\ \A k \in DOMAIN mappings' : k \in DOMAIN mappings /\ mappings'[k] = mappings[k]
      BY <2>8 DEF CompletePass, DeleteStaleMatches, PruneOrphanVulnerabilities,
                  PruneOrphanGoSymbolSets, SetMatchedDBBuilt, Restrict
    <3>6. /\ \A v \in DOMAIN vulns' :
               /\ vulns'[v].built \in Nat /\ vulns'[v].severity \in Int
               /\ vulns'[v].score \in Int
          /\ \A v \in DOMAIN refs' : refs'[v] \in Nat
          /\ \A k \in DOMAIN mappings' : mappings'[k].built \in Nat
      BY <3>5 DEF Types
    <3>7. stamp' \in [SBOMs -> 0 .. MaxBuild] /\ \A s \in SBOMs \ sboms : stamp'[s] = 0
      BY <3>4 DEF Types
    <3> QED
      BY <2>1, <3>2, <3>3, <3>4, <3>6, <3>7, StepTypes
  <2>9. CASE StatementFails(r)
    <3>1. /\ exec' = [exec EXCEPT ![r] = Abandon(x)]
          /\ UNCHANGED <<stamp, matched, vulns, refs, mappings>>
          /\ x.pc \notin {"waiting", "idle"}
      BY <2>9 DEF StatementFails, tables
    <3>2. /\ Abandon(x) \in Execution /\ Abandon(x).pc = "idle"
          /\ Abandon(x).after = 0 /\ Abandon(x).open = x.open
      BY <2>1, AbandonIs
    <3>3. Sound(Abandon(x))
      BY <2>1, <3>2 DEF Sound, InDocument
    <3> QED
      BY <2>1, <3>1, <3>2, <3>3, RowsUntouched
  <2>10. CASE CheckDB(r) \/ Tick(r)
    <3>1. \/ Begin(r, latest) \/ Begin(r, x.open)
      BY <2>10 DEF CheckDB, Tick, Built
    <3>2. latest \in 0 .. MaxBuild /\ latest <= latest /\ x.open <= latest
      BY <2>1, VulnRefresherAssumption DEF Sound, Builds
    <3> QED
      BY <2>1, <2>2, <3>1, <3>2
  <2> QED
    BY <1>5, <2>3, <2>4, <2>5, <2>6, <2>7, <2>8, <2>9, <2>10 DEF Step
<1> QED
  BY <1>1, <1>2, <1>3, <1>4, <1>5 DEF Next

-----------------------------------------------------------------------------
(***************************************************************************)
(* One leader at a time                                                    *)
(***************************************************************************)

(* A step is one of a replica that leads, and it still leads after it.     *)
LEMMA StepLeads ==
    ASSUME Types, NEW r \in Replicas, Step(r)
    PROVE  /\ exec[r].pc # "waiting"
           /\ \E y \in Execution : exec' = [exec EXCEPT ![r] = y] /\ y.pc # "waiting"
<1>1. exec[r].pc # "waiting"
  BY DEF Step, CheckDB, Tick, Begin, List, MergeVulnerability, MergePackageVulns,
         MarkSBOMMatched, Decide, CompletePass, DeleteStaleMatches, SetMatchedDBBuilt,
         PruneOrphanVulnerabilities, PruneOrphanGoSymbolSets, StatementFails, At
<1> SUFFICES \E y \in Execution : exec' = [exec EXCEPT ![r] = y] /\ y.pc # "waiting"
  BY <1>1
<1>2. exec[r] \in Execution
  BY DEF Types
<1>3. ASSUME NEW open \in 0 .. MaxBuild, Begin(r, open)
      PROVE  \E y \in Execution : exec' = [exec EXCEPT ![r] = y] /\ y.pc # "waiting"
  BY <1>3, BeginStep
<1>4. CASE CheckDB(r) \/ Tick(r)
  <2>1. latest \in 0 .. MaxBuild /\ Built(r) \in 0 .. MaxBuild
    BY <1>2 DEF Types, Builds, Built, Execution
  <2> QED
    BY <1>3, <1>4, <2>1 DEF CheckDB, Tick
<1>5. CASE List(r)
  <2>1. PICK y \in Execution : /\ exec' = [exec EXCEPT ![r] = y]
                               /\ y.pc \in {"decide", "mark", "rows"}
    BY <1>5, ListStep
  <2> QED
    BY <2>1
<1>6. CASE MergeVulnerability(r)
  <2>1. PICK y \in Execution : /\ exec' = [exec EXCEPT ![r] = y]
                               /\ y.pc \in {"rows", "mappings"}
    BY <1>6, RowStep
  <2> QED
    BY <2>1
<1>7. CASE MergePackageVulns(r)
  <2>1. PICK y \in Execution : /\ exec' = [exec EXCEPT ![r] = y]
                               /\ y.pc \in {"mappings", "mark", "idle"}
    BY <1>7, KeyStep
  <2> QED
    BY <2>1
<1>8. CASE MarkSBOMMatched(r)
  <2>1. PICK y \in Execution : /\ exec' = [exec EXCEPT ![r] = y]
                               /\ y.pc \in {"mark", "rows", "list", "decide", "idle"}
    BY <1>8, MarkStep
  <2> QED
    BY <2>1
<1>9. CASE Decide(r)
  BY <1>9, DecideStep
<1>10. CASE CompletePass(r)
  <2>1. \E pc \in Steps \ {"waiting"} : Go(r, pc)
    BY <1>10 DEF CompletePass, DeleteStaleMatches, PruneOrphanVulnerabilities,
                 PruneOrphanGoSymbolSets, SetMatchedDBBuilt, Steps
  <2> QED
    BY <2>1, GoStep
<1>11. CASE StatementFails(r)
  BY <1>2, <1>11, AbandonIs DEF StatementFails
<1> QED
  BY <1>1, <1>4, <1>5, <1>6, <1>7, <1>8, <1>9, <1>10, <1>11 DEF Step

LEMMA OneLeaderNext ==
    ASSUME Types, OneLeader, [Next]_vars
    PROVE  OneLeader'
<1>1. CASE UNCHANGED vars \/ World
  BY <1>1 DEF vars, World, OneLeader, At
<1>2. ASSUME NEW r \in Replicas, TryLead(r)
      PROVE  OneLeader'
  BY <1>2, VulnRefresherAssumption DEF TryLead, Go, OneLeader, At, Types
<1>3. ASSUME NEW r \in Replicas, Restart(r)
      PROVE  OneLeader'
  BY <1>3, StartedIs DEF Restart, OneLeader, At, Types
<1>4. ASSUME NEW r \in Replicas, LoseSession(r)
      PROVE  OneLeader'
  BY <1>4 DEF LoseSession, OneLeader
<1>5. ASSUME NEW r \in Replicas, Step(r)
      PROVE  OneLeader'
  <2>1. /\ exec[r].pc # "waiting"
        /\ \E y \in Execution : exec' = [exec EXCEPT ![r] = y] /\ y.pc # "waiting"
    BY <1>5, StepLeads
  <2>2. lock' = lock /\ alone' = alone
    BY <1>5 DEF Step
  <2> QED
    BY <2>1, <2>2 DEF OneLeader, At, Types
<1> QED
  BY <1>1, <1>2, <1>3, <1>4, <1>5 DEF Next

(* A replica that waits for the lock has nothing open and nothing to show. *)
LEMMA WaitingLed ==
    ASSUME NEW x, x.pc \in {"waiting", "idle"}, x.open = 0
    PROVE  Led(x) /\ Led(x)'
BY DEF Led, Newest, Cleaned, Ahead, Progress, InDocument

(* So what holds of the leader holds of every replica.                     *)
LEMMA LeaderLed ==
    ASSUME Types, Types', OneLeader', alone', NEW r \in Replicas, NEW y \in Execution,
           exec' = [exec EXCEPT ![r] = y], y.pc # "waiting", Led(y)'
    PROVE  (\A q \in Replicas : Led(exec[q]))'
<1>1. exec'[r] = y /\ \A q \in Replicas : q # r => exec'[q] = exec[q]
  BY SetExec DEF Types
<1>2. lock' = r
  BY <1>1 DEF OneLeader, At
<1>3. ASSUME NEW q \in Replicas, q # r
      PROVE  Led(exec[q])'
  <2>1. exec'[q] = exec[q] /\ exec[q].pc = "waiting"
    BY <1>1, <1>2, <1>3 DEF OneLeader, At
  <2>2. exec[q].open = 0
    BY <2>1 DEF Types, Sound
  <2>3. Led(exec[q])' <=> (\E z : z = exec[q] /\ Led(z)')
    BY <2>1 DEF Led, Newest, Cleaned, Ahead, Progress, InDocument
  <2> QED
    BY <2>1, <2>2, <2>3, WaitingLed
<1>4. Led(exec[r])'
  BY <1>1 DEF Led, Newest, Cleaned, Ahead, Progress
<1> QED
  BY <1>3, <1>4

-----------------------------------------------------------------------------
(***************************************************************************)
(* What the leader's steps keep                                            *)
(***************************************************************************)
Leading(x) == Types /\ Store /\ Led(x) /\ x \in Execution /\ Sound(x)

(* A step that writes no row of these tables.                              *)
LEMMA Untouched ==
    ASSUME UNCHANGED <<latest, sboms, stamp, vulns, refs, mappings, matched>>,
           NEW y
    PROVE  (Store => Store') /\ (Led(y) => Led(y)')
<1>1. \A v, fs, b : RowKept(v, fs, b)' <=> RowKept(v, fs, b)
  BY DEF RowKept
<1>2. \A k, fs, b : KeyKept(k, fs, b)' <=> KeyKept(k, fs, b)
  BY DEF KeyKept
<1>3. \A V, fs, b : RowsKept(V, fs, b)' <=> RowsKept(V, fs, b)
  BY <1>1 DEF RowsKept
<1>4. \A K, fs, b : KeysKept(K, fs, b)' <=> KeysKept(K, fs, b)
  BY <1>2 DEF KeysKept
<1>5. \A n : UpTo(n)' <=> UpTo(n)
  BY DEF UpTo
<1>6. Store => Store'
  BY <1>3, <1>4, <1>5 DEF Store, StampedKept, Kept
<1>7. Newest(y) /\ Cleaned(y) => (Newest(y) /\ Cleaned(y))'
  BY <1>5 DEF Newest, Cleaned
<1>8. Ahead(y) => Ahead(y)'
  BY DEF Ahead, Left
<1>9. Progress(y) => Progress(y)'
  BY <1>3, <1>4 DEF Progress, Kept
<1> QED
  BY <1>6, <1>7, <1>8, <1>9 DEF Led

LEMMA LeadBegin ==
    ASSUME NEW x, Leading(x), x.pc = "idle", NEW y \in Execution, y.after = x.after,
           y.open \in {latest, x.open},
           (y.open = 0 /\ y.pc = "idle") \/ (y.open # 0 /\ y.pc = "list")
    PROVE  Led(y)
<1>1. Newest(y)
  BY DEF Leading, Store, Led, Newest
<1>2. Ahead(y)
  <2>1. \A s \in sboms : s > 0
    BY VulnRefresherAssumption DEF Leading, Types
  <2>2. y.after = 0
    BY DEF Leading, Sound
  <2> QED
    BY <2>1, <2>2 DEF Ahead, Left, InDocument
<1> QED
  BY <1>1, <1>2 DEF Led, Cleaned, Progress

(* A listed page: its documents, or the end of the list, leave no older    *)
(* stamp behind.                                                           *)
LEMMA LeadList ==
    ASSUME NEW x, Leading(x), x.pc = "list", NEW y \in Execution, NEW page,
           Page(page, ToMatch(x.open, x.after)), y.open = x.open,
           \/ page = {} /\ y.pc = "decide"
           \/ /\ page # {} /\ y.docs = page
              /\ y.full = (Cardinality(page) = PageSize)
              /\ \/ y.pc = "mark" /\ Doc(y) = <<>>
                 \/ y.pc = "rows" /\ y.todo = RowIDs(Doc(y))
    PROVE  Led(y)
<1> DEFINE rows == ToMatch(x.open, x.after)
<1>1. Newest(y)
  BY DEF Leading, Led, Newest
<1>2. Left(x.open) \subseteq rows
  BY DEF Leading, Led, Ahead, Left, ToMatch
<1>3. Ahead(y)
  <2>1. CASE page = {}
    <3>1. Cardinality(page) # PageSize
      BY <2>1, FS_EmptySet, VulnRefresherAssumption
    <3>2. rows = {}
      BY <2>1, <3>1 DEF Page
    <3> QED
      BY <1>2, <2>1, <3>2 DEF Ahead, InDocument
  <2>2. CASE page # {}
    <3>1. ASSUME NEW s \in Left(y.open), s \notin page
          PROVE  y.full = TRUE /\ \A d \in page : d < s
      <4>1. s \in rows \ page
        BY <1>2, <3>1
      <4>2. Cardinality(page) = PageSize /\ \A d \in page : d < s
        BY <4>1 DEF Page
      <4>3. y.full = TRUE
        BY <2>2, <4>2, Zenon
      <4> QED
        BY <4>2, <4>3
    <3>2. y.docs = page /\ y.pc \in {"mark", "rows"}
      BY <2>2
    <3> QED
      BY <3>1, <3>2 DEF Ahead, InDocument
  <2> QED
    BY <2>1, <2>2
<1>4. Progress(y)
  BY DEF Progress, Kept, RowsKept, KeysKept, RowIDs, MappingKeys
<1> QED
  BY <1>1, <1>3, <1>4 DEF Led, Cleaned

(* What an SBOM's stamp promises is a build that is not newer.             *)
LEMMA StampedIs ==
    ASSUME Types, NEW n \in Nat, UpTo(n), NEW s \in sboms, stamp[s] # 0
    PROVE  stamp[s] \in 0 .. n /\ stamp[s] \in Nat /\ Findings[stamp[s]][s] \in Seq(Finding)
<1>1. s \in SBOMs /\ stamp[s] \in 0 .. MaxBuild
  BY DEF Types
<1>2. stamp[s] \in Builds /\ stamp[s] <= n
  BY <1>1, VulnRefresherAssumption DEF Builds, UpTo
<1> QED
  BY <1>1, <1>2, FindingsIs

LEMMA LeadRow ==
    ASSUME NEW x, Leading(x), x.pc = "rows", NEW y \in Execution, NEW id \in x.todo,
           RowIsWritten(id, Doc(x), x.open),
           UNCHANGED <<latest, sboms, stamp, matched, mappings>>,
           y.open = x.open, y.docs = x.docs, y.full = x.full, Current(y) = Current(x),
           \/ y.pc = "rows" /\ y.todo = x.todo \ {id}
           \/ y.pc = "mappings" /\ y.todo = MappingKeys(Doc(x)) /\ x.todo = {id}
    PROVE  Store' /\ Led(y)'
<1> DEFINE n == x.open
           F == Doc(x)
<1>1. /\ n \in Nat /\ n # 0 /\ UpTo(n) /\ n <= latest /\ Types
      /\ F \in Seq(Finding) /\ id \in RowIDs(F) /\ Doc(y) = F
  <2>1. x.docs # {} /\ x.open # 0
    BY DEF Leading, Sound, InDocument
  <2> QED
    BY <2>1, FoundIs DEF Leading, Sound, Led, Newest, Execution, Doc
<1>2. /\ \A v \in DOMAIN vulns' : vulns'[v].built \in Nat /\ vulns'[v].built <= n
      /\ \A v \in DOMAIN refs' : refs'[v] \in Nat /\ refs'[v] <= n
      /\ RowKept(id, F, n)'
      /\ \A b \in 0 .. n, fs \in Seq(Finding) : \A v \in RowIDs(fs) :
            RowKept(v, fs, b) => RowKept(v, fs, b)'
  <2> HIDE DEF n, F
  <2>1. RowIsWritten(id, F, n)
    BY DEF n, F
  <2> QED
    BY <1>1, <2>1, RowWritten
<1>3. \A K, fs, b : KeysKept(K, fs, b)' <=> KeysKept(K, fs, b)
  BY DEF KeysKept, KeyKept
<1> HIDE DEF F
<1>4. UpTo(n)' /\ UpTo(latest)'
  <2>1. /\ \A v \in DOMAIN vulns' : vulns'[v].built <= latest
        /\ \A v \in DOMAIN refs' : refs'[v] <= latest
    BY <1>1, <1>2 DEF Types, Builds
  <2> HIDE DEF n
  <2>2. UpTo(n)'
    BY <1>1, <1>2 DEF UpTo
  <2>3. UpTo(latest)'
    BY <2>1 DEF UpTo, Leading, Store
  <2> QED
    BY <2>2, <2>3
<1>5. StampedKept'
  <2> SUFFICES ASSUME NEW s \in sboms, stamp[s] # 0
               PROVE  Kept(Findings[stamp[s]][s], stamp[s])'
    BY DEF StampedKept
  <2> DEFINE b == stamp[s]
             fs == Findings[b][s]
  <2>1. b \in 0 .. n /\ fs \in Seq(Finding)
    BY <1>1, StampedIs
  <2>2. Kept(fs, b)
    BY DEF Leading, Store, StampedKept
  <2>3. b' = b /\ fs' = fs
    OBVIOUS
  <2> HIDE DEF b, fs
  <2>4. \A v \in RowIDs(fs) : RowKept(v, fs, b)'
    BY <1>2, <2>1, <2>2, <2>3 DEF Kept, RowsKept
  <2> QED
    BY <1>3, <2>2, <2>3, <2>4 DEF Kept, RowsKept, fs, b
<1>6. Store'
  BY <1>4, <1>5 DEF Store, Leading
<1>7. Newest(y)' /\ Cleaned(y)'
  BY <1>4 DEF Newest, Cleaned
<1>8. Ahead(y)'
  BY DEF Leading, Led, Ahead, InDocument, Left
<1>9. Progress(y)'
  <2>1. \A v \in RowIDs(F) \ x.todo : RowKept(v, F, n)
    BY DEF Leading, Led, Progress, RowsKept, F
  <2>2. \A v \in RowIDs(F) \ (x.todo \ {id}) : RowKept(v, F, n)'
    BY <1>1, <1>2, <2>1
  <2>3. RowsKept(RowIDs(F) \ (x.todo \ {id}), F, n)'
    BY <2>2 DEF RowsKept
  <2>4. x.todo = {id} => RowsKept(RowIDs(F), F, n)'
    BY <2>2 DEF RowsKept
  <2>5. KeysKept({}, F, n)'
    BY DEF KeysKept
  <2>6. MappingKeys(F) \ MappingKeys(F) = {}
    OBVIOUS
  <2> HIDE DEF n
  <2> QED
    BY <1>1, <2>3, <2>4, <2>5, <2>6 DEF Progress, n, F
<1> QED
  BY <1>6, <1>7, <1>8, <1>9 DEF Led

LEMMA LeadKey ==
    ASSUME NEW x, Leading(x), x.pc = "mappings", NEW y \in Execution, NEW k \in x.todo,
           KeyIsWritten(k, Doc(x), x.open),
           UNCHANGED <<latest, sboms, stamp, matched, vulns, refs>>,
           y.open = x.open, y.docs = x.docs, y.full = x.full, Current(y) = Current(x),
           y.todo = x.todo \ {k}, y.pc = "mappings" \/ (y.pc = "mark" /\ x.todo = {k})
    PROVE  Store' /\ Led(y)'
<1> DEFINE n == x.open
           F == Doc(x)
<1>1. /\ n \in Nat /\ n # 0 /\ UpTo(n) /\ n <= latest /\ Types
      /\ F \in Seq(Finding) /\ k \in MappingKeys(F) /\ Doc(y) = F
  <2>1. x.docs # {} /\ x.open # 0
    BY DEF Leading, Sound, InDocument
  <2> QED
    BY <2>1, FoundIs DEF Leading, Sound, Led, Newest, Execution, Doc
<1>2. /\ DOMAIN mappings' = DOMAIN mappings \cup {k}
      /\ mappings'[k].built = n
      /\ \A j \in DOMAIN mappings : j # k => mappings'[j] = mappings[j]
      /\ KeyKept(k, F, n)'
      /\ \A b \in 0 .. n, fs \in Seq(Finding) : \A j :
            KeyKept(j, fs, b) => KeyKept(j, fs, b)'
  <2> HIDE DEF n, F
  <2>1. KeyIsWritten(k, F, n)
    BY DEF n, F
  <2> QED
    BY <1>1, <2>1, KeyWritten
<1>3. \A V, fs, b : RowsKept(V, fs, b)' <=> RowsKept(V, fs, b)
  BY DEF RowsKept, RowKept
<1> HIDE DEF F
<1>4. UpTo(n)' /\ UpTo(latest)'
  <2>1. \A j \in DOMAIN mappings' : mappings'[j].built \in Nat /\ mappings'[j].built <= n
    BY <1>1, <1>2 DEF UpTo, Types
  <2>2. \A j \in DOMAIN mappings' : mappings'[j].built <= latest
    BY <1>1, <2>1 DEF Types, Builds
  <2> HIDE DEF n
  <2>3. UpTo(n)'
    BY <1>1, <2>1 DEF UpTo
  <2>4. UpTo(latest)'
    BY <2>2 DEF UpTo, Leading, Store
  <2> QED
    BY <2>3, <2>4
<1>5. StampedKept'
  <2> SUFFICES ASSUME NEW s \in sboms, stamp[s] # 0
               PROVE  Kept(Findings[stamp[s]][s], stamp[s])'
    BY DEF StampedKept
  <2> DEFINE b == stamp[s]
             fs == Findings[b][s]
  <2>1. b \in 0 .. n /\ fs \in Seq(Finding)
    BY <1>1, StampedIs
  <2>2. Kept(fs, b)
    BY DEF Leading, Store, StampedKept
  <2>3. b' = b /\ fs' = fs
    OBVIOUS
  <2> HIDE DEF b, fs
  <2>4. \A j \in MappingKeys(fs) : KeyKept(j, fs, b)'
    BY <1>2, <2>1, <2>2, <2>3 DEF Kept, KeysKept
  <2> QED
    BY <1>3, <2>2, <2>3, <2>4 DEF Kept, KeysKept, fs, b
<1>6. Store'
  <2>1. matched \in Nat /\ matched <= n
    BY <1>1 DEF Types, UpTo
  <2>2. \A j \in DOMAIN mappings' : mappings'[j].built >= matched
    BY <1>1, <1>2, <2>1 DEF Leading, Store
  <2> QED
    BY <1>4, <1>5, <2>2 DEF Store
<1>7. Newest(y)' /\ Cleaned(y)'
  BY <1>4 DEF Newest, Cleaned
<1>8. Ahead(y)'
  BY DEF Leading, Led, Ahead, InDocument, Left
<1>9. Progress(y)'
  <2>1. /\ RowsKept(RowIDs(F), F, n)
        /\ \A j \in MappingKeys(F) \ x.todo : KeyKept(j, F, n)
    BY DEF Leading, Led, Progress, KeysKept, F
  <2>2. \A j \in MappingKeys(F) \ (x.todo \ {k}) : KeyKept(j, F, n)'
    BY <1>1, <1>2, <2>1
  <2>3. KeysKept(MappingKeys(F) \ (x.todo \ {k}), F, n)' /\ RowsKept(RowIDs(F), F, n)'
    BY <1>3, <2>1, <2>2 DEF KeysKept
  <2>4. x.todo = {k} => Kept(F, n)'
    BY <2>2, <2>3 DEF Kept, KeysKept
  <2> HIDE DEF n
  <2> QED
    BY <1>1, <2>3, <2>4 DEF Progress, n, F
<1> QED
  BY <1>6, <1>7, <1>8, <1>9 DEF Led

(* The stamp is set when everything of its SBOM is written.                *)
LEMMA LeadMark ==
    ASSUME NEW x, Leading(x), x.pc = "mark", NEW y \in Execution,
           Current(x) \in sboms, stamp' = [stamp EXCEPT ![Current(x)] = x.open],
           UNCHANGED <<latest, sboms, matched, vulns, refs, mappings>>, y.open = x.open,
           \/ /\ y.docs = x.docs \ {Current(x)} /\ y.full = x.full
              /\ \/ y.pc = "mark" /\ Doc(y) = <<>>
                 \/ y.pc = "rows" /\ y.todo = RowIDs(Doc(y))
           \/ /\ x.docs = {Current(x)} /\ y.after = Current(x)
              /\ y.pc = "list" /\ x.full = TRUE
           \/ x.docs = {Current(x)} /\ y.pc = "decide" /\ x.full = FALSE
    PROVE  Store' /\ Led(y)'
<1> DEFINE n == x.open
           c == Current(x)
<1>1. /\ n \in Nat /\ n # 0 /\ UpTo(n) /\ n <= latest /\ Types /\ c \in SBOMs
  BY DEF Leading, Sound, Led, Newest, Execution, InDocument, Types
<1>2. stamp'[c] = n /\ \A s \in SBOMs : s # c => stamp'[s] = stamp[s]
  BY <1>1 DEF Types
<1>3. \A V, fs, b : RowsKept(V, fs, b)' <=> RowsKept(V, fs, b)
  BY DEF RowsKept, RowKept
<1>4. \A K, fs, b : KeysKept(K, fs, b)' <=> KeysKept(K, fs, b)
  BY DEF KeysKept, KeyKept
<1>5. Kept(Findings[n][c], n)
  BY DEF Leading, Led, Progress, Doc
<1> HIDE DEF n, c
<1>6. UpTo(n)' /\ UpTo(latest)'
  BY <1>1, <1>2 DEF UpTo, Leading, Store
<1>7. StampedKept'
  <2> SUFFICES ASSUME NEW s \in sboms, stamp'[s] # 0
               PROVE  Kept(Findings[stamp'[s]][s], stamp'[s])
    BY <1>3, <1>4 DEF StampedKept, Kept
  <2>1. CASE s = c
    BY <1>2, <1>5, <2>1
  <2>2. CASE s # c
    <3>1. stamp'[s] = stamp[s]
      BY <1>1, <1>2, <2>2 DEF Types
    <3> QED
      BY <3>1 DEF Leading, Store, StampedKept
  <2> QED
    BY <2>1, <2>2
<1>8. Store'
  BY <1>6, <1>7 DEF Store, Leading
<1>9. Newest(y)' /\ Cleaned(y)'
  BY <1>6 DEF Newest, Cleaned, n
<1>10. Ahead(y)'
  <2>1. \A s \in Left(n)' : s \in Left(n) /\ s # c
    BY <1>1, <1>2 DEF Left, Types
  <2>2. \A s \in Left(n) : s \in x.docs \/ (x.full /\ \A d \in x.docs : d < s)
    BY DEF Leading, Led, Ahead, InDocument, n
  <2>3. CASE /\ y.docs = x.docs \ {c} /\ y.full = x.full /\ y.pc \in {"mark", "rows"}
    BY <2>1, <2>2, <2>3 DEF Ahead, InDocument, n
  <2>4. CASE x.docs = {c} /\ y.after = c /\ y.pc = "list" /\ x.full = TRUE
    BY <2>1, <2>2, <2>4, <1>1, VulnRefresherAssumption DEF Ahead, InDocument, n, Left, Types
  <2>5. CASE x.docs = {c} /\ y.pc = "decide" /\ x.full = FALSE
    BY <2>1, <2>2, <2>5 DEF Ahead, InDocument, n
  <2> QED
    BY <2>3, <2>4, <2>5 DEF c
<1>11. Progress(y)'
  BY DEF Progress, Kept, RowsKept, KeysKept, RowIDs, MappingKeys, Doc
<1> QED
  BY <1>8, <1>9, <1>10, <1>11 DEF Led

(* Between two ticks nothing is left to be shown but the build.            *)
LEMMA LeadIdle ==
    ASSUME NEW x, Leading(x), NEW y \in Execution, y.open = x.open, y.pc = "idle"
    PROVE  Led(y)
BY DEF Leading, Led, Newest, Cleaned, Ahead, Progress, InDocument

LEMMA LeadDecide ==
    ASSUME NEW x, Leading(x), x.pc = "decide", NEW y \in Execution, y.open = x.open,
           y.pc = "stale"
    PROVE  Led(y)
BY DEF Leading, Led, Newest, Cleaned, Ahead, Progress, InDocument

(* The clean-up takes what older builds wrote, and no stamp is of those.   *)
LEMMA LeadStale ==
    ASSUME NEW r, NEW x, Leading(x), x.pc = "stale", x.open = Built(r),
           NEW y \in Execution, y.open = x.open, y.pc = "prune",
           DeleteStaleMatches(r), UNCHANGED <<latest, sboms>>
    PROVE  Store' /\ Led(y)'
<1>0. PICK n : n = x.open
  OBVIOUS
<1>1. n \in Nat /\ n # 0 /\ UpTo(n) /\ n <= latest /\ Types /\ Left(n) = {}
  BY <1>0 DEF Leading, Sound, Led, Newest, Ahead, Execution
<1>2. /\ \A k : k \in DOMAIN mappings' <=> k \in DOMAIN mappings /\ mappings[k].built = n
      /\ \A k \in DOMAIN mappings' : mappings'[k] = mappings[k]
      /\ \A v : v \in DOMAIN refs' <=> v \in DOMAIN refs /\ refs[v] = n
      /\ \A v \in DOMAIN refs' : refs'[v] = refs[v]
      /\ UNCHANGED <<stamp, vulns, matched>>
  BY <1>0 DEF DeleteStaleMatches, Restrict
<1>3. UpTo(n)' /\ UpTo(latest)'
  BY <1>1, <1>2 DEF UpTo, Leading, Store
<1>4. StampedKept'
  <2> SUFFICES ASSUME NEW s \in sboms, stamp[s] # 0
               PROVE  Kept(Findings[stamp[s]][s], stamp[s])'
    BY <1>2 DEF StampedKept
  <2>0. PICK fs : fs = Findings[stamp[s]][s]
    OBVIOUS
  <2>1. stamp[s] = n
    BY <1>1 DEF Left
  <2>2. Kept(fs, n)
    BY <2>0, <2>1 DEF Leading, Store, StampedKept
  <2>3. fs = Findings[stamp'[s]][s] /\ stamp'[s] = n
    BY <1>2, <2>0, <2>1
  <2>4. \A v \in RowIDs(fs) : RowKept(v, fs, n)'
    <3> TAKE v \in RowIDs(fs)
    <3>1. RowKept(v, fs, n)
      BY <2>2 DEF Kept, RowsKept
    <3>2. refs[v] = n
      BY <1>1, <3>1 DEF RowKept, UpTo, Types
    <3> QED
      BY <1>1, <1>2, <3>1, <3>2 DEF RowKept
  <2>5. \A k \in MappingKeys(fs) : KeyKept(k, fs, n)'
    <3> TAKE k \in MappingKeys(fs)
    <3>1. KeyKept(k, fs, n)
      BY <2>2 DEF Kept, KeysKept
    <3>2. mappings[k].built = n
      BY <1>1, <3>1 DEF KeyKept, UpTo, Types
    <3> QED
      BY <1>1, <1>2, <3>1, <3>2 DEF KeyKept
  <2>6. (\A v \in RowIDs(fs) : RowKept(v, fs, n)') => RowsKept(RowIDs(fs), fs, n)'
    BY DEF RowsKept
  <2>7. (\A k \in MappingKeys(fs) : KeyKept(k, fs, n)') => KeysKept(MappingKeys(fs), fs, n)'
    BY DEF KeysKept
  <2> QED
    BY <2>3, <2>4, <2>5, <2>6, <2>7 DEF Kept
<1>5. Store'
  BY <1>2, <1>3, <1>4 DEF Store, Leading
<1>6. Led(y)'
  BY <1>0, <1>2, <1>3 DEF Led, Newest, Cleaned, Ahead, Progress, InDocument
<1> QED
  BY <1>5, <1>6

(* A vulnerability that a finding needs has that finding's mapping.        *)
LEMMA LeadPrune ==
    ASSUME NEW r, NEW x, Leading(x), x.pc = "prune",
           NEW y \in Execution, y.open = x.open, y.pc = "prunesets",
           PruneOrphanVulnerabilities(r), UNCHANGED <<latest, sboms>>
    PROVE  Store' /\ Led(y)'
<1>1. /\ \A v : v \in DOMAIN vulns' <=> v \in DOMAIN vulns /\ ~Orphan(v)
      /\ \A v \in DOMAIN vulns' : vulns'[v] = vulns[v]
      /\ \A v : v \in DOMAIN refs' <=> v \in DOMAIN refs /\ ~Orphan(v)
      /\ \A v \in DOMAIN refs' : refs'[v] = refs[v]
      /\ UNCHANGED <<stamp, mappings, matched>>
  BY DEF PruneOrphanVulnerabilities, Restrict
<1>2. \A n : UpTo(n) => UpTo(n)'
  BY <1>1 DEF UpTo
<1>3. StampedKept'
  <2> SUFFICES ASSUME NEW s \in sboms, stamp[s] # 0
               PROVE  Kept(Findings[stamp[s]][s], stamp[s])'
    BY <1>1 DEF StampedKept
  <2>0. PICK fs, b : b = stamp[s] /\ fs = Findings[b][s]
    OBVIOUS
  <2>1. Kept(fs, b)
    BY <2>0 DEF Leading, Store, StampedKept
  <2>2. \A v \in RowIDs(fs) : RowKept(v, fs, b)'
    <3> TAKE v \in RowIDs(fs)
    <3>1. RowKept(v, fs, b)
      BY <2>1 DEF Kept, RowsKept
    <3>2. PICK i \in DOMAIN fs : fs[i].vuln = v
      BY DEF RowIDs
    <3>3. KeyOf(fs[i]) \in DOMAIN mappings /\ KeyOf(fs[i]).vuln = v
      BY <2>1, <3>2 DEF Kept, KeysKept, KeyKept, MappingKeys, KeyOf
    <3>4. ~Orphan(v)
      BY <3>3 DEF Orphan
    <3> QED
      BY <1>1, <3>1, <3>4 DEF RowKept
  <2>3. RowsKept(RowIDs(fs), fs, b)'
    BY <2>2 DEF RowsKept
  <2>4. KeysKept(MappingKeys(fs), fs, b)'
    BY <1>1, <2>1 DEF Kept, KeysKept, KeyKept
  <2>5. b = stamp'[s] /\ fs = Findings[stamp'[s]][s]
    BY <1>1, <2>0
  <2> QED
    BY <2>3, <2>4, <2>5 DEF Kept
<1>4. Store'
  BY <1>1, <1>2, <1>3 DEF Store, Leading
<1>5. Led(y)'
  BY <1>1, <1>2 DEF Led, Newest, Cleaned, Ahead, Progress, InDocument, Leading
<1> QED
  BY <1>4, <1>5

(* What is left is of the recorded build.                                  *)
LEMMA LeadRecord ==
    ASSUME NEW x, Leading(x), x.pc = "record",
           NEW y \in Execution, y.open = x.open, y.pc = "idle", matched' = x.open,
           UNCHANGED <<latest, sboms, stamp, vulns, refs, mappings>>
    PROVE  Store' /\ Led(y)'
<1>1. x.open \in Nat /\ UpTo(x.open) /\ x.open <= latest
  BY DEF Leading, Sound, Led, Newest, Execution
<1>2. UpTo(x.open)' /\ UpTo(latest)'
  BY <1>1 DEF UpTo, Leading, Store
<1>3. \A k \in DOMAIN mappings' : mappings'[k].built >= matched'
  BY <1>1 DEF Leading, Led, Cleaned
<1>4. StampedKept'
  BY DEF Leading, Store, StampedKept, Kept, RowsKept, KeysKept, RowKept, KeyKept
<1>5. Store'
  BY <1>2, <1>3, <1>4 DEF Store
<1>6. Led(y)'
  BY <1>2 DEF Led, Newest, Cleaned, Ahead, Progress, InDocument
<1> QED
  BY <1>5, <1>6

(* A published build, an ingested and a deleted SBOM leave what is stored. *)
LEMMA WorldLed ==
    ASSUME Types, Types', Store, World
    PROVE  Store' /\ \A x \in Execution : Led(x) => Led(x)'
<1>1. UNCHANGED <<vulns, refs, mappings, matched>>
  BY DEF World
<1>2. \A V, K, fs, b : /\ RowsKept(V, fs, b)' <=> RowsKept(V, fs, b)
                       /\ KeysKept(K, fs, b)' <=> KeysKept(K, fs, b)
  BY <1>1 DEF RowsKept, KeysKept, RowKept, KeyKept
<1>3. \A s \in sboms' : (s \in sboms /\ stamp'[s] = stamp[s]) \/ stamp'[s] = 0
  BY DEF World, PublishBuild, IngestSBOM, DeleteSBOM, Types
<1>4. latest' >= latest /\ \A s \in SBOMs : stamp'[s] = stamp[s] \/ stamp'[s] = 0
  BY DEF World, PublishBuild, IngestSBOM, DeleteSBOM, Types, Builds
<1>5. \A n \in Nat : UpTo(n) => UpTo(n)'
  BY <1>1, <1>4 DEF UpTo
<1>6. UpTo(latest)'
  BY <1>1, <1>4, <1>5 DEF UpTo, Store, Types, Builds
<1>7. StampedKept'
  BY <1>2, <1>3 DEF StampedKept, Store, Kept
<1>8. Store'
  BY <1>1, <1>6, <1>7 DEF Store
<1>9. \A n : \A s \in Left(n)' : s \in Left(n)
  BY <1>3 DEF Left
<1>10. ASSUME NEW x \in Execution, Led(x)
       PROVE  Newest(x)' /\ Cleaned(x)' /\ Ahead(x)' /\ Progress(x)'
  BY <1>1, <1>2, <1>5, <1>9, <1>10
  DEF Led, Newest, Cleaned, Ahead, Progress, Kept, Execution
<1> QED
  BY <1>8, <1>10 DEF Led

-----------------------------------------------------------------------------
(***************************************************************************)
(* LeaderInv is inductive                                                  *)
(***************************************************************************)
LEMMA LeaderInit == Init => LeaderInv
<1> SUFFICES ASSUME Init PROVE LeaderInv
  OBVIOUS
<1>1. \A r \in Replicas : exec[r] = Started
  BY DEF Init
<1>2. \A r \in Replicas : Led(exec[r])
  BY <1>1, StartedIs, WaitingLed
<1>3. OneLeader
  BY <1>1, StartedIs DEF OneLeader, At
<1>4. /\ latest = 1 /\ matched = 0 /\ sboms = {} /\ \A s \in SBOMs : stamp[s] = 0
      /\ DOMAIN vulns = {} /\ DOMAIN refs = {} /\ DOMAIN mappings = {}
  BY DEF Init
<1>5. Store
  BY <1>4 DEF Store, UpTo, StampedKept
<1> QED
  BY <1>2, <1>3, <1>5 DEF LeaderInv

LEMMA LeaderNext ==
    ASSUME Types, Types', LeaderInv, [Next]_vars
    PROVE  LeaderInv'
<1>1. OneLeader'
  BY OneLeaderNext DEF LeaderInv
<1> SUFFICES ASSUME alone' PROVE Store' /\ (\A r \in Replicas : Led(exec[r]))'
  BY <1>1 DEF LeaderInv
<1>2. alone
  BY DEF Next, vars, World, TryLead, Restart, LoseSession, Step, Types
<1>3. Store /\ \A r \in Replicas : /\ exec[r] \in Execution /\ Leading(exec[r])
                                   /\ Led(exec[r])
  BY <1>2 DEF LeaderInv, Types, Leading
<1>4. CASE UNCHANGED vars
  <2>1. UNCHANGED <<latest, sboms, stamp, vulns, refs, mappings, matched, exec>>
    BY <1>4 DEF vars, world, tables
  <2>2. \A r \in Replicas : \E x : x = exec[r] /\ x = exec'[r] /\ Led(x)'
    BY <1>3, <2>1, Untouched
  <2>3. \A x, r : x = exec'[r] /\ Led(x)' => Led(exec[r])'
    BY DEF Led, Newest, Cleaned, Ahead, Progress
  <2> QED
    BY <1>3, <2>1, <2>2, <2>3, Untouched
<1>5. CASE World
  <2>1. exec' = exec
    BY <1>5 DEF World
  <2>2. \A r \in Replicas : \E x : x = exec'[r] /\ Led(x)'
    BY <1>3, <1>5, <2>1, WorldLed DEF Leading
  <2>3. \A x, r : x = exec'[r] /\ Led(x)' => Led(exec[r])'
    BY DEF Led, Newest, Cleaned, Ahead, Progress
  <2>4. Store'
    BY <1>3, <1>5, WorldLed
  <2> QED
    BY <2>2, <2>3, <2>4
<1>6. ASSUME NEW r \in Replicas, TryLead(r)
      PROVE  Store' /\ (\A q \in Replicas : Led(exec[q]))'
  <2>1. UNCHANGED <<latest, sboms, stamp, vulns, refs, mappings, matched>>
    BY <1>6 DEF TryLead, world, tables
  <2>2. PICK y \in Execution : /\ exec' = [exec EXCEPT ![r] = y]
                               /\ y.open = exec[r].open /\ y.pc = "idle"
    BY <1>6, GoStep DEF TryLead, Steps
  <2>3. y.open = 0
    BY <1>6, <2>2 DEF TryLead, At, Types, Sound
  <2> QED
    BY <1>1, <1>3, <2>1, <2>2, <2>3, Untouched, WaitingLed, LeaderLed
<1>7. ASSUME NEW r \in Replicas, Restart(r)
      PROVE  Store' /\ (\A q \in Replicas : Led(exec[q]))'
  <2>1. UNCHANGED <<latest, sboms, stamp, vulns, refs, mappings, matched>>
    BY <1>7 DEF Restart, world, tables
  <2>2. /\ exec[r].pc # "waiting" /\ exec' = [exec EXCEPT ![r] = Started]
    BY <1>7 DEF Restart, At
  <2>3. \A q \in Replicas : exec'[q].pc = "waiting" /\ exec'[q].open = 0
    <3>1. lock = r
      BY <1>2, <2>2 DEF LeaderInv, OneLeader, At
    <3>2. \A q \in Replicas \ {r} : exec[q].pc = "waiting"
      BY <1>2, <3>1 DEF LeaderInv, OneLeader, At
    <3> QED
      BY <2>2, <3>2, StartedIs DEF Types, Sound
  <2>4. \A q \in Replicas : \E x : x = exec'[q] /\ Led(x)'
    BY <2>3, WaitingLed
  <2>5. \A x, q : x = exec'[q] /\ Led(x)' => Led(exec[q])'
    BY DEF Led, Newest, Cleaned, Ahead, Progress
  <2> QED
    BY <1>3, <2>1, <2>4, <2>5, Untouched
<1>8. ASSUME NEW r \in Replicas, LoseSession(r)
      PROVE  FALSE
  BY <1>8 DEF LoseSession
<1>9. ASSUME NEW r \in Replicas, Step(r)
      PROVE  Store' /\ (\A q \in Replicas : Led(exec[q]))'
  <2>1. SUFFICES \E y \in Execution :
                    exec' = [exec EXCEPT ![r] = y] /\ y.pc # "waiting" /\ Store' /\ Led(y)'
    BY <1>1, LeaderLed
  <2>2. PICK x : x = exec[r]
    OBVIOUS
  <2>3. Leading(x) /\ x \in Execution /\ Built(r) = x.open
    BY <1>3, <2>2 DEF Built
  <2>4. UNCHANGED <<latest, sboms>>
    BY <1>9 DEF Step, world
  <2>5. CASE CheckDB(r) \/ Tick(r)
    <3>1. PICK open \in 0 .. MaxBuild : Begin(r, open) /\ open \in {latest, x.open}
      <4>1. latest \in 0 .. MaxBuild /\ x.open \in 0 .. MaxBuild
        BY <2>3, VulnRefresherAssumption DEF Types, Builds, Execution
      <4> QED
        BY <2>3, <2>5, <4>1 DEF CheckDB, Tick
    <3>2. PICK y \in Execution :
             /\ exec' = [exec EXCEPT ![r] = y] /\ y.open = open /\ y.after = x.after
             /\ (open = 0 /\ y.pc = "idle") \/ (open # 0 /\ y.pc = "list")
      BY <2>2, <3>1, BeginStep
    <3>3. x.pc = "idle" /\ UNCHANGED <<stamp, vulns, refs, mappings, matched>>
      BY <2>2, <3>1 DEF Begin, At, tables
    <3>4. Led(y)
      BY <2>3, <3>1, <3>2, <3>3, LeadBegin
    <3> QED
      BY <1>3, <2>4, <3>2, <3>3, <3>4, Untouched
  <2>6. CASE List(r)
    <3>1. PICK page \in SUBSET ToMatch(Built(r), x.after), y \in Execution :
             /\ Page(page, ToMatch(Built(r), x.after))
             /\ exec' = [exec EXCEPT ![r] = y] /\ y.open = x.open
             /\ \/ page = {} /\ y.pc = "decide"
                \/ /\ page # {} /\ y.docs = page
                   /\ y.full = (Cardinality(page) = PageSize)
                   /\ \/ y.pc = "mark" /\ Doc(y) = <<>>
                      \/ y.pc = "rows" /\ y.todo = RowIDs(Doc(y))
      BY <2>2, <2>6, ListStep
    <3>2. x.pc = "list" /\ UNCHANGED <<stamp, vulns, refs, mappings, matched>>
      BY <2>2, <2>6 DEF List, At, tables
    <3>3. Led(y)
      BY <2>3, <3>1, <3>2, LeadList
    <3> QED
      BY <1>3, <2>4, <3>1, <3>2, <3>3, Untouched
  <2>7. CASE MergeVulnerability(r)
    <3>1. PICK id \in x.todo, y \in Execution :
             /\ RowIsWritten(id, Doc(x), x.open) /\ exec' = [exec EXCEPT ![r] = y]
             /\ y.open = x.open /\ y.docs = x.docs /\ y.full = x.full
             /\ Current(y) = Current(x)
             /\ \/ y.pc = "rows" /\ y.todo = x.todo \ {id}
                \/ y.pc = "mappings" /\ y.todo = MappingKeys(Doc(x)) /\ x.todo = {id}
      BY <2>2, <2>3, <2>7, RowStep
    <3>2. x.pc = "rows" /\ UNCHANGED <<stamp, mappings, matched>>
      BY <2>2, <2>7 DEF MergeVulnerability, At
    <3>3. Store' /\ Led(y)'
      BY <2>3, <2>4, <3>1, <3>2, LeadRow
    <3> QED
      BY <3>1, <3>3
  <2>8. CASE MergePackageVulns(r)
    <3>1. PICK k \in x.todo, y \in Execution :
             /\ exec' = [exec EXCEPT ![r] = y] /\ y.open = x.open
             /\ \/ /\ KeyIsWritten(k, Doc(x), x.open)
                   /\ y.docs = x.docs /\ y.full = x.full
                   /\ Current(y) = Current(x) /\ y.todo = x.todo \ {k}
                   /\ y.pc = "mappings" \/ (y.pc = "mark" /\ x.todo = {k})
                \/ y.pc = "idle" /\ mappings' = mappings
      BY <2>2, <2>3, <2>8, KeyStep
    <3>2. x.pc = "mappings" /\ UNCHANGED <<stamp, vulns, refs, matched>>
      BY <2>2, <2>8 DEF MergePackageVulns, At
    <3>3. CASE y.pc = "idle" /\ mappings' = mappings
      <4>1. Led(y)
        BY <2>3, <3>1, <3>3, LeadIdle
      <4> QED
        BY <1>3, <2>4, <3>1, <3>2, <3>3, <4>1, Untouched
    <3>4. CASE ~(y.pc = "idle" /\ mappings' = mappings)
      <4>1. Store' /\ Led(y)'
        BY <2>3, <2>4, <3>1, <3>2, <3>4, LeadKey
      <4> QED
        BY <3>1, <3>4, <4>1
    <3> QED
      BY <3>3, <3>4
  <2>9. CASE MarkSBOMMatched(r)
    <3>1. PICK y \in Execution :
             /\ exec' = [exec EXCEPT ![r] = y] /\ y.open = x.open
             /\ \/ y.pc = "idle" /\ stamp' = stamp
                \/ /\ stamp' = [stamp EXCEPT ![Current(x)] = x.open] /\ Current(x) \in sboms
                   /\ \/ /\ y.docs = x.docs \ {Current(x)} /\ y.full = x.full
                         /\ \/ y.pc = "mark" /\ Doc(y) = <<>>
                            \/ y.pc = "rows" /\ y.todo = RowIDs(Doc(y))
                      \/ /\ x.docs = {Current(x)} /\ y.after = Current(x)
                         /\ y.pc = "list" /\ x.full = TRUE
                      \/ x.docs = {Current(x)} /\ y.pc = "decide" /\ x.full = FALSE
      BY <2>2, <2>3, <2>9, MarkStep
    <3>2. x.pc = "mark" /\ UNCHANGED <<vulns, refs, mappings, matched>>
      BY <2>2, <2>9 DEF MarkSBOMMatched, At
    <3>3. CASE y.pc = "idle" /\ stamp' = stamp
      <4>1. Led(y)
        BY <2>3, <3>1, <3>3, LeadIdle
      <4> QED
        BY <1>3, <2>4, <3>1, <3>2, <3>3, <4>1, Untouched
    <3>4. CASE ~(y.pc = "idle" /\ stamp' = stamp)
      <4>1. Store' /\ Led(y)'
        BY <2>3, <2>4, <3>1, <3>2, <3>4, LeadMark
      <4> QED
        BY <3>1, <3>4, <4>1
    <3> QED
      BY <3>3, <3>4
  <2>10. CASE Decide(r)
    <3>1. PICK y \in Execution :
             exec' = [exec EXCEPT ![r] = y] /\ y.open = x.open /\ y.pc \in {"idle", "stale"}
      BY <2>2, <2>10, DecideStep
    <3>2. x.pc = "decide" /\ UNCHANGED <<stamp, vulns, refs, mappings, matched>>
      BY <2>2, <2>10 DEF Decide, At, tables
    <3>3. Led(y)
      BY <2>3, <3>1, <3>2, LeadIdle, LeadDecide
    <3> QED
      BY <1>3, <2>4, <3>1, <3>2, <3>3, Untouched
  <2>11. CASE CompletePass(r)
    <3>1. ASSUME NEW pc \in Steps, Go(r, pc)
          PROVE  \E y \in Execution : exec' = [exec EXCEPT ![r] = y]
                                      /\ y.open = x.open /\ y.pc = pc
      BY <2>2, <3>1, GoStep
    <3>2. CASE DeleteStaleMatches(r)
      <4>1. Go(r, "prune") /\ x.pc = "stale" /\ "prune" \in Steps
        BY <2>2, <3>2 DEF DeleteStaleMatches, At, Steps
      <4>2. PICK y \in Execution : exec' = [exec EXCEPT ![r] = y]
                                   /\ y.open = x.open /\ y.pc = "prune"
        BY <3>1, <4>1
      <4>3. Store' /\ Led(y)'
        BY <2>3, <2>4, <3>2, <4>1, <4>2, LeadStale
      <4> QED
        BY <4>2, <4>3
    <3>3. CASE PruneOrphanVulnerabilities(r)
      <4>1. Go(r, "prunesets") /\ x.pc = "prune" /\ "prunesets" \in Steps
        BY <2>2, <3>3 DEF PruneOrphanVulnerabilities, At, Steps
      <4>2. PICK y \in Execution : exec' = [exec EXCEPT ![r] = y]
                                   /\ y.open = x.open /\ y.pc = "prunesets"
        BY <3>1, <4>1
      <4>3. Store' /\ Led(y)'
        BY <2>3, <2>4, <3>3, <4>1, <4>2, LeadPrune
      <4> QED
        BY <4>2, <4>3
    <3>4. CASE PruneOrphanGoSymbolSets(r)
      <4>1. /\ Go(r, "record") /\ x.pc = "prunesets" /\ "record" \in Steps
            /\ UNCHANGED <<stamp, vulns, refs, mappings, matched>>
        BY <2>2, <3>4 DEF PruneOrphanGoSymbolSets, At, Steps
      <4>2. PICK y \in Execution : exec' = [exec EXCEPT ![r] = y]
                                   /\ y.open = x.open /\ y.pc = "record"
        BY <3>1, <4>1
      <4>3. Led(y)
        BY <2>3, <4>1, <4>2
        DEF Leading, Led, Newest, Cleaned, Ahead, Progress, InDocument
      <4> QED
        BY <1>3, <2>4, <4>1, <4>2, <4>3, Untouched
    <3>5. CASE SetMatchedDBBuilt(r)
      <4>1. /\ Go(r, "idle") /\ x.pc = "record" /\ "idle" \in Steps /\ matched' = x.open
            /\ UNCHANGED <<stamp, vulns, refs, mappings>>
        BY <2>2, <2>3, <3>5 DEF SetMatchedDBBuilt, At, Steps
      <4>2. PICK y \in Execution : exec' = [exec EXCEPT ![r] = y]
                                   /\ y.open = x.open /\ y.pc = "idle"
        BY <3>1, <4>1
      <4>3. Store' /\ Led(y)'
        BY <2>3, <2>4, <4>1, <4>2, LeadRecord
      <4> QED
        BY <4>2, <4>3
    <3> QED
      BY <2>11, <3>2, <3>3, <3>4, <3>5 DEF CompletePass
  <2>12. CASE StatementFails(r)
    <3>1. /\ exec' = [exec EXCEPT ![r] = Abandon(x)]
          /\ UNCHANGED <<stamp, vulns, refs, mappings, matched>>
      BY <2>2, <2>12 DEF StatementFails, tables
    <3>2. /\ Abandon(x) \in Execution /\ Abandon(x).pc = "idle"
          /\ Abandon(x).open = x.open
      BY <2>3, AbandonIs
    <3>3. Led(Abandon(x))
      BY <2>3, <3>2, LeadIdle
    <3> QED
      BY <1>3, <2>4, <3>1, <3>2, <3>3, Untouched
  <2> QED
    BY <1>9, <2>5, <2>6, <2>7, <2>8, <2>9, <2>10, <2>11, <2>12 DEF Step
<1> QED
  BY <1>4, <1>5, <1>6, <1>7, <1>8, <1>9 DEF Next

-----------------------------------------------------------------------------
(***************************************************************************)
(* What an SBOM links is stored with it, and only an unlinked set goes     *)
(***************************************************************************)
LEMMA SetsNext ==
    ASSUME SetsKept, [Next]_vars
    PROVE  SetsKept'
<1>1. CASE UNCHANGED vars
  BY <1>1 DEF vars, world, tables, SetsKept
<1>2. CASE World
  BY <1>2 DEF World, PublishBuild, IngestSBOM, DeleteSBOM, SetsKept
<1>3. ASSUME NEW r \in Replicas, TryLead(r) \/ Restart(r) \/ LoseSession(r)
      PROVE  SetsKept'
  BY <1>3 DEF TryLead, Restart, LoseSession, world, tables, SetsKept
<1>4. ASSUME NEW r \in Replicas, Step(r)
      PROVE  SetsKept'
  <2>1. sboms' = sboms
    BY <1>4 DEF Step, world
  <2>2. CASE symbolSets' = symbolSets
    BY <2>1, <2>2 DEF SetsKept
  <2>3. CASE PruneOrphanGoSymbolSets(r)
    BY <2>1, <2>3 DEF PruneOrphanGoSymbolSets, SetsKept
  <2> QED
    BY <1>4, <2>2, <2>3 DEF Step, CheckDB, Tick, Begin, List, MergeVulnerability,
       MergePackageVulns, MarkSBOMMatched, Decide, CompletePass, DeleteStaleMatches,
       PruneOrphanVulnerabilities, SetMatchedDBBuilt, StatementFails, tables
<1> QED
  BY <1>1, <1>2, <1>3, <1>4 DEF Next

LEMMA Invariants == Spec => [](Types /\ LeaderInv /\ SetsKept)
<1>1. Init => Types /\ LeaderInv /\ SetsKept
  BY TypesInit, LeaderInit DEF Init, SetsKept
<1>2. Types /\ LeaderInv /\ SetsKept /\ [Next]_vars => (Types /\ LeaderInv /\ SetsKept)'
  BY TypesNext, LeaderNext, SetsNext
<1> QED
  BY <1>1, <1>2, PTL DEF Spec

-----------------------------------------------------------------------------
(***************************************************************************)
(* The results                                                             *)
(***************************************************************************)

(* Once completePass has recorded a build nothing an older build matched   *)
(* is left, however passes were broken off before it and however builds    *)
(* and SBOMs come and go.                                                  *)
THEOREM RecordedIsClean == Spec => []OlderBuildsGone
<1>1. LeaderInv => OlderBuildsGone
  BY DEF LeaderInv, Store, OlderBuildsGone
<1> QED
  BY <1>1, Invariants, PTL

(* What is kept for an SBOM's findings is what a reader of it needs.       *)
LEMMA KeptIsReadable ==
    ASSUME NEW fs \in Seq(Finding), NEW b, Kept(fs, b), NEW i \in DOMAIN fs
    PROVE  Readable(fs[i], RowOf(fs[i].vuln, fs), b)
<1>1. fs[i].vuln \in RowIDs(fs) /\ KeyOf(fs[i]) \in MappingKeys(fs)
  BY DEF RowIDs, MappingKeys
<1>2. RowKept(fs[i].vuln, fs, b) /\ KeyKept(KeyOf(fs[i]), fs, b)
  BY <1>1 DEF Kept, RowsKept, KeysKept
<1>3. fs[i].fix # NoFix => Fixed(KeyOf(fs[i]), fs)
  BY DEF Fixed
<1> QED
  BY <1>2, <1>3 DEF RowKept, KeyKept, Readable

(* A stamp is true: everything the stamped build found in the SBOM is in   *)
(* the store, no milder than the SBOM's own view of it, whichever SBOMs    *)
(* share the rows, in whatever order they were matched and wherever a pass *)
(* broke off.                                                              *)
THEOREM StampIsTrue == Spec => []StampedIsWritten
<1>1. Types /\ LeaderInv /\ SetsKept => StampedIsWritten
  <2> SUFFICES ASSUME Types, LeaderInv, SetsKept, alone, NEW s \in sboms, stamp[s] # 0
               PROVE  LET fs == Findings[stamp[s]][s]
                      IN /\ \A i \in DOMAIN fs :
                              Readable(fs[i], RowOf(fs[i].vuln, fs), stamp[s])
                         /\ LinkedSets(s) \subseteq symbolSets
    BY DEF StampedIsWritten
  <2> DEFINE fs == Findings[stamp[s]][s]
  <2>1. fs \in Seq(Finding)
    <3>1. s \in SBOMs /\ stamp[s] \in Builds
      BY VulnRefresherAssumption DEF Types, Builds
    <3> QED
      BY <3>1, FindingsIs
  <2>2. Kept(fs, stamp[s])
    BY DEF LeaderInv, Store, StampedKept
  <2> HIDE DEF fs
  <2>3. \A i \in DOMAIN fs : Readable(fs[i], RowOf(fs[i].vuln, fs), stamp[s])
    BY <2>1, <2>2, KeptIsReadable
  <2> QED
    BY <2>3 DEF SetsKept, fs
<1> QED
  BY <1>1, Invariants, PTL
=============================================================================
