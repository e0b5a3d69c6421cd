----------------------------- MODULE VulnStore ------------------------------
(***************************************************************************)
(* The package-keyed vulnerability store: what one SBOM's findings fold    *)
(* into, and how rows written for several SBOMs of one database build are  *)
(* merged.  Prose (summary, details, raw records) is left out.             *)
(***************************************************************************)
EXTENDS Integers, Sequences, SequencesExt, FiniteSetsExt

CONSTANTS
    VulnIDs,        \* advisory identifiers
    Kind(_),        \* external: "CVE", "GHSA" or "native", from the id's prefix
    Purls,
    SymbolSets      \* go_symbol_set ids; 0 is a module-level match

NoScore == -1
NoFix == "none"

Severity == 0 .. 4          \* UNKNOWN, LOW, MEDIUM, HIGH, CRITICAL
Score == NoScore .. 10

(***************************************************************************)
(* A finding of the matcher: label is the matched record's own severity    *)
(* after highestLabel's normalisation, own and rel the best CVSS score of  *)
(* the matched and of the related records, aliases the related ids.        *)
(***************************************************************************)
Finding == [purl : Purls, set : SymbolSets \cup {0}, vuln : VulnIDs,
            aliases : Seq(VulnIDs), label : Severity, own : Score, rel : Score,
            fix : STRING]

MappingKey == [purl : Purls, set : SymbolSets \cup {0}, vuln : VulnIDs]

VulnRow == [aliases : SUBSET VulnIDs, canonical : VulnIDs,
            severity : Severity, score : Score, built : Nat]

-----------------------------------------------------------------------------
SeverityLabel(score) ==
    IF score >= 9 THEN 4 ELSE IF score >= 7 THEN 3 ELSE IF score >= 4 THEN 2 ELSE IF score > 0 THEN 1 ELSE 0

OfKind(ids, kind) == SelectSeq(ids, LAMBDA a : Kind(a) = kind)

CanonicalID(id, aliases) ==
    LET all == <<id>> \o aliases
        best == OfKind(all, "CVE") \o OfKind(all, "GHSA") \o <<id>>
    IN Head(best)

(* row: a matched record's own word wins; NVD only fills in. *)
RowOf(id, findings) ==
    LET fs == {f \in ToSet(findings) : f.vuln = id}
        aliases == FlattenSeq([i \in 1 .. Len(findings) |->
                       IF findings[i].vuln = id THEN findings[i].aliases ELSE <<>>])
        label == Max({f.label : f \in fs})
        own == Max({f.own : f \in fs})
        rel == Max({f.rel : f \in fs})
        score == IF own # NoScore THEN own ELSE rel
    IN [aliases |-> ToSet(aliases) \ {id},
        canonical |-> CanonicalID(id, aliases),
        severity |-> IF label # 0 THEN label
                     ELSE IF SeverityLabel(own) # 0 THEN SeverityLabel(own)
                     ELSE SeverityLabel(rel),
        score |-> score]

KeyOf(f) == [purl |-> f.purl, set |-> f.set, vuln |-> f.vuln]

(* MappingSet.Add: the first finding that carries a fixed version wins. *)
FixOf(key, findings) ==
    LET fixed == {i \in DOMAIN findings : KeyOf(findings[i]) = key /\ findings[i].fix # NoFix}
    IN IF fixed = {} THEN NoFix ELSE findings[Min(fixed)].fix

RowIDs(findings) == {findings[i].vuln : i \in DOMAIN findings}
MappingKeys(findings) == {KeyOf(findings[i]) : i \in DOMAIN findings}

-----------------------------------------------------------------------------
(***************************************************************************)
(* MergeVulnerability and MergePackageVuln: what another build wrote is    *)
(* replaced, what this build wrote is merged.  old is the stored row.      *)
(***************************************************************************)
MergeCanonical(old, new) ==
    CASE Kind(old) = "CVE" -> old
      [] Kind(old) # "CVE" /\ Kind(new) = "CVE" -> new
      [] Kind(old) = "GHSA" /\ Kind(new) # "CVE" -> old
      [] OTHER -> new

(* Mutant: the last SBOM's view of the severity wins. *)
LastSeverity(old, new) == new

MoreSevere(old, new) == IF new > old THEN new ELSE old

MergeRow(old, new, b) ==
    IF old.built # b
    THEN [aliases |-> new.aliases, canonical |-> new.canonical,
          severity |-> new.severity, score |-> new.score, built |-> b]
    ELSE [aliases |-> old.aliases \cup new.aliases,
          canonical |-> MergeCanonical(old.canonical, new.canonical),
          severity |-> MoreSevere(old.severity, new.severity),
          score |-> MoreSevere(old.score, new.score),
          built |-> b]

MergeFix(old, fix, b) ==
    [fix |-> IF old.built # b \/ old.fix = NoFix THEN fix ELSE old.fix, built |-> b]
=============================================================================
