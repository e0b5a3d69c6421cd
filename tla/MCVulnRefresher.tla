-------------------------- MODULE MCVulnRefresher ---------------------------
(***************************************************************************)
(* An instance of VulnRefresher: two SBOMs that share a package and judge  *)
(* its advisory differently; the second build drops the advisory for one   *)
(* of them and finds a symbol-level one there.                             *)
(***************************************************************************)
EXTENDS VulnRefresher

MCKind(id) == CASE id = "CVE-1" -> "CVE" [] id = "GHSA-2" -> "GHSA" [] OTHER -> "native"

MCLinkedSets(s) == IF s = 2 THEN {7} ELSE {}

Mild == [purl |-> "p", set |-> 0, vuln |-> "CVE-1", aliases |-> <<>>,
         label |-> 1, own |-> NoScore, rel |-> 9, fix |-> NoFix]
Grave == [Mild EXCEPT !.label = 4, !.own = 10, !.fix = "1.2"]
Symbol == [purl |-> "q", set |-> 7, vuln |-> "GHSA-2", aliases |-> <<"CVE-1">>,
           label |-> 0, own |-> NoScore, rel |-> 5, fix |-> "2.0"]

MCFindings == <<
    (1 :> <<Grave>> @@ 2 :> <<Mild>>),
    (1 :> <<Mild>> @@ 2 :> <<Symbol>>) >>
=============================================================================
