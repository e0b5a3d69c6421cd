---------------------------- MODULE MCEnrichment ----------------------------
(***************************************************************************)
(* Instances of EnrichmentQueue.  Two oci-metadata workers make late and   *)
(* second executions of one job possible; the git worker closes the chain. *)
(***************************************************************************)
EXTENDS EnrichmentQueue, TLC

CONSTANTS s1, wo1, wo2, wg, wu

TwoOci == wo1 :> "oci-metadata" @@ wo2 :> "oci-metadata"
BothSources == wo1 :> "oci-metadata" @@ wu :> "user"

Declared == s1 :> [arch |-> TRUE, version |-> TRUE, date |-> TRUE]
Labelled == s1 :> {[arch |-> TRUE, version |-> TRUE]}
Unlabelled == s1 :> {[arch |-> TRUE, version |-> FALSE]}
=============================================================================
