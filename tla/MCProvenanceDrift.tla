-------------------------- MODULE MCProvenanceDrift -------------------------
(***************************************************************************)
(* Instances of ProvenanceDrift: signatures published as referrers only,   *)
(* and a doubly signed image in the tag scheme whose trusted signature     *)
(* comes second.                                                           *)
(***************************************************************************)
EXTENDS ProvenanceDrift

CONSTANTS a, b

Sig(s) == [kind |-> "sig", signer |-> s]
Att(s) == [kind |-> "att", signer |-> s]

ByReferrer == [image |-> TRUE, referrers |-> <<Sig(a)>>, tags |-> <<>>]
ByTag == [image |-> TRUE, referrers |-> <<>>, tags |-> <<Sig(b), Sig(a), Att(a)>>]

OneImage == {ByReferrer}
BothImages == {ByReferrer, ByTag}

KeyOrKeyless == {[mode |-> "public_key", signer |-> a], [mode |-> "keyless", signer |-> a]}
KeyOrNone == {[mode |-> "public_key", signer |-> a], [mode |-> "none", signer |-> a]}
=============================================================================
