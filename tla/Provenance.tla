----------------------------- MODULE Provenance -----------------------------
(***************************************************************************)
(* What the provenance enricher makes of the signature and attestation     *)
(* layers it finds.  A layer is who signed it and what it is: "sig", a     *)
(* DSSE or bundle attestation "att", or a buildkit in-toto statement "raw",*)
(* which carries no envelope signature.  Certificates, digests and the     *)
(* cryptography are abstracted to the signer: a layer verifies when the    *)
(* configured trust names its signer.  Rekor fields only feed the display. *)
(***************************************************************************)
EXTENDS Naturals, Sequences

CONSTANTS
    Signers,
    NoSigner            \* the empty fingerprint and the empty identity

ASSUME SignerAssumption == NoSigner \notin Signers

Layer == [kind : {"sig", "att", "raw"}, signer : Signers]

(* trust.Config: the public key, or the identity and issuer, of a signer. *)
Mode == {"none", "public_key", "keyless"}
Config == [mode : Mode, signer : Signers]

Verdict == {"nil", "yes", "no"}

ProvenanceRecord ==
    [missing : BOOLEAN, sig : BOOLEAN, att : BOOLEAN, verified : Verdict,
     fingerprint : Signers \cup {NoSigner}, identity : Signers \cup {NoSigner}]

Nothing == [missing |-> FALSE, sig |-> FALSE, att |-> FALSE, verified |-> "nil",
            fingerprint |-> NoSigner, identity |-> NoSigner]

ArtifactMissing == [Nothing EXCEPT !.missing = TRUE]

Sigs(raw) == SelectSeq(raw, LAMBDA l : l.kind = "sig")
Atts(raw) == SelectSeq(raw, LAMBDA l : l.kind # "sig")

(* A raw in-toto statement has nothing to verify. *)
VerifiableAtts(raw) == SelectSeq(raw, LAMBDA l : l.kind = "att")

(* The key id of the first attestation's envelope names the signer. *)
BuildProvenance(raw) ==
    [Nothing EXCEPT
        !.sig = Sigs(raw) # <<>>,
        !.att = Atts(raw) # <<>>,
        !.fingerprint = IF Atts(raw) # <<>> /\ Head(Atts(raw)).kind = "att"
                        THEN Head(Atts(raw)).signer ELSE NoSigner]

(* One layer of a kind that the trust source accepts is enough. *)
SomeVerifies(layers, cfg) == \E i \in DOMAIN layers : layers[i].signer = cfg.signer

(* Every kind that is present must have such a layer. *)
VerifyAgainst(p, raw, cfg) ==
    LET kinds == {k \in {Sigs(raw), VerifiableAtts(raw)} : k # <<>>}
    IN IF kinds = {} THEN p
       ELSE [p EXCEPT !.verified =
                IF \A k \in kinds : SomeVerifies(k, cfg) THEN "yes" ELSE "no"]

(* The verified identity is the configured one. *)
StampIdentity(p, cfg) ==
    IF p.verified = "yes" THEN [p EXCEPT !.identity = cfg.signer] ELSE p

(***************************************************************************)
(* applyTrust.  rootOK: getTrustedRoot gave a root; without one keyless    *)
(* verification does not run at all and the record stays unverified.       *)
(***************************************************************************)
ApplyTrust(raw, cfg, rootOK) ==
    LET p == BuildProvenance(raw)
    IN CASE cfg.mode = "none" -> p
         [] cfg.mode = "public_key" -> VerifyAgainst(p, raw, cfg)
         [] cfg.mode = "keyless" ->
               IF rootOK THEN StampIdentity(VerifyAgainst(p, raw, cfg), cfg) ELSE p

Status == {"artifact_missing", "verified", "verification_failed", "signed", "unsigned"}

SigningStatus(p) ==
    IF p.missing THEN "artifact_missing"
    ELSE CASE p.verified = "yes" -> "verified"
           [] p.verified = "no"  -> "verification_failed"
           [] p.verified = "nil" -> IF p.sig \/ p.att THEN "signed" ELSE "unsigned"

SameSigner(a, b) ==
    \/ a.fingerprint # NoSigner /\ a.fingerprint = b.fingerprint
    \/ a.identity # NoSigner /\ a.identity = b.identity

(* The reason a drift event or a pending row carries. *)
DriftReason(old, new) ==
    IF new.missing THEN "artifact_missing"
    ELSE IF SameSigner(old, new) THEN "trust_config_changed"
    ELSE "reverification_failed"
=============================================================================
