--------------------------- MODULE InventoryAgent ---------------------------
(***************************************************************************)
(* What the Kubernetes agent makes of the pods it lists.                   *)
(*                                                                         *)
(* A pod is [ns, name, running, owner, containers].  owner is the          *)
(* controller reference [kind, name, stem], where stem is the name without *)
(* its pod template hash, or kind None for a bare pod.  A container is     *)
(* [name, image, spec, id]: the reference of its status and of the pod     *)
(* spec, and the kubelet's imageID [scheme, at, digest] by its form: with  *)
(* a scheme or not, with an @ or not, and the sha256 digest it ends in,    *)
(* None when there is none.  Bare is the references that are an identifier *)
(* and no name.                                                            *)
(***************************************************************************)
EXTENDS Naturals, FiniteSets

CONSTANT Bare

NoValue == "none"

(* A scheme without @ holds the local image id, no registry digest. *)
normalizeImageID(id) == IF id.scheme /\ ~id.at THEN NoValue ELSE id.digest

ownerOf(pod) ==
  CASE pod.owner.kind = "ReplicaSet" -> <<"Deployment", pod.owner.stem>>
    [] pod.owner.kind \in {"Node", NoValue} -> <<"Pod", pod.name>>
    [] OTHER -> <<pod.owner.kind, pod.owner.name>>

displayRef(image, spec) ==
  IF image \notin Bare \cup {NoValue} THEN image
  ELSE IF spec # NoValue THEN spec ELSE image

(* One row per workload, container and digest. *)
buildSnapshot(pods) ==
  LET seen == UNION {{[pod |-> p, c |-> c] : c \in {c \in p.containers : displayRef(c.image, c.spec) # NoValue}} :
                       p \in {p \in pods : p.running}}
      key(x) == <<x.pod.ns, ownerOf(x.pod), x.c.name, normalizeImageID(x.c.id)>>
      of(i) == {x \in seen : key(x) = i}
      first(i) == (CHOOSE x \in of(i) : TRUE).c
  IN {[k8s |-> i[1], workload |-> i[2], container |-> i[3], digest |-> i[4],
       ref |-> displayRef(first(i).image, first(i).spec), pods |-> Cardinality({x.pod : x \in of(i)})] :
        i \in {key(x) : x \in seen}}
=============================================================================
