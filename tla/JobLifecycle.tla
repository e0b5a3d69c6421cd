---------------------------- MODULE JobLifecycle ----------------------------
(***************************************************************************)
(* What the scan queue promises of a job, with no workers, pods, hints,    *)
(* walks or clock: the states of ScanJobState and the moves between them.  *)
(* A statement may move several rows at once (a sweep, "retry all"), so a  *)
(* step moves any set of jobs, each by one legal move.                     *)
(***************************************************************************)
EXTENDS Naturals

CONSTANTS Jobs, MaxAttempts

VARIABLE life     \* per job: its state and the attempts it has used

Submitted == [state |-> "queued", attempts |-> 0]

(* A new submission, a re-scan, a forced walk or an operator's retry. *)
Enqueue(a, b) ==
    a.state \in {"absent", "succeeded", "failed", "pruned"} /\ b = Submitted

Attempt(a, b) ==
    /\ a.state = "queued" /\ a.attempts < MaxAttempts
    /\ b = [state |-> "running", attempts |-> a.attempts + 1]

Succeed(a, b) == a.state = "running" /\ b = [a EXCEPT !.state = "succeeded"]

GiveBack(a, b) ==
    /\ a.state = "running" /\ a.attempts < MaxAttempts
    /\ b = [a EXCEPT !.state = "queued"]

(* Budget used up, a permanent error, a cancel, or nobody came back for it. *)
GiveUp(a, b) == a.state \in {"queued", "running"} /\ b = [a EXCEPT !.state = "failed"]

Tombstone(a, b) == a.state = "succeeded" /\ b = [a EXCEPT !.state = "pruned"]

Refuse(a, b) == a.state = "absent" /\ b = [state |-> "failed", attempts |-> 0]

Forget(a, b) == a.state = "failed" /\ b = [state |-> "absent", attempts |-> 0]

Move(a, b) ==
    \/ Enqueue(a, b) \/ Attempt(a, b) \/ Succeed(a, b) \/ GiveBack(a, b)
    \/ GiveUp(a, b) \/ Tombstone(a, b) \/ Refuse(a, b) \/ Forget(a, b)

Init == life = [j \in Jobs |-> [state |-> "absent", attempts |-> 0]]

Next == \A j \in Jobs : life'[j] = life[j] \/ Move(life[j], life'[j])

Spec == Init /\ [][Next]_life
=============================================================================
