--------------------------- MODULE MCScanHistory ----------------------------
(***************************************************************************)
(* MCScanQueue with two history variables, for the promises made to an     *)
(* operator:                                                               *)
(*   erased   images whose SBOM an operator deleted and that nobody has    *)
(*            asked for since, by a forced walk or by retrying the job     *)
(*   rewalked images already ingested that a forced walk queued again      *)
(***************************************************************************)
EXTENDS MCScanQueue

VARIABLES erased, rewalked

Deleted(j) == sbom[j[2]] = j[1] /\ sbom'[j[2]] = NoSource

Forced(j) == walk[j[1]].force /\ j[2] \in walk'[j[1]].skip \ walk[j[1]].skip

Retried(j) == jobs[j].state = "failed" /\ jobs'[j].state = "queued"

Ingested(j) == jobs[j].state = "succeeded" /\ sbom[j[2]] = j[1]

HistoryInit == Init /\ erased = {} /\ rewalked = {}

HistoryNext ==
    /\ Next
    /\ erased' = (erased \cup {j \in Catalog : Deleted(j)})
                    \ {j \in Catalog : Forced(j) \/ Retried(j)}
    /\ rewalked' = (rewalked \cup {j \in Catalog : Forced(j) /\ Ingested(j)})
                      \ {j \in Catalog : Deleted(j)}

HistorySpec == HistoryInit /\ [][HistoryNext]_<<vars, erased, rewalked>>

(***************************************************************************)
(* "a pruned SBOM stays pruned" (docs/adr/0053, rule S6; DeleteSBOM): an   *)
(* SBOM deleted on purpose is not stored again until somebody asks for it. *)
(***************************************************************************)
DeletedStaysDeleted == \A j \in erased : sbom[j[2]] # j[1]

(***************************************************************************)
(* A forced walk is "used to repopulate enrichment for already-ingested    *)
(* images" (ScanRegistry): once the job it queued has succeeded again, the *)
(* image's SBOM has its enrichment jobs.                                   *)
(***************************************************************************)
ForcedWalkRepopulates ==
    \A j \in rewalked : jobs[j].state = "succeeded" => j[2] \in announced
=============================================================================
