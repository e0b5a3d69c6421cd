\* One SBOM, two oci-metadata workers that may outlive the stuck threshold, one git worker.
SPECIFICATION FairSpec
CONSTANTS
    s1 = s1
    wo1 = wo1
    wo2 = wo2
    wg = wg
    wu = wu
    Sboms = {s1}
    Workers = {wo1, wo2}
    EnricherOf <- TwoOci
    CallerMeta <- Declared
    ImageMeta <- Labelled
    MaxAttempts = 2
    StuckThreshold = 1
    MaxRun = 2
    MaxFaults = 1
    MaxOps = 1
INVARIANTS EnrichBudget DependentHasPrerequisites SuccessHasResult DependentsEnqueued
PROPERTIES EnrichmentSettles
CHECK_DEADLOCK FALSE
