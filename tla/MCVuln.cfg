\* Two replicas, two builds, pages of one SBOM.
SPECIFICATION FairSpec
CONSTANTS
    VulnIDs = {"CVE-1", "GHSA-2"}
    Kind <- MCKind
    Purls = {"p", "q"}
    SymbolSets = {7}
    Replicas = {r1, r2}
    SBOMs = {1, 2}
    MaxBuild = 2
    PageSize = 1
    Findings <- MCFindings
    LinkedSets <- MCLinkedSets
    MaxFaults = 1
INVARIANTS StampedIsWritten OlderBuildsGone
PROPERTIES SBOMsMatched
CHECK_DEADLOCK FALSE
