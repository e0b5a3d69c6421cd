\* At most three writes and one failure, as each scenario says.
SPECIFICATION FairSpec
CONSTANTS
    Artifact <- Artifacts
    Doc <- Docs
    Vuln <- Vulns
    Category <- Categories
    RelationLimit = 1
    User = {"u"}
    FeedRow <- Matches
    Replica = {"r1", "r2"}
    Scenario <- Scenarios
    End = 9
    KeepLast = 1
    AgeLimit = TRUE
    Ref <- Refs
    Bare <- BareRefs
    Manifest <- Manifests
    Fleet <- Fleets
    Request = {1, 2}
INVARIANTS TypeOK ReadsScoped ReadsAgree LinksFollowSBOMs
PROPERTIES SeriesKept RollupsCatchUp InventoryHeals GapSettles
CHECK_DEADLOCK FALSE
