\* The version was given by whoever submitted the scan; the image has no version label.
SPECIFICATION FairSpec
CONSTANTS
    s1 = s1
    wo1 = wo1
    wo2 = wo2
    wg = wg
    wu = wu
    Sboms = {s1}
    Workers = {wo1, wu}
    EnricherOf <- BothSources
    CallerMeta <- Declared
    ImageMeta <- Unlabelled
    MaxAttempts = 2
    StuckThreshold = 1
    MaxRun = 1
    MaxFaults = 0
    MaxOps = 0
INVARIANT SufficientWhenComplete
CHECK_DEADLOCK FALSE
