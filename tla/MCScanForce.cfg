\* A forced walk over an image whose enrichment was never queued.
SPECIFICATION HistorySpec
CONSTANTS
    s1 = s1
    s2 = s2
    d1 = d1
    d2 = d2
    p1 = p1
    p2 = p2
    w1 = w1
    w2 = w2
    NoWorker = NoWorker
    NoSource = NoSource
    Sources = {s1}
    Digests = {d1}
    Catalog <- OneImage
    Pods = {p1, p2}
    Workers = {w1, w2}
    PodOf <- OnePerPod
    MaxAttempts = 2
    JobTimeout = 1
    MaxRun = 2
    StuckThreshold = 2
    StaleRequeuedAfter = 3
    HintCap = 0
    AnswerLost = FALSE
    MaxFaults = 1
    MaxOps = 1
INVARIANT ForcedWalkRepopulates
