\* Two pods, jobs that outlive the stuck threshold, answers lost after a commit.
SPECIFICATION FairSpec
CONSTANTS
    s1 = s1
    s2 = s2
    d1 = d1
    d2 = d2
    p1 = p1
    p2 = p2
    w1 = w1
    w2 = w2
    NoWorker = NoWorker
    NoSource = NoSource
    Sources = {s1}
    Digests = {d1}
    Catalog <- OneImage
    Pods = {p1, p2}
    Workers = {w1, w2}
    PodOf <- OnePerPod
    MaxAttempts = 2
    JobTimeout = 1
    MaxRun = 2
    StuckThreshold = 1
    StaleRequeuedAfter = 2
    HintCap = 0
    AnswerLost = TRUE
    MaxFaults = 1
    MaxOps = 0
INVARIANT AttemptBudget
PROPERTIES JobsSettle ShutdownCompletes
