\* Two goroutines, one change and one fault around one SBOM's rechecks.
SPECIFICATION FairSpec
CONSTANTS
    a = a
    b = b
    NoSigner = NoSigner
    Signers = {a, b}
    Workers = {w1, w2}
    Images <- BothImages
    Trusts <- KeyOrKeyless
    MaxAttempts = 2
    MaxChanges = 1
    MaxFaults = 1
INVARIANTS MissingIsDeleted DowngradeLeavesTrace
PROPERTIES UnsignedConfirmed PendingResolves RemovalReported
CHECK_DEADLOCK FALSE
