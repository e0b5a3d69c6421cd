\* One goroutine, nothing changes outside, one fault.
SPECIFICATION Spec
CONSTANTS
    a = a
    b = b
    NoSigner = NoSigner
    Signers = {a, b}
    Workers = {w1}
    Images <- OneImage
    Trusts <- KeyOrNone
    MaxAttempts = 2
    MaxChanges = 0
    MaxFaults = 1
INVARIANT NoFalseAlarm
CHECK_DEADLOCK FALSE
