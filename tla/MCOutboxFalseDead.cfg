SPECIFICATION Spec
CONSTANTS
    Messages = {m1}
    Runners = {r1, r2}
    Keys = {}
    NoKey = NoKey
    NoMsg = NoMsg
    Actored = {m1}
    MaxAttempts = 2
    BatchSize = 1
    Lease = 2
    Delays = {1}
    Punctual = FALSE
    MaxFaults = 0
CHECK_DEADLOCK FALSE
INVARIANTS UndeliverableIsDead
