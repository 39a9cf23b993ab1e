SPECIFICATION FairSpec
CONSTANTS
    Messages = {m1, m2}
    Runners = {r1, r2}
    Keys = {}
    NoKey = NoKey
    NoMsg = NoMsg
    Actored = {m1}
    MaxAttempts = 2
    BatchSize = 2
    Lease = 2
    Delays = {1}
    Punctual = TRUE
    MaxFaults = 1
CHECK_DEADLOCK FALSE
INVARIANTS OneHolder
PROPERTIES EverySettlesTried
