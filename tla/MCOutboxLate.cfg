SPECIFICATION LateSpec
CONSTANTS
    Messages = {m1}
    Runners = {r1, r2, r3}
    Keys = {k1}
    NoKey = NoKey
    NoMsg = NoMsg
    Actored = {m1}
    MaxAttempts = 2
    BatchSize = 1
    Lease = 2
    Delays = {1}
    Punctual = FALSE
    MaxFaults = 2
    Knocks = {r1, r2, r3}
    Callers = {a1, a2}
    Limit = 1
    Burst = 2
    Window = 2
    MaxKeys = 2
    SweepEvery = 2
    MaxConcurrent = 1
    MaxQueued = 1
    MaxWait = 2
    MaxStall = 1
    MaxTime = 4
CHECK_DEADLOCK FALSE
SYMMETRY LateSymmetry
INVARIANTS DoorHolds
PROPERTIES RefundsOwnCharge KeepsPromise
