SPECIFICATION FairSpec
CONSTANTS
    Procs = {p1, p2}
    p1 = p1
    p2 = p2
    NoProc = NoProc
    NJobs = 2
    Wedging = {1}
    Interval = 2
    Timeout = 1
    Grace = 1
    ProbeInterval = 2
    Survivor = p2
    MaxFaults = 2
CHECK_DEADLOCK FALSE
INVARIANTS OneRunner
PROPERTIES StaleStartsBounded WorkGoesOn
