SPECIFICATION Spec
CONSTANTS
    Logins = {l1}
    Coders = {c1, c2, c3}
    NoSecret = NoSecret
    Factory = Factory
    Threshold = 2
    Lockout = 1
    MaxCodes = 2
    MaxLag = 1
    MaxClock = 1
PROPERTY DiscardSparesProtected
CHECK_DEADLOCK FALSE
