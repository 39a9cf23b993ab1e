SPECIFICATION Spec
SYMMETRY MCSymmetry
CONSTANTS
    Logins = {l1, l2, l3}
    Coders = {c1, c2, c3}
    NoSecret = NoSecret
    Factory = Factory
    Threshold = 2
    Lockout = 3
    MaxCodes = 2
    MaxLag = 1
    MaxClock = 5
INVARIANTS EnabledSecretProven
PROPERTIES BudgetsHold
CHECK_DEADLOCK FALSE
