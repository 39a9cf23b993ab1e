SPECIFICATION Spec
SYMMETRY Symmetry
CONSTANTS
    Humans = {a, b}
    Services = {s}
    Founder = a
    Creds = {c1, c2}
    Procs = {p1, p2}
    Nobody = Nobody
    None = None
INVARIANTS AdminRemains ActiveCanSignIn CredentialsEnd NobodyStuck
PROPERTIES ActivationIsEarned
CHECK_DEADLOCK FALSE
