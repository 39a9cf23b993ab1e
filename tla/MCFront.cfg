SPECIFICATION FrontSpec
SYMMETRY MCSymmetry
CONSTANTS
    Instances = {i1}
    People = {ann, bob}
    Requests = {q1, q2}
    Contents = {c1, c2}
    NeedApproval = {i1}
    Nobody = Nobody
    NoRequest = NoRequest
    i1 = i1
    ann = ann
    bob = bob
    q1 = q1
    q2 = q2
    c1 = c1
    c2 = c2
    CreatedAhead = 3
    Windows = {11, 12, 13}
    Aheads = {1, 3}
    Followed = {0, 4, 5}
    MaxReconfigured = 1
    MaxBusy = 1
    Horizon = 19
    Client = Client
    Proxied = Proxied
    Cdn = Cdn
    Balancer = Balancer
    Web = Web
    NotAnAddress = NotAnAddress
    Headers <- MCHeaders
INVARIANTS RecordsAgree EarlyApprovalSurvives CallersNamed
PROPERTIES ApprovedIsFrozen StreamAges
CHECK_DEADLOCK FALSE
