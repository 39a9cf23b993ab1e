CONSTANTS
    Instances = {i1}
    People = {ann, bob}
    Requests = {q1, q2}
    Contents = {c1, c2}
    NeedApproval = {i1}
    Nobody = Nobody
    NoRequest = NoRequest
    i1 = i1
    ann = ann
    bob = bob
    q1 = q1
    q2 = q2
    c1 = c1
    c2 = c2
SPECIFICATION Spec
PROPERTY ApprovedIsImmutable
CHECK_DEADLOCK FALSE
