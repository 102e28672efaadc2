SPECIFICATION Spec
CONSTANTS
    i1 = i1
    p1 = p1
    p2 = p2
    k1 = k1
    Items = {i1}
    Writers = {p1, p2}
    Workers = {k1}
    Refused = {}
    MaxVersion = 2
    MaxFailures = 0
INVARIANT QuietIsCurrent
