SPECIFICATION FairSpec
CONSTANTS
    m1 = m1
    w1 = w1
    w2 = w2
    s1 = s1
    s2 = s2
    Messages = {m1}
    Sockets = {w1, w2}
    Instances = {s1, s2}
    NoInstance = NoInstance
    MaxFailures = 1
INVARIANTS TypeOK PushedAtMostOnce NothingMissed
PROPERTY EventuallyShown
CHECK_DEADLOCK FALSE
