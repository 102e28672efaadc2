SPECIFICATION FairSpec
CONSTANTS
    x1 = x1
    x2 = x2
    s1 = s1
    s2 = s2
    s3 = s3
    Convs = {x1, x2}
    NoConv = NoConv
    Slots = {s1, s2, s3}
    MaxMessages = 2
    MaxFailures = 1
PROPERTY ShowsSelected
CHECK_DEADLOCK FALSE
