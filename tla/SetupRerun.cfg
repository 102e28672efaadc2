SPECIFICATION Spec
CONSTANTS
    c1 = c1
    c2 = c2
    Containers = {c1, c2}
    MaxChannels = 2
    MaxItems = 2
    MaxCrashes = 2
INVARIANTS SeedIsRepeatable
CHECK_DEADLOCK FALSE
