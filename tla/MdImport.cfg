SPECIFICATION Spec
CONSTANTS
    Level <- TwoLevels
    MaxLines = 6
INVARIANTS ItemsAreEntries NothingLost
PROPERTY EarlierItemsStay
CHECK_DEADLOCK FALSE
