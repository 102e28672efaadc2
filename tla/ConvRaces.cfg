SPECIFICATION FairSpec
CONSTANTS
    w1 = w1
    h1 = h1
    r1 = r1
    a1 = a1
    Widgets = {w1}
    Webhooks = {h1}
    Requests = {r1}
    Agents = {a1}
    NoAgent = NoAgent
    MaxTexts = 2
    MaxReplies = 0
    MaxAsks = 0
    MaxAborts = 0
INVARIANTS TypeOK HumanHasOwner OneAnswerPerText TalksOverAtMostOnce
PROPERTIES TurnConcludes OffTableOnlyIfStale
