SPECIFICATION Spec
CONSTANTS
    w1 = w1
    h1 = h1
    r1 = r1
    a1 = a1
    a2 = a2
    Widgets = {w1}
    Webhooks = {h1}
    Requests = {r1}
    Agents = {a1, a2}
    NoAgent = NoAgent
    MaxTexts = 2
    MaxReplies = 2
    MaxAsks = 1
    MaxAborts = 1
ACTION_CONSTRAINT OneAtATime
SYMMETRY Symmetric
PROPERTIES FollowsProtocol EngineSilentWhileHuman
