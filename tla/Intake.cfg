SPECIFICATION Spec
CONSTANTS
    x1 = x1
    y1 = y1
    NoKey = NoKey
    h1 = h1
    h2 = h2
    h3 = h3
    w1 = w1
    w2 = w2
    k1 = k1
    k2 = k2
    k3 = k3
    NoConv = NoConv
    WebhookKeys = {x1}
    WidgetKeys = {y1}
    Handlers = {h1, h2, h3}
    Writers = {w1, w2}
    Tabs = {}
    Texts = {}
    Convs = {k1, k2, k3}
    MaxCalls = 4
SYMMETRY Symmetric
INVARIANTS TypeOK FirstContactIsSafe NoDirtyConversation
PROPERTIES FollowsThreads
CHECK_DEADLOCK FALSE
