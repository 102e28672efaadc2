SPECIFICATION Spec
CONSTANTS
    NoKey = NoKey
    t1 = t1
    t2 = t2
    m1 = m1
    m2 = m2
    k1 = k1
    k2 = k2
    k3 = k3
    NoConv = NoConv
    WebhookKeys = {}
    WidgetKeys = {}
    Handlers = {}
    Writers = {}
    Tabs = {t1, t2}
    Texts = {m1, m2}
    Convs = {k1, k2, k3}
    MaxCalls = 0
SYMMETRY Symmetric
INVARIANTS ShownIsSaid
PROPERTIES ReturnsToItsThread
