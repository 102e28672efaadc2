SPECIFICATION FairRetrievalSpec
CONSTANTS
    i1 = i1
    i3 = i3
    p1 = p1
    k1 = k1
    Items = {i1, i3}
    Writers = {p1}
    Workers = {k1}
    Refused = {i3}
    MaxVersion = 2
    MaxFailures = 1
    t1 = t1
    Turns = {t1}
    TopK = 1
    Threshold = 0
    Scores = {10, 80}
INVARIANTS TypeOK IndexedHasPoint RetrievalTypeOK TextNotOlderThanScore UngroundedOnlyByDeletion
PROPERTY WorkerCatchesUp
