SPECIFICATION Spec
CONSTANTS
    m1 = m1
    m2 = m2
    r1 = r1
    r2 = r2
    w1 = w1
    w2 = w2
    NoMedia = NoMedia
    Media = {m1}
    Requests = {r1, r2}
    Workers = {w1, w2}
    Kind <- AllVideo
    MaxRequests = 3
    MaxCrashes = 1
SYMMETRY Symmetric
INVARIANTS TypeOK StrandedOnlyAfterLoss ContentSurvives RepointedIsStored
 
CHECK_DEADLOCK FALSE
