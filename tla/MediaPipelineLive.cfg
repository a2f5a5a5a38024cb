SPECIFICATION FairSpec
CONSTANTS
    m1 = m1
    m2 = m2
    r1 = r1
    r2 = r2
    w1 = w1
    w2 = w2
    NoMedia = NoMedia
    Media = {m1, m2}
    Requests = {r1}
    Workers = {w1}
    Kind <- ImageAndSvg
    MaxRequests = 2
    MaxCrashes = 1
INVARIANTS OthersSurviveReprocessing
PROPERTIES ProcessingSettles
CHECK_DEADLOCK FALSE
