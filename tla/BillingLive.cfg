SPECIFICATION FairSpec
CONSTANTS
    NoSub = NoSub
    Period = 1
    InOrder = TRUE
    CallsMayFail = TRUE
    Subs = {s1}
    Processes = {p1, p2}
    MaxTime = 1
    MaxEvents = 3
    MaxCrashes = 1
CHECK_DEADLOCK FALSE
PROPERTIES ReplaysChangeNothing OverdueIsSettled
