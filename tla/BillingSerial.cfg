SPECIFICATION Spec
CONSTANTS
    NoSub = NoSub
    Period = 1
    InOrder = FALSE
    CallsMayFail = TRUE
    Subs = {s1, s2}
    Processes = {p1, p2}
    MaxTime = 3
    MaxEvents = 6
    MaxCrashes = 2
SYMMETRY Interchangeable
CONSTRAINT Undisturbed
CHECK_DEADLOCK FALSE
INVARIANTS TypeOK FollowsStripe
