SPECIFICATION DialogSpec
CONSTANTS
    N = 2
    MaxRuns = 2
    MaxFiles = 2
    Setups <- MCSetups
INVARIANTS CountedIsStored WholeAssets CompletedIsStored MetaIsNotLater WorkIsGoingOn
PROPERTY DialogSettles
CHECK_DEADLOCK FALSE
