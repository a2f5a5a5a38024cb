SPECIFICATION WorkspaceSpec
CONSTANTS
    Last = 10
    Comments = {"a", "b", "c"}
    Stamp <- MCStamp
    EchoWithin = 1
    PlayingWithin = 3
    PausedWithin = 1
    Throttle = 2
    JumpBy = 4
    Setups <- MCSetups
    Versions = {"v1", "v2"}
    Length <- MCLength
    HardSeek = 2
    Cooldown = 2
INVARIANTS SelectedFrameIsShown SelectionIsWhole CommentsAreNear
PROPERTIES LeavesTheComment VersionsRestTogether
CHECK_DEADLOCK FALSE
