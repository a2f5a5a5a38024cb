SPECIFICATION Spec
CONSTANTS
    Media = {a, b, c}
    Groups = {g, h}
    NoGroup = NoGroup
    Editors = {e1, e2}
    MaxVersion = 3
SYMMETRY Interchangeable
CONSTRAINT Undisturbed
INVARIANTS AtMostOnePrimary UniqueVersionNumbers UngroupedIsShown
CHECK_DEADLOCK FALSE
