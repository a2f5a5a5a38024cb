SPECIFICATION GatesSpec
CONSTANTS
    MaxSessions = 2
    Browsers = {1, 2}
    Tabs = {1, 2}
    Requests = {1, 2, 3}
    Me = 1
    Who = 2
    MaxVisits = 3
    MaxTokens = 2
    Setups <- MCSetups
INVARIANTS GatesTypeOK NoFalseAlarm TheCookieWorks OldPasswordDies PlaceFitsTheUser LoggedOutIsOutside
PROPERTY ComesToRest
CHECK_DEADLOCK FALSE
