SPECIFICATION Spec
CONSTANTS
    Queries <- QueryNames
    About <- MCAbout
    Arrays <- MCArrays
    Forms <- MCForms
    Does <- MCDoes
    Places <- MCPlaces
    At <- MCAt
    Reacts <- MCReacts
    AppRooms = {"user"}
    SignIn = "LoginPage"
    Polled = {"folderMedia", "allMedia", "unread", "overview"}
    Unsignalled <- MCUnsignalled
    MaxChanges = 2
    Bounds <- MCBounds
    Keeps <- MCKeeps
    Told <- MCTold
    Forgetful <- MCForgetful
INVARIANTS SettledViewIsTrue NothingInvented
PROPERTY NeverForgets
CHECK_DEADLOCK FALSE
