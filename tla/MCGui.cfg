SPECIFICATION FairSpec
CONSTANTS
    Drivers = {"window", "plugin"}
    Texts <- MCTexts
    MaxRuns = 2
    MaxSessions = 2
    MaxReports = 1
INVARIANTS
    IdleMeansDone
    ShownInOrder
    TakenInOrder
PROPERTIES
    NoStrayFinish
    PlayingEnds
\* A plugin may stop, and the window waits for the user.
CHECK_DEADLOCK FALSE
