SPECIFICATION FairSpec
CONSTANTS
    Scenes <- MCScenes
    Prefix <- MCPrefix
    Part <- MCPart
    Special <- MCSpecial
    Literal <- MCLiteral
    Keys <- MCKeys
    OtherClasses <- MCOtherClasses
    MaxAttempts = 2
INVARIANTS
    TypeOK
    NameLeadsBack
    CommandLeadsBack
    ActedOnceEach
    CrashHasReason
PROPERTIES
    ReplayRepeats
    ScriptEnds
\* A script ends, and the application does no more than its bound allows.
CHECK_DEADLOCK FALSE
