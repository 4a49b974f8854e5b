SPECIFICATION FairSpec
CONSTANTS
    MaxCalls = 3
    MaxLoops = 3
INVARIANTS
    TypeOK
    NoStrayRelease
PROPERTIES
    CallsSpec
    TimedCallReturns
CHECK_DEADLOCK FALSE
