SPECIFICATION Spec
CONSTANTS
    FileParts = 2
    PrefsCode = FALSE
    ExitOnScriptError = FALSE
    MaxScripts = 3
    MaxRestarts = 1
    MaxReports = 1
INVARIANTS
    TypeOK
    RunsInOrder
    RestartCredit
    NoMissedScript
    FileNameOfScript
    ReportsInOrder
    CloseFlushed
    OneScriptAtATime
CHECK_DEADLOCK FALSE
