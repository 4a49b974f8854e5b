SPECIFICATION Spec
CONSTANTS
    FileParts = 2
    PrefsCode = FALSE
    ExitOnScriptError = FALSE
    MaxScripts = 2
    MaxRestarts = 1
    MaxReports = 0
INVARIANT
    RestartBetween
CHECK_DEADLOCK FALSE
