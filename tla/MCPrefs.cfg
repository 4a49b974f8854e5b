SPECIFICATION Spec
CONSTANTS
    FileParts = 2
    PrefsCode = TRUE
    ExitOnScriptError = TRUE
    MaxScripts = 5
    MaxRestarts = 2
    MaxReports = 1
INVARIANT
    OneScriptAfterError
CHECK_DEADLOCK FALSE
