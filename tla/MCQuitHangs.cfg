SPECIFICATION FairSpec
CONSTANTS
    FileParts = 2
    PrefsCode = FALSE
    ExitOnScriptError = FALSE
    MaxScripts = 2
    MaxRestarts = 1
    MaxReports = 1
PROPERTY
    QuitEnds
CHECK_DEADLOCK FALSE
