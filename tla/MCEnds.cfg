SPECIFICATION FairSpec
CONSTANTS
    FileParts = 1
    PrefsCode = FALSE
    ExitOnScriptError = FALSE
    MaxScripts = 3
    MaxRestarts = 0
    MaxReports = 1
PROPERTIES
    QuitEndsOrHangs
    ScriptsEnd
CHECK_DEADLOCK FALSE
