SPECIFICATION FairSpec
CONSTANTS
    Paths = {pkg, app}
    Contents = {c1, c2}
    Absent = absent
    Manifest = pkg
    Component = app
    Template = c1
    MaxSteps = 2
    MaxRepairSteps = 3
    MaxToolCalls = 2
    StallRepeat = 2
    RepairBudget = 1
    UploadConcurrency = 1
    MaxResponseCalls = 1
    MaxCrashes = 1
    Essential = {pkg}
    Ignored = {}
INVARIANTS TypeOK PushedWasBuilt CompletedIsEarned SummaryCoversEdits
PROPERTIES PromptsEnd
CHECK_DEADLOCK FALSE
