SPECIFICATION FairSpec
CONSTANTS
    Paths = {pkg, app, css, logo}
    Contents = {c1, c2}
    Absent = absent
    Manifest = pkg
    Component = app
    Template = c1
    MaxSteps = 2
    MaxRepairSteps = 2
    MaxToolCalls = 2
    StallRepeat = 2
    RepairBudget = 0
    UploadConcurrency = 2
    MaxResponseCalls = 1
    MaxCrashes = 1
    Essential = {pkg}
    Ignored = {logo}
INVARIANT PersistedIsABuild
CHECK_DEADLOCK FALSE
