SPECIFICATION FairSpec
CONSTANTS
    MaxTasks = 2
    MaxFaults = 1
CHECK_DEADLOCK FALSE
INVARIANTS
    TypeOK
    RequestsAreSeen
    WorkspaceFirst
    OneVerdict
    PromptPerRequest
PROPERTIES
    CreatedReachesBackend
    InitSettles
