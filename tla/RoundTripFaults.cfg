SPECIFICATION Spec
CONSTANTS
    b1 = b1
    b2 = b2
    r1 = r1
    p1 = p1
    p2 = p2
    NoJob = NoJob
    Project = Project
    Builds = {b1}
    Runs = {}
    Prompts = {}
    Initial = {}
    MaxTries = 2
    MaxFaults = 2
CHECK_DEADLOCK FALSE
INVARIANTS
    TypeOK
    SlotsAreLive
