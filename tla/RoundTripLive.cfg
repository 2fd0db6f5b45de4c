SPECIFICATION FairSpec
CONSTANTS
    b1 = b1
    b2 = b2
    r1 = r1
    p1 = p1
    p2 = p2
    NoJob = NoJob
    Project = Project
    Builds = {}
    Runs = {r1}
    Prompts = {p2}
    Initial = {p2}
    MaxTries = 1
    MaxFaults = 0
CHECK_DEADLOCK FALSE
PROPERTIES
    VerdictsReachBackend
    TasksReport
