SPECIFICATION Spec
CONSTANTS
    b1 = b1
    b2 = b2
    r1 = r1
    p1 = p1
    p2 = p2
    NoJob = NoJob
    Project = Project
    Builds = {b1, b2}
    Runs = {}
    Prompts = {}
    Initial = {}
    MaxTries = 1
    MaxFaults = 0
SYMMETRY BuildSymmetry
CHECK_DEADLOCK FALSE
INVARIANT
    WaitersAreReachable
PROPERTY
    ImplementsContract
