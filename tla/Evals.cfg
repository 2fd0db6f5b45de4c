SPECIFICATION FairSpec
CONSTANTS
    MaxEvents = 2
    MaxInstances = 3
    MemoryCap = 1
    NumCases = 2
    FollowUps = {2}
    Budget = 4
    TurnTimes = {1}
    Repairs = 0
    Sources <- SourcesMC
    Expected <- ExpectedMC
    Includes <- IncludesMC
    Grades = {20}
    Floor = 90
INVARIANTS
    TypeOK
    CasesAreIsolated
    GreenIsEarned
    ComparisonsAgree
    ChecksAreStructural
PROPERTIES
    RunEnds
CHECK_DEADLOCK FALSE
