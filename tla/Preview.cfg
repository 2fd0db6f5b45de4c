SPECIFICATION FairSpec
CONSTANTS
    Loops = {control, orchestrator}
    MaxDeliveries = 2
    MaxRuns = 2
    MaxLosses = 1
    ClusterRouting = FALSE
INVARIANTS TypeOK ReplacedIsQuiet ReadyIsOwn AnnouncedIsRouted
PROPERTIES RunsAnswered
CHECK_DEADLOCK FALSE
