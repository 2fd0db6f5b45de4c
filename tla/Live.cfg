SPECIFICATION FairSpec
CONSTANTS
    MaxEvents = 2
    MaxSources = 2
    MaxFaults = 1
INVARIANTS
    TypeOK
    OneOrderedStream
PROPERTIES
    DroppedReconnects
CHECK_DEADLOCK FALSE
