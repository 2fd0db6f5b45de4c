SPECIFICATION Spec
CONSTANTS
    g1 = g1
    g2 = g2
    c1 = c1
    c2 = c2
    Groups = {g1}
    Consumers = {c1, c2}
    GroupOf <- TwoProcesses
    FromStart = {g1}
    MaxDeliveries = 2
    Count = 2
    MaxMsgs = 2
    MaxFaults = 1
SYMMETRY Processes
INVARIANTS
    SettledIsAccounted
    DeadOnlyAfterBound
PROPERTIES
    ImplementsContract
