SPECIFICATION Spec
CONSTANTS
    g1 = g1
    g2 = g2
    c1 = c1
    c2 = c2
    Groups = {g1}
    Consumers = {c1}
    GroupOf <- OneProcess
    FromStart = {}
    MaxDeliveries = 2
    Count = 2
    MaxMsgs = 1
    MaxFaults = 1
INVARIANTS
    NothingVanishes
