SPECIFICATION FairSpec
CONSTANTS
    Clients = {k1, k2}
    Cids = {c1}
    Peers = {p1}
    Held = {"bad"}
    Length = 4
    Limits = {2}
    Faults = {}
    MaxFaults = 0
PROPERTY
    EveryLookupReturns
CHECK_DEADLOCK FALSE
