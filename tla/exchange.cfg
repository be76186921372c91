SPECIFICATION FairSpec
CONSTANTS
    Clients = {k1, k2}
    Cids = {c1, c2}
    Peers = {p1, p2}
    Held = {"none", "whole", "bad"}
    Length = 4
    Limits = {1, 2}
    Faults = {"crash", "client", "fork"}
    MaxFaults = 1
INVARIANTS
    TypeOK
    FileReceived
    PeersReceived
PROPERTY
    LookupReturns
CHECK_DEADLOCK FALSE
