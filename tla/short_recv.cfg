SPECIFICATION Spec
CONSTANTS
    Clients = {k1}
    Cids = {c1}
    Peers = {p1}
    Held = {"whole"}
    Length = 4
    Limits = {2}
    Faults = {"short"}
    MaxFaults = 1
INVARIANT
    FileReceived
CHECK_DEADLOCK FALSE
