SPECIFICATION Spec
CONSTANTS
    Cids = {c1}
    Peers = {p1}
    Names = {"n1", "n2"}
    Child = {s1, s2}
    Getter = {}
    Adder = {}
    Cleaner = {}
    Procs = {s1, s2}
    Conns = {s1, s2}
    Scripts <- MCScripts
    Via <- Shared
INVARIANT
    PeersArePeers
CHECK_DEADLOCK FALSE
