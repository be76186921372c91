SPECIFICATION FairSpec
CONSTANTS
    Cids = {c1}
    Peers = {p1}
    Names = {"n1", "n2"}
    Child = {s1}
    Getter = {g1}
    Adder = {s1}
    Cleaner = {s1}
    Procs = {s1, g1}
    Conns = {s1, g1}
    Scripts <- MCScripts
    Via <- Private
INVARIANTS
    TypeOK
    PeersArePeers
PROPERTIES
    StoreSpec
    CallReturns
