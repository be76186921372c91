SPECIFICATION FairSpec
CONSTANTS
    Chunks = {c1, c2}
    Parents = {f1}
    Links <- MCLinks
    Adders = {a1}
    Getters = {g1}
    Children = {s1}
    AddFile <- MCAddFile
    Runs <- OnceEach
    MaxUpsets = 1
    AtRest = {"rotten"}
    MaxInode = 4
    Garbage = Garbage
INVARIANTS
    TypeOK
    AddedIntact
    OutputIsPrefix
PROPERTIES
    AddedForgotten
    GetTerminates
