SPECIFICATION Spec
CONSTANTS
    Chunks = {c1}
    Parents = {f1}
    Links <- MCLinks
    Adders = {}
    Getters = {g1, g2}
    Children = {}
    AddFile <- MCAddFile
    Runs <- OnceEach
    MaxUpsets = 0
    AtRest = {"rotten"}
    MaxInode = 4
    Garbage = Garbage
INVARIANT
    OutputIsPrefix
