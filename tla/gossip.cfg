SPECIFICATION MCFairSpec
CONSTANTS
    Hosts = {h1, h2, h3}
    Relay = h2
    Holder = h3
    Readers = {h1}
    Nobody = {n1}
    Malformed = {Empty}
    Empty = Empty
    Blocks = 2
    Descriptors = 2
    Typed = {n1, Empty, h2}
    MaxUpsets = 2
INVARIANTS
    TypeOK
    NotFoundIsExhaustive
    FailsForCause
PROPERTY
    FileFound
