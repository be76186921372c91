SPECIFICATION FairSpec
CONSTANTS
    BLOCK_LIMIT = 2
    MAX_LINKS = 4
    Bytes = {0, 201}
    CHUNK = 5
    TOTAL_LEN_LEN = 2
    Lengths = {0, 1, 2, 3, 4, 5, 6, 7, 8, 9}
    Files <- MCFiles
INVARIANTS
    TypeOK
    RoundTrip
    HashesContents
    CidDecodes
PROPERTY
    ShorterRetrievable
