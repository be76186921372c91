SPECIFICATION FairSpec
CONSTANTS
    BLOCK_LIMIT = 2
    MAX_LINKS = 4
    Bytes = {0, 201}
    CHUNK = 5
    TOTAL_LEN_LEN = 2
    Lengths = {8}
    Files <- MCFiles
PROPERTY
    Retrievable
