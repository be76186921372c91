SPECIFICATION FairSpec
CONSTANTS
    Limits <- MCLimits
    SDS_MAX_PREALLOC = 16
    DISCARD = 12
    REDIS_READER_MAX_BUF = 8
    STACK = 3
    LLONG_MAX = 127
    INT_MAX = 9
    Commands <- MCCommands
    Answers <- MCAnswers
    Hows <- MCHows
    REDIS_CONNECT_RETRIES = 2
    Descriptors = {3, 4}
    MaxAddrs = 2
    MaxCuts = 1
    MaxCommands = 2
    MaxReconnects = 1
INVARIANTS
    TypeOK
    CommandsArrive
    RepliesInOrder
    NoReplyLost
    DescriptorOwned
    ConnectReports
PROPERTY
    CallReturns
