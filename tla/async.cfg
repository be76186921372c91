SPECIFICATION FairSpec
CONSTANTS
    a = a
    b = b
    Keys = {a, b}
    HashOf <- MCHashOf
    DICT_HT_INITIAL_SIZE = 1
    Scripts <- MCScripts
    MaxMessages = 1
    MaxParts = 1
    MaxUpsets = 1
INVARIANTS
    TypeOK
    RepliesMatch
    NoneForgotten
    SubscriptionsAgree
    NeverAborts
PROPERTY
    CallsSettle
