CONSTANTS
    NULL = NULL
    IvSizes = {0, 2}
    KeySizes = {3}
    MacKeySizes = {1, 4}
    HashSize = 2
    HashOutcomes = {TRUE, FALSE}
    MaxExchanges = 2
SPECIFICATION Spec
INVARIANTS
    TypeOK
    KeysAgree
    KeysAreOfRfc4253
    HaltsOnlyForTheHash
CHECK_DEADLOCK FALSE
