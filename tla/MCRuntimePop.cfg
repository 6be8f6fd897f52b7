SPECIFICATION RuntimeSpec
CONSTANTS
    Parts = {"storage"}
    Vars <- DynOnly
    StoreWords = {0, 1, 2}
    StoreLen = 2
    MapKeys = {1, 2}
    MaxOps = 3
    Funcs <- Callee
    Unknown = 999
    CallWords = {0, 7}
    Addrs <- TwoAddrs
    CallLen = 2
    Garbage = {0}
    W = 4
    MaxExp = 7
    TWO_POWER = 2
    MaxLen = 3
    HeapWords = {1}
    MaxVec = 2
    MaxObjs = 3
    FourWords <- TwoHashes
    Texts <- ShortTexts
    WordLists <- OneTuple
    Arrays <- Literals
INVARIANT PopClears
