SPECIFICATION MCSpec
CONSTANTS
    Null = Null
    Value = {Null, v1, v2}
    Capacity = 3
    KeyPtr <- TestKeys
    Values = {v1, v2}
    HashOf <- TestHash
    TableCapacity = 2
    ListNodes = {n1, n2, n3}
    ListValues = {NoPtr, x}
    NoPtr = NoPtr
    Blocks = {b1, b2, b3, b4}
    NoBlock = NoBlock
    InitialBlocks = 2
    MaxBlocks = 3
    Addresses = {a1, a2, a3}
    NoAddress = NoAddress
    Sizes = {0, 1, 3}
    Word = 4
    HeaderBytes = 1
    ConfigKeys = {k1, k2}
    Texts = {"tiny", "bool"}
    MaxLines = 2
    MaxFileCount = 3
    MaxFileSize = 2
    MaxWaiting = 2
    MaxMessages = 9
    MaxStayed = 2
INVARIANTS
    IndicesAgree
    ChainsExact
    LinksAgree
    NoBlockTwice
    FreeNotLost
    ListHoldsLiveBlocks
    SizesExact
    DebugBooksExact
    ItemsUnique
    LoadedSurvivesSave
    LogKeepsNewest
PROPERTIES
    ImplementsQueue
    ImplementsMap
    ImplementsSequence
SYMMETRY Symmetry
CHECK_DEADLOCK FALSE
