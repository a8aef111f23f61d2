CONSTANTS
    Workers = {w1, w2}
    Main = main
    index = index
    other = other
    hidden = hidden
    Paths = {index}
    UnsafePaths = {}
    BootList <- OneFile
    UseCache = TRUE
    MaxEntries = 32
    MaxFile = 1
    Sizes = {1}
    Updates = {"replace", "remove"}
    Delays = {1}
    MaxUpdates = 1
    Inodes = {i1, i2}
    Buffers = {b1, b2}
    PageLength <- PageLengths
    NULL = NULL
SPECIFICATION FairSpec
PROPERTIES RequestsAnswered DestroyEnds
