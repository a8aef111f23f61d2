CONSTANTS
    Workers = {w1, w2}
    Main = main
    index = index
    other = other
    hidden = hidden
    Paths = {index}
    UnsafePaths = {}
    BootList <- OneFile
    UseCache = TRUE
    MaxEntries = 32
    MaxFile = 1
    Sizes = {1, 2}
    Updates = {"replace"}
    Delays = {1}
    MaxUpdates = 3
    Inodes = {i1, i2}
    Buffers = {b1, b2, b3}
    PageLength <- PageLengths
    NULL = NULL
SYMMETRY ServingSymmetry
SPECIFICATION Spec
INVARIANT AcceptedIsCurrent
