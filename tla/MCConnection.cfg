CONSTANTS
    Requests <- ProperRequests
    MaxRequests = 2
    MaxConnections = 2
    BufferSize = 5
    Manners = {TRUE, FALSE}
    Protocols = {"tls", "clear"}
    MayReset = TRUE
SPECIFICATION FairSpec
INVARIANTS TypeOK NothingKept AnswersMatch SurplusEnds
PROPERTIES EndsForCause WorkerReturns
