CONSTANTS
    Requests <- OnePost
    MaxRequests = 1
    MaxConnections = 1
    BufferSize = 5
    Manners = {FALSE}
    Protocols = {"tls"}
    MayReset = FALSE
SPECIFICATION Spec
INVARIANT PostReceived
