CONSTANTS
    Workers = {w1, w2}
    Main = main
    Launches <- AllLaunches
    Present <- Certificates
    MaxConnections = 1
    NULL = NULL
SPECIFICATION FairSpec
INVARIANTS TypeOK ServesReady AsConfigured Detached CleanupOnce CrashHasCause
PROPERTY ShutdownEnds
CHECK_DEADLOCK FALSE
