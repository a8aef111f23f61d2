CONSTANTS
    Workers = {w1, w2}
    Main = main
    Sockets = {s1, s2}
    Nodes = {n1, n2}
    SignalTargets = {}
    NULL = NULL
SPECIFICATION FairSpec
PROPERTIES QueuedIsTaken ShutdownCompletes
