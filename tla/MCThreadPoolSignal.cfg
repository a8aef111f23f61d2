CONSTANTS
    Workers = {w1, w2}
    Main = main
    Sockets = {s1, s2}
    Nodes = {n1, n2}
    SignalTargets = {main}
    NULL = NULL
SPECIFICATION FairSpec
PROPERTY ShutdownCompletes
CHECK_DEADLOCK FALSE
