CONSTANTS
    Workers = {w1, w2}
    Main = main
    Sockets = {s1, s2, s3}
    Nodes = {n1, n2, n3}
    SignalTargets = {main, w1, w2}
    NULL = NULL
SYMMETRY PoolSymmetry
SPECIFICATION Spec
INVARIANTS TypeOK ListIntact NodesAccounted OneOwner ListGuarded LockDiscipline PointerDiscipline NoLostWakeup
PROPERTIES HandoffSpec QuietAfterDestroy
CHECK_DEADLOCK FALSE
