---------------------------- MODULE MCThreadPool ----------------------------
(* Instances of ThreadPool for TLC; the sizes are in the configurations. *)
EXTENDS ThreadPool, TLC

PoolSymmetry ==
    Permutations(Workers) \cup Permutations(Sockets) \cup Permutations(Nodes)

=============================================================================
