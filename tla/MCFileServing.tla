---------------------------- MODULE MCFileServing ----------------------------
(* Instances of FileServing for TLC; the sizes are in the configurations. *)
EXTENDS FileServing, TLC

CONSTANTS index, other, hidden

OneFile  == <<index>>
TwoFiles == <<index, other>>

\* The pages of 403 and 404 differ in length.
PageLengths == 403 :> 1 @@ 404 :> 2

ServingSymmetry ==
    Permutations(Workers) \cup Permutations(Inodes) \cup Permutations(Buffers)

=============================================================================
