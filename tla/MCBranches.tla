------------------------------ MODULE MCBranches ------------------------------
(* Instances of Branches for TLC. *)
EXTENDS Branches, TLC
CONSTANTS a1, a2, x, v
ActorSymmetry == Permutations(Actors)
===============================================================================
