------------------------------ MODULE MCFabric ------------------------------
(* The fabric with appliances and workers that only their names tell apart. *)
EXTENDS Fabric, TLC

NameSymmetry == Permutations(Key) \union Permutations(Worker)
=============================================================================
