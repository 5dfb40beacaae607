------------------------------ MODULE MCDatasets ------------------------------
(* Two static variables and one local, a pool that holds two blocks and a bit, *)
(* a registry that fills up.                                                 *)
EXTENDS Datasets, TLC

Statics == Permutations(Vars \ Locals)
==============================================================================
