----------------------------- MODULE MCPlanning ------------------------------
(* Model checking of Planning.                                             *)
EXTENDS Planning, TLC

TabSymmetry == Permutations(Tabs)
=============================================================================
