-------------------------------- MODULE MCSession --------------------------------
(* Instances of Session: the names of runs are interchangeable.                *)
EXTENDS Session, TLC

Symmetry == Permutations(Runs) \cup Permutations(Services)
================================================================================
