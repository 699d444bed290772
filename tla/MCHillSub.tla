----------------------------- MODULE MCHillSub -----------------------------
(* Instances of HillSubSpec for TLC *)
EXTENDS HillSubSpec, TLC

Symmetry == Permutations(Keys)

============================================================================
