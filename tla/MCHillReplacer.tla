--------------------------- MODULE MCHillReplacer ---------------------------
(* Instances of HillReplacer for TLC *)
EXTENDS HillReplacer, TLC

Symmetry == Permutations(Keys)

\* mru_threshold_ after the constructor when it is given 0
NoMru == -1

============================================================================
