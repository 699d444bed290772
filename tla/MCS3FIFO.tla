------------------------------ MODULE MCS3FIFO ------------------------------
(* Instances of S3FIFO for TLC *)
EXTENDS S3FIFO, TLC

Symmetry == Permutations(Keys) \cup Permutations(Nodes)

============================================================================
