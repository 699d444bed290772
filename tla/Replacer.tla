------------------------------ MODULE Replacer ------------------------------
(***************************************************************************)
(* Replacer (include/replacers/replacer.h), the base of every policy.      *)
(***************************************************************************)
EXTENDS StdContainers

CONSTANT Keys  \* integers, as in the code

VARIABLES
  buffer_size_,
  ts,                     \* the accesses made
  hit_count_, miss_count_

CountHit == hit_count_' = hit_count_ + 1 /\ UNCHANGED miss_count_
CountMiss == miss_count_' = miss_count_ + 1 /\ UNCHANGED hit_count_

============================================================================
