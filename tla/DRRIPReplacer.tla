--------------------------- MODULE DRRIPReplacer ---------------------------
(***************************************************************************)
(* DRRIPReplacer (src/replacers/drrip_replacer.cpp): SRRIP, but for a new  *)
(* page that rand() may put one set lower.                                 *)
(***************************************************************************)
EXTENDS SRRIPReplacer

dynamic_access(key) ==
  Hit(key) \/ \E d \in {1, 2} : MissAt(key, evict_bitmap_ - d)

============================================================================
