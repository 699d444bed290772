---------------------------- MODULE EFSWReplacer ----------------------------
(***************************************************************************)
(* EFSWReplacer (src/replacers/efsw_replacer.cpp): LRFU with one score for *)
(* a hit and another for a miss, which the store is given twice.           *)
(***************************************************************************)
EXTENDS Replacer, LUHeap

CONSTANTS One, hit_score_, miss_score_

VARIABLE efsw  \* luheap_ and luheap_store_

New == [heap |-> NewHeap, store |-> NewHeap]

Hit(key) ==
  /\ InHeap(efsw.heap, key)
  /\ CountHit
  /\ efsw' = [heap |-> Add(efsw.heap, key, hit_score_ * One),
              store |-> Add(efsw.store, key, hit_score_ * One)]

Miss(key) ==
  LET first == Add(efsw.store, key, miss_score_ * One)
      added == Add(first, key, miss_score_ * One)
      left == IF Size(efsw.heap) = buffer_size_ THEN Pop(efsw.heap)
              ELSE efsw.heap
  IN /\ ~InHeap(efsw.heap, key)
     /\ CountMiss
     /\ efsw' = [heap |-> Add(left, key, GetValue(added, key)),
                 store |-> Looked(added, key)]

access(key) == Hit(key) \/ Miss(key)

============================================================================
