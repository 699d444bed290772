---------------------------- MODULE LRFUReplacer ----------------------------
(***************************************************************************)
(* LRFUReplacer (src/replacers/lrfu_replacer.cpp): a heap of the resident  *)
(* pages by their score, the sum of their accesses, each worth less the    *)
(* longer ago it was, and a store with the scores of all pages.            *)
(***************************************************************************)
EXTENDS Replacer, LUHeap

CONSTANT One  \* the score of one access, halved as often as there are more

VARIABLE lrfu  \* lu_heap_ and lu_heap_store_

New == [heap |-> NewHeap, store |-> NewHeap]

Hit(key) ==
  /\ InHeap(lrfu.heap, key)
  /\ CountHit
  /\ lrfu' = [heap |-> Add(lrfu.heap, key, One),
              store |-> Add(lrfu.store, key, One)]

\* The page comes back with the score the store kept.
Miss(key) ==
  LET left == IF Size(lrfu.heap) = buffer_size_ THEN Pop(lrfu.heap)
              ELSE lrfu.heap
      added == Add(lrfu.store, key, One)
  IN /\ ~InHeap(lrfu.heap, key)
     /\ CountMiss
     /\ lrfu' = [heap |-> Add(left, key, GetValue(added, key)),
                 store |-> Looked(added, key)]

access(key) == Hit(key) \/ Miss(key)

============================================================================
