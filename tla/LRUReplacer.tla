---------------------------- MODULE LRUReplacer ----------------------------
(***************************************************************************)
(* LRUReplacer (src/replacers/lru_replacer.cpp): one list, most recent     *)
(* first; the last page leaves.                                            *)
(***************************************************************************)
EXTENDS Replacer, LinkList

VARIABLE lruList_

New == NewList

Hit(key) ==
  /\ Count(lruList_, key)
  /\ CountHit
  /\ lruList_' = PushFront(RemoveKey(lruList_, key), key)

Miss(key) ==
  /\ ~Count(lruList_, key)
  /\ CountMiss
  /\ lruList_' = PushFront(IF lruList_.size = buffer_size_
                           THEN PopBack(lruList_) ELSE lruList_, key)

\* Nothing is said after undefined behaviour.
access(key) == ~lruList_.ub /\ (Hit(key) \/ Miss(key))

\* The pages, most recent first
Pages == Sequence(lruList_)
resident == ToSet(Pages)

Sound == Linked(lruList_)

============================================================================
