------------------------------ MODULE LRUList ------------------------------
(***************************************************************************)
(* LRUList (util/lru_list.cpp): a list of distinct keys, most recent first,*)
(* with a table from a key to its node.  Here the list is the sequence of  *)
(* its keys and the table is what the sequence holds.                      *)
(***************************************************************************)
EXTENDS StdContainers

\* count(key)
Has(q, k) == k \in ToSet(q)

\* remove(key), for a key of the list
RemoveKey(q, k) == Erase(q, k)

\* push_front(key): a key that is there moves to the front.
PushFront(q, k) == <<k>> \o (IF Has(q, k) THEN RemoveKey(q, k) ELSE q)

\* pop_back(), for a list that is not empty
PopBack(q) == Front(q)

============================================================================
