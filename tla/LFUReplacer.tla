---------------------------- MODULE LFUReplacer ----------------------------
(***************************************************************************)
(* LFUReplacer (src/replacers/lfu_replacer.cpp): the resident pages in a   *)
(* set ordered by how often, then how lately they were accessed, and a     *)
(* table from a page to its place in the set.                              *)
(***************************************************************************)
EXTENDS Replacer

VARIABLE lfu  \* buffer_set_ and u_map_

New == [buffer_set_ |-> {}, u_map_ |-> NoEntries]

\* Status::operator<; no two entries have the same time stamp.
Before(a, b) ==
  a.freq < b.freq \/ (a.freq = b.freq /\ a.timestamp < b.timestamp)

Begin(S) == CHOOSE a \in S : \A b \in S \ {a} : Before(a, b)

EraseItem(s, item) ==
  [buffer_set_ |-> s.buffer_set_ \ {item}, u_map_ |-> Drop(s.u_map_, item.key)]

Insert(s, f, k) ==
  LET item == [freq |-> f, timestamp |-> ts + 1, key |-> k]
  IN [buffer_set_ |-> s.buffer_set_ \cup {item}, u_map_ |-> Put(s.u_map_, k, item)]

Hit(key) ==
  /\ key \in DOMAIN lfu.u_map_
  /\ CountHit
  /\ LET item == lfu.u_map_[key]
     IN lfu' = Insert(EraseItem(lfu, item), item.freq + 1, key)

Miss(key) ==
  /\ key \notin DOMAIN lfu.u_map_
  /\ CountMiss
  /\ lfu' = Insert(IF Cardinality(lfu.buffer_set_) >= buffer_size_
                   THEN EraseItem(lfu, Begin(lfu.buffer_set_)) ELSE lfu, 1, key)

access(key) == Hit(key) \/ Miss(key)

============================================================================
