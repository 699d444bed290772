--------------------------- MODULE SRRIPReplacer ---------------------------
(***************************************************************************)
(* SRRIPReplacer (src/replacers/srrip_replacer.cpp): the resident pages in *)
(* 2^m sets by the distance of their next reference as predicted.  When    *)
(* nobody is in the last set, the sets move up by one until somebody is.   *)
(***************************************************************************)
EXTENDS Replacer

CONSTANT m

VARIABLE rrip  \* index_sets_ and the keys of u_map_

evict_bitmap_ == 2^m - 1
Distances == 0 .. evict_bitmap_

New == [index_sets_ |-> [d \in Distances |-> {}], u_map_ |-> {}]

\* The loop that moves the sets up: the last one, which is empty, becomes the
\* first, until the last one has a page.
Aged(sets) ==
  LET up == evict_bitmap_ - Max({ d \in Distances : sets[d] # {} })
  IN [d \in Distances |-> IF d < up THEN {} ELSE sets[d - up]]

\* begin() of the last set is its smallest key.
Evict(s) ==
  LET sets == Aged(s.index_sets_)
      item == Min(sets[evict_bitmap_])
  IN [index_sets_ |-> [sets EXCEPT ![evict_bitmap_] = @ \ {item}],
      u_map_ |-> s.u_map_ \ {item}]

Insert(s, d, key) ==
  [index_sets_ |-> [s.index_sets_ EXCEPT ![d] = @ \cup {key}],
   u_map_ |-> s.u_map_ \cup {key}]

\* The page leaves the first set that has it.
Hit(key) ==
  /\ key \in rrip.u_map_
  /\ CountHit
  /\ LET d == Min({ e \in Distances : key \in rrip.index_sets_[e] })
     IN rrip' = Insert([rrip EXCEPT !.index_sets_[d] = @ \ {key}], 0, key)

MissAt(key, d) ==
  /\ key \notin rrip.u_map_
  /\ CountMiss
  /\ rrip' = Insert(IF Cardinality(rrip.u_map_) >= buffer_size_ THEN Evict(rrip)
                    ELSE rrip, d, key)

access(key) == Hit(key) \/ MissAt(key, evict_bitmap_ - 1)

============================================================================
