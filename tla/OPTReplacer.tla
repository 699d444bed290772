---------------------------- MODULE OPTReplacer ----------------------------
(***************************************************************************)
(* OPTReplacer (src/replacers/opt_replacer.cpp): the offline optimum.  It  *)
(* is given the trace, and evicts the page whose next access is the        *)
(* furthest away.                                                          *)
(*                                                                         *)
(* Entries are compared by their next access only, and all the pages that  *)
(* are never accessed again share one: buffer_set_ keeps the first of      *)
(* them, and u_map_ may point to an entry of another page, or to one that  *)
(* is gone.                                                                *)
(***************************************************************************)
EXTENDS Replacer, LinkList

VARIABLE opt  \* key_access_u_map_, buffer_set_, u_map_ and ub

Never == 2147483647  \* INT32_MAX

\* The list of a page: the places of its accesses, from 0
PlacesOf(access_list, k) ==
  LET list[n \in 0 .. Len(access_list)] ==
        IF n = 0 THEN NewList
        ELSE IF access_list[n] = k THEN push_back(list[n - 1], n - 1)
        ELSE list[n - 1]
  IN list[Len(access_list)]

\* ub: an entry was erased that is not in the set
New(access_list) ==
  [key_access_u_map_ |-> [k \in Keys |-> PlacesOf(access_list, k)],
   buffer_set_ |-> {}, u_map_ |-> NoEntries, ub |-> FALSE]

\* Status::operator<: the set begins with the page needed last.
Begin(S) == CHOOSE a \in S : \A b \in S : a.future >= b.future

\* mutant: the page needed first leaves
EvictEnd(s) ==
  LET item == CHOOSE a \in s.buffer_set_ :
                \A b \in s.buffer_set_ : a.future <= b.future
  IN [s EXCEPT !.buffer_set_ = @ \ {item}, !.u_map_ = Drop(@, item.key)]

EvictBegin(s) ==
  LET item == Begin(s.buffer_set_)
  IN [s EXCEPT !.buffer_set_ = @ \ {item}, !.u_map_ = Drop(@, item.key)]

\* The place of the next access of a page
Future(s, k) ==
  LET uses == s.key_access_u_map_[k]
  IN IF uses.size = 0 THEN Never ELSE uses.node[uses.head].key

\* insert() yields the entry that compares equal, if there is one.
Inserted(s, k) ==
  LET f == Future(s, k)
      same == { e \in s.buffer_set_ : e.future = f }
  IN IF same = {} THEN [future |-> f, key |-> k] ELSE CHOOSE e \in same : TRUE

Insert(s, k) ==
  [s EXCEPT !.buffer_set_ = @ \cup {Inserted(s, k)},
            !.u_map_ = Put(@, k, Inserted(s, k))]

Popped(k) == [opt EXCEPT !.key_access_u_map_[k] = pop_front(@)]

Hit(key) ==
  LET item == opt.u_map_[key]
  IN /\ key \in DOMAIN opt.u_map_
     /\ CountHit
     /\ opt' = IF item \in opt.buffer_set_
               THEN Insert([Popped(key) EXCEPT !.buffer_set_ = @ \ {item}], key)
               ELSE [opt EXCEPT !.ub = TRUE]

Miss(key) ==
  /\ key \notin DOMAIN opt.u_map_
  /\ CountMiss
  /\ opt' = Insert(IF Cardinality(opt.buffer_set_) >= buffer_size_
                   THEN EvictBegin(Popped(key)) ELSE Popped(key), key)

access(key) == ~opt.ub /\ (Hit(key) \/ Miss(key))

\* The places of the accesses of a page that are still to come
ToCome(k) == Sequence(opt.key_access_u_map_[k])

\* A page that will be accessed again has an entry of its own, at the place
\* of that access, wherever u_map_ points for the others.
Sound ==
  /\ ~opt.ub /\ \A k \in Keys : Chained(opt.key_access_u_map_[k])
  /\ Cardinality(opt.buffer_set_) <= buffer_size_
  /\ \A k \in DOMAIN opt.u_map_ :
       ToCome(k) # <<>> =>
         /\ opt.u_map_[k] = [future |-> Head(ToCome(k)), key |-> k]
         /\ opt.u_map_[k] \in opt.buffer_set_

============================================================================
