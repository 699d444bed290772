------------------------------ MODULE LinkList ------------------------------
(***************************************************************************)
(* LinkList (src/util/link_list.cpp), and LRUList (src/util/lru_list.cpp)  *)
(* on top of it: nodes with a pointer each way, and a table from a key to  *)
(* its node.  The sequence of LRUList.tla is what this stands for.         *)
(*                                                                         *)
(* A node has an address no other node ever had, so that a pointer to a    *)
(* node that was deleted is never mistaken for one to a new node: ub says  *)
(* that one was followed, or that nullptr was.                             *)
(***************************************************************************)
EXTENDS StdContainers

nullptr == 0

\* made: the nodes made so far, which gives the next one its address
NewList == [head |-> nullptr, tail |-> nullptr, size |-> 0,
            node |-> NoEntries, made |-> 0, u_map |-> NoEntries, ub |-> FALSE]

Live(l, n) == n \in DOMAIN l.node

\* node->pred = p and node->next = p
SetPred(l, n, p) ==
  IF Live(l, n) THEN [l EXCEPT !.node[n].pred = p] ELSE [l EXCEPT !.ub = TRUE]
SetNext(l, n, p) ==
  IF Live(l, n) THEN [l EXCEPT !.node[n].next = p] ELSE [l EXCEPT !.ub = TRUE]

-----------------------------------------------------------------------------
(* LinkList *)

push_front(l, key) ==
  LET n == l.made + 1
      t == IF l.head = nullptr THEN l ELSE SetPred(l, l.head, n)
  IN [t EXCEPT !.node = Put(@, n, [key |-> key, pred |-> nullptr,
                                   next |-> l.head]),
               !.tail = IF @ = nullptr THEN n ELSE @,
               !.made = n, !.head = n, !.size = @ + 1]

push_back(l, key) ==
  LET n == l.made + 1
      t == IF l.tail = nullptr THEN l ELSE SetNext(l, l.tail, n)
  IN [t EXCEPT !.node = Put(@, n, [key |-> key, pred |-> l.tail,
                                   next |-> nullptr]),
               !.head = IF @ = nullptr THEN n ELSE @,
               !.made = n, !.tail = n, !.size = @ + 1]

remove(l, n) ==
  LET x == l.node[n]
      s == [l EXCEPT !.head = IF @ = n THEN x.next ELSE @,
                     !.tail = IF @ = n THEN x.pred ELSE @]
      t == IF x.pred = nullptr THEN s ELSE SetNext(s, x.pred, x.next)
      u == IF x.next = nullptr THEN t ELSE SetPred(t, x.next, x.pred)
  IN IF ~Live(l, n) THEN [l EXCEPT !.ub = TRUE]
     ELSE [u EXCEPT !.node = Drop(@, n), !.size = @ - 1]

pop_front(l) == remove(l, l.head)

-----------------------------------------------------------------------------
(* LRUList *)

Count(l, key) == key \in DOMAIN l.u_map

\* remove(key), for a key of the table
RemoveKey(l, key) ==
  [remove(l, l.u_map[key]) EXCEPT !.u_map = Drop(@, key)]

\* A key that is there moves to the front.
PushFront(l, key) ==
  LET t == push_front(IF Count(l, key) THEN RemoveKey(l, key) ELSE l, key)
  IN [t EXCEPT !.u_map = Put(@, key, t.head)]

PopBack(l) ==
  IF ~Live(l, l.tail) THEN [l EXCEPT !.ub = TRUE]
  ELSE remove([l EXCEPT !.u_map = Drop(@, l.node[l.tail].key)], l.tail)

-----------------------------------------------------------------------------
\* The nodes met along one of the pointers, size of them at most
Walk(l, first, dir) ==
  LET f[i \in 0 .. l.size] ==
        IF i = 0 THEN <<>>
        ELSE LET s == f[i - 1]
                 n == IF i = 1 THEN first
                      ELSE IF s = <<>> THEN nullptr ELSE l.node[Last(s)][dir]
             IN IF Live(l, n) THEN Append(s, n) ELSE s
  IN f[l.size]
Forward(l) == Walk(l, l.head, "next")
Backward(l) == Walk(l, l.tail, "pred")

\* The keys in order: the sequence of LRUList.tla
Sequence(l) ==
  LET nodes == Forward(l) IN [i \in DOMAIN nodes |-> l.node[nodes[i]].key]

\* No dangling pointer is followed; both ways round the list has the same
\* size nodes, which are all there are, and ends at each end.
Chained(l) ==
  LET nodes == Forward(l)
  IN /\ ~l.ub
     /\ Len(nodes) = l.size /\ Lists(nodes, DOMAIN l.node)
     /\ Backward(l) = Reverse(nodes)
     /\ l.head = nullptr <=> l.size = 0
     /\ l.tail = nullptr <=> l.size = 0
     /\ l.size > 0 => /\ l.node[l.head].pred = nullptr
                      /\ l.node[l.tail].next = nullptr

\* Moreover the table has the node of every key.
Linked(l) ==
  /\ Chained(l)
  /\ l.u_map = [k \in ToSet(Sequence(l)) |->
                  CHOOSE n \in DOMAIN l.node : l.node[n].key = k]
  /\ IsInjective(Sequence(l))

============================================================================
