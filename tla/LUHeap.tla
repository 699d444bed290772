------------------------------- MODULE LUHeap -------------------------------
(***************************************************************************)
(* LUHeap (src/util/lazy_update_heap.cpp): a binary heap of values that    *)
(* decay with every addition, each brought up to date only when it is      *)
(* looked at.  heap_ counts from 0 in the code; a place here is the code's.*)
(*                                                                         *)
(* decay_ratio_ is 1/2 and values are whole multiples of 1/One, so that no *)
(* halving is rounded.  ts_ is not initialised in the code; only its       *)
(* differences are used, so it starts at 0 here.  Set has no caller.       *)
(***************************************************************************)
EXTENDS StdContainers

NewHeap == [heap_ |-> <<>>, index_ |-> NoEntries, ts_ |-> 0]

Size(h) == Len(h.heap_)
InHeap(h, key) == key \in DOMAIN h.index_
Entry(h, i) == h.heap_[i + 1]

\* LUHeapEntry::operator<
Less(a, b) ==
  IF a.value # b.value THEN a.value < b.value
  ELSE a.ts_last_access < b.ts_last_access

\* An entry's value as of now
ValueNow(h, i) ==
  Entry(h, i).value \div 2^(h.ts_ - Entry(h, i).ts_last_update)

update_value(h, i) ==
  IF i >= Size(h) THEN h
  ELSE [h EXCEPT !.heap_[i + 1] = [@ EXCEPT !.value = ValueNow(h, i),
                                            !.ts_last_update = h.ts_]]

exchange(h, i, j) ==
  LET a == Entry(h, i)  b == Entry(h, j)
  IN [h EXCEPT !.heap_[i + 1] = b, !.heap_[j + 1] = a,
               !.index_[a.key] = h.index_[b.key],
               !.index_[b.key] = h.index_[a.key]]

\* One call of heapify_up, for the entry at place s.at of the heap s.h: the
\* next one is for its father, if they change places, or else for the root.
\* get_father: the sons of i are 2i + 1 and 2i + 2.
Up(s) ==
  LET father == s.at \div 2
      t == update_value(s.h, father)
  IN IF s.at = 0 THEN s
     ELSE IF Less(Entry(t, s.at), Entry(t, father))
          THEN [h |-> exchange(t, s.at, father), at |-> father]
          ELSE [h |-> t, at |-> 0]

heapify_up(h, i) ==
  LET calls[n \in 0 .. Size(h)] ==
        IF n = 0 THEN [h |-> h, at |-> i] ELSE Up(calls[n - 1])
  IN calls[Size(h)].h

\* get_smaller_son, for a place that has one
SmallerSon(h, i) ==
  IF 2 * i + 2 >= Size(h) \/ Less(Entry(h, 2 * i + 1), Entry(h, 2 * i + 2))
  THEN 2 * i + 1 ELSE 2 * i + 2

\* One call of heapify_down, as for Up: a leaf stays where it is.
Down(s) ==
  LET t == update_value(update_value(s.h, 2 * s.at + 1), 2 * s.at + 2)
      son == SmallerSon(t, s.at)
  IN IF 2 * s.at + 1 >= Size(s.h) THEN s
     ELSE IF Less(Entry(t, son), Entry(t, s.at))
          THEN [h |-> exchange(t, s.at, son), at |-> son]
          ELSE [h |-> t, at |-> Size(t)]

heapify_down(h, i) ==
  LET calls[n \in 0 .. Size(h)] ==
        IF n = 0 THEN [h |-> h, at |-> i] ELSE Down(calls[n - 1])
  IN calls[Size(h)].h

Push(h, k, v) ==
  LET now == h.ts_ + 1
      e == [key |-> k, value |-> v, ts_last_access |-> now,
            ts_last_update |-> now]
  IN heapify_up([heap_ |-> Append(h.heap_, e),
                 index_ |-> Put(h.index_, k, Size(h)), ts_ |-> now], Size(h))

Raised(h, i, v) ==
  LET e == [Entry(h, i) EXCEPT !.value = @ + v, !.ts_last_access = h.ts_]
  IN [h EXCEPT !.heap_[i + 1] = e]

\* mutant: the value is added without bringing the old one up to date
AddStale(h, k, v) ==
  IF ~InHeap(h, k) THEN Push(h, k, v)
  ELSE LET i == h.index_[k]
           t == [h EXCEPT !.ts_ = @ + 1]
           s == Raised(t, i, v)
       IN IF v >= 0 THEN heapify_down(s, i) ELSE heapify_up(s, i)

Add(h, k, v) ==
  IF ~InHeap(h, k) THEN Push(h, k, v)
  ELSE LET i == h.index_[k]
           t == update_value([h EXCEPT !.ts_ = @ + 1], i)
           s == Raised(t, i, v)
       IN IF v >= 0 THEN heapify_down(s, i) ELSE heapify_up(s, i)

\* The root leaves, and the last entry takes its place as it is.
Pop(h) ==
  LET t == exchange(h, 0, Size(h) - 1)
      k == Last(t.heap_).key
  IN heapify_down([t EXCEPT !.heap_ = Front(@), !.index_ = Drop(@, k)], 0)

\* GetValue brings the entry up to date.
Looked(h, k) == update_value(h, h.index_[k])
GetValue(h, k) == ValueNow(h, h.index_[k])

\* index_ finds every entry, and nothing else.
Indexed(h) ==
  /\ Cardinality(DOMAIN h.index_) = Size(h)
  /\ \A k \in DOMAIN h.index_ :
       h.index_[k] \in 0 .. Size(h) - 1 /\ Entry(h, h.index_[k]).key = k

============================================================================
