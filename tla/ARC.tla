-------------------------------- MODULE ARC --------------------------------
(***************************************************************************)
(* ARCReplacer (src/replacers/arc_replacer.cpp): pages seen once lately    *)
(* (t1) and more than once (t2), with a ghost list of the last evictions   *)
(* from each (b1, b2) and a target size p_ for t1 that a hit in a ghost    *)
(* moves.  p_ is a double: here it is counted in units of 1 / Unit, Unit a *)
(* multiple of every size a ghost can have, so that no ratio is rounded.   *)
(*                                                                         *)
(* hit_count_, miss_count_ and ts only feed stats(); they are left out.    *)
(***************************************************************************)
EXTENDS LRUList

CONSTANTS Keys, buffer_size, Unit

ASSUME ARCAssumption ==
  /\ buffer_size \in Nat \ {0}
  /\ Unit \in Nat \ {0}
  /\ \A n \in 1 .. buffer_size : Unit % n = 0
  /\ IsFiniteSet(Keys)

VARIABLE arc  \* the lists t1, t2, b1, b2, the target p_, and ub

\* ub: a key was popped from an empty list
Init == arc = [t1 |-> <<>>, t2 |-> <<>>, b1 |-> <<>>, b2 |-> <<>>,
               p_ |-> 0, ub |-> FALSE]

-----------------------------------------------------------------------------
(* replace_ *)

\* Whether the page to evict comes from t1: (int32_t)p_ drops the fraction.
FromT1(s, key) ==
  LET p == s.p_ \div Unit
  IN /\ s.t1 # <<>>
     /\ Len(s.t1) > p \/ (Has(s.b1, key) /\ Len(s.t1) = p)

EvictT1(s) ==
  [s EXCEPT !.t1 = PopBack(@), !.b1 = PushFront(@, Last(s.t1))]

EvictT2(s) ==
  IF s.t2 = <<>> THEN [s EXCEPT !.ub = TRUE]
  ELSE [s EXCEPT !.t2 = PopBack(@), !.b2 = PushFront(@, Last(s.t2))]

replace_(s, key) == IF FromT1(s, key) THEN EvictT1(s) ELSE EvictT2(s)

-----------------------------------------------------------------------------
(* access, case by case *)

InT2(s, key) == [s EXCEPT !.t2 = PushFront(@, key)]

\* case#1
Hit(key) ==
  \/ /\ Has(arc.t1, key)
     /\ arc' = InT2([arc EXCEPT !.t1 = RemoveKey(@, key)], key)
  \/ /\ Has(arc.t2, key)
     /\ arc' = InT2([arc EXCEPT !.t2 = RemoveKey(@, key)], key)

Miss(key) == ~Has(arc.t1, key) /\ ~Has(arc.t2, key)

\* How far a hit in ghost b, the other ghost being c, moves p_
Step(b, c) == IF Len(b) >= Len(c) THEN Unit ELSE (Len(c) * Unit) \div Len(b)

\* mutants: p_ exceeds the buffer; the page stays in the ghost
HitB1NoCap(key) ==
  LET p == arc.p_ + Step(arc.b1, arc.b2)
      s == replace_([arc EXCEPT !.p_ = p], key)
  IN /\ Miss(key)
     /\ Has(arc.b1, key)
     /\ arc' = InT2([s EXCEPT !.b1 = RemoveKey(@, key)], key)
HitB1Stays(key) ==
  LET p == Min({arc.p_ + Step(arc.b1, arc.b2), buffer_size * Unit})
      s == replace_([arc EXCEPT !.p_ = p], key)
  IN /\ Miss(key)
     /\ Has(arc.b1, key)
     /\ arc' = InT2(s, key)

\* case#2: t1 should have been longer.
HitB1(key) ==
  LET p == Min({arc.p_ + Step(arc.b1, arc.b2), buffer_size * Unit})
      s == replace_([arc EXCEPT !.p_ = p], key)
  IN /\ Miss(key)
     /\ Has(arc.b1, key)
     /\ arc' = InT2([s EXCEPT !.b1 = RemoveKey(@, key)], key)

\* mutant: p_ is left as it is
HitB2Keeps(key) ==
  LET s == replace_(arc, key)
  IN /\ Miss(key)
     /\ ~Has(arc.b1, key) /\ Has(arc.b2, key)
     /\ arc' = InT2([s EXCEPT !.b2 = RemoveKey(@, key)], key)

\* case#3: t2 should have been longer.
HitB2(key) ==
  LET p == Max({arc.p_ - Step(arc.b2, arc.b1), 0})
      s == replace_([arc EXCEPT !.p_ = p], key)
  IN /\ Miss(key)
     /\ ~Has(arc.b1, key) /\ Has(arc.b2, key)
     /\ arc' = InT2([s EXCEPT !.b2 = RemoveKey(@, key)], key)

\* case#4: the page is in no list.
Unknown(key) == Miss(key) /\ ~Has(arc.b1, key) /\ ~Has(arc.b2, key)

Total(s) == Len(s.t1) + Len(s.t2) + Len(s.b1) + Len(s.b2)

InT1(s, key) == [s EXCEPT !.t1 = PushFront(@, key)]

\* mutants: the ghost b1 does not make room; the cache does not
NewFullL1KeepsB1(key) ==
  /\ Unknown(key)
  /\ Len(arc.t1) + Len(arc.b1) = buffer_size
  /\ arc' = InT1(IF Len(arc.t1) < buffer_size THEN replace_(arc, key)
                 ELSE [arc EXCEPT !.t1 = PopBack(@)], key)
NewFullL1NoReplace(key) ==
  /\ Unknown(key)
  /\ Len(arc.t1) + Len(arc.b1) = buffer_size
  /\ arc' = InT1(IF Len(arc.t1) < buffer_size
                 THEN [arc EXCEPT !.b1 = PopBack(@)]
                 ELSE [arc EXCEPT !.t1 = PopBack(@)], key)

\* t1 and its ghost hold buffer_size pages.
NewFullL1(key) ==
  /\ Unknown(key)
  /\ Len(arc.t1) + Len(arc.b1) = buffer_size
  /\ arc' = InT1(IF Len(arc.t1) < buffer_size
                 THEN replace_([arc EXCEPT !.b1 = PopBack(@)], key)
                 ELSE [arc EXCEPT !.t1 = PopBack(@)], key)

\* They do not, but the cache is full.
NewFull(key) ==
  /\ Unknown(key)
  /\ Len(arc.t1) + Len(arc.b1) # buffer_size
  /\ Total(arc) >= buffer_size
  /\ arc' = InT1(replace_(IF Total(arc) = 2 * buffer_size
                          THEN [arc EXCEPT !.b2 = PopBack(@)] ELSE arc, key),
                 key)

NewRoom(key) ==
  /\ Unknown(key)
  /\ Len(arc.t1) + Len(arc.b1) # buffer_size
  /\ Total(arc) < buffer_size
  /\ arc' = InT1(arc, key)

\* Nothing is said of a program that popped an empty list.
access(key) ==
  /\ ~arc.ub
  /\ \/ Hit(key) \/ HitB1(key) \/ HitB2(key)
     \/ NewFullL1(key) \/ NewFull(key) \/ NewRoom(key)

Next == \E key \in Keys : access(key)

Spec == Init /\ [][Next]_arc

-----------------------------------------------------------------------------
(* Safety *)

Resident == ToSet(arc.t1) \cup ToSet(arc.t2)

\* check_consistency: t1 and t2 fit the buffer, all four lists twice the
\* buffer, and the target is a size, however p_ moved.
Consistent ==
  /\ Len(arc.t1) + Len(arc.t2) <= buffer_size
  /\ Total(arc) <= 2 * buffer_size
  /\ arc.p_ \in 0 .. buffer_size * Unit

\* No page is in two of the lists, or twice in one.
Disjoint == IsInjective(arc.t1 \o arc.t2 \o arc.b1 \o arc.b2)

\* A ghost remembers something only once the buffer is full, and from then
\* on the buffer stays full; t1 and its ghost never exceed the buffer.
Directory ==
  /\ Len(arc.t1) + Len(arc.b1) <= buffer_size
  /\ arc.b1 \o arc.b2 # <<>> => Len(arc.t1) + Len(arc.t2) = buffer_size

\* replace_ never pops an empty list: whenever its test sends it to t2, t2
\* has a page, although no test of the code says so.
PopSafe == ~arc.ub

-----------------------------------------------------------------------------
(* Refinement *)

\* ARC evicts one page, on a miss, from a full buffer.
Cache == INSTANCE DemandCache
           WITH resident <- Resident, Size <- buffer_size, Batch <- 1

Implements == Cache!Spec

============================================================================
