---------------------------- MODULE LIRSReplacer ----------------------------
(***************************************************************************)
(* LIRSReplacer (include/replacers/lirs_replacer.h): a stack s_ of the     *)
(* pages accessed lately, resident or not, a queue q_ of the resident ones *)
(* that leave next (HIR), and a list hirs_ of the pages of s_ that are not *)
(* LIR.  map_ finds the node of a page; NHIR pages are not resident.       *)
(*                                                                         *)
(* A page has one node at most, so that a pointer is the page itself; an   *)
(* iterator is end() when the page is not in the list.                     *)
(***************************************************************************)
EXTENDS Replacer, LRUList

CONSTANT limit_ratio_

VARIABLE lirs  \* s_, q_, hirs_, the types in map_, the valid, used_size_, ub

q_size_ == Max({1, buffer_size_ \div 100})
s_size_ == buffer_size_ - q_size_

\* ub: an iterator that is not in its list was erased, a node that is gone was
\* read, an empty list was asked for its last node, or an assertion failed
New == [s_ |-> <<>>, q_ |-> <<>>, hirs_ |-> <<>>, type |-> NoEntries,
        valid |-> {}, used_size_ |-> 0, ub |-> FALSE]

Fail(l) == [l EXCEPT !.ub = TRUE]

-----------------------------------------------------------------------------
(* The lists *)

\* list.erase(the iterator of p), and list.push_front(p)
Del(l, list, p) ==
  IF Has(l[list], p) THEN [l EXCEPT ![list] = Erase(@, p)] ELSE Fail(l)
Ins(l, list, p) == [l EXCEPT ![list] = <<p>> \o @]

\* A stack at its limit forgets the page longest in hirs_, if not resident.
PushS(l, p) ==
  LET t == Ins(l, "s_", p)
      n == Last(t.hirs_)
  IN IF Len(t.s_) < limit_ratio_ * s_size_ THEN t
     ELSE IF t.hirs_ = <<>> \/ n \notin DOMAIN t.type THEN Fail(t)
     ELSE IF t.type[n] # "NHIR" THEN t
     ELSE [Del(Del(t, "s_", n), "hirs_", n) EXCEPT !.type = Drop(@, n)]

PushQ(l, p) == Ins(l, "q_", p)

MoveTopS(l, p) == PushS(Del(l, "s_", p), p)
MoveTopQ(l, p) == PushQ(Del(l, "q_", p), p)

\* The last page of the queue leaves the buffer.
FreeOne(l) ==
  LET p == Last(l.q_)
      t == [l EXCEPT !.q_ = Front(@), !.valid = @ \ {p},
                     !.used_size_ = IF p \in l.valid THEN @ - 1 ELSE @]
  IN IF l.q_ = <<>> THEN Fail(l)
     ELSE IF Has(t.s_, p) THEN [t EXCEPT !.type[p] = "NHIR"]
     ELSE [t EXCEPT !.type = Drop(@, p)]

\* The last page of the stack, if LIR, becomes HIR.
Bottom(l) ==
  LET p == Last(l.s_)
      t == [Ins(l, "hirs_", p) EXCEPT !.type[p] = "HIR"]
  IN IF l.s_ = <<>> THEN Fail(l)
     ELSE IF l.type[p] # "LIR" THEN l
     ELSE PushQ(IF Has(t.q_, p) THEN Del(t, "q_", p) ELSE t, p)

\* The stack loses what is under its last LIR page; a page that is not
\* resident stays in map_.
PruneLast(l) ==
  LET p == Last(l.s_)
  IN IF l.ub \/ l.s_ = <<>> THEN l
     ELSE IF l.type[p] = "LIR" THEN l
     ELSE Del([l EXCEPT !.s_ = Front(@)], "hirs_", p)

Pruning(l) ==
  LET loop[i \in 0 .. Len(l.s_)] ==
        IF i = 0 THEN l ELSE PruneLast(loop[i - 1])
  IN loop[Len(l.s_)]

\* An operation that failed stops there.
Result(l) == lirs' = IF l.ub THEN Fail(lirs) ELSE l

-----------------------------------------------------------------------------
(* access *)

HitLIR(p) ==
  /\ p \in DOMAIN lirs.type /\ lirs.type[p] = "LIR"
  /\ CountHit
  /\ Result(Pruning(MoveTopS(lirs, p)))

\* A resident HIR page of the stack changes places with its last LIR page.
HitHIRInStack(p) ==
  /\ p \in DOMAIN lirs.type /\ lirs.type[p] = "HIR" /\ Has(lirs.s_, p)
  /\ CountHit
  /\ LET t == MoveTopS([lirs EXCEPT !.type[p] = "LIR"], p)
     IN Result(Pruning(Del(Bottom(Del(t, "q_", p)), "hirs_", p)))

HitHIR(p) ==
  /\ p \in DOMAIN lirs.type /\ lirs.type[p] = "HIR" /\ ~Has(lirs.s_, p)
  /\ CountHit
  /\ Result(Pruning(Ins(MoveTopQ(PushS(lirs, p), p), "hirs_", p)))

\* used_size_ counts the page before FreeOne makes room for it.
Back(p) == FreeOne([lirs EXCEPT !.used_size_ = @ + 1])

MissNHIRInStack(p) ==
  /\ p \in DOMAIN lirs.type /\ lirs.type[p] = "NHIR" /\ Has(lirs.s_, p)
  /\ CountMiss
  /\ LET t == [Back(p) EXCEPT !.valid = @ \cup {p}, !.type[p] = "LIR"]
     IN Result(Pruning(Del(Bottom(MoveTopS(t, p)), "hirs_", p)))

\* It had been pruned from the stack.
MissNHIR(p) ==
  /\ p \in DOMAIN lirs.type /\ lirs.type[p] = "NHIR" /\ ~Has(lirs.s_, p)
  /\ CountMiss
  /\ LET t == [Back(p) EXCEPT !.valid = @ \cup {p}, !.type[p] = "HIR"]
     IN Result(Pruning(Ins(PushQ(PushS(t, p), p), "hirs_", p)))

\* A page without a node is LIR while the stack has room for LIR pages.
MissNew(p) ==
  LET freed == IF lirs.used_size_ >= buffer_size_ \/ Len(lirs.q_) >= q_size_
               THEN FreeOne(lirs) ELSE lirs
      t == [PushS([freed EXCEPT !.type = Put(@, p, "LIR")], p)
              EXCEPT !.valid = @ \cup {p}, !.used_size_ = @ + 1]
  IN /\ p \notin DOMAIN lirs.type
     /\ CountMiss
     /\ Result(IF t.used_size_ > s_size_
               THEN Ins(PushQ([t EXCEPT !.type[p] = "HIR"], p), "hirs_", p)
               ELSE t)

\* Nothing is said after undefined behaviour.
access(p) ==
  /\ ~lirs.ub
  /\ \/ HitLIR(p) \/ HitHIRInStack(p) \/ HitHIR(p)
     \/ MissNHIRInStack(p) \/ MissNHIR(p) \/ MissNew(p)

-----------------------------------------------------------------------------
OfType(l, T) == { p \in DOMAIN l.type : l.type[p] \in T }

\* With room for a LIR page, no node that is gone is touched; the resident
\* pages are the LIR and the HIR ones, no more of each than there is room for;
\* the queue has the HIR ones, hirs_ those of the stack that are not LIR, and
\* a stack that is not empty ends in a LIR page.
Sound ==
  /\ lirs.ub => s_size_ = 0
  /\ ~lirs.ub =>
       /\ lirs.valid = OfType(lirs, {"LIR", "HIR"})
       /\ lirs.used_size_ = Cardinality(lirs.valid)
       /\ Cardinality(OfType(lirs, {"LIR"})) <= s_size_
       /\ Len(lirs.q_) <= q_size_
       /\ Lists(lirs.q_, OfType(lirs, {"HIR"}))
       /\ IsInjective(lirs.s_)
       /\ OfType(lirs, {"LIR"}) \subseteq ToSet(lirs.s_)
       /\ Lists(lirs.hirs_, ToSet(lirs.s_) \ OfType(lirs, {"LIR"}))
       /\ lirs.s_ # <<>> => lirs.type[Last(lirs.s_)] = "LIR"

============================================================================
