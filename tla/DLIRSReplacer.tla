--------------------------- MODULE DLIRSReplacer ---------------------------
(***************************************************************************)
(* DLIRSReplacer (include/replacers/dlirs_replacer.h): a stack lirs of the *)
(* pages accessed lately, its HIR pages again in hirs, and the queue q of  *)
(* the resident HIR pages.  Each dictionary has its own copy of an entry.  *)
(* The limits of the two kinds of pages move with the pages that were      *)
(* demoted, or forgotten, and came back.                                   *)
(***************************************************************************)
EXTENDS Replacer, DequeDict

CONSTANT stack_limit_  \* limit_ratio_, as a fraction <<num, den>>

VARIABLE dlirs

\* (int)((double)a / b + 0.5)
Rounded(a, b) == (2 * a + b) \div (2 * b)

\* ub: an assertion of a dictionary failed, an empty one was asked for its
\* first entry, or a ratio had a zero below
New(size) ==
  LET limit == Max({1, Rounded(size, 100)})
  IN [lirs |-> <<>>, hirs |-> <<>>, q |-> <<>>,
      hirs_limit |-> limit, lirs_limit |-> size - limit,
      hirs_count |-> 0, lirs_count |-> 0,
      demoted |-> 0, nonresident |-> 0, ub |-> FALSE]

Fail(l) == [l EXCEPT !.ub = TRUE]

Page(key, lir) ==
  [key |-> key, is_lir |-> lir, is_demoted |-> FALSE, in_cache |-> TRUE]

\* Remove(key) from one of the dictionaries
Del(l, dict, key) ==
  IF Contain(l[dict], key) THEN [l EXCEPT ![dict] = Removed(@, key)]
  ELSE Fail(l)

Forgotten(x) == IF x.in_cache THEN 0 ELSE 1

-----------------------------------------------------------------------------
(* The parts of an access *)

\* The stack loses its first entries up to a LIR page.
Prune(l) ==
  LET first == Min({ i \in DOMAIN l.lirs : l.lirs[i].is_lir }
                     \cup {Len(l.lirs) + 1})
      pruned == { l.lirs[i].key : i \in 1 .. first - 1 }
  IN IF l.ub THEN l
     ELSE IF ~(pruned \subseteq KeysOf(l.hirs)) THEN Fail(l)
     ELSE [l EXCEPT !.lirs = SubSeq(@, first, Len(@)),
                    !.hirs = SelectSeq(@, LAMBDA x : x.key \notin pruned),
                    !.nonresident = @ - Cardinality(
                        { i \in 1 .. first - 1 : ~l.lirs[i].in_cache })]

\* The first page of the stack goes to the queue.
ejectLIR(l) ==
  LET lru == [Head(l.lirs) EXCEPT !.is_lir = FALSE, !.is_demoted = TRUE]
  IN IF l.lirs = <<>> THEN Fail(l)
     ELSE Prune([l EXCEPT !.lirs = Tail(@), !.lirs_count = @ - 1,
                          !.demoted = @ + 1, !.hirs_count = @ + 1,
                          !.q = Set(@, lru)])

\* mutant: the copy in the stack still says that the page is resident
ejectHIRKeepsFlag(l) ==
  LET lru == Head(l.q)
      t == [l EXCEPT !.q = Tail(@), !.hirs_count = @ - 1,
                     !.demoted = IF lru.is_demoted THEN @ - 1 ELSE @]
  IN IF l.q = <<>> THEN Fail(l)
     ELSE IF ~Contain(l.lirs, lru.key) THEN t
     ELSE [t EXCEPT !.nonresident = @ + 1]

\* The first page of the queue leaves the buffer; the stack may remember it.
ejectHIR(l) ==
  LET lru == Head(l.q)
      gone == [lru EXCEPT !.in_cache = FALSE]
      t == [l EXCEPT !.q = Tail(@), !.hirs_count = @ - 1,
                     !.demoted = IF lru.is_demoted THEN @ - 1 ELSE @]
  IN IF l.q = <<>> THEN Fail(l)
     ELSE IF ~Contain(l.lirs, lru.key) THEN t
     ELSE IF ~Contain(l.hirs, lru.key) THEN Fail(t)
     ELSE [t EXCEPT !.nonresident = @ + 1,
                    !.lirs = InplaceUpdate(@, gone),
                    !.hirs = InplaceUpdate(@, gone)]

\* The bodies of the loops, each with its condition. A loop over one of the
\* dictionaries fails once it is empty, and so ends.
LIROver(l) ==
  IF ~l.ub /\ l.lirs_count >= l.lirs_limit THEN ejectLIR(l) ELSE l

HIROver(l) ==
  IF ~l.ub /\ l.hirs_count + l.lirs_count >= buffer_size_
  THEN ejectHIR(l) ELSE l

BufferOver(l) ==
  IF l.ub \/ l.hirs_count + l.lirs_count < buffer_size_ THEN l
  ELSE IF l.lirs_count > l.lirs_limit THEN ejectLIR(l) ELSE ejectHIR(l)

StackOver(l) ==
  LET x == Head(l.hirs)
      t == Del([l EXCEPT !.hirs = Tail(@)], "lirs", x.key)
  IN IF \/ l.ub
        \/ (l.hirs_count + l.lirs_count + l.nonresident) * stack_limit_[2]
             <= stack_limit_[1] * buffer_size_ THEN l
     ELSE IF l.hirs = <<>> THEN Fail(l)
     ELSE [t EXCEPT !.nonresident = @ - Forgotten(x)]

ejectLIRs(l) ==
  LET loop[i \in 0 .. Len(l.lirs) + 1] ==
        IF i = 0 THEN l ELSE LIROver(loop[i - 1])
  IN loop[Len(l.lirs) + 1]

ejectHIRs(l) ==
  LET loop[i \in 0 .. Len(l.q) + 1] ==
        IF i = 0 THEN l ELSE HIROver(loop[i - 1])
  IN loop[Len(l.q) + 1]

\* As a miss does it: the LIR pages over the limit go to the queue before a
\* page leaves it.
MakeRoom(l) ==
  LET rounds == 2 * Len(l.lirs) + Len(l.q) + 1
      loop[i \in 0 .. rounds] ==
        IF i = 0 THEN l ELSE BufferOver(loop[i - 1])
  IN loop[rounds]

\* A stack over its limit forgets its oldest HIR pages.
LimitStack(l) ==
  LET loop[i \in 0 .. Len(l.hirs) + 1] ==
        IF i = 0 THEN l ELSE StackOver(loop[i - 1])
  IN loop[Len(l.hirs) + 1]

\* AdjustSize(true): there were too few HIR pages.
MoreHIR(l) ==
  LET h == Min({buffer_size_ - 1,
                l.hirs_limit + Max({1, Rounded(l.demoted, l.nonresident)})})
  IN IF l.nonresident = 0 THEN Fail(l)
     ELSE [l EXCEPT !.hirs_limit = h, !.lirs_limit = buffer_size_ - h]

\* AdjustSize(false): there were too few LIR pages.
MoreLIR(l) ==
  LET h == Min({buffer_size_ - 1,
                l.lirs_limit + Max({1, Rounded(l.nonresident, l.demoted)})})
  IN IF l.demoted = 0 THEN Fail(l)
     ELSE [l EXCEPT !.lirs_limit = h, !.hirs_limit = buffer_size_ - h]

\* An operation that failed stops there.
Result(l) == dlirs' = IF l.ub THEN Fail(dlirs) ELSE l

-----------------------------------------------------------------------------
(* access *)

hitLIR(key) ==
  LET x == EntryOf(dlirs.lirs, key)
      t == [dlirs EXCEPT !.lirs = Set(@, x)]
  IN /\ Contain(dlirs.lirs, key) /\ x.is_lir
     /\ CountHit
     /\ Result(IF Head(dlirs.lirs).key = key THEN Prune(t) ELSE t)

\* A HIR page of the stack, resident or not, becomes LIR.
hitHIRinLIRS(key) ==
  LET x == EntryOf(dlirs.lirs, key)
      t == Del(Del(dlirs, "lirs", key), "hirs", key)
      u == IF x.in_cache THEN Del([t EXCEPT !.hirs_count = @ - 1], "q", key)
           ELSE [MoreHIR(t) EXCEPT !.nonresident = @ - 1]
      y == [x EXCEPT !.is_lir = TRUE, !.in_cache = TRUE]
  IN /\ Contain(dlirs.lirs, key) /\ ~x.is_lir
     /\ IF x.in_cache THEN CountHit ELSE CountMiss
     /\ Result([ejectHIRs(ejectLIRs(u)) EXCEPT !.lirs = Set(@, y),
                                               !.lirs_count = @ + 1])

hitHIRinQ(key) ==
  LET x == EntryOf(dlirs.q, key)
      t == IF x.is_demoted THEN [MoreLIR(dlirs) EXCEPT !.demoted = @ - 1]
           ELSE dlirs
      y == [x EXCEPT !.is_demoted = FALSE]
  IN /\ ~Contain(dlirs.lirs, key) /\ Contain(dlirs.q, key)
     /\ CountHit
     /\ Result(LimitStack([t EXCEPT !.q = Set(@, y), !.lirs = Set(@, y),
                                    !.hirs = Set(@, y)]))

\* A page nobody remembers is LIR while no page has had to be HIR.
Miss(key) ==
  LET x == Page(key, FALSE)
      t == MakeRoom(dlirs)
  IN /\ ~Contain(dlirs.lirs, key) /\ ~Contain(dlirs.q, key)
     /\ CountMiss
     /\ Result(IF dlirs.lirs_count < dlirs.lirs_limit /\ dlirs.hirs_count = 0
               THEN [dlirs EXCEPT !.lirs = Set(@, Page(key, TRUE)),
                                  !.lirs_count = @ + 1]
               ELSE LimitStack([t EXCEPT !.lirs = Set(@, x),
                                         !.hirs = Set(@, x), !.q = Set(@, x),
                                         !.hirs_count = @ + 1]))

\* Nothing is said after undefined behaviour.
access(key) ==
  ~dlirs.ub /\ (hitLIR(key) \/ hitHIRinLIRS(key) \/ hitHIRinQ(key) \/ Miss(key))

-----------------------------------------------------------------------------
LIR(l) == { x.key : x \in { y \in ToSet(l.lirs) : y.is_lir } }
HIR(l) == KeysOf(l.lirs) \ LIR(l)
Gone(l) == { x.key : x \in { y \in ToSet(l.lirs) : ~y.in_cache } }

resident == LIR(dlirs) \cup KeysOf(dlirs.q)

\* With two pages or more no assertion fails and no ratio divides by zero; the
\* copies of an entry agree; the queue has the resident HIR pages, hirs the HIR
\* pages of the stack; the counters, kept by increments all over the code, count
\* what they say; the limits share out the buffer.  One page is shared out as one
\* HIR page and no LIR page; with no LIR page to spare, ejectLIR takes what is
\* first in the stack.
Sound ==
  buffer_size_ > 1 =>
    /\ ~dlirs.ub
    /\ Dict(dlirs.lirs) /\ Dict(dlirs.hirs) /\ Dict(dlirs.q)
    /\ KeysOf(dlirs.hirs) = HIR(dlirs)
    /\ ToSet(dlirs.hirs) \subseteq ToSet(dlirs.lirs)
    /\ KeysOf(dlirs.q) \cap LIR(dlirs) = {}
    /\ KeysOf(dlirs.q) \cap KeysOf(dlirs.lirs) = HIR(dlirs) \ Gone(dlirs)
    /\ dlirs.lirs_count = Cardinality(LIR(dlirs))
    /\ dlirs.hirs_count = Len(dlirs.q)
    /\ dlirs.nonresident = Cardinality(Gone(dlirs))
    /\ dlirs.demoted = Cardinality({ x \in ToSet(dlirs.q) : x.is_demoted })
    /\ dlirs.hirs_limit + dlirs.lirs_limit = buffer_size_
    /\ dlirs.lirs # <<>> => Head(dlirs.lirs).is_lir

============================================================================
