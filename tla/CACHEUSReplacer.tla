-------------------------- MODULE CACHEUSReplacer --------------------------
(***************************************************************************)
(* CACHEUSReplacer (src/replacers/cacheus_replacer.cpp): resident pages in *)
(* a list s and a queue q, a copy of every one in an order by frequency    *)
(* (lfu), and the pages evicted by each of two experts in a history of its *)
(* own.  An eviction asks both experts and follows one.                    *)
(*                                                                         *)
(* Which one is drawn at random by the weights W, which stay within 0.01   *)
(* and 0.99: either may be.  The weights and the learning rate choose      *)
(* nothing else, and are left out.                                         *)
(***************************************************************************)
EXTENDS Replacer, DequeDict

VARIABLE cacheus

\* (int)((float)a / b + 0.5), for b > 0
Rounded(a, b) == (2 * a + b) \div (2 * b)

\* ub: an assertion of a dictionary failed, or an empty one was asked for its
\* first entry
New(size) ==
  LET limit == Max({1, Rounded(size, 100)})
  IN [s |-> <<>>, q |-> <<>>, lru_hist |-> <<>>, lfu_hist |-> <<>>,
      lfu |-> <<>>, s_size |-> 0, q_size |-> 0,
      s_limit |-> size - limit, q_limit |-> limit,
      dem_count |-> 0, nor_count |-> 0, ub |-> FALSE]

history_size == buffer_size_ \div 2

Fail(c) == [c EXCEPT !.ub = TRUE]

\* Remove(key) from one of the dictionaries
Del(c, dict, key) ==
  IF Contain(c[dict], key) THEN [c EXCEPT ![dict] = Removed(@, key)]
  ELSE Fail(c)

-----------------------------------------------------------------------------
(* HeapDict, the set behind lfu *)

\* CacheusEntry::operator<: the frequency of one with the time of the other
Less(a, b) == IF a.freq = b.freq THEN a.time > b.time ELSE a.freq < b.time

\* That is no order.  The set is what its tree holds, from left to right; the
\* descent of insert() ends between two neighbours it has compared with, and
\* which ones depends on the shape of the tree.  An entry found equal to its
\* left neighbour is not inserted, and u_map_ names that neighbour for both.
Inserted(set, x) ==
  { IF p > 0 /\ ~Less(set[p], x) THEN set ELSE InsertAt(set, p + 1, x) :
      p \in { n \in 0 .. Len(set) :
                /\ n > 0 => ~Less(x, set[n])
                /\ n < Len(set) => Less(x, set[n + 1]) } }

\* lfu.Set and lfu.Update: the states after it
Ranked(c, x) ==
  LET t == IF Contain(c.lfu, x.key) THEN Del(c, "lfu", x.key) ELSE c
  IN { [t EXCEPT !.lfu = l] : l \in Inserted(t.lfu, x) }

-----------------------------------------------------------------------------
(* The parts of an access *)

Entry(key, freq, new) ==
  [key |-> key, freq |-> freq, time |-> ts + 1, is_demoted |-> FALSE,
   is_new |-> new]

AddToS(c, x) ==
  Ranked([c EXCEPT !.s = Set(@, x), !.s_size = @ + 1], x)
AddToQ(c, x) ==
  Ranked([c EXCEPT !.q = Set(@, x), !.q_size = @ + 1], x)

\* The oldest page of s goes to the queue.
Demote(c) ==
  LET x == [Head(c.s) EXCEPT !.is_demoted = TRUE]
  IN IF c.s = <<>> THEN Fail(c)
     ELSE [c EXCEPT !.s = Tail(@), !.s_size = @ - 1, !.dem_count = @ + 1,
                    !.q = Set(@, x), !.q_size = @ + 1]

\* One round of the loop, which fails once s is empty
SOver(c) == IF ~c.ub /\ c.s_size >= c.s_limit THEN Demote(c) ELSE c

LimitStack(c) ==
  LET loop[i \in 0 .. Len(c.s) + 1] ==
        IF i = 0 THEN c ELSE SOver(loop[i - 1])
  IN loop[Len(c.s) + 1]

\* AdjustSize(true): the queue was too eager to let go.
MoreS(c) ==
  LET dem == Max({1, c.dem_count})
      limit == Min({buffer_size_ - 1,
                    c.s_limit + Max({1, Rounded(c.nor_count, dem)})})
  IN [c EXCEPT !.dem_count = dem, !.s_limit = limit,
               !.q_limit = buffer_size_ - limit]

\* AdjustSize(false)
MoreQ(c) ==
  LET nor == Max({1, c.nor_count})
      limit == Min({buffer_size_ - 1,
                    c.q_limit + Max({1, Rounded(c.dem_count, nor)})})
  IN [c EXCEPT !.nor_count = nor, !.q_limit = limit,
               !.s_limit = buffer_size_ - limit]

New1(x) == IF x.is_new THEN 1 ELSE 0

\* A full history forgets its oldest page.
AddToHistory(c, hist, x) ==
  LET old == Head(c[hist])
      t == IF hist = "lru_hist"
           THEN [c EXCEPT !.nor_count = @ + New1(x)] ELSE c
      u == IF hist = "lru_hist"
           THEN [t EXCEPT !.nor_count = @ - New1(old)] ELSE t
  IN IF Len(c[hist]) # history_size THEN [t EXCEPT ![hist] = Set(@, x)]
     ELSE IF c[hist] = <<>> THEN Fail(t)
     ELSE [u EXCEPT ![hist] = Set(Tail(@), x)]

\* Out of the buffer: from s, or else from the queue
Leave(c, key) ==
  IF Contain(c.s, key) THEN [Del(c, "s", key) EXCEPT !.s_size = @ - 1]
  ELSE IF Contain(c.q, key) THEN [Del(c, "q", key) EXCEPT !.q_size = @ - 1]
  ELSE c

\* The copy evicted is the expert's: that of lfu may be out of date.
Gone(c, x) ==
  Del(IF x.is_demoted THEN [c EXCEPT !.dem_count = @ - 1] ELSE c, "lfu", x.key)
Kept(x) == [x EXCEPT !.is_demoted = FALSE]

\* mutant: the page the frequent expert evicts is looked for in q alone
EvictFromQ(c) ==
  LET lru == Head(c.q)
      freq == Head(c.lfu)
      fromQ == [c EXCEPT !.q = Tail(@), !.q_size = @ - 1]
  IN IF c.q = <<>> \/ c.lfu = <<>> THEN {Fail(c)}
     ELSE IF lru.key = freq.key THEN {Gone(fromQ, lru)}
     ELSE { AddToHistory(Gone(fromQ, lru), "lru_hist", Kept(lru)),
            AddToHistory(Gone([c EXCEPT !.q_size = @ - 1], freq), "lfu_hist",
                         Kept(freq)) }

\* Where the two experts agree, the page goes to neither history.
Evict(c) ==
  LET lru == Head(c.q)
      freq == Head(c.lfu)
      fromQ == [c EXCEPT !.q = Tail(@), !.q_size = @ - 1]
  IN IF c.q = <<>> \/ c.lfu = <<>> THEN {Fail(c)}
     ELSE IF lru.key = freq.key THEN {Gone(fromQ, lru)}
     ELSE { AddToHistory(Gone(fromQ, lru), "lru_hist", Kept(lru)),
            AddToHistory(Gone(Leave(c, freq.key), freq), "lfu_hist",
                         Kept(freq)) }

MakeRoom(c) ==
  IF c.s_size + c.q_size >= buffer_size_ THEN Evict(c) ELSE {c}

\* An operation that failed stops there.
Result(c) == cacheus' = IF c.ub THEN Fail(cacheus) ELSE c

-----------------------------------------------------------------------------
(* access *)

\* The entry of s keeps its frequency; that of lfu counts the hit.
HitInS(key) ==
  LET x == [EntryOf(cacheus.s, key) EXCEPT !.time = ts + 1]
  IN /\ Contain(cacheus.s, key)
     /\ CountHit
     /\ \E c \in Ranked([cacheus EXCEPT !.s = Set(@, x)],
                        [x EXCEPT !.freq = @ + 1]) : Result(c)

\* Unlike the entry of s, that of lfu keeps the mark of its demotion.
HitInQ(key) ==
  LET x == [EntryOf(cacheus.q, key) EXCEPT !.time = ts + 1, !.freq = @ + 1]
  IN /\ ~Contain(cacheus.s, key) /\ Contain(cacheus.q, key)
     /\ CountHit
     /\ \E c \in Ranked(cacheus, x) :
          LET d == IF x.is_demoted THEN [MoreS(c) EXCEPT !.dem_count = @ - 1]
                   ELSE c
              e == [Del(d, "q", key) EXCEPT !.q_size = @ - 1]
              f == IF e.s_size >= e.s_limit THEN Demote(e) ELSE e
          IN Result([f EXCEPT !.s = Set(@, [x EXCEPT !.is_demoted = FALSE]),
                              !.s_size = @ + 1])

\* A page of a history comes back to s with its frequency.
Back(c, x) ==
  \E d \in MakeRoom(c) : \E e \in AddToS(d, Entry(x.key, x.freq, FALSE)) :
    Result(LimitStack(e))

HitInLRUHist(key) ==
  LET x == EntryOf(cacheus.lru_hist, key)
      c == Del(cacheus, "lru_hist", key)
  IN /\ ~Contain(cacheus.s, key) /\ ~Contain(cacheus.q, key)
     /\ Contain(cacheus.lru_hist, key)
     /\ CountMiss
     /\ Back(IF x.is_new THEN MoreQ([c EXCEPT !.nor_count = @ - 1]) ELSE c, x)

HitInLFUHist(key) ==
  /\ \A dict \in {"s", "q", "lru_hist"} : ~Contain(cacheus[dict], key)
  /\ Contain(cacheus.lfu_hist, key)
  /\ CountMiss
  /\ Back(Del(cacheus, "lfu_hist", key), EntryOf(cacheus.lfu_hist, key))

\* s fills first, then the queue; after that every new page enters the queue.
Miss(key) ==
  LET x == Entry(key, 1, FALSE)
  IN /\ \A dict \in {"s", "q", "lru_hist", "lfu_hist"} :
          ~Contain(cacheus[dict], key)
     /\ CountMiss
     /\ IF cacheus.s_size < cacheus.s_limit /\ cacheus.q_size = 0
        THEN \E c \in AddToS(cacheus, x) : Result(c)
        ELSE IF /\ cacheus.s_size + cacheus.q_size < buffer_size_
                /\ cacheus.q_size < cacheus.q_limit
        THEN \E c \in AddToQ(cacheus, x) : Result(c)
        ELSE \E c \in MakeRoom(cacheus) :
               \E d \in AddToQ(c, Entry(key, 1, TRUE)) : Result(LimitStack(d))

\* Nothing is said after undefined behaviour.
access(key) ==
  /\ ~cacheus.ub
  /\ \/ HitInS(key) \/ HitInQ(key) \/ HitInLRUHist(key) \/ HitInLFUHist(key)
     \/ Miss(key)

-----------------------------------------------------------------------------
resident == KeysOf(cacheus.s) \cup KeysOf(cacheus.q)

\* With a buffer of two pages or more, no assertion fails; a page is in one
\* of the four dictionaries at most; lfu has every resident page once, although
\* its order is none; the sizes count; s keeps within its limit, the histories
\* within theirs, and the two limits share out the buffer.
Sound ==
  LET dicts == {"s", "q", "lru_hist", "lfu_hist"}
  IN /\ cacheus.ub => buffer_size_ = 1
     /\ ~cacheus.ub =>
          /\ \A d \in dicts \cup {"lfu"} : Dict(cacheus[d])
          /\ \A d, e \in dicts :
               d # e => KeysOf(cacheus[d]) \cap KeysOf(cacheus[e]) = {}
          /\ KeysOf(cacheus.lfu) = resident
          /\ cacheus.s_size = Len(cacheus.s) /\ cacheus.q_size = Len(cacheus.q)
          /\ cacheus.s_size <= cacheus.s_limit
          /\ cacheus.s_limit + cacheus.q_limit = buffer_size_
          /\ Len(cacheus.lru_hist) <= history_size
          /\ Len(cacheus.lfu_hist) <= history_size

============================================================================
