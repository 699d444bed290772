---------------------------- MODULE S3FIFOProofs ----------------------------
(***************************************************************************)
(* For any keys, buffer and addresses of nodes: the queues keep to their   *)
(* sizes, the table is exact until a freed node is read, and the loops of  *)
(* EvictM, EvictS and EnsureFree end and leave room, whatever stale        *)
(* pointers the ghost queue holds.  So S3FIFO is a DemandCache.            *)
(***************************************************************************)
EXTENDS S3FIFO, DataLemmas

-----------------------------------------------------------------------------
(* What holds of a state, also between the steps of an access *)

Page == [key : Keys, freq : -1 .. 3]
Tables == UNION { [D -> Nodes] : D \in SUBSET Keys }
Heaps == UNION { [D -> Page] : D \in SUBSET Nodes }
States == [S_ : Seq(Nodes), M_ : Seq(Nodes), G_ : Seq(Nodes),
           table_ : Tables, heap : Heaps, ub : {"none", "freed"}]

Pages(s) == ToSet(s.S_) \cup ToSet(s.M_)
Held(s) == { n \in DOMAIN s.heap : freq(s, n) >= 0 }
Total(s) == Len(s.S_) + Len(s.M_)

Bounds(s) == Total(s) <= buffer_size /\ Len(s.G_) <= target_len_m_

\* The table and the heap are each other's inverse.
Paired(s) ==
  /\ \A k \in DOMAIN s.table_ : s.table_[k] \in DOMAIN s.heap /\ s.heap[s.table_[k]].key = k
  /\ \A n \in DOMAIN s.heap : /\ s.heap[n].key \in DOMAIN s.table_
                              /\ s.table_[s.heap[n].key] = n

\* The pages are in the queues, once, but for those in H, which access or
\* EvictS has in hand; and no ghost is lost.
Queued(s, H) ==
  /\ IsInjective(s.S_) /\ IsInjective(s.M_) /\ ToSet(s.S_) \cap ToSet(s.M_) = {}
  /\ H \subseteq Held(s) /\ Pages(s) = Held(s) \ H
  /\ DOMAIN s.heap \subseteq Held(s) \cup ToSet(s.G_)

Good(s, H) == s \in States /\ s.ub = "none" /\ Paired(s) /\ Queued(s, H)

\* The inductive invariant
IInv == q \in States /\ Bounds(q) /\ (q.ub = "none" => Good(q, {}))

\* What an eviction makes of a state: fewer pages, with the keys they had
Evicted(s, t, H) ==
  /\ t \in States /\ Len(t.G_) <= target_len_m_ /\ Total(t) <= Total(s)
  /\ Pages(t) \subseteq Pages(s)
  /\ \A n \in DOMAIN t.heap : n \in DOMAIN s.heap /\ t.heap[n].key = s.heap[n].key
  /\ t.ub = "none" => Good(t, H)

-----------------------------------------------------------------------------
(* The data *)

LEMMA Sizes ==
  /\ buffer_size \in Nat \ {0} /\ target_len_s_ \in Nat
  /\ target_len_m_ \in Nat \ {0} /\ target_len_m_ <= buffer_size
<1>1. buffer_size \in Nat \ {0} /\ Share \in Nat \ {0, 1}
  BY S3FIFOAssumption
<1>2. buffer_size \div Share \in Nat
  BY <1>1, DivType
<1>3. buffer_size \div Share <= buffer_size - 1
  <2>1. Share >= 2
    BY <1>1
  <2>2. Share * (buffer_size - 1) >= 2 * (buffer_size - 1)
    BY <1>1, <2>1
  <2>3. CASE buffer_size >= 2
    <3>1. buffer_size <= Share * (buffer_size - 1)
      BY <1>1, <2>2, <2>3
    <3>2. buffer_size - 1 \in Nat
      BY <1>1
    <3> QED BY <1>1, <3>1, <3>2, DivAtMost
  <2>4. CASE buffer_size = 1
    <3> DEFINE d == buffer_size \div Share
    <3>1. d \in Nat /\ Share * d <= 1
      BY <1>1, <1>2, <2>4
    <3> HIDE DEF d
    <3>2. d = 0
      <4>1. CASE d >= 1
        <5> DEFINE u == Share * d
        <5>1. u >= Share * 1 /\ u \in Int /\ u <= 1
          BY <1>1, <3>1, <4>1
        <5> HIDE DEF u
        <5> QED BY <1>1, <2>1, <5>1
      <4> QED BY <3>1, <4>1
    <3> QED BY <2>4, <3>2 DEF d
  <2> QED BY <1>1, <2>3, <2>4
<1> QED BY <1>1, <1>2, <1>3 DEF target_len_s_, target_len_m_

LEMMA TableIs ==
  ASSUME NEW f
  PROVE  f \in Tables <=> /\ DOMAIN f \subseteq Keys /\ f = [k \in DOMAIN f |-> f[k]]
                          /\ \A k \in DOMAIN f : f[k] \in Nodes
<1>1. ASSUME f \in Tables
      PROVE  /\ DOMAIN f \subseteq Keys /\ f = [k \in DOMAIN f |-> f[k]]
             /\ \A k \in DOMAIN f : f[k] \in Nodes
  <2>1. PICK D \in SUBSET Keys : f \in [D -> Nodes]
    BY <1>1 DEF Tables
  <2> QED BY <2>1
<1>2. ASSUME DOMAIN f \subseteq Keys, f = [k \in DOMAIN f |-> f[k]],
             \A k \in DOMAIN f : f[k] \in Nodes
      PROVE  f \in Tables
  <2>1. f \in [DOMAIN f -> Nodes]
    BY <1>2
  <2> QED BY <1>2, <2>1 DEF Tables
<1> QED BY <1>1, <1>2

LEMMA HeapIs ==
  ASSUME NEW f
  PROVE  f \in Heaps <=> /\ DOMAIN f \subseteq Nodes /\ f = [n \in DOMAIN f |-> f[n]]
                         /\ \A n \in DOMAIN f : f[n] \in Page
<1>1. ASSUME f \in Heaps
      PROVE  /\ DOMAIN f \subseteq Nodes /\ f = [n \in DOMAIN f |-> f[n]]
             /\ \A n \in DOMAIN f : f[n] \in Page
  <2>1. PICK D \in SUBSET Nodes : f \in [D -> Page]
    BY <1>1 DEF Heaps
  <2> QED BY <2>1
<1>2. ASSUME DOMAIN f \subseteq Nodes, f = [n \in DOMAIN f |-> f[n]],
             \A n \in DOMAIN f : f[n] \in Page
      PROVE  f \in Heaps
  <2>1. f \in [DOMAIN f -> Page]
    BY <1>2
  <2> QED BY <1>2, <2>1 DEF Heaps
<1> QED BY <1>1, <1>2

LEMMA FreqType ==
  ASSUME NEW s \in States
  PROVE  \A n \in DOMAIN s.heap : n \in Nodes /\ freq(s, n) \in -1 .. 3 /\ s.heap[n].key \in Keys
<1>1. s.heap \in Heaps
  BY DEF States
<1> QED BY <1>1, HeapIs DEF freq, Page

\* Counting a page changes its freq only.
Counted(s, t, n, f) ==
  /\ t \in States /\ t = [s EXCEPT !.heap = t.heap] /\ DOMAIN t.heap = DOMAIN s.heap
  /\ \A m \in DOMAIN s.heap : t.heap[m].key = s.heap[m].key
  /\ freq(t, n) = f /\ \A m \in DOMAIN s.heap \ {n} : freq(t, m) = freq(s, m)

LEMMA SetFreqIs ==
  ASSUME NEW s \in States, NEW n \in DOMAIN s.heap, NEW f \in -1 .. 3
  PROVE  Counted(s, SetFreq(s, n, f), n, f)
<1> DEFINE t == SetFreq(s, n, f)
           p == [s.heap[n] EXCEPT !.freq = f]
           h == [s.heap EXCEPT ![n] = p]
<1>1. s.heap \in Heaps
  BY DEF States
<1>2. /\ DOMAIN s.heap \subseteq Nodes /\ s.heap = [m \in DOMAIN s.heap |-> s.heap[m]]
      /\ \A m \in DOMAIN s.heap : s.heap[m] \in Page
  BY <1>1, HeapIs
<1>3. p \in Page /\ p.key = s.heap[n].key /\ p.freq = f
  BY <1>2 DEF Page
<1>4. t = [s EXCEPT !.heap = h] /\ t.heap = h
  BY DEF SetFreq, States
<1> HIDE DEF p
<1>5. /\ DOMAIN h = DOMAIN s.heap /\ h[n] = p /\ h = [m \in DOMAIN h |-> h[m]]
      /\ \A m \in DOMAIN s.heap \ {n} : h[m] = s.heap[m]
  BY <1>2
<1> HIDE DEF h
<1>6. h \in Heaps
  BY <1>2, <1>3, <1>5, HeapIs
<1>7. t \in States
  BY <1>4, <1>6 DEF States
<1> HIDE DEF t
<1> QED BY <1>3, <1>4, <1>5, <1>7 DEF freq, Counted, t

-----------------------------------------------------------------------------
(* The operations on one node *)

SameQueues(s, t) == t.S_ = s.S_ /\ t.M_ = s.M_ /\ t.G_ = s.G_ /\ t.ub = s.ub

\* Delete takes the node out of the heap, and its key out of the table.
LEMMA DeleteIs ==
  ASSUME NEW s \in States, Paired(s), NEW n \in DOMAIN s.heap
  PROVE  LET t == Delete(s, n)
         IN /\ t \in States /\ Paired(t) /\ SameQueues(s, t)
            /\ DOMAIN t.heap = DOMAIN s.heap \ {n}
            /\ \A m \in DOMAIN t.heap : t.heap[m] = s.heap[m]
<1> DEFINE t == Delete(s, n)
           k == s.heap[n].key
           T == Drop(s.table_, k)
           h == Drop(s.heap, n)
<1>1. t = [s EXCEPT !.table_ = T, !.heap = h]
  BY DEF Delete
<1>2. /\ DOMAIN T = DOMAIN s.table_ \ {k} /\ T = [x \in DOMAIN T |-> T[x]]
      /\ \A x \in DOMAIN T : T[x] = s.table_[x]
      /\ DOMAIN h = DOMAIN s.heap \ {n} /\ h = [m \in DOMAIN h |-> h[m]]
      /\ \A m \in DOMAIN h : h[m] = s.heap[m]
  BY DEF Drop
<1> HIDE DEF k, T, h
<1>3. T \in Tables /\ h \in Heaps
  <2>1. s.table_ \in Tables /\ s.heap \in Heaps
    BY DEF States
  <2> QED BY <1>2, <2>1, TableIs, HeapIs
<1>4. /\ t \in States /\ SameQueues(s, t) /\ t.table_ = T /\ t.heap = h
  BY <1>1, <1>3 DEF States, SameQueues
<1> HIDE DEF t
<1>5. Paired(t)
  <2>1. \A m \in DOMAIN s.heap \ {n} : s.heap[m].key # k
    BY DEF Paired, k
  <2>2. \A x \in DOMAIN s.table_ \ {k} : s.table_[x] # n
    BY DEF Paired, k
  <2> QED BY <1>2, <1>4, <2>1, <2>2 DEF Paired
<1> QED BY <1>2, <1>4, <1>5 DEF t

LEMMA ToSetPush ==
  ASSUME NEW S, NEW u \in Seq(S), NEW n \in S
  PROVE  /\ <<n>> \o u \in Seq(S) /\ Len(<<n>> \o u) = Len(u) + 1
         /\ ToSet(<<n>> \o u) = {n} \cup ToSet(u)
<1> DEFINE v == <<n>> \o u
<1>1. /\ v \in Seq(S) /\ Len(v) = Len(u) + 1 /\ Len(u) \in Nat
      /\ v[1] = n /\ \A i \in 1 .. Len(u) : v[i + 1] = u[i]
  OBVIOUS
<1> HIDE DEF v
<1>2. DOMAIN v = 1 .. Len(u) + 1 /\ DOMAIN u = 1 .. Len(u)
  BY <1>1
<1>3. \A i \in 1 .. Len(u) + 1 : i = 1 \/ (i - 1 \in 1 .. Len(u) /\ v[i] = u[i - 1])
  BY <1>1
<1>4. ToSet(v) = {n} \cup ToSet(u)
  <2>1. ASSUME NEW x \in ToSet(v) PROVE x \in {n} \cup ToSet(u)
    <3>1. PICK i \in 1 .. Len(u) + 1 : x = v[i]
      BY <1>2 DEF ToSet
    <3>2. CASE i = 1
      BY <1>1, <3>1, <3>2
    <3>3. CASE i - 1 \in 1 .. Len(u) /\ v[i] = u[i - 1]
      BY <1>2, <3>1, <3>3 DEF ToSet
    <3> QED BY <1>3, <3>2, <3>3
  <2>2. n \in ToSet(v)
    BY <1>1, <1>2 DEF ToSet
  <2>3. ASSUME NEW x \in ToSet(u) PROVE x \in ToSet(v)
    <3>1. PICK i \in 1 .. Len(u) : x = u[i]
      BY <1>2 DEF ToSet
    <3>2. i + 1 \in DOMAIN v /\ v[i + 1] = x
      BY <1>1, <1>2, <3>1
    <3> QED BY <3>2 DEF ToSet
  <2> QED BY <2>1, <2>2, <2>3
<1> QED BY <1>1, <1>4 DEF v

LEMMA ToSetFront ==
  ASSUME NEW S, NEW u \in Seq(S), u # <<>>
  PROVE  /\ Front(u) \in Seq(S) /\ Len(Front(u)) = Len(u) - 1 /\ Last(u) \in S
         /\ ToSet(u) = {Last(u)} \cup ToSet(Front(u))
<1>1. Len(u) \in Nat \ {0} /\ DOMAIN u = 1 .. Len(u)
  BY EmptySeq
<1>2. /\ Front(u) \in Seq(S) /\ Len(Front(u)) = Len(u) - 1
      /\ \A i \in 1 .. Len(u) - 1 : Front(u)[i] = u[i]
  BY <1>1, SubSeqProperties DEF Front
<1>3. DOMAIN Front(u) = 1 .. Len(u) - 1
  BY <1>1, <1>2
<1>4. Last(u) = u[Len(u)] /\ Last(u) \in S
  BY <1>1 DEF Last
<1>5. ToSet(u) = { u[i] : i \in 1 .. Len(u) }
      /\ ToSet(Front(u)) = { u[i] : i \in 1 .. Len(u) - 1 }
  BY <1>1, <1>2, <1>3 DEF ToSet
<1>6. ToSet(u) = {Last(u)} \cup ToSet(Front(u))
  <2> DEFINE n == Len(u)
  <2>1. 1 .. n = (1 .. n - 1) \cup {n}
    BY <1>1
  <2> HIDE DEF n
  <2> QED BY <1>4, <1>5, <2>1 DEF n
<1> QED BY <1>2, <1>4, <1>6

\* Dropping the tail of G_ loses no ghost, and no page, though the tail may
\* point to one.
LEMMA DropGhostIs ==
  ASSUME NEW s, NEW H, Good(s, H), s.G_ # <<>>
  PROVE  LET t == DropGhost(s)
         IN /\ t \in States /\ t.S_ = s.S_ /\ t.M_ = s.M_ /\ t.G_ = Front(s.G_)
            /\ DOMAIN t.heap \subseteq DOMAIN s.heap
            /\ \A m \in DOMAIN t.heap : t.heap[m] = s.heap[m]
            /\ t.ub = "none" => Good(t, H)
<1> DEFINE n == Last(s.G_)
           r == [s EXCEPT !.G_ = Front(@)]
           t == DropGhost(s)
<1>1. s \in States /\ s.ub = "none" /\ Paired(s) /\ Queued(s, H)
  BY DEF Good
<1>2. /\ Front(s.G_) \in Seq(Nodes) /\ ToSet(s.G_) = {n} \cup ToSet(Front(s.G_))
  BY <1>1, ToSetFront DEF States
<1>3. /\ r \in States /\ r.S_ = s.S_ /\ r.M_ = s.M_ /\ r.G_ = Front(s.G_)
      /\ r.table_ = s.table_ /\ r.heap = s.heap /\ r.ub = "none"
  BY <1>1, <1>2 DEF States
<1>4. t = IF n \notin DOMAIN s.heap THEN [r EXCEPT !.ub = "freed"]
          ELSE IF freq(s, n) < 0 THEN Delete(r, n) ELSE r
  BY DEF DropGhost, Live
<1> HIDE DEF n, r, t
<1>5. CASE n \notin DOMAIN s.heap
  <2>1. t = [r EXCEPT !.ub = "freed"]
    BY <1>4, <1>5
  <2>2. /\ t \in States /\ t.S_ = s.S_ /\ t.M_ = s.M_ /\ t.G_ = Front(s.G_)
        /\ t.heap = s.heap /\ t.ub = "freed"
    BY <1>3, <2>1 DEF States
  <2> QED BY <2>2 DEF t
<1>6. CASE n \in DOMAIN s.heap /\ freq(s, n) < 0
  <2>1. t = Delete(r, n) /\ Paired(r) /\ n \in DOMAIN r.heap
    BY <1>1, <1>3, <1>4, <1>6 DEF Paired
  <2>2. /\ t \in States /\ Paired(t) /\ SameQueues(r, t)
        /\ DOMAIN t.heap = DOMAIN s.heap \ {n}
        /\ \A m \in DOMAIN t.heap : t.heap[m] = s.heap[m]
    BY <1>3, <2>1, DeleteIs
  <2>3. Held(t) = Held(s) /\ Pages(t) = Pages(s)
    <3>1. \A m \in DOMAIN t.heap : freq(t, m) = freq(s, m)
      BY <2>2 DEF freq
    <3>2. Held(t) = Held(s)
      BY <1>1, <1>6, <2>2, <3>1, FreqType DEF Held
    <3> QED BY <1>3, <2>2, <3>2 DEF Pages, SameQueues
  <2>4. Queued(t, H)
    BY <1>1, <1>2, <1>3, <2>2, <2>3 DEF Queued, SameQueues
  <2> QED BY <1>3, <2>2, <2>4 DEF Good, SameQueues, t
<1>7. CASE n \in DOMAIN s.heap /\ ~ (freq(s, n) < 0)
  <2>1. t = r
    BY <1>4, <1>7
  <2>2. n \in Held(s)
    BY <1>1, <1>7, FreqType DEF Held
  <2>3. Held(t) = Held(s) /\ Pages(t) = Pages(s) /\ Paired(t)
    BY <1>1, <1>3, <2>1 DEF Held, Pages, Paired, freq
  <2>4. Queued(t, H)
    BY <1>1, <1>2, <1>3, <2>1, <2>2, <2>3 DEF Queued
  <2> QED BY <1>3, <2>1, <2>3, <2>4 DEF Good, t
<1> QED BY <1>5, <1>6, <1>7 DEF t

\* A node in hand is put in front of M_ ...
LEMMA InsertMIs ==
  ASSUME NEW s, NEW n, NEW H, n \notin H, Good(s, H \cup {n})
  PROVE  LET t == InsertM(s, n)
         IN /\ Good(t, H) /\ t.S_ = s.S_ /\ t.M_ = <<n>> \o s.M_ /\ t.G_ = s.G_
            /\ DOMAIN t.heap = DOMAIN s.heap
            /\ \A m \in DOMAIN s.heap : t.heap[m].key = s.heap[m].key
<1> DEFINE r == SetFreq(s, n, 0)
           t == InsertM(s, n)
<1>1. s \in States /\ s.ub = "none" /\ Paired(s) /\ Queued(s, H \cup {n})
  BY DEF Good
<1>2. n \in DOMAIN s.heap /\ n \in Held(s) /\ n \in Nodes
  BY <1>1, FreqType DEF Queued, Held
<1>3. /\ r \in States /\ r = [s EXCEPT !.heap = r.heap] /\ DOMAIN r.heap = DOMAIN s.heap
      /\ \A m \in DOMAIN s.heap : r.heap[m].key = s.heap[m].key
      /\ freq(r, n) = 0 /\ \A m \in DOMAIN s.heap \ {n} : freq(r, m) = freq(s, m)
  <2>1. Counted(s, r, n, 0)
    BY <1>1, <1>2, SetFreqIs
  <2> HIDE DEF r
  <2> QED BY <2>1 DEF Counted
<1>4. t = [r EXCEPT !.M_ = <<n>> \o @]
  BY DEF InsertM
<1> HIDE DEF r, t
<1>5. /\ <<n>> \o s.M_ \in Seq(Nodes) /\ ToSet(<<n>> \o s.M_) = {n} \cup ToSet(s.M_)
  BY <1>1, <1>2, ToSetPush DEF States
<1>6. r.S_ = s.S_ /\ r.M_ = s.M_ /\ r.G_ = s.G_ /\ r.table_ = s.table_ /\ r.ub = s.ub
  BY <1>1, <1>3 DEF States
<1>7. /\ t \in States /\ t.S_ = s.S_ /\ t.M_ = <<n>> \o s.M_ /\ t.G_ = s.G_
      /\ t.table_ = s.table_ /\ t.heap = r.heap /\ t.ub = "none"
  BY <1>1, <1>3, <1>4, <1>5, <1>6 DEF States
<1>8. Held(t) = Held(s)
  <2>1. \A m \in DOMAIN s.heap : m # n => freq(t, m) = freq(s, m)
    BY <1>3, <1>7 DEF freq
  <2>2. freq(t, n) = 0
    BY <1>3, <1>7 DEF freq
  <2> QED BY <1>2, <1>3, <1>7, <2>1, <2>2 DEF Held
<1>9. IsInjective(t.M_)
  <2>1. Lists(s.M_, ToSet(s.M_)) /\ n \notin ToSet(s.M_)
    BY <1>1 DEF Lists, Queued, Pages
  <2> QED BY <1>1, <1>2, <1>7, <2>1, ListsPush DEF Lists, States
<1>10. Queued(t, H)
  BY <1>1, <1>5, <1>7, <1>8, <1>9, <1>3 DEF Queued, Pages
<1>11. Paired(t)
  BY <1>1, <1>3, <1>7 DEF Paired
<1> QED BY <1>3, <1>7, <1>10, <1>11 DEF Good, t

\* ... or becomes a ghost.
LEMMA InsertGIs ==
  ASSUME NEW s, NEW n, NEW H, n \notin H, Good(s, H \cup {n}), Len(s.G_) <= target_len_m_
  PROVE  LET t == InsertG(s, n)
         IN /\ t \in States /\ Len(t.G_) <= target_len_m_ /\ t.S_ = s.S_ /\ t.M_ = s.M_
            /\ \A m \in DOMAIN t.heap : m \in DOMAIN s.heap /\ t.heap[m].key = s.heap[m].key
            /\ t.ub = "none" => Good(t, H)
<1> DEFINE u == IF Len(s.G_) = target_len_m_ THEN DropGhost(s) ELSE s
           r == SetFreq(u, n, -1)
           t == InsertG(s, n)
<1>1. s \in States /\ s.ub = "none" /\ s.G_ \in Seq(Nodes)
  BY DEF Good, States
<1>2. /\ u \in States /\ u.S_ = s.S_ /\ u.M_ = s.M_ /\ u.G_ \in Seq(Nodes)
      /\ Len(u.G_) + 1 <= target_len_m_
      /\ \A m \in DOMAIN u.heap : m \in DOMAIN s.heap /\ u.heap[m] = s.heap[m]
      /\ u.ub = "none" => Good(u, H \cup {n})
  <2>1. CASE Len(s.G_) = target_len_m_
    <3>1. s.G_ # <<>>
      BY <2>1, Sizes, EmptySeq
    <3>2. Front(s.G_) \in Seq(Nodes) /\ Len(Front(s.G_)) = Len(s.G_) - 1
      BY <1>1, <3>1, ToSetFront
    <3>3. u = DropGhost(s)
      BY <2>1
    <3> HIDE DEF u
    <3>4. /\ u \in States /\ u.S_ = s.S_ /\ u.M_ = s.M_ /\ u.G_ = Front(s.G_)
          /\ DOMAIN u.heap \subseteq DOMAIN s.heap
          /\ \A m \in DOMAIN u.heap : u.heap[m] = s.heap[m]
          /\ u.ub = "none" => Good(u, H \cup {n})
      BY <3>1, <3>3, DropGhostIs
    <3>5. Len(u.G_) + 1 <= target_len_m_
      BY <2>1, <3>2, <3>4, Sizes
    <3> QED BY <3>2, <3>4, <3>5
  <2>2. CASE Len(s.G_) # target_len_m_
    BY <1>1, <2>2, Sizes
  <2> QED BY <2>1, <2>2
<1>3. t = IF u.ub # "none" THEN u ELSE [r EXCEPT !.G_ = <<n>> \o @]
  BY DEF InsertG
<1> HIDE DEF u
<1>4. CASE u.ub # "none"
  BY <1>2, <1>3, <1>4, Sizes
<1>5. CASE u.ub = "none"
  <2>1. Good(u, H \cup {n}) /\ Paired(u) /\ Queued(u, H \cup {n})
    BY <1>2, <1>5 DEF Good
  <2>2. n \in DOMAIN u.heap /\ n \in Held(u) /\ n \in Nodes
    BY <1>2, <2>1, FreqType DEF Queued, Held
  <2>3. /\ r \in States /\ r = [u EXCEPT !.heap = r.heap] /\ DOMAIN r.heap = DOMAIN u.heap
        /\ \A m \in DOMAIN u.heap : r.heap[m].key = u.heap[m].key
        /\ freq(r, n) = -1 /\ \A m \in DOMAIN u.heap \ {n} : freq(r, m) = freq(u, m)
    <3>1. Counted(u, r, n, -1)
      BY <1>2, <2>2, SetFreqIs
    <3> HIDE DEF r
    <3> QED BY <3>1 DEF Counted
  <2>4. t = [r EXCEPT !.G_ = <<n>> \o @]
    BY <1>3, <1>5
  <2> HIDE DEF r, t
  <2>5. /\ <<n>> \o u.G_ \in Seq(Nodes) /\ ToSet(<<n>> \o u.G_) = {n} \cup ToSet(u.G_)
        /\ Len(<<n>> \o u.G_) = Len(u.G_) + 1
    BY <1>2, <2>2, ToSetPush
  <2>6. r.S_ = u.S_ /\ r.M_ = u.M_ /\ r.G_ = u.G_ /\ r.table_ = u.table_ /\ r.ub = u.ub
    BY <1>2, <2>3 DEF States
  <2>7. /\ t \in States /\ t.S_ = u.S_ /\ t.M_ = u.M_ /\ t.G_ = <<n>> \o u.G_
        /\ t.table_ = u.table_ /\ t.heap = r.heap /\ t.ub = "none"
    BY <1>2, <1>5, <2>3, <2>4, <2>5, <2>6 DEF States
  <2>8. Held(t) = Held(u) \ {n}
    <3>1. \A m \in DOMAIN u.heap : m # n => freq(t, m) = freq(u, m)
      BY <2>3, <2>7 DEF freq
    <3>2. freq(t, n) = -1
      BY <2>3, <2>7 DEF freq
    <3> QED BY <2>2, <2>3, <2>7, <3>1, <3>2 DEF Held
  <2>9. Queued(t, H)
    BY <2>1, <2>3, <2>5, <2>7, <2>8 DEF Queued, Pages
  <2>10. Paired(t)
    BY <2>1, <2>3, <2>7 DEF Paired
  <2> QED BY <1>2, <2>3, <2>5, <2>7, <2>9, <2>10 DEF Good, t
<1> QED BY <1>4, <1>5

-----------------------------------------------------------------------------
(* EvictS *)

\* The tail of S_ leaves it, for M_ or for the ghosts.
LEMMA EvictTailIs ==
  ASSUME NEW s, NEW t, NEW H, Evicted(s, t, H), Total(s) \in Nat
  PROVE  LET u == EvictTail(t)
         IN /\ Evicted(s, u, H)
            /\ u.ub = "none" =>
                 /\ t.ub = "none"
                 /\ Len(u.S_) = IF Len(t.S_) = 0 THEN 0 ELSE Len(t.S_) - 1
<1> DEFINE n == Last(t.S_)
           r == [t EXCEPT !.S_ = Front(@)]
           u == EvictTail(t)
<1>1. /\ t \in States /\ t.S_ \in Seq(Nodes) /\ t.M_ \in Seq(Nodes) /\ Len(t.G_) <= target_len_m_
      /\ Total(t) <= Total(s) /\ Pages(t) \subseteq Pages(s) /\ t.ub \in {"none", "freed"}
      /\ \A m \in DOMAIN t.heap : m \in DOMAIN s.heap /\ t.heap[m].key = s.heap[m].key
  BY DEF Evicted, States
<1>2. CASE t.S_ = <<>> \/ t.ub # "none"
  <2>1. u = t
    BY <1>2 DEF EvictTail
  <2>2. t.S_ = <<>> => Len(t.S_) = 0
    BY <1>1, EmptySeq
  <2> QED BY <1>2, <2>1, <2>2
<1>3. CASE t.S_ # <<>> /\ t.ub = "none"
  <2>1. Good(t, H) /\ Paired(t) /\ Queued(t, H)
    BY <1>3 DEF Good, Evicted
  <2>2. /\ Front(t.S_) \in Seq(Nodes) /\ Len(Front(t.S_)) = Len(t.S_) - 1 /\ Len(t.S_) \in Nat \ {0}
        /\ ToSet(t.S_) = {n} \cup ToSet(Front(t.S_))
    BY <1>1, <1>3, ToSetFront, EmptySeq
  <2>3. IsInjective(Front(t.S_)) /\ n \notin ToSet(Front(t.S_))
    <3>1. Lists(t.S_, ToSet(t.S_))
      BY <2>1 DEF Lists, Queued
    <3>2. Lists(Front(t.S_), ToSet(t.S_) \ {n})
      BY <1>1, <1>3, <3>1, ListsPop
    <3> QED BY <3>2 DEF Lists
  <2>4. /\ r \in States /\ r.S_ = Front(t.S_) /\ r.M_ = t.M_ /\ r.G_ = t.G_
        /\ r.table_ = t.table_ /\ r.heap = t.heap /\ r.ub = "none"
    BY <1>1, <1>3, <2>2 DEF States
  <2>5. u = IF freq(t, n) > 0 THEN InsertM(r, n) ELSE InsertG(r, n)
    BY <1>3 DEF EvictTail
  <2> HIDE DEF n, r, u
  <2>6. n \in Pages(t) /\ n \in Nodes /\ n \notin H
    <3>1. n \in Pages(t)
      BY <2>2 DEF Pages
    <3>2. n \in Held(t) \ H
      BY <2>1, <3>1 DEF Queued
    <3> QED BY <1>1, <3>1, <3>2, FreqType DEF Held
  <2>7. Good(r, H \cup {n})
    <3>1. Held(r) = Held(t)
      BY <2>4 DEF Held, freq
    <3>2. Paired(r)
      BY <2>1, <2>4 DEF Paired
    <3>3. Pages(r) = Pages(t) \ {n}
      <4>1. n \notin ToSet(t.M_)
        BY <2>1, <2>2 DEF Queued
      <4> QED BY <2>2, <2>3, <2>4, <4>1 DEF Pages
    <3>4. n \in Held(t)
      BY <2>1, <2>6 DEF Queued
    <3>5. Queued(r, H \cup {n})
      BY <2>1, <2>2, <2>3, <2>4, <3>1, <3>3, <3>4 DEF Queued
    <3> QED BY <2>4, <3>2, <3>5 DEF Good
  <2>8. Len(r.G_) <= target_len_m_
    BY <1>1, <2>4
  <2>9. Pages(r) \subseteq Pages(t) /\ Len(r.S_) = Len(t.S_) - 1
    BY <2>2, <2>4 DEF Pages
  <2>10. CASE freq(t, n) > 0
    <3>1. u = InsertM(r, n)
      BY <2>5, <2>10
    <3>2. /\ Good(u, H) /\ u.S_ = r.S_ /\ u.M_ = <<n>> \o t.M_ /\ u.G_ = r.G_
          /\ DOMAIN u.heap = DOMAIN t.heap
          /\ \A m \in DOMAIN t.heap : u.heap[m].key = t.heap[m].key
      BY <2>4, <2>6, <2>7, <3>1, InsertMIs
    <3>3. Len(u.M_) = Len(t.M_) + 1 /\ ToSet(u.M_) = {n} \cup ToSet(t.M_)
      BY <1>1, <2>6, <3>2, ToSetPush
    <3>4. Total(u) = Total(t) /\ Pages(u) \subseteq Pages(t)
      <4>1. Len(t.M_) \in Nat /\ Len(u.S_) = Len(t.S_) - 1
        BY <1>1, <2>9, <3>2
      <4>2. Total(u) = Total(t)
        <5> DEFINE a == Len(t.S_)
                   b == Len(t.M_)
        <5>1. a \in Nat /\ b \in Nat /\ Len(u.S_) = a - 1 /\ Len(u.M_) = b + 1
          BY <2>2, <3>3, <4>1
        <5>2. Total(u) = Len(u.S_) + Len(u.M_) /\ Total(t) = a + b
          BY DEF Total
        <5> HIDE DEF a, b
        <5> QED BY <5>1, <5>2
      <4> QED BY <2>6, <2>9, <3>2, <3>3, <4>2, <2>4 DEF Pages
    <3>5. Evicted(s, u, H)
      BY <1>1, <2>8, <3>2, <3>4 DEF Evicted, Good
    <3> QED BY <1>3, <2>2, <2>9, <3>2, <3>5 DEF u
  <2>11. CASE ~ (freq(t, n) > 0)
    <3>1. u = InsertG(r, n)
      BY <2>5, <2>11
    <3>2. /\ u \in States /\ Len(u.G_) <= target_len_m_ /\ u.S_ = r.S_ /\ u.M_ = t.M_
          /\ \A m \in DOMAIN u.heap : m \in DOMAIN t.heap /\ u.heap[m].key = t.heap[m].key
          /\ u.ub = "none" => Good(u, H)
      <4>1. /\ u \in States /\ Len(u.G_) <= target_len_m_ /\ u.S_ = r.S_ /\ u.M_ = r.M_
            /\ \A m \in DOMAIN u.heap : m \in DOMAIN r.heap /\ u.heap[m].key = r.heap[m].key
            /\ u.ub = "none" => Good(u, H)
        BY <2>6, <2>7, <2>8, <3>1, InsertGIs
      <4> QED BY <2>4, <4>1
    <3>3. Pages(u) \subseteq Pages(t) /\ Total(u) <= Total(s)
      <4>1. Len(t.M_) \in Nat /\ Len(u.S_) = Len(t.S_) - 1
        BY <1>1, <2>9, <3>2
      <4>2. Total(u) = Total(t) - 1 /\ Total(t) \in Nat
        <5> DEFINE a == Len(t.S_)
                   b == Len(t.M_)
        <5>1. a \in Nat /\ b \in Nat /\ Len(u.S_) = a - 1 /\ Len(u.M_) = b
          BY <2>2, <3>2, <4>1
        <5>2. Total(u) = Len(u.S_) + Len(u.M_) /\ Total(t) = a + b
          BY DEF Total
        <5> HIDE DEF a, b
        <5> QED BY <5>1, <5>2
      <4> QED BY <1>1, <2>4, <2>9, <3>2, <4>2 DEF Pages
    <3>4. Evicted(s, u, H)
      BY <1>1, <3>2, <3>3 DEF Evicted
    <3> QED BY <1>3, <2>2, <2>9, <3>2, <3>4 DEF u
  <2> QED BY <2>10, <2>11
<1> QED BY <1>1, <1>2, <1>3

\* Nothing has been evicted yet.
LEMMA EvictedNothing ==
  ASSUME NEW s, NEW H, Good(s, H), Len(s.G_) <= target_len_m_
  PROVE  Evicted(s, s, H) /\ Total(s) \in Nat
<1>1. s \in States /\ s.S_ \in Seq(Nodes) /\ s.M_ \in Seq(Nodes)
  BY DEF Good, States
<1>2. Total(s) \in Nat
  <2>1. Len(s.S_) \in Nat /\ Len(s.M_) \in Nat
    BY <1>1
  <2>2. \A a, b \in Nat : a + b \in Nat
    OBVIOUS
  <2> QED BY <2>1, <2>2 DEF Total
<1> QED BY <1>1, <1>2 DEF Evicted

\* The loop of EvictS takes Len(S_) turns, and empties S_.
LEMMA EvictSIs ==
  ASSUME NEW s, NEW H, Good(s, H), Len(s.G_) <= target_len_m_
  PROVE  /\ Evicted(s, EvictS(s), H)
         /\ EvictS(s).ub = "none" => EvictS(s).S_ = <<>>
<1> DEFINE n == Len(s.S_)
           D == { t \in States : Evicted(s, t, H) }
           P(g) == g = [i \in 0 .. n |-> IF i = 0 THEN s ELSE EvictTail(g[i - 1])]
           F == [i \in 1 .. n |-> [t \in D |-> EvictTail(t)]]
<1>1. /\ Evicted(s, s, H) /\ Total(s) \in Nat /\ s \in D /\ n \in Nat
  BY EvictedNothing DEF Evicted, States
<1>2. ASSUME NEW t \in D
      PROVE  /\ EvictTail(t) \in D
             /\ EvictTail(t).ub = "none" =>
                  /\ t.ub = "none"
                  /\ Len(EvictTail(t).S_) = IF Len(t.S_) = 0 THEN 0 ELSE Len(t.S_) - 1
  <2>1. Evicted(s, t, H)
    OBVIOUS
  <2> HIDE DEF D
  <2>2. /\ Evicted(s, EvictTail(t), H)
        /\ EvictTail(t).ub = "none" =>
             /\ t.ub = "none"
             /\ Len(EvictTail(t).S_) = IF Len(t.S_) = 0 THEN 0 ELSE Len(t.S_) - 1
    BY <1>1, <2>1, EvictTailIs
  <2> QED BY <2>2 DEF D, Evicted
<1>3. \E g : P(g)
  <2>1. ASSUME NEW i \in 1 .. n, NEW t \in D PROVE F[i][t] = EvictTail(t)
    OBVIOUS
  <2>2. F \in Steps(n, D)
    BY <1>2 DEF Steps
  <2> HIDE DEF F, D, n
  <2>3. PICK g : Path(g, n, D, s, F)
    BY <1>1, <2>2, Recursion
  <2>4. ASSUME NEW i \in 0 .. n PROVE g[i] = IF i = 0 THEN s ELSE EvictTail(g[i - 1])
    <3>1. CASE i = 0
      BY <2>3, <3>1 DEF Path
    <3>2. CASE i # 0
      <4>1. i \in 1 .. n /\ i - 1 \in 0 .. n
        BY <3>2, <1>1
      <4>2. g[i - 1] \in D /\ g[i] = F[i][g[i - 1]]
        BY <2>3, <4>1 DEF Path
      <4> QED BY <2>1, <3>2, <4>1, <4>2
    <3> QED BY <3>1, <3>2
  <2>5. g = [i \in 0 .. n |-> IF i = 0 THEN s ELSE EvictTail(g[i - 1])]
    BY <2>3, <2>4 DEF Path
  <2> QED BY <2>5
<1> DEFINE h == CHOOSE g : P(g)
<1>4. P(h) /\ EvictS(s) = h[n]
  <2>1. EvictS(s) = h[n]
    BY DEF EvictS
  <2> HIDE DEF P
  <2> QED BY <1>3, <2>1
<1> HIDE DEF h, D, n
<1>5. h[0] = s /\ \A i \in Nat : i + 1 <= n => h[i + 1] = EvictTail(h[i])
  BY <1>1, <1>4
<1> DEFINE T == { i \in Nat : i <= n => /\ h[i] \in D
                                        /\ h[i].ub = "none" => Len(h[i].S_) = n - i }
<1>6. Nat \subseteq T
  <2>1. 0 \in T
    BY <1>1, <1>5 DEF n
  <2>2. ASSUME NEW i \in Nat, i \in T PROVE i + 1 \in T
    <3> SUFFICES ASSUME i + 1 <= n
                 PROVE  /\ h[i + 1] \in D
                        /\ h[i + 1].ub = "none" => Len(h[i + 1].S_) = n - (i + 1)
      OBVIOUS
    <3>1. h[i + 1] = EvictTail(h[i]) /\ h[i] \in D
          /\ (h[i].ub = "none" => Len(h[i].S_) = n - i)
      BY <1>1, <1>5, <2>2
    <3>2. n - i # 0 /\ (n - i) - 1 = n - (i + 1)
      BY <1>1
    <3> QED BY <1>2, <3>1, <3>2
  <2>3. \A i \in Nat : i \in T => i + 1 \in T
    BY <2>2
  <2> HIDE DEF T
  <2> QED BY <2>1, <2>3, AllNaturals
<1>7. h[n] \in D /\ (h[n].ub = "none" => Len(h[n].S_) = 0)
  BY <1>1, <1>6
<1>8. \A t \in States : Len(t.S_) = 0 => t.S_ = <<>>
  BY EmptySeq DEF States
<1>9. \A t \in D : Evicted(s, t, H) /\ t \in States
  BY DEF D
<1> QED BY <1>4, <1>7, <1>8, <1>9

-----------------------------------------------------------------------------
(* EvictM *)

\* What turns make of a state: the same pages in M_, in another order, with
\* fewer hits
Rotated(s, t, H) ==
  /\ Good(t, H) /\ t.S_ = s.S_ /\ t.G_ = s.G_ /\ DOMAIN t.heap = DOMAIN s.heap
  /\ Len(t.M_) = Len(s.M_) /\ ToSet(t.M_) = ToSet(s.M_)
  /\ \A m \in DOMAIN s.heap : t.heap[m].key = s.heap[m].key

\* The hits that the pages of M_ have left: each turn takes one.
Hits(s) == { x \in ToSet(s.M_) \X (1 .. 3) : x[2] <= freq(s, x[1]) }

LEMMA HitsAtMost ==
  ASSUME NEW s, NEW H, Good(s, H)
  PROVE  IsFiniteSet(Hits(s)) /\ Cardinality(Hits(s)) <= 3 * Len(s.M_)
<1> DEFINE K == ToSet(s.M_)
<1>1. s.M_ \in Seq(Nodes) /\ Lists(s.M_, K)
  BY DEF Good, Queued, States, Lists
<1>2. IsFiniteSet(K) /\ Cardinality(K) = Len(s.M_) /\ Len(s.M_) \in Nat
  BY <1>1, ListsLength
<1>3. IsFiniteSet(1 .. 3) /\ Cardinality(1 .. 3) = 3
  <2>1. \A b \in Nat : IsFiniteSet(1 .. b) /\ Cardinality(1 .. b) = b
    BY FS_Interval
  <2>2. 3 \in Nat
    OBVIOUS
  <2> QED BY <2>1, <2>2, Zenon
<1>4. IsFiniteSet(K \X (1 .. 3)) /\ Cardinality(K \X (1 .. 3)) = Len(s.M_) * 3
  BY <1>2, <1>3, FS_Product
<1>5. Hits(s) \in SUBSET (K \X (1 .. 3))
  BY DEF Hits
<1> QED BY <1>2, <1>4, <1>5, FS_Subset

LEMMA TurnIs ==
  ASSUME NEW s, NEW t, NEW H, Rotated(s, t, H), s.M_ # <<>>, s.M_ \in Seq(Nodes)
  PROVE  /\ Rotated(s, Turn(t), H)
         /\ freq(t, Last(t.M_)) > 0 => \E x \in Hits(t) : Hits(Turn(t)) = Hits(t) \ {x}
         /\ ~ (freq(t, Last(t.M_)) > 0) => Turn(t) = t
<1> DEFINE n == Last(t.M_)
           f == freq(t, n)
           r == SetFreq(t, n, f - 1)
           u == Turn(t)
<1>1. /\ t \in States /\ t.ub = "none" /\ Paired(t) /\ Queued(t, H)
      /\ t.M_ \in Seq(Nodes) /\ Len(t.M_) = Len(s.M_) /\ Len(s.M_) \in Nat
  BY DEF Rotated, Good, States
<1>2. t.M_ # <<>> /\ Len(t.M_) \in Nat \ {0}
  BY <1>1, EmptySeq
<1>3. /\ Front(t.M_) \in Seq(Nodes) /\ Len(Front(t.M_)) = Len(t.M_) - 1
      /\ n \in Nodes /\ ToSet(t.M_) = {n} \cup ToSet(Front(t.M_))
  BY <1>1, <1>2, ToSetFront
<1>4. IsInjective(Front(t.M_)) /\ n \notin ToSet(Front(t.M_))
  <2>1. Lists(t.M_, ToSet(t.M_))
    BY <1>1 DEF Lists, Queued
  <2>2. Lists(Front(t.M_), ToSet(t.M_) \ {n})
    BY <1>1, <1>2, <2>1, ListsPop
  <2> QED BY <2>2 DEF Lists
<1>5. u = IF f > 0 THEN [r EXCEPT !.M_ = <<n>> \o Front(@)] ELSE t
  BY DEF Turn
<1>6. n \in Held(t) /\ n \in DOMAIN t.heap /\ f \in 0 .. 3
  <2>1. n \in Held(t)
    BY <1>1, <1>3 DEF Queued, Pages
  <2> QED BY <1>1, <2>1, FreqType DEF Held
<1>7. CASE f > 0
  <2>1. /\ r \in States /\ r = [t EXCEPT !.heap = r.heap] /\ DOMAIN r.heap = DOMAIN t.heap
        /\ \A m \in DOMAIN t.heap : r.heap[m].key = t.heap[m].key
        /\ freq(r, n) = f - 1 /\ \A m \in DOMAIN t.heap \ {n} : freq(r, m) = freq(t, m)
    <3>1. f - 1 \in -1 .. 3
      BY <1>6, <1>7
    <3> HIDE DEF f
    <3>2. Counted(t, r, n, f - 1)
      BY <1>1, <1>6, <3>1, SetFreqIs
    <3> HIDE DEF r
    <3> QED BY <3>2 DEF Counted
  <2>2. u = [r EXCEPT !.M_ = <<n>> \o Front(@)]
    BY <1>5, <1>7
  <2> HIDE DEF n, f, r, u
  <2>3. r.S_ = t.S_ /\ r.M_ = t.M_ /\ r.G_ = t.G_ /\ r.table_ = t.table_ /\ r.ub = t.ub
    BY <1>1, <2>1 DEF States
  <2> DEFINE M == <<n>> \o Front(t.M_)
  <2>4. /\ M \in Seq(Nodes) /\ ToSet(M) = {n} \cup ToSet(Front(t.M_))
        /\ Len(M) = Len(Front(t.M_)) + 1
    BY <1>3, ToSetPush
  <2>5. IsInjective(M)
    <3>1. Lists(Front(t.M_), ToSet(Front(t.M_)))
      BY <1>4 DEF Lists
    <3> QED BY <1>3, <1>4, <3>1, ListsPush DEF Lists
  <2>6. u = [r EXCEPT !.M_ = M]
    BY <2>1, <2>2, <2>3 DEF States
  <2> HIDE DEF M
  <2>7. /\ u \in States /\ u.S_ = t.S_ /\ u.M_ = M /\ u.G_ = t.G_
        /\ u.table_ = t.table_ /\ u.heap = r.heap /\ u.ub = "none"
    BY <1>1, <2>1, <2>3, <2>4, <2>6 DEF States
  <2>8. freq(u, n) = f - 1 /\ \A m \in DOMAIN t.heap \ {n} : freq(u, m) = freq(t, m)
    BY <2>1, <2>7 DEF freq
  <2>9. Held(u) = Held(t) /\ ToSet(M) = ToSet(t.M_)
    <3>1. f - 1 >= 0
      BY <1>6, <1>7
    <3>2. DOMAIN u.heap = DOMAIN t.heap
      BY <2>1, <2>7
    <3> QED BY <1>3, <1>6, <2>4, <2>8, <3>1, <3>2 DEF Held
  <2>10. Queued(u, H)
    BY <1>1, <2>1, <2>5, <2>7, <2>9 DEF Queued, Pages
  <2>11. Paired(u)
    BY <1>1, <2>1, <2>7 DEF Paired
  <2>12. Rotated(s, u, H)
    <3>1. Good(u, H)
      BY <2>7, <2>10, <2>11 DEF Good
    <3>2. Len(u.M_) = Len(t.M_)
      BY <1>1, <1>3, <2>4, <2>7
    <3> QED BY <2>1, <2>7, <2>9, <3>1, <3>2 DEF Rotated
  <2>13. <<n, f>> \in Hits(t) /\ Hits(u) = Hits(t) \ {<<n, f>>}
    <3>1. /\ Hits(t) = { x \in ToSet(t.M_) \X (1 .. 3) : x[2] <= freq(t, x[1]) }
          /\ Hits(u) = { x \in ToSet(t.M_) \X (1 .. 3) : x[2] <= freq(u, x[1]) }
      BY <2>7, <2>9 DEF Hits
    <3>2. <<n, f>> \in ToSet(t.M_) \X (1 .. 3) /\ f <= freq(t, n)
      BY <1>3, <1>6, <1>7 DEF f
    <3>3. ToSet(t.M_) \subseteq DOMAIN t.heap
      BY <1>1 DEF Queued, Pages, Held
    <3>4. ASSUME NEW x \in ToSet(t.M_) \X (1 .. 3)
          PROVE  x[2] <= freq(u, x[1]) <=> x[2] <= freq(t, x[1]) /\ x # <<n, f>>
      <4>1. PICK m \in ToSet(t.M_), c \in 1 .. 3 : x = <<m, c>>
        OBVIOUS
      <4>2. CASE m = n
        BY <1>6, <2>8, <4>1, <4>2 DEF f
      <4>3. CASE m # n
        BY <2>8, <3>3, <4>1, <4>3
      <4> QED BY <4>2, <4>3
    <3> QED BY <3>1, <3>2, <3>4
  <2> QED BY <1>7, <2>12, <2>13 DEF f, n, u
<1>8. CASE ~ (f > 0)
  BY <1>5, <1>8
<1> QED BY <1>7, <1>8

\* After the turns that MaxTurns allows, the tail of M_ has no hit left.
LEMMA TurnedIs ==
  ASSUME NEW s, NEW H, Good(s, H), s.M_ # <<>>
  PROVE  /\ Rotated(s, Turned(s), H)
         /\ ~ (freq(Turned(s), Last(Turned(s).M_)) > 0)
<1> DEFINE n == MaxTurns(s)
           D == { t \in States : Rotated(s, t, H) }
           P(g) == g = [i \in 0 .. n |-> IF i = 0 THEN s ELSE Turn(g[i - 1])]
           F == [i \in 1 .. n |-> [t \in D |-> Turn(t)]]
           More(t) == freq(t, Last(t.M_)) > 0
<1>1. /\ s.M_ \in Seq(Nodes) /\ Len(s.M_) \in Nat /\ n = 3 * Len(s.M_) /\ n \in Nat
      /\ Rotated(s, s, H) /\ s \in D
  BY DEF MaxTurns, Good, States, Rotated
<1>2. ASSUME NEW t \in D
      PROVE  /\ Turn(t) \in D
             /\ More(t) => \E x \in Hits(t) : Hits(Turn(t)) = Hits(t) \ {x}
             /\ ~ More(t) => Turn(t) = t
  <2>1. Rotated(s, t, H)
    OBVIOUS
  <2> HIDE DEF D
  <2>2. /\ Rotated(s, Turn(t), H)
        /\ More(t) => \E x \in Hits(t) : Hits(Turn(t)) = Hits(t) \ {x}
        /\ ~ More(t) => Turn(t) = t
    BY <1>1, <2>1, TurnIs
  <2> QED BY <2>2 DEF D, Rotated, Good
<1>3. \E g : P(g)
  <2>1. ASSUME NEW i \in 1 .. n, NEW t \in D PROVE F[i][t] = Turn(t)
    OBVIOUS
  <2>2. F \in Steps(n, D)
    BY <1>2 DEF Steps
  <2> HIDE DEF F, D, n
  <2>3. PICK g : Path(g, n, D, s, F)
    BY <1>1, <2>2, Recursion
  <2>4. ASSUME NEW i \in 0 .. n PROVE g[i] = IF i = 0 THEN s ELSE Turn(g[i - 1])
    <3>1. CASE i = 0
      BY <2>3, <3>1 DEF Path
    <3>2. CASE i # 0
      <4>1. i \in 1 .. n /\ i - 1 \in 0 .. n
        BY <3>2, <1>1
      <4>2. g[i - 1] \in D /\ g[i] = F[i][g[i - 1]]
        BY <2>3, <4>1 DEF Path
      <4> QED BY <2>1, <3>2, <4>1, <4>2
    <3> QED BY <3>1, <3>2
  <2>5. g = [i \in 0 .. n |-> IF i = 0 THEN s ELSE Turn(g[i - 1])]
    BY <2>3, <2>4 DEF Path
  <2> QED BY <2>5
<1> DEFINE h == CHOOSE g : P(g)
<1>4. P(h) /\ Turned(s) = h[n]
  <2>1. Turned(s) = h[n]
    BY DEF Turned
  <2> HIDE DEF P
  <2> QED BY <1>3, <2>1
<1> HIDE DEF h, D, n, More
<1>5. h[0] = s /\ \A i \in Nat : i + 1 <= n => h[i + 1] = Turn(h[i])
  BY <1>1, <1>4
<1>6. \A t \in D : IsFiniteSet(Hits(t)) /\ Cardinality(Hits(t)) \in Nat
  BY HitsAtMost, FS_CardinalityType DEF D, Rotated
<1> DEFINE C(i) == Cardinality(Hits(h[i]))
           T == { i \in Nat : i <= n => h[i] \in D /\ (More(h[i]) => C(i) <= n - i) }
<1>7. Nat \subseteq T
  <2>1. 0 \in T
    BY <1>1, <1>5, HitsAtMost
  <2>2. ASSUME NEW i \in Nat, i \in T PROVE i + 1 \in T
    <3> SUFFICES ASSUME i + 1 <= n
                 PROVE  h[i + 1] \in D /\ (More(h[i + 1]) => C(i + 1) <= n - (i + 1))
      OBVIOUS
    <3>1. h[i + 1] = Turn(h[i]) /\ h[i] \in D /\ (More(h[i]) => C(i) <= n - i)
      BY <1>1, <1>5, <2>2
    <3>2. CASE More(h[i])
      <4>1. PICK x \in Hits(h[i]) : Hits(h[i + 1]) = Hits(h[i]) \ {x}
        BY <1>2, <3>1, <3>2
      <4>2. C(i + 1) = C(i) - 1
        BY <1>6, <3>1, <4>1, FS_RemoveElement
      <4>3. C(i) \in Nat /\ C(i) <= n - i
        BY <1>6, <3>1, <3>2
      <4> HIDE DEF C
      <4> QED BY <1>1, <1>2, <3>1, <4>2, <4>3
    <3>3. CASE ~ More(h[i])
      BY <1>2, <3>1, <3>3
    <3> QED BY <3>2, <3>3
  <2>3. \A i \in Nat : i \in T => i + 1 \in T
    BY <2>2
  <2> HIDE DEF T
  <2> QED BY <2>1, <2>3, AllNaturals
<1>8. h[n] \in D /\ (More(h[n]) => Cardinality(Hits(h[n])) <= 0)
  <2>1. n \in T /\ n - n = 0
    BY <1>1, <1>7
  <2> QED BY <1>1, <2>1
<1>9. ~ More(h[n])
  <2> DEFINE t == h[n]
             m == Last(t.M_)
  <2> SUFFICES ASSUME More(t) PROVE FALSE
    OBVIOUS
  <2>1. Hits(t) = {}
    BY <1>6, <1>8, FS_EmptySet
  <2>2. t \in States /\ Rotated(s, t, H) /\ t.M_ \in Seq(Nodes) /\ t.M_ # <<>>
    <3>1. Rotated(s, t, H) /\ t \in States /\ t.M_ \in Seq(Nodes)
      BY <1>8 DEF D, States
    <3> QED BY <1>1, <3>1, EmptySeq DEF Rotated
  <2>3. m \in ToSet(t.M_) /\ m \in DOMAIN t.heap
    <3>1. m \in ToSet(t.M_)
      BY <2>2, ToSetFront
    <3> QED BY <2>2, <3>1 DEF Rotated, Good, Queued, Pages, Held
  <2>4. freq(t, m) \in -1 .. 3 /\ freq(t, m) > 0
    BY <2>2, <2>3, FreqType DEF More
  <2>5. <<m, 1>> \in Hits(t)
    <3>1. <<m, 1>> \in ToSet(t.M_) \X (1 .. 3)
      BY <2>3
    <3> QED BY <2>4, <3>1 DEF Hits
  <2> QED BY <2>1, <2>5
<1> QED BY <1>4, <1>8, <1>9 DEF D, More

\* EvictM takes one page out of M_, a page without hits.
LEMMA EvictMIs ==
  ASSUME NEW s, NEW H, Good(s, H), s.M_ # <<>>, Len(s.G_) <= target_len_m_
  PROVE  LET u == EvictM(s)
         IN Evicted(s, u, H) /\ u.ub = "none" /\ Total(u) = Total(s) - 1
<1> DEFINE t == Turned(s)
           n == Last(t.M_)
           r == [t EXCEPT !.M_ = Front(@)]
           u == EvictM(s)
<1>1. Rotated(s, t, H) /\ ~ (freq(t, n) > 0)
  BY TurnedIs
<1>2. u = Delete(r, n)
  BY <1>1 DEF EvictM
<1> HIDE DEF t
<1>3. /\ t \in States /\ t.ub = "none" /\ Paired(t) /\ Queued(t, H)
      /\ t.M_ \in Seq(Nodes) /\ t.M_ # <<>> /\ t.S_ = s.S_ /\ t.G_ = s.G_
      /\ Len(t.M_) = Len(s.M_) /\ ToSet(t.M_) = ToSet(s.M_) /\ DOMAIN t.heap = DOMAIN s.heap
      /\ \A m \in DOMAIN s.heap : t.heap[m].key = s.heap[m].key
  <2>1. s.M_ \in Seq(Nodes) /\ t.M_ \in Seq(Nodes)
    BY <1>1 DEF Rotated, Good, States
  <2> QED BY <1>1, <2>1, EmptySeq DEF Rotated, Good
<1>4. /\ Front(t.M_) \in Seq(Nodes) /\ Len(Front(t.M_)) = Len(t.M_) - 1
      /\ ToSet(t.M_) = {n} \cup ToSet(Front(t.M_))
  BY <1>3, ToSetFront
<1>5. IsInjective(Front(t.M_)) /\ n \notin ToSet(Front(t.M_))
  <2>1. Lists(t.M_, ToSet(t.M_))
    BY <1>3 DEF Lists, Queued
  <2>2. Lists(Front(t.M_), ToSet(t.M_) \ {n})
    BY <1>3, <2>1, ListsPop
  <2> QED BY <2>2 DEF Lists
<1>6. /\ r \in States /\ r.S_ = t.S_ /\ r.M_ = Front(t.M_) /\ r.G_ = t.G_
      /\ r.table_ = t.table_ /\ r.heap = t.heap /\ r.ub = "none"
  BY <1>3, <1>4 DEF States
<1>7. n \in Held(t) /\ n \notin H /\ n \in DOMAIN t.heap
  BY <1>3, <1>4 DEF Queued, Pages, Held
<1> HIDE DEF n, r, u
<1>8. /\ u \in States /\ Paired(u) /\ SameQueues(r, u)
      /\ DOMAIN u.heap = DOMAIN t.heap \ {n}
      /\ \A m \in DOMAIN u.heap : u.heap[m] = t.heap[m]
  <2>1. Paired(r) /\ n \in DOMAIN r.heap
    BY <1>3, <1>6, <1>7 DEF Paired
  <2> QED BY <1>2, <1>6, <2>1, DeleteIs
<1>9. Held(u) = Held(t) \ {n}
  <2>1. \A m \in DOMAIN u.heap : freq(u, m) = freq(t, m)
    BY <1>8 DEF freq
  <2> QED BY <1>8, <2>1 DEF Held
<1>10. Pages(u) = Pages(t) \ {n} /\ Pages(u) \subseteq Pages(s)
  <2>1. n \notin ToSet(t.S_)
    BY <1>3, <1>4 DEF Queued
  <2> QED BY <1>3, <1>4, <1>5, <1>6, <1>8, <2>1 DEF Pages, SameQueues
<1>11. Queued(u, H)
  BY <1>3, <1>4, <1>5, <1>6, <1>7, <1>8, <1>9, <1>10 DEF Queued, SameQueues
<1>12. Total(u) = Total(s) - 1 /\ Total(u) <= Total(s)
  <2> DEFINE a == Len(s.S_)
             b == Len(s.M_)
  <2>1. a \in Nat /\ b \in Nat /\ Len(u.S_) = a /\ Len(u.M_) = b - 1
    <3>1. s.S_ \in Seq(Nodes) /\ s.M_ \in Seq(Nodes)
      BY DEF Good, States
    <3> QED BY <1>3, <1>4, <1>6, <1>8, <3>1 DEF SameQueues
  <2>2. Total(u) = Len(u.S_) + Len(u.M_) /\ Total(s) = a + b
    BY DEF Total
  <2> HIDE DEF a, b
  <2> QED BY <2>1, <2>2
<1>13. Evicted(s, u, H) /\ u.ub = "none"
  <2>1. Good(u, H)
    BY <1>6, <1>8, <1>11 DEF Good, SameQueues
  <2>2. \A m \in DOMAIN u.heap : m \in DOMAIN s.heap /\ u.heap[m].key = s.heap[m].key
    BY <1>3, <1>8
  <2> QED BY <1>3, <1>6, <1>8, <1>10, <1>12, <2>1, <2>2 DEF Evicted, SameQueues
<1> QED BY <1>12, <1>13 DEF u

-----------------------------------------------------------------------------
(* EnsureFree *)

LEMMA EvictedAgain ==
  ASSUME NEW s, NEW r, NEW t, NEW H, Evicted(s, r, H), Evicted(r, t, H),
         Total(s) \in Nat, Total(r) \in Nat, Total(t) \in Nat
  PROVE  Evicted(s, t, H)
BY DEF Evicted

LEMMA TotalIs ==
  ASSUME NEW s \in States
  PROVE  /\ Total(s) \in Nat /\ Len(s.S_) \in Nat /\ Len(s.M_) \in Nat
         /\ s.S_ = <<>> <=> Len(s.S_) = 0
         /\ s.M_ = <<>> <=> Len(s.M_) = 0
<1>1. s.S_ \in Seq(Nodes) /\ s.M_ \in Seq(Nodes)
  BY DEF States
<1>2. Len(s.S_) \in Nat /\ Len(s.M_) \in Nat
  BY <1>1
<1>3. \A a, b \in Nat : a + b \in Nat
  OBVIOUS
<1>4. Total(s) \in Nat
  BY <1>2, <1>3 DEF Total
<1> QED BY <1>1, <1>2, <1>4, EmptySeq

\* A round of the loop: either it makes room, or S_ is empty after it.
LEMMA RoundIs ==
  ASSUME NEW s, NEW H, Good(s, H), Bounds(s)
  PROVE  LET r == EnsureRound(s)
         IN /\ Evicted(s, r, H) /\ Total(r) \in Nat
            /\ Total(s) < buffer_size => r = s
            /\ r.ub = "none" => Total(r) < buffer_size \/ r.S_ = <<>>
            /\ s.S_ = <<>> => Total(r) < buffer_size
<1> DEFINE r == EnsureRound(s)
           a == Len(s.S_)
           b == Len(s.M_)
           c == buffer_size
<1>1. /\ s \in States /\ s.ub = "none" /\ Len(s.G_) <= target_len_m_ /\ Evicted(s, s, H)
      /\ Total(s) <= c /\ Total(s) = a + b
  BY EvictedNothing DEF Good, Bounds, Total
<1>2. a \in Nat /\ b \in Nat /\ (s.S_ = <<>> => a = 0) /\ (s.M_ = <<>> => b = 0)
  BY <1>1, TotalIs
<1>3. c \in Nat \ {0} /\ target_len_m_ \in Nat \ {0}
  BY Sizes
<1>4. Full(s) => a + b >= c
  BY DEF Full
<1>5. ~ Full(s) => ~ (a + b >= c)
  BY <1>1 DEF Full
<1>6. Full(s) /\ ~ (b >= target_len_m_ \/ s.S_ = <<>>) => r = EvictS(s)
  BY DEF EnsureRound, Evict
<1>7. Full(s) /\ (b >= target_len_m_ \/ s.S_ = <<>>) => r = EvictM(s)
  BY DEF EnsureRound, Evict
<1>8. ~ Full(s) => r = s
  BY DEF EnsureRound
<1> HIDE DEF a, b, c, r
<1>9. CASE ~ Full(s)
  <2>1. r = s /\ Total(s) < c /\ Total(s) \in Nat
    BY <1>1, <1>2, <1>3, <1>5, <1>8, <1>9
  <2> QED BY <1>1, <2>1 DEF r, c
<1>10. CASE Full(s) /\ (b >= target_len_m_ \/ s.S_ = <<>>)
  <2>1. Total(s) = c
    BY <1>1, <1>2, <1>3, <1>4, <1>10
  <2>2. s.M_ # <<>>
    BY <1>1, <1>2, <1>3, <1>10, <2>1
  <2>3. Evicted(s, r, H) /\ r.ub = "none" /\ Total(r) = Total(s) - 1
    BY <1>1, <1>7, <1>10, <2>2, EvictMIs
  <2> QED BY <1>3, <2>1, <2>3 DEF r, c
<1>11. CASE Full(s) /\ ~ (b >= target_len_m_ \/ s.S_ = <<>>)
  <2>1. Total(s) = c
    BY <1>1, <1>2, <1>3, <1>4, <1>11
  <2>2. Evicted(s, r, H) /\ (r.ub = "none" => r.S_ = <<>>)
    BY <1>1, <1>6, <1>11, EvictSIs
  <2>3. Total(r) \in Nat
    BY <2>2, TotalIs DEF Evicted
  <2> QED BY <1>3, <1>11, <2>1, <2>2, <2>3 DEF r, c
<1> QED BY <1>9, <1>10, <1>11

\* Two rounds of EnsureFree are enough for its loop to end.
LEMMA EnsureFreeIs ==
  ASSUME NEW s, NEW H, Good(s, H), Bounds(s)
  PROVE  LET t == EnsureFree(s)
         IN /\ Evicted(s, t, H) /\ Total(t) \in Nat
            /\ Total(s) < buffer_size => t = s
            /\ t.ub = "none" => Total(t) < buffer_size
<1> DEFINE r == EnsureRound(s)
           t == EnsureFree(s)
<1>1. /\ Evicted(s, r, H) /\ Total(r) \in Nat
      /\ Total(s) < buffer_size => r = s
      /\ r.ub = "none" => Total(r) < buffer_size \/ r.S_ = <<>>
  BY RoundIs
<1>2. s \in States /\ Total(s) \in Nat /\ Total(s) <= buffer_size /\ buffer_size \in Nat
  BY TotalIs, Sizes DEF Good, Bounds
<1>3. t = EnsureRound(r)
  BY DEF EnsureFree
<1> HIDE DEF r, t
<1>4. CASE r.ub # "none"
  <2>1. t = r
    BY <1>3, <1>4 DEF EnsureRound, Full
  <2>2. ~ (Total(s) < buffer_size)
    BY <1>1, <1>4 DEF Good
  <2> QED BY <1>1, <1>4, <2>1, <2>2 DEF t
<1>5. CASE r.ub = "none"
  <2>1. Good(r, H) /\ Bounds(r)
    BY <1>1, <1>2, <1>5 DEF Evicted, Bounds
  <2>2. /\ Evicted(r, t, H) /\ Total(t) \in Nat
        /\ Total(r) < buffer_size => t = r
        /\ r.S_ = <<>> => Total(t) < buffer_size
    BY <1>3, <2>1, RoundIs
  <2>3. Evicted(s, t, H)
    BY <1>1, <1>2, <2>2, EvictedAgain
  <2>4. Total(t) < buffer_size
    BY <1>1, <1>5, <2>2
  <2>5. Total(s) < buffer_size => t = s
    BY <1>1, <2>2
  <2> QED BY <2>2, <2>3, <2>4, <2>5 DEF t
<1> QED BY <1>4, <1>5

-----------------------------------------------------------------------------
(* access *)

\* The keys that are resident
Res(s) == { s.heap[n].key : n \in Pages(s) \cap DOMAIN s.heap }

\* What an access does to them: a hit leaves them; after a miss, or a hit on a
\* ghost, fewer are left, all if there was room, and the key comes in.
Keeps(s, t, key) == key \in Res(s) /\ Res(t) = Res(s)
Loads(s, t, key) ==
  /\ key \notin Res(s)
  /\ \E u : /\ Good(u, {}) \/ \E n : Good(u, {n})
            /\ Res(u) \subseteq Res(s) /\ Res(t) = Res(u) \cup {key}
            /\ Total(u) < buffer_size
            /\ Total(s) < buffer_size => Res(u) = Res(s)

Accesses(s, t, key) ==
  /\ t \in States /\ Bounds(t) /\ (t.ub = "none" => Good(t, {}))
  /\ t.ub = "none" => Keeps(s, t, key) \/ Loads(s, t, key)

LEMMA HitIs ==
  ASSUME NEW key \in Keys, Good(q, {}), Bounds(q), Hit(key)
  PROVE  Accesses(q, q', key)
<1> DEFINE n == q.table_[key]
           f == Min({freq(q, n) + 1, 3})
<1>1. /\ q \in States /\ q.ub = "none" /\ Paired(q) /\ Queued(q, {})
      /\ key \in DOMAIN q.table_ /\ freq(q, n) >= 0 /\ q' = SetFreq(q, n, f)
  BY DEF Good, Hit
<1>2. n \in DOMAIN q.heap /\ q.heap[n].key = key /\ n \in Held(q)
  BY <1>1 DEF Paired, Held
<1>3. freq(q, n) \in 0 .. 3
  BY <1>1, <1>2, FreqType
<1>4. f \in 0 .. 3
  <2>1. freq(q, n) + 1 \in Nat /\ 3 \in Nat
    BY <1>3
  <2>2. f = IF freq(q, n) + 1 < 3 THEN freq(q, n) + 1 ELSE 3
    BY <2>1, MinOfTwo
  <2> QED BY <1>3, <2>2
<1> HIDE DEF n, f
<1> DEFINE t == q'
<1>5. /\ t \in States /\ t = [q EXCEPT !.heap = t.heap] /\ DOMAIN t.heap = DOMAIN q.heap
      /\ \A m \in DOMAIN q.heap : t.heap[m].key = q.heap[m].key
      /\ freq(t, n) = f /\ \A m \in DOMAIN q.heap \ {n} : freq(t, m) = freq(q, m)
  <2>1. f \in -1 .. 3
    BY <1>4
  <2>2. Counted(q, t, n, f)
    BY <1>1, <1>2, <2>1, SetFreqIs
  <2> HIDE DEF t
  <2> QED BY <2>2 DEF Counted
<1>6. t.S_ = q.S_ /\ t.M_ = q.M_ /\ t.G_ = q.G_ /\ t.table_ = q.table_ /\ t.ub = q.ub
  BY <1>1, <1>5 DEF States
<1> HIDE DEF t
<1>7. Held(t) = Held(q) /\ Pages(t) = Pages(q) /\ Total(t) = Total(q)
  <2>1. f >= 0
    BY <1>4
  <2>2. Held(t) = Held(q)
    BY <1>2, <1>5, <2>1 DEF Held
  <2> QED BY <1>6, <2>2 DEF Pages, Total
<1>8. Good(t, {})
  <2>1. Queued(t, {})
    BY <1>1, <1>5, <1>6, <1>7 DEF Queued
  <2>2. Paired(t)
    BY <1>1, <1>5, <1>6 DEF Paired
  <2> QED BY <1>1, <1>5, <1>6, <2>1, <2>2 DEF Good
<1>9. Keeps(q, t, key)
  <2>1. n \in Pages(q) \cap DOMAIN q.heap
    BY <1>1, <1>2 DEF Queued
  <2>2. Res(t) = Res(q)
    BY <1>5, <1>7 DEF Res
  <2> QED BY <1>2, <2>1, <2>2 DEF Keeps, Res
<1>10. Bounds(t)
  BY <1>6, <1>7 DEF Bounds
<1> QED BY <1>5, <1>8, <1>9, <1>10 DEF Accesses, t

\* Room is made for a page that access has in hand.
LEMMA MakesRoom ==
  ASSUME NEW s, NEW n, Good(s, {n}), Bounds(s)
  PROVE  LET t == EnsureFree(s)
         IN /\ t \in States /\ Bounds(t)
            /\ t.ub = "none" =>
                 /\ Good(t, {n}) /\ Total(t) < buffer_size
                 /\ n \in DOMAIN t.heap /\ t.heap[n].key = s.heap[n].key
                 /\ Res(t) \subseteq Res(s)
                 /\ Total(s) < buffer_size => Res(t) = Res(s)
<1> DEFINE t == EnsureFree(s)
<1>1. /\ Evicted(s, t, {n}) /\ Total(t) \in Nat
      /\ Total(s) < buffer_size => t = s
      /\ t.ub = "none" => Total(t) < buffer_size
  BY EnsureFreeIs
<1> HIDE DEF t
<1>2. t \in States /\ Bounds(t)
  <2>1. Total(s) \in Nat /\ Total(s) <= buffer_size /\ buffer_size \in Nat
    BY TotalIs, Sizes DEF Good, Bounds
  <2> QED BY <1>1, <2>1 DEF Evicted, Bounds
<1>3. ASSUME t.ub = "none"
      PROVE  /\ Good(t, {n}) /\ n \in DOMAIN t.heap /\ t.heap[n].key = s.heap[n].key
             /\ Res(t) \subseteq Res(s)
  <2>1. Good(t, {n}) /\ n \in DOMAIN t.heap
    BY <1>1, <1>3 DEF Evicted, Good, Queued, Held
  <2>2. \A m \in DOMAIN t.heap : m \in DOMAIN s.heap /\ t.heap[m].key = s.heap[m].key
    BY <1>1 DEF Evicted
  <2>3. Res(t) \subseteq Res(s)
    BY <1>1, <2>2 DEF Evicted, Res
  <2> QED BY <2>1, <2>2, <2>3
<1> QED BY <1>1, <1>2, <1>3 DEF t

\* The page that comes in has no place in the queues yet.
LEMMA NotResident ==
  ASSUME NEW s, NEW H, Good(s, H), NEW n \in DOMAIN s.heap, n \notin Pages(s)
  PROVE  s.heap[n].key \notin Res(s)
<1>1. Paired(s)
  BY DEF Good
<1> QED BY <1>1 DEF Paired, Res

LEMMA HitGhostIs ==
  ASSUME NEW key \in Keys, Good(q, {}), Bounds(q), HitGhost(key)
  PROVE  Accesses(q, q', key)
<1> DEFINE n == q.table_[key]
           r == SetFreq(q, n, 0)
           s == EnsureFree(r)
           t == q'
<1>1. /\ q \in States /\ q.ub = "none" /\ Paired(q) /\ Queued(q, {})
      /\ key \in DOMAIN q.table_ /\ freq(q, n) < 0
      /\ t = IF s.ub # "none" THEN s ELSE InsertM(s, n)
  BY DEF Good, HitGhost
<1>2. /\ n \in DOMAIN q.heap /\ q.heap[n].key = key /\ n \in Nodes
      /\ n \notin Held(q) /\ n \notin Pages(q)
  <2>1. n \in DOMAIN q.heap /\ q.heap[n].key = key
    BY <1>1 DEF Paired
  <2>2. freq(q, n) \in -1 .. 3 /\ n \in Nodes
    BY <1>1, <2>1, FreqType
  <2>3. n \notin Held(q)
    BY <1>1, <2>2 DEF Held
  <2> QED BY <1>1, <2>1, <2>2, <2>3 DEF Queued
<1> HIDE DEF n
<1>3. /\ r \in States /\ r = [q EXCEPT !.heap = r.heap] /\ DOMAIN r.heap = DOMAIN q.heap
      /\ \A m \in DOMAIN q.heap : r.heap[m].key = q.heap[m].key
      /\ freq(r, n) = 0 /\ \A m \in DOMAIN q.heap \ {n} : freq(r, m) = freq(q, m)
  <2>1. Counted(q, r, n, 0)
    BY <1>1, <1>2, SetFreqIs
  <2> HIDE DEF r
  <2> QED BY <2>1 DEF Counted
<1> HIDE DEF r, s
<1>4. r.S_ = q.S_ /\ r.M_ = q.M_ /\ r.G_ = q.G_ /\ r.table_ = q.table_ /\ r.ub = q.ub
  BY <1>1, <1>3 DEF States
<1>5. Held(r) = Held(q) \cup {n} /\ Pages(r) = Pages(q) /\ Total(r) = Total(q)
  <2>1. Held(r) = Held(q) \cup {n}
    BY <1>2, <1>3 DEF Held
  <2> QED BY <1>4, <2>1 DEF Pages, Total
<1>6. Good(r, {n}) /\ Bounds(r) /\ Res(r) = Res(q)
  <2>1. Queued(r, {n})
    BY <1>1, <1>2, <1>3, <1>4, <1>5 DEF Queued
  <2>2. Paired(r)
    BY <1>1, <1>3, <1>4 DEF Paired
  <2>3. Res(r) = Res(q)
    BY <1>3, <1>5 DEF Res
  <2>4. Bounds(r)
    BY <1>4, <1>5 DEF Bounds
  <2> QED BY <1>1, <1>3, <1>4, <2>1, <2>2, <2>3, <2>4 DEF Good
<1>7. /\ s \in States /\ Bounds(s)
      /\ s.ub = "none" =>
           /\ Good(s, {n}) /\ Total(s) < buffer_size
           /\ n \in DOMAIN s.heap /\ s.heap[n].key = r.heap[n].key
           /\ Res(s) \subseteq Res(r)
           /\ Total(r) < buffer_size => Res(s) = Res(r)
  BY <1>6, MakesRoom DEF s
<1>8. CASE s.ub # "none"
  BY <1>1, <1>7, <1>8 DEF Accesses
<1>9. CASE s.ub = "none"
  <2>1. t = InsertM(s, n)
    BY <1>1, <1>9
  <2> HIDE DEF t
  <2>2. /\ Good(t, {}) /\ t.S_ = s.S_ /\ t.M_ = <<n>> \o s.M_ /\ t.G_ = s.G_
        /\ DOMAIN t.heap = DOMAIN s.heap
        /\ \A m \in DOMAIN s.heap : t.heap[m].key = s.heap[m].key
    <3>1. {} \cup {n} = {n} /\ n \notin {}
      OBVIOUS
    <3>2. Good(s, {} \cup {n})
      BY <1>7, <1>9, <3>1
    <3> QED BY <2>1, <3>1, <3>2, InsertMIs
  <2>3. s.M_ \in Seq(Nodes) /\ n \in Nodes
    BY <1>2, <1>7 DEF States
  <2>4. Len(t.M_) = Len(s.M_) + 1 /\ ToSet(t.M_) = {n} \cup ToSet(s.M_)
    BY <2>2, <2>3, ToSetPush
  <2>5. Total(t) = Total(s) + 1
    <3> DEFINE a == Len(s.S_)
               b == Len(s.M_)
    <3>1. a \in Nat /\ b \in Nat
      BY <1>7, TotalIs
    <3>2. Total(s) = a + b /\ Total(t) = a + (b + 1)
      BY <2>2, <2>4 DEF Total
    <3> HIDE DEF a, b
    <3> QED BY <3>1, <3>2
  <2>6. Bounds(t)
    <3>1. Total(s) \in Nat /\ buffer_size \in Nat
      BY <1>7, TotalIs, Sizes
    <3> QED BY <1>7, <1>9, <2>2, <2>5, <3>1 DEF Bounds
  <2>7. Res(t) = Res(s) \cup {key}
    <3>1. Pages(t) = Pages(s) \cup {n}
      BY <2>2, <2>4 DEF Pages
    <3>2. n \in DOMAIN s.heap /\ s.heap[n].key = key
      BY <1>2, <1>3, <1>7, <1>9
    <3> QED BY <2>2, <3>1, <3>2 DEF Res
  <2>8. Loads(q, t, key)
    <3>1. key \notin Res(q)
      BY <1>2, NotResident
    <3> QED BY <1>5, <1>6, <1>7, <1>9, <2>7, <3>1 DEF Loads
  <2> QED BY <2>2, <2>6, <2>8 DEF Accesses, Good, t
<1> QED BY <1>8, <1>9

\* The node of a page that was not known is in hand, too.
LEMMA NewNode ==
  ASSUME NEW key \in Keys, NEW n \in Nodes \ DOMAIN q.heap, Good(q, {}), Bounds(q),
         key \notin DOMAIN q.table_
  PROVE  LET r == [q EXCEPT !.table_ = Put(@, key, n),
                            !.heap = Put(@, n, [key |-> key, freq |-> 0])]
         IN /\ Good(r, {n}) /\ Bounds(r) /\ Res(r) = Res(q) /\ Total(r) = Total(q)
            /\ r.heap[n].key = key /\ n \notin Pages(r) /\ n \in DOMAIN r.heap
<1> DEFINE p == [key |-> key, freq |-> 0]
           T == Put(q.table_, key, n)
           h == Put(q.heap, n, p)
           r == [q EXCEPT !.table_ = T, !.heap = h]
<1>1. /\ q \in States /\ q.ub = "none" /\ Paired(q) /\ Queued(q, {})
      /\ q.table_ \in Tables /\ q.heap \in Heaps
  BY DEF Good, States
<1>2. p \in Page /\ p.key = key /\ p.freq = 0
  BY DEF Page
<1> HIDE DEF p
<1>3. /\ DOMAIN T = DOMAIN q.table_ \cup {key} /\ T = [x \in DOMAIN T |-> T[x]]
      /\ T[key] = n /\ \A x \in DOMAIN q.table_ : T[x] = q.table_[x]
      /\ DOMAIN h = DOMAIN q.heap \cup {n} /\ h = [m \in DOMAIN h |-> h[m]]
      /\ h[n] = p /\ \A m \in DOMAIN q.heap : h[m] = q.heap[m]
  BY DEF Put
<1> HIDE DEF T, h
<1>4. T \in Tables /\ h \in Heaps
  BY <1>1, <1>2, <1>3, TableIs, HeapIs
<1>5. /\ r \in States /\ r.S_ = q.S_ /\ r.M_ = q.M_ /\ r.G_ = q.G_ /\ r.table_ = T
      /\ r.heap = h /\ r.ub = "none"
  BY <1>1, <1>4 DEF States
<1> HIDE DEF r
<1>6. Pages(r) = Pages(q) /\ Total(r) = Total(q) /\ Pages(q) = Held(q) /\ n \notin Held(q)
  BY <1>1, <1>5 DEF Pages, Total, Queued, Held
<1>7. Held(r) = Held(q) \cup {n}
  <2>1. \A m \in DOMAIN q.heap : freq(r, m) = freq(q, m)
    BY <1>3, <1>5 DEF freq
  <2>2. freq(r, n) = 0
    BY <1>2, <1>3, <1>5 DEF freq
  <2> QED BY <1>3, <1>5, <2>1, <2>2 DEF Held
<1>8. Queued(r, {n})
  BY <1>1, <1>3, <1>5, <1>6, <1>7 DEF Queued
<1>9. Paired(r)
  <2>1. \A m \in DOMAIN q.heap : q.heap[m].key # key
    BY <1>1 DEF Paired
  <2>2. \A x \in DOMAIN q.table_ : q.table_[x] # n
    BY <1>1 DEF Paired
  <2> QED BY <1>1, <1>2, <1>3, <1>5, <2>1, <2>2 DEF Paired
<1>10. Res(r) = Res(q)
  BY <1>3, <1>5, <1>6 DEF Res, Held
<1>11. Bounds(r)
  BY <1>5, <1>6 DEF Bounds
<1> QED BY <1>2, <1>3, <1>5, <1>6, <1>8, <1>9, <1>10, <1>11 DEF Good, r, T, h, p

LEMMA MissIs ==
  ASSUME NEW key \in Keys, Good(q, {}), Bounds(q), Miss(key)
  PROVE  Accesses(q, q', key)
<1>1. key \notin DOMAIN q.table_
  BY DEF Miss
<1>2. PICK n \in Nodes \ DOMAIN q.heap :
        LET s == EnsureFree([q EXCEPT !.table_ = Put(@, key, n),
                                      !.heap = Put(@, n, [key |-> key, freq |-> 0])])
        IN q' = IF s.ub # "none" THEN s ELSE [s EXCEPT !.S_ = <<n>> \o @]
  BY DEF Miss
<1> DEFINE r == [q EXCEPT !.table_ = Put(@, key, n),
                          !.heap = Put(@, n, [key |-> key, freq |-> 0])]
           s == EnsureFree(r)
           t == q'
<1>3. t = IF s.ub # "none" THEN s ELSE [s EXCEPT !.S_ = <<n>> \o @]
  BY <1>2
<1>4. /\ Good(r, {n}) /\ Bounds(r) /\ Res(r) = Res(q) /\ Total(r) = Total(q)
      /\ r.heap[n].key = key /\ n \notin Pages(r) /\ n \in DOMAIN r.heap
  BY <1>1, NewNode
<1> HIDE DEF r
<1>5. /\ s \in States /\ Bounds(s)
      /\ s.ub = "none" =>
           /\ Good(s, {n}) /\ Total(s) < buffer_size
           /\ n \in DOMAIN s.heap /\ s.heap[n].key = r.heap[n].key
           /\ Res(s) \subseteq Res(r)
           /\ Total(r) < buffer_size => Res(s) = Res(r)
  BY <1>4, MakesRoom
<1> HIDE DEF s
<1>6. CASE s.ub # "none"
  BY <1>3, <1>5, <1>6 DEF Accesses
<1>7. CASE s.ub = "none"
  <2>1. t = [s EXCEPT !.S_ = <<n>> \o @]
    BY <1>3, <1>7
  <2> HIDE DEF t
  <2>2. s.S_ \in Seq(Nodes) /\ n \in Nodes
    BY <1>5 DEF States
  <2>3. /\ <<n>> \o s.S_ \in Seq(Nodes) /\ Len(<<n>> \o s.S_) = Len(s.S_) + 1
        /\ ToSet(<<n>> \o s.S_) = {n} \cup ToSet(s.S_)
    BY <2>2, ToSetPush
  <2>4. /\ t \in States /\ t.S_ = <<n>> \o s.S_ /\ t.M_ = s.M_ /\ t.G_ = s.G_
        /\ t.table_ = s.table_ /\ t.heap = s.heap /\ t.ub = "none"
    BY <1>5, <1>7, <2>1, <2>3 DEF States
  <2>5. Queued(s, {n}) /\ Paired(s)
    BY <1>5, <1>7 DEF Good
  <2>6. n \notin ToSet(s.S_) /\ n \notin ToSet(s.M_)
    BY <2>5 DEF Queued, Pages
  <2>7. IsInjective(t.S_)
    <3>1. Lists(s.S_, ToSet(s.S_))
      BY <2>5 DEF Lists, Queued
    <3> QED BY <2>2, <2>4, <2>6, <3>1, ListsPush DEF Lists
  <2>8. Held(t) = Held(s) /\ Pages(t) = Pages(s) \cup {n}
    BY <2>3, <2>4 DEF Held, Pages, freq
  <2>9. Queued(t, {})
    BY <2>3, <2>4, <2>5, <2>6, <2>7, <2>8 DEF Queued
  <2>10. Paired(t)
    BY <2>4, <2>5 DEF Paired
  <2>11. Good(t, {})
    BY <2>4, <2>9, <2>10 DEF Good
  <2>12. Bounds(t)
    <3> DEFINE a == Len(s.S_)
               b == Len(s.M_)
    <3>1. a \in Nat /\ b \in Nat /\ buffer_size \in Nat
      BY <1>5, TotalIs, Sizes
    <3>2. Total(s) = a + b /\ Total(t) = (a + 1) + b
      BY <2>3, <2>4 DEF Total
    <3>3. Total(s) < buffer_size /\ Len(t.G_) <= target_len_m_
      BY <1>5, <1>7, <2>4 DEF Bounds
    <3> HIDE DEF a, b
    <3>4. Total(t) <= buffer_size
      BY <3>1, <3>2, <3>3
    <3> QED BY <3>3, <3>4 DEF Bounds
  <2>13. Res(t) = Res(s) \cup {key}
    BY <1>4, <1>5, <1>7, <2>4, <2>8 DEF Res
  <2>14. Loads(q, t, key)
    <3>1. key \notin Res(q)
      BY <1>4, NotResident
    <3> QED BY <1>4, <1>5, <1>7, <2>13, <3>1 DEF Loads
  <2> QED BY <2>4, <2>11, <2>12, <2>14 DEF Accesses, t
<1> QED BY <1>6, <1>7

\* Every access keeps what holds of a state, and is one of a cache.
LEMMA AccessIs ==
  ASSUME NEW key \in Keys, IInv, access(key)
  PROVE  Accesses(q, q', key)
<1>1. Good(q, {}) /\ Bounds(q)
  BY DEF IInv, access
<1>2. Hit(key) \/ HitGhost(key) \/ Miss(key)
  BY DEF access
<1> QED BY <1>1, <1>2, HitIs, HitGhostIs, MissIs

-----------------------------------------------------------------------------
(* The invariant *)

LEMMA Initially ==
  ASSUME Init
  PROVE  IInv
<1>1. /\ q.S_ = <<>> /\ q.M_ = <<>> /\ q.G_ = <<>>
      /\ q.table_ = NoEntries /\ q.heap = NoEntries /\ q.ub = "none"
      /\ q = [S_ |-> q.S_, M_ |-> q.M_, G_ |-> q.G_, table_ |-> q.table_,
              heap |-> q.heap, ub |-> q.ub]
  BY DEF Init
<1>2. DOMAIN NoEntries = {} /\ NoEntries = [x \in DOMAIN NoEntries |-> NoEntries[x]]
  BY DEF NoEntries
<1>3. NoEntries \in Tables /\ NoEntries \in Heaps
  BY <1>2, TableIs, HeapIs
<1>4. <<>> \in Seq(Nodes) /\ Len(<<>>) = 0 /\ ToSet(<<>>) = {} /\ IsInjective(<<>>)
  BY DEF ToSet, IsInjective
<1>5. q \in States
  BY <1>1, <1>3, <1>4 DEF States
<1>6. Held(q) = {} /\ Pages(q) = {} /\ Total(q) = 0
  BY <1>1, <1>2, <1>4 DEF Held, Pages, Total
<1>7. Bounds(q)
  BY <1>1, <1>4, <1>6, Sizes DEF Bounds
<1>8. Queued(q, {}) /\ Paired(q)
  BY <1>1, <1>2, <1>4, <1>6 DEF Queued, Paired
<1> QED BY <1>1, <1>5, <1>7, <1>8 DEF IInv, Good

\* The sizes, the exact table and the sound use of nodes hold in every state,
\* until and unless a freed node is read.
THEOREM S3FIFOInvariance == Spec => []IInv
<1>1. Init => IInv
  BY Initially
<1>2. IInv /\ [Next]_q => IInv'
  <2> SUFFICES ASSUME IInv, [Next]_q
               PROVE  IInv'
    OBVIOUS
  <2>1. CASE UNCHANGED q
    BY <2>1 DEF IInv
  <2>2. CASE Next
    <3>1. PICK key \in Keys : access(key)
      BY <2>2 DEF Next
    <3>2. q' \in States /\ Bounds(q') /\ (q'.ub = "none" => Good(q', {}))
      BY <3>1, AccessIs DEF Accesses
    <3> QED BY <3>2 DEF IInv
  <2> QED BY <2>1, <2>2
<1> QED BY <1>1, <1>2, PTL DEF Spec

\* The buffer and the ghost queue are never over their size, and the count of a
\* page never leaves -1 .. 3 (s3fifo_replacer.h:49, 95).
THEOREM CapacityHolds == Spec => []Capacity
<1>1. IInv => Capacity
  <2> SUFFICES ASSUME IInv
               PROVE  Capacity
    OBVIOUS
  <2>1. q.heap \in Heaps
    BY DEF IInv, States
  <2>2. \A n \in DOMAIN q.heap : q.heap[n] \in Page
    BY <2>1, HeapIs
  <2> QED BY <2>2 DEF IInv, Bounds, Total, Capacity, Page
<1> QED BY <1>1, S3FIFOInvariance, PTL

\* table_ finds exactly the live nodes, each in its one place, however many
\* stale pointers the hits on ghosts left in G_ (s3fifo_replacer.h:30-33).
THEOREM TableExactHolds == Spec => []TableExact
<1>1. IInv => TableExact
  <2> SUFFICES ASSUME IInv, q.ub = "none"
               PROVE  TableExact
    BY DEF TableExact
  <2>1. q \in States /\ Paired(q) /\ Queued(q, {})
    BY DEF IInv, Good
  <2>2. IsInjective(q.S_ \o q.M_)
    <3>1. q.S_ \in Seq(Nodes) /\ q.M_ \in Seq(Nodes)
      BY <2>1 DEF States
    <3>2. /\ Lists(q.S_, ToSet(q.S_)) /\ Lists(q.M_, ToSet(q.M_))
          /\ ToSet(q.S_) \cap ToSet(q.M_) = {}
      BY <2>1 DEF Queued, Lists
    <3> QED BY <3>1, <3>2, ListsConcat DEF Lists
  <2>3. Cached = { n \in DOMAIN q.heap : freq(q, n) >= 0 }
    BY <2>1 DEF Queued, Cached, Pages, Held
  <2>4. DOMAIN q.heap \subseteq Cached \cup ToSet(q.G_)
    BY <2>1, <2>3 DEF Queued, Held
  <2> QED BY <2>1, <2>2, <2>3, <2>4 DEF TableExact, Paired, Live
<1> QED BY <1>1, S3FIFOInvariance, PTL

\* EvictM is never asked for a page it does not have, and its loop ends
\* (s3fifo_replacer.h:57-71).
THEOREM AssertAlwaysHolds == Spec => []AssertHolds
<1>1. IInv => AssertHolds
  BY DEF IInv, States, AssertHolds
<1> QED BY <1>1, S3FIFOInvariance, PTL

-----------------------------------------------------------------------------
(* The refinement *)

LEMMA SameCardinality == \A S : Cache!Cardinality(S) = Cardinality(S)
BY DEF Cache!Cardinality, Cardinality

\* As many keys are resident as pages are in the queues.
LEMMA ResidentCount ==
  ASSUME NEW s, NEW H, Good(s, H)
  PROVE  IsFiniteSet(Res(s)) /\ Cardinality(Res(s)) = Total(s)
<1>1. s \in States /\ Paired(s) /\ Queued(s, H)
  BY DEF Good
<1>2. /\ s.S_ \in Seq(Nodes) /\ s.M_ \in Seq(Nodes) /\ ToSet(s.S_) \cap ToSet(s.M_) = {}
      /\ Lists(s.S_, ToSet(s.S_)) /\ Lists(s.M_, ToSet(s.M_))
  BY <1>1 DEF States, Queued, Lists
<1> DEFINE L == s.S_ \o s.M_
           P == Pages(s)
           k == [n \in P |-> s.heap[n].key]
<1>3. L \in Seq(Nodes) /\ Lists(L, P) /\ Len(L) = Total(s)
  BY <1>2, ListsConcat DEF Pages, Total
<1>4. IsFiniteSet(P) /\ Cardinality(P) = Total(s)
  BY <1>3, ListsLength
<1>5. P \subseteq DOMAIN s.heap /\ \A n \in P : s.table_[s.heap[n].key] = n
  BY <1>1 DEF Queued, Held, Paired
<1> HIDE DEF P
<1>6. Res(s) = { s.heap[n].key : n \in P }
  BY <1>5 DEF Res, P
<1>7. k \in Bijection(P, Res(s))
  <2>1. k \in [P -> Res(s)]
    BY <1>6
  <2>2. \A m, n \in P : k[m] = k[n] => m = n
    BY <1>5
  <2>3. \A x \in Res(s) : \E n \in P : k[n] = x
    BY <1>6
  <2> HIDE DEF k
  <2> QED BY <2>1, <2>2, <2>3 DEF Bijection, Injection, Surjection, IsInjective
<1> QED BY <1>4, <1>7, FS_Bijection DEF ExistsBijection

\* Until a freed node is read, S3FIFO is a cache that evicts on a miss only,
\* and from a full buffer: it implements DemandCache, all of S_ at once.
THEOREM S3FIFOImplements == Spec => Implements
<1>1. IInv /\ [Next]_q => [q'.ub = "none" => Cache!Next]_(Cached \cap DOMAIN q.heap)
  <2> SUFFICES ASSUME IInv, [Next]_q, q'.ub = "none",
                      (Cached \cap DOMAIN q.heap)' # (Cached \cap DOMAIN q.heap)
               PROVE  Cache!Next
    OBVIOUS
  <2>1. q' # q
    BY DEF Cached
  <2>2. PICK key \in Keys : access(key)
    BY <2>1 DEF Next
  <2>3. Keeps(q, q', key) \/ Loads(q, q', key)
    BY <2>2, AccessIs DEF Accesses
  <2> DEFINE R == { q.heap[n].key : n \in Cached \cap DOMAIN q.heap }
  <2>4. R = Res(q) /\ R' = Res(q')
    BY DEF Res, Cached, Pages
  <2> HIDE DEF R
  <2>5. CASE Keeps(q, q', key)
    <3>1. Cache!Hit(key)
      BY <2>4, <2>5 DEF Keeps, Cache!Hit, R
    <3> QED BY <3>1 DEF Cache!Next
  <2>6. CASE Loads(q, q', key)
    <3>1. PICK u : /\ Good(u, {}) \/ \E n : Good(u, {n})
                   /\ Res(u) \subseteq Res(q) /\ Res(q') = Res(u) \cup {key}
                   /\ Total(u) < buffer_size
                   /\ Total(q) < buffer_size => Res(u) = Res(q)
      BY <2>6 DEF Loads
    <3>2. key \notin R
      BY <2>4, <2>6 DEF Loads
    <3>3. IsFiniteSet(R) /\ Cardinality(R) = Total(q)
      BY <2>2, <2>4, ResidentCount DEF IInv, access
    <3>4. Cardinality(Res(u)) = Total(u)
      BY <3>1, ResidentCount
    <3>5. Total(q) \in Nat /\ Total(q) <= buffer_size /\ buffer_size \in Nat
      BY TotalIs, Sizes DEF IInv, Bounds
    <3>6. CASE Total(q) < buffer_size
      <4>1. Cache!Fill(key)
        BY <2>4, <3>1, <3>2, <3>3, <3>6, SameCardinality DEF Cache!Fill, R
      <4> QED BY <4>1 DEF Cache!Next
    <3>7. CASE Total(q) = buffer_size
      <4> DEFINE V == R \ Res(u)
      <4>1. V \subseteq R /\ R' = (R \ V) \cup {key}
        BY <2>4, <3>1
      <4>2. IsFiniteSet(V) /\ Cardinality(V) \in Nat /\ Cardinality(V) <= buffer_size
        BY <3>3, <3>5, <4>1, FS_Subset, FS_CardinalityType
      <4>3. Cardinality(V) # 0
        <5>1. SUFFICES ASSUME V = {}
                       PROVE  FALSE
          BY <4>2, FS_EmptySet
        <5>2. R = Res(u)
          BY <2>4, <3>1, <5>1
        <5>3. Total(u) = buffer_size
          BY <3>3, <3>4, <3>7, <5>2
        <5>4. Total(u) < buffer_size
          BY <3>1
        <5> QED BY <3>5, <5>3, <5>4
      <4> HIDE DEF V
      <4>4. Cardinality(V) \in 1 .. buffer_size
        BY <3>5, <4>2, <4>3
      <4>5. Cache!Cardinality(V) \in 1 .. buffer_size /\ Cache!Cardinality(R) = buffer_size
        BY <3>3, <3>7, <4>4, SameCardinality
      <4>6. Cache!Replace(key)
        BY <3>2, <4>1, <4>5 DEF Cache!Replace, R
      <4> QED BY <4>6 DEF Cache!Next
    <3> QED BY <3>5, <3>6, <3>7
  <2> QED BY <2>3, <2>5, <2>6
<1> QED BY <1>1, S3FIFOInvariance, PTL DEF Spec, Implements

=============================================================================
