----------------------------- MODULE HillProofs -----------------------------
(***************************************************************************)
(* What one HillSubReplacer keeps true, operator by operator; the          *)
(* invariants of HillSubSpec and its refinement of HillAbs; then the two   *)
(* buffers of HillReplacer, sound, in step and compared over the same      *)
(* accesses, and the real one's refinement of HillAbs.  All of it is for   *)
(* every trace, buffer size, number of levels and half-life, and every     *)
(* value of the parameters of the adaptation.                              *)
(***************************************************************************)
EXTENDS HillReplacer, HillSubSpec, DataLemmas

\* What every stage of an access preserves
Core(ob) ==
  /\ StateOK(ob)
  /\ PartsOK(ob)
  /\ LevelsOK(ob)
  /\ MinOK(ob)
  /\ StampsOK(ob)
  /\ WrittenBefore(ob, ob.cur_ts_ + 1)
  /\ ob.top_lru_size_ > 0 => ob.cur_ts_ > 0
  /\ ob.top_lru_size_ = Len(ob.top_lru_)
  /\ ob.top_lru_size_ <= LruSize
  /\ Cardinality(DOMAIN ob.ghost_map_) <= GhostSize

-----------------------------------------------------------------------------
(* Levels and their minimum *)

\* A computed level is a level.
LEMMA RollsSinceType ==
  ASSUME NEW ob, ob.rolling_ts \in Seq(Nat), NEW stamp \in Nat
  PROVE  RollsSince(ob, stamp) \in 0 .. Len(ob.rolling_ts)
<1> DEFINE res == ob.rolling_ts
           later == { i \in DOMAIN res : stamp < res[i] }
<1>1. Len(res) \in Nat /\ DOMAIN res = 1..Len(res)
  OBVIOUS
<1>2. CASE later = {}
  BY <1>1, <1>2 DEF RollsSince
<1>3. CASE later # {}
  <2>1. later \in SUBSET Nat
    BY <1>1
  <2>2. Min(later) \in later
    BY <2>1, <1>3, MinOfNaturals
  <2>3. Min(later) \in 1..Len(res)
    BY <2>2, <1>1
  <2>4. RollsSince(ob, stamp) = Len(res) - Min(later) + 1
    BY <1>3 DEF RollsSince
  <2> QED BY <2>3, <2>4, <1>1
<1> QED BY <1>2, <1>3

\* What a right shift does to a score: each place more halves it, and as many
\* places as it has bits leave nothing of it (hill_replacer.h:223).
LEMMA Shifts ==
  ASSUME NEW l \in Levels
  PROVE  /\ Shr(l, 0) = l
         /\ Shr(l, MaxPointsBits) = 0
         /\ \A n \in Nat : /\ Shr(l, n) \in Levels
                           /\ Shr(l, n + 1) = Shr(l, n) \div 2
<1>1. /\ l \in Nat /\ MaxPoints \in Nat /\ l <= MaxPoints - 1
      /\ MaxPointsBits \in Nat /\ MaxPoints = 2^MaxPointsBits - 1
  BY PointsAssumption DEF Levels
<1>2. Shr(l, 0) = l
  BY <1>1 DEF Shr
<1>3. Shr(l, MaxPointsBits) = 0
  <2>1. 2^MaxPointsBits \in Nat \ {0}
    BY <1>1, PowersOfTwo
  <2> DEFINE p == 2^MaxPointsBits
  <2>2. p \in Nat \ {0} /\ l \in 0 .. p-1 /\ l = p * 0 + l
    BY <1>1, <2>1
  <2> HIDE DEF p
  <2>3. l \div p = 0
    BY <1>1, <2>2, QuotientIs
  <2> QED BY <2>3 DEF Shr, p
<1>4. ASSUME NEW n \in Nat
      PROVE  Shr(l, n) \in Levels /\ Shr(l, n + 1) = Shr(l, n) \div 2
  <2> DEFINE p == 2^n
  <2>1. p \in Nat \ {0} /\ 2^(n + 1) = p + p
    BY PowersOfTwo
  <2> HIDE DEF p
  <2>2. l <= p * l
    BY <1>1, <2>1
  <2>3. l \div p \in Nat /\ l \div p <= l
    BY <1>1, <2>1, <2>2, DivType, DivAtMost
  <2>4. l \div p \in Levels
    BY <1>1, <2>3 DEF Levels
  <2>5. l \div (p + p) = (l \div p) \div 2
    BY <1>1, <2>1, HalfOfQuotient
  <2> QED BY <2>1, <2>4, <2>5 DEF Shr, p
<1> QED BY <1>2, <1>3, <1>4

LEMMA CurrentLevelType ==
  ASSUME NEW ob, ob.rolling_ts \in Seq(Nat), Len(ob.rolling_ts) <= MaxPointsBits,
         NEW e \in Entry
  PROVE  GetCurrentLevel(ob, e) \in Levels
<1>1. e.insert_level \in Levels /\ e.insert_ts \in Nat
  BY DEF Entry
<1>2. RollsSince(ob, e.insert_ts) \in 0 .. Len(ob.rolling_ts)
  BY <1>1, RollsSinceType
<1>3. RollsSince(ob, e.insert_ts) \in 0 .. MaxPointsBits
  BY <1>2, PointsAssumption
<1> QED BY <1>1, <1>3, Shifts DEF GetCurrentLevel

\* The least level in use is characterised by what it and the levels below
\* it hold.
LEMMA FirstNonEmptyChar ==
  ASSUME NEW lru \in [Levels -> Seq(Keys)], NEW m \in Nat
  PROVE  LET f == FirstNonEmpty(lru, m)
         IN /\ f \in 0 .. MaxPoints
            /\ f \in Levels => f >= m /\ lru[f] # <<>>
            /\ f \notin Levels => f = MaxPoints /\ NonEmptyFrom(lru, m) = {}
            /\ \A l \in Levels : l >= m /\ l < f => lru[l] = <<>>
<1> DEFINE ne == NonEmptyFrom(lru, m)
<1>1. ne \subseteq Levels /\ ne \in SUBSET Nat
  BY PointsAssumption DEF NonEmptyFrom, Levels
<1>2. \A l \in Levels : l >= m /\ lru[l] # <<>> => l \in ne
  BY DEF NonEmptyFrom
<1>3. \A l \in ne : l >= m /\ lru[l] # <<>>
  BY DEF NonEmptyFrom
<1>4. MaxPoints \notin Levels /\ \A l \in Levels : l < MaxPoints /\ l \in Nat
  BY PointsAssumption DEF Levels
<1> HIDE DEF ne
<1>5. CASE ne = {}
  <2>1. FirstNonEmpty(lru, m) = MaxPoints
    BY <1>5 DEF FirstNonEmpty, ne
  <2> QED BY <2>1, <1>2, <1>4, <1>5, PointsAssumption DEF ne
<1>6. CASE ne # {}
  <2>1. FirstNonEmpty(lru, m) = Min(ne)
    BY <1>6 DEF FirstNonEmpty, ne
  <2>2. Min(ne) \in ne /\ \A y \in ne : Min(ne) <= y
    BY <1>1, <1>6, MinOfNaturals
  <2>3. Min(ne) \in Levels /\ Min(ne) \in Nat
    BY <2>2, <1>1
  <2>4. \A l \in Levels : l >= m /\ l < Min(ne) => lru[l] = <<>>
    BY <2>2, <2>3, <1>2, <1>4
  <2>5. Min(ne) \in 0..MaxPoints
    BY <2>3, <1>4, PointsAssumption
  <2> QED BY <2>1, <2>2, <2>3, <2>4, <2>5, <1>3
<1> QED BY <1>5, <1>6

\* Conversely, m with nothing below it, itself in use or max_points_, is it.
LEMMA FirstNonEmptyIs ==
  ASSUME NEW lru \in [Levels -> Seq(Keys)], NEW m \in 0 .. MaxPoints,
         m \in Levels => lru[m] # <<>>,
         \A l \in Levels : l < m => lru[l] = <<>>
  PROVE  m = FirstNonEmpty(lru, 0)
<1> DEFINE f == FirstNonEmpty(lru, 0)
<1>1. /\ f \in 0 .. MaxPoints
      /\ f \in Levels => lru[f] # <<>>
      /\ f \notin Levels => f = MaxPoints
      /\ \A l \in Levels : l >= 0 /\ l < f => lru[l] = <<>>
  BY FirstNonEmptyChar
<1>2. \A l : l \in Levels <=> l \in Nat /\ l < MaxPoints
  BY PointsAssumption DEF Levels
<1> HIDE DEF f
<1>3. ~(f < m)
  BY <1>1, <1>2, PointsAssumption
<1>4. ~(m < f)
  BY <1>1, <1>2, PointsAssumption
<1> QED BY <1>1, <1>3, <1>4, PointsAssumption DEF f

-----------------------------------------------------------------------------
(* The tables *)

LEMMA PutMap ==
  ASSUME NEW m, IsEntryMap(m), NEW k \in Keys, NEW e \in Entry
  PROVE  IsEntryMap(Put(m, k, e))
BY DEF IsEntryMap, Put

LEMMA DropMap ==
  ASSUME NEW m, IsEntryMap(m), NEW k
  PROVE  /\ IsEntryMap(Drop(m, k))
         /\ DOMAIN Drop(m, k) = DOMAIN m \ {k}
         /\ \A x \in DOMAIN m \ {k} : Drop(m, k)[x] = m[x]
BY DEF IsEntryMap, Drop

\* The level of an entry depends on the stamps of the rollings only.
LEMMA SameStamps ==
  ASSUME NEW ob, NEW t, t.rolling_ts = ob.rolling_ts, NEW e
  PROVE  GetCurrentLevel(t, e) = GetCurrentLevel(ob, e)
BY DEF GetCurrentLevel, RollsSince

\* A stage that touches neither the stamps nor the part below the top
LEMMA LevelsSame ==
  ASSUME NEW ob, Core(ob), NEW t, t.real_lru_ = ob.real_lru_,
         t.rolling_ts = ob.rolling_ts, LevelKeys(t) = LevelKeys(ob),
         \A k \in LevelKeys(ob) : t.real_map_[k] = ob.real_map_[k]
  PROVE  LevelsOK(t)
<1>1. \A k \in LevelKeys(ob) : GetCurrentLevel(t, t.real_map_[k])
                               = GetCurrentLevel(ob, ob.real_map_[k])
  BY SameStamps
<1> SUFFICES ASSUME NEW l \in Levels
    PROVE { x \in LevelKeys(t) : GetCurrentLevel(t, t.real_map_[x]) = l }
            = { x \in LevelKeys(ob) : GetCurrentLevel(ob, ob.real_map_[x]) = l }
  BY DEF Core, LevelsOK
<1> QED BY <1>1

-----------------------------------------------------------------------------
(* A hit *)

LEMMA EraseTopCore ==
  ASSUME NEW ob, Core(ob), NEW k \in TopKeys(ob)
  PROVE  LET t == EraseTop(ob, k)
         IN /\ Core(t)
            /\ t.top_lru_size_ = ob.top_lru_size_ - 1
            /\ DOMAIN t.real_map_ = DOMAIN ob.real_map_ \ {k}
            /\ LevelKeys(t) = LevelKeys(ob)
            /\ k \notin DOMAIN t.ghost_map_
            /\ t.ub = ob.ub /\ t.cur_ts_ = ob.cur_ts_
<1> DEFINE t == EraseTop(ob, k)
           q == Erase(ob.top_lru_, k)
           m == Drop(ob.real_map_, k)
           n == ob.top_lru_size_ - 1
           h == ob.interval_hit_count_ + 1
<1>1. StateOK(ob)
  BY DEF Core
<1>2. k \in DOMAIN ob.real_map_ /\ ob.real_map_[k].h_recency
  BY DEF TopKeys
<1>3. /\ q \in Seq(Keys) /\ Len(q) = Len(ob.top_lru_) - 1
      /\ Lists(q, TopKeys(ob) \ {k})
  BY <1>1, ListsErase DEF Core, PartsOK, StateOK
<1>4. /\ IsEntryMap(m) /\ DOMAIN m = DOMAIN ob.real_map_ \ {k}
      /\ \A x \in DOMAIN ob.real_map_ \ {k} : m[x] = ob.real_map_[x]
  BY <1>1, DropMap DEF StateOK
<1>5. Len(q) \in Nat /\ n = Len(q) /\ n \in Nat
  BY <1>3 DEF Core
<1>6. h \in Nat
  BY <1>1 DEF StateOK
<1>7. t = [ob EXCEPT !.top_lru_ = q, !.top_lru_size_ = n,
                    !.real_map_ = m, !.interval_hit_count_ = h]
  BY DEF EraseTop
<1> HIDE DEF t, q, m, n, h
<1>8. /\ StateOK(t)
      /\ t.top_lru_ = q /\ t.top_lru_size_ = n /\ t.real_map_ = m
      /\ t.real_lru_ = ob.real_lru_ /\ t.ghost_lru_ = ob.ghost_lru_
      /\ t.ghost_map_ = ob.ghost_map_ /\ t.rolling_ts = ob.rolling_ts
      /\ t.min_level_non_empty_ = ob.min_level_non_empty_
      /\ t.cur_ts_ = ob.cur_ts_ /\ t.prev_rolling_ts_ = ob.prev_rolling_ts_
      /\ t.ub = ob.ub
  BY <1>1, <1>3, <1>4, <1>5, <1>6, <1>7 DEF StateOK
<1>9. TopKeys(t) = TopKeys(ob) \ {k} /\ LevelKeys(t) = LevelKeys(ob)
  BY <1>2, <1>4, <1>8 DEF TopKeys, LevelKeys
<1>10. PartsOK(t)
  BY <1>3, <1>4, <1>8, <1>9 DEF Core, PartsOK
<1>11. LevelsOK(t)
  <2>1. \A x \in LevelKeys(ob) : t.real_map_[x] = ob.real_map_[x]
    BY <1>2, <1>4, <1>8 DEF LevelKeys
  <2> QED BY <2>1, <1>8, <1>9, LevelsSame
<1>12. MinOK(t)
  BY <1>8 DEF Core, MinOK
<1>13. StampsOK(t) /\ WrittenBefore(t, t.cur_ts_ + 1)
  BY <1>4, <1>8, <1>9 DEF Core, StampsOK, WrittenBefore, LevelKeys
<1>14. k \notin DOMAIN t.ghost_map_
  BY <1>2, <1>8 DEF Core, PartsOK
<1>15. Len(q) = Len(ob.top_lru_) - 1 /\ Len(ob.top_lru_) \in Nat /\ LruSize \in Nat
  BY <1>1, <1>3, SizeAssumption DEF StateOK
<1>16. Core(t)
  BY <1>5, <1>8, <1>10, <1>11, <1>12, <1>13, <1>15 DEF Core
<1> QED BY <1>4, <1>8, <1>9, <1>14, <1>16 DEF n, t

\* The keys whose current score is l
LevelSet(ob, l) ==
  { k \in LevelKeys(ob) : GetCurrentLevel(ob, ob.real_map_[k]) = l }

\* From ob to t, level l loses key k, with its entry; q is what is left.
Unlinks(ob, t, k, l, q) ==
  /\ k \in LevelKeys(ob) /\ l \in Levels
  /\ GetCurrentLevel(ob, ob.real_map_[k]) = l
  /\ q \in Seq(Keys) /\ Lists(q, LevelSet(ob, l) \ {k})
  /\ t.real_map_ = Drop(ob.real_map_, k)
  /\ t.real_lru_ = [ob.real_lru_ EXCEPT ![l] = q]
  /\ t.rolling_ts = ob.rolling_ts

LEMMA LevelRemoval ==
  ASSUME NEW ob, Core(ob), NEW t, NEW k, NEW l, NEW q, Unlinks(ob, t, k, l, q)
  PROVE  /\ t.real_lru_ \in [Levels -> Seq(Keys)]
         /\ IsEntryMap(t.real_map_)
         /\ DOMAIN t.real_map_ = DOMAIN ob.real_map_ \ {k}
         /\ \A x \in DOMAIN t.real_map_ : t.real_map_[x] = ob.real_map_[x]
         /\ TopKeys(t) = TopKeys(ob)
         /\ LevelKeys(t) = LevelKeys(ob) \ {k}
         /\ LevelsOK(t)
         /\ FirstNonEmpty(t.real_lru_, ob.min_level_non_empty_)
              = FirstNonEmpty(t.real_lru_, 0)
<1> USE DEF Unlinks
<1>1. /\ StateOK(ob) /\ ob.real_lru_ \in [Levels -> Seq(Keys)]
      /\ IsEntryMap(ob.real_map_)
  BY DEF Core, StateOK
<1>2. k \in DOMAIN ob.real_map_ /\ ~ob.real_map_[k].h_recency
  BY DEF LevelKeys
<1>3. /\ IsEntryMap(t.real_map_)
      /\ DOMAIN t.real_map_ = DOMAIN ob.real_map_ \ {k}
      /\ \A x \in DOMAIN ob.real_map_ \ {k} : t.real_map_[x] = ob.real_map_[x]
  <2> DEFINE m == Drop(ob.real_map_, k)
  <2>1. /\ IsEntryMap(m) /\ DOMAIN m = DOMAIN ob.real_map_ \ {k}
        /\ \A x \in DOMAIN ob.real_map_ \ {k} : m[x] = ob.real_map_[x]
    BY <1>1, DropMap
  <2>2. t.real_map_ = m
    OBVIOUS
  <2> HIDE DEF m
  <2> QED BY <2>1, <2>2
<1>4. TopKeys(t) = TopKeys(ob) /\ LevelKeys(t) = LevelKeys(ob) \ {k}
  BY <1>2, <1>3 DEF TopKeys, LevelKeys
<1>5. /\ t.real_lru_ \in [Levels -> Seq(Keys)]
      /\ t.real_lru_[l] = q
      /\ \A x \in Levels : x # l => t.real_lru_[x] = ob.real_lru_[x]
  BY <1>1
<1>6. \A x \in LevelKeys(t) : GetCurrentLevel(t, t.real_map_[x])
                               = GetCurrentLevel(ob, ob.real_map_[x])
  BY <1>3, <1>4, SameStamps DEF LevelKeys
<1>7. /\ LevelSet(t, l) = LevelSet(ob, l) \ {k}
      /\ \A x \in Levels : x # l => LevelSet(t, x) = LevelSet(ob, x)
  BY <1>4, <1>6 DEF LevelSet
<1>8. LevelsOK(t)
  <2> SUFFICES ASSUME NEW x \in Levels
               PROVE  Lists(t.real_lru_[x], LevelSet(t, x))
    BY DEF LevelsOK, LevelSet
  <2>1. Lists(ob.real_lru_[x], LevelSet(ob, x))
    BY DEF Core, LevelsOK, LevelSet
  <2> QED BY <2>1, <1>5, <1>7
<1>9. FirstNonEmpty(t.real_lru_, ob.min_level_non_empty_)
        = FirstNonEmpty(t.real_lru_, 0)
  <2> DEFINE m == ob.min_level_non_empty_
             f == FirstNonEmpty(t.real_lru_, m)
  <2>1. /\ m \in 0 .. MaxPoints
        /\ \A x \in Levels : x < m => ob.real_lru_[x] = <<>>
    <3>1. m = FirstNonEmpty(ob.real_lru_, 0)
      BY DEF Core, MinOK
    <3>2. \A x \in Levels : x >= 0
      BY PointsAssumption DEF Levels
    <3> QED BY <1>1, <3>1, <3>2, FirstNonEmptyChar
  <2>2. \A x \in Levels : x < m => t.real_lru_[x] = <<>>
    <3>1. k \in LevelSet(ob, l) /\ Lists(ob.real_lru_[l], LevelSet(ob, l))
      BY DEF Core, LevelsOK, LevelSet
    <3>2. ob.real_lru_[l] # <<>>
      BY <1>1, <3>1, ListsEmpty
    <3> QED BY <2>1, <3>2, <1>5
  <2>3. m \in Nat
    BY <2>1, PointsAssumption
  <2>4. /\ f \in 0 .. MaxPoints
        /\ f \in Levels => f >= m /\ t.real_lru_[f] # <<>>
        /\ \A x \in Levels : x >= m /\ x < f => t.real_lru_[x] = <<>>
    BY <1>5, <2>3, FirstNonEmptyChar
  <2>5. \A x \in Levels : x < f => t.real_lru_[x] = <<>>
    BY <2>2, <2>3, <2>4, PointsAssumption DEF Levels
  <2> HIDE DEF f, m
  <2>6. f = FirstNonEmpty(t.real_lru_, 0)
    BY <1>5, <2>4, <2>5, FirstNonEmptyIs
  <2> QED BY <2>6 DEF f, m
<1> QED BY <1>3, <1>4, <1>5, <1>8, <1>9

\* A key below the top is in the list of its level, and such a list holds
\* only keys below the top.
LEMMA LevelFacts ==
  ASSUME NEW ob, Core(ob)
  PROVE  /\ \A k \in LevelKeys(ob) :
              /\ GetCurrentLevel(ob, ob.real_map_[k]) \in Levels
              /\ ob.real_lru_[GetCurrentLevel(ob, ob.real_map_[k])] # <<>>
         /\ \A l \in Levels : /\ ob.real_lru_[l] \in Seq(Keys)
                              /\ Lists(ob.real_lru_[l], LevelSet(ob, l))
<1>1. \A l \in Levels : /\ ob.real_lru_[l] \in Seq(Keys)
                        /\ Lists(ob.real_lru_[l], LevelSet(ob, l))
  BY DEF Core, StateOK, LevelsOK, LevelSet
<1>2. ASSUME NEW k \in LevelKeys(ob)
      PROVE  /\ GetCurrentLevel(ob, ob.real_map_[k]) \in Levels
             /\ ob.real_lru_[GetCurrentLevel(ob, ob.real_map_[k])] # <<>>
  <2>1. ob.real_map_[k] \in Entry
    BY DEF Core, StateOK, LevelKeys, IsEntryMap
  <2>2. GetCurrentLevel(ob, ob.real_map_[k]) \in Levels
    BY <2>1, CurrentLevelType DEF Core, StampsOK, StateOK
  <2>3. k \in LevelSet(ob, GetCurrentLevel(ob, ob.real_map_[k]))
    BY DEF LevelSet
  <2> QED BY <2>2, <2>3, <1>1, ListsEmpty
<1> QED BY <1>1, <1>2

LEMMA EraseLevelCore ==
  ASSUME NEW ob, Core(ob), NEW k \in LevelKeys(ob)
  PROVE  LET t == EraseLevel(ob, k)
         IN /\ Core(t)
            /\ t.top_lru_size_ = ob.top_lru_size_
            /\ DOMAIN t.real_map_ = DOMAIN ob.real_map_ \ {k}
            /\ LevelKeys(t) \subseteq LevelKeys(ob)
            /\ k \notin DOMAIN t.ghost_map_
            /\ t.ub \in {ob.ub, "hit_scan"} /\ t.cur_ts_ = ob.cur_ts_
            /\ LevelKeys(ob) # {k} => t.ub = ob.ub
<1> DEFINE t == EraseLevel(ob, k)
           l == GetCurrentLevel(ob, ob.real_map_[k])
           q == Erase(ob.real_lru_[l], k)
           lru == [ob.real_lru_ EXCEPT ![l] = q]
           f == FirstNonEmpty(lru, ob.min_level_non_empty_)
           m == Drop(ob.real_map_, k)
           h == ob.interval_hit_count_ + 1
           u == IF NonEmptyFrom(lru, ob.min_level_non_empty_) = {}
                THEN "hit_scan" ELSE ob.ub
<1>1. StateOK(ob)
  BY DEF Core
<1>2. k \in DOMAIN ob.real_map_ /\ ~ob.real_map_[k].h_recency
  BY DEF LevelKeys
<1>3. ob.real_map_[k] \in Entry /\ IsEntryMap(m)
  BY <1>1, <1>2, DropMap DEF StateOK, IsEntryMap
<1>4. l \in Levels
  BY <1>1, <1>3, CurrentLevelType DEF Core, StampsOK, StateOK
<1>5. q \in Seq(Keys) /\ Lists(q, LevelSet(ob, l) \ {k})
  <2>1. k \in LevelSet(ob, l) /\ Lists(ob.real_lru_[l], LevelSet(ob, l))
    BY <1>4 DEF Core, LevelsOK, LevelSet
  <2>2. ob.real_lru_[l] \in Seq(Keys)
    BY <1>1, <1>4 DEF StateOK
  <2> QED BY <2>1, <2>2, ListsErase
<1>6. lru \in [Levels -> Seq(Keys)]
  BY <1>1, <1>5 DEF StateOK
<1>7. f \in 0 .. MaxPoints
  <2>1. ob.min_level_non_empty_ \in Nat
    BY <1>1, PointsAssumption DEF StateOK
  <2> QED BY <1>6, <2>1, FirstNonEmptyChar
<1>8. /\ h \in Nat
      /\ u \in {"none", "hit_scan", "evict_scan", "no_victim"}
      /\ u \in {ob.ub, "hit_scan"}
  BY <1>1 DEF StateOK
<1>9. t = [ob EXCEPT !.real_lru_ = lru, !.real_map_ = m,
                    !.min_level_non_empty_ = f, !.interval_hit_count_ = h,
                    !.ub = u]
  BY DEF EraseLevel
<1> HIDE DEF t, l, q, f, m, h, u
<1>10. /\ StateOK(t)
       /\ t.real_lru_ = lru /\ t.real_map_ = m
       /\ t.top_lru_ = ob.top_lru_ /\ t.top_lru_size_ = ob.top_lru_size_
       /\ t.ghost_lru_ = ob.ghost_lru_ /\ t.ghost_map_ = ob.ghost_map_
       /\ t.rolling_ts = ob.rolling_ts
       /\ t.min_level_non_empty_ = f
       /\ t.cur_ts_ = ob.cur_ts_ /\ t.prev_rolling_ts_ = ob.prev_rolling_ts_
       /\ t.ub = u
  BY <1>1, <1>3, <1>6, <1>7, <1>8, <1>9 DEF StateOK
<1>11. /\ DOMAIN t.real_map_ = DOMAIN ob.real_map_ \ {k}
       /\ \A x \in DOMAIN t.real_map_ : t.real_map_[x] = ob.real_map_[x]
       /\ TopKeys(t) = TopKeys(ob) /\ LevelKeys(t) = LevelKeys(ob) \ {k}
       /\ LevelsOK(t)
       /\ f = FirstNonEmpty(t.real_lru_, 0)
  <2>1. GetCurrentLevel(ob, ob.real_map_[k]) = l
    BY DEF l
  <2>2. t.real_map_ = Drop(ob.real_map_, k)
    BY <1>10 DEF m
  <2>3. f = FirstNonEmpty(t.real_lru_, ob.min_level_non_empty_)
    BY <1>10 DEF f
  <2>4. t.real_lru_ = [ob.real_lru_ EXCEPT ![l] = q]
    BY <1>10
  <2>5. t.rolling_ts = ob.rolling_ts
    BY <1>10
  <2> HIDE DEF lru
  <2>6. /\ DOMAIN t.real_map_ = DOMAIN ob.real_map_ \ {k}
        /\ \A x \in DOMAIN t.real_map_ : t.real_map_[x] = ob.real_map_[x]
        /\ TopKeys(t) = TopKeys(ob) /\ LevelKeys(t) = LevelKeys(ob) \ {k}
        /\ LevelsOK(t)
        /\ FirstNonEmpty(t.real_lru_, ob.min_level_non_empty_)
             = FirstNonEmpty(t.real_lru_, 0)
    <3>1. Unlinks(ob, t, k, l, q)
      BY <2>1, <2>2, <2>4, <2>5, <1>4, <1>5 DEF Unlinks
    <3> QED BY <3>1, LevelRemoval
  <2> QED BY <2>3, <2>6
<1> HIDE DEF lru
<1>12. PartsOK(t)
  BY <1>10, <1>11 DEF Core, PartsOK
<1>13. MinOK(t)
  BY <1>10, <1>11 DEF MinOK
<1>14. StampsOK(t) /\ WrittenBefore(t, t.cur_ts_ + 1)
  <2>1. StampsOK(ob) /\ WrittenBefore(ob, ob.cur_ts_ + 1)
    BY DEF Core
  <2>2. \A x \in DOMAIN t.real_map_ : t.real_map_[x].insert_ts < t.cur_ts_ + 1
    BY <2>1, <1>10, <1>11 DEF WrittenBefore
  <2>3. \A x \in LevelKeys(t) : t.real_map_[x].insert_ts > 0
    BY <2>1, <1>11 DEF WrittenBefore, LevelKeys
  <2> QED BY <2>1, <2>2, <2>3, <1>10 DEF StampsOK, WrittenBefore
<1>15. k \notin DOMAIN t.ghost_map_
  BY <1>2, <1>10 DEF Core, PartsOK
<1>16. Core(t)
  BY <1>10, <1>11, <1>12, <1>13, <1>14 DEF Core
<1>17. LevelKeys(ob) # {k} => t.ub = ob.ub
  <2> SUFFICES ASSUME LevelKeys(ob) # {k}
               PROVE  NonEmptyFrom(lru, ob.min_level_non_empty_) # {}
    BY <1>10 DEF u
  <2>1. PICK x \in LevelKeys(t) : TRUE
    BY <1>11
  <2>2. PICK y \in Levels : lru[y] # <<>>
    BY <1>10, <1>16, <2>1, LevelFacts
  <2>3. f # MaxPoints
    <3>1. \A z \in Levels : z >= 0 /\ z < f => lru[z] = <<>>
      BY <1>6, <1>10, <1>11, FirstNonEmptyChar
    <3> QED BY <2>2, <3>1, PointsAssumption DEF Levels
  <2> QED BY <2>3, <1>6, <1>7, FirstNonEmptyChar DEF f, FirstNonEmpty
<1> QED BY <1>8, <1>10, <1>11, <1>15, <1>16, <1>17 DEF t

-----------------------------------------------------------------------------
(* A miss: the eviction and the ghost *)

\* min_level_non_empty_ as the facts the proofs use
LEMMA MinFacts ==
  ASSUME NEW ob, Core(ob)
  PROVE  LET m == ob.min_level_non_empty_
         IN /\ m \in 0 .. MaxPoints
            /\ m \in Levels => ob.real_lru_[m] # <<>>
            /\ m \notin Levels => NonEmptyFrom(ob.real_lru_, 0) = {}
            /\ \A l \in Levels : l < m => ob.real_lru_[l] = <<>>
<1>1. ob.real_lru_ \in [Levels -> Seq(Keys)]
  BY DEF Core, StateOK
<1>2. ob.min_level_non_empty_ = FirstNonEmpty(ob.real_lru_, 0)
  BY DEF Core, MinOK
<1>3. \A l \in Levels : l >= 0
  BY PointsAssumption DEF Levels
<1> QED BY <1>1, <1>2, <1>3, FirstNonEmptyChar

\* While a key is left below the top, there is a victim.
LEMMA VictimThere ==
  ASSUME NEW ob, Core(ob), LevelKeys(ob) # {}
  PROVE  VictimExists(ob)
<1> DEFINE m == ob.min_level_non_empty_
           l == VictimLevel(ob)
<1>1. m \in Nat /\ ob.real_lru_ \in [Levels -> Seq(Keys)]
  BY PointsAssumption DEF Core, StateOK
<1>2. m \in Levels /\ ob.real_lru_[m] # <<>>
  <2>1. PICK k \in LevelKeys(ob) : TRUE
    OBVIOUS
  <2>2. PICK x \in Levels : ob.real_lru_[x] # <<>>
    BY <2>1, LevelFacts
  <2>3. NonEmptyFrom(ob.real_lru_, 0) # {}
    BY <2>2, PointsAssumption DEF NonEmptyFrom, Levels
  <2> QED BY <2>3, MinFacts
<1>3. l \in Levels /\ ob.real_lru_[l] # <<>>
  <2>1. CASE ~Mru(ob)
    BY <2>1, <1>2 DEF VictimLevel
  <2>2. CASE Mru(ob)
    <3>1. m \in NonEmptyFrom(ob.real_lru_, m)
      BY <1>1, <1>2 DEF NonEmptyFrom
    <3>2. /\ FirstNonEmpty(ob.real_lru_, m) \in Levels
          /\ ob.real_lru_[FirstNonEmpty(ob.real_lru_, m)] # <<>>
      BY <1>1, <3>1, FirstNonEmptyChar
    <3> QED BY <2>2, <3>2 DEF VictimLevel
  <2> QED BY <2>1, <2>2
<1> HIDE DEF l
<1>4. Head(ob.real_lru_[l]) \in LevelKeys(ob)
  <2>1. ob.real_lru_[l] \in Seq(Keys) /\ Lists(ob.real_lru_[l], LevelSet(ob, l))
    BY <1>3, LevelFacts
  <2>2. Head(ob.real_lru_[l]) \in LevelSet(ob, l)
    BY <2>1, <1>3, ListsPop
  <2> QED BY <2>2 DEF LevelSet
<1>5. ob.real_map_[Head(ob.real_lru_[l])].insert_ts > 0
  BY <1>4 DEF Core, WrittenBefore
<1> QED BY <1>3, <1>5 DEF VictimExists, l

LEMMA UnlinkCore ==
  ASSUME NEW ob, Core(ob), VictimExists(ob)
  PROVE  LET t == Unlink(ob)
             k == Victim(ob)
         IN /\ Core(t)
            /\ VictimLevel(ob) \in Levels
            /\ k \in LevelKeys(ob) /\ k \in Keys
            /\ RealLevel(ob, k) = VictimLevel(ob)
            /\ DOMAIN t.real_map_ = DOMAIN ob.real_map_ \ {k}
            /\ k \notin DOMAIN t.ghost_map_
            /\ t.top_lru_size_ = ob.top_lru_size_
            /\ LevelKeys(ob) # {k} => t.ub = ob.ub
            /\ t.ub \in {ob.ub, "evict_scan"}
            /\ t.cur_ts_ = ob.cur_ts_
<1> DEFINE t == Unlink(ob)
           l == VictimLevel(ob)
           k == Victim(ob)
           res == ob.real_lru_[l]
           q == IF Mru(ob) THEN Tail(res) ELSE Front(res)
           lru == [ob.real_lru_ EXCEPT ![l] = q]
           f == FirstNonEmpty(lru, ob.min_level_non_empty_)
           m == Drop(ob.real_map_, k)
           u == IF NonEmptyFrom(lru, ob.min_level_non_empty_) = {}
                THEN "evict_scan" ELSE ob.ub
<1>1. StateOK(ob)
  BY DEF Core
<1>2. l \in Levels /\ res # <<>> /\ res \in Seq(Keys) /\ Lists(res, LevelSet(ob, l))
  BY LevelFacts DEF VictimExists
<1>3. k \in LevelSet(ob, l) /\ q \in Seq(Keys) /\ Lists(q, LevelSet(ob, l) \ {k})
  <2> HIDE DEF res
  <2>1. CASE Mru(ob)
    BY <2>1, <1>2, ListsPop DEF Victim, res
  <2>2. CASE ~Mru(ob)
    BY <2>2, <1>2, ListsPop DEF Victim, res
  <2> QED BY <2>1, <2>2
<1>4. /\ k \in LevelKeys(ob) /\ k \in Keys
      /\ GetCurrentLevel(ob, ob.real_map_[k]) = l
  BY <1>1, <1>3 DEF LevelSet, LevelKeys, StateOK, IsEntryMap
<1>5. IsEntryMap(m)
  BY <1>1, DropMap DEF StateOK
<1>6. lru \in [Levels -> Seq(Keys)]
  BY <1>1, <1>3 DEF StateOK
<1>7. f \in 0 .. MaxPoints /\ ob.min_level_non_empty_ \in Nat
  <2>1. ob.min_level_non_empty_ \in Nat
    BY <1>1, PointsAssumption DEF StateOK
  <2> QED BY <1>6, <2>1, FirstNonEmptyChar
<1>8. /\ u \in {"none", "hit_scan", "evict_scan", "no_victim"}
      /\ u \in {ob.ub, "evict_scan"}
  BY <1>1 DEF StateOK
<1>9. t = [ob EXCEPT !.real_lru_ = lru, !.real_map_ = m,
                    !.min_level_non_empty_ = f, !.ub = u]
  BY DEF Unlink
<1> HIDE DEF t, l, k, res, q, f, m, u
<1>10. /\ StateOK(t)
       /\ t.real_lru_ = lru /\ t.real_map_ = m
       /\ t.top_lru_ = ob.top_lru_ /\ t.top_lru_size_ = ob.top_lru_size_
       /\ t.ghost_lru_ = ob.ghost_lru_ /\ t.ghost_map_ = ob.ghost_map_
       /\ t.rolling_ts = ob.rolling_ts
       /\ t.min_level_non_empty_ = f
       /\ t.cur_ts_ = ob.cur_ts_ /\ t.prev_rolling_ts_ = ob.prev_rolling_ts_
       /\ t.ub = u
  BY <1>1, <1>5, <1>6, <1>7, <1>8, <1>9 DEF StateOK
<1>11. Unlinks(ob, t, k, l, q)
  BY <1>2, <1>3, <1>4, <1>10 DEF Unlinks, m
<1>12. /\ DOMAIN t.real_map_ = DOMAIN ob.real_map_ \ {k}
       /\ \A x \in DOMAIN t.real_map_ : t.real_map_[x] = ob.real_map_[x]
       /\ TopKeys(t) = TopKeys(ob) /\ LevelKeys(t) = LevelKeys(ob) \ {k}
       /\ LevelsOK(t)
       /\ f = FirstNonEmpty(t.real_lru_, 0)
  <2>1. f = FirstNonEmpty(t.real_lru_, ob.min_level_non_empty_)
    BY <1>10 DEF f
  <2> HIDE DEF lru
  <2> QED BY <2>1, <1>11, LevelRemoval
<1> HIDE DEF lru
<1>13. PartsOK(t)
  BY <1>10, <1>12 DEF Core, PartsOK
<1>14. MinOK(t)
  BY <1>10, <1>12 DEF MinOK
<1>15. StampsOK(t) /\ WrittenBefore(t, t.cur_ts_ + 1)
  <2>1. StampsOK(ob) /\ WrittenBefore(ob, ob.cur_ts_ + 1)
    BY DEF Core
  <2>2. \A x \in DOMAIN t.real_map_ : t.real_map_[x].insert_ts < t.cur_ts_ + 1
    BY <2>1, <1>10, <1>12 DEF WrittenBefore
  <2>3. \A x \in LevelKeys(t) : t.real_map_[x].insert_ts > 0
    BY <2>1, <1>12 DEF WrittenBefore, LevelKeys
  <2> QED BY <2>1, <2>2, <2>3, <1>10 DEF StampsOK, WrittenBefore
<1>16. Core(t)
  BY <1>10, <1>12, <1>13, <1>14, <1>15 DEF Core
<1>17. LevelKeys(ob) # {k} => t.ub = ob.ub
  <2> SUFFICES ASSUME LevelKeys(ob) # {k}
               PROVE  NonEmptyFrom(lru, ob.min_level_non_empty_) # {}
    BY <1>10 DEF u
  <2>1. PICK x \in LevelKeys(t) : TRUE
    BY <1>4, <1>12
  <2>2. PICK y \in Levels : lru[y] # <<>>
    BY <1>10, <1>16, <2>1, LevelFacts
  <2>3. f # MaxPoints
    <3>1. \A z \in Levels : z >= 0 /\ z < f => lru[z] = <<>>
      BY <1>6, <1>10, <1>12, FirstNonEmptyChar
    <3> QED BY <2>2, <3>1, PointsAssumption DEF Levels
  <2> QED BY <2>3, <1>6, <1>7, FirstNonEmptyChar DEF f, FirstNonEmpty
<1>18. RealLevel(ob, k) = l
  BY <1>4 DEF RealLevel, LevelKeys
<1>19. k \notin DOMAIN t.ghost_map_
  BY <1>4, <1>10 DEF Core, PartsOK, LevelKeys
<1> QED BY <1>2, <1>4, <1>8, <1>10, <1>12, <1>16, <1>17, <1>18, <1>19 DEF t, k, l

LEMMA PushGhostCore ==
  ASSUME NEW ob, Core(ob), GhostSize # 0, NEW k \in Keys, NEW l \in Levels,
         k \notin DOMAIN ob.real_map_, k \notin DOMAIN ob.ghost_map_
  PROVE  LET t == PushGhost(ob, k, l)
         IN /\ Core(t)
            /\ t.real_map_ = ob.real_map_
            /\ t.top_lru_size_ = ob.top_lru_size_
            /\ t.ub = ob.ub /\ t.cur_ts_ = ob.cur_ts_
<1> DEFINE t == PushGhost(ob, k, l)
           full == Cardinality(DOMAIN ob.ghost_map_) >= GhostSize
           g == IF full THEN Front(ob.ghost_lru_) ELSE ob.ghost_lru_
           m == IF full THEN Drop(ob.ghost_map_, Last(ob.ghost_lru_))
                ELSE ob.ghost_map_
           e == [insert_level |-> l, insert_ts |-> ob.cur_ts_,
                 h_recency |-> FALSE]
           gg == <<k>> \o g
           mm == Put(m, k, e)
<1>1. StateOK(ob)
  BY DEF Core
<1>2. /\ ob.ghost_lru_ \in Seq(Keys) /\ IsEntryMap(ob.ghost_map_)
      /\ Lists(ob.ghost_lru_, DOMAIN ob.ghost_map_)
  BY <1>1 DEF StateOK, Core, PartsOK
<1>3. /\ Cardinality(DOMAIN ob.ghost_map_) = Len(ob.ghost_lru_)
      /\ Len(ob.ghost_lru_) \in Nat /\ Len(ob.ghost_lru_) <= GhostSize
  BY <1>2, ListsLength DEF Core
<1>4. /\ g \in Seq(Keys) /\ IsEntryMap(m) /\ Lists(g, DOMAIN m)
      /\ DOMAIN m \subseteq DOMAIN ob.ghost_map_
      /\ \A x \in DOMAIN m : m[x] = ob.ghost_map_[x]
      /\ Len(g) < GhostSize
  <2>1. CASE ~full
    BY <2>1, <1>2, <1>3, SizeAssumption
  <2>2. CASE full
    <3>1. ob.ghost_lru_ # <<>>
      BY <2>2, <1>3, SizeAssumption
    <3>2. /\ g \in Seq(Keys) /\ Len(g) = Len(ob.ghost_lru_) - 1
          /\ Lists(g, DOMAIN ob.ghost_map_ \ {Last(ob.ghost_lru_)})
      BY <2>2, <3>1, <1>2, ListsPop
    <3>3. /\ IsEntryMap(m)
          /\ DOMAIN m = DOMAIN ob.ghost_map_ \ {Last(ob.ghost_lru_)}
          /\ \A x \in DOMAIN m : m[x] = ob.ghost_map_[x]
      BY <2>2, <1>2, DropMap
    <3> HIDE DEF g, m
    <3>4. Len(g) < GhostSize
      BY <3>2, <1>3, SizeAssumption
    <3> QED BY <3>2, <3>3, <3>4
  <2> QED BY <2>1, <2>2
<1>5. e \in Entry /\ e.insert_ts = ob.cur_ts_ /\ ob.cur_ts_ \in Nat
  BY <1>1 DEF Entry, StateOK
<1> HIDE DEF full, g, m, e
<1>6. /\ gg \in Seq(Keys) /\ Len(gg) = Len(g) + 1
      /\ Lists(gg, DOMAIN m \cup {k})
  BY <1>4, ListsPush
<1>7. /\ IsEntryMap(mm) /\ DOMAIN mm = DOMAIN m \cup {k}
      /\ mm[k] = e /\ \A x \in DOMAIN m : x # k => mm[x] = m[x]
  <2>1. IsEntryMap(m) /\ e \in Entry /\ k \in Keys
    BY <1>4, <1>5
  <2>2. IsEntryMap(Put(m, k, e))
    BY <2>1, PutMap
  <2>3. /\ DOMAIN Put(m, k, e) = DOMAIN m \cup {k} /\ Put(m, k, e)[k] = e
        /\ \A x \in DOMAIN m : x # k => Put(m, k, e)[x] = m[x]
    BY DEF Put
  <2> QED BY <2>2, <2>3
<1>8. t = [ob EXCEPT !.ghost_lru_ = gg, !.ghost_map_ = mm]
  BY DEF PushGhost, full, g, m, e
<1> HIDE DEF t, gg, mm
<1>9. /\ StateOK(t)
      /\ t.real_lru_ = ob.real_lru_ /\ t.real_map_ = ob.real_map_
      /\ t.top_lru_ = ob.top_lru_ /\ t.top_lru_size_ = ob.top_lru_size_
      /\ t.ghost_lru_ = gg /\ t.ghost_map_ = mm
      /\ t.rolling_ts = ob.rolling_ts
      /\ t.min_level_non_empty_ = ob.min_level_non_empty_
      /\ t.cur_ts_ = ob.cur_ts_ /\ t.prev_rolling_ts_ = ob.prev_rolling_ts_
      /\ t.ub = ob.ub
  BY <1>1, <1>6, <1>7, <1>8 DEF StateOK
<1>10. TopKeys(t) = TopKeys(ob) /\ LevelKeys(t) = LevelKeys(ob)
  BY <1>9 DEF TopKeys, LevelKeys
<1>11. PartsOK(t)
  BY <1>4, <1>6, <1>7, <1>9, <1>10 DEF Core, PartsOK
<1>12. LevelsOK(t)
  BY <1>9, <1>10, LevelsSame
<1>13. MinOK(t)
  BY <1>9 DEF Core, MinOK
<1>14. StampsOK(t)
  BY <1>9 DEF Core, StampsOK
<1>15. WrittenBefore(t, t.cur_ts_ + 1)
  <2>1. WrittenBefore(ob, ob.cur_ts_ + 1)
    BY DEF Core
  <2>2. ASSUME NEW x \in DOMAIN t.ghost_map_
        PROVE  t.ghost_map_[x].insert_ts < t.cur_ts_ + 1
    <3>1. CASE x = k
      BY <3>1, <1>5, <1>7, <1>9
    <3>2. CASE x # k
      <4>1. x \in DOMAIN ob.ghost_map_ /\ mm[x] = ob.ghost_map_[x]
        BY <3>2, <1>4, <1>7, <1>9
      <4> QED BY <4>1, <2>1, <1>9 DEF WrittenBefore
    <3> QED BY <3>1, <3>2
  <2> QED BY <2>1, <2>2, <1>9, <1>10 DEF WrittenBefore
<1>16. Cardinality(DOMAIN t.ghost_map_) <= GhostSize
  <2>1. Cardinality(DOMAIN mm) = Len(gg)
    BY <1>6, <1>7, ListsLength
  <2>2. Len(g) \in Nat
    BY <1>4
  <2> QED BY <2>1, <2>2, <1>4, <1>6, <1>9, SizeAssumption
<1>17. Core(t)
  BY <1>9, <1>11, <1>12, <1>13, <1>14, <1>15, <1>16 DEF Core
<1> QED BY <1>9, <1>17 DEF t

LEMMA EvictCore ==
  ASSUME NEW ob, Core(ob), VictimExists(ob)
  PROVE  LET t == Evict(ob)
             k == Victim(ob)
         IN /\ Core(t)
            /\ k \in LevelKeys(ob)
            /\ DOMAIN t.real_map_ = DOMAIN ob.real_map_ \ {k}
            /\ t.top_lru_size_ = ob.top_lru_size_
            /\ LevelKeys(ob) # {k} => t.ub = ob.ub
            /\ t.ub \in {ob.ub, "evict_scan"}
            /\ t.cur_ts_ = ob.cur_ts_
<1> DEFINE k == Victim(ob)
           u == Unlink(ob)
<1>1. /\ Core(u)
      /\ VictimLevel(ob) \in Levels
      /\ k \in LevelKeys(ob) /\ k \in Keys
      /\ DOMAIN u.real_map_ = DOMAIN ob.real_map_ \ {k}
      /\ k \notin DOMAIN u.ghost_map_
      /\ u.top_lru_size_ = ob.top_lru_size_
      /\ LevelKeys(ob) # {k} => u.ub = ob.ub
      /\ u.ub \in {ob.ub, "evict_scan"}
      /\ u.cur_ts_ = ob.cur_ts_
  BY UnlinkCore
<1> HIDE DEF k, u
<1>2. CASE GhostSize # 0 /\ VictimLevel(ob) # 0
  <2>1. Evict(ob) = PushGhost(u, k, VictimLevel(ob))
    BY <1>2 DEF Evict, u, k
  <2>2. /\ Core(Evict(ob))
        /\ Evict(ob).real_map_ = u.real_map_
        /\ Evict(ob).top_lru_size_ = u.top_lru_size_
        /\ Evict(ob).ub = u.ub /\ Evict(ob).cur_ts_ = u.cur_ts_
    BY <1>1, <1>2, <2>1, PushGhostCore
  <2> QED BY <1>1, <2>2 DEF k
<1>3. CASE ~(GhostSize # 0 /\ VictimLevel(ob) # 0)
  <2>1. Evict(ob) = u
    BY <1>3 DEF Evict, u
  <2> QED BY <1>1, <2>1 DEF k
<1> QED BY <1>2, <1>3

LEMMA EraseGhostCore ==
  ASSUME NEW ob, Core(ob), NEW k \in Keys
  PROVE  LET t == EraseGhost(ob, k)
         IN /\ Core(t)
            /\ t.real_map_ = ob.real_map_
            /\ k \notin DOMAIN t.ghost_map_
            /\ t.top_lru_size_ = ob.top_lru_size_
            /\ t.ub = ob.ub /\ t.cur_ts_ = ob.cur_ts_
<1> DEFINE t == EraseGhost(ob, k)
           gone == k \in DOMAIN ob.ghost_map_
           g == IF gone THEN Erase(ob.ghost_lru_, k) ELSE ob.ghost_lru_
           m == IF gone THEN Drop(ob.ghost_map_, k) ELSE ob.ghost_map_
           c == ob.interval_miss_count_ + 1
<1>1. StateOK(ob)
  BY DEF Core
<1>2. /\ ob.ghost_lru_ \in Seq(Keys) /\ IsEntryMap(ob.ghost_map_)
      /\ Lists(ob.ghost_lru_, DOMAIN ob.ghost_map_)
  BY <1>1 DEF StateOK, Core, PartsOK
<1>3. Cardinality(DOMAIN ob.ghost_map_) = Len(ob.ghost_lru_)
      /\ Len(ob.ghost_lru_) \in Nat /\ Len(ob.ghost_lru_) <= GhostSize
  BY <1>2, ListsLength DEF Core
<1>4. /\ g \in Seq(Keys) /\ Lists(g, DOMAIN m) /\ Len(g) <= GhostSize
      /\ IsEntryMap(m) /\ DOMAIN m = DOMAIN ob.ghost_map_ \ {k}
      /\ \A x \in DOMAIN m : m[x] = ob.ghost_map_[x]
  <2>1. CASE ~gone
    BY <2>1, <1>2, <1>3
  <2>2. CASE gone
    <3>1. /\ g \in Seq(Keys) /\ Len(g) = Len(ob.ghost_lru_) - 1
          /\ Lists(g, DOMAIN ob.ghost_map_ \ {k})
      BY <2>2, <1>2, ListsErase
    <3>2. /\ IsEntryMap(m) /\ DOMAIN m = DOMAIN ob.ghost_map_ \ {k}
          /\ \A x \in DOMAIN m : m[x] = ob.ghost_map_[x]
      BY <2>2, <1>2, DropMap
    <3> HIDE DEF g, m
    <3> QED BY <3>1, <3>2, <1>3, SizeAssumption
  <2> QED BY <2>1, <2>2
<1>5. c \in Nat
  BY <1>1 DEF StateOK
<1>6. t = [ob EXCEPT !.ghost_lru_ = g, !.ghost_map_ = m,
                    !.interval_miss_count_ = c]
  BY DEF EraseGhost
<1> HIDE DEF t, gone, g, m, c
<1>7. /\ StateOK(t)
      /\ t.real_lru_ = ob.real_lru_ /\ t.real_map_ = ob.real_map_
      /\ t.top_lru_ = ob.top_lru_ /\ t.top_lru_size_ = ob.top_lru_size_
      /\ t.ghost_lru_ = g /\ t.ghost_map_ = m
      /\ t.rolling_ts = ob.rolling_ts
      /\ t.min_level_non_empty_ = ob.min_level_non_empty_
      /\ t.cur_ts_ = ob.cur_ts_ /\ t.prev_rolling_ts_ = ob.prev_rolling_ts_
      /\ t.ub = ob.ub
  BY <1>1, <1>4, <1>5, <1>6 DEF StateOK
<1>8. TopKeys(t) = TopKeys(ob) /\ LevelKeys(t) = LevelKeys(ob)
  BY <1>7 DEF TopKeys, LevelKeys
<1>9. PartsOK(t)
  BY <1>4, <1>7, <1>8 DEF Core, PartsOK
<1>10. LevelsOK(t)
  BY <1>7, <1>8, LevelsSame
<1>11. MinOK(t) /\ StampsOK(t)
  BY <1>7 DEF Core, MinOK, StampsOK
<1>12. WrittenBefore(t, t.cur_ts_ + 1)
  BY <1>4, <1>7, <1>8 DEF Core, WrittenBefore
<1>13. Cardinality(DOMAIN t.ghost_map_) <= GhostSize
  BY <1>4, <1>7, ListsLength
<1>14. Core(t)
  BY <1>7, <1>9, <1>10, <1>11, <1>12, <1>13 DEF Core
<1> QED BY <1>4, <1>7, <1>14 DEF t

-----------------------------------------------------------------------------
(* The top: demotion and insertion *)

\* RollsSince counts the stamps after stamp, which are the last ones of the list.
LEMMA RollsSinceChar ==
  ASSUME NEW ob, ob.rolling_ts \in Seq(Nat), NEW stamp \in Nat,
         \A i, j \in DOMAIN ob.rolling_ts :
           i < j => ob.rolling_ts[i] < ob.rolling_ts[j]
  PROVE  LET res == ob.rolling_ts
             c == RollsSince(ob, stamp)
         IN /\ c \in 0 .. Len(res)
            /\ \A i \in 1 .. Len(res) : stamp < res[i] <=> i > Len(res) - c
<1> DEFINE res == ob.rolling_ts
           later == { i \in DOMAIN res : stamp < res[i] }
           c == RollsSince(ob, stamp)
<1>1. /\ Len(res) \in Nat /\ DOMAIN res = 1..Len(res) /\ later \in SUBSET Nat
      /\ \A i \in 1..Len(res) : res[i] \in Nat
  OBVIOUS
<1>2. c \in 0 .. Len(res)
  BY RollsSinceType
<1>3. ASSUME NEW i \in 1 .. Len(res)
      PROVE  stamp < res[i] <=> i > Len(res) - c
  <2>1. CASE later = {}
    <3>1. c = 0
      BY <2>1 DEF RollsSince
    <3> QED BY <2>1, <3>1, <1>1
  <2>2. CASE later # {}
    <3>1. Min(later) \in later /\ \A y \in later : Min(later) <= y
      BY <2>2, <1>1, MinOfNaturals
    <3>2. c = Len(res) - Min(later) + 1
      BY <2>2 DEF RollsSince
    <3> DEFINE m == Min(later)
    <3>3. m \in 1..Len(res) /\ stamp < res[m] /\ res[m] \in Nat
      BY <3>1, <1>1
    <3>4. i > Len(res) - c <=> i >= m
      BY <3>2, <3>3, <1>1
    <3>5. stamp < res[i] => i >= m
      BY <3>1, <1>1
    <3>6. i >= m => stamp < res[i]
      <4>1. CASE i = m
        BY <4>1, <3>3
      <4>2. CASE i > m
        <5>1. res[m] < res[i]
          BY <4>2, <3>3, <1>1
        <5> QED BY <5>1, <3>3, <1>1
      <4> QED BY <4>1, <4>2, <3>3
    <3> QED BY <3>4, <3>5, <3>6
  <2> QED BY <2>1, <2>2
<1> QED BY <1>2, <1>3

LEMMA RollsSinceIs ==
  ASSUME NEW ob, ob.rolling_ts \in Seq(Nat), NEW stamp \in Nat,
         \A i, j \in DOMAIN ob.rolling_ts :
           i < j => ob.rolling_ts[i] < ob.rolling_ts[j],
         NEW c \in 0 .. Len(ob.rolling_ts),
         \A i \in 1 .. Len(ob.rolling_ts) :
           stamp < ob.rolling_ts[i] <=> i > Len(ob.rolling_ts) - c
  PROVE  RollsSince(ob, stamp) = c
<1> DEFINE n == Len(ob.rolling_ts)
           d == RollsSince(ob, stamp)
<1>1. n \in Nat
  OBVIOUS
<1>2. /\ d \in 0 .. n
      /\ \A i \in 1 .. n : stamp < ob.rolling_ts[i] <=> i > n - d
  BY RollsSinceChar
<1>3. \A i \in 1 .. n : i > n - c <=> i > n - d
  BY <1>2
<1> HIDE DEF n, d
<1>4. c \in 0 .. n
  BY DEF n
<1>5. CASE c < d
  <2>1. n - d + 1 \in 1 .. n /\ n - d + 1 > n - d /\ ~(n - d + 1 > n - c)
    BY <1>1, <1>2, <1>4, <1>5
  <2> QED BY <2>1, <1>3
<1>6. CASE d < c
  <2>1. n - c + 1 \in 1 .. n /\ n - c + 1 > n - c /\ ~(n - c + 1 > n - d)
    BY <1>1, <1>2, <1>4, <1>6
  <2> QED BY <2>1, <1>3
<1> QED BY <1>2, <1>4, <1>5, <1>6, <1>1 DEF d

\* An entry written now has the level it was written with.
LEMMA LevelNow ==
  ASSUME NEW ob, StateOK(ob), StampsOK(ob), NEW e \in Entry,
         e.insert_ts = ob.cur_ts_
  PROVE  GetCurrentLevel(ob, e) = e.insert_level
<1> DEFINE res == ob.rolling_ts
<1>1. /\ res \in Seq(Nat) /\ Len(res) \in Nat /\ DOMAIN res = 1..Len(res)
      /\ ob.cur_ts_ \in Nat /\ e.insert_level \in Levels
  BY DEF StateOK, Entry
<1>2. \A i \in 1..Len(res) : res[i] <= ob.cur_ts_
  <2> SUFFICES ASSUME NEW i \in 1..Len(res) PROVE res[i] <= ob.cur_ts_
    OBVIOUS
  <2>1. res # <<>> /\ res[Len(res)] <= ob.cur_ts_ /\ res[i] \in Nat /\ res[Len(res)] \in Nat
    BY <1>1 DEF StampsOK, Last
  <2>2. i < Len(res) => res[i] < res[Len(res)]
    BY <1>1 DEF StampsOK
  <2> QED BY <2>1, <2>2, <1>1
<1>3. RollsSince(ob, ob.cur_ts_) = 0
  <2>1. \A i \in 1..Len(res) : ob.cur_ts_ < res[i] <=> i > Len(res) - 0
    BY <1>1, <1>2
  <2>2. \A i, j \in DOMAIN res : i < j => res[i] < res[j]
    BY DEF StampsOK
  <2>3. 0 \in 0 .. Len(res)
    BY <1>1
  <2> HIDE DEF res
  <2> QED BY <2>1, <2>2, <2>3, <1>1, RollsSinceIs DEF res
<1> QED BY <1>1, <1>3, Shifts DEF GetCurrentLevel

LEMMA DemoteTopCore ==
  ASSUME NEW ob, Core(ob)
  PROVE  LET t == DemoteTop(ob)
         IN /\ Core(t)
            /\ t.top_lru_size_ < LruSize
            /\ DOMAIN t.real_map_ = DOMAIN ob.real_map_
            /\ t.ghost_map_ = ob.ghost_map_
            /\ t.ub = ob.ub /\ t.cur_ts_ = ob.cur_ts_
            /\ \/ t.top_lru_size_ = LruSize - 1
               \/ LevelKeys(t) = LevelKeys(ob)
                    /\ t.top_lru_size_ = ob.top_lru_size_
<1>1. StateOK(ob) /\ ob.top_lru_size_ \in Nat /\ LruSize \in Nat
  BY SizeAssumption DEF Core, StateOK
<1>2. CASE ob.top_lru_size_ < LruSize
  BY <1>2, <1>1 DEF DemoteTop
<1>3. CASE ~(ob.top_lru_size_ < LruSize)
  <2> DEFINE t == DemoteTop(ob)
             k == Last(ob.top_lru_)
             l == ob.real_map_[k].insert_level
             e == [insert_level |-> l, insert_ts |-> ob.cur_ts_,
                   h_recency |-> FALSE]
             q == <<k>> \o ob.real_lru_[l]
             lru == [ob.real_lru_ EXCEPT ![l] = q]
             m == Put(ob.real_map_, k, e)
             f == IF l < ob.min_level_non_empty_ THEN l
                  ELSE ob.min_level_non_empty_
             top == Front(ob.top_lru_)
             n == ob.top_lru_size_ - 1
  <2>1. /\ ob.top_lru_size_ = LruSize /\ ob.top_lru_size_ > 0
        /\ ob.top_lru_ # <<>> /\ ob.cur_ts_ > 0 /\ ob.cur_ts_ \in Nat
        /\ Len(ob.top_lru_) = LruSize /\ n = LruSize - 1 /\ n \in Nat
    BY <1>1, <1>3, SizeAssumption DEF Core, StateOK
  <2>2. /\ k \in TopKeys(ob) /\ top \in Seq(Keys) /\ Len(top) = n
        /\ Lists(top, TopKeys(ob) \ {k})
    BY <1>1, <2>1, ListsPop DEF Core, PartsOK, StateOK
  <2>3. /\ k \in DOMAIN ob.real_map_ /\ ob.real_map_[k].h_recency
        /\ k \in Keys /\ ob.real_map_[k] \in Entry /\ l \in Levels
    BY <1>1, <2>2 DEF TopKeys, StateOK, IsEntryMap, Entry
  <2>4. /\ e \in Entry /\ e.insert_ts = ob.cur_ts_ /\ e.insert_level = l
        /\ ~e.h_recency
    BY <2>1, <2>3 DEF Entry
  <2>5. k \notin LevelSet(ob, l)
    BY <2>3 DEF LevelSet, LevelKeys
  <2>6. q \in Seq(Keys) /\ Lists(q, LevelSet(ob, l) \cup {k}) /\ q # <<>>
    <3>1. /\ ob.real_lru_[l] \in Seq(Keys)
          /\ Lists(ob.real_lru_[l], LevelSet(ob, l))
      BY <2>3, LevelFacts
    <3>2. q \in Seq(Keys) /\ Lists(q, LevelSet(ob, l) \cup {k})
      BY <3>1, <2>3, <2>5, ListsPush
    <3> HIDE DEF q
    <3> QED BY <3>2, ListsEmpty
  <2>7. lru \in [Levels -> Seq(Keys)]
    BY <1>1, <2>6 DEF StateOK
  <2>8. f \in 0 .. MaxPoints
    <3>1. l \in Nat /\ l < MaxPoints /\ MaxPoints \in Nat
      BY <2>3, PointsAssumption DEF Levels
    <3>2. ob.min_level_non_empty_ \in 0 .. MaxPoints
      BY <1>1 DEF StateOK
    <3> HIDE DEF l
    <3> QED BY <3>1, <3>2
  <2> HIDE DEF l, e, q, n
  <2>9. /\ IsEntryMap(m) /\ DOMAIN m = DOMAIN ob.real_map_ /\ m[k] = e
        /\ \A x \in DOMAIN ob.real_map_ : x # k => m[x] = ob.real_map_[x]
    <3>1. IsEntryMap(m)
      BY <1>1, <2>3, <2>4, PutMap DEF StateOK
    <3> QED BY <3>1, <2>3 DEF Put
  <2>10. t = [ob EXCEPT !.real_lru_ = lru, !.real_map_ = m,
                       !.min_level_non_empty_ = f, !.top_lru_ = top,
                       !.top_lru_size_ = n]
    BY <1>3 DEF DemoteTop, l, e, q, n
  <2> HIDE DEF t, k, lru, m, f, top
  <2>11. /\ StateOK(t)
         /\ t.real_lru_ = lru /\ t.real_map_ = m
         /\ t.top_lru_ = top /\ t.top_lru_size_ = n
         /\ t.ghost_lru_ = ob.ghost_lru_ /\ t.ghost_map_ = ob.ghost_map_
         /\ t.rolling_ts = ob.rolling_ts
         /\ t.min_level_non_empty_ = f
         /\ t.cur_ts_ = ob.cur_ts_ /\ t.prev_rolling_ts_ = ob.prev_rolling_ts_
         /\ t.ub = ob.ub
    BY <1>1, <2>1, <2>2, <2>7, <2>8, <2>9, <2>10 DEF StateOK
  <2>12. TopKeys(t) = TopKeys(ob) \ {k} /\ LevelKeys(t) = LevelKeys(ob) \cup {k}
    BY <2>3, <2>4, <2>9, <2>11 DEF TopKeys, LevelKeys
  <2>13. PartsOK(t)
    BY <2>2, <2>9, <2>11, <2>12 DEF Core, PartsOK
  <2>14. StampsOK(t)
    BY <2>11 DEF Core, StampsOK
  <2>15. LevelsOK(t)
    <3>1. GetCurrentLevel(t, t.real_map_[k]) = l
      BY <2>4, <2>9, <2>11, <2>14, LevelNow
    <3>2. \A x \in LevelKeys(ob) : x # k /\ GetCurrentLevel(t, t.real_map_[x])
                                 = GetCurrentLevel(ob, ob.real_map_[x])
      BY <2>3, <2>9, <2>11, SameStamps DEF LevelKeys
    <3>3. /\ LevelSet(t, l) = LevelSet(ob, l) \cup {k}
          /\ \A x \in Levels : x # l => LevelSet(t, x) = LevelSet(ob, x)
      BY <2>12, <3>1, <3>2 DEF LevelSet
    <3>4. \A x \in Levels : Lists(ob.real_lru_[x], LevelSet(ob, x))
      BY LevelFacts
    <3>5. /\ lru[l] = q
          /\ \A x \in Levels : x # l => lru[x] = ob.real_lru_[x]
      BY <1>1, <2>3 DEF lru, StateOK
    <3>6. \A x \in Levels : Lists(t.real_lru_[x], LevelSet(t, x))
      BY <2>6, <2>11, <3>3, <3>4, <3>5
    <3> QED BY <3>6 DEF LevelsOK, LevelSet
  <2>16. MinOK(t)
    <3>1. /\ lru[l] = q
          /\ \A x \in Levels : x # l => lru[x] = ob.real_lru_[x]
      BY <1>1, <2>3 DEF lru, StateOK
    <3>2. f \in Levels => lru[f] # <<>>
      BY <2>3, <2>6, <3>1, MinFacts DEF f
    <3>3. \A x \in Levels : x < f => lru[x] = <<>>
      <4> SUFFICES ASSUME NEW x \in Levels, x < f PROVE lru[x] = <<>>
        OBVIOUS
      <4>1. x # l /\ x < ob.min_level_non_empty_
        <5>1. l \in Nat /\ x \in Nat
          BY <2>3, PointsAssumption DEF Levels
        <5>2. ob.min_level_non_empty_ \in Nat
          BY <1>1, PointsAssumption DEF StateOK
        <5>3. CASE l < ob.min_level_non_empty_
          BY <5>1, <5>2, <5>3 DEF f
        <5>4. CASE ~(l < ob.min_level_non_empty_)
          BY <5>1, <5>2, <5>4 DEF f
        <5> QED BY <5>3, <5>4
      <4> QED BY <4>1, <3>1, MinFacts
    <3>4. f = FirstNonEmpty(lru, 0)
      BY <2>7, <2>8, <3>2, <3>3, FirstNonEmptyIs
    <3> QED BY <3>4, <2>11 DEF MinOK
  <2>17. WrittenBefore(t, t.cur_ts_ + 1)
    <3>1. WrittenBefore(ob, ob.cur_ts_ + 1)
      BY DEF Core
    <3>2. t.real_map_[k].insert_ts = ob.cur_ts_
      BY <2>4, <2>9, <2>11
    <3>3. \A x \in DOMAIN t.real_map_ : t.real_map_[x].insert_ts < t.cur_ts_ + 1
      BY <2>1, <2>9, <2>11, <3>1, <3>2 DEF WrittenBefore
    <3>4. \A x \in LevelKeys(t) : t.real_map_[x].insert_ts > 0
      BY <2>1, <2>9, <2>11, <2>12, <3>1, <3>2 DEF WrittenBefore, LevelKeys
    <3> QED BY <3>1, <3>3, <3>4, <2>11 DEF WrittenBefore
  <2>18. Core(t)
    BY <1>1, <2>1, <2>2, <2>11, <2>13, <2>14, <2>15, <2>16, <2>17
       DEF Core
  <2> QED BY <1>1, <2>1, <2>9, <2>11, <2>18 DEF t
<1> QED BY <1>2, <1>3

LEMMA PushTopCore ==
  ASSUME NEW ob, Core(ob), ob.top_lru_size_ < LruSize, NEW k \in Keys,
         NEW l \in Levels, k \notin DOMAIN ob.real_map_,
         k \notin DOMAIN ob.ghost_map_
  PROVE  LET t == PushTop(ob, k, l)
         IN /\ Core(t)
            /\ WrittenBefore(t, t.cur_ts_) /\ t.prev_rolling_ts_ < t.cur_ts_
            /\ LevelKeys(t) = LevelKeys(ob)
            /\ DOMAIN t.real_map_ = DOMAIN ob.real_map_ \cup {k}
            /\ t.top_lru_size_ = ob.top_lru_size_ + 1
            /\ t.ub = ob.ub
<1> DEFINE t == PushTop(ob, k, l)
           e == [insert_level |-> l, insert_ts |-> ob.cur_ts_,
                 h_recency |-> TRUE]
           top == <<k>> \o ob.top_lru_
           n == ob.top_lru_size_ + 1
           m == Put(ob.real_map_, k, e)
           c == ob.cur_ts_ + 1
<1>1. StateOK(ob) /\ IsEntryMap(ob.real_map_) /\ ob.cur_ts_ \in Nat
  BY DEF Core, StateOK
<1>2. e \in Entry /\ e.insert_ts = ob.cur_ts_ /\ e.h_recency
  BY <1>1 DEF Entry
<1>3. k \notin TopKeys(ob) /\ k \notin LevelKeys(ob)
  BY DEF TopKeys, LevelKeys
<1>4. /\ top \in Seq(Keys) /\ Len(top) = n
      /\ Lists(top, TopKeys(ob) \cup {k})
  <2>1. ob.top_lru_ \in Seq(Keys) /\ Lists(ob.top_lru_, TopKeys(ob))
    BY <1>1 DEF Core, PartsOK, StateOK
  <2>2. /\ top \in Seq(Keys) /\ Len(top) = Len(ob.top_lru_) + 1
        /\ Lists(top, TopKeys(ob) \cup {k})
    BY <1>3, <2>1, ListsPush
  <2> QED BY <2>2 DEF Core
<1>5. n \in Nat /\ n <= LruSize /\ n > 0 /\ c \in Nat /\ c > 0
  BY <1>1, SizeAssumption DEF StateOK
<1> HIDE DEF e, n, top
<1>6. /\ IsEntryMap(m) /\ DOMAIN m = DOMAIN ob.real_map_ \cup {k} /\ m[k] = e
      /\ \A x \in DOMAIN ob.real_map_ : x # k /\ m[x] = ob.real_map_[x]
  <2>1. IsEntryMap(m)
    BY <1>1, <1>2, PutMap
  <2> QED BY <2>1 DEF Put
<1>7. t = [ob EXCEPT !.top_lru_ = top, !.top_lru_size_ = n,
                    !.real_map_ = m, !.cur_ts_ = c]
  BY DEF PushTop, e, n, top
<1> HIDE DEF t, m, c
<1>8. /\ StateOK(t)
      /\ t.real_lru_ = ob.real_lru_ /\ t.real_map_ = m
      /\ t.top_lru_ = top /\ t.top_lru_size_ = n
      /\ t.ghost_lru_ = ob.ghost_lru_ /\ t.ghost_map_ = ob.ghost_map_
      /\ t.rolling_ts = ob.rolling_ts
      /\ t.min_level_non_empty_ = ob.min_level_non_empty_
      /\ t.cur_ts_ = c /\ t.prev_rolling_ts_ = ob.prev_rolling_ts_
      /\ t.ub = ob.ub
  BY <1>1, <1>4, <1>5, <1>6, <1>7 DEF StateOK
<1>9. TopKeys(t) = TopKeys(ob) \cup {k} /\ LevelKeys(t) = LevelKeys(ob)
  BY <1>2, <1>6, <1>8 DEF TopKeys, LevelKeys
<1>10. PartsOK(t)
  BY <1>4, <1>6, <1>8, <1>9 DEF Core, PartsOK
<1>11. LevelsOK(t)
  <2>1. \A x \in LevelKeys(ob) : t.real_map_[x] = ob.real_map_[x]
    BY <1>6, <1>8 DEF LevelKeys
  <2> QED BY <2>1, <1>8, <1>9, LevelsSame
<1>12. MinOK(t)
  BY <1>8 DEF Core, MinOK
<1>13. StampsOK(t) /\ t.prev_rolling_ts_ < t.cur_ts_
  <2>1. StampsOK(ob) /\ ob.prev_rolling_ts_ \in Nat
    BY <1>1 DEF Core, StateOK
  <2>2. ob.prev_rolling_ts_ < c
    BY <2>1, <1>1 DEF StampsOK, c
  <2> QED BY <2>1, <2>2, <1>5, <1>8 DEF StampsOK
<1>14. WrittenBefore(t, t.cur_ts_)
  <2>1. WrittenBefore(ob, c)
    BY DEF Core, c
  <2>2. e.insert_ts < c
    BY <1>1, <1>2 DEF c
  <2>3. \A x \in DOMAIN t.real_map_ : t.real_map_[x].insert_ts < c
    BY <2>1, <2>2, <1>6, <1>8 DEF WrittenBefore
  <2>4. \A x \in LevelKeys(t) : t.real_map_[x].insert_ts > 0
    BY <2>1, <1>6, <1>8, <1>9 DEF WrittenBefore, LevelKeys
  <2> QED BY <2>1, <2>3, <2>4, <1>8 DEF WrittenBefore
<1>15. WrittenBefore(t, t.cur_ts_ + 1)
  <2>1. /\ \A x \in DOMAIN t.real_map_ : t.real_map_[x].insert_ts \in Nat
        /\ \A x \in DOMAIN t.ghost_map_ : t.ghost_map_[x].insert_ts \in Nat
        /\ t.cur_ts_ \in Nat
    BY <1>8 DEF StateOK, IsEntryMap, Entry
  <2> QED BY <2>1, <1>14 DEF WrittenBefore
<1>16. Core(t)
  BY <1>4, <1>5, <1>8, <1>10, <1>11, <1>12, <1>13, <1>15 DEF Core
<1> QED BY <1>6, <1>8, <1>9, <1>13, <1>14, <1>16 DEF t, n

-----------------------------------------------------------------------------
(* The rolling of the levels *)

\* The stamps after a rolling: one more, the oldest one forgotten when there
\* are more than max_points_bits_.
Stamps(ob) ==
  LET stamps == Append(ob.rolling_ts, ob.cur_ts_)
  IN IF Len(stamps) > MaxPointsBits THEN Tail(stamps) ELSE stamps

LEMMA StampsAfter ==
  ASSUME NEW ob, StateOK(ob), StampsOK(ob), ob.prev_rolling_ts_ < ob.cur_ts_
  PROVE  LET res == ob.rolling_ts
             n == Len(res)
             q == Stamps(ob)
             d == IF n = MaxPointsBits THEN 1 ELSE 0
         IN /\ q \in Seq(Nat) /\ n \in 0 .. MaxPointsBits
            /\ Len(q) = n + 1 - d /\ q # <<>> /\ Last(q) = ob.cur_ts_
            /\ \A i \in 1 .. n - d : q[i] = res[i + d]
            /\ q[n + 1 - d] = ob.cur_ts_
            /\ \A i, j \in DOMAIN q : i < j => q[i] < q[j]
<1> DEFINE res == ob.rolling_ts
           n == Len(res)
           c == ob.cur_ts_
           a == Append(res, c)
           q == Stamps(ob)
           d == IF n = MaxPointsBits THEN 1 ELSE 0
<1>1. /\ res \in Seq(Nat) /\ n \in Nat /\ DOMAIN res = 1..n /\ c \in Nat
      /\ n <= MaxPointsBits /\ MaxPointsBits \in Nat \ {0}
  BY PointsAssumption DEF StateOK, StampsOK
<1>2. \A i, j \in 1..n : i < j => res[i] < res[j]
  BY <1>1 DEF StampsOK
<1>3. \A i \in 1..n : res[i] < c /\ res[i] \in Nat
  <2> SUFFICES ASSUME NEW i \in 1..n PROVE res[i] < c /\ res[i] \in Nat
    OBVIOUS
  <2>1. res # <<>> /\ res[n] < c /\ res[i] \in Nat /\ res[n] \in Nat
    BY <1>1 DEF StampsOK, Last
  <2>2. i < n => res[i] < res[n]
    BY <1>1, <1>2
  <2> QED BY <2>1, <2>2, <1>1
<1>4. /\ a \in Seq(Nat) /\ Len(a) = n + 1 /\ a[n + 1] = c
      /\ \A i \in 1..n : a[i] = res[i]
  BY <1>1
<1> HIDE DEF res, a, c
<1>5. /\ q \in Seq(Nat) /\ Len(q) = n + 1 - d
      /\ \A i \in 1 .. n + 1 - d : q[i] = a[i + d]
  <2>1. CASE n = MaxPointsBits
    <3>1. q = Tail(a) /\ a # <<>>
      BY <2>1, <1>1, <1>4 DEF Stamps, a, res, c
    <3>2. /\ q \in Seq(Nat) /\ Len(q) = n
          /\ \A i \in 1 .. n : q[i] = a[i + 1]
      BY <3>1, <1>1, <1>4
    <3>3. d = 1
      BY <2>1
    <3> HIDE DEF q, n, d
    <3> QED BY <3>2, <3>3, <1>1
  <2>2. CASE n # MaxPointsBits
    <3>1. q = a
      BY <2>2, <1>1, <1>4 DEF Stamps, a, res, c
    <3> HIDE DEF q, n
    <3> QED BY <2>2, <3>1, <1>1, <1>4
  <2> QED BY <2>1, <2>2
<1> HIDE DEF q, n
<1>6. d \in {0, 1} /\ d <= n
  BY <1>1
<1> HIDE DEF d
<1>7. /\ DOMAIN q = 1 .. n + 1 - d /\ q # <<>>
      /\ \A i \in 1 .. n - d : q[i] = res[i + d] /\ i + d \in 1 .. n
      /\ q[n + 1 - d] = c
  <2>1. DOMAIN q = 1 .. n + 1 - d /\ q # <<>>
    BY <1>1, <1>5, <1>6
  <2>2. ASSUME NEW i \in 1 .. n - d
        PROVE  q[i] = res[i + d] /\ i + d \in 1 .. n
    <3>1. i \in 1 .. n + 1 - d /\ i + d \in 1 .. n
      BY <1>1, <1>6
    <3> QED BY <3>1, <1>4, <1>5
  <2>3. q[n + 1 - d] = c
    <3>1. n + 1 - d \in 1 .. n + 1 - d /\ (n + 1 - d) + d = n + 1
      BY <1>1, <1>6
    <3> QED BY <3>1, <1>4, <1>5
  <2> QED BY <2>1, <2>2, <2>3
<1>8. ASSUME NEW i \in 1 .. n + 1 - d, NEW j \in 1 .. n + 1 - d, i < j
      PROVE  q[i] < q[j]
  <2>1. i \in 1 .. n - d /\ q[i] = res[i + d] /\ i + d \in 1 .. n
    BY <1>1, <1>6, <1>7, <1>8
  <2>2. CASE j = n + 1 - d
    BY <2>1, <2>2, <1>3, <1>7
  <2>3. CASE j # n + 1 - d
    <3>1. j \in 1 .. n - d /\ q[j] = res[j + d] /\ j + d \in 1 .. n
      BY <2>3, <1>1, <1>6, <1>7
    <3>2. i + d < j + d
      BY <1>6, <1>8
    <3> QED BY <2>1, <3>1, <3>2, <1>2
  <2> QED BY <2>2, <2>3
<1>9. Last(q) = c
  BY <1>5, <1>7 DEF Last
<1>10. n \in 0 .. MaxPointsBits
  BY <1>1
<1> QED BY <1>5, <1>7, <1>8, <1>9, <1>10 DEF res, n, c, q, d

\* A rolling halves the level of every entry written before it.
LEMMA RollingHalves ==
  ASSUME NEW ob, StateOK(ob), StampsOK(ob), ob.prev_rolling_ts_ < ob.cur_ts_,
         NEW t, t.rolling_ts = Stamps(ob), NEW e \in Entry,
         e.insert_ts < ob.cur_ts_
  PROVE  GetCurrentLevel(t, e) = GetCurrentLevel(ob, e) \div 2
<1> DEFINE res == ob.rolling_ts
           n == Len(res)
           q == Stamps(ob)
           d == IF n = MaxPointsBits THEN 1 ELSE 0
           stamp == e.insert_ts
           c == RollsSince(ob, stamp)
           cc == IF c = MaxPointsBits THEN c ELSE c + 1
<1>1. /\ res \in Seq(Nat) /\ n \in Nat /\ stamp \in Nat /\ e.insert_level \in Levels
      /\ n <= MaxPointsBits /\ MaxPointsBits \in Nat \ {0}
      /\ \A i, j \in DOMAIN res : i < j => res[i] < res[j]
  BY PointsAssumption DEF StateOK, StampsOK, Entry
<1>2. /\ q \in Seq(Nat) /\ Len(q) = n + 1 - d /\ q[n + 1 - d] = ob.cur_ts_
      /\ \A i \in 1 .. n - d : q[i] = res[i + d]
      /\ \A i, j \in DOMAIN q : i < j => q[i] < q[j]
  BY StampsAfter
<1>3. c \in 0 .. n /\ \A i \in 1 .. n : stamp < res[i] <=> i > n - c
  BY <1>1, RollsSinceChar
<1>4. d \in {0, 1} /\ d <= n /\ (d = 1 <=> n = MaxPointsBits)
  BY <1>1
<1> HIDE DEF res, n, q, d, c
<1>5. cc \in 0 .. Len(q)
  BY <1>1, <1>2, <1>3, <1>4
<1>6. ASSUME NEW i \in 1 .. Len(q)
      PROVE  stamp < q[i] <=> i > Len(q) - cc
  <2>1. CASE i = n + 1 - d
    <3>1. stamp < q[i]
      BY <2>1, <1>2
    <3>2. i > Len(q) - cc
      BY <2>1, <1>1, <1>2, <1>3, <1>4
    <3> QED BY <3>1, <3>2
  <2>2. CASE i # n + 1 - d
    <3>1. i \in 1 .. n - d /\ i + d \in 1 .. n /\ q[i] = res[i + d]
      BY <2>2, <1>1, <1>2, <1>4
    <3>2. stamp < q[i] <=> i + d > n - c
      BY <3>1, <1>3
    <3>3. CASE c = MaxPointsBits
      <4>1. n = c /\ d = 1 /\ cc = c
        BY <3>3, <1>1, <1>3, <1>4
      <4> QED BY <4>1, <3>1, <3>2, <1>1, <1>2
    <3>4. CASE c # MaxPointsBits
      <4>1. Len(q) - cc = n - d - c
        BY <3>4, <1>1, <1>2, <1>3, <1>4
      <4> QED BY <4>1, <3>1, <3>2, <1>1, <1>3, <1>4
    <3> QED BY <3>3, <3>4
  <2> QED BY <2>1, <2>2
<1>7. RollsSince(t, stamp) = cc
  <2>1. t.rolling_ts = q
    BY DEF q
  <2> HIDE DEF cc
  <2> QED BY <2>1, <1>1, <1>2, <1>5, <1>6, RollsSinceIs
<1>8. c \in 0 .. MaxPointsBits
  BY <1>1, <1>3
<1>9. Shr(e.insert_level, cc) = Shr(e.insert_level, c) \div 2
  <2>1. CASE c = MaxPointsBits
    BY <2>1, <1>1, Shifts
  <2>2. CASE c # MaxPointsBits
    BY <2>2, <1>1, <1>8, Shifts
  <2> QED BY <2>1, <2>2
<1> QED BY <1>7, <1>9 DEF GetCurrentLevel, c

\* The list spliced from levels 2j and 2j + 1 holds the keys of both.
LEMMA HalveLists ==
  ASSUME NEW ob, Core(ob), NEW j \in Levels
  PROVE  LET h == HalveLevels(ob.real_lru_)
         IN /\ h[j] \in Seq(Keys)
            /\ Lists(h[j], { k \in LevelKeys(ob) :
                    GetCurrentLevel(ob, ob.real_map_[k]) \div 2 = j })
<1> DEFINE at(i) == IF i \in Levels THEN ob.real_lru_[i] ELSE <<>>
           a == at(2*j)
           b == at(2*j + 1)
           A == LevelSet(ob, 2*j)
           B == LevelSet(ob, 2*j + 1)
           H == { k \in LevelKeys(ob) :
                    GetCurrentLevel(ob, ob.real_map_[k]) \div 2 = j }
<1>1. j \in Nat /\ \A k \in LevelKeys(ob) :
                      GetCurrentLevel(ob, ob.real_map_[k]) \in Nat
  BY LevelFacts, PointsAssumption DEF Levels
<1>2. A \cap B = {} /\ H = A \cup B /\ H = B \cup A /\ B \cap A = {}
  <2>1. \A l \in Nat : l \div 2 = j <=> l = 2*j \/ l = 2*j + 1
    BY <1>1
  <2> QED BY <1>1, <2>1 DEF LevelSet
<1>3. \A i \in Nat : at(i) \in Seq(Keys) /\ Lists(at(i), LevelSet(ob, i))
  <2> SUFFICES ASSUME NEW i \in Nat
               PROVE  at(i) \in Seq(Keys) /\ Lists(at(i), LevelSet(ob, i))
    OBVIOUS
  <2>1. CASE i \in Levels
    BY <2>1, LevelFacts
  <2>2. CASE i \notin Levels
    <3>1. LevelSet(ob, i) = {}
      BY <2>2, LevelFacts DEF LevelSet
    <3>2. Lists(<<>>, {}) /\ <<>> \in Seq(Keys)
      BY DEF Lists, IsInjective, ToSet
    <3> QED BY <2>2, <3>1, <3>2
  <2> QED BY <2>1, <2>2
<1>4. /\ a \in Seq(Keys) /\ Lists(a, A)
      /\ b \in Seq(Keys) /\ Lists(b, B)
  BY <1>1, <1>3
<1>5. HalveLevels(ob.real_lru_)[j] = IF MruThreshold # -1 THEN a \o b ELSE b \o a
  BY DEF HalveLevels
<1> HIDE DEF a, b, A, B, H
<1>6. a \o b \in Seq(Keys) /\ Lists(a \o b, H)
  BY <1>2, <1>4, ListsConcat
<1>7. b \o a \in Seq(Keys) /\ Lists(b \o a, H)
  BY <1>2, <1>4, ListsConcat
<1> QED BY <1>5, <1>6, <1>7 DEF H

\* The lowest level in use after a rolling, as Rolling computes it
Lowest(ob) ==
  LET moved == NonEmptyFrom(ob.real_lru_, 1)
  IN IF moved = {} THEN ob.min_level_non_empty_
     ELSE Min({ob.min_level_non_empty_, Min(moved) \div 2})

LEMMA LowestIs ==
  ASSUME NEW ob, Core(ob), NEW h, h = HalveLevels(ob.real_lru_)
  PROVE  /\ h \in [Levels -> Seq(Keys)]
         /\ Lowest(ob) \in 0 .. MaxPoints
         /\ Lowest(ob) = FirstNonEmpty(h, 0)
<1> DEFINE m == ob.min_level_non_empty_
           lru == ob.real_lru_
           moved == NonEmptyFrom(lru, 1)
           low == Lowest(ob)
<1>1. h \in [Levels -> Seq(Keys)]
  <2>1. h = [j \in Levels |-> h[j]]
    BY DEF HalveLevels
  <2>2. \A j \in Levels : h[j] \in Seq(Keys)
    BY HalveLists
  <2> QED BY <2>1, <2>2
<1>2. /\ m \in 0 .. MaxPoints /\ m \in Nat /\ MaxPoints \in Nat \ {0}
      /\ m \in Levels => lru[m] # <<>>
      /\ \A l \in Levels : l < m => lru[l] = <<>>
  BY MinFacts, PointsAssumption
<1>3. \A l : l \in Levels <=> l \in Nat /\ l < MaxPoints
  BY PointsAssumption DEF Levels
<1>4. ASSUME NEW j \in Levels
      PROVE  h[j] = <<>> <=> /\ 2*j \in Levels => lru[2*j] = <<>>
                             /\ 2*j + 1 \in Levels => lru[2*j + 1] = <<>>
  <2> DEFINE at(i) == IF i \in Levels THEN lru[i] ELSE <<>>
             a == at(2*j)
             b == at(2*j + 1)
  <2>1. a \in Seq(Keys) /\ b \in Seq(Keys)
    BY LevelFacts
  <2>2. h[j] = a \o b \/ h[j] = b \o a
    BY DEF HalveLevels
  <2>3. a = <<>> <=> (2*j \in Levels => lru[2*j] = <<>>)
    OBVIOUS
  <2>4. b = <<>> <=> (2*j + 1 \in Levels => lru[2*j + 1] = <<>>)
    OBVIOUS
  <2> HIDE DEF a, b
  <2>5. /\ a \o b = <<>> <=> a = <<>> /\ b = <<>>
        /\ b \o a = <<>> <=> a = <<>> /\ b = <<>>
    BY <2>1, ConcatEqualIffEmptyBoth
  <2> QED BY <2>2, <2>3, <2>4, <2>5
<1>5. /\ moved \subseteq Levels /\ moved \in SUBSET Nat
      /\ \A l \in moved : l >= 1 /\ lru[l] # <<>>
      /\ \A l \in Levels : l >= 1 /\ lru[l] # <<>> => l \in moved
  BY <1>3 DEF NonEmptyFrom
<1> HIDE DEF m, lru, moved, low
<1>6. CASE moved = {}
  <2>1. low = m
    BY <1>6 DEF low, Lowest, moved, lru, m
  <2>2. m = 0 \/ m = MaxPoints
    BY <1>2, <1>3, <1>5, <1>6
  <2>3. m \in Levels => h[m] # <<>>
    <3> SUFFICES ASSUME m \in Levels PROVE h[m] # <<>>
      OBVIOUS
    <3>1. m = 0 /\ 2*m = m /\ lru[m] # <<>>
      BY <2>2, <1>2, <1>3
    <3> QED BY <3>1, <1>4
  <2>4. ASSUME NEW j \in Levels, j < m PROVE h[j] = <<>>
    <3>1. m = MaxPoints
      BY <2>2, <2>4, <1>3
    <3>2. \A l \in Levels : lru[l] = <<>>
      BY <3>1, <1>2, <1>3
    <3> QED BY <3>2, <1>4
  <2>5. m = FirstNonEmpty(h, 0)
    BY <1>1, <1>2, <2>3, <2>4, FirstNonEmptyIs
  <2> QED BY <1>1, <1>2, <2>1, <2>5 DEF low
<1>7. CASE moved # {}
  <2> DEFINE M == Min(moved)
             z == M \div 2
  <2>1. /\ M \in moved /\ M \in Levels /\ M \in Nat /\ M >= 1
        /\ lru[M] # <<>> /\ \A y \in moved : M <= y
    BY <1>5, <1>7, MinOfNaturals
  <2>2. /\ z \in Nat /\ z <= M /\ z \in Levels
        /\ (2*z = M \/ 2*z + 1 = M)
    <3> HIDE DEF M
    <3>1. M \in Nat /\ M >= 1 /\ M < MaxPoints
      BY <2>1, <1>3
    <3>2. z \in Nat /\ z <= M /\ (2*z = M \/ 2*z + 1 = M)
      BY <3>1
    <3> HIDE DEF z
    <3> QED BY <3>1, <3>2, <1>2, <1>3
  <2>3. low = Min({m, z})
    BY <1>7 DEF low, Lowest, moved, lru, m
  <2> HIDE DEF M, z
  <2>4. Min({m, z}) \in {m, z} /\ Min({m, z}) <= m /\ Min({m, z}) <= z
    <3>1. {m, z} \in SUBSET Nat /\ {m, z} # {}
      BY <1>2, <2>2
    <3> QED BY <3>1, MinOfNaturals
  <2>5. m <= M
    BY <1>2, <2>1
  <2>6. low \in Levels /\ low \in Nat
    <3>1. low = m \/ low = z
      BY <2>3, <2>4
    <3>2. m \in Levels
      BY <2>1, <2>5, <1>2, <1>3
    <3> QED BY <3>1, <3>2, <1>2, <2>2
  <2>7. CASE m = 0
    <3>1. low = 0 /\ 0 \in Levels /\ lru[0] # <<>> /\ 2*0 = 0
      BY <2>7, <2>2, <2>3, <2>4, <1>2, <1>3
    <3>2. h[0] # <<>>
      BY <3>1, <1>4
    <3>3. \A j \in Levels : ~(j < 0)
      BY <1>3
    <3>4. low = FirstNonEmpty(h, 0)
      BY <3>1, <3>2, <3>3, <1>1, <1>2, FirstNonEmptyIs
    <3> QED BY <3>1, <3>4, <1>1, <1>2 DEF low
  <2>8. CASE m # 0
    <3>1. m = M
      <4>1. m \in Levels /\ m >= 1
        BY <2>1, <2>5, <2>8, <1>2, <1>3
      <4>2. m \in moved
        BY <4>1, <1>2, <1>5
      <4> QED BY <4>2, <2>1, <2>5, <1>2
    <3>2. low = z
      BY <3>1, <2>2, <2>3, <2>4, <2>1
    <3>3. h[z] # <<>>
      BY <2>1, <2>2, <1>4
    <3>4. ASSUME NEW j \in Levels, j < z PROVE h[j] = <<>>
      <4>1. j \in Nat /\ 2*j < M /\ 2*j + 1 < M
        BY <2>1, <2>2, <3>4, <1>3
      <4> QED BY <4>1, <3>1, <1>2, <1>4
    <3>5. z = FirstNonEmpty(h, 0)
      <4>1. z \in 0 .. MaxPoints
        BY <2>2, <1>3, <1>2
      <4> QED BY <4>1, <3>3, <3>4, <1>1, FirstNonEmptyIs
    <3>6. z \in 0 .. MaxPoints
      BY <2>2, <1>3, <1>2
    <3> QED BY <3>2, <3>5, <3>6, <1>1 DEF low
  <2> QED BY <2>7, <2>8
<1> QED BY <1>6, <1>7

LEMMA RollingCore ==
  ASSUME NEW ob, Core(ob), WrittenBefore(ob, ob.cur_ts_),
         ob.prev_rolling_ts_ < ob.cur_ts_
  PROVE  LET t == Rolling(ob)
         IN /\ Core(t)
            /\ WrittenBefore(t, t.cur_ts_)
            /\ LevelKeys(t) = LevelKeys(ob)
            /\ t.real_map_ = ob.real_map_
            /\ t.top_lru_size_ = ob.top_lru_size_
            /\ t.ub = ob.ub
<1> DEFINE t == Rolling(ob)
           h == HalveLevels(ob.real_lru_)
           f == Lowest(ob)
           q == Stamps(ob)
           x == ToInt(ob.cur_ts_ + ob.cur_half_)
<1>1. StateOK(ob) /\ StampsOK(ob) /\ ob.cur_ts_ \in Nat
  BY DEF Core, StateOK
<1>2. /\ h \in [Levels -> Seq(Keys)] /\ f \in 0 .. MaxPoints
      /\ f = FirstNonEmpty(h, 0)
  BY LowestIs
<1>3. /\ q \in Seq(Nat) /\ Len(q) <= MaxPointsBits /\ q # <<>>
      /\ Last(q) = ob.cur_ts_
      /\ \A i, j \in DOMAIN q : i < j => q[i] < q[j]
  <2> DEFINE n == Len(ob.rolling_ts)
             d == IF n = MaxPointsBits THEN 1 ELSE 0
  <2>1. /\ q \in Seq(Nat) /\ n \in 0 .. MaxPointsBits
        /\ Len(q) = n + 1 - d /\ q # <<>>
        /\ Last(q) = ob.cur_ts_
        /\ \A i, j \in DOMAIN q : i < j => q[i] < q[j]
    BY <1>1, StampsAfter
  <2> HIDE DEF n, q
  <2>2. Len(q) <= MaxPointsBits
    BY <2>1, PointsAssumption
  <2> QED BY <2>1, <2>2
<1>4. x \in Int
  BY <1>1, ClockAssumption DEF ToInt, StateOK
<1>5. t = [ob EXCEPT !.real_lru_ = h, !.min_level_non_empty_ = f,
                    !.next_rolling_ts_ = x, !.prev_rolling_ts_ = ob.cur_ts_,
                    !.rolling_ts = q]
  BY DEF Rolling, Lowest, Stamps
<1> HIDE DEF t, h, f, q, x
<1>6. /\ StateOK(t)
      /\ t.real_lru_ = h /\ t.real_map_ = ob.real_map_
      /\ t.top_lru_ = ob.top_lru_ /\ t.top_lru_size_ = ob.top_lru_size_
      /\ t.ghost_lru_ = ob.ghost_lru_ /\ t.ghost_map_ = ob.ghost_map_
      /\ t.rolling_ts = q
      /\ t.min_level_non_empty_ = f
      /\ t.cur_ts_ = ob.cur_ts_ /\ t.prev_rolling_ts_ = ob.cur_ts_
      /\ t.ub = ob.ub
  BY <1>1, <1>2, <1>3, <1>4, <1>5 DEF StateOK
<1>7. TopKeys(t) = TopKeys(ob) /\ LevelKeys(t) = LevelKeys(ob)
  BY <1>6 DEF TopKeys, LevelKeys
<1>8. PartsOK(t)
  BY <1>6, <1>7 DEF Core, PartsOK
<1>9. LevelsOK(t)
  <2>1. ASSUME NEW k \in LevelKeys(ob)
        PROVE  GetCurrentLevel(t, t.real_map_[k])
                 = GetCurrentLevel(ob, ob.real_map_[k]) \div 2
    <3>1. /\ ob.real_map_[k] \in Entry
          /\ ob.real_map_[k].insert_ts < ob.cur_ts_
      BY <1>1 DEF LevelKeys, StateOK, IsEntryMap, WrittenBefore
    <3>2. t.rolling_ts = Stamps(ob)
      BY <1>6 DEF q
    <3> QED BY <1>1, <1>6, <3>1, <3>2, RollingHalves
  <2>2. \A l \in Levels :
          { k \in LevelKeys(t) : GetCurrentLevel(t, t.real_map_[k]) = l }
            = { k \in LevelKeys(ob) :
                  GetCurrentLevel(ob, ob.real_map_[k]) \div 2 = l }
    BY <1>7, <2>1
  <2>3. \A l \in Levels : Lists(h[l], { k \in LevelKeys(ob) :
                  GetCurrentLevel(ob, ob.real_map_[k]) \div 2 = l })
    BY HalveLists DEF h
  <2> QED BY <1>6, <2>2, <2>3 DEF LevelsOK
<1>10. MinOK(t)
  BY <1>2, <1>6 DEF MinOK
<1>11. StampsOK(t)
  BY <1>1, <1>3, <1>6 DEF StampsOK
<1>12. WrittenBefore(t, t.cur_ts_)
  BY <1>6, <1>7 DEF WrittenBefore
<1>13. WrittenBefore(t, t.cur_ts_ + 1)
  BY <1>6, <1>7 DEF WrittenBefore, Core
<1>14. Core(t)
  BY <1>6, <1>8, <1>9, <1>10, <1>11, <1>13 DEF Core
<1> QED BY <1>6, <1>7, <1>12, <1>14 DEF t

-----------------------------------------------------------------------------
(* One access *)

LEMMA ObjectCore ==
  ASSUME NEW ob, ObjectOK(ob)
  PROVE  Core(ob)
<1>1. /\ StateOK(ob) /\ PartsOK(ob) /\ LevelsOK(ob) /\ SizesOK(ob) /\ MinOK(ob)
      /\ StampsOK(ob) /\ WrittenBefore(ob, ob.cur_ts_)
  BY DEF ObjectOK, ClockOK
<1>2. /\ ob.cur_ts_ \in Nat /\ IsEntryMap(ob.real_map_) /\ IsEntryMap(ob.ghost_map_)
      /\ ob.top_lru_ \in Seq(Keys)
  BY <1>1 DEF StateOK
<1>3. WrittenBefore(ob, ob.cur_ts_ + 1)
  <2>1. /\ \A x \in DOMAIN ob.real_map_ : ob.real_map_[x].insert_ts \in Nat
        /\ \A x \in DOMAIN ob.ghost_map_ : ob.ghost_map_[x].insert_ts \in Nat
    BY <1>2 DEF IsEntryMap, Entry
  <2> QED BY <2>1, <1>1, <1>2 DEF WrittenBefore
<1>4. ob.top_lru_size_ > 0 => ob.cur_ts_ > 0
  <2> SUFFICES ASSUME ob.top_lru_size_ > 0 PROVE ob.cur_ts_ > 0
    OBVIOUS
  <2>1. ob.top_lru_ # <<>> /\ Lists(ob.top_lru_, TopKeys(ob))
    BY <1>1, <1>2 DEF SizesOK, PartsOK
  <2>2. Head(ob.top_lru_) \in TopKeys(ob)
    BY <2>1, <1>2, ListsPop
  <2>3. /\ Head(ob.top_lru_) \in DOMAIN ob.real_map_
        /\ ob.real_map_[Head(ob.top_lru_)].insert_ts < ob.cur_ts_
        /\ ob.real_map_[Head(ob.top_lru_)].insert_ts \in Nat
    BY <2>2, <1>1, <1>2 DEF TopKeys, WrittenBefore, IsEntryMap, Entry
  <2> QED BY <2>3, <1>2
<1> QED BY <1>1, <1>3, <1>4 DEF Core, SizesOK

LEMMA InsertOK ==
  ASSUME NEW ob, Core(ob), NEW k \in Keys, NEW l \in Nat,
         k \notin DOMAIN ob.real_map_, k \notin DOMAIN ob.ghost_map_,
         Cardinality(DOMAIN ob.real_map_) < Size,
         LevelKeys(ob) # {} => ob.top_lru_size_ >= LruSize - 1
  PROVE  ObjectOK(Insert(ob, k, l)) /\ Insert(ob, k, l).ub = ob.ub
<1> DEFINE a == DemoteTop(ob)
           p == Cap(HitPoints + l)
           b == PushTop(a, k, p)
           t == RollIfDue(b)
<1>1. /\ Core(a) /\ a.top_lru_size_ < LruSize
      /\ DOMAIN a.real_map_ = DOMAIN ob.real_map_
      /\ a.ghost_map_ = ob.ghost_map_ /\ a.ub = ob.ub
      /\ \/ a.top_lru_size_ = LruSize - 1
         \/ LevelKeys(a) = LevelKeys(ob) /\ a.top_lru_size_ = ob.top_lru_size_
  BY DemoteTopCore
<1>2. p \in Levels
  BY PointsAssumption DEF Cap, Levels
<1> HIDE DEF a, p
<1>3. /\ Core(b) /\ WrittenBefore(b, b.cur_ts_)
      /\ b.prev_rolling_ts_ < b.cur_ts_
      /\ LevelKeys(b) = LevelKeys(a)
      /\ DOMAIN b.real_map_ = DOMAIN ob.real_map_ \cup {k}
      /\ b.top_lru_size_ = a.top_lru_size_ + 1
      /\ b.ub = ob.ub
  BY <1>1, <1>2, PushTopCore
<1> HIDE DEF b
<1>4. /\ Core(t) /\ WrittenBefore(t, t.cur_ts_)
      /\ LevelKeys(t) = LevelKeys(a)
      /\ DOMAIN t.real_map_ = DOMAIN ob.real_map_ \cup {k}
      /\ t.top_lru_size_ = a.top_lru_size_ + 1
      /\ t.ub = ob.ub
  <2>1. CASE b.cur_ts_ >= b.next_rolling_ts_
    <3>1. t = Rolling(b)
      BY <2>1 DEF RollIfDue
    <3>2. /\ Core(Rolling(b))
          /\ WrittenBefore(Rolling(b), Rolling(b).cur_ts_)
          /\ LevelKeys(Rolling(b)) = LevelKeys(b)
          /\ Rolling(b).real_map_ = b.real_map_
          /\ Rolling(b).top_lru_size_ = b.top_lru_size_
          /\ Rolling(b).ub = b.ub
      BY <1>3, RollingCore
    <3> QED BY <3>1, <3>2, <1>3
  <2>2. CASE ~(b.cur_ts_ >= b.next_rolling_ts_)
    BY <2>2, <1>3 DEF RollIfDue
  <2> QED BY <2>1, <2>2
<1>5. Insert(ob, k, l) = t
  BY DEF Insert, a, b, p
<1> HIDE DEF t
<1>6. IsFiniteSet(DOMAIN ob.real_map_)
  <2>1. DOMAIN ob.real_map_ \subseteq Keys
    BY DEF Core, StateOK, IsEntryMap
  <2> QED BY <2>1, KeysAssumption, FS_Subset
<1>7. Cardinality(DOMAIN t.real_map_) <= Size
  <2>1. /\ Cardinality(DOMAIN ob.real_map_ \cup {k})
             = Cardinality(DOMAIN ob.real_map_) + 1
        /\ Cardinality(DOMAIN ob.real_map_) \in Nat
    BY <1>6, FS_AddElement, FS_CardinalityType
  <2> QED BY <2>1, <1>4, SizeAssumption
<1>8. LevelKeys(t) # {} => t.top_lru_size_ = LruSize
  <2>1. a.top_lru_size_ \in Nat /\ LruSize \in Nat
    <3>1. LruSize \in Nat
      BY SizeAssumption
    <3> QED BY <3>1, <1>1 DEF Core, StateOK
  <2> QED BY <2>1, <1>1, <1>4
<1>9. SizesOK(t)
  BY <1>4, <1>7, <1>8 DEF Core, SizesOK
<1> QED BY <1>4, <1>5, <1>9 DEF Core, ObjectOK, ClockOK

LEMMA AccessHitOK ==
  ASSUME NEW ob, ObjectOK(ob), NEW k \in DOMAIN ob.real_map_
  PROVE  /\ ObjectOK(AccessHit(ob, k))
         /\ AccessHit(ob, k).ub \in {ob.ub, "hit_scan"}
         /\ LevelKeys(ob) # {k} => AccessHit(ob, k).ub = ob.ub
<1> DEFINE a == EraseReal(ob, k)
           l == RealLevel(ob, k)
<1>1. Core(ob) /\ SizesOK(ob)
  BY ObjectCore DEF ObjectOK
<1>2. k \in Keys /\ ob.real_map_[k] \in Entry
  BY <1>1 DEF Core, StateOK, IsEntryMap
<1>3. LruSize \in Nat /\ ob.top_lru_size_ \in Nat
  BY <1>1, SizeAssumption DEF Core, StateOK
<1>4. l \in Nat
  <2>1. \A x \in Levels : x \in Nat
    BY PointsAssumption DEF Levels
  <2>2. GetCurrentLevel(ob, ob.real_map_[k]) \in Levels
    BY <1>1, <1>2, CurrentLevelType DEF Core, StampsOK, StateOK
  <2> QED BY <1>2, <2>1, <2>2 DEF RealLevel, Entry
<1>5. /\ Core(a) /\ a.ub \in {ob.ub, "hit_scan"}
      /\ LevelKeys(ob) # {k} => a.ub = ob.ub
      /\ DOMAIN a.real_map_ = DOMAIN ob.real_map_ \ {k}
      /\ k \notin DOMAIN a.ghost_map_
      /\ LevelKeys(a) # {} => a.top_lru_size_ >= LruSize - 1
  <2>1. CASE ob.real_map_[k].h_recency
    <3>1. a = EraseTop(ob, k) /\ k \in TopKeys(ob)
      BY <2>1 DEF EraseReal, TopKeys
    <3> HIDE DEF a
    <3>2. /\ Core(a) /\ a.ub = ob.ub
          /\ DOMAIN a.real_map_ = DOMAIN ob.real_map_ \ {k}
          /\ k \notin DOMAIN a.ghost_map_
          /\ a.top_lru_size_ = ob.top_lru_size_ - 1
          /\ LevelKeys(a) = LevelKeys(ob)
      BY <1>1, <3>1, EraseTopCore
    <3> QED BY <3>2, <1>1, <1>3 DEF SizesOK
  <2>2. CASE ~ob.real_map_[k].h_recency
    <3>1. a = EraseLevel(ob, k) /\ k \in LevelKeys(ob)
      BY <2>2 DEF EraseReal, LevelKeys
    <3> HIDE DEF a
    <3>2. /\ Core(a) /\ a.ub \in {ob.ub, "hit_scan"}
          /\ LevelKeys(ob) # {k} => a.ub = ob.ub
          /\ DOMAIN a.real_map_ = DOMAIN ob.real_map_ \ {k}
          /\ k \notin DOMAIN a.ghost_map_
          /\ a.top_lru_size_ = ob.top_lru_size_
          /\ LevelKeys(a) \subseteq LevelKeys(ob)
      BY <1>1, <3>1, EraseLevelCore
    <3> QED BY <3>2, <1>1, <1>3 DEF SizesOK
  <2> QED BY <2>1, <2>2
<1> HIDE DEF a, l
<1>6. Cardinality(DOMAIN a.real_map_) < Size
  <2>1. DOMAIN ob.real_map_ \subseteq Keys
    BY <1>1 DEF Core, StateOK, IsEntryMap
  <2>2. IsFiniteSet(DOMAIN ob.real_map_)
    BY <2>1, KeysAssumption, FS_Subset
  <2>3. /\ Cardinality(DOMAIN ob.real_map_ \ {k})
             = Cardinality(DOMAIN ob.real_map_) - 1
        /\ Cardinality(DOMAIN ob.real_map_) \in Nat
    BY <2>2, FS_RemoveElement, FS_CardinalityType
  <2> QED BY <2>3, <1>1, <1>5, SizeAssumption DEF SizesOK
<1>7. k \notin DOMAIN a.real_map_
  BY <1>5
<1>8. AccessHit(ob, k) = Insert(a, k, l)
  BY DEF AccessHit, a, l
<1> QED BY <1>2, <1>4, <1>5, <1>6, <1>7, <1>8, InsertOK

\* A full buffer with two pages or more under the top has two keys there.
LEMMA TwoBelow ==
  ASSUME NEW ob, ObjectOK(ob), Cardinality(DOMAIN ob.real_map_) = Size,
         Size - LruSize >= 2, NEW k
  PROVE  LevelKeys(ob) # {} /\ LevelKeys(ob) # {k}
<1>1. /\ ob.top_lru_ \in Seq(Keys) /\ Lists(ob.top_lru_, TopKeys(ob))
      /\ Len(ob.top_lru_) <= LruSize
  BY DEF ObjectOK, StateOK, PartsOK, SizesOK
<1>2. /\ IsFiniteSet(TopKeys(ob)) /\ Cardinality(TopKeys(ob)) <= LruSize
      /\ Cardinality(TopKeys(ob)) \in Nat
  BY <1>1, ListsLength, FS_CardinalityType
<1>3. DOMAIN ob.real_map_ = TopKeys(ob) \cup LevelKeys(ob)
  BY DEF TopKeys, LevelKeys
<1>4. LevelKeys(ob) # {}
  BY <1>2, <1>3, SizeAssumption
<1>5. ASSUME LevelKeys(ob) = {k} PROVE FALSE
  <2>1. k \notin TopKeys(ob)
    BY <1>5 DEF TopKeys, LevelKeys
  <2>2. Cardinality(TopKeys(ob) \cup {k}) = Cardinality(TopKeys(ob)) + 1
    BY <1>2, <2>1, FS_AddElement
  <2> QED BY <2>2, <1>2, <1>3, <1>5, SizeAssumption
<1> QED BY <1>4, <1>5

LEMMA EvictIfFullOK ==
  ASSUME NEW ob, ObjectOK(ob), ob.ub # "no_victim"
  PROVE  LET res == EvictIfFull(ob)
         IN /\ res.ub # "no_victim" =>
                 /\ Core(res)
                 /\ DOMAIN res.real_map_ \subseteq DOMAIN ob.real_map_
                 /\ Cardinality(DOMAIN res.real_map_) < Size
                 /\ LevelKeys(res) # {} => res.top_lru_size_ >= LruSize - 1
            /\ res.ub = "no_victim" => ObjectOK(res)
            /\ (Size - LruSize >= 2 /\ EvictionsOK(ob)) => EvictionsOK(res)
            /\ res.ub \in {ob.ub, "evict_scan", "no_victim"}
<1> DEFINE res == EvictIfFull(ob)
<1>1. /\ Core(ob) /\ StateOK(ob) /\ SizesOK(ob)
      /\ LruSize \in Nat /\ ob.top_lru_size_ \in Nat
  <2>1. LruSize \in Nat
    BY SizeAssumption
  <2>2. Core(ob)
    BY ObjectCore
  <2>3. StateOK(ob) /\ SizesOK(ob)
    BY DEF ObjectOK
  <2>4. ob.top_lru_size_ \in Nat
    BY <2>3 DEF StateOK
  <2> QED BY <2>1, <2>2, <2>3, <2>4
<1>2. /\ IsFiniteSet(DOMAIN ob.real_map_)
      /\ Cardinality(DOMAIN ob.real_map_) \in Nat
  <2>1. DOMAIN ob.real_map_ \subseteq Keys
    BY <1>1 DEF StateOK, IsEntryMap
  <2> QED BY <2>1, KeysAssumption, FS_Subset, FS_CardinalityType
<1>3. CASE Cardinality(DOMAIN ob.real_map_) # Size
  <2>1. res = ob
    BY <1>3 DEF EvictIfFull
  <2>2. Cardinality(DOMAIN ob.real_map_) < Size
    BY <1>1, <1>2, <1>3, SizeAssumption DEF SizesOK
  <2> HIDE DEF res
  <2>3. LevelKeys(ob) # {} => ob.top_lru_size_ >= LruSize - 1
    BY <1>1 DEF SizesOK
  <2> QED BY <1>1, <2>1, <2>2, <2>3 DEF res
<1>4. CASE Cardinality(DOMAIN ob.real_map_) = Size /\ ~VictimExists(ob)
  <2>1. res = [ob EXCEPT !.ub = "no_victim"]
    BY <1>4 DEF EvictIfFull, Evict
  <2>2. /\ StateOK(res) /\ res.ub = "no_victim"
        /\ res.real_lru_ = ob.real_lru_ /\ res.real_map_ = ob.real_map_
        /\ res.top_lru_ = ob.top_lru_ /\ res.top_lru_size_ = ob.top_lru_size_
        /\ res.ghost_lru_ = ob.ghost_lru_ /\ res.ghost_map_ = ob.ghost_map_
        /\ res.rolling_ts = ob.rolling_ts
        /\ res.min_level_non_empty_ = ob.min_level_non_empty_
        /\ res.cur_ts_ = ob.cur_ts_ /\ res.prev_rolling_ts_ = ob.prev_rolling_ts_
    BY <1>1, <2>1 DEF StateOK
  <2> HIDE DEF res
  <2>3. TopKeys(res) = TopKeys(ob) /\ LevelKeys(res) = LevelKeys(ob)
    BY <2>2 DEF TopKeys, LevelKeys
  <2>4. PartsOK(res) /\ SizesOK(res) /\ MinOK(res)
    BY <2>2, <2>3 DEF ObjectOK, PartsOK, SizesOK, MinOK
  <2>5. LevelsOK(res)
    BY <1>1, <2>2, <2>3, LevelsSame
  <2>6. ClockOK(res)
    BY <2>2, <2>3 DEF ObjectOK, ClockOK, StampsOK, WrittenBefore
  <2>7. ~(Size - LruSize >= 2)
    BY <1>1, <1>4, TwoBelow, VictimThere
  <2> QED BY <2>2, <2>4, <2>5, <2>6, <2>7 DEF ObjectOK, res
<1>5. CASE Cardinality(DOMAIN ob.real_map_) = Size /\ VictimExists(ob)
  <2> DEFINE k == Victim(ob)
  <2>1. res = Evict(ob)
    BY <1>5 DEF EvictIfFull
  <2> HIDE DEF res, k
  <2>2. /\ Core(res) /\ k \in LevelKeys(ob)
        /\ DOMAIN res.real_map_ = DOMAIN ob.real_map_ \ {k}
        /\ res.top_lru_size_ = ob.top_lru_size_
        /\ LevelKeys(ob) # {k} => res.ub = ob.ub
        /\ res.ub \in {ob.ub, "evict_scan"}
    BY <1>1, <1>5, <2>1, EvictCore DEF k
  <2>3. k \in DOMAIN ob.real_map_
    BY <2>2 DEF LevelKeys
  <2>4. Cardinality(DOMAIN res.real_map_) < Size
    <3>1. Cardinality(DOMAIN ob.real_map_ \ {k})
            = Cardinality(DOMAIN ob.real_map_) - 1
      BY <1>2, <2>3, FS_RemoveElement
    <3> QED BY <3>1, <1>5, <2>2, SizeAssumption
  <2>5. res.top_lru_size_ >= LruSize - 1
    BY <1>1, <2>2 DEF SizesOK
  <2>6. (Size - LruSize >= 2 /\ EvictionsOK(ob)) => EvictionsOK(res)
    <3>1. Size - LruSize >= 2 => res.ub = ob.ub
      BY <1>5, <2>2, TwoBelow
    <3> QED BY <3>1 DEF EvictionsOK
  <2> QED BY <2>2, <2>4, <2>5, <2>6 DEF res
<1> QED BY <1>3, <1>4, <1>5

LEMMA AccessMissOK ==
  ASSUME NEW ob, ObjectOK(ob), ob.ub # "no_victim", NEW k \in Keys,
         k \notin DOMAIN ob.real_map_
  PROVE  LET t == AccessMiss(ob, k)
         IN /\ ObjectOK(t)
            /\ (Size - LruSize >= 2 /\ EvictionsOK(ob)) => EvictionsOK(t)
            /\ t.ub \in {ob.ub, "evict_scan", "no_victim"}
<1> DEFINE res == EvictIfFull(ob)
           a == EraseGhost(res, k)
           l == GhostLevel(res, k)
<1>1. /\ res.ub # "no_victim" =>
           /\ Core(res)
           /\ DOMAIN res.real_map_ \subseteq DOMAIN ob.real_map_
           /\ Cardinality(DOMAIN res.real_map_) < Size
           /\ LevelKeys(res) # {} => res.top_lru_size_ >= LruSize - 1
      /\ res.ub = "no_victim" => ObjectOK(res)
      /\ (Size - LruSize >= 2 /\ EvictionsOK(ob)) => EvictionsOK(res)
      /\ res.ub \in {ob.ub, "evict_scan", "no_victim"}
  BY EvictIfFullOK
<1> HIDE DEF res
<1>2. CASE res.ub = "no_victim"
  <2>1. AccessMiss(ob, k) = res
    BY <1>2 DEF AccessMiss, res
  <2> QED BY <1>1, <1>2, <2>1
<1>3. CASE res.ub # "no_victim"
  <2>1. AccessMiss(ob, k) = Insert(a, k, l)
    BY <1>3 DEF AccessMiss, res
  <2>2. /\ Core(a) /\ a.real_map_ = res.real_map_
        /\ k \notin DOMAIN a.ghost_map_
        /\ a.top_lru_size_ = res.top_lru_size_ /\ a.ub = res.ub
    BY <1>1, <1>3, EraseGhostCore
  <2>3. l \in Nat
    <3>1. CASE k \in DOMAIN res.ghost_map_
      <4>1. res.ghost_map_[k] \in Entry
        BY <1>1, <1>3, <3>1 DEF Core, StateOK, IsEntryMap
      <4>2. GetCurrentLevel(res, res.ghost_map_[k]) \in Levels
        BY <1>1, <1>3, <4>1, CurrentLevelType DEF Core, StampsOK, StateOK
      <4> QED BY <3>1, <4>2, PointsAssumption DEF GhostLevel, Levels
    <3>2. CASE k \notin DOMAIN res.ghost_map_
      BY <3>2 DEF GhostLevel
    <3> QED BY <3>1, <3>2
  <2> HIDE DEF a, l
  <2>4. LevelKeys(a) = LevelKeys(res)
    BY <2>2 DEF LevelKeys
  <2>5. /\ k \notin DOMAIN a.real_map_
        /\ Cardinality(DOMAIN a.real_map_) < Size
        /\ LevelKeys(a) # {} => a.top_lru_size_ >= LruSize - 1
    BY <1>1, <1>3, <2>2, <2>4
  <2>6. ObjectOK(Insert(a, k, l)) /\ Insert(a, k, l).ub = a.ub
    BY <2>2, <2>3, <2>5, InsertOK
  <2>7. EvictionsOK(res) => EvictionsOK(Insert(a, k, l))
    BY <2>2, <2>6 DEF EvictionsOK
  <2> QED BY <1>1, <2>1, <2>2, <2>6, <2>7
<1> QED BY <1>2, <1>3
-----------------------------------------------------------------------------
(* The other calls *)

\* A new half-life changes the clock of the rollings only.
LEMMA UpdateHalfOK ==
  ASSUME NEW ob, ObjectOK(ob), NEW half \in Nat
  PROVE  ObjectOK(UpdateHalf(ob, half)) /\ UpdateHalf(ob, half).ub = ob.ub
<1> DEFINE h == IF half < 1 THEN 1 ELSE IF half > HalfCap THEN HalfCap ELSE half
           n == AddInt(ob.prev_rolling_ts_, ToInt(h))
           t == UpdateHalf(ob, half)
<1>1. StateOK(ob) /\ ob.prev_rolling_ts_ \in Nat
  BY DEF ObjectOK, StateOK
<1>2. h \in Nat
  BY ClockAssumption
<1> HIDE DEF h
<1>3. n \in Int
  BY <1>1, <1>2, ClockAssumption DEF AddInt, ToInt
<1>4. t = [ob EXCEPT !.cur_half_ = h, !.next_rolling_ts_ = n]
  BY DEF UpdateHalf, h
<1> HIDE DEF t, n
<1>5. /\ StateOK(t) /\ t.ub = ob.ub
      /\ t.real_lru_ = ob.real_lru_ /\ t.real_map_ = ob.real_map_
      /\ t.top_lru_ = ob.top_lru_ /\ t.top_lru_size_ = ob.top_lru_size_
      /\ t.ghost_lru_ = ob.ghost_lru_ /\ t.ghost_map_ = ob.ghost_map_
      /\ t.rolling_ts = ob.rolling_ts
      /\ t.min_level_non_empty_ = ob.min_level_non_empty_
      /\ t.cur_ts_ = ob.cur_ts_ /\ t.prev_rolling_ts_ = ob.prev_rolling_ts_
  BY <1>1, <1>2, <1>3, <1>4 DEF StateOK
<1>6. TopKeys(t) = TopKeys(ob) /\ LevelKeys(t) = LevelKeys(ob)
  BY <1>5 DEF TopKeys, LevelKeys
<1>7. PartsOK(t) /\ SizesOK(t) /\ MinOK(t)
  BY <1>5, <1>6 DEF ObjectOK, PartsOK, SizesOK, MinOK
<1>8. LevelsOK(t)
  BY <1>5, <1>6, ObjectCore, LevelsSame
<1>9. ClockOK(t)
  BY <1>5, <1>6 DEF ObjectOK, ClockOK, StampsOK, WrittenBefore
<1> QED BY <1>5, <1>7, <1>8, <1>9 DEF ObjectOK, t

LEMMA ReportOK ==
  ASSUME NEW ob, ObjectOK(ob)
  PROVE  ObjectOK(ReportAndClear(ob)) /\ ReportAndClear(ob).ub = ob.ub
<1> DEFINE t == ReportAndClear(ob)
<1>1. StateOK(ob)
  BY DEF ObjectOK
<1>2. t = [ob EXCEPT !.interval_hit_count_ = 0, !.interval_miss_count_ = 0]
  BY DEF ReportAndClear
<1> HIDE DEF t
<1>3. /\ StateOK(t) /\ t.ub = ob.ub
      /\ t.real_lru_ = ob.real_lru_ /\ t.real_map_ = ob.real_map_
      /\ t.top_lru_ = ob.top_lru_ /\ t.top_lru_size_ = ob.top_lru_size_
      /\ t.ghost_lru_ = ob.ghost_lru_ /\ t.ghost_map_ = ob.ghost_map_
      /\ t.rolling_ts = ob.rolling_ts
      /\ t.min_level_non_empty_ = ob.min_level_non_empty_
      /\ t.cur_ts_ = ob.cur_ts_ /\ t.prev_rolling_ts_ = ob.prev_rolling_ts_
  BY <1>1, <1>2 DEF StateOK
<1>4. TopKeys(t) = TopKeys(ob) /\ LevelKeys(t) = LevelKeys(ob)
  BY <1>3 DEF TopKeys, LevelKeys
<1>5. PartsOK(t) /\ SizesOK(t) /\ MinOK(t)
  BY <1>3, <1>4 DEF ObjectOK, PartsOK, SizesOK, MinOK
<1>6. LevelsOK(t)
  BY <1>3, <1>4, ObjectCore, LevelsSame
<1>7. ClockOK(t)
  BY <1>3, <1>4 DEF ObjectOK, ClockOK, StampsOK, WrittenBefore
<1> QED BY <1>3, <1>5, <1>6, <1>7 DEF ObjectOK, t

\* A new object is empty.
LEMMA NewOK ==
  ASSUME NEW half \in Nat
  PROVE  ObjectOK(New(half)) /\ New(half).ub = "none"
<1> DEFINE lru == [l \in Levels |-> <<>>]
           ob == [real_lru_ |-> lru, top_lru_ |-> <<>>,
                 ghost_lru_ |-> <<>>, top_lru_size_ |-> 0,
                 real_map_ |-> NoEntries, ghost_map_ |-> NoEntries,
                 min_level_non_empty_ |-> MaxPoints,
                 cur_ts_ |-> 0, prev_rolling_ts_ |-> 0,
                 next_rolling_ts_ |-> IntMax,
                 rolling_ts |-> <<>>, cur_half_ |-> half,
                 interval_hit_count_ |-> 0, interval_miss_count_ |-> 0,
                 ub |-> "none"]
<1>1. IsEntryMap(NoEntries) /\ DOMAIN NoEntries = {}
  BY DEF IsEntryMap, NoEntries
<1>2. /\ lru \in [Levels -> Seq(Keys)] /\ \A l \in Levels : lru[l] = <<>>
      /\ <<>> \in Seq(Keys) /\ <<>> \in Seq(Nat) /\ Len(<<>>) = 0
  OBVIOUS
<1>3. MaxPoints \in 0 .. MaxPoints /\ MaxPoints \notin Levels /\ IntMax \in Int
  BY PointsAssumption, ClockAssumption DEF Levels
<1>4. New(half) = UpdateHalf(ob, half)
  BY DEF New
<1> HIDE DEF lru
<1>5. /\ StateOK(ob) /\ ob.real_lru_ = lru /\ ob.top_lru_ = <<>>
      /\ ob.ghost_lru_ = <<>> /\ ob.top_lru_size_ = 0
      /\ ob.real_map_ = NoEntries /\ ob.ghost_map_ = NoEntries
      /\ ob.min_level_non_empty_ = MaxPoints /\ ob.cur_ts_ = 0
      /\ ob.prev_rolling_ts_ = 0 /\ ob.rolling_ts = <<>> /\ ob.ub = "none"
  BY <1>1, <1>2, <1>3 DEF StateOK
<1> HIDE DEF ob
<1>6. TopKeys(ob) = {} /\ LevelKeys(ob) = {}
  BY <1>1, <1>5 DEF TopKeys, LevelKeys
<1>7. Lists(<<>>, {})
  BY DEF Lists, IsInjective, ToSet
<1>8. PartsOK(ob)
  BY <1>1, <1>5, <1>6, <1>7 DEF PartsOK
<1>9. LevelsOK(ob)
  BY <1>2, <1>5, <1>6, <1>7 DEF LevelsOK
<1>10. SizesOK(ob)
  BY <1>1, <1>2, <1>5, <1>6, FS_EmptySet, SizeAssumption DEF SizesOK
<1>11. MinOK(ob)
  <2>1. NonEmptyFrom(lru, 0) = {}
    BY <1>2 DEF NonEmptyFrom
  <2> QED BY <2>1, <1>5 DEF MinOK, FirstNonEmpty
<1>12. ClockOK(ob)
  BY <1>1, <1>2, <1>5, <1>6, PointsAssumption
     DEF ClockOK, StampsOK, WrittenBefore
<1>13. ObjectOK(ob)
  BY <1>5, <1>8, <1>9, <1>10, <1>11, <1>12 DEF ObjectOK
<1> QED BY <1>4, <1>5, <1>13, UpdateHalfOK

-----------------------------------------------------------------------------
(* What an access makes of the keys, the top, the counts, the clock and    *)
(* the scores, stage by stage.  HillReplacer compares two buffers, and     *)
(* needs to know what the same access does to both; the refinements are    *)
(* about the scores.                                                       *)

\* The fields no stage changes but those that say so
SameFrame(t, ob) ==
  /\ t.interval_hit_count_ = ob.interval_hit_count_
  /\ t.interval_miss_count_ = ob.interval_miss_count_
  /\ t.cur_ts_ = ob.cur_ts_
  /\ t.cur_half_ = ob.cur_half_

\* A top with its last key gone if it is full
Shortened(q) == IF Len(q) < LruSize THEN q ELSE Front(q)

-----------------------------------------------------------------------------
(* The stages *)

LEMMA DemoteTopFrame ==
  ASSUME NEW ob, StateOK(ob)
  PROVE  LET t == DemoteTop(ob)
         IN /\ SameFrame(t, ob)
            /\ t.top_lru_ = IF ob.top_lru_size_ < LruSize THEN ob.top_lru_
                            ELSE Front(ob.top_lru_)
<1> USE DEF StateOK, SameFrame
<1>1. CASE ob.top_lru_size_ < LruSize
  BY <1>1 DEF DemoteTop
<1>2. CASE ~(ob.top_lru_size_ < LruSize)
  BY <1>2 DEF DemoteTop
<1> QED BY <1>1, <1>2

LEMMA PushTopFrame ==
  ASSUME NEW ob, StateOK(ob), NEW k, NEW l
  PROVE  LET t == PushTop(ob, k, l)
         IN /\ t.interval_hit_count_ = ob.interval_hit_count_
            /\ t.interval_miss_count_ = ob.interval_miss_count_
            /\ t.cur_ts_ = ob.cur_ts_ + 1
            /\ t.cur_half_ = ob.cur_half_
            /\ t.top_lru_ = <<k>> \o ob.top_lru_
BY DEF StateOK, PushTop

LEMMA RollIfDueFrame ==
  ASSUME NEW ob, StateOK(ob)
  PROVE  LET t == RollIfDue(ob)
         IN /\ SameFrame(t, ob)
            /\ t.top_lru_ = ob.top_lru_
            /\ t.real_map_ = ob.real_map_
<1> DEFINE t == Rolling(ob)
<1>1. SameFrame(t, ob) /\ t.top_lru_ = ob.top_lru_ /\ t.real_map_ = ob.real_map_
  BY DEF StateOK, SameFrame, Rolling
<1> QED BY <1>1 DEF RollIfDue, SameFrame

LEMMA EraseGhostFrame ==
  ASSUME NEW ob, StateOK(ob), NEW k
  PROVE  LET t == EraseGhost(ob, k)
         IN /\ t.interval_hit_count_ = ob.interval_hit_count_
            /\ t.interval_miss_count_ = ob.interval_miss_count_ + 1
            /\ t.cur_ts_ = ob.cur_ts_
            /\ t.cur_half_ = ob.cur_half_
            /\ t.top_lru_ = ob.top_lru_
BY DEF StateOK, EraseGhost

LEMMA EraseTopFrame ==
  ASSUME NEW ob, StateOK(ob), NEW k
  PROVE  LET t == EraseTop(ob, k)
         IN /\ t.interval_hit_count_ = ob.interval_hit_count_ + 1
            /\ t.interval_miss_count_ = ob.interval_miss_count_
            /\ t.cur_ts_ = ob.cur_ts_
            /\ t.cur_half_ = ob.cur_half_
            /\ t.top_lru_ = Erase(ob.top_lru_, k)
BY DEF StateOK, EraseTop

LEMMA EraseLevelFrame ==
  ASSUME NEW ob, StateOK(ob), NEW k
  PROVE  LET t == EraseLevel(ob, k)
         IN /\ t.interval_hit_count_ = ob.interval_hit_count_ + 1
            /\ t.interval_miss_count_ = ob.interval_miss_count_
            /\ t.cur_ts_ = ob.cur_ts_
            /\ t.cur_half_ = ob.cur_half_
            /\ t.top_lru_ = ob.top_lru_
BY DEF StateOK, EraseLevel

LEMMA EvictFrame ==
  ASSUME NEW ob, StateOK(ob)
  PROVE  SameFrame(Evict(ob), ob) /\ Evict(ob).top_lru_ = ob.top_lru_
<1> DEFINE u == Unlink(ob)
           k == Victim(ob)
           l == VictimLevel(ob)
           p == PushGhost(u, k, l)
<1>1. /\ SameFrame(u, ob) /\ u.top_lru_ = ob.top_lru_
      /\ DOMAIN u = DOMAIN ob
  BY DEF StateOK, SameFrame, Unlink
<1> HIDE DEF u, k, l
<1>2. SameFrame(p, ob) /\ p.top_lru_ = ob.top_lru_
  <2>1. /\ "interval_hit_count_" \in DOMAIN u
        /\ "interval_miss_count_" \in DOMAIN u
        /\ "cur_ts_" \in DOMAIN u /\ "cur_half_" \in DOMAIN u
        /\ "top_lru_" \in DOMAIN u
    BY <1>1 DEF StateOK
  <2> QED BY <1>1, <2>1 DEF PushGhost, SameFrame
<1>3. CASE ~VictimExists(ob)
  BY <1>3 DEF Evict, StateOK, SameFrame
<1>4. CASE VictimExists(ob)
  BY <1>1, <1>2, <1>4 DEF Evict, u, k, l
<1> QED BY <1>3, <1>4

LEMMA UpdateHalfFrame ==
  ASSUME NEW ob, StateOK(ob), NEW half
  PROVE  LET t == UpdateHalf(ob, half)
         IN /\ t.interval_hit_count_ = ob.interval_hit_count_
            /\ t.interval_miss_count_ = ob.interval_miss_count_
            /\ t.cur_ts_ = ob.cur_ts_
            /\ t.top_lru_ = ob.top_lru_
            /\ t.real_map_ = ob.real_map_
            /\ t.cur_half_ = IF half < 1 THEN 1
                             ELSE IF half > HalfCap THEN HalfCap ELSE half
BY DEF StateOK, UpdateHalf

LEMMA ReportFrame ==
  ASSUME NEW ob, StateOK(ob)
  PROVE  LET t == ReportAndClear(ob)
         IN /\ t.interval_hit_count_ = 0
            /\ t.interval_miss_count_ = 0
            /\ t.cur_ts_ = ob.cur_ts_
            /\ t.cur_half_ = ob.cur_half_
            /\ t.top_lru_ = ob.top_lru_
            /\ t.real_map_ = ob.real_map_
BY DEF StateOK, ReportAndClear

-----------------------------------------------------------------------------
(* One access *)

\* The key goes to the front of the top, whose last key leaves if it was full.
LEMMA InsertFrame ==
  ASSUME NEW ob, Core(ob), NEW k \in Keys, NEW l \in Nat,
         k \notin DOMAIN ob.real_map_, k \notin DOMAIN ob.ghost_map_
  PROVE  LET t == Insert(ob, k, l)
         IN /\ t.interval_hit_count_ = ob.interval_hit_count_
            /\ t.interval_miss_count_ = ob.interval_miss_count_
            /\ t.cur_ts_ = ob.cur_ts_ + 1
            /\ t.cur_half_ = ob.cur_half_
            /\ t.top_lru_ = <<k>> \o Shortened(ob.top_lru_)
            /\ DOMAIN t.real_map_ = DOMAIN ob.real_map_ \cup {k}
<1> DEFINE a == DemoteTop(ob)
           p == Cap(HitPoints + l)
           b == PushTop(a, k, p)
           t == RollIfDue(b)
<1>1. /\ Core(a) /\ a.top_lru_size_ < LruSize
      /\ DOMAIN a.real_map_ = DOMAIN ob.real_map_
      /\ a.ghost_map_ = ob.ghost_map_
  BY DemoteTopCore
<1>2. SameFrame(a, ob) /\ a.top_lru_ = Shortened(ob.top_lru_)
  BY DemoteTopFrame DEF Core, Shortened
<1>3. p \in Levels
  BY PointsAssumption DEF Cap, Levels
<1> HIDE DEF a, p
<1>4. Core(b) /\ DOMAIN b.real_map_ = DOMAIN ob.real_map_ \cup {k}
  BY <1>1, <1>3, PushTopCore
<1>5. /\ b.interval_hit_count_ = a.interval_hit_count_
      /\ b.interval_miss_count_ = a.interval_miss_count_
      /\ b.cur_ts_ = a.cur_ts_ + 1
      /\ b.cur_half_ = a.cur_half_
      /\ b.top_lru_ = <<k>> \o a.top_lru_
  BY <1>1, PushTopFrame DEF Core
<1> HIDE DEF b
<1>6. SameFrame(t, b) /\ t.top_lru_ = b.top_lru_ /\ t.real_map_ = b.real_map_
  BY <1>4, RollIfDueFrame DEF Core
<1>7. Insert(ob, k, l) = t
  BY DEF Insert, a, b, p
<1> QED BY <1>2, <1>4, <1>5, <1>6, <1>7 DEF SameFrame

\* What an access makes of the top
NewTop(q, k) == <<k>> \o Shortened(IF k \in ToSet(q) THEN Erase(q, k) ELSE q)

LEMMA AccessHitFrame ==
  ASSUME NEW ob, ObjectOK(ob), NEW k \in DOMAIN ob.real_map_
  PROVE  LET t == AccessHit(ob, k)
         IN /\ t.interval_hit_count_ = ob.interval_hit_count_ + 1
            /\ t.interval_miss_count_ = ob.interval_miss_count_
            /\ t.cur_ts_ = ob.cur_ts_ + 1
            /\ t.cur_half_ = ob.cur_half_
            /\ t.top_lru_ = NewTop(ob.top_lru_, k)
            /\ DOMAIN t.real_map_ = DOMAIN ob.real_map_
<1> DEFINE a == EraseReal(ob, k)
           l == RealLevel(ob, k)
<1>1. Core(ob) /\ StateOK(ob) /\ PartsOK(ob)
  BY ObjectCore DEF ObjectOK
<1>2. k \in Keys /\ ob.real_map_[k] \in Entry
  BY <1>1 DEF StateOK, IsEntryMap
<1>3. l \in Nat
  <2>1. \A x \in Levels : x \in Nat
    BY PointsAssumption DEF Levels
  <2>2. GetCurrentLevel(ob, ob.real_map_[k]) \in Levels
    BY <1>1, <1>2, CurrentLevelType DEF Core, StampsOK, StateOK
  <2> QED BY <1>2, <2>1, <2>2 DEF RealLevel, Entry
<1>4. k \in TopKeys(ob) <=> k \in ToSet(ob.top_lru_)
  BY <1>1 DEF PartsOK, Lists
<1>5. /\ Core(a)
      /\ DOMAIN a.real_map_ = DOMAIN ob.real_map_ \ {k}
      /\ k \notin DOMAIN a.ghost_map_
      /\ a.interval_hit_count_ = ob.interval_hit_count_ + 1
      /\ a.interval_miss_count_ = ob.interval_miss_count_
      /\ a.cur_ts_ = ob.cur_ts_
      /\ a.cur_half_ = ob.cur_half_
      /\ a.top_lru_ = IF k \in ToSet(ob.top_lru_) THEN Erase(ob.top_lru_, k)
                      ELSE ob.top_lru_
  <2>1. CASE ob.real_map_[k].h_recency
    <3>1. a = EraseTop(ob, k) /\ k \in TopKeys(ob)
      BY <2>1 DEF EraseReal, TopKeys
    <3> HIDE DEF a
    <3>2. /\ Core(a) /\ DOMAIN a.real_map_ = DOMAIN ob.real_map_ \ {k}
          /\ k \notin DOMAIN a.ghost_map_
      BY <1>1, <3>1, EraseTopCore
    <3> QED BY <1>1, <1>4, <3>1, <3>2, EraseTopFrame
  <2>2. CASE ~ob.real_map_[k].h_recency
    <3>1. a = EraseLevel(ob, k) /\ k \in LevelKeys(ob) /\ k \notin TopKeys(ob)
      BY <2>2 DEF EraseReal, LevelKeys, TopKeys
    <3> HIDE DEF a
    <3>2. /\ Core(a) /\ DOMAIN a.real_map_ = DOMAIN ob.real_map_ \ {k}
          /\ k \notin DOMAIN a.ghost_map_
      BY <1>1, <3>1, EraseLevelCore
    <3> QED BY <1>1, <1>4, <3>1, <3>2, EraseLevelFrame
  <2> QED BY <2>1, <2>2
<1>6. AccessHit(ob, k) = Insert(a, k, l)
  BY DEF AccessHit
<1> HIDE DEF a, l
<1>7. /\ Insert(a, k, l).interval_hit_count_ = a.interval_hit_count_
      /\ Insert(a, k, l).interval_miss_count_ = a.interval_miss_count_
      /\ Insert(a, k, l).cur_ts_ = a.cur_ts_ + 1
      /\ Insert(a, k, l).cur_half_ = a.cur_half_
      /\ Insert(a, k, l).top_lru_ = <<k>> \o Shortened(a.top_lru_)
      /\ DOMAIN Insert(a, k, l).real_map_ = DOMAIN a.real_map_ \cup {k}
  BY <1>2, <1>3, <1>5, InsertFrame
<1> QED BY <1>5, <1>6, <1>7 DEF NewTop

\* A full buffer loses one key, one that is not full none.
LEMMA EvictIfFullFrame ==
  ASSUME NEW ob, ObjectOK(ob), ob.ub # "no_victim",
         EvictIfFull(ob).ub # "no_victim"
  PROVE  LET t == EvictIfFull(ob)
         IN /\ SameFrame(t, ob) /\ t.top_lru_ = ob.top_lru_
            /\ Cardinality(DOMAIN ob.real_map_) < Size => t = ob
            /\ Cardinality(DOMAIN ob.real_map_) = Size =>
                 Cardinality(DOMAIN t.real_map_) = Size - 1
<1> DEFINE t == EvictIfFull(ob)
<1>1. Core(ob) /\ StateOK(ob)
  BY ObjectCore DEF ObjectOK
<1>2. /\ IsFiniteSet(DOMAIN ob.real_map_)
      /\ Cardinality(DOMAIN ob.real_map_) \in Nat
  <2>1. DOMAIN ob.real_map_ \subseteq Keys
    BY <1>1 DEF StateOK, IsEntryMap
  <2> QED BY <2>1, KeysAssumption, FS_Subset, FS_CardinalityType
<1>3. CASE Cardinality(DOMAIN ob.real_map_) # Size
  <2>1. t = ob
    BY <1>3 DEF EvictIfFull
  <2> QED BY <1>3, <2>1 DEF SameFrame
<1>4. CASE Cardinality(DOMAIN ob.real_map_) = Size
  <2>1. t = Evict(ob)
    BY <1>4 DEF EvictIfFull
  <2>2. SameFrame(t, ob) /\ t.top_lru_ = ob.top_lru_
    BY <1>1, <2>1, EvictFrame
  <2>3. VictimExists(ob)
    <3> SUFFICES ASSUME ~VictimExists(ob) PROVE FALSE
      OBVIOUS
    <3>1. t = [ob EXCEPT !.ub = "no_victim"]
      BY <2>1 DEF Evict
    <3>2. t.ub = "no_victim"
      BY <1>1, <3>1 DEF StateOK
    <3> QED BY <3>2
  <2> DEFINE k == Victim(ob)
  <2> HIDE DEF t, k
  <2>4. k \in LevelKeys(ob) /\ DOMAIN t.real_map_ = DOMAIN ob.real_map_ \ {k}
    BY <1>1, <2>1, <2>3, EvictCore DEF k
  <2>5. k \in DOMAIN ob.real_map_
    BY <2>4 DEF LevelKeys
  <2>6. Cardinality(DOMAIN ob.real_map_ \ {k})
          = Cardinality(DOMAIN ob.real_map_) - 1
    BY <1>2, <2>5, FS_RemoveElement
  <2> QED BY <1>4, <2>2, <2>4, <2>6, SizeAssumption DEF t
<1> QED BY <1>3, <1>4

LEMMA AccessMissFrame ==
  ASSUME NEW ob, ObjectOK(ob), ob.ub # "no_victim", NEW k \in Keys,
         k \notin DOMAIN ob.real_map_, EvictIfFull(ob).ub # "no_victim"
  PROVE  LET t == AccessMiss(ob, k)
             n == Cardinality(DOMAIN ob.real_map_)
         IN /\ t.interval_hit_count_ = ob.interval_hit_count_
            /\ t.interval_miss_count_ = ob.interval_miss_count_ + 1
            /\ t.cur_ts_ = ob.cur_ts_ + 1
            /\ t.cur_half_ = ob.cur_half_
            /\ t.top_lru_ = NewTop(ob.top_lru_, k)
            /\ n < Size => DOMAIN t.real_map_ = DOMAIN ob.real_map_ \cup {k}
            /\ n = Size => Cardinality(DOMAIN t.real_map_) = Size
<1> DEFINE res == EvictIfFull(ob)
           a == EraseGhost(res, k)
           l == GhostLevel(res, k)
           n == Cardinality(DOMAIN ob.real_map_)
<1>1. /\ Core(res) /\ DOMAIN res.real_map_ \subseteq DOMAIN ob.real_map_
      /\ Cardinality(DOMAIN res.real_map_) < Size
  BY EvictIfFullOK
<1>2. /\ SameFrame(res, ob) /\ res.top_lru_ = ob.top_lru_
      /\ n < Size => res = ob
      /\ n = Size => Cardinality(DOMAIN res.real_map_) = Size - 1
  BY EvictIfFullFrame
<1>3. AccessMiss(ob, k) = Insert(a, k, l)
  BY DEF AccessMiss
<1> HIDE DEF res
<1>4. /\ Core(a) /\ a.real_map_ = res.real_map_ /\ k \notin DOMAIN a.ghost_map_
  BY <1>1, EraseGhostCore
<1>5. /\ a.interval_hit_count_ = res.interval_hit_count_
      /\ a.interval_miss_count_ = res.interval_miss_count_ + 1
      /\ a.cur_ts_ = res.cur_ts_
      /\ a.cur_half_ = res.cur_half_
      /\ a.top_lru_ = res.top_lru_
  BY <1>1, EraseGhostFrame DEF Core
<1>6. l \in Nat
  <2>1. CASE k \in DOMAIN res.ghost_map_
    <3>1. res.ghost_map_[k] \in Entry
      BY <1>1, <2>1 DEF Core, StateOK, IsEntryMap
    <3>2. GetCurrentLevel(res, res.ghost_map_[k]) \in Levels
      BY <1>1, <3>1, CurrentLevelType DEF Core, StampsOK, StateOK
    <3> QED BY <2>1, <3>2, PointsAssumption DEF GhostLevel, Levels
  <2>2. CASE k \notin DOMAIN res.ghost_map_
    BY <2>2 DEF GhostLevel
  <2> QED BY <2>1, <2>2
<1> HIDE DEF a, l, n
<1>7. k \notin DOMAIN a.real_map_
  BY <1>1, <1>4
<1>8. /\ Insert(a, k, l).interval_hit_count_ = a.interval_hit_count_
      /\ Insert(a, k, l).interval_miss_count_ = a.interval_miss_count_
      /\ Insert(a, k, l).cur_ts_ = a.cur_ts_ + 1
      /\ Insert(a, k, l).cur_half_ = a.cur_half_
      /\ Insert(a, k, l).top_lru_ = <<k>> \o Shortened(a.top_lru_)
      /\ DOMAIN Insert(a, k, l).real_map_ = DOMAIN a.real_map_ \cup {k}
  BY <1>4, <1>6, <1>7, InsertFrame
<1>9. k \notin ToSet(ob.top_lru_)
  BY DEF ObjectOK, PartsOK, Lists, TopKeys
<1>10. n = Size => Cardinality(DOMAIN res.real_map_ \cup {k}) = Size
  <2>1. DOMAIN res.real_map_ \subseteq Keys
    BY <1>1 DEF Core, StateOK, IsEntryMap
  <2>2. IsFiniteSet(DOMAIN res.real_map_)
    BY <2>1, KeysAssumption, FS_Subset
  <2>3. Cardinality(DOMAIN res.real_map_ \cup {k})
          = Cardinality(DOMAIN res.real_map_) + 1
    BY <2>2, <1>4, <1>7, FS_AddElement
  <2> QED BY <2>3, <1>2, SizeAssumption
<1> QED BY <1>2, <1>3, <1>4, <1>5, <1>8, <1>9, <1>10 DEF SameFrame, NewTop, n

-----------------------------------------------------------------------------
(* The scores *)

\* What the entries and the stamps stand for: the score of every resident key,
\* and that of every key remembered
Score(ob) == [k \in DOMAIN ob.real_map_ |-> RealLevel(ob, k)]
Ghost(ob) == [k \in DOMAIN ob.ghost_map_ |-> GhostLevel(ob, k)]

LEMMA NewScore ==
  ASSUME NEW h
  PROVE  LET ob == New(h)
         IN ob.top_lru_ = <<>> /\ Score(ob) = NoEntries /\ Ghost(ob) = NoEntries
<1>1. LET ob == New(h)
      IN ob.top_lru_ = <<>> /\ ob.real_map_ = NoEntries /\ ob.ghost_map_ = NoEntries
  BY DEF New, UpdateHalf
<1>2. DOMAIN NoEntries = {} /\ NoEntries = [x \in {} |-> 0]
  BY DEF NoEntries
<1>3. \A f : DOMAIN f = {} => [x \in DOMAIN f |-> f[x]] = NoEntries
  BY DEF NoEntries
<1> QED BY <1>1, <1>2, <1>3 DEF Score, Ghost, NoEntries

LEMMA ScoreSame ==
  ASSUME NEW ob, NEW t, t.rolling_ts = ob.rolling_ts
  PROVE  /\ t.real_map_ = ob.real_map_ => Score(t) = Score(ob)
         /\ t.ghost_map_ = ob.ghost_map_ => Ghost(t) = Ghost(ob)
<1>1. \A e : GetCurrentLevel(t, e) = GetCurrentLevel(ob, e)
  BY SameStamps
<1> QED BY <1>1 DEF Score, Ghost, RealLevel, GhostLevel

\* A key leaves a table.
LEMMA ScoreDrop ==
  ASSUME NEW ob, NEW t, t.rolling_ts = ob.rolling_ts, NEW k
  PROVE  /\ t.real_map_ = Drop(ob.real_map_, k) => Score(t) = Drop(Score(ob), k)
         /\ t.ghost_map_ = Drop(ob.ghost_map_, k) => Ghost(t) = Drop(Ghost(ob), k)
<1>1. \A e : GetCurrentLevel(t, e) = GetCurrentLevel(ob, e)
  BY SameStamps
<1>2. ASSUME t.real_map_ = Drop(ob.real_map_, k)
      PROVE  Score(t) = Drop(Score(ob), k)
  <2>1. DOMAIN t.real_map_ = DOMAIN ob.real_map_ \ {k}
    BY <1>2 DEF Drop
  <2>2. \A x \in DOMAIN t.real_map_ : t.real_map_[x] = ob.real_map_[x]
    BY <1>2 DEF Drop
  <2>3. \A x \in DOMAIN t.real_map_ : RealLevel(t, x) = RealLevel(ob, x)
    BY <1>1, <2>2 DEF RealLevel
  <2> QED BY <2>1, <2>3 DEF Score, Drop
<1>3. ASSUME t.ghost_map_ = Drop(ob.ghost_map_, k)
      PROVE  Ghost(t) = Drop(Ghost(ob), k)
  <2>1. DOMAIN t.ghost_map_ = DOMAIN ob.ghost_map_ \ {k}
    BY <1>3 DEF Drop
  <2>2. \A x \in DOMAIN t.ghost_map_ : t.ghost_map_[x] = ob.ghost_map_[x]
    BY <1>3 DEF Drop
  <2>3. \A x \in DOMAIN t.ghost_map_ : GhostLevel(t, x) = GhostLevel(ob, x)
    BY <1>1, <2>1, <2>2 DEF GhostLevel
  <2> QED BY <2>1, <2>3 DEF Ghost, Drop
<1> QED BY <1>2, <1>3

\* A key enters a table, or its entry is replaced.
LEMMA ScorePut ==
  ASSUME NEW ob, NEW t, t.rolling_ts = ob.rolling_ts, NEW k, NEW e, NEW l
  PROVE  /\ /\ t.real_map_ = Put(ob.real_map_, k, e)
            /\ l = IF e.h_recency THEN e.insert_level ELSE GetCurrentLevel(ob, e)
            => Score(t) = Put(Score(ob), k, l)
         /\ /\ t.ghost_map_ = Put(ob.ghost_map_, k, e)
            /\ l = GetCurrentLevel(ob, e)
            => Ghost(t) = Put(Ghost(ob), k, l)
<1>1. \A f : GetCurrentLevel(t, f) = GetCurrentLevel(ob, f)
  BY SameStamps
<1>2. ASSUME t.real_map_ = Put(ob.real_map_, k, e),
             l = IF e.h_recency THEN e.insert_level ELSE GetCurrentLevel(ob, e)
      PROVE  Score(t) = Put(Score(ob), k, l)
  <2>1. DOMAIN t.real_map_ = DOMAIN ob.real_map_ \cup {k} /\ t.real_map_[k] = e
    BY <1>2 DEF Put
  <2>2. \A x \in DOMAIN t.real_map_ : x # k => t.real_map_[x] = ob.real_map_[x]
    BY <1>2 DEF Put
  <2>3. \A x \in DOMAIN t.real_map_ :
          RealLevel(t, x) = IF x = k THEN l ELSE RealLevel(ob, x)
    BY <1>1, <1>2, <2>1, <2>2 DEF RealLevel
  <2>4. \A x \in DOMAIN t.real_map_ : x # k => x \in DOMAIN ob.real_map_
    BY <2>1
  <2> QED BY <2>1, <2>3, <2>4 DEF Score, Put
<1>3. ASSUME t.ghost_map_ = Put(ob.ghost_map_, k, e), l = GetCurrentLevel(ob, e)
      PROVE  Ghost(t) = Put(Ghost(ob), k, l)
  <2>1. DOMAIN t.ghost_map_ = DOMAIN ob.ghost_map_ \cup {k} /\ t.ghost_map_[k] = e
    BY <1>3 DEF Put
  <2>2. \A x \in DOMAIN t.ghost_map_ : x # k => t.ghost_map_[x] = ob.ghost_map_[x]
    BY <1>3 DEF Put
  <2>4. \A x \in DOMAIN t.ghost_map_ : x # k => x \in DOMAIN ob.ghost_map_
    BY <2>1
  <2>3. \A x \in DOMAIN t.ghost_map_ :
          GhostLevel(t, x) = IF x = k THEN l ELSE GhostLevel(ob, x)
    BY <1>1, <1>3, <2>1, <2>2, <2>4 DEF GhostLevel
  <2> QED BY <2>1, <2>3, <2>4 DEF Ghost, Put
<1> QED BY <1>2, <1>3

\* The key demoted keeps its score: it is written anew, with the time.
LEMMA DemoteTopScore ==
  ASSUME NEW ob, Core(ob)
  PROVE  Score(DemoteTop(ob)) = Score(ob) /\ Ghost(DemoteTop(ob)) = Ghost(ob)
<1>1. CASE ob.top_lru_size_ < LruSize
  BY <1>1 DEF DemoteTop
<1>2. CASE ~(ob.top_lru_size_ < LruSize)
  <2> DEFINE t == DemoteTop(ob)
             k == Last(ob.top_lru_)
             l == ob.real_map_[k].insert_level
             e == [insert_level |-> l, insert_ts |-> ob.cur_ts_,
                   h_recency |-> FALSE]
  <2>1. /\ t.real_map_ = Put(ob.real_map_, k, e)
        /\ t.ghost_map_ = ob.ghost_map_ /\ t.rolling_ts = ob.rolling_ts
    BY <1>2 DEF DemoteTop, Core, StateOK
  <2>2. ob.top_lru_ # <<>>
    BY <1>2, SizeAssumption DEF Core, StateOK
  <2>3. k \in TopKeys(ob)
    BY <2>2, ListsPop DEF Core, StateOK, PartsOK
  <2>4. /\ k \in DOMAIN ob.real_map_ /\ ob.real_map_[k].h_recency
        /\ ob.real_map_[k] \in Entry
    BY <2>3 DEF TopKeys, Core, StateOK, IsEntryMap
  <2>5. e \in Entry /\ e.insert_ts = ob.cur_ts_ /\ ~e.h_recency /\ e.insert_level = l
    BY <2>4 DEF Entry, Core, StateOK
  <2> HIDE DEF t, l, e
  <2>6. GetCurrentLevel(ob, e) = l
    BY <2>5, LevelNow DEF Core
  <2>7. Score(t) = Put(Score(ob), k, l)
    BY <2>1, <2>5, <2>6, ScorePut
  <2>8. Score(ob)[k] = l /\ k \in DOMAIN Score(ob)
    BY <2>4 DEF Score, RealLevel, l
  <2>9. Put(Score(ob), k, l) = Score(ob)
    <3> DEFINE f == Score(ob)
    <3>1. f = [x \in DOMAIN f |-> f[x]]
      BY DEF Score
    <3> HIDE DEF f
    <3> QED BY <2>8, <3>1 DEF Put, f
  <2> QED BY <2>1, <2>7, <2>9, ScoreSame DEF t
<1> QED BY <1>1, <1>2

\* A rolling halves every score that is not in the top.
HalfBelow(f, T) == [j \in DOMAIN f |-> IF j \in T THEN f[j] ELSE f[j] \div 2]

LEMMA RollingScore ==
  ASSUME NEW ob, Core(ob), WrittenBefore(ob, ob.cur_ts_),
         ob.prev_rolling_ts_ < ob.cur_ts_
  PROVE  LET t == Rolling(ob)
         IN /\ Score(t) = HalfBelow(Score(ob), TopKeys(ob))
            /\ Ghost(t) = HalfBelow(Ghost(ob), {})
<1> DEFINE t == Rolling(ob)
<1>1. /\ t.rolling_ts = Stamps(ob)
      /\ t.real_map_ = ob.real_map_ /\ t.ghost_map_ = ob.ghost_map_
  BY DEF Rolling, Stamps, Core, StateOK
<1>2. StateOK(ob) /\ StampsOK(ob)
  BY DEF Core
<1> HIDE DEF t
<1>3. \A e \in Entry : e.insert_ts < ob.cur_ts_ =>
        GetCurrentLevel(t, e) = GetCurrentLevel(ob, e) \div 2
  BY <1>1, <1>2, RollingHalves
<1>4. /\ \A x \in DOMAIN ob.real_map_ :
           ob.real_map_[x] \in Entry /\ ob.real_map_[x].insert_ts < ob.cur_ts_
      /\ \A x \in DOMAIN ob.ghost_map_ :
           ob.ghost_map_[x] \in Entry /\ ob.ghost_map_[x].insert_ts < ob.cur_ts_
  BY <1>2 DEF StateOK, IsEntryMap, WrittenBefore
<1>5. \A x \in DOMAIN ob.real_map_ :
        RealLevel(t, x) = IF x \in TopKeys(ob) THEN RealLevel(ob, x)
                          ELSE RealLevel(ob, x) \div 2
  BY <1>1, <1>3, <1>4 DEF RealLevel, TopKeys
<1>6. \A x \in DOMAIN ob.ghost_map_ : GhostLevel(t, x) = GhostLevel(ob, x) \div 2
  BY <1>1, <1>3, <1>4 DEF GhostLevel
<1>7. Score(t) = HalfBelow(Score(ob), TopKeys(ob))
  BY <1>1, <1>5 DEF Score, HalfBelow
<1>8. Ghost(t) = HalfBelow(Ghost(ob), {})
  BY <1>1, <1>6 DEF Ghost, HalfBelow
<1> QED BY <1>7, <1>8 DEF t

\* The scores of ob are f and g, or, if the levels rolled, their halves.
Settled(ob, f, g) ==
  \/ Score(ob) = f /\ Ghost(ob) = g
  \/ /\ Score(ob) = HalfBelow(f, ToSet(ob.top_lru_))
     /\ Ghost(ob) = HalfBelow(g, {})

LEMMA InsertScore ==
  ASSUME NEW ob, Core(ob), NEW k \in Keys, NEW l \in Nat,
         k \notin DOMAIN ob.real_map_, k \notin DOMAIN ob.ghost_map_
  PROVE  Settled(Insert(ob, k, l), Put(Score(ob), k, Cap(HitPoints + l)), Ghost(ob))
<1> DEFINE a == DemoteTop(ob)
           p == Cap(HitPoints + l)
           b == PushTop(a, k, p)
           e == [insert_level |-> p, insert_ts |-> a.cur_ts_, h_recency |-> TRUE]
<1>1. /\ Core(a) /\ a.top_lru_size_ < LruSize
      /\ DOMAIN a.real_map_ = DOMAIN ob.real_map_
      /\ a.ghost_map_ = ob.ghost_map_
  BY DemoteTopCore
<1>2. Score(a) = Score(ob) /\ Ghost(a) = Ghost(ob)
  BY DemoteTopScore
<1>3. p \in Levels
  BY PointsAssumption DEF Cap, Levels
<1>4. Insert(ob, k, l) = RollIfDue(b)
  BY DEF Insert
<1> HIDE DEF a, p
<1>5. /\ b.real_map_ = Put(a.real_map_, k, e)
      /\ b.ghost_map_ = a.ghost_map_ /\ b.rolling_ts = a.rolling_ts
  BY <1>1 DEF PushTop, Core, StateOK
<1>6. e.h_recency /\ e.insert_level = p
  OBVIOUS
<1>7. /\ Core(b) /\ WrittenBefore(b, b.cur_ts_)
      /\ b.prev_rolling_ts_ < b.cur_ts_
  BY <1>1, <1>3, PushTopCore
<1> HIDE DEF b, e
<1>8. Score(b) = Put(Score(ob), k, p) /\ Ghost(b) = Ghost(ob)
  BY <1>2, <1>5, <1>6, ScorePut, ScoreSame
<1>9. CASE b.cur_ts_ >= b.next_rolling_ts_
  <2> DEFINE t == Rolling(b)
  <2>1. RollIfDue(b) = t
    BY <1>9 DEF RollIfDue
  <2>2. TopKeys(b) = ToSet(t.top_lru_)
    <3>1. t.top_lru_ = b.top_lru_
      BY <1>7 DEF Rolling, Core, StateOK
    <3> HIDE DEF t
    <3> QED BY <1>7, <3>1 DEF Core, PartsOK, Lists
  <2>3. Score(t) = HalfBelow(Score(b), TopKeys(b)) /\ Ghost(t) = HalfBelow(Ghost(b), {})
    BY <1>7, RollingScore
  <2> HIDE DEF t
  <2> QED BY <1>4, <1>8, <2>1, <2>2, <2>3 DEF Settled, p
<1>10. CASE ~(b.cur_ts_ >= b.next_rolling_ts_)
  BY <1>4, <1>8, <1>10 DEF RollIfDue, Settled, p
<1> QED BY <1>9, <1>10

\* What an access adds to the score f says the key had
RaisedScore(f, k) == Cap(HitPoints + (IF k \in DOMAIN f THEN f[k] ELSE 0))

LEMMA AccessHitScore ==
  ASSUME NEW ob, ObjectOK(ob), NEW k \in DOMAIN ob.real_map_
  PROVE  Settled(AccessHit(ob, k), Put(Score(ob), k, RaisedScore(Score(ob), k)),
                 Ghost(ob))
<1> DEFINE a == EraseReal(ob, k)
           l == RealLevel(ob, k)
<1>1. Core(ob)
  BY ObjectCore
<1>2. k \in Keys /\ ob.real_map_[k] \in Entry
  BY <1>1 DEF Core, StateOK, IsEntryMap
<1>3. l \in Nat
  <2>1. \A x \in Levels : x \in Nat
    BY PointsAssumption DEF Levels
  <2>2. GetCurrentLevel(ob, ob.real_map_[k]) \in Levels
    BY <1>1, <1>2, CurrentLevelType DEF Core, StampsOK, StateOK
  <2> QED BY <1>2, <2>1, <2>2 DEF RealLevel, Entry
<1>4. /\ a.real_map_ = Drop(ob.real_map_, k)
      /\ a.ghost_map_ = ob.ghost_map_ /\ a.rolling_ts = ob.rolling_ts
  BY <1>1 DEF EraseReal, EraseTop, EraseLevel, Core, StateOK
<1>5. Core(a) /\ k \notin DOMAIN a.ghost_map_
  <2>1. CASE ob.real_map_[k].h_recency
    BY <1>1, <2>1, EraseTopCore DEF EraseReal, TopKeys
  <2>2. CASE ~ob.real_map_[k].h_recency
    BY <1>1, <2>2, EraseLevelCore DEF EraseReal, LevelKeys
  <2> QED BY <2>1, <2>2
<1>6. AccessHit(ob, k) = Insert(a, k, l)
  BY DEF AccessHit
<1> HIDE DEF a
<1>7. k \notin DOMAIN a.real_map_
  BY <1>4 DEF Drop
<1>8. Score(a) = Drop(Score(ob), k) /\ Ghost(a) = Ghost(ob)
  BY <1>4, ScoreDrop, ScoreSame
<1>9. Cap(HitPoints + l) = RaisedScore(Score(ob), k)
  BY DEF RaisedScore, Score
<1> HIDE DEF l
<1>10. Settled(Insert(a, k, l), Put(Score(a), k, Cap(HitPoints + l)), Ghost(a))
  BY <1>2, <1>3, <1>5, <1>7, InsertScore
<1>11. \A f, p : Put(Drop(f, k), k, p) = Put(f, k, p)
  BY DEF Put, Drop
<1> QED BY <1>6, <1>8, <1>9, <1>10, <1>11

\* No score below the top is less than the victim's.
LEMMA VictimLowest ==
  ASSUME NEW ob, Core(ob), VictimExists(ob)
  PROVE  \A j \in LevelKeys(ob) : VictimLevel(ob) <= Score(ob)[j]
<1> DEFINE m == ob.min_level_non_empty_
           l == VictimLevel(ob)
<1>1. m \in Nat /\ ob.real_lru_ \in [Levels -> Seq(Keys)]
  BY PointsAssumption DEF Core, StateOK
<1>2. \A x \in Levels : x \in Nat
  BY PointsAssumption DEF Levels
<1>3. \A x \in Levels : x < m => ob.real_lru_[x] = <<>>
  BY MinFacts
<1>4. l \in Levels
  BY DEF VictimExists
<1>5. \A x \in Levels : ob.real_lru_[x] # <<>> => l <= x
  <2>1. CASE ~Mru(ob)
    BY <1>1, <1>2, <1>3, <2>1 DEF VictimLevel
  <2>2. CASE Mru(ob)
    <3>1. l = FirstNonEmpty(ob.real_lru_, m)
      BY <2>2 DEF VictimLevel
    <3> HIDE DEF l
    <3>2. \A x \in Levels : x >= m /\ x < l => ob.real_lru_[x] = <<>>
      BY <1>1, <3>1, FirstNonEmptyChar
    <3> QED BY <1>1, <1>2, <1>3, <1>4, <3>2
  <2> QED BY <2>1, <2>2
<1>6. \A j \in LevelKeys(ob) : Score(ob)[j] = GetCurrentLevel(ob, ob.real_map_[j])
  BY DEF Score, RealLevel, LevelKeys
<1> QED BY <1>5, <1>6, LevelFacts

\* The ghosts g may become when it takes key v with score p
Remembers(g, v, p) ==
  IF GhostSize = 0 \/ p = 0 THEN {g}
  ELSE { Put(h, v, p) :
           h \in IF Cardinality(DOMAIN g) < GhostSize THEN {g}
                 ELSE { Drop(g, x) : x \in DOMAIN g } }

LEMMA EvictScore ==
  ASSUME NEW ob, Core(ob), VictimExists(ob)
  PROVE  LET t == Evict(ob)
             v == Victim(ob)
         IN /\ Score(t) = Drop(Score(ob), v)
            /\ Ghost(t) \in Remembers(Ghost(ob), v, Score(ob)[v])
<1> DEFINE u == Unlink(ob)
           v == Victim(ob)
           l == VictimLevel(ob)
<1>1. /\ Core(u) /\ v \in LevelKeys(ob) /\ v \in Keys /\ l \in Levels
      /\ RealLevel(ob, v) = l /\ v \notin DOMAIN u.ghost_map_
  BY UnlinkCore
<1>2. /\ u.real_map_ = Drop(ob.real_map_, v)
      /\ u.ghost_map_ = ob.ghost_map_ /\ u.rolling_ts = ob.rolling_ts
  BY DEF Unlink, Core, StateOK
<1>3. Evict(ob) = IF GhostSize # 0 /\ l # 0 THEN PushGhost(u, v, l) ELSE u
  BY DEF Evict
<1> HIDE DEF u, v, l
<1>4. Score(u) = Drop(Score(ob), v) /\ Ghost(u) = Ghost(ob)
  BY <1>2, ScoreDrop, ScoreSame
<1>5. Score(ob)[v] = l
  BY <1>1 DEF Score, LevelKeys
<1>6. CASE GhostSize # 0 /\ l # 0
  <2> DEFINE full == Cardinality(DOMAIN u.ghost_map_) >= GhostSize
             o == Last(u.ghost_lru_)
             h == IF full THEN Drop(u.ghost_map_, o) ELSE u.ghost_map_
             e == [insert_level |-> l, insert_ts |-> u.cur_ts_,
                   h_recency |-> FALSE]
             t == PushGhost(u, v, l)
             w == [u EXCEPT !.ghost_map_ = h]
  <2>1. /\ t.real_map_ = u.real_map_ /\ t.rolling_ts = u.rolling_ts
        /\ t.ghost_map_ = Put(h, v, e)
    BY <1>1 DEF PushGhost, Core, StateOK
  <2>2. w.ghost_map_ = h /\ w.rolling_ts = u.rolling_ts
    BY <1>1 DEF Core, StateOK
  <2>3. e \in Entry /\ e.insert_ts = u.cur_ts_ /\ e.insert_level = l
    BY <1>1 DEF Entry, Core, StateOK
  <2>4. DOMAIN Ghost(u) = DOMAIN u.ghost_map_
    BY DEF Ghost
  <2>5. full => o \in DOMAIN Ghost(u)
    <3> SUFFICES ASSUME full PROVE o \in DOMAIN Ghost(u)
      OBVIOUS
    <3>1. /\ u.ghost_lru_ \in Seq(Keys)
          /\ Lists(u.ghost_lru_, DOMAIN u.ghost_map_)
      BY <1>1 DEF Core, StateOK, PartsOK
    <3>2. Cardinality(DOMAIN u.ghost_map_) = Len(u.ghost_lru_)
      BY <3>1, ListsLength
    <3>3. u.ghost_lru_ # <<>>
      BY <1>6, <3>1, <3>2, SizeAssumption
    <3> QED BY <2>4, <3>1, <3>3, ListsPop
  <2>6. Ghost(w) = IF full THEN Drop(Ghost(u), o) ELSE Ghost(u)
    <3>1. CASE full
      BY <2>2, <3>1, ScoreDrop
    <3>2. CASE ~full
      BY <2>2, <3>2, ScoreSame
    <3> QED BY <3>1, <3>2
  <2>7. ~full <=> Cardinality(DOMAIN Ghost(u)) < GhostSize
    <3>1. IsFiniteSet(DOMAIN u.ghost_map_)
      <4>1. DOMAIN u.ghost_map_ \subseteq Keys
        BY <1>1 DEF Core, StateOK, IsEntryMap
      <4> QED BY <4>1, KeysAssumption, FS_Subset
    <3>2. Cardinality(DOMAIN u.ghost_map_) \in Nat /\ GhostSize \in Nat
      BY <3>1, FS_CardinalityType, SizeAssumption
    <3> QED BY <2>4, <3>2
  <2> HIDE DEF w, h, full, o, e, t
  <2>8. GetCurrentLevel(w, e) = l
    <3>1. GetCurrentLevel(u, e) = l
      BY <1>1, <2>3, LevelNow DEF Core
    <3> QED BY <2>2, <3>1, SameStamps
  <2>9. Ghost(t) = Put(Ghost(w), v, l)
    BY <2>1, <2>2, <2>8, ScorePut
  <2>10. Score(t) = Score(u)
    BY <2>1, ScoreSame
  <2>11. Ghost(w) \in IF Cardinality(DOMAIN Ghost(u)) < GhostSize THEN {Ghost(u)}
                      ELSE { Drop(Ghost(u), x) : x \in DOMAIN Ghost(u) }
    BY <2>5, <2>6, <2>7
  <2>12. Ghost(t) \in Remembers(Ghost(u), v, l)
    BY <1>6, <2>9, <2>11 DEF Remembers
  <2>13. Evict(ob) = t
    BY <1>3, <1>6 DEF t
  <2> QED BY <1>4, <1>5, <2>10, <2>12, <2>13 DEF v
<1>7. CASE ~(GhostSize # 0 /\ l # 0)
  BY <1>3, <1>4, <1>5, <1>7 DEF Remembers, v
<1> QED BY <1>6, <1>7

\* From ob to t, key k enters the top, with one access more than the ghost g says;
\* the others have the scores f.
Admits(ob, t, k, f, g) ==
  /\ t.top_lru_ = NewTop(ob.top_lru_, k)
  /\ Settled(t, Put(f, k, RaisedScore(g, k)), Drop(g, k))

\* What is left of a miss once there is room, in the object res
LEMMA AdmitScore ==
  ASSUME NEW res, Core(res), NEW k \in Keys, k \notin DOMAIN res.real_map_
  PROVE  Settled(Insert(EraseGhost(res, k), k, GhostLevel(res, k)),
                 Put(Score(res), k, RaisedScore(Ghost(res), k)), Drop(Ghost(res), k))
<1> DEFINE a == EraseGhost(res, k)
           l == GhostLevel(res, k)
<1>1. /\ Core(a) /\ a.real_map_ = res.real_map_ /\ k \notin DOMAIN a.ghost_map_
  BY EraseGhostCore
<1>2. l \in Nat
  <2>1. CASE k \in DOMAIN res.ghost_map_
    <3>1. res.ghost_map_[k] \in Entry
      BY <2>1 DEF Core, StateOK, IsEntryMap
    <3>2. GetCurrentLevel(res, res.ghost_map_[k]) \in Levels
      BY <3>1, CurrentLevelType DEF Core, StampsOK, StateOK
    <3> QED BY <2>1, <3>2, PointsAssumption DEF GhostLevel, Levels
  <2>2. CASE k \notin DOMAIN res.ghost_map_
    BY <2>2 DEF GhostLevel
  <2> QED BY <2>1, <2>2
<1>3. /\ a.rolling_ts = res.rolling_ts
      /\ a.ghost_map_ = IF k \in DOMAIN res.ghost_map_ THEN Drop(res.ghost_map_, k)
                        ELSE res.ghost_map_
  BY DEF EraseGhost, Core, StateOK
<1>4. Cap(HitPoints + l) = RaisedScore(Ghost(res), k)
  BY DEF RaisedScore, Ghost, GhostLevel
<1> HIDE DEF a, l
<1>5. Score(a) = Score(res)
  BY <1>1, <1>3, ScoreSame
<1>6. Ghost(a) = Drop(Ghost(res), k)
  <2>1. CASE k \in DOMAIN res.ghost_map_
    BY <1>3, <2>1, ScoreDrop
  <2>2. CASE k \notin DOMAIN res.ghost_map_
    <3> DEFINE f == Ghost(res)
    <3>1. f = [x \in DOMAIN f |-> f[x]] /\ k \notin DOMAIN f
      BY <2>2 DEF Ghost
    <3> HIDE DEF f
    <3>2. Drop(f, k) = f
      BY <3>1 DEF Drop
    <3> QED BY <1>3, <2>2, <3>2, ScoreSame DEF f
  <2> QED BY <2>1, <2>2
<1>7. Settled(Insert(a, k, l), Put(Score(a), k, Cap(HitPoints + l)), Ghost(a))
  BY <1>1, <1>2, InsertScore
<1> QED BY <1>4, <1>5, <1>6, <1>7 DEF a, l

\* The three outcomes of an access, in scores
HitStep(ob, t, k) ==
  /\ k \in DOMAIN Score(ob)
  /\ t.top_lru_ = NewTop(ob.top_lru_, k)
  /\ Settled(t, Put(Score(ob), k, RaisedScore(Score(ob), k)), Ghost(ob))

RoomStep(ob, t, k) ==
  /\ k \notin DOMAIN Score(ob)
  /\ Cardinality(DOMAIN Score(ob)) < Size
  /\ Admits(ob, t, k, Score(ob), Ghost(ob))

VictimStep(ob, t, k) ==
  /\ k \notin DOMAIN Score(ob)
  /\ Cardinality(DOMAIN Score(ob)) = Size
  /\ LET below == DOMAIN Score(ob) \ ToSet(ob.top_lru_)
     IN \E v \in below :
          /\ \A j \in below : Score(ob)[v] <= Score(ob)[j]
          /\ \E g \in Remembers(Ghost(ob), v, Score(ob)[v]) :
               Admits(ob, t, k, Drop(Score(ob), v), g)

SameScores(ob, t) ==
  t.top_lru_ = ob.top_lru_ /\ Score(t) = Score(ob) /\ Ghost(t) = Ghost(ob)

\* An access is a step in scores, unless it reads a victim never assigned, which
\* nothing follows.
LEMMA AccessScore ==
  ASSUME NEW ob, ObjectOK(ob), ob.ub # "no_victim", NEW k \in Keys
  PROVE  LET t == Access(ob, k)
         IN \/ HitStep(ob, t, k)
            \/ RoomStep(ob, t, k)
            \/ VictimStep(ob, t, k)
            \/ SameScores(ob, t)
<1>1. Core(ob) /\ DOMAIN Score(ob) = DOMAIN ob.real_map_
  BY ObjectCore DEF Score
<1>2. CASE k \in DOMAIN ob.real_map_
  <2> DEFINE t == AccessHit(ob, k)
  <2>1. Access(ob, k) = t
    BY <1>2 DEF Access
  <2>2. t.top_lru_ = NewTop(ob.top_lru_, k)
    BY <1>2, AccessHitFrame
  <2>3. Settled(t, Put(Score(ob), k, RaisedScore(Score(ob), k)), Ghost(ob))
    BY <1>2, AccessHitScore
  <2> QED BY <1>1, <1>2, <2>1, <2>2, <2>3 DEF HitStep
<1>3. CASE k \notin DOMAIN ob.real_map_
  <2> DEFINE res == EvictIfFull(ob)
             t == AccessMiss(ob, k)
             n == Cardinality(DOMAIN ob.real_map_)
  <2>1. Access(ob, k) = t
    BY <1>3 DEF Access
  <2>2. CASE res.ub = "no_victim"
    <3>1. t = res
      BY <2>2 DEF AccessMiss
    <3>2. ~VictimExists(ob) /\ res = [ob EXCEPT !.ub = "no_victim"]
      <4>1. n = Size
        BY <2>2 DEF EvictIfFull
      <4>2. res = Evict(ob)
        BY <4>1 DEF EvictIfFull
      <4>3. ASSUME VictimExists(ob) PROVE FALSE
        <5>1. Evict(ob).ub \in {ob.ub, "evict_scan"}
          BY <1>1, <4>3, EvictCore
        <5> QED BY <2>2, <4>2, <5>1
      <4> QED BY <4>2, <4>3 DEF Evict
    <3>3. /\ res.top_lru_ = ob.top_lru_ /\ res.rolling_ts = ob.rolling_ts
          /\ res.real_map_ = ob.real_map_ /\ res.ghost_map_ = ob.ghost_map_
      BY <1>1, <3>2 DEF Core, StateOK
    <3> HIDE DEF res, t
    <3>4. SameScores(ob, t)
      BY <3>1, <3>3, ScoreSame DEF SameScores
    <3> QED BY <2>1, <3>4
  <2>3. CASE res.ub # "no_victim"
    <3>1. Core(res) /\ DOMAIN res.real_map_ \subseteq DOMAIN ob.real_map_
      BY <2>3, EvictIfFullOK
    <3>2. t = Insert(EraseGhost(res, k), k, GhostLevel(res, k))
      BY <2>3 DEF AccessMiss
    <3>3. t.top_lru_ = NewTop(ob.top_lru_, k)
      BY <1>3, <2>3, AccessMissFrame
    <3>4. res = IF n = Size THEN Evict(ob) ELSE ob
      BY DEF EvictIfFull
    <3> HIDE DEF res, t
    <3>5. Admits(ob, t, k, Score(res), Ghost(res))
      BY <1>3, <3>1, <3>2, <3>3, AdmitScore DEF Admits
    <3>6. CASE n # Size
      <4>1. n < Size
        <5>1. n <= Size
          BY DEF ObjectOK, SizesOK
        <5>2. DOMAIN ob.real_map_ \subseteq Keys
          BY DEF ObjectOK, StateOK, IsEntryMap
        <5>3. n \in Nat
          BY <5>2, KeysAssumption, FS_Subset, FS_CardinalityType
        <5> HIDE DEF n
        <5> QED BY <3>6, <5>1, <5>3, SizeAssumption
      <4>2. RoomStep(ob, t, k)
        BY <1>1, <1>3, <3>4, <3>5, <3>6, <4>1 DEF RoomStep
      <4> QED BY <2>1, <4>2
    <3>7. CASE n = Size
      <4> DEFINE v == Victim(ob)
                 below == DOMAIN Score(ob) \ ToSet(ob.top_lru_)
      <4>1. res = Evict(ob)
        BY <3>4, <3>7
      <4>2. VictimExists(ob)
        <5> SUFFICES ASSUME ~VictimExists(ob) PROVE FALSE
          OBVIOUS
        <5>1. res = [ob EXCEPT !.ub = "no_victim"]
          BY <4>1 DEF Evict
        <5>2. res.ub = "no_victim"
          BY <1>1, <5>1 DEF Core, StateOK
        <5> QED BY <2>3, <5>2
      <4>3. /\ Score(res) = Drop(Score(ob), v)
            /\ Ghost(res) \in Remembers(Ghost(ob), v, Score(ob)[v])
        BY <1>1, <4>1, <4>2, EvictScore
      <4>4. below = LevelKeys(ob)
        BY <1>1 DEF Core, PartsOK, Lists, TopKeys, LevelKeys
      <4>5. v \in LevelKeys(ob) /\ RealLevel(ob, v) = VictimLevel(ob)
        BY <1>1, <4>2, UnlinkCore
      <4>6. Score(ob)[v] = VictimLevel(ob)
        BY <4>5 DEF Score, LevelKeys
      <4>7. \A j \in LevelKeys(ob) : VictimLevel(ob) <= Score(ob)[j]
        BY <1>1, <4>2, VictimLowest
      <4> HIDE DEF v
      <4>8. VictimStep(ob, t, k)
        BY <1>1, <1>3, <3>5, <3>7, <4>3, <4>4, <4>5, <4>6, <4>7 DEF VictimStep
      <4> QED BY <2>1, <4>8
    <3> QED BY <3>6, <3>7
  <2> QED BY <2>2, <2>3
<1> QED BY <1>2, <1>3

\* A report and a new half-life leave the scores as they are.
LEMMA QuietScore ==
  ASSUME NEW ob, StateOK(ob)
  PROVE  /\ SameScores(ob, ReportAndClear(ob))
         /\ \A h : SameScores(ob, UpdateHalf(ob, h))
<1>1. SameScores(ob, ReportAndClear(ob))
  <2> DEFINE t == ReportAndClear(ob)
  <2>1. /\ t.top_lru_ = ob.top_lru_ /\ t.rolling_ts = ob.rolling_ts
        /\ t.real_map_ = ob.real_map_ /\ t.ghost_map_ = ob.ghost_map_
    BY DEF ReportAndClear, StateOK
  <2> HIDE DEF t
  <2> QED BY <2>1, ScoreSame DEF SameScores, t
<1>2. ASSUME NEW h PROVE SameScores(ob, UpdateHalf(ob, h))
  <2> DEFINE t == UpdateHalf(ob, h)
  <2>1. /\ t.top_lru_ = ob.top_lru_ /\ t.rolling_ts = ob.rolling_ts
        /\ t.real_map_ = ob.real_map_ /\ t.ghost_map_ = ob.ghost_map_
    BY DEF UpdateHalf, StateOK
  <2> HIDE DEF t
  <2> QED BY <2>1, ScoreSame DEF SameScores, t
<1> QED BY <1>1, <1>2

-----------------------------------------------------------------------------
(* The specification *)

\* The inductive invariant: what holds of the object between two calls, and
\* no eviction went wrong when two pages or more are left under the top.
IInv == ObjectOK(sub) /\ EvictSafe

LEMMA InvInit == SubInit => IInv
<1>1. InitHalf \in Nat
  BY ClockAssumption
<1> QED BY <1>1, NewOK DEF SubInit, IInv, EvictSafe, EvictionsOK

LEMMA InvNext == IInv /\ [SubNext]_sub => IInv'
<1> SUFFICES ASSUME IInv, [SubNext]_sub PROVE IInv'
  OBVIOUS
<1>1. ObjectOK(sub) /\ (Size - LruSize >= 2 => EvictionsOK(sub))
  BY DEF IInv, EvictSafe
<1>2. CASE AccessKey
  <2>1. PICK k \in Keys : sub' = Access(sub, k) /\ sub.ub # "no_victim"
    BY <1>2 DEF AccessKey
  <2>2. CASE k \in DOMAIN sub.real_map_
    <3>1. sub' = AccessHit(sub, k)
      BY <2>1, <2>2 DEF Access
    <3>2. ObjectOK(AccessHit(sub, k)) /\ AccessHit(sub, k).ub \in {sub.ub, "hit_scan"}
      BY <1>1, <2>2, AccessHitOK
    <3> QED BY <1>1, <3>1, <3>2 DEF IInv, EvictSafe, EvictionsOK
  <2>3. CASE k \notin DOMAIN sub.real_map_
    <3>1. sub' = AccessMiss(sub, k)
      BY <2>1, <2>3 DEF Access
    <3>2. /\ ObjectOK(AccessMiss(sub, k))
          /\ (Size - LruSize >= 2 /\ EvictionsOK(sub))
               => EvictionsOK(AccessMiss(sub, k))
      BY <1>1, <2>1, <2>3, AccessMissOK
    <3> QED BY <1>1, <3>1, <3>2 DEF IInv, EvictSafe
  <2> QED BY <2>2, <2>3
<1>3. CASE SetHalf
  <2>1. PICK h \in Halves : sub' = UpdateHalf(sub, h)
    BY <1>3 DEF SetHalf
  <2>2. h \in Nat
    BY HalvesAssumption
  <2> QED BY <1>1, <2>1, <2>2, UpdateHalfOK DEF IInv, EvictSafe, EvictionsOK
<1>4. CASE Report
  BY <1>1, <1>4, ReportOK DEF Report, IInv, EvictSafe, EvictionsOK
<1>5. CASE UNCHANGED sub
  BY <1>5 DEF IInv, EvictSafe
<1> QED BY <1>2, <1>3, <1>4, <1>5 DEF SubNext

\* The inductive invariant holds of every HillSubReplacer.
THEOREM Invariance == SubSpec => []IInv
<1> QED BY InvInit, InvNext, PTL DEF SubSpec

\* Every field of HillSubReplacer keeps its type: no index leaves real_lru_
\* but min_level_non_empty_, which a scan that finds no level in use leaves at
\* max_points_.
THEOREM TypeCorrect == SubSpec => []TypeOK
<1>1. IInv => TypeOK
  BY DEF IInv, ObjectOK, TypeOK
<1> QED BY <1>1, Invariance, PTL

\* A resident key is in exactly one list, that of its current level, whatever
\* the rollings between its insertion and now.
THEOREM PartitionHolds == SubSpec => []Partition
<1>1. IInv => Partition
  BY DEF IInv, ObjectOK, Partition
<1> QED BY <1>1, Invariance, PTL

\* The buffer, its top and its ghost never outgrow their sizes.
THEOREM CapacityHolds == SubSpec => []Capacity
<1>1. IInv => Capacity
  BY DEF IInv, ObjectOK, Capacity
<1> QED BY <1>1, Invariance, PTL

\* min_level_non_empty_ is the lowest level in use after every call.
THEOREM MinLevelHolds == SubSpec => []MinLevelExact
<1>1. IInv => MinLevelExact
  BY DEF IInv, ObjectOK, MinLevelExact
<1> QED BY <1>1, Invariance, PTL

\* With two pages or more under the top, no eviction reads an uninitialised
\* victim or scans past the last level, for any trace and any half-life.
THEOREM EvictSafeHolds == SubSpec => []EvictSafe
<1>1. IInv => EvictSafe
  BY DEF IInv
<1> QED BY <1>1, Invariance, PTL

\* hill_replacer.h:85: a hit scans past the last level only if it is of the one
\* key below the top, whatever hits, rollings and evictions moved before it.
THEOREM HitScanAloneHolds == SubSpec => HitScanAlone
<1> DEFINE One == Cardinality(LevelKeys(sub)) = 1
<1>1. IInv /\ [SubNext]_sub
        => [sub.ub # "hit_scan" /\ sub'.ub = "hit_scan" => One]_sub
  <2> SUFFICES ASSUME IInv, SubNext, sub.ub # "hit_scan", sub'.ub = "hit_scan"
               PROVE  One
    OBVIOUS
  <2>1. ObjectOK(sub)
    BY DEF IInv
  <2>2. CASE AccessKey
    <3>1. PICK k \in Keys : sub' = Access(sub, k) /\ sub.ub # "no_victim"
      BY <2>2 DEF AccessKey
    <3>2. k \in DOMAIN sub.real_map_
      <4> SUFFICES ASSUME k \notin DOMAIN sub.real_map_ PROVE FALSE
        OBVIOUS
      <4>1. sub' = AccessMiss(sub, k)
        BY <3>1 DEF Access
      <4>2. AccessMiss(sub, k).ub \in {sub.ub, "evict_scan", "no_victim"}
        BY <2>1, <3>1, AccessMissOK
      <4> QED BY <4>1, <4>2
    <3>3. sub' = AccessHit(sub, k)
      BY <3>1, <3>2 DEF Access
    <3>4. LevelKeys(sub) # {k} => AccessHit(sub, k).ub = sub.ub
      BY <2>1, <3>2, AccessHitOK
    <3>5. LevelKeys(sub) = {k}
      BY <3>3, <3>4
    <3> QED BY <3>5, FS_Singleton
  <2>3. CASE SetHalf
    <3>1. PICK h \in Halves : sub' = UpdateHalf(sub, h)
      BY <2>3 DEF SetHalf
    <3>2. UpdateHalf(sub, h).ub = sub.ub
      BY <2>1, HalvesAssumption, UpdateHalfOK
    <3> QED BY <3>1, <3>2
  <2>4. CASE Report
    <3>1. ReportAndClear(sub).ub = sub.ub
      BY <2>1, ReportOK
    <3> QED BY <2>4, <3>1 DEF Report
  <2> QED BY <2>2, <2>3, <2>4 DEF SubNext
<1> QED BY <1>1, Invariance, PTL DEF HitScanAlone, SubSpec

-----------------------------------------------------------------------------
(* The order of the top and of the ghost *)

LEMMA OrderErase ==
  ASSUME NEW q \in Seq(Keys), NEW K, Lists(q, K), NEW k \in K,
         NEW m, LastFirst(q, m), NEW n, \A x \in K \ {k} : n[x] = m[x]
  PROVE  LastFirst(Erase(q, k), n)
<1> DEFINE i == CHOOSE i \in DOMAIN q : q[i] = k
           res == Erase(q, k)
<1>1. i \in 1..Len(q) /\ res = RemoveAt(q, i) /\ Len(q) \in Nat
  BY DEF Lists, ToSet, Erase
<1> HIDE DEF i
<1>2. /\ Len(res) = Len(q) - 1 /\ res \in Seq(Keys)
      /\ \A j \in 1..Len(q)-1 : res[j] = IF j < i THEN q[j] ELSE q[j+1]
  BY <1>1, RemoveAtElements
<1>3. ToSet(res) = K \ {k}
  BY ListsErase DEF Lists
<1> HIDE DEF res
<1>4. \A a \in DOMAIN res : n[res[a]] = m[res[a]]
  BY <1>3 DEF ToSet
<1>5. ASSUME NEW a \in DOMAIN res, NEW b \in DOMAIN res, a < b
      PROVE  m[res[a]].insert_ts > m[res[b]].insert_ts
  <2>1. /\ a \in 1..Len(q)-1 /\ b \in 1..Len(q)-1
        /\ DOMAIN q = 1..Len(q)
    BY <1>2
  <2> DEFINE c == IF a < i THEN a ELSE a+1
             d == IF b < i THEN b ELSE b+1
  <2>2. c \in DOMAIN q /\ d \in DOMAIN q /\ c < d
    BY <1>1, <1>5, <2>1
  <2>3. res[a] = q[c] /\ res[b] = q[d]
    BY <1>2, <2>1
  <2> HIDE DEF c, d
  <2> QED BY <2>2, <2>3 DEF LastFirst
<1> QED BY <1>4, <1>5 DEF LastFirst, res

LEMMA OrderFront ==
  ASSUME NEW q \in Seq(Keys), q # <<>>, NEW K, Lists(q, K),
         NEW m, LastFirst(q, m), NEW n, \A x \in K \ {Last(q)} : n[x] = m[x]
  PROVE  LastFirst(Front(q), n)
<1> DEFINE res == Front(q)
<1>1. ToSet(res) = K \ {Last(q)} /\ Len(res) = Len(q) - 1 /\ res \in Seq(Keys)
  BY ListsPop DEF Lists
<1>2. /\ Len(q) \in Nat \ {0} /\ DOMAIN q = 1..Len(q)
      /\ \A j \in 1..Len(q)-1 : res[j] = q[j]
  <2>1. Len(q) \in Nat \ {0} /\ DOMAIN q = 1..Len(q)
    BY EmptySeq
  <2>2. res = SubSeq(q, 1, Len(q)-1)
    BY DEF Front
  <2> QED BY <2>1, <2>2, SubSeqProperties
<1> HIDE DEF res
<1>3. DOMAIN res = 1..Len(q)-1
  BY <1>1
<1>4. \A a \in DOMAIN res : n[res[a]] = m[res[a]]
  BY <1>1 DEF ToSet
<1>5. \A a \in DOMAIN res : a \in DOMAIN q /\ res[a] = q[a]
  BY <1>2, <1>3
<1> QED BY <1>4, <1>5 DEF LastFirst, res

LEMMA OrderPush ==
  ASSUME NEW q \in Seq(Keys), NEW K, Lists(q, K), NEW k \in Keys,
         NEW m, LastFirst(q, m), NEW n, \A x \in K : n[x] = m[x],
         NEW stamp \in Nat, n[k].insert_ts = stamp,
         \A x \in K : m[x].insert_ts \in Nat /\ m[x].insert_ts < stamp
  PROVE  LastFirst(<<k>> \o q, n)
<1> DEFINE res == <<k>> \o q
<1>1. /\ Len(q) \in Nat /\ DOMAIN q = 1..Len(q)
      /\ DOMAIN res = 1..Len(q)+1 /\ res[1] = k
      /\ \A j \in 2..Len(q)+1 : j-1 \in DOMAIN q /\ res[j] = q[j-1]
  OBVIOUS
<1> HIDE DEF res
<1>2. \A j \in DOMAIN q : q[j] \in K
  BY DEF Lists, ToSet
<1>3. ASSUME NEW a \in DOMAIN res, NEW b \in DOMAIN res, a < b
      PROVE  n[res[a]].insert_ts > n[res[b]].insert_ts
  <2>1. b \in 2..Len(q)+1 /\ a \in 1..Len(q)+1
    BY <1>1, <1>3
  <2>2. res[b] = q[b-1] /\ b-1 \in DOMAIN q /\ res[b] \in K
    BY <1>1, <1>2, <2>1
  <2>3. CASE a = 1
    BY <1>1, <2>2, <2>3
  <2>4. CASE a # 1
    <3>1. a \in 2..Len(q)+1 /\ a-1 < b-1
      BY <1>3, <2>1, <2>4
    <3>2. res[a] = q[a-1] /\ a-1 \in DOMAIN q /\ res[a] \in K
      BY <1>1, <1>2, <3>1
    <3>3. m[q[a-1]].insert_ts > m[q[b-1]].insert_ts
      BY <2>2, <3>1, <3>2 DEF LastFirst
    <3> QED BY <2>2, <3>2, <3>3
  <2> QED BY <2>3, <2>4
<1> QED BY <1>3 DEF LastFirst, res

LEMMA OrderSame ==
  ASSUME NEW q, NEW K, Lists(q, K), NEW m, LastFirst(q, m),
         NEW n, \A x \in K : n[x] = m[x]
  PROVE  LastFirst(q, n)
<1>1. \A j \in DOMAIN q : n[q[j]] = m[q[j]]
  BY DEF Lists, ToSet
<1> QED BY <1>1 DEF LastFirst

\* In order, and the top written before now: what every stage of an access up
\* to the push to the top preserves
InOrder(ob) ==
  /\ OrderOK(ob)
  /\ \A k \in TopKeys(ob) : ob.real_map_[k].insert_ts < ob.cur_ts_

\* What Core says of the lists in order
LEMMA OrderTypes ==
  ASSUME NEW ob, Core(ob)
  PROVE  /\ ob.top_lru_ \in Seq(Keys) /\ Lists(ob.top_lru_, TopKeys(ob))
         /\ ob.ghost_lru_ \in Seq(Keys)
         /\ Lists(ob.ghost_lru_, DOMAIN ob.ghost_map_)
         /\ ob.cur_ts_ \in Nat
         /\ \A x \in DOMAIN ob.real_map_ : ob.real_map_[x].insert_ts \in Nat
         /\ \A x \in DOMAIN ob.ghost_map_ : ob.ghost_map_[x].insert_ts \in Nat
BY DEF Core, PartsOK, StateOK, IsEntryMap, Entry

\* A key leaves the table of the residents, and the top if it is there.
LEMMA OrderDrop ==
  ASSUME NEW ob, Core(ob), InOrder(ob), NEW k \in DOMAIN ob.real_map_, NEW t,
         t.real_map_ = Drop(ob.real_map_, k),
         t.top_lru_ = IF ob.real_map_[k].h_recency THEN Erase(ob.top_lru_, k)
                      ELSE ob.top_lru_,
         t.ghost_lru_ = ob.ghost_lru_, t.ghost_map_ = ob.ghost_map_,
         t.cur_ts_ = ob.cur_ts_
  PROVE  InOrder(t)
<1>1. /\ TopKeys(t) = TopKeys(ob) \ {k}
      /\ \A x \in TopKeys(ob) \ {k} : t.real_map_[x] = ob.real_map_[x]
  BY DEF TopKeys, Drop
<1>2. LastFirst(t.top_lru_, t.real_map_)
  <2>1. CASE ob.real_map_[k].h_recency
    <3>1. k \in TopKeys(ob)
      BY <2>1 DEF TopKeys
    <3> QED BY <1>1, <2>1, <3>1, OrderTypes, OrderErase DEF InOrder, OrderOK
  <2>2. CASE ~ob.real_map_[k].h_recency
    <3>1. k \notin TopKeys(ob)
      BY <2>2 DEF TopKeys
    <3> QED BY <1>1, <2>2, <3>1, OrderTypes, OrderSame DEF InOrder, OrderOK
  <2> QED BY <2>1, <2>2
<1> QED BY <1>1, <1>2 DEF InOrder, OrderOK

LEMMA EraseRealOrder ==
  ASSUME NEW ob, Core(ob), InOrder(ob), NEW k \in DOMAIN ob.real_map_
  PROVE  InOrder(EraseReal(ob, k))
<1> DEFINE t == EraseReal(ob, k)
<1>1. CASE ob.real_map_[k].h_recency
  <2>1. /\ t.real_map_ = Drop(ob.real_map_, k)
        /\ t.top_lru_ = Erase(ob.top_lru_, k)
        /\ t.ghost_lru_ = ob.ghost_lru_ /\ t.ghost_map_ = ob.ghost_map_
        /\ t.cur_ts_ = ob.cur_ts_
    BY <1>1 DEF Core, StateOK, EraseReal, EraseTop
  <2> HIDE DEF t
  <2> QED BY <1>1, <2>1, OrderDrop DEF t
<1>2. CASE ~ob.real_map_[k].h_recency
  <2>1. /\ t.real_map_ = Drop(ob.real_map_, k)
        /\ t.top_lru_ = ob.top_lru_
        /\ t.ghost_lru_ = ob.ghost_lru_ /\ t.ghost_map_ = ob.ghost_map_
        /\ t.cur_ts_ = ob.cur_ts_
    BY <1>2 DEF Core, StateOK, EraseReal, EraseLevel
  <2> HIDE DEF t
  <2> QED BY <1>2, <2>1, OrderDrop DEF t
<1> QED BY <1>1, <1>2

LEMMA EraseGhostOrder ==
  ASSUME NEW ob, Core(ob), InOrder(ob), NEW k
  PROVE  InOrder(EraseGhost(ob, k))
<1> DEFINE t == EraseGhost(ob, k)
           m == ob.ghost_map_
<1>1. /\ t.real_map_ = ob.real_map_ /\ t.top_lru_ = ob.top_lru_
      /\ t.cur_ts_ = ob.cur_ts_
      /\ t.ghost_lru_ = IF k \in DOMAIN m THEN Erase(ob.ghost_lru_, k)
                        ELSE ob.ghost_lru_
      /\ t.ghost_map_ = IF k \in DOMAIN m THEN Drop(m, k) ELSE m
  BY DEF Core, StateOK, EraseGhost
<1> HIDE DEF t
<1>2. LastFirst(t.ghost_lru_, t.ghost_map_)
  <2>1. CASE k \in DOMAIN m
    <3>1. \A x \in DOMAIN m \ {k} : Drop(m, k)[x] = m[x]
      BY DEF Drop
    <3> QED BY <1>1, <2>1, <3>1, OrderTypes, OrderErase DEF InOrder, OrderOK
  <2>2. CASE k \notin DOMAIN m
    BY <1>1, <2>2 DEF InOrder, OrderOK
  <2> QED BY <2>1, <2>2
<1> QED BY <1>1, <1>2 DEF InOrder, OrderOK, TopKeys, t

\* The ghost forgets its last key if it is full, and takes the victim in front.
LEMMA PushGhostOrder ==
  ASSUME NEW ob, Core(ob), InOrder(ob), GhostSize # 0, NEW k \in Keys, NEW l,
         k \notin DOMAIN ob.ghost_map_,
         \A x \in DOMAIN ob.ghost_map_ : ob.ghost_map_[x].insert_ts < ob.cur_ts_
  PROVE  InOrder(PushGhost(ob, k, l))
<1> DEFINE full == Cardinality(DOMAIN ob.ghost_map_) >= GhostSize
           q == ob.ghost_lru_
           m == ob.ghost_map_
           g == IF full THEN Front(q) ELSE q
           h == IF full THEN Drop(m, Last(q)) ELSE m
           e == [insert_level |-> l, insert_ts |-> ob.cur_ts_, h_recency |-> FALSE]
           t == PushGhost(ob, k, l)
<1>1. /\ t.real_map_ = ob.real_map_ /\ t.top_lru_ = ob.top_lru_
      /\ t.cur_ts_ = ob.cur_ts_
      /\ t.ghost_lru_ = <<k>> \o g /\ t.ghost_map_ = Put(h, k, e)
  BY DEF Core, StateOK, PushGhost
<1> HIDE DEF t
<1>2. /\ g \in Seq(Keys) /\ Lists(g, DOMAIN h) /\ LastFirst(g, h)
      /\ DOMAIN h \subseteq DOMAIN m /\ \A x \in DOMAIN h : h[x] = m[x]
  <2>1. CASE full
    <3>1. Cardinality(DOMAIN m) = Len(q) /\ q \in Seq(Keys)
      BY OrderTypes, ListsLength
    <3>2. q # <<>>
      BY <2>1, <3>1, SizeAssumption
    <3>3. /\ DOMAIN h = DOMAIN m \ {Last(q)}
          /\ \A x \in DOMAIN h : h[x] = m[x]
      BY <2>1 DEF Drop
    <3>4. Front(q) \in Seq(Keys) /\ Lists(Front(q), DOMAIN m \ {Last(q)})
      BY <3>2, OrderTypes, ListsPop
    <3>5. LastFirst(q, m)
      BY DEF InOrder, OrderOK
    <3> HIDE DEF h
    <3>6. LastFirst(Front(q), h)
      BY <3>2, <3>3, <3>5, OrderTypes, OrderFront
    <3> QED BY <2>1, <3>3, <3>4, <3>6
  <2>2. CASE ~full
    BY <2>2, OrderTypes DEF InOrder, OrderOK
  <2> QED BY <2>1, <2>2
<1> HIDE DEF g, h
<1>3. LastFirst(t.ghost_lru_, t.ghost_map_)
  <2> DEFINE n == Put(h, k, e)
  <2>1. k \notin DOMAIN h
    BY <1>2
  <2>2. \A x \in DOMAIN h : n[x] = h[x]
    BY <2>1 DEF Put
  <2>3. n[k].insert_ts = ob.cur_ts_
    BY DEF Put
  <2>4. \A x \in DOMAIN h : h[x].insert_ts \in Nat /\ h[x].insert_ts < ob.cur_ts_
    BY <1>2, OrderTypes
  <2> HIDE DEF n
  <2>5. LastFirst(<<k>> \o g, n)
    BY <1>2, <2>2, <2>3, <2>4, OrderTypes, OrderPush
  <2> QED BY <1>1, <2>5 DEF n
<1> QED BY <1>1, <1>3 DEF InOrder, OrderOK, TopKeys, t

LEMMA EvictOrder ==
  ASSUME NEW ob, Core(ob), InOrder(ob),
         \A x \in DOMAIN ob.ghost_map_ : ob.ghost_map_[x].insert_ts < ob.cur_ts_
  PROVE  InOrder(Evict(ob))
<1> DEFINE u == Unlink(ob)
           k == Victim(ob)
           l == VictimLevel(ob)
<1>1. CASE ~VictimExists(ob)
  <2> DEFINE t == Evict(ob)
  <2>1. /\ t.real_map_ = ob.real_map_ /\ t.top_lru_ = ob.top_lru_
        /\ t.ghost_map_ = ob.ghost_map_ /\ t.ghost_lru_ = ob.ghost_lru_
        /\ t.cur_ts_ = ob.cur_ts_
    BY <1>1 DEF Evict, Core, StateOK
  <2> HIDE DEF t
  <2> QED BY <2>1 DEF InOrder, OrderOK, TopKeys, t
<1>2. CASE VictimExists(ob)
  <2>1. /\ Core(u) /\ k \in LevelKeys(ob) /\ k \in Keys
        /\ k \notin DOMAIN u.ghost_map_
    BY <1>2, UnlinkCore
  <2>2. /\ u.real_map_ = Drop(ob.real_map_, k) /\ u.top_lru_ = ob.top_lru_
        /\ u.ghost_map_ = ob.ghost_map_ /\ u.ghost_lru_ = ob.ghost_lru_
        /\ u.cur_ts_ = ob.cur_ts_
    BY DEF Unlink, Core, StateOK
  <2>3. Evict(ob) = IF GhostSize # 0 /\ l # 0 THEN PushGhost(u, k, l) ELSE u
    BY <1>2 DEF Evict
  <2> HIDE DEF u, k, l
  <2>4. k \in DOMAIN ob.real_map_ /\ ~ob.real_map_[k].h_recency
    BY <2>1 DEF LevelKeys
  <2>5. InOrder(u)
    BY <2>2, <2>4, OrderDrop
  <2>6. GhostSize # 0 => InOrder(PushGhost(u, k, l))
    BY <2>1, <2>2, <2>5, PushGhostOrder
  <2> QED BY <2>3, <2>5, <2>6
<1> QED BY <1>1, <1>2

LEMMA DemoteTopOrder ==
  ASSUME NEW ob, Core(ob), InOrder(ob)
  PROVE  InOrder(DemoteTop(ob))
<1>1. CASE ob.top_lru_size_ < LruSize
  BY <1>1 DEF DemoteTop
<1>2. CASE ~(ob.top_lru_size_ < LruSize)
  <2> DEFINE t == DemoteTop(ob)
             k == Last(ob.top_lru_)
             e == [insert_level |-> ob.real_map_[k].insert_level,
                   insert_ts |-> ob.cur_ts_, h_recency |-> FALSE]
  <2>1. /\ t.real_map_ = Put(ob.real_map_, k, e)
        /\ t.top_lru_ = Front(ob.top_lru_)
        /\ t.ghost_map_ = ob.ghost_map_ /\ t.ghost_lru_ = ob.ghost_lru_
        /\ t.cur_ts_ = ob.cur_ts_
    BY <1>2 DEF DemoteTop, Core, StateOK
  <2>2. ob.top_lru_ # <<>>
    <3>1. Len(ob.top_lru_) # 0
      BY <1>2, SizeAssumption DEF Core
    <3> QED BY <3>1, OrderTypes, EmptySeq
  <2>3. k \in TopKeys(ob)
    BY <2>2, OrderTypes, ListsPop
  <2>4. ~e.h_recency
    OBVIOUS
  <2> HIDE DEF t, k, e
  <2>5. /\ TopKeys(t) = TopKeys(ob) \ {k}
        /\ \A x \in TopKeys(ob) \ {k} : t.real_map_[x] = ob.real_map_[x]
    BY <2>1, <2>3, <2>4 DEF TopKeys, Put
  <2>6. LastFirst(ob.top_lru_, ob.real_map_)
    BY DEF InOrder, OrderOK
  <2>7. LastFirst(t.top_lru_, t.real_map_)
    BY <2>1, <2>2, <2>5, <2>6, OrderTypes, OrderFront DEF k
  <2> QED BY <2>1, <2>5, <2>7 DEF InOrder, OrderOK, t
<1> QED BY <1>1, <1>2

LEMMA PushTopOrder ==
  ASSUME NEW ob, Core(ob), InOrder(ob), NEW k \in Keys, NEW l,
         k \notin DOMAIN ob.real_map_
  PROVE  OrderOK(PushTop(ob, k, l))
<1> DEFINE t == PushTop(ob, k, l)
           e == [insert_level |-> l, insert_ts |-> ob.cur_ts_, h_recency |-> TRUE]
<1>1. /\ t.real_map_ = Put(ob.real_map_, k, e)
      /\ t.top_lru_ = <<k>> \o ob.top_lru_
      /\ t.ghost_map_ = ob.ghost_map_ /\ t.ghost_lru_ = ob.ghost_lru_
  BY DEF PushTop, Core, StateOK
<1>2. t.real_map_[k].insert_ts = ob.cur_ts_
  BY <1>1 DEF Put
<1> HIDE DEF t, e
<1>3. \A x \in TopKeys(ob) :
        /\ t.real_map_[x] = ob.real_map_[x]
        /\ ob.real_map_[x].insert_ts \in Nat /\ ob.real_map_[x].insert_ts < ob.cur_ts_
  BY <1>1, OrderTypes DEF TopKeys, Put, InOrder
<1>4. LastFirst(ob.top_lru_, ob.real_map_)
  BY DEF InOrder, OrderOK
<1>5. LastFirst(t.top_lru_, t.real_map_)
  <2>1. /\ ob.top_lru_ \in Seq(Keys) /\ Lists(ob.top_lru_, TopKeys(ob))
        /\ ob.cur_ts_ \in Nat
    BY OrderTypes
  <2>2. LastFirst(<<k>> \o ob.top_lru_, t.real_map_)
    BY <1>2, <1>3, <1>4, <2>1, OrderPush
  <2> QED BY <1>1, <2>2
<1> QED BY <1>1, <1>5 DEF InOrder, OrderOK, t

\* Neither a rolling, nor a new half-life, nor a report touches the order.
LEMMA QuietOrder ==
  ASSUME NEW ob, StateOK(ob), OrderOK(ob)
  PROVE  /\ OrderOK(RollIfDue(ob)) /\ OrderOK(ReportAndClear(ob))
         /\ \A h : OrderOK(UpdateHalf(ob, h))
<1> DEFINE Quiet(t) == /\ t.real_map_ = ob.real_map_ /\ t.top_lru_ = ob.top_lru_
                       /\ t.ghost_map_ = ob.ghost_map_
                       /\ t.ghost_lru_ = ob.ghost_lru_
<1>1. Quiet(RollIfDue(ob))
  <2>1. Quiet(Rolling(ob))
    BY DEF StateOK, Rolling
  <2> QED BY <2>1 DEF RollIfDue
<1>2. Quiet(ReportAndClear(ob))
  BY DEF StateOK, ReportAndClear
<1>3. \A h : Quiet(UpdateHalf(ob, h))
  BY DEF StateOK, UpdateHalf
<1> QED BY <1>1, <1>2, <1>3 DEF OrderOK

LEMMA InsertOrder ==
  ASSUME NEW ob, Core(ob), InOrder(ob), NEW k \in Keys, NEW l \in Nat,
         k \notin DOMAIN ob.real_map_, k \notin DOMAIN ob.ghost_map_
  PROVE  OrderOK(Insert(ob, k, l))
<1> DEFINE a == DemoteTop(ob)
           p == Cap(HitPoints + l)
           b == PushTop(a, k, p)
<1>1. /\ Core(a) /\ a.top_lru_size_ < LruSize
      /\ DOMAIN a.real_map_ = DOMAIN ob.real_map_
      /\ a.ghost_map_ = ob.ghost_map_
  BY DemoteTopCore
<1>2. InOrder(a)
  BY DemoteTopOrder
<1>3. p \in Levels
  BY PointsAssumption DEF Cap, Levels
<1>4. Insert(ob, k, l) = RollIfDue(b)
  BY DEF Insert
<1> HIDE DEF a, p
<1>5. OrderOK(b)
  BY <1>1, <1>2, PushTopOrder
<1>6. StateOK(b)
  BY <1>1, <1>3, PushTopCore DEF Core
<1> HIDE DEF b
<1> QED BY <1>4, <1>5, <1>6, QuietOrder

\* The top of an object between two calls was written before now.
LEMMA ObjectInOrder ==
  ASSUME NEW ob, ObjectOK(ob), OrderOK(ob)
  PROVE  /\ Core(ob) /\ InOrder(ob)
         /\ \A x \in DOMAIN ob.ghost_map_ : ob.ghost_map_[x].insert_ts < ob.cur_ts_
BY ObjectCore DEF ObjectOK, ClockOK, WrittenBefore, InOrder, TopKeys

LEMMA LevelsAreScores ==
  ASSUME NEW ob, Core(ob), NEW k
  PROVE  /\ GhostLevel(ob, k) \in Nat
         /\ k \in DOMAIN ob.real_map_ => RealLevel(ob, k) \in Nat
<1>1. \A x \in Levels : x \in Nat
  BY PointsAssumption DEF Levels
<1>2. \A e \in Entry : GetCurrentLevel(ob, e) \in Levels /\ e.insert_level \in Levels
  BY CurrentLevelType DEF Core, StampsOK, StateOK, Entry
<1>3. /\ \A x \in DOMAIN ob.real_map_ : ob.real_map_[x] \in Entry
      /\ \A x \in DOMAIN ob.ghost_map_ : ob.ghost_map_[x] \in Entry
  BY DEF Core, StateOK, IsEntryMap
<1> QED BY <1>1, <1>2, <1>3 DEF GhostLevel, RealLevel

LEMMA AccessOrder ==
  ASSUME NEW ob, ObjectOK(ob), OrderOK(ob), ob.ub # "no_victim", NEW k \in Keys
  PROVE  OrderOK(Access(ob, k))
<1>1. /\ Core(ob) /\ InOrder(ob)
      /\ \A x \in DOMAIN ob.ghost_map_ : ob.ghost_map_[x].insert_ts < ob.cur_ts_
  BY ObjectInOrder
<1>2. CASE k \in DOMAIN ob.real_map_
  <2> DEFINE a == EraseReal(ob, k)
             l == RealLevel(ob, k)
  <2>1. Access(ob, k) = Insert(a, k, l)
    BY <1>2 DEF Access, AccessHit
  <2>2. l \in Nat
    BY <1>1, <1>2, LevelsAreScores
  <2>3. InOrder(a)
    BY <1>1, <1>2, EraseRealOrder
  <2>4. /\ Core(a) /\ DOMAIN a.real_map_ = DOMAIN ob.real_map_ \ {k}
        /\ k \notin DOMAIN a.ghost_map_
    <3>1. CASE ob.real_map_[k].h_recency
      BY <1>1, <1>2, <3>1, EraseTopCore DEF EraseReal, TopKeys
    <3>2. CASE ~ob.real_map_[k].h_recency
      BY <1>1, <1>2, <3>2, EraseLevelCore DEF EraseReal, LevelKeys
    <3> QED BY <3>1, <3>2
  <2> HIDE DEF a, l
  <2> QED BY <2>1, <2>2, <2>3, <2>4, InsertOrder
<1>3. CASE k \notin DOMAIN ob.real_map_
  <2> DEFINE res == EvictIfFull(ob)
             a == EraseGhost(res, k)
             l == GhostLevel(res, k)
  <2>1. InOrder(res)
    <3>1. InOrder(Evict(ob))
      BY <1>1, EvictOrder
    <3> QED BY <1>1, <3>1 DEF EvictIfFull
  <2>2. Access(ob, k) = IF res.ub = "no_victim" THEN res ELSE Insert(a, k, l)
    BY <1>3 DEF Access, AccessMiss
  <2>3. CASE res.ub = "no_victim"
    BY <2>1, <2>2, <2>3 DEF InOrder
  <2>4. CASE res.ub # "no_victim"
    <3>1. Core(res) /\ DOMAIN res.real_map_ \subseteq DOMAIN ob.real_map_
      BY <2>4, EvictIfFullOK
    <3> HIDE DEF res
    <3>2. Core(a) /\ a.real_map_ = res.real_map_ /\ k \notin DOMAIN a.ghost_map_
      BY <3>1, EraseGhostCore
    <3>3. InOrder(a) /\ l \in Nat
      BY <2>1, <3>1, EraseGhostOrder, LevelsAreScores
    <3> HIDE DEF a, l
    <3>4. k \notin DOMAIN a.real_map_
      BY <1>3, <3>1, <3>2
    <3> QED BY <2>2, <2>4, <3>2, <3>3, <3>4, InsertOrder
  <2> QED BY <2>3, <2>4
<1> QED BY <1>2, <1>3

\* The top and the ghost are in the order of their time stamps, for any trace and
\* any half-lives: the key demoted is the least recent, the key forgotten the
\* oldest eviction (hill_replacer.h:100, 157).
LEMMA RecencyOrderedHolds == SubSpec => []RecencyOrdered
<1>1. SubInit => RecencyOrdered
  <2> SUFFICES ASSUME SubInit PROVE RecencyOrdered
    OBVIOUS
  <2>1. sub.top_lru_ = <<>> /\ sub.ghost_lru_ = <<>>
    BY DEF SubInit, New, UpdateHalf
  <2> QED BY <2>1 DEF RecencyOrdered, OrderOK, LastFirst
<1>2. IInv /\ RecencyOrdered /\ [SubNext]_sub => RecencyOrdered'
  <2> SUFFICES ASSUME IInv, RecencyOrdered, [SubNext]_sub PROVE RecencyOrdered'
    OBVIOUS
  <2>1. ObjectOK(sub) /\ OrderOK(sub) /\ StateOK(sub)
    BY DEF IInv, RecencyOrdered, ObjectOK
  <2>2. CASE AccessKey
    BY <2>1, <2>2, AccessOrder DEF AccessKey, RecencyOrdered
  <2>3. CASE SetHalf
    BY <2>1, <2>3, QuietOrder DEF SetHalf, RecencyOrdered
  <2>4. CASE Report
    BY <2>1, <2>4, QuietOrder DEF Report, RecencyOrdered
  <2>5. CASE UNCHANGED sub
    BY <2>1, <2>5 DEF RecencyOrdered
  <2> QED BY <2>2, <2>3, <2>4, <2>5 DEF SubNext
<1> QED BY <1>1, <1>2, Invariance, PTL DEF SubSpec

\* The stamps of the rollings, of the top and of the ghost are ordered, for any
\* trace and any half-lives.
THEOREM StampsHold == SubSpec => []StampsOrdered
<1>1. IInv /\ RecencyOrdered => StampsOrdered
  BY DEF IInv, ObjectOK, StampsOrdered
<1> QED BY <1>1, Invariance, RecencyOrderedHolds, PTL

-----------------------------------------------------------------------------
(* The refinement *)

\* The operators of the abstract module on its containers are those of this one.
LEMMA SubSameOperators ==
  /\ \A S : SubAbs!Cardinality(S) = Cardinality(S)
  /\ \A q : SubAbs!ToSet(q) = ToSet(q) /\ SubAbs!Front(q) = Front(q)
  /\ \A q, k : SubAbs!Erase(q, k) = Erase(q, k)
  /\ \A f, k, p : SubAbs!Put(f, k, p) = Put(f, k, p)
  /\ \A f, k : SubAbs!Drop(f, k) = Drop(f, k)
  /\ SubAbs!NoEntries = NoEntries
<1>1. \A S : SubAbs!Cardinality(S) = Cardinality(S)
  BY DEF SubAbs!Cardinality, Cardinality
<1>2. \A q : SubAbs!ToSet(q) = ToSet(q) /\ SubAbs!Front(q) = Front(q)
  BY DEF SubAbs!ToSet, ToSet, SubAbs!Front, Front
<1>3. \A q, k : SubAbs!Erase(q, k) = Erase(q, k)
  BY DEF SubAbs!Erase, Erase, SubAbs!RemoveAt, RemoveAt
<1>4. /\ \A f, k, p : SubAbs!Put(f, k, p) = Put(f, k, p)
      /\ \A f, k : SubAbs!Drop(f, k) = Drop(f, k)
      /\ SubAbs!NoEntries = NoEntries
  BY DEF SubAbs!Put, Put, SubAbs!Drop, Drop, SubAbs!NoEntries, NoEntries
<1> QED BY <1>1, <1>2, <1>3, <1>4

\* The state of the abstract module is the top, the scores and the ghost.
LEMMA SubScoresAre ==
  /\ [k \in DOMAIN sub.real_map_ |-> RealLevel(sub, k)] = Score(sub)
  /\ [k \in DOMAIN sub.ghost_map_ |-> GhostLevel(sub, k)] = Ghost(sub)
BY DEF Score, Ghost

\* A step in scores is a step of the abstract module.
LEMMA SubStepIsAbstract ==
  ASSUME NEW k \in Keys,
         \/ HitStep(sub, sub', k)
         \/ RoomStep(sub, sub', k)
         \/ VictimStep(sub, sub', k)
         \/ SameScores(sub, sub')
  PROVE  [SubAbs!Next]_(SubAbs!vars)
<1> DEFINE f == Score(sub)
           g == Ghost(sub)
           ff == Score(sub')
           gg == Ghost(sub')
<1>1. /\ [x \in DOMAIN sub.real_map_ |-> RealLevel(sub, x)] = f
      /\ [x \in DOMAIN sub.ghost_map_ |-> GhostLevel(sub, x)] = g
      /\ [x \in DOMAIN sub'.real_map_ |-> RealLevel(sub', x)] = ff
      /\ [x \in DOMAIN sub'.ghost_map_ |-> GhostLevel(sub', x)] = gg
  BY DEF Score, Ghost
<1>2. ASSUME sub'.top_lru_ = NewTop(sub.top_lru_, k)
      PROVE  SubAbs!NextTop(k)
  BY <1>2, SubSameOperators DEF SubAbs!NextTop, NewTop, Shortened
<1>3. ASSUME NEW u, NEW w, Settled(sub', u, w)
      PROVE  SubAbs!RollOrNot(u, w)
  BY <1>1, <1>3, SubSameOperators DEF SubAbs!RollOrNot, Settled, HalfBelow
<1>4. \A u : SubAbs!Raised(u, k) = RaisedScore(u, k)
  BY DEF SubAbs!Raised, RaisedScore, Cap
<1> HIDE DEF f, g, ff, gg
<1>5. ASSUME NEW u, NEW w, Admits(sub, sub', k, u, w)
      PROVE  SubAbs!Admit(k, u, w)
  BY <1>2, <1>3, <1>4, <1>5, SubSameOperators DEF SubAbs!Admit, Admits
<1>6. CASE HitStep(sub, sub', k)
  <2>1. SubAbs!Hit(k)
    BY <1>1, <1>2, <1>3, <1>4, <1>6, SubSameOperators DEF SubAbs!Hit, HitStep, f, g
  <2> QED BY <2>1 DEF SubAbs!Next
<1>7. CASE RoomStep(sub, sub', k)
  <2>1. SubAbs!MissWithRoom(k)
    BY <1>1, <1>5, <1>7, SubSameOperators DEF SubAbs!MissWithRoom, RoomStep, f, g
  <2> QED BY <2>1 DEF SubAbs!Next
<1>8. CASE VictimStep(sub, sub', k)
  <2>1. SubAbs!Below = DOMAIN f \ ToSet(sub.top_lru_)
    BY <1>1, SubSameOperators DEF SubAbs!Below
  <2>2. ASSUME NEW v PROVE SubAbs!Remember(v) = Remembers(g, v, f[v])
    <3> DEFINE Abstract == IF SubAbs!Cardinality(DOMAIN g) < GhostSize THEN {g}
                           ELSE { SubAbs!Drop(g, x) : x \in DOMAIN g }
               Kept == IF Cardinality(DOMAIN g) < GhostSize THEN {g}
                       ELSE { Drop(g, x) : x \in DOMAIN g }
               p == f[v]
    <3>1. SubAbs!Remember(v) = IF GhostSize = 0 \/ p = 0 THEN {g}
                            ELSE { SubAbs!Put(h, v, p) : h \in Abstract }
      BY DEF SubAbs!Remember, f, g, Score, Ghost
    <3>2. Abstract = Kept
      BY SubSameOperators
    <3>3. Remembers(g, v, p) = IF GhostSize = 0 \/ p = 0 THEN {g}
                               ELSE { Put(h, v, p) : h \in Kept }
      BY DEF Remembers
    <3> HIDE DEF Abstract, Kept, p
    <3>4. { SubAbs!Put(h, v, p) : h \in Kept } = { Put(h, v, p) : h \in Kept }
      BY SubSameOperators
    <3> QED BY <3>1, <3>2, <3>3, <3>4 DEF p
  <2>3. SubAbs!MissWithVictim(k)
    BY <1>1, <1>5, <1>8, <2>1, <2>2, SubSameOperators
       DEF SubAbs!MissWithVictim, VictimStep, f, g
  <2> QED BY <2>3 DEF SubAbs!Next
<1>9. CASE SameScores(sub, sub')
  BY <1>1, <1>9 DEF SubAbs!vars, SameScores, f, g, ff, gg
<1> QED BY <1>6, <1>7, <1>8, <1>9

\* One policy of Hill-Cache implements the policy with scores halved at once, for
\* every trace, size, ghost, number of levels, order of splicing and half-lives:
\* the lists per level, the stamps and the levels computed from them are a
\* representation of those scores (hill_replacer.h:215).
THEOREM ImplementsHolds == SubSpec => SubImplements
<1>1. SubInit => SubAbs!Init
  BY SubScoresAre, NewScore, SubSameOperators DEF SubInit, SubAbs!Init
<1>2. IInv /\ [SubNext]_sub => [SubAbs!Next]_(SubAbs!vars)
  <2> SUFFICES ASSUME IInv, [SubNext]_sub PROVE [SubAbs!Next]_(SubAbs!vars)
    OBVIOUS
  <2>1. ObjectOK(sub) /\ StateOK(sub)
    BY DEF IInv, ObjectOK
  <2>2. CASE AccessKey
    <3>1. PICK k \in Keys : sub' = Access(sub, k) /\ sub.ub # "no_victim"
      BY <2>2 DEF AccessKey
    <3>2. \/ HitStep(sub, sub', k)
          \/ RoomStep(sub, sub', k)
          \/ VictimStep(sub, sub', k)
          \/ SameScores(sub, sub')
      BY <2>1, <3>1, AccessScore
    <3> QED BY <3>2, SubStepIsAbstract
  <2>3. SetHalf \/ Report \/ UNCHANGED sub => SameScores(sub, sub')
    BY <2>1, QuietScore DEF SetHalf, Report, SameScores
  <2>4. CASE SetHalf \/ Report \/ UNCHANGED sub
    <3>1. SameScores(sub, sub')
      BY <2>3, <2>4
    <3> QED BY <3>1, SubScoresAre DEF SubAbs!vars, SameScores, Score, Ghost
  <2> QED BY <2>2, <2>4 DEF SubNext
<1> QED BY <1>1, <1>2, Invariance, PTL DEF SubSpec, SubImplements, SubAbs!Spec

-----------------------------------------------------------------------------
(* Each buffer takes its access, then at most a report and a half-life *)

\* A report or none: a due interval clears the counts.
Reported(x, clear) == IF clear THEN ReportAndClear(x) ELSE x

\* What the adaptation leaves of a buffer that took its access: x after a
\* report, if one was due, with its half-life or a new one.
LEMMA SettleOK ==
  ASSUME NEW x, ObjectOK(x), NEW clear \in BOOLEAN, NEW h \in Nat, NEW y,
         y = Reported(x, clear) \/ y = UpdateHalf(Reported(x, clear), h)
  PROVE  /\ ObjectOK(y) /\ y.ub = x.ub
         /\ y.interval_hit_count_ = IF clear THEN 0 ELSE x.interval_hit_count_
         /\ y.interval_miss_count_ =
              IF clear THEN 0 ELSE x.interval_miss_count_
         /\ y.cur_ts_ = x.cur_ts_
         /\ y.top_lru_ = x.top_lru_
         /\ y.real_map_ = x.real_map_
<1> DEFINE z == Reported(x, clear)
<1>1. StateOK(x)
  BY DEF ObjectOK
<1>2. /\ ObjectOK(z) /\ z.ub = x.ub
      /\ z.interval_hit_count_ = IF clear THEN 0 ELSE x.interval_hit_count_
      /\ z.interval_miss_count_ = IF clear THEN 0 ELSE x.interval_miss_count_
      /\ z.cur_ts_ = x.cur_ts_
      /\ z.top_lru_ = x.top_lru_
      /\ z.real_map_ = x.real_map_
  <2>1. CASE clear
    BY <1>1, <2>1, ReportOK, ReportFrame DEF Reported
  <2>2. CASE ~clear
    BY <2>2 DEF Reported
  <2> QED BY <2>1, <2>2
<1> HIDE DEF z
<1>3. CASE y = z
  BY <1>2, <1>3
<1>4. CASE y = UpdateHalf(z, h)
  <2>1. StateOK(z)
    BY <1>2 DEF ObjectOK
  <2>2. ObjectOK(y) /\ y.ub = z.ub
    BY <1>2, <1>4, UpdateHalfOK
  <2>3. /\ y.interval_hit_count_ = z.interval_hit_count_
        /\ y.interval_miss_count_ = z.interval_miss_count_
        /\ y.cur_ts_ = z.cur_ts_
        /\ y.top_lru_ = z.top_lru_
        /\ y.real_map_ = z.real_map_
    BY <1>4, <2>1, UpdateHalfFrame
  <2> QED BY <1>2, <2>2, <2>3
<1> QED BY <1>3, <1>4 DEF z

LEMMA LongerType ==
  ASSUME NEW h \in Nat, NEW b \in Nat \ {0}, NEW a \in Nat, a >= b
  PROVE  Longer(h, a, b) \in Nat
<1>1. BoundNum * Lambda \in Nat /\ (a - b) * Lambda \in Nat
  BY AdaptAssumption
<1>2. /\ h * (BoundDen + BoundNum * Lambda) \in Nat
      /\ h * (b + (a - b) * Lambda) \in Nat
  BY <1>1, AdaptAssumption
<1>3. /\ (h * (BoundDen + BoundNum * Lambda)) \div BoundDen \in Nat
      /\ (h * (b + (a - b) * Lambda)) \div b \in Nat
  BY <1>2, DivType, AdaptAssumption
<1> QED BY <1>3, Zenon DEF Longer

LEMMA ShorterType ==
  ASSUME NEW h \in Nat, NEW b \in Nat \ {0}, NEW a \in Nat, a >= b
  PROVE  Shorter(h, a, b) \in Nat
<1>1. BoundNum * Lambda \in Nat /\ (a - b) * Lambda \in Nat
  BY AdaptAssumption
<1>2. /\ BoundDen + BoundNum * Lambda \in Nat \ {0}
      /\ b + (a - b) * Lambda \in Nat \ {0}
      /\ h * BoundDen \in Nat /\ h * b \in Nat
  BY <1>1, AdaptAssumption
<1> HIDE DEF Capped
<1> QED BY <1>2 DEF Shorter

LEMMA SimulatedType ==
  ASSUME NEW h \in Nat
  PROVE  Simulated(h) \in Nat
<1>1. h * SimNum \in Nat
  BY AdaptAssumption
<1> QED BY <1>1, AdaptAssumption DEF Simulated

\* Whatever the outcome of the comparison, r and s took the access, their
\* counts were cleared if the interval ended, and nothing else happened to
\* them but new half-lives.
LEMMA OutcomeOK ==
  ASSUME NEW k \in Keys, NEW rk, NEW sk, ObjectOK(rk), ObjectOK(sk),
         \/ Continue(rk, sk)
         \/ NoEvidence(rk, sk)
         \/ Shorten(rk, sk)
         \/ Lengthen(rk, sk)
         \/ StillStable(rk, sk)
         \/ Nudge(rk, sk)
  PROVE  /\ \E h \in Nat : \/ r' = Reported(rk, Due)
                           \/ r' = UpdateHalf(Reported(rk, Due), h)
         /\ s' = UpdateHalf(Reported(sk, Due), Simulated(r'.cur_half_))
<1> DEFINE R(y) == \E h \in Nat : \/ y = Reported(rk, Due)
                                  \/ y = UpdateHalf(Reported(rk, Due), h)
<1>1. Due \in BOOLEAN
  BY DEF Due
<1>2. Due => Reported(rk, Due) = ReportAndClear(rk)
             /\ Reported(sk, Due) = ReportAndClear(sk)
  BY DEF Reported
<1>3. ~Due => Reported(rk, Due) = rk /\ Reported(sk, Due) = sk
  BY DEF Reported
<1>4. /\ rk.cur_half_ \in Nat
      /\ rk.interval_hit_count_ \in Nat /\ sk.interval_hit_count_ \in Nat
  BY DEF ObjectOK, StateOK
<1>5. CASE Continue(rk, sk)
  BY <1>3, <1>5 DEF Continue, Follow
<1>6. CASE NoEvidence(rk, sk)
  BY <1>2, <1>6 DEF NoEvidence, Follow
<1>7. CASE Shorten(rk, sk)
  <2>1. Shorter(rk.cur_half_, sk.interval_hit_count_, rk.interval_hit_count_)
          \in Nat
    BY <1>4, <1>7, ShorterType DEF Shorten, Compare
  <2> QED BY <1>2, <1>7, <2>1 DEF Shorten, Compare, Follow
<1>8. CASE Lengthen(rk, sk)
  <2>1. Longer(rk.cur_half_, rk.interval_hit_count_, sk.interval_hit_count_)
          \in Nat
    BY <1>4, <1>8, LongerType DEF Lengthen, Compare
  <2> QED BY <1>2, <1>8, <2>1 DEF Lengthen, Compare, Follow
<1>9. CASE StillStable(rk, sk)
  BY <1>2, <1>9 DEF StillStable, Equal, Compare, Follow
<1>10. CASE Nudge(rk, sk)
  <2> DEFINE a == IF 10 * BoundNum > BoundDen THEN 11 ELSE BoundDen + BoundNum
             b == IF 10 * BoundNum > BoundDen THEN 10 ELSE BoundDen
             h == IF rk.cur_half_ < InitHalf THEN Longer(rk.cur_half_, a, b)
                  ELSE Shorter(rk.cur_half_, a, b)
  <2>1. a \in Nat /\ b \in Nat \ {0} /\ a >= b
    BY AdaptAssumption
  <2>2. r' = UpdateHalf(ReportAndClear(rk), h)
    BY <1>10 DEF Nudge
  <2> HIDE DEF a, b
  <2>3. h \in Nat
    BY <1>4, <2>1, LongerType, ShorterType
  <2> HIDE DEF h
  <2>4. Due /\ Follow(ReportAndClear(sk))
    BY <1>10 DEF Nudge, Equal, Compare
  <2> QED BY <1>2, <2>2, <2>3, <2>4 DEF Follow
<1> QED BY <1>5, <1>6, <1>7, <1>8, <1>9, <1>10

-----------------------------------------------------------------------------
(* The invariant *)

LEMMA AccessOK ==
  ASSUME NEW x, ObjectOK(x), x.ub # "no_victim", NEW k \in Keys
  PROVE  /\ ObjectOK(Access(x, k))
         /\ (Size - LruSize >= 2 /\ EvictionsOK(x)) => EvictionsOK(Access(x, k))
<1>1. CASE k \in DOMAIN x.real_map_
  <2>1. Access(x, k) = AccessHit(x, k)
    BY <1>1 DEF Access
  <2>2. ObjectOK(AccessHit(x, k)) /\ AccessHit(x, k).ub \in {x.ub, "hit_scan"}
    BY <1>1, AccessHitOK
  <2> QED BY <2>1, <2>2 DEF EvictionsOK
<1>2. CASE k \notin DOMAIN x.real_map_
  <2>1. Access(x, k) = AccessMiss(x, k)
    BY <1>2 DEF Access
  <2> QED BY <1>2, <2>1, AccessMissOK
<1> QED BY <1>1, <1>2

\* With two pages under the top, every access finds a victim.
LEMMA AccessMade ==
  ASSUME NEW x, ObjectOK(x), EvictionsOK(x), Size - LruSize >= 2
  PROVE  x.ub # "no_victim" /\ EvictIfFull(x).ub # "no_victim"
<1>1. x.ub # "no_victim"
  BY DEF EvictionsOK
<1>2. EvictionsOK(EvictIfFull(x))
  BY <1>1, EvictIfFullOK
<1> QED BY <1>1, <1>2 DEF EvictionsOK

\* So every access succeeds.
LEMMA AccessFrame ==
  ASSUME NEW x, ObjectOK(x), EvictionsOK(x), NEW k \in Keys,
         Size - LruSize >= 2
  PROVE  LET t == Access(x, k)
             n == Cardinality(DOMAIN x.real_map_)
         IN /\ t.interval_hit_count_ + t.interval_miss_count_
                 = x.interval_hit_count_ + x.interval_miss_count_ + 1
            /\ t.cur_ts_ = x.cur_ts_ + 1
            /\ t.top_lru_ = NewTop(x.top_lru_, k)
            /\ k \in DOMAIN x.real_map_ =>
                 DOMAIN t.real_map_ = DOMAIN x.real_map_
            /\ k \notin DOMAIN x.real_map_ =>
                 /\ n < Size => DOMAIN t.real_map_ = DOMAIN x.real_map_ \cup {k}
                 /\ n = Size => Cardinality(DOMAIN t.real_map_) = Size
<1>1. /\ x.interval_hit_count_ \in Nat /\ x.interval_miss_count_ \in Nat
  BY DEF ObjectOK, StateOK
<1>2. CASE k \in DOMAIN x.real_map_
  <2> DEFINE t == AccessHit(x, k)
  <2>1. /\ t.interval_hit_count_ = x.interval_hit_count_ + 1
        /\ t.interval_miss_count_ = x.interval_miss_count_
        /\ t.cur_ts_ = x.cur_ts_ + 1
        /\ t.top_lru_ = NewTop(x.top_lru_, k)
        /\ DOMAIN t.real_map_ = DOMAIN x.real_map_
    BY <1>2, AccessHitFrame
  <2>2. Access(x, k) = t
    BY <1>2 DEF Access
  <2> HIDE DEF t
  <2> QED BY <1>1, <1>2, <2>1, <2>2
<1>3. CASE k \notin DOMAIN x.real_map_
  <2> DEFINE t == AccessMiss(x, k)
             n == Cardinality(DOMAIN x.real_map_)
  <2>1. x.ub # "no_victim" /\ EvictIfFull(x).ub # "no_victim"
    BY AccessMade
  <2>2. /\ t.interval_hit_count_ = x.interval_hit_count_
        /\ t.interval_miss_count_ = x.interval_miss_count_ + 1
        /\ t.cur_ts_ = x.cur_ts_ + 1
        /\ t.top_lru_ = NewTop(x.top_lru_, k)
        /\ n < Size => DOMAIN t.real_map_ = DOMAIN x.real_map_ \cup {k}
        /\ n = Size => Cardinality(DOMAIN t.real_map_) = Size
    BY <1>3, <2>1, AccessMissFrame
  <2>3. Access(x, k) = t
    BY <1>3 DEF Access
  <2> HIDE DEF t, n
  <2> QED BY <1>1, <1>3, <2>2, <2>3 DEF n
<1> QED BY <1>2, <1>3

\* While the buffers are not full neither has lost a key, so that they hold the
\* same ones; a full buffer stays full.
SameUntilFull ==
  Cardinality(DOMAIN r.real_map_) < Size =>
    DOMAIN r.real_map_ = DOMAIN s.real_map_

RInv ==
  /\ ts \in Nat
  /\ BothSound
  /\ Size - LruSize >= 2 =>
       /\ EvictionsOK(r) /\ EvictionsOK(s)
       /\ SameSample /\ Lockstep /\ SameUntilFull

LEMMA RInit == Init => RInv
<1> SUFFICES ASSUME Init PROVE RInv
  OBVIOUS
<1>1. InitHalf \in Nat /\ Simulated(InitHalf) \in Nat
  BY ClockAssumption, SimulatedType
<1>2. /\ BothSound /\ EvictionsOK(r) /\ EvictionsOK(s)
  BY <1>1, NewOK DEF Init, BothSound, EvictionsOK
<1>3. ASSUME NEW h
      PROVE  LET x == New(h)
             IN /\ x.interval_hit_count_ = 0 /\ x.interval_miss_count_ = 0
                /\ x.cur_ts_ = 0 /\ x.top_lru_ = <<>>
                /\ x.real_map_ = NoEntries
  BY DEF New, UpdateHalf
<1>4. 0 % UpdateInterval = 0
  BY AdaptAssumption
<1>5. SameSample
  BY <1>3, <1>4 DEF Init, SameSample
<1>6. Lockstep /\ SameUntilFull
  BY <1>3 DEF Init, Lockstep, SameUntilFull
<1> QED BY <1>2, <1>5, <1>6 DEF Init, RInv

LEMMA RNext == RInv /\ [Next]_vars => RInv'
<1> SUFFICES ASSUME RInv, [Next]_vars PROVE RInv'
  OBVIOUS
<1>1. CASE UNCHANGED vars
  BY <1>1 DEF vars, RInv, BothSound, SameSample, Lockstep, SameUntilFull
<1>2. CASE Next
  <2>1. PICK k \in Keys : access(k)
    BY <1>2 DEF Next
  <2> DEFINE rk == Access(r, k)
             sk == Access(s, k)
  <2>2. /\ ObjectOK(r) /\ ObjectOK(s) /\ ts \in Nat /\ ts' = ts + 1
        /\ r.ub # "no_victim" /\ s.ub # "no_victim"
    BY <2>1 DEF access, Account, RInv, BothSound
  <2>3. ObjectOK(rk) /\ ObjectOK(sk)
    BY <2>2, AccessOK
  <2>4. \/ Continue(rk, sk)
        \/ NoEvidence(rk, sk)
        \/ Shorten(rk, sk)
        \/ Lengthen(rk, sk)
        \/ StillStable(rk, sk)
        \/ Nudge(rk, sk)
    BY <2>1 DEF access
  <2>5. Due \in BOOLEAN
    BY DEF Due
  <2> HIDE DEF rk, sk
  <2>6. /\ \E h \in Nat : \/ r' = Reported(rk, Due)
                          \/ r' = UpdateHalf(Reported(rk, Due), h)
        /\ s' = UpdateHalf(Reported(sk, Due), Simulated(r'.cur_half_))
    BY <2>3, <2>4, OutcomeOK
  <2>7. /\ ObjectOK(r') /\ r'.ub = rk.ub
        /\ r'.interval_hit_count_ = IF Due THEN 0 ELSE rk.interval_hit_count_
        /\ r'.interval_miss_count_ =
             IF Due THEN 0 ELSE rk.interval_miss_count_
        /\ r'.cur_ts_ = rk.cur_ts_
        /\ r'.top_lru_ = rk.top_lru_
        /\ r'.real_map_ = rk.real_map_
    BY <2>3, <2>5, <2>6, SettleOK
  <2>8. Simulated(r'.cur_half_) \in Nat
    BY <2>7, SimulatedType DEF ObjectOK, StateOK
  <2>9. /\ ObjectOK(s') /\ s'.ub = sk.ub
        /\ s'.interval_hit_count_ = IF Due THEN 0 ELSE sk.interval_hit_count_
        /\ s'.interval_miss_count_ =
             IF Due THEN 0 ELSE sk.interval_miss_count_
        /\ s'.cur_ts_ = sk.cur_ts_
        /\ s'.top_lru_ = sk.top_lru_
        /\ s'.real_map_ = sk.real_map_
    BY <2>3, <2>5, <2>6, <2>8, SettleOK
  <2>10. BothSound'
    BY <2>7, <2>9 DEF BothSound
  <2>11. ASSUME Size - LruSize >= 2
         PROVE  /\ EvictionsOK(r') /\ EvictionsOK(s')
                /\ SameSample' /\ Lockstep' /\ SameUntilFull'
    <3> DEFINE n(x) == Cardinality(DOMAIN x.real_map_)
    <3>1. /\ EvictionsOK(r) /\ EvictionsOK(s)
          /\ SameSample /\ Lockstep /\ SameUntilFull
      BY <2>11 DEF RInv
    <3>2. EvictionsOK(rk) /\ EvictionsOK(sk)
      BY <2>2, <2>11, <3>1, AccessOK DEF rk, sk
    <3>3. /\ rk.interval_hit_count_ + rk.interval_miss_count_
               = r.interval_hit_count_ + r.interval_miss_count_ + 1
          /\ rk.cur_ts_ = r.cur_ts_ + 1
          /\ rk.top_lru_ = NewTop(r.top_lru_, k)
          /\ k \in DOMAIN r.real_map_ =>
               DOMAIN rk.real_map_ = DOMAIN r.real_map_
          /\ k \notin DOMAIN r.real_map_ =>
               /\ n(r) < Size =>
                    DOMAIN rk.real_map_ = DOMAIN r.real_map_ \cup {k}
               /\ n(r) = Size => n(rk) = Size
      BY <2>2, <2>11, <3>1, AccessFrame DEF rk
    <3>4. /\ sk.interval_hit_count_ + sk.interval_miss_count_
               = s.interval_hit_count_ + s.interval_miss_count_ + 1
          /\ sk.cur_ts_ = s.cur_ts_ + 1
          /\ sk.top_lru_ = NewTop(s.top_lru_, k)
          /\ k \in DOMAIN s.real_map_ =>
               DOMAIN sk.real_map_ = DOMAIN s.real_map_
          /\ k \notin DOMAIN s.real_map_ =>
               /\ n(s) < Size =>
                    DOMAIN sk.real_map_ = DOMAIN s.real_map_ \cup {k}
               /\ n(s) = Size => n(sk) = Size
      BY <2>2, <2>11, <3>1, AccessFrame DEF sk
    <3>5. /\ n(r) = n(s) /\ n(r) \in Nat /\ n(r) <= Size /\ Size \in Nat
          /\ n(r) < Size => DOMAIN r.real_map_ = DOMAIN s.real_map_
      <4>1. DOMAIN r.real_map_ \subseteq Keys /\ n(r) <= Size
        BY <2>2 DEF ObjectOK, StateOK, IsEntryMap, SizesOK
      <4>2. n(r) \in Nat
        BY <4>1, KeysAssumption, FS_Subset, FS_CardinalityType
      <4> QED BY <3>1, <4>1, <4>2, SizeAssumption DEF Lockstep, SameUntilFull
    <3> HIDE DEF n
    <3>6. /\ n(rk) = n(sk)
          /\ n(rk) < Size => DOMAIN rk.real_map_ = DOMAIN sk.real_map_
      <4>1. CASE n(r) < Size
        <5>1. DOMAIN rk.real_map_ = DOMAIN sk.real_map_
          BY <4>1, <3>3, <3>4, <3>5
        <5> QED BY <5>1 DEF n
      <4>2. CASE n(r) = Size
        <5>1. n(rk) = Size
          BY <4>2, <3>3 DEF n
        <5>2. n(sk) = Size
          BY <4>2, <3>4, <3>5 DEF n
        <5> QED BY <5>1, <5>2, <3>5
      <4> QED BY <4>1, <4>2, <3>5
    <3>7. SameUntilFull'
      BY <2>7, <2>9, <3>6 DEF SameUntilFull, n
    <3>8. Lockstep'
      BY <2>2, <2>7, <2>9, <3>1, <3>3, <3>4, <3>6 DEF Lockstep, n
    <3>9. SameSample'
      <4>1. CASE Due
        <5>1. ts' % UpdateInterval = 0
          BY <4>1, <2>2 DEF Due
        <5> QED BY <4>1, <5>1, <2>7, <2>9 DEF SameSample
      <4>2. CASE ~Due
        <5>1. ts' % UpdateInterval = (ts % UpdateInterval) + 1
          BY <4>2, <2>2, NextPlace, AdaptAssumption DEF Due
        <5>2. /\ r'.interval_hit_count_ + r'.interval_miss_count_
                   = (ts % UpdateInterval) + 1
              /\ s'.interval_hit_count_ + s'.interval_miss_count_
                   = (ts % UpdateInterval) + 1
          BY <4>2, <2>7, <2>9, <3>1, <3>3, <3>4 DEF SameSample
        <5> QED BY <5>1, <5>2 DEF SameSample
      <4> QED BY <4>1, <4>2
    <3>10. EvictionsOK(r') /\ EvictionsOK(s')
      BY <2>7, <2>9, <3>2 DEF EvictionsOK
    <3> QED BY <3>7, <3>8, <3>9, <3>10
  <2> QED BY <2>2, <2>10, <2>11 DEF RInv
<1> QED BY <1>1, <1>2

LEMMA RInvariance == Spec => []RInv
<1> QED BY RInit, RNext, PTL DEF Spec

\* Both buffers stay sound, whatever half-lives the adaptation gives them and
\* whenever (hill_replacer.h:193).
THEOREM BothSoundHolds == Spec => []BothSound
<1>1. RInv => BothSound
  BY DEF RInv
<1> QED BY <1>1, RInvariance, PTL

\* With two pages or more under the top, the rates compared at the end of an
\* interval are rates of the same accesses (hill_replacer.cpp:28).
THEOREM SameSampleHolds ==
  ASSUME Size - LruSize >= 2
  PROVE  Spec => []SameSample
<1>1. RInv => SameSample
  BY DEF RInv
<1> QED BY <1>1, RInvariance, PTL

\* And the simulated buffer has the time, the top and the number of keys of the
\* real one after every access, although they evict different keys.
THEOREM LockstepHolds ==
  ASSUME Size - LruSize >= 2
  PROVE  Spec => []Lockstep
<1>1. RInv => Lockstep
  BY DEF RInv
<1> QED BY <1>1, RInvariance, PTL

-----------------------------------------------------------------------------
(* The statistics *)

\* The places of a log that are TRUE
HitsOf(log) == { i \in DOMAIN log : log[i] }

LEMMA HitsFinite ==
  ASSUME NEW log \in Seq(BOOLEAN)
  PROVE  IsFiniteSet(HitsOf(log)) /\ Cardinality(HitsOf(log)) \in Nat
<1>1. Len(log) \in Nat /\ DOMAIN log = 1 .. Len(log)
  OBVIOUS
<1>2. IsFiniteSet(1 .. Len(log)) /\ HitsOf(log) \subseteq 1 .. Len(log)
  BY <1>1, FS_Interval DEF HitsOf
<1> QED BY <1>2, FS_Subset, FS_CardinalityType

LEMMA HitsAppend ==
  ASSUME NEW log \in Seq(BOOLEAN), NEW hit \in BOOLEAN
  PROVE  Cardinality(HitsOf(Append(log, hit)))
           = Cardinality(HitsOf(log)) + (IF hit THEN 1 ELSE 0)
<1> DEFINE q == Append(log, hit)
           n == Len(log) + 1
<1>1. /\ q \in Seq(BOOLEAN) /\ Len(log) \in Nat
      /\ DOMAIN log = 1 .. Len(log) /\ DOMAIN q = 1 .. n
      /\ q[n] = hit /\ \A i \in 1 .. Len(log) : q[i] = log[i]
  OBVIOUS
<1> HIDE DEF q
<1>2. IsFiniteSet(HitsOf(log)) /\ Cardinality(HitsOf(log)) \in Nat
  BY HitsFinite
<1>3. n \notin HitsOf(log)
  BY <1>1 DEF HitsOf
<1>4. CASE hit
  <2>1. HitsOf(q) = HitsOf(log) \cup {n}
    <3>1. /\ DOMAIN q = DOMAIN log \cup {n} /\ n \notin DOMAIN log
          /\ \A i \in DOMAIN log : q[i] = log[i]
      BY <1>1
    <3>2. q[n] = TRUE
      BY <1>1, <1>4
    <3> HIDE DEF n
    <3> QED BY <3>1, <3>2, Zenon DEF HitsOf
  <2> QED BY <1>2, <1>3, <1>4, <2>1, FS_AddElement DEF q
<1>5. CASE ~hit
  <2>1. HitsOf(q) = HitsOf(log)
    BY <1>1, <1>5 DEF HitsOf
  <2> QED BY <1>2, <1>5, <2>1 DEF q
<1> QED BY <1>4, <1>5

LEMMA HitsTail ==
  ASSUME NEW log \in Seq(BOOLEAN), log # <<>>
  PROVE  Cardinality(HitsOf(Tail(log)))
           = Cardinality(HitsOf(log)) - (IF Head(log) THEN 1 ELSE 0)
<1> DEFINE q == Tail(log)
           n == Len(log)
           late == HitsOf(log) \ {1}
<1>1. /\ q \in Seq(BOOLEAN) /\ n \in Nat \ {0} /\ Len(q) = n - 1
      /\ DOMAIN log = 1 .. n /\ DOMAIN q = 1 .. n - 1
      /\ Head(log) = log[1] /\ \A i \in 1 .. n - 1 : q[i] = log[i + 1]
  OBVIOUS
<1> HIDE DEF q, n
<1>2. IsFiniteSet(HitsOf(log)) /\ Cardinality(HitsOf(log)) \in Nat
  BY HitsFinite
<1>3. Cardinality(late) = Cardinality(HitsOf(log)) - (IF Head(log) THEN 1 ELSE 0)
  <2>1. CASE Head(log)
    <3>1. 1 \in DOMAIN log
      BY <1>1
    <3>2. 1 \in HitsOf(log)
      BY <1>1, <2>1, <3>1, Zenon DEF HitsOf
    <3>3. Cardinality(late) = Cardinality(HitsOf(log)) - 1
      BY <1>2, <3>2, FS_RemoveElement
    <3> QED BY <2>1, <3>3, Zenon
  <2>2. CASE ~Head(log)
    <3>1. late = HitsOf(log)
      BY <1>1, <2>2 DEF HitsOf
    <3>2. Cardinality(HitsOf(log)) = Cardinality(HitsOf(log)) - 0
      BY <1>2
    <3> QED BY <2>2, <3>1, <3>2, Zenon
  <2> QED BY <2>1, <2>2
<1>4. IsFiniteSet(late)
  BY <1>2, FS_Subset
<1> DEFINE f == [i \in late |-> i - 1]
<1>5. f \in Bijection(late, HitsOf(q))
  <2>1. /\ \A i \in late : i \in 2 .. n /\ log[i]
        /\ \A i \in late : i - 1 \in HitsOf(q)
    BY <1>1 DEF HitsOf
  <2>2. \A j \in HitsOf(q) : j + 1 \in late /\ (j + 1) - 1 = j
    BY <1>1 DEF HitsOf
  <2> HIDE DEF late
  <2>3. f \in [late -> HitsOf(q)]
    BY <2>1
  <2>4. \A i, j \in late : f[i] = f[j] => i = j
    BY <2>1
  <2>5. \A j \in HitsOf(q) : \E i \in late : f[i] = j
    <3> TAKE j \in HitsOf(q)
    <3>1. j + 1 \in late /\ f[j + 1] = j
      BY <2>2
    <3> QED BY <3>1
  <2> HIDE DEF f
  <2> QED BY <2>3, <2>4, <2>5 DEF Bijection, Injection, Surjection, IsInjective
<1>6. Cardinality(HitsOf(q)) = Cardinality(late)
  <2> HIDE DEF f, late
  <2> QED BY <1>4, <1>5, FS_Bijection DEF ExistsBijection
<1> QED BY <1>3, <1>6 DEF q

LEMMA AccountedNext ==
  ASSUME Accounted, ts \in Nat, NEW k \in Keys, access(k)
  PROVE  Accounted'
<1> DEFINE hit == k \in DOMAIN r.real_map_
           log == Append(hit_recorder, hit)
           full == Len(log) >= Window
           w == Window
           one == IF hit THEN 1 ELSE 0
           head == IF Head(log) THEN 1 ELSE 0
           gone == IF full /\ Head(log) THEN 1 ELSE 0
<1>1. /\ hit_count \in Nat /\ miss_count \in Nat /\ hit_count + miss_count = ts
      /\ hit_recorder \in Seq(BOOLEAN)
      /\ Len(hit_recorder) = Min({ts, w - 1})
      /\ recorder_hit_count = Cardinality(HitsOf(hit_recorder))
      /\ stable_count \in 0 .. StableRounds - 1
  BY DEF Accounted, HitsOf
<1>2. /\ ts' = ts + 1
      /\ hit_count' = hit_count + one
      /\ miss_count' = miss_count + (1 - one)
      /\ one \in {0, 1}
  <2>1. /\ ts' = ts + 1
        /\ hit_count' = IF hit THEN hit_count + 1 ELSE hit_count
        /\ miss_count' = IF hit THEN miss_count ELSE miss_count + 1
    BY Zenon DEF access, Account
  <2> HIDE DEF hit
  <2>2. \/ hit_count' = hit_count + 1 /\ miss_count' = miss_count /\ one = 1
        \/ hit_count' = hit_count /\ miss_count' = miss_count + 1 /\ one = 0
    BY <2>1, Zenon
  <2> HIDE DEF one
  <2> QED BY <1>1, <2>1, <2>2
<1>3. /\ hit_recorder' = IF full THEN Tail(log) ELSE log
      /\ recorder_hit_count' = recorder_hit_count + one - gone
      /\ full => gone = head
      /\ ~full => gone = 0
      /\ head \in {0, 1}
  BY Zenon DEF access, Account
<1>4. hit \in BOOLEAN /\ w \in Nat \ {0} /\ (full <=> Len(log) >= w)
  BY AdaptAssumption
<1> HIDE DEF hit, w, full
<1>5. /\ log \in Seq(BOOLEAN) /\ Len(log) = Len(hit_recorder) + 1
      /\ log # <<>>
  <2>1. ASSUME NEW b \in BOOLEAN
        PROVE  LET q == Append(hit_recorder, b)
               IN q \in Seq(BOOLEAN) /\ Len(q) = Len(hit_recorder) + 1
                  /\ q # <<>>
    BY <1>1
  <2> QED BY <1>4, <2>1, Zenon
<1>6. /\ Cardinality(HitsOf(log)) = recorder_hit_count + one
      /\ Cardinality(HitsOf(log)) \in Nat /\ recorder_hit_count \in Nat
  BY <1>1, <1>4, <1>5, HitsAppend, HitsFinite
<1>7. /\ Len(hit_recorder) = IF ts < w - 1 THEN ts ELSE w - 1
      /\ Min({ts + 1, w - 1}) = IF ts + 1 < w - 1 THEN ts + 1 ELSE w - 1
  BY <1>1, <1>4, MinOfTwo
<1>8. /\ Tail(log) \in Seq(BOOLEAN) /\ Len(Tail(log)) = Len(log) - 1
      /\ Cardinality(HitsOf(Tail(log))) = Cardinality(HitsOf(log)) - head
  <2>1. Tail(log) \in Seq(BOOLEAN) /\ Len(Tail(log)) = Len(log) - 1
    BY <1>5
  <2> QED BY <1>5, <2>1, HitsTail, Zenon
<1> HIDE DEF log, one, head, gone
<1>9. /\ hit_recorder' \in Seq(BOOLEAN)
      /\ Len(hit_recorder') = Min({ts + 1, w - 1})
      /\ recorder_hit_count' = Cardinality(HitsOf(hit_recorder'))
  <2>1. CASE full
    <3>1. Len(Tail(log)) = Min({ts + 1, w - 1})
      BY <1>4, <1>5, <1>7, <1>8, <2>1
    <3>2. recorder_hit_count' = Cardinality(HitsOf(Tail(log)))
      BY <1>2, <1>3, <1>6, <1>8, <2>1
    <3> QED BY <1>3, <1>8, <2>1, <3>1, <3>2
  <2>2. CASE ~full
    <3>1. Len(log) = Min({ts + 1, w - 1})
      BY <1>4, <1>5, <1>7, <2>2
    <3>2. recorder_hit_count' = Cardinality(HitsOf(log))
      BY <1>2, <1>3, <1>6, <2>2
    <3> QED BY <1>3, <1>5, <2>2, <3>1, <3>2
  <2> QED BY <2>1, <2>2
<1>10. stable_count' \in 0 .. StableRounds - 1
  BY <1>1, AdaptAssumption DEF access, Continue, NoEvidence, Shorten, Lengthen,
                               StillStable, Nudge
<1>11. /\ hit_count' \in Nat /\ miss_count' \in Nat
       /\ hit_count' + miss_count' = ts'
  BY <1>1, <1>2
<1> QED BY <1>2, <1>9, <1>10, <1>11 DEF Accounted, HitsOf, w

\* The recorder and its count stay in step for every window and every trace
\* (hill_replacer.cpp:20).
THEOREM AccountedHolds == Spec => []Accounted
<1>1. Init => Accounted /\ ts \in Nat
  <2> SUFFICES ASSUME Init PROVE Accounted /\ ts \in Nat
    OBVIOUS
  <2>1. Min({0, Window - 1}) = 0
    BY MinOfTwo, AdaptAssumption
  <2>2. { i \in DOMAIN <<>> : <<>>[i] } = {} /\ Len(<<>>) = 0
        /\ <<>> \in Seq(BOOLEAN)
    OBVIOUS
  <2>3. Cardinality({}) = 0
    BY FS_EmptySet
  <2> QED BY <2>1, <2>2, <2>3, AdaptAssumption DEF Init, Accounted
<1>2. Accounted /\ ts \in Nat /\ [Next]_vars => (Accounted /\ ts \in Nat)'
  <2> SUFFICES ASSUME Accounted, ts \in Nat, [Next]_vars
               PROVE  Accounted' /\ ts' \in Nat
    OBVIOUS
  <2>1. CASE UNCHANGED vars
    BY <2>1 DEF vars, Accounted
  <2>2. CASE Next
    <3>1. PICK k \in Keys : access(k)
      BY <2>2 DEF Next
    <3>2. ts' = ts + 1
      BY <3>1, Zenon DEF access, Account
    <3> QED BY <3>1, <3>2, AccountedNext
  <2> QED BY <2>1, <2>2
<1> QED BY <1>1, <1>2, PTL DEF Spec

-----------------------------------------------------------------------------
(* The direction of the climb *)

LEMMA LongerIsLonger ==
  ASSUME NEW h \in Nat, NEW b \in Nat \ {0}, NEW a \in Nat, a >= b
  PROVE  Longer(h, a, b) >= h
<1> DEFINE x == BoundNum * Lambda
           y == (a - b) * Lambda
<1>1. x \in Nat /\ y \in Nat /\ BoundDen \in Nat \ {0}
  BY AdaptAssumption
<1>2. Longer(h, a, b) = IF Capped(a, b) THEN (h * (BoundDen + x)) \div BoundDen
                        ELSE (h * (b + y)) \div b
  BY DEF Longer
<1> HIDE DEF x, y
<1>3. ASSUME NEW d \in Nat \ {0}, NEW z \in Nat
      PROVE  (h * (d + z)) \div d >= h
  <2>1. h * (d + z) = d * h + h * z /\ h * z \in Nat /\ d * h \in Nat
    OBVIOUS
  <2>2. h * (d + z) \in Nat /\ h * (d + z) >= d * h
    BY <2>1
  <2> QED BY <2>2, DivAtLeast
<1>4. /\ (h * (BoundDen + x)) \div BoundDen >= h
      /\ (h * (b + y)) \div b >= h
  BY <1>1, <1>3
<1> QED BY <1>2, <1>4, Zenon

LEMMA ShorterIsShorter ==
  ASSUME NEW h \in Nat, NEW b \in Nat \ {0}, NEW a \in Nat, a >= b
  PROVE  Shorter(h, a, b) <= h
<1> DEFINE x == BoundNum * Lambda
           y == (a - b) * Lambda
<1>1. x \in Nat /\ y \in Nat /\ BoundDen \in Nat \ {0}
  BY AdaptAssumption
<1>2. Shorter(h, a, b) = IF Capped(a, b) THEN (h * BoundDen) \div (BoundDen + x)
                         ELSE (h * b) \div (b + y)
  BY DEF Shorter
<1> HIDE DEF x, y
<1>3. ASSUME NEW d \in Nat \ {0}, NEW z \in Nat
      PROVE  (h * d) \div (d + z) <= h
  <2>1. (d + z) * h = h * d + h * z /\ h * z \in Nat /\ h * d \in Nat
    OBVIOUS
  <2>2. h * d \in Nat /\ h * d <= (d + z) * h /\ d + z \in Nat \ {0}
    BY <2>1
  <2> QED BY <2>2, DivAtMost
<1>4. /\ (h * BoundDen) \div (BoundDen + x) <= h
      /\ (h * b) \div (b + y) <= h
  BY <1>1, <1>3
<1> QED BY <1>2, <1>4, Zenon

\* The hits of a buffer, and its half-life, after an access
LEMMA AccessHits ==
  ASSUME NEW x, ObjectOK(x), EvictionsOK(x), NEW k \in Keys,
         Size - LruSize >= 2
  PROVE  /\ Access(x, k).cur_half_ = x.cur_half_
         /\ Access(x, k).interval_hit_count_ = x.interval_hit_count_
              + (IF k \in DOMAIN x.real_map_ THEN 1 ELSE 0)
<1>1. x.interval_hit_count_ \in Nat
  BY DEF ObjectOK, StateOK
<1>2. CASE k \in DOMAIN x.real_map_
  <2>1. /\ AccessHit(x, k).cur_half_ = x.cur_half_
        /\ AccessHit(x, k).interval_hit_count_ = x.interval_hit_count_ + 1
    BY <1>2, AccessHitFrame
  <2>2. Access(x, k) = AccessHit(x, k)
    BY <1>2 DEF Access
  <2> QED BY <1>2, <2>1, <2>2, Zenon
<1>3. CASE k \notin DOMAIN x.real_map_
  <2>1. x.ub # "no_victim" /\ EvictIfFull(x).ub # "no_victim"
    BY AccessMade
  <2>2. /\ AccessMiss(x, k).cur_half_ = x.cur_half_
        /\ AccessMiss(x, k).interval_hit_count_ = x.interval_hit_count_
    BY <1>3, <2>1, AccessMissFrame
  <2>3. Access(x, k) = AccessMiss(x, k)
    BY <1>3 DEF Access
  <2>4. x.interval_hit_count_ = x.interval_hit_count_ + 0
    BY <1>1
  <2> QED BY <1>3, <2>2, <2>3, <2>4, Zenon
<1> QED BY <1>2, <1>3

\* The half-life stays within its clamps.
HalfOK == r.cur_half_ \in 1 .. HalfCap

\* Each outcome moves the half-life the way the hits of the round say.
LEMMA OutcomeClimbs ==
  ASSUME NEW rk, NEW sk, ObjectOK(rk), ObjectOK(sk),
         rk.cur_half_ \in 1 .. HalfCap,
         \/ Continue(rk, sk)
         \/ NoEvidence(rk, sk)
         \/ Shorten(rk, sk)
         \/ Lengthen(rk, sk)
         \/ StillStable(rk, sk)
         \/ Nudge(rk, sk)
  PROVE  LET rh == rk.interval_hit_count_
             sh == sk.interval_hit_count_
         IN /\ r'.cur_half_ \in 1 .. HalfCap
            /\ r'.cur_half_ # rk.cur_half_ => Due
            /\ r'.cur_half_ > rk.cur_half_ =>
                 rh > sh \/ (rh = sh /\ rk.cur_half_ < InitHalf)
            /\ r'.cur_half_ < rk.cur_half_ =>
                 sh > rh \/ (rh = sh /\ rk.cur_half_ >= InitHalf)
<1> DEFINE h == rk.cur_half_
           q == ReportAndClear(rk)
<1>1. /\ h \in Nat /\ HalfCap \in Nat /\ InitHalf \in Nat
      /\ rk.interval_hit_count_ \in Nat /\ sk.interval_hit_count_ \in Nat
  BY ClockAssumption DEF ObjectOK, StateOK
<1>2. q.cur_half_ = h /\ StateOK(q)
  BY ReportOK, ReportFrame DEF ObjectOK
<1> HIDE DEF q
<1>3. ASSUME NEW v
      PROVE  UpdateHalf(q, v).cur_half_ =
               IF v < 1 THEN 1 ELSE IF v > HalfCap THEN HalfCap ELSE v
  BY <1>2, UpdateHalfFrame
<1>4. ASSUME r' = rk \/ r' = q
      PROVE  r'.cur_half_ = h
  BY <1>2, <1>4
<1>5. ASSUME NEW v \in Nat, v >= h, r' = UpdateHalf(q, v)
      PROVE  r'.cur_half_ \in h .. HalfCap
  <2>1. r'.cur_half_ = IF v < 1 THEN 1 ELSE IF v > HalfCap THEN HalfCap ELSE v
    BY <1>3, <1>5
  <2> HIDE DEF h
  <2> QED BY <1>1, <1>5, <2>1 DEF h
<1>6. ASSUME NEW v \in Nat, v <= h, r' = UpdateHalf(q, v)
      PROVE  r'.cur_half_ \in 1 .. h
  <2>1. r'.cur_half_ = IF v < 1 THEN 1 ELSE IF v > HalfCap THEN HalfCap ELSE v
    BY <1>3, <1>6
  <2> QED BY <1>1, <1>6, <2>1
<1>7. CASE Continue(rk, sk) \/ NoEvidence(rk, sk) \/ StillStable(rk, sk)
  <2>1. r' = rk \/ r' = q
    BY <1>7 DEF Continue, NoEvidence, StillStable, q
  <2>2. r'.cur_half_ = h
    BY <1>4, <2>1
  <2> HIDE DEF h
  <2>3. h \in 1 .. HalfCap
    BY DEF h
  <2> QED BY <1>1, <2>2, <2>3 DEF h
<1>8. CASE Shorten(rk, sk)
  <2> DEFINE v == Shorter(h, sk.interval_hit_count_, rk.interval_hit_count_)
  <2>1. /\ Due /\ rk.interval_hit_count_ # 0
        /\ sk.interval_hit_count_ > rk.interval_hit_count_
        /\ r' = UpdateHalf(q, v)
    BY <1>8 DEF Shorten, Compare, q
  <2>a. rk.interval_hit_count_ \in Nat \ {0}
    BY <1>1, <2>1
  <2>b. sk.interval_hit_count_ >= rk.interval_hit_count_
    BY <1>1, <2>1
  <2>c. v \in Nat
    BY <1>1, <2>a, <2>b, ShorterType
  <2>d. v <= h
    BY <1>1, <2>a, <2>b, ShorterIsShorter
  <2>2. v \in Nat /\ v <= h
    BY <2>c, <2>d
  <2> HIDE DEF v
  <2>3. r'.cur_half_ \in 1 .. h
    BY <1>6, <2>1, <2>2
  <2> QED BY <1>1, <2>1, <2>3
<1>9. CASE Lengthen(rk, sk)
  <2> DEFINE v == Longer(h, rk.interval_hit_count_, sk.interval_hit_count_)
  <2>1. /\ Due /\ sk.interval_hit_count_ # 0
        /\ rk.interval_hit_count_ > sk.interval_hit_count_
        /\ r' = UpdateHalf(q, v)
    BY <1>9 DEF Lengthen, Compare, q
  <2>a. sk.interval_hit_count_ \in Nat \ {0}
    BY <1>1, <2>1
  <2>b. rk.interval_hit_count_ >= sk.interval_hit_count_
    BY <1>1, <2>1
  <2>c. v \in Nat
    BY <1>1, <2>a, <2>b, LongerType
  <2>d. v >= h
    BY <1>1, <2>a, <2>b, LongerIsLonger
  <2>2. v \in Nat /\ v >= h
    BY <2>c, <2>d
  <2> HIDE DEF v
  <2>3. r'.cur_half_ \in h .. HalfCap
    BY <1>5, <2>1, <2>2
  <2> QED BY <1>1, <2>1, <2>3
<1>10. CASE Nudge(rk, sk)
  <2> DEFINE a == IF 10 * BoundNum > BoundDen THEN 11 ELSE BoundDen + BoundNum
             b == IF 10 * BoundNum > BoundDen THEN 10 ELSE BoundDen
  <2>1. a \in Nat /\ b \in Nat \ {0} /\ a >= b
    BY AdaptAssumption
  <2>2. /\ Due /\ rk.interval_hit_count_ = sk.interval_hit_count_
        /\ r' = UpdateHalf(q, IF h < InitHalf THEN Longer(h, a, b)
                              ELSE Shorter(h, a, b))
    BY <1>10 DEF Nudge, Equal, Compare, q
  <2> HIDE DEF a, b
  <2>3. CASE h < InitHalf
    <3>1. Longer(h, a, b) \in Nat /\ Longer(h, a, b) >= h
      BY <1>1, <2>1, LongerType, LongerIsLonger
    <3>2. r'.cur_half_ \in h .. HalfCap
      BY <1>5, <2>2, <2>3, <3>1
    <3> QED BY <1>1, <2>2, <2>3, <3>2
  <2>4. CASE ~(h < InitHalf)
    <3>1. Shorter(h, a, b) \in Nat /\ Shorter(h, a, b) <= h
      BY <1>1, <2>1, ShorterType, ShorterIsShorter
    <3>2. r'.cur_half_ \in 1 .. h
      BY <1>6, <2>2, <2>4, <3>1
    <3> QED BY <1>1, <2>2, <2>4, <3>2
  <2> QED BY <2>3, <2>4
<1> QED BY <1>7, <1>8, <1>9, <1>10

LEMMA HalfInit == Init => HalfOK
<1>1. ASSUME NEW h \in Nat
      PROVE  New(h).cur_half_ =
               IF h < 1 THEN 1 ELSE IF h > HalfCap THEN HalfCap ELSE h
  BY DEF New, UpdateHalf
<1>2. InitHalf \in Nat /\ HalfCap \in Nat \ {0}
  BY ClockAssumption
<1>3. ASSUME Init PROVE HalfOK
  <2>1. r.cur_half_ =
          IF InitHalf < 1 THEN 1
          ELSE IF InitHalf > HalfCap THEN HalfCap ELSE InitHalf
    BY <1>1, <1>2, <1>3 DEF Init
  <2> QED BY <1>2, <2>1 DEF HalfOK
<1> QED BY <1>3

\* A key that was accessed is the first of the top.
LEMMA NewTopFirst ==
  ASSUME NEW x, ObjectOK(x), NEW k \in Keys
  PROVE  NewTop(x.top_lru_, k) # <<>> /\ NewTop(x.top_lru_, k)[1] = k
<1> DEFINE q == x.top_lru_
           rest == IF k \in ToSet(q) THEN Erase(q, k) ELSE q
<1>1. q \in Seq(Keys) /\ Lists(q, TopKeys(x))
  BY DEF ObjectOK, StateOK, PartsOK
<1>2. rest \in Seq(Keys)
  <2>1. TopKeys(x) = ToSet(q)
    BY <1>1 DEF Lists
  <2>2. CASE k \in ToSet(q)
    <3>1. Erase(q, k) \in Seq(Keys)
      BY <1>1, <2>1, <2>2, ListsErase
    <3> QED BY <2>2, <3>1
  <2> QED BY <1>1, <2>2
<1> HIDE DEF rest
<1>3. Shortened(rest) \in Seq(Keys)
  <2>1. CASE Len(rest) < LruSize
    BY <1>2, <2>1 DEF Shortened
  <2>2. CASE ~(Len(rest) < LruSize)
    <3>1. Len(rest) \in Nat \ {0}
      BY <1>2, <2>2, SizeAssumption
    <3>2. SubSeq(rest, 1, Len(rest) - 1) \in Seq(Keys)
      BY <1>2, <3>1
    <3> QED BY <2>2, <3>2 DEF Shortened, Front
  <2> QED BY <2>1, <2>2
<1>4. NewTop(q, k) = <<k>> \o Shortened(rest)
  BY DEF NewTop, rest
<1> QED BY <1>3, <1>4

\* What an access says of the half-life, in the unprimed counts
LEMMA ClimbStep ==
  ASSUME RInv, HalfOK, Accounted, Size - LruSize >= 2, NEW k \in Keys, access(k)
  PROVE  LET rh == hit_count' - hit_count + r.interval_hit_count_
             sh == s.interval_hit_count_ +
                     (IF s'.top_lru_ # <<>>
                         /\ s'.top_lru_[1] \in DOMAIN s.real_map_
                      THEN 1 ELSE 0)
         IN /\ r'.cur_half_ \in 1 .. HalfCap
            /\ r'.cur_half_ # r.cur_half_ => ts' % UpdateInterval = 0
            /\ r'.cur_half_ > r.cur_half_ =>
                 rh > sh \/ (rh = sh /\ r.cur_half_ < InitHalf)
            /\ r'.cur_half_ < r.cur_half_ =>
                 sh > rh \/ (rh = sh /\ r.cur_half_ >= InitHalf)
<1> DEFINE rk == Access(r, k)
           sk == Access(s, k)
           one(x) == IF k \in DOMAIN x.real_map_ THEN 1 ELSE 0
<1>1. /\ ObjectOK(r) /\ ObjectOK(s) /\ ts \in Nat /\ ts' = ts + 1
      /\ EvictionsOK(r) /\ EvictionsOK(s)
      /\ r.interval_hit_count_ \in Nat /\ s.interval_hit_count_ \in Nat
      /\ hit_count \in Nat
  BY DEF access, Account, RInv, BothSound, Accounted, ObjectOK, StateOK
<1>2. ObjectOK(rk) /\ ObjectOK(sk)
  <2>1. r.ub # "no_victim" /\ s.ub # "no_victim"
    BY <1>1 DEF EvictionsOK
  <2> QED BY <1>1, <2>1, AccessOK
<1>3. /\ rk.cur_half_ = r.cur_half_
      /\ rk.interval_hit_count_ = r.interval_hit_count_ + one(r)
      /\ sk.interval_hit_count_ = s.interval_hit_count_ + one(s)
  BY <1>1, AccessHits
<1>4. \/ Continue(rk, sk)
      \/ NoEvidence(rk, sk)
      \/ Shorten(rk, sk)
      \/ Lengthen(rk, sk)
      \/ StillStable(rk, sk)
      \/ Nudge(rk, sk)
  BY DEF access
<1>5. sk.top_lru_ = NewTop(s.top_lru_, k)
  BY <1>1, AccessFrame
<1>6. hit_count' - hit_count = one(r)
  <2>1. hit_count' = IF k \in DOMAIN r.real_map_ THEN hit_count + 1
                     ELSE hit_count
    BY DEF access, Account
  <2> QED BY <1>1, <2>1
<1> HIDE DEF rk, sk
<1>7. s'.top_lru_ = sk.top_lru_
  <2>1. Due \in BOOLEAN
    BY DEF Due
  <2>2. /\ \E h \in Nat : \/ r' = Reported(rk, Due)
                          \/ r' = UpdateHalf(Reported(rk, Due), h)
        /\ s' = UpdateHalf(Reported(sk, Due), Simulated(r'.cur_half_))
    BY <1>2, <1>4, OutcomeOK
  <2>3. ObjectOK(r')
    BY <1>2, <2>1, <2>2, SettleOK
  <2>4. Simulated(r'.cur_half_) \in Nat
    BY <2>3, SimulatedType DEF ObjectOK, StateOK
  <2> QED BY <1>2, <2>1, <2>2, <2>4, SettleOK
<1>8. s'.top_lru_ # <<>> /\ s'.top_lru_[1] = k
  BY <1>1, <1>5, <1>7, NewTopFirst
<1>9. (IF s'.top_lru_ # <<>> /\ s'.top_lru_[1] \in DOMAIN s.real_map_
       THEN 1 ELSE 0) = one(s)
  BY <1>8
<1>10. Due <=> ts' % UpdateInterval = 0
  BY <1>1 DEF Due
<1>11. rk.cur_half_ \in 1 .. HalfCap
  BY <1>3 DEF HalfOK
<1>12. LET rh == rk.interval_hit_count_
           sh == sk.interval_hit_count_
       IN /\ r'.cur_half_ \in 1 .. HalfCap
          /\ r'.cur_half_ # rk.cur_half_ => Due
          /\ r'.cur_half_ > rk.cur_half_ =>
               rh > sh \/ (rh = sh /\ rk.cur_half_ < InitHalf)
          /\ r'.cur_half_ < rk.cur_half_ =>
               sh > rh \/ (rh = sh /\ rk.cur_half_ >= InitHalf)
  BY <1>2, <1>4, <1>11, OutcomeClimbs
<1> DEFINE o == hit_count' - hit_count
<1>13. o = one(r) /\ one(r) \in Nat
  BY <1>6
<1>14. o + r.interval_hit_count_ = rk.interval_hit_count_
  <2> HIDE DEF o
  <2> QED BY <1>1, <1>3, <1>13
<1> QED BY <1>3, <1>9, <1>10, <1>12, <1>14

\* With two pages or more under the top, the half-life moves only at the end of
\* an interval, and towards the buffer that hit more in it, or after equal
\* rounds towards init_half_ (hill_replacer.cpp:35-60).
THEOREM ClimbsHolds ==
  ASSUME Size - LruSize >= 2
  PROVE  Spec => ClimbsToBetter
<1>1. RInv /\ HalfOK /\ Accounted /\ [Next]_vars => HalfOK'
  <2>1. ASSUME RInv, HalfOK, Accounted, Next PROVE HalfOK'
    <3>1. PICK k \in Keys : access(k)
      BY <2>1 DEF Next
    <3> QED BY <2>1, <3>1, ClimbStep DEF HalfOK
  <2>2. HalfOK /\ UNCHANGED vars => HalfOK'
    BY DEF HalfOK, vars
  <2> QED BY <2>1, <2>2
<1>2. RInv /\ HalfOK /\ Accounted /\ [Next]_vars =>
        [ LET rh == hit_count' - hit_count + r.interval_hit_count_
              sh == s.interval_hit_count_ +
                      (IF s'.top_lru_ # <<>>
                          /\ s'.top_lru_[1] \in DOMAIN s.real_map_
                       THEN 1 ELSE 0)
          IN /\ r'.cur_half_ # r.cur_half_ => ts' % UpdateInterval = 0
             /\ r'.cur_half_ > r.cur_half_ =>
                  rh > sh \/ (rh = sh /\ r.cur_half_ < InitHalf)
             /\ r'.cur_half_ < r.cur_half_ =>
                  sh > rh \/ (rh = sh /\ r.cur_half_ >= InitHalf) ]_vars
  <2>1. ASSUME RInv, HalfOK, Accounted, Next
        PROVE  LET rh == hit_count' - hit_count + r.interval_hit_count_
                   sh == s.interval_hit_count_ +
                           (IF s'.top_lru_ # <<>>
                               /\ s'.top_lru_[1] \in DOMAIN s.real_map_
                            THEN 1 ELSE 0)
               IN /\ r'.cur_half_ # r.cur_half_ => ts' % UpdateInterval = 0
                  /\ r'.cur_half_ > r.cur_half_ =>
                       rh > sh \/ (rh = sh /\ r.cur_half_ < InitHalf)
                  /\ r'.cur_half_ < r.cur_half_ =>
                       sh > rh \/ (rh = sh /\ r.cur_half_ >= InitHalf)
    <3>1. PICK k \in Keys : access(k)
      BY <2>1 DEF Next
    <3> QED BY <2>1, <3>1, ClimbStep
  <2> QED BY <2>1
<1> QED BY <1>1, <1>2, HalfInit, RInvariance, AccountedHolds, PTL
        DEF Spec, ClimbsToBetter

-----------------------------------------------------------------------------
(* The refinement *)

\* The operators of the abstract module on its containers are those of this one.
LEMMA SameOperators ==
  /\ \A S : Abs!Cardinality(S) = Cardinality(S)
  /\ \A q : Abs!ToSet(q) = ToSet(q) /\ Abs!Front(q) = Front(q)
  /\ \A q, k : Abs!Erase(q, k) = Erase(q, k)
  /\ \A f, k, p : Abs!Put(f, k, p) = Put(f, k, p)
  /\ \A f, k : Abs!Drop(f, k) = Drop(f, k)
  /\ Abs!NoEntries = NoEntries
<1>1. \A S : Abs!Cardinality(S) = Cardinality(S)
  BY DEF Abs!Cardinality, Cardinality
<1>2. \A q : Abs!ToSet(q) = ToSet(q) /\ Abs!Front(q) = Front(q)
  BY DEF Abs!ToSet, ToSet, Abs!Front, Front
<1>3. \A q, k : Abs!Erase(q, k) = Erase(q, k)
  BY DEF Abs!Erase, Erase, Abs!RemoveAt, RemoveAt
<1>4. /\ \A f, k, p : Abs!Put(f, k, p) = Put(f, k, p)
      /\ \A f, k : Abs!Drop(f, k) = Drop(f, k)
      /\ Abs!NoEntries = NoEntries
  BY DEF Abs!Put, Put, Abs!Drop, Drop, Abs!NoEntries, NoEntries
<1> QED BY <1>1, <1>2, <1>3, <1>4

\* The state of the abstract module is the top, the scores and the ghost.
LEMMA ScoresAre ==
  /\ [k \in DOMAIN r.real_map_ |-> RealLevel(r, k)] = Score(r)
  /\ [k \in DOMAIN r.ghost_map_ |-> GhostLevel(r, k)] = Ghost(r)
BY DEF Score, Ghost

\* A step in scores is a step of the abstract module.
LEMMA StepIsAbstract ==
  ASSUME NEW k \in Keys,
         \/ HitStep(r, r', k)
         \/ RoomStep(r, r', k)
         \/ VictimStep(r, r', k)
         \/ SameScores(r, r')
  PROVE  [Abs!Next]_(Abs!vars)
<1> DEFINE f == Score(r)
           g == Ghost(r)
           ff == Score(r')
           gg == Ghost(r')
<1>1. /\ [x \in DOMAIN r.real_map_ |-> RealLevel(r, x)] = f
      /\ [x \in DOMAIN r.ghost_map_ |-> GhostLevel(r, x)] = g
      /\ [x \in DOMAIN r'.real_map_ |-> RealLevel(r', x)] = ff
      /\ [x \in DOMAIN r'.ghost_map_ |-> GhostLevel(r', x)] = gg
  BY DEF Score, Ghost
<1>2. ASSUME r'.top_lru_ = NewTop(r.top_lru_, k)
      PROVE  Abs!NextTop(k)
  BY <1>2, SameOperators DEF Abs!NextTop, NewTop, Shortened
<1>3. ASSUME NEW u, NEW w, Settled(r', u, w)
      PROVE  Abs!RollOrNot(u, w)
  BY <1>1, <1>3, SameOperators DEF Abs!RollOrNot, Settled, HalfBelow
<1>4. \A u : Abs!Raised(u, k) = RaisedScore(u, k)
  BY DEF Abs!Raised, RaisedScore, Cap
<1> HIDE DEF f, g, ff, gg
<1>5. ASSUME NEW u, NEW w, Admits(r, r', k, u, w)
      PROVE  Abs!Admit(k, u, w)
  BY <1>2, <1>3, <1>4, <1>5, SameOperators DEF Abs!Admit, Admits
<1>6. CASE HitStep(r, r', k)
  <2>1. Abs!Hit(k)
    BY <1>1, <1>2, <1>3, <1>4, <1>6, SameOperators DEF Abs!Hit, HitStep, f, g
  <2> QED BY <2>1 DEF Abs!Next
<1>7. CASE RoomStep(r, r', k)
  <2>1. Abs!MissWithRoom(k)
    BY <1>1, <1>5, <1>7, SameOperators DEF Abs!MissWithRoom, RoomStep, f, g
  <2> QED BY <2>1 DEF Abs!Next
<1>8. CASE VictimStep(r, r', k)
  <2>1. Abs!Below = DOMAIN f \ ToSet(r.top_lru_)
    BY <1>1, SameOperators DEF Abs!Below
  <2>2. ASSUME NEW v PROVE Abs!Remember(v) = Remembers(g, v, f[v])
    <3> DEFINE Abstract == IF Abs!Cardinality(DOMAIN g) < GhostSize THEN {g}
                           ELSE { Abs!Drop(g, x) : x \in DOMAIN g }
               Kept == IF Cardinality(DOMAIN g) < GhostSize THEN {g}
                       ELSE { Drop(g, x) : x \in DOMAIN g }
               p == f[v]
    <3>1. Abs!Remember(v) = IF GhostSize = 0 \/ p = 0 THEN {g}
                            ELSE { Abs!Put(h, v, p) : h \in Abstract }
      BY DEF Abs!Remember, f, g, Score, Ghost
    <3>2. Abstract = Kept
      BY SameOperators
    <3>3. Remembers(g, v, p) = IF GhostSize = 0 \/ p = 0 THEN {g}
                               ELSE { Put(h, v, p) : h \in Kept }
      BY DEF Remembers
    <3> HIDE DEF Abstract, Kept, p
    <3>4. { Abs!Put(h, v, p) : h \in Kept } = { Put(h, v, p) : h \in Kept }
      BY SameOperators
    <3> QED BY <3>1, <3>2, <3>3, <3>4 DEF p
  <2>3. Abs!MissWithVictim(k)
    BY <1>1, <1>5, <1>8, <2>1, <2>2, SameOperators
       DEF Abs!MissWithVictim, VictimStep, f, g
  <2> QED BY <2>3 DEF Abs!Next
<1>9. CASE SameScores(r, r')
  BY <1>1, <1>9 DEF Abs!vars, SameScores, f, g, ff, gg
<1> QED BY <1>6, <1>7, <1>8, <1>9

\* A report and a new half-life between two accesses leave the scores.
LEMMA SettleScore ==
  ASSUME NEW x, ObjectOK(x), NEW clear \in BOOLEAN, NEW h, NEW y,
         y = Reported(x, clear) \/ y = UpdateHalf(Reported(x, clear), h)
  PROVE  SameScores(x, y)
<1> DEFINE z == Reported(x, clear)
<1>1. SameScores(x, z) /\ StateOK(z)
  <2>1. CASE clear
    BY <2>1, QuietScore, ReportOK DEF Reported, ObjectOK
  <2>2. CASE ~clear
    BY <2>2 DEF Reported, ObjectOK, SameScores
  <2> QED BY <2>1, <2>2
<1> HIDE DEF z
<1>2. SameScores(z, UpdateHalf(z, h))
  BY <1>1, QuietScore
<1> QED BY <1>1, <1>2 DEF z, SameScores

\* The real buffer implements the policy with scores halved at once, whatever the
\* adaptation makes of its half-life and whenever (hill_replacer.h:215).
THEOREM RealImplements == Spec => Implements
<1>1. Init => Abs!Init
  BY ScoresAre, NewScore, SameOperators DEF Init, Abs!Init
<1>2. RInv /\ [Next]_vars => [Abs!Next]_(Abs!vars)
  <2> SUFFICES ASSUME RInv, [Next]_vars PROVE [Abs!Next]_(Abs!vars)
    OBVIOUS
  <2>1. ObjectOK(r) /\ ObjectOK(s)
    BY DEF RInv, BothSound
  <2>2. CASE UNCHANGED vars
    BY <2>2 DEF vars, Abs!vars
  <2>3. CASE Next
    <3>1. PICK k \in Keys : access(k)
      BY <2>3 DEF Next
    <3> DEFINE rk == Access(r, k)
               sk == Access(s, k)
    <3>2. r.ub # "no_victim" /\ s.ub # "no_victim"
      BY <3>1 DEF access
    <3>3. ObjectOK(rk) /\ ObjectOK(sk)
      BY <2>1, <3>2, AccessOK
    <3>4. \/ HitStep(r, rk, k)
          \/ RoomStep(r, rk, k)
          \/ VictimStep(r, rk, k)
          \/ SameScores(r, rk)
      BY <2>1, <3>2, AccessScore
    <3>5. \/ Continue(rk, sk)
          \/ NoEvidence(rk, sk)
          \/ Shorten(rk, sk)
          \/ Lengthen(rk, sk)
          \/ StillStable(rk, sk)
          \/ Nudge(rk, sk)
      BY <3>1 DEF access
    <3> HIDE DEF rk, sk
    <3>6. \E h \in Nat : \/ r' = Reported(rk, Due)
                         \/ r' = UpdateHalf(Reported(rk, Due), h)
      BY <3>3, <3>5, OutcomeOK
    <3>7. SameScores(rk, r')
      BY <3>3, <3>6, SettleScore DEF Due
    <3>8. \/ HitStep(r, r', k)
          \/ RoomStep(r, r', k)
          \/ VictimStep(r, r', k)
          \/ SameScores(r, r')
      <4>1. \A u, w : Settled(rk, u, w) => Settled(r', u, w)
        BY <3>7 DEF SameScores, Settled
      <4>2. \A u, w : Admits(r, rk, k, u, w) => Admits(r, r', k, u, w)
        BY <3>7, <4>1 DEF SameScores, Admits
      <4>3. HitStep(r, rk, k) => HitStep(r, r', k)
        BY <3>7, <4>1 DEF SameScores, HitStep
      <4>4. RoomStep(r, rk, k) => RoomStep(r, r', k)
        BY <4>2 DEF RoomStep
      <4>5. VictimStep(r, rk, k) => VictimStep(r, r', k)
        BY <4>2 DEF VictimStep
      <4>6. SameScores(r, rk) => SameScores(r, r')
        BY <3>7 DEF SameScores
      <4> QED BY <3>4, <4>3, <4>4, <4>5, <4>6
    <3> QED BY <3>8, StepIsAbstract
  <2> QED BY <2>2, <2>3
<1> QED BY <1>1, <1>2, RInvariance, PTL DEF Spec, Implements, Abs!Spec

============================================================================
