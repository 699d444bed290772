----------------------------- MODULE ARCProofs -----------------------------
(***************************************************************************)
(* The four lists of ARCReplacer keep within their sizes and apart, the    *)
(* target stays a size and no empty list is popped, for every size of the  *)
(* buffer and every trace; and ARC implements DemandCache.                 *)
(***************************************************************************)
EXTENDS ARC, DataLemmas

-----------------------------------------------------------------------------
(* The lists *)

\* A list of distinct keys
ListOK(q) == q \in Seq(Keys) /\ IsInjective(q)

LEMMA EmptyOK == ListOK(<<>>) /\ ToSet(<<>>) = {} /\ Len(<<>>) = 0
BY DEF ListOK, IsInjective, ToSet

LEMMA NoKeysNoList ==
  ASSUME NEW q, ListOK(q)
  PROVE  /\ q = <<>> <=> ToSet(q) = {}
         /\ q = <<>> <=> Len(q) = 0
         /\ Len(q) \in Nat /\ ToSet(q) \subseteq Keys
<1>1. q \in Seq(Keys) /\ Lists(q, ToSet(q))
  BY DEF ListOK, Lists
<1>2. q = <<>> <=> ToSet(q) = {}
  BY <1>1, ListsEmpty
<1>3. q = <<>> <=> Len(q) = 0
  BY <1>1, EmptySeq
<1>4. Len(q) \in Nat /\ ToSet(q) \subseteq Keys
  BY <1>1 DEF ToSet
<1> QED BY <1>2, <1>3, <1>4

LEMMA RemoveKeyOK ==
  ASSUME NEW q, ListOK(q), NEW k, Has(q, k)
  PROVE  /\ ListOK(RemoveKey(q, k))
         /\ ToSet(RemoveKey(q, k)) = ToSet(q) \ {k}
         /\ Len(RemoveKey(q, k)) = Len(q) - 1
<1>1. q \in Seq(Keys) /\ Lists(q, ToSet(q)) /\ k \in ToSet(q)
  BY DEF ListOK, Lists, Has
<1>2. /\ Erase(q, k) \in Seq(Keys)
      /\ Len(Erase(q, k)) = Len(q) - 1
      /\ Lists(Erase(q, k), ToSet(q) \ {k})
  BY <1>1, ListsErase
<1> QED BY <1>2 DEF ListOK, Lists, RemoveKey

LEMMA PushFrontOK ==
  ASSUME NEW q, ListOK(q), NEW k \in Keys, ~Has(q, k)
  PROVE  /\ ListOK(PushFront(q, k))
         /\ ToSet(PushFront(q, k)) = ToSet(q) \cup {k}
         /\ Len(PushFront(q, k)) = Len(q) + 1
<1>1. q \in Seq(Keys) /\ Lists(q, ToSet(q)) /\ k \notin ToSet(q)
  BY DEF ListOK, Lists, Has
<1>2. /\ <<k>> \o q \in Seq(Keys)
      /\ Len(<<k>> \o q) = Len(q) + 1
      /\ Lists(<<k>> \o q, ToSet(q) \cup {k})
  BY <1>1, ListsPush
<1>3. PushFront(q, k) = <<k>> \o q
  BY DEF PushFront
<1> QED BY <1>2, <1>3 DEF ListOK, Lists

LEMMA PopBackOK ==
  ASSUME NEW q, ListOK(q), q # <<>>
  PROVE  /\ ListOK(PopBack(q)) /\ Last(q) \in ToSet(q) /\ Last(q) \in Keys
         /\ ToSet(PopBack(q)) = ToSet(q) \ {Last(q)}
         /\ Len(PopBack(q)) = Len(q) - 1
<1>1. q \in Seq(Keys) /\ Lists(q, ToSet(q))
  BY DEF ListOK, Lists
<1>2. /\ Last(q) \in ToSet(q)
      /\ Front(q) \in Seq(Keys) /\ Lists(Front(q), ToSet(q) \ {Last(q)})
      /\ Len(Front(q)) = Len(q) - 1
  BY <1>1, ListsPop
<1>3. ToSet(q) \subseteq Keys
  BY NoKeysNoList
<1> QED BY <1>2, <1>3 DEF ListOK, Lists, PopBack

-----------------------------------------------------------------------------
(* The object *)

Apart(A, B, C, D) ==
  /\ A \cap B = {} /\ A \cap C = {} /\ A \cap D = {}
  /\ B \cap C = {} /\ B \cap D = {} /\ C \cap D = {}

\* Four lists of distinct keys, none in two of them
Sound(s) ==
  /\ s \in [t1 : Seq(Keys), t2 : Seq(Keys), b1 : Seq(Keys), b2 : Seq(Keys),
            p_ : 0 .. buffer_size * Unit, ub : {FALSE}]
  /\ ListOK(s.t1) /\ ListOK(s.t2) /\ ListOK(s.b1) /\ ListOK(s.b2)
  /\ Apart(ToSet(s.t1), ToSet(s.t2), ToSet(s.b1), ToSet(s.b2))

\* The lengths of the lists
T1(s) == Len(s.t1)
T2(s) == Len(s.t2)
B1(s) == Len(s.b1)
B2(s) == Len(s.b2)

\* No list is too long, and a ghost remembers nothing before the buffer is full.
Fits(s) ==
  /\ T1(s) + T2(s) <= buffer_size
  /\ T1(s) + T2(s) + B1(s) + B2(s) <= 2 * buffer_size
  /\ T1(s) + B1(s) <= buffer_size
  /\ B1(s) + B2(s) > 0 => T1(s) + T2(s) = buffer_size

ARCInv == Sound(arc) /\ Fits(arc)

ResidentOf(s) == ToSet(s.t1) \cup ToSet(s.t2)
GhostsOf(s) == ToSet(s.b1) \cup ToSet(s.b2)

LEMMA Lengths ==
  ASSUME NEW s, Sound(s)
  PROVE  /\ T1(s) \in Nat /\ T2(s) \in Nat /\ B1(s) \in Nat /\ B2(s) \in Nat
         /\ s.t1 = <<>> <=> T1(s) = 0
         /\ s.t2 = <<>> <=> T2(s) = 0
         /\ s.b1 = <<>> <=> B1(s) = 0
         /\ s.b2 = <<>> <=> B2(s) = 0
BY NoKeysNoList DEF Sound, T1, T2, B1, B2

\* replace_ moves one page to its ghost, if the list it takes it from has one.
LEMMA ReplaceOK ==
  ASSUME NEW s, Sound(s), NEW key, FromT1(s, key) \/ s.t2 # <<>>
  PROVE  LET t == replace_(s, key)
         IN /\ Sound(t) /\ t.p_ = s.p_
            /\ T1(t) + B1(t) = T1(s) + B1(s)
            /\ T2(t) + B2(t) = T2(s) + B2(s)
            /\ T1(t) + T2(t) = T1(s) + T2(s) - 1
            /\ \E v \in ResidentOf(s) :
                 /\ ResidentOf(t) = ResidentOf(s) \ {v}
                 /\ GhostsOf(t) = GhostsOf(s) \cup {v}
            /\ ToSet(s.b1) \subseteq ToSet(t.b1)
            /\ ToSet(s.b2) \subseteq ToSet(t.b2)
<1> DEFINE t == replace_(s, key)
<1>1. CASE FromT1(s, key)
  <2> DEFINE v == Last(s.t1)
             q == PopBack(s.t1)
             g == PushFront(s.b1, v)
  <2>1. s.t1 # <<>> /\ ListOK(s.t1) /\ ListOK(s.b1)
    BY <1>1 DEF FromT1, Sound
  <2>2. /\ ListOK(q) /\ v \in ToSet(s.t1) /\ v \in Keys
        /\ ToSet(q) = ToSet(s.t1) \ {v} /\ Len(q) = Len(s.t1) - 1
    BY <2>1, PopBackOK
  <2>3. ~Has(s.b1, v)
    BY <2>2 DEF Has, Sound, Apart
  <2>4. /\ ListOK(g) /\ ToSet(g) = ToSet(s.b1) \cup {v}
        /\ Len(g) = Len(s.b1) + 1
    BY <2>1, <2>2, <2>3, PushFrontOK
  <2>5. t = [s EXCEPT !.t1 = q, !.b1 = g]
    BY <1>1 DEF replace_, EvictT1
  <2> HIDE DEF v, q, g, t
  <2>6. /\ t.t1 = q /\ t.t2 = s.t2 /\ t.b1 = g /\ t.b2 = s.b2
        /\ t.p_ = s.p_ /\ t.ub = s.ub
        /\ t \in [t1 : Seq(Keys), t2 : Seq(Keys), b1 : Seq(Keys),
                  b2 : Seq(Keys), p_ : 0 .. buffer_size * Unit, ub : {FALSE}]
    BY <2>2, <2>4, <2>5 DEF Sound, ListOK
  <2>7. Apart(ToSet(t.t1), ToSet(t.t2), ToSet(t.b1), ToSet(t.b2))
    BY <2>2, <2>4, <2>6 DEF Sound, Apart
  <2>8. Sound(t)
    BY <2>2, <2>4, <2>6, <2>7 DEF Sound
  <2>9. /\ T1(t) + B1(t) = T1(s) + B1(s)
        /\ T2(t) + B2(t) = T2(s) + B2(s)
        /\ T1(t) + T2(t) = T1(s) + T2(s) - 1
    <3>1. /\ T1(t) = T1(s) - 1 /\ T2(t) = T2(s)
          /\ B1(t) = B1(s) + 1 /\ B2(t) = B2(s)
      BY <2>2, <2>4, <2>6, Zenon DEF T1, T2, B1, B2
    <3> QED BY <3>1, Lengths
  <2>10. /\ v \in ResidentOf(s)
         /\ ResidentOf(t) = ResidentOf(s) \ {v}
         /\ GhostsOf(t) = GhostsOf(s) \cup {v}
    BY <2>2, <2>4, <2>6 DEF ResidentOf, GhostsOf, Sound, Apart
  <2>11. /\ ToSet(s.b1) \subseteq ToSet(t.b1)
         /\ ToSet(s.b2) \subseteq ToSet(t.b2)
    BY <2>4, <2>6
  <2> QED BY <2>6, <2>8, <2>9, <2>10, <2>11, Zenon DEF t
<1>2. CASE ~FromT1(s, key)
  <2> DEFINE v == Last(s.t2)
             q == PopBack(s.t2)
             g == PushFront(s.b2, v)
  <2>1. s.t2 # <<>> /\ ListOK(s.t2) /\ ListOK(s.b2)
    BY <1>2 DEF Sound
  <2>2. /\ ListOK(q) /\ v \in ToSet(s.t2) /\ v \in Keys
        /\ ToSet(q) = ToSet(s.t2) \ {v} /\ Len(q) = Len(s.t2) - 1
    BY <2>1, PopBackOK
  <2>3. ~Has(s.b2, v)
    BY <2>2 DEF Has, Sound, Apart
  <2>4. /\ ListOK(g) /\ ToSet(g) = ToSet(s.b2) \cup {v}
        /\ Len(g) = Len(s.b2) + 1
    BY <2>1, <2>2, <2>3, PushFrontOK
  <2>5. t = [s EXCEPT !.t2 = q, !.b2 = g]
    BY <1>2, <2>1 DEF replace_, EvictT2
  <2> HIDE DEF v, q, g, t
  <2>6. /\ t.t1 = s.t1 /\ t.t2 = q /\ t.b1 = s.b1 /\ t.b2 = g
        /\ t.p_ = s.p_ /\ t.ub = s.ub
        /\ t \in [t1 : Seq(Keys), t2 : Seq(Keys), b1 : Seq(Keys),
                  b2 : Seq(Keys), p_ : 0 .. buffer_size * Unit, ub : {FALSE}]
    BY <2>2, <2>4, <2>5 DEF Sound, ListOK
  <2>7. Apart(ToSet(t.t1), ToSet(t.t2), ToSet(t.b1), ToSet(t.b2))
    BY <2>2, <2>4, <2>6 DEF Sound, Apart
  <2>8. Sound(t)
    BY <2>2, <2>4, <2>6, <2>7 DEF Sound
  <2>9. /\ T1(t) + B1(t) = T1(s) + B1(s)
        /\ T2(t) + B2(t) = T2(s) + B2(s)
        /\ T1(t) + T2(t) = T1(s) + T2(s) - 1
    <3>1. /\ T1(t) = T1(s) /\ T2(t) = T2(s) - 1
          /\ B1(t) = B1(s) /\ B2(t) = B2(s) + 1
      BY <2>2, <2>4, <2>6, Zenon DEF T1, T2, B1, B2
    <3> QED BY <3>1, Lengths
  <2>10. /\ v \in ResidentOf(s)
         /\ ResidentOf(t) = ResidentOf(s) \ {v}
         /\ GhostsOf(t) = GhostsOf(s) \cup {v}
    BY <2>2, <2>4, <2>6 DEF ResidentOf, GhostsOf, Sound, Apart
  <2>11. /\ ToSet(s.b1) \subseteq ToSet(t.b1)
         /\ ToSet(s.b2) \subseteq ToSet(t.b2)
    BY <2>4, <2>6
  <2> QED BY <2>6, <2>8, <2>9, <2>10, <2>11, Zenon DEF t
<1> QED BY <1>1, <1>2

\* The key leaves the list that has it.
LEMMA RemoveT1 ==
  ASSUME NEW s, Sound(s), NEW k, k \in ToSet(s.t1)
  PROVE  LET t == [s EXCEPT !.t1 = RemoveKey(@, k)]
         IN /\ Sound(t) /\ t.p_ = s.p_
            /\ T1(t) = T1(s) - 1
            /\ ToSet(t.t1) = ToSet(s.t1) \ {k}
            /\ t.t2 = s.t2 /\ t.b1 = s.b1 /\ t.b2 = s.b2
            /\ T2(t) = T2(s) /\ B1(t) = B1(s) /\ B2(t) = B2(s)
<1> DEFINE t == [s EXCEPT !.t1 = RemoveKey(@, k)]
           q == RemoveKey(s.t1, k)
<1>1. ListOK(q) /\ ToSet(q) = ToSet(s.t1) \ {k} /\ Len(q) = Len(s.t1) - 1
  BY RemoveKeyOK DEF Sound, Has
<1>2. t = [s EXCEPT !.t1 = q]
  OBVIOUS
<1> HIDE DEF t, q
<1>3. /\ t.t1 = q /\ t.t2 = s.t2 /\ t.b1 = s.b1 /\ t.b2 = s.b2
      /\ t.p_ = s.p_ /\ t.ub = s.ub
      /\ t \in [t1 : Seq(Keys), t2 : Seq(Keys), b1 : Seq(Keys), b2 : Seq(Keys),
                p_ : 0 .. buffer_size * Unit, ub : {FALSE}]
  BY <1>1, <1>2 DEF Sound, ListOK
<1>4. Sound(t)
  BY <1>1, <1>3 DEF Sound, Apart, Has
<1>5. /\ T1(t) = T1(s) - 1
      /\ T2(t) = T2(s) /\ B1(t) = B1(s) /\ B2(t) = B2(s)
  BY <1>1, <1>3, Zenon DEF T1, T2, B1, B2
<1> QED BY <1>1, <1>3, <1>4, <1>5 DEF t

LEMMA RemoveT2 ==
  ASSUME NEW s, Sound(s), NEW k, k \in ToSet(s.t2)
  PROVE  LET t == [s EXCEPT !.t2 = RemoveKey(@, k)]
         IN /\ Sound(t) /\ t.p_ = s.p_
            /\ T2(t) = T2(s) - 1
            /\ ToSet(t.t2) = ToSet(s.t2) \ {k}
            /\ t.t1 = s.t1 /\ t.b1 = s.b1 /\ t.b2 = s.b2
            /\ T1(t) = T1(s) /\ B1(t) = B1(s) /\ B2(t) = B2(s)
<1> DEFINE t == [s EXCEPT !.t2 = RemoveKey(@, k)]
           q == RemoveKey(s.t2, k)
<1>1. ListOK(q) /\ ToSet(q) = ToSet(s.t2) \ {k} /\ Len(q) = Len(s.t2) - 1
  BY RemoveKeyOK DEF Sound, Has
<1>2. t = [s EXCEPT !.t2 = q]
  OBVIOUS
<1> HIDE DEF t, q
<1>3. /\ t.t2 = q /\ t.t1 = s.t1 /\ t.b1 = s.b1 /\ t.b2 = s.b2
      /\ t.p_ = s.p_ /\ t.ub = s.ub
      /\ t \in [t1 : Seq(Keys), t2 : Seq(Keys), b1 : Seq(Keys), b2 : Seq(Keys),
                p_ : 0 .. buffer_size * Unit, ub : {FALSE}]
  BY <1>1, <1>2 DEF Sound, ListOK
<1>4. Sound(t)
  BY <1>1, <1>3 DEF Sound, Apart, Has
<1>5. /\ T2(t) = T2(s) - 1
      /\ T1(t) = T1(s) /\ B1(t) = B1(s) /\ B2(t) = B2(s)
  BY <1>1, <1>3, Zenon DEF T1, T2, B1, B2
<1> QED BY <1>1, <1>3, <1>4, <1>5 DEF t

LEMMA RemoveB1 ==
  ASSUME NEW s, Sound(s), NEW k, k \in ToSet(s.b1)
  PROVE  LET t == [s EXCEPT !.b1 = RemoveKey(@, k)]
         IN /\ Sound(t) /\ t.p_ = s.p_
            /\ B1(t) = B1(s) - 1
            /\ ToSet(t.b1) = ToSet(s.b1) \ {k}
            /\ t.t1 = s.t1 /\ t.t2 = s.t2 /\ t.b2 = s.b2
            /\ T1(t) = T1(s) /\ T2(t) = T2(s) /\ B2(t) = B2(s)
<1> DEFINE t == [s EXCEPT !.b1 = RemoveKey(@, k)]
           q == RemoveKey(s.b1, k)
<1>1. ListOK(q) /\ ToSet(q) = ToSet(s.b1) \ {k} /\ Len(q) = Len(s.b1) - 1
  BY RemoveKeyOK DEF Sound, Has
<1>2. t = [s EXCEPT !.b1 = q]
  OBVIOUS
<1> HIDE DEF t, q
<1>3. /\ t.b1 = q /\ t.t1 = s.t1 /\ t.t2 = s.t2 /\ t.b2 = s.b2
      /\ t.p_ = s.p_ /\ t.ub = s.ub
      /\ t \in [t1 : Seq(Keys), t2 : Seq(Keys), b1 : Seq(Keys), b2 : Seq(Keys),
                p_ : 0 .. buffer_size * Unit, ub : {FALSE}]
  BY <1>1, <1>2 DEF Sound, ListOK
<1>4. Sound(t)
  BY <1>1, <1>3 DEF Sound, Apart, Has
<1>5. /\ B1(t) = B1(s) - 1
      /\ T1(t) = T1(s) /\ T2(t) = T2(s) /\ B2(t) = B2(s)
  BY <1>1, <1>3, Zenon DEF T1, T2, B1, B2
<1> QED BY <1>1, <1>3, <1>4, <1>5 DEF t

LEMMA RemoveB2 ==
  ASSUME NEW s, Sound(s), NEW k, k \in ToSet(s.b2)
  PROVE  LET t == [s EXCEPT !.b2 = RemoveKey(@, k)]
         IN /\ Sound(t) /\ t.p_ = s.p_
            /\ B2(t) = B2(s) - 1
            /\ ToSet(t.b2) = ToSet(s.b2) \ {k}
            /\ t.t1 = s.t1 /\ t.t2 = s.t2 /\ t.b1 = s.b1
            /\ T1(t) = T1(s) /\ T2(t) = T2(s) /\ B1(t) = B1(s)
<1> DEFINE t == [s EXCEPT !.b2 = RemoveKey(@, k)]
           q == RemoveKey(s.b2, k)
<1>1. ListOK(q) /\ ToSet(q) = ToSet(s.b2) \ {k} /\ Len(q) = Len(s.b2) - 1
  BY RemoveKeyOK DEF Sound, Has
<1>2. t = [s EXCEPT !.b2 = q]
  OBVIOUS
<1> HIDE DEF t, q
<1>3. /\ t.b2 = q /\ t.t1 = s.t1 /\ t.t2 = s.t2 /\ t.b1 = s.b1
      /\ t.p_ = s.p_ /\ t.ub = s.ub
      /\ t \in [t1 : Seq(Keys), t2 : Seq(Keys), b1 : Seq(Keys), b2 : Seq(Keys),
                p_ : 0 .. buffer_size * Unit, ub : {FALSE}]
  BY <1>1, <1>2 DEF Sound, ListOK
<1>4. Sound(t)
  BY <1>1, <1>3 DEF Sound, Apart, Has
<1>5. /\ B2(t) = B2(s) - 1
      /\ T1(t) = T1(s) /\ T2(t) = T2(s) /\ B1(t) = B1(s)
  BY <1>1, <1>3, Zenon DEF T1, T2, B1, B2
<1> QED BY <1>1, <1>3, <1>4, <1>5 DEF t

\* A key that is in no list is pushed.
LEMMA PushT1 ==
  ASSUME NEW s, Sound(s), NEW k \in Keys,
         k \notin ResidentOf(s), k \notin GhostsOf(s)
  PROVE  LET t == InT1(s, k)
         IN /\ Sound(t) /\ t.p_ = s.p_
            /\ T1(t) = T1(s) + 1
            /\ ToSet(t.t1) = ToSet(s.t1) \cup {k}
            /\ t.t2 = s.t2 /\ t.b1 = s.b1 /\ t.b2 = s.b2
            /\ T2(t) = T2(s) /\ B1(t) = B1(s) /\ B2(t) = B2(s)
<1> DEFINE t == InT1(s, k)
           q == PushFront(s.t1, k)
<1>1. ListOK(q) /\ ToSet(q) = ToSet(s.t1) \cup {k} /\ Len(q) = Len(s.t1) + 1
  BY PushFrontOK DEF Sound, Has, ResidentOf
<1>2. t = [s EXCEPT !.t1 = q]
  BY DEF InT1, InT2
<1> HIDE DEF t, q
<1>3. /\ t.t1 = q /\ t.t2 = s.t2 /\ t.b1 = s.b1 /\ t.b2 = s.b2
      /\ t.p_ = s.p_ /\ t.ub = s.ub
      /\ t \in [t1 : Seq(Keys), t2 : Seq(Keys), b1 : Seq(Keys), b2 : Seq(Keys),
                p_ : 0 .. buffer_size * Unit, ub : {FALSE}]
  BY <1>1, <1>2 DEF Sound, ListOK
<1>4. Sound(t)
  BY <1>1, <1>3 DEF Sound, Apart, ResidentOf, GhostsOf
<1>5. /\ T1(t) = T1(s) + 1
      /\ T2(t) = T2(s) /\ B1(t) = B1(s) /\ B2(t) = B2(s)
  BY <1>1, <1>3, Zenon DEF T1, T2, B1, B2
<1> QED BY <1>1, <1>3, <1>4, <1>5 DEF t

LEMMA PushT2 ==
  ASSUME NEW s, Sound(s), NEW k \in Keys,
         k \notin ResidentOf(s), k \notin GhostsOf(s)
  PROVE  LET t == InT2(s, k)
         IN /\ Sound(t) /\ t.p_ = s.p_
            /\ T2(t) = T2(s) + 1
            /\ ToSet(t.t2) = ToSet(s.t2) \cup {k}
            /\ t.t1 = s.t1 /\ t.b1 = s.b1 /\ t.b2 = s.b2
            /\ T1(t) = T1(s) /\ B1(t) = B1(s) /\ B2(t) = B2(s)
<1> DEFINE t == InT2(s, k)
           q == PushFront(s.t2, k)
<1>1. ListOK(q) /\ ToSet(q) = ToSet(s.t2) \cup {k} /\ Len(q) = Len(s.t2) + 1
  BY PushFrontOK DEF Sound, Has, ResidentOf
<1>2. t = [s EXCEPT !.t2 = q]
  BY DEF InT1, InT2
<1> HIDE DEF t, q
<1>3. /\ t.t2 = q /\ t.t1 = s.t1 /\ t.b1 = s.b1 /\ t.b2 = s.b2
      /\ t.p_ = s.p_ /\ t.ub = s.ub
      /\ t \in [t1 : Seq(Keys), t2 : Seq(Keys), b1 : Seq(Keys), b2 : Seq(Keys),
                p_ : 0 .. buffer_size * Unit, ub : {FALSE}]
  BY <1>1, <1>2 DEF Sound, ListOK
<1>4. Sound(t)
  BY <1>1, <1>3 DEF Sound, Apart, ResidentOf, GhostsOf
<1>5. /\ T2(t) = T2(s) + 1
      /\ T1(t) = T1(s) /\ B1(t) = B1(s) /\ B2(t) = B2(s)
  BY <1>1, <1>3, Zenon DEF T1, T2, B1, B2
<1> QED BY <1>1, <1>3, <1>4, <1>5 DEF t

\* The last key of a list is forgotten.
LEMMA PopT1 ==
  ASSUME NEW s, Sound(s), s.t1 # <<>>
  PROVE  LET t == [s EXCEPT !.t1 = PopBack(@)]
         IN /\ Sound(t) /\ t.p_ = s.p_
            /\ T1(t) = T1(s) - 1
            /\ ToSet(t.t1) = ToSet(s.t1) \ {Last(s.t1)}
            /\ t.t2 = s.t2 /\ t.b1 = s.b1 /\ t.b2 = s.b2
            /\ T2(t) = T2(s) /\ B1(t) = B1(s) /\ B2(t) = B2(s)
<1> DEFINE t == [s EXCEPT !.t1 = PopBack(@)]
           q == PopBack(s.t1)
<1>1. ListOK(q) /\ ToSet(q) = ToSet(s.t1) \ {Last(s.t1)} /\ Len(q) = Len(s.t1) - 1
  BY PopBackOK DEF Sound, Has
<1>2. t = [s EXCEPT !.t1 = q]
  OBVIOUS
<1> HIDE DEF t, q
<1>3. /\ t.t1 = q /\ t.t2 = s.t2 /\ t.b1 = s.b1 /\ t.b2 = s.b2
      /\ t.p_ = s.p_ /\ t.ub = s.ub
      /\ t \in [t1 : Seq(Keys), t2 : Seq(Keys), b1 : Seq(Keys), b2 : Seq(Keys),
                p_ : 0 .. buffer_size * Unit, ub : {FALSE}]
  BY <1>1, <1>2 DEF Sound, ListOK
<1>4. Sound(t)
  BY <1>1, <1>3 DEF Sound, Apart, Has
<1>5. /\ T1(t) = T1(s) - 1
      /\ T2(t) = T2(s) /\ B1(t) = B1(s) /\ B2(t) = B2(s)
  BY <1>1, <1>3, Zenon DEF T1, T2, B1, B2
<1> QED BY <1>1, <1>3, <1>4, <1>5 DEF t

LEMMA PopB1 ==
  ASSUME NEW s, Sound(s), s.b1 # <<>>
  PROVE  LET t == [s EXCEPT !.b1 = PopBack(@)]
         IN /\ Sound(t) /\ t.p_ = s.p_
            /\ B1(t) = B1(s) - 1
            /\ ToSet(t.b1) = ToSet(s.b1) \ {Last(s.b1)}
            /\ t.t1 = s.t1 /\ t.t2 = s.t2 /\ t.b2 = s.b2
            /\ T1(t) = T1(s) /\ T2(t) = T2(s) /\ B2(t) = B2(s)
<1> DEFINE t == [s EXCEPT !.b1 = PopBack(@)]
           q == PopBack(s.b1)
<1>1. ListOK(q) /\ ToSet(q) = ToSet(s.b1) \ {Last(s.b1)} /\ Len(q) = Len(s.b1) - 1
  BY PopBackOK DEF Sound, Has
<1>2. t = [s EXCEPT !.b1 = q]
  OBVIOUS
<1> HIDE DEF t, q
<1>3. /\ t.b1 = q /\ t.t1 = s.t1 /\ t.t2 = s.t2 /\ t.b2 = s.b2
      /\ t.p_ = s.p_ /\ t.ub = s.ub
      /\ t \in [t1 : Seq(Keys), t2 : Seq(Keys), b1 : Seq(Keys), b2 : Seq(Keys),
                p_ : 0 .. buffer_size * Unit, ub : {FALSE}]
  BY <1>1, <1>2 DEF Sound, ListOK
<1>4. Sound(t)
  BY <1>1, <1>3 DEF Sound, Apart, Has
<1>5. /\ B1(t) = B1(s) - 1
      /\ T1(t) = T1(s) /\ T2(t) = T2(s) /\ B2(t) = B2(s)
  BY <1>1, <1>3, Zenon DEF T1, T2, B1, B2
<1> QED BY <1>1, <1>3, <1>4, <1>5 DEF t

LEMMA PopB2 ==
  ASSUME NEW s, Sound(s), s.b2 # <<>>
  PROVE  LET t == [s EXCEPT !.b2 = PopBack(@)]
         IN /\ Sound(t) /\ t.p_ = s.p_
            /\ B2(t) = B2(s) - 1
            /\ ToSet(t.b2) = ToSet(s.b2) \ {Last(s.b2)}
            /\ t.t1 = s.t1 /\ t.t2 = s.t2 /\ t.b1 = s.b1
            /\ T1(t) = T1(s) /\ T2(t) = T2(s) /\ B1(t) = B1(s)
<1> DEFINE t == [s EXCEPT !.b2 = PopBack(@)]
           q == PopBack(s.b2)
<1>1. ListOK(q) /\ ToSet(q) = ToSet(s.b2) \ {Last(s.b2)} /\ Len(q) = Len(s.b2) - 1
  BY PopBackOK DEF Sound, Has
<1>2. t = [s EXCEPT !.b2 = q]
  OBVIOUS
<1> HIDE DEF t, q
<1>3. /\ t.b2 = q /\ t.t1 = s.t1 /\ t.t2 = s.t2 /\ t.b1 = s.b1
      /\ t.p_ = s.p_ /\ t.ub = s.ub
      /\ t \in [t1 : Seq(Keys), t2 : Seq(Keys), b1 : Seq(Keys), b2 : Seq(Keys),
                p_ : 0 .. buffer_size * Unit, ub : {FALSE}]
  BY <1>1, <1>2 DEF Sound, ListOK
<1>4. Sound(t)
  BY <1>1, <1>3 DEF Sound, Apart, Has
<1>5. /\ B2(t) = B2(s) - 1
      /\ T1(t) = T1(s) /\ T2(t) = T2(s) /\ B1(t) = B1(s)
  BY <1>1, <1>3, Zenon DEF T1, T2, B1, B2
<1> QED BY <1>1, <1>3, <1>4, <1>5 DEF t

-----------------------------------------------------------------------------
(* The target *)

LEMMA StepAtLeastUnit ==
  ASSUME NEW b, ListOK(b), b # <<>>, NEW c, ListOK(c)
  PROVE  Step(b, c) \in Nat /\ Step(b, c) >= Unit
<1> DEFINE m == Len(b)
           n == Len(c)
<1>1. m \in Nat \ {0} /\ n \in Nat /\ Unit \in Nat
  BY NoKeysNoList, ARCAssumption
<1>2. Step(b, c) = IF m >= n THEN Unit ELSE (n * Unit) \div m
  BY DEF Step
<1> HIDE DEF m, n
<1>3. CASE m >= n
  BY <1>1, <1>2, <1>3
<1>4. CASE ~(m >= n)
  <2>1. n * Unit \in Nat /\ n * Unit >= m * Unit
    BY <1>1, <1>4
  <2>2. (n * Unit) \div m \in Nat /\ (n * Unit) \div m >= Unit
    BY <1>1, <2>1, DivAtLeast, DivType
  <2> QED BY <1>2, <1>4, <2>2
<1> QED BY <1>3, <1>4

LEMMA SizeType == buffer_size \in Nat \ {0}
BY ARCAssumption

LEMMA CapType == buffer_size \in Nat \ {0} /\ buffer_size * Unit \in Nat
BY ARCAssumption

\* A new target within the buffer
LEMMA TargetOK ==
  ASSUME NEW s, Sound(s), NEW p \in 0 .. buffer_size * Unit
  PROVE  LET t == [s EXCEPT !.p_ = p]
         IN /\ Sound(t) /\ t.p_ = p
            /\ t.t1 = s.t1 /\ t.t2 = s.t2 /\ t.b1 = s.b1 /\ t.b2 = s.b2
            /\ T1(t) = T1(s) /\ T2(t) = T2(s) /\ B1(t) = B1(s) /\ B2(t) = B2(s)
            /\ ResidentOf(t) = ResidentOf(s) /\ GhostsOf(t) = GhostsOf(s)
BY DEF Sound, ListOK, T1, T2, B1, B2, ResidentOf, GhostsOf

\* A test that finds t1 no longer than the target leaves t2 with a page, if the
\* target is under the buffer and the buffer is full, or if t1 is not.
LEMMA T2HasPage ==
  ASSUME NEW s, Sound(s), NEW key,
         T1(s) + T2(s) = buffer_size,
         s.p_ \div Unit < buffer_size \/ T1(s) < buffer_size
  PROVE  FromT1(s, key) \/ s.t2 # <<>>
<1>1. /\ T1(s) \in Nat /\ T2(s) \in Nat
      /\ s.t1 = <<>> <=> T1(s) = 0
      /\ s.t2 = <<>> <=> T2(s) = 0
  BY Lengths
<1>2. buffer_size \in Nat \ {0}
  BY ARCAssumption
<1> DEFINE p == s.p_ \div Unit
<1>3. p \in Int
  BY ARCAssumption DEF Sound
<1>4. s.t1 # <<>> /\ T1(s) > p => FromT1(s, key)
  BY DEF FromT1, T1
<1> HIDE DEF p
<1>5. ASSUME s.t2 = <<>> PROVE FromT1(s, key)
  <2>1. T1(s) = buffer_size /\ T1(s) # 0
    BY <1>1, <1>2, <1>5
  <2>2. p < buffer_size
    BY <1>2, <2>1 DEF p
  <2> QED BY <1>1, <1>4, <2>1, <2>2
<1> QED BY <1>5

-----------------------------------------------------------------------------
(* The cases of an access *)

\* What a miss does to the pages when it evicts one
Evicts(s, t, key) ==
  /\ key \notin ResidentOf(s)
  /\ T1(s) + T2(s) = buffer_size
  /\ \E v \in ResidentOf(s) : ResidentOf(t) = (ResidentOf(s) \ {v}) \cup {key}

Fills(s, t, key) ==
  /\ key \notin ResidentOf(s)
  /\ T1(s) + T2(s) < buffer_size
  /\ ResidentOf(t) = ResidentOf(s) \cup {key}

Keeps(s, t, key) == key \in ResidentOf(s) /\ ResidentOf(t) = ResidentOf(s)

LEMMA HitOK ==
  ASSUME ARCInv, NEW key \in Keys, Hit(key)
  PROVE  ARCInv' /\ Keeps(arc, arc', key)
<1>1. Sound(arc) /\ Fits(arc)
  BY DEF ARCInv
<1>2. CASE Has(arc.t1, key) /\ arc' = InT2([arc EXCEPT !.t1 = RemoveKey(@, key)], key)
  <2> DEFINE s == [arc EXCEPT !.t1 = RemoveKey(@, key)]
  <2>1. /\ Sound(s)
        /\ T1(s) = T1(arc) - 1 /\ T2(s) = T2(arc)
        /\ B1(s) = B1(arc) /\ B2(s) = B2(arc)
        /\ ToSet(s.t1) = ToSet(arc.t1) \ {key} /\ s.t2 = arc.t2
        /\ s.b1 = arc.b1 /\ s.b2 = arc.b2
    BY <1>1, <1>2, RemoveT1 DEF Has
  <2> HIDE DEF s
  <2>2. key \in ToSet(arc.t1) /\ key \notin ResidentOf(s) /\ key \notin GhostsOf(s)
    BY <1>1, <1>2, <2>1 DEF Has, Sound, Apart, ResidentOf, GhostsOf
  <2>3. /\ Sound(arc')
        /\ T1(arc') = T1(s) /\ T2(arc') = T2(s) + 1
        /\ B1(arc') = B1(s) /\ B2(arc') = B2(s)
        /\ ToSet(arc'.t2) = ToSet(s.t2) \cup {key} /\ arc'.t1 = s.t1
    BY <1>2, <2>1, <2>2, PushT2 DEF s
  <2>4. Keeps(arc, arc', key)
    BY <2>1, <2>2, <2>3 DEF Keeps, ResidentOf
  <2>5. Fits(arc')
    <3>1. /\ T1(arc) \in Nat /\ T2(arc) \in Nat
          /\ B1(arc) \in Nat /\ B2(arc) \in Nat
      BY <1>1, Lengths
    <3> QED BY <1>1, <2>1, <2>3, <3>1, SizeType DEF Fits
  <2> QED BY <2>3, <2>4, <2>5 DEF ARCInv
<1>3. CASE Has(arc.t2, key) /\ arc' = InT2([arc EXCEPT !.t2 = RemoveKey(@, key)], key)
  <2> DEFINE s == [arc EXCEPT !.t2 = RemoveKey(@, key)]
  <2>1. /\ Sound(s)
        /\ T1(s) = T1(arc) /\ T2(s) = T2(arc) - 1
        /\ B1(s) = B1(arc) /\ B2(s) = B2(arc)
        /\ ToSet(s.t2) = ToSet(arc.t2) \ {key} /\ s.t1 = arc.t1
        /\ s.b1 = arc.b1 /\ s.b2 = arc.b2
    BY <1>1, <1>3, RemoveT2 DEF Has
  <2> HIDE DEF s
  <2>2. key \in ToSet(arc.t2) /\ key \notin ResidentOf(s) /\ key \notin GhostsOf(s)
    BY <1>1, <1>3, <2>1 DEF Has, Sound, Apart, ResidentOf, GhostsOf
  <2>3. /\ Sound(arc')
        /\ T1(arc') = T1(s) /\ T2(arc') = T2(s) + 1
        /\ B1(arc') = B1(s) /\ B2(arc') = B2(s)
        /\ ToSet(arc'.t2) = ToSet(s.t2) \cup {key} /\ arc'.t1 = s.t1
    BY <1>3, <2>1, <2>2, PushT2 DEF s
  <2>4. Keeps(arc, arc', key)
    BY <2>1, <2>2, <2>3 DEF Keeps, ResidentOf
  <2>5. Fits(arc')
    <3>1. /\ T1(arc) \in Nat /\ T2(arc) \in Nat
          /\ B1(arc) \in Nat /\ B2(arc) \in Nat
      BY <1>1, Lengths
    <3> QED BY <1>1, <2>1, <2>3, <3>1, SizeType DEF Fits
  <2> QED BY <2>3, <2>4, <2>5 DEF ARCInv
<1> QED BY <1>2, <1>3 DEF Hit

\* A hit in a ghost: the page comes back into t2.
LEMMA HitB1OK ==
  ASSUME ARCInv, NEW key \in Keys, HitB1(key)
  PROVE  ARCInv' /\ Evicts(arc, arc', key)
<1> DEFINE p == Min({arc.p_ + Step(arc.b1, arc.b2), buffer_size * Unit})
           a == [arc EXCEPT !.p_ = p]
           s == replace_(a, key)
           u == [s EXCEPT !.b1 = RemoveKey(@, key)]
<1>1. Sound(arc) /\ Fits(arc)
  BY DEF ARCInv
<1>2. /\ key \notin ResidentOf(arc) /\ key \in ToSet(arc.b1)
      /\ arc' = InT2(u, key)
  BY DEF HitB1, Miss, Has, ResidentOf
<1>3. B1(arc) > 0 /\ arc.b1 # <<>>
  BY <1>1, <1>2, NoKeysNoList DEF Sound, B1
<1>4. p \in 0 .. buffer_size * Unit
  <2>1. Step(arc.b1, arc.b2) \in Nat /\ arc.p_ \in Nat
    BY <1>1, <1>3, StepAtLeastUnit, CapType DEF Sound
  <2>2. arc.p_ + Step(arc.b1, arc.b2) \in Nat
    BY <2>1
  <2>3. p = IF arc.p_ + Step(arc.b1, arc.b2) < buffer_size * Unit
            THEN arc.p_ + Step(arc.b1, arc.b2) ELSE buffer_size * Unit
    BY <2>2, CapType, MinOfTwo
  <2> HIDE DEF p
  <2> QED BY <2>2, <2>3, CapType
<1> HIDE DEF p
<1>5. /\ Sound(a) /\ a.t1 = arc.t1 /\ a.t2 = arc.t2
      /\ a.b1 = arc.b1 /\ a.b2 = arc.b2
      /\ T1(a) = T1(arc) /\ T2(a) = T2(arc) /\ B1(a) = B1(arc) /\ B2(a) = B2(arc)
      /\ ResidentOf(a) = ResidentOf(arc) /\ GhostsOf(a) = GhostsOf(arc)
  BY <1>1, <1>4, TargetOK
<1>6. FromT1(a, key) \/ a.t2 # <<>>
  <2>1. /\ T1(a) \in Nat /\ T2(a) \in Nat /\ B1(a) \in Nat /\ B2(a) \in Nat
    BY <1>5, Lengths
  <2>2. T1(a) + T2(a) = buffer_size /\ T1(a) < buffer_size
    BY <1>1, <1>3, <1>5, <2>1, CapType DEF Fits
  <2> HIDE DEF a
  <2> QED BY <1>5, <2>2, T2HasPage
<1> HIDE DEF a
<1>7. /\ Sound(s)
      /\ T1(s) + B1(s) = T1(a) + B1(a)
      /\ T2(s) + B2(s) = T2(a) + B2(a)
      /\ T1(s) + T2(s) = T1(a) + T2(a) - 1
      /\ \E v \in ResidentOf(a) : /\ ResidentOf(s) = ResidentOf(a) \ {v}
                                  /\ GhostsOf(s) = GhostsOf(a) \cup {v}
      /\ ToSet(a.b1) \subseteq ToSet(s.b1)
  BY <1>5, <1>6, ReplaceOK
<1> HIDE DEF s
<1>8. /\ Sound(u)
      /\ T1(u) = T1(s) /\ T2(u) = T2(s) /\ B1(u) = B1(s) - 1 /\ B2(u) = B2(s)
      /\ ToSet(u.b1) = ToSet(s.b1) \ {key}
      /\ u.t1 = s.t1 /\ u.t2 = s.t2 /\ u.b2 = s.b2
  BY <1>2, <1>5, <1>7, RemoveB1
<1> HIDE DEF u
<1>9. /\ key \notin ResidentOf(u) /\ key \notin GhostsOf(u)
  <2>1. ResidentOf(u) = ResidentOf(s) /\ key \in ToSet(s.b1)
    BY <1>2, <1>5, <1>7, <1>8 DEF ResidentOf
  <2>2. key \notin ToSet(s.b2) /\ key \notin ResidentOf(s)
    BY <1>7, <2>1 DEF Sound, Apart, ResidentOf
  <2> QED BY <1>8, <2>1, <2>2 DEF GhostsOf
<1>10. /\ Sound(arc')
       /\ T1(arc') = T1(u) /\ T2(arc') = T2(u) + 1
       /\ B1(arc') = B1(u) /\ B2(arc') = B2(u)
       /\ ToSet(arc'.t2) = ToSet(u.t2) \cup {key} /\ arc'.t1 = u.t1
  BY <1>2, <1>8, <1>9, PushT2
<1>11. Fits(arc') /\ T1(arc) + T2(arc) = buffer_size
  <2>1. /\ T1(arc) \in Nat /\ T2(arc) \in Nat /\ B1(arc) \in Nat /\ B2(arc) \in Nat
        /\ T1(s) \in Nat /\ T2(s) \in Nat /\ B1(s) \in Nat /\ B2(s) \in Nat
    BY <1>1, <1>7, Lengths
  <2>2. T1(arc) + T2(arc) = buffer_size
    BY <1>1, <1>3, <2>1 DEF Fits
  <2>3. /\ T1(s) + B1(s) = T1(arc) + B1(arc)
        /\ T2(s) + B2(s) = T2(arc) + B2(arc)
        /\ T1(s) + T2(s) = buffer_size - 1
    <3>1. /\ T1(a) = T1(arc) /\ T2(a) = T2(arc)
          /\ B1(a) = B1(arc) /\ B2(a) = B2(arc)
      BY <1>5
    <3>2. /\ T1(s) + B1(s) = T1(a) + B1(a)
          /\ T2(s) + B2(s) = T2(a) + B2(a)
          /\ T1(s) + T2(s) = T1(a) + T2(a) - 1
      BY <1>7
    <3> QED BY <2>1, <2>2, <3>1, <3>2
  <2>4. /\ T1(arc') = T1(s) /\ T2(arc') = T2(s) + 1
        /\ B1(arc') = B1(s) - 1 /\ B2(arc') = B2(s)
    BY <1>8, <1>10
  <2>5. T1(arc) + T2(arc) + B1(arc) + B2(arc) <= 2 * buffer_size
        /\ T1(arc) + B1(arc) <= buffer_size
    BY <1>1 DEF Fits
  <2>6. /\ T1(arc') + T2(arc') = buffer_size
        /\ T1(arc') + B1(arc') <= buffer_size
        /\ T1(arc') + T2(arc') + B1(arc') + B2(arc') <= 2 * buffer_size
    BY <2>1, <2>2, <2>3, <2>4, <2>5, SizeType
  <2> QED BY <2>2, <2>6, SizeType DEF Fits
<1>12. Evicts(arc, arc', key)
  <2>1. PICK v \in ResidentOf(a) : ResidentOf(s) = ResidentOf(a) \ {v}
    BY <1>7
  <2>2. ResidentOf(arc') = (ResidentOf(arc) \ {v}) \cup {key}
    BY <1>5, <1>8, <1>10, <2>1 DEF ResidentOf
  <2> QED BY <1>2, <1>5, <1>11, <2>1, <2>2 DEF Evicts
<1> QED BY <1>10, <1>11, <1>12 DEF ARCInv

LEMMA HitB2OK ==
  ASSUME ARCInv, NEW key \in Keys, HitB2(key)
  PROVE  ARCInv' /\ Evicts(arc, arc', key)
<1> DEFINE p == Max({arc.p_ - Step(arc.b2, arc.b1), 0})
           a == [arc EXCEPT !.p_ = p]
           s == replace_(a, key)
           u == [s EXCEPT !.b2 = RemoveKey(@, key)]
<1>1. Sound(arc) /\ Fits(arc)
  BY DEF ARCInv
<1>2. /\ key \notin ResidentOf(arc) /\ key \in ToSet(arc.b2)
      /\ arc' = InT2(u, key)
  BY DEF HitB2, Miss, Has, ResidentOf
<1>3. B2(arc) > 0 /\ arc.b2 # <<>>
  BY <1>1, <1>2, NoKeysNoList DEF Sound, B2
<1>4. p \in 0 .. buffer_size * Unit /\ p \div Unit < buffer_size
  <2> DEFINE d == Step(arc.b2, arc.b1)
             cap == buffer_size * Unit
  <2>1. d \in Nat /\ d >= Unit /\ arc.p_ \in Nat /\ arc.p_ <= cap
    BY <1>1, <1>3, StepAtLeastUnit, CapType DEF Sound
  <2>2. p = IF arc.p_ - d < 0 THEN 0 ELSE arc.p_ - d
    BY <2>1, MaxWithZero
  <2>3. buffer_size - 1 \in Nat /\ Unit \in Nat \ {0} /\ Unit * (buffer_size - 1) = cap - Unit
        /\ cap \in Nat /\ Unit * (buffer_size - 1) \in Nat
    BY ARCAssumption
  <2> DEFINE low == Unit * (buffer_size - 1)
  <2> HIDE DEF p, d, cap, low
  <2>4. p \in Nat /\ p <= low /\ p <= cap
    BY <2>1, <2>2, <2>3 DEF low
  <2>5. p \div Unit <= buffer_size - 1 /\ p \div Unit \in Nat
    BY <2>3, <2>4, DivAtMost, DivType DEF low
  <2> QED BY <2>4, <2>5, SizeType DEF cap
<1> HIDE DEF p
<1>5. /\ Sound(a) /\ a.p_ = p /\ a.t1 = arc.t1 /\ a.t2 = arc.t2
      /\ a.b1 = arc.b1 /\ a.b2 = arc.b2
      /\ T1(a) = T1(arc) /\ T2(a) = T2(arc) /\ B1(a) = B1(arc) /\ B2(a) = B2(arc)
      /\ ResidentOf(a) = ResidentOf(arc) /\ GhostsOf(a) = GhostsOf(arc)
  BY <1>1, <1>4, TargetOK
<1>6. FromT1(a, key) \/ a.t2 # <<>>
  <2>1. /\ T1(a) \in Nat /\ T2(a) \in Nat /\ B1(a) \in Nat /\ B2(a) \in Nat
    BY <1>5, Lengths
  <2>2. T1(a) + T2(a) = buffer_size /\ a.p_ \div Unit < buffer_size
    BY <1>1, <1>3, <1>4, <1>5, <2>1, SizeType DEF Fits
  <2> HIDE DEF a
  <2> QED BY <1>5, <2>2, T2HasPage
<1> HIDE DEF a
<1>7. /\ Sound(s)
      /\ T1(s) + B1(s) = T1(a) + B1(a)
      /\ T2(s) + B2(s) = T2(a) + B2(a)
      /\ T1(s) + T2(s) = T1(a) + T2(a) - 1
      /\ \E v \in ResidentOf(a) : /\ ResidentOf(s) = ResidentOf(a) \ {v}
                                  /\ GhostsOf(s) = GhostsOf(a) \cup {v}
      /\ ToSet(a.b2) \subseteq ToSet(s.b2)
  BY <1>5, <1>6, ReplaceOK
<1> HIDE DEF s
<1>8. /\ Sound(u)
      /\ T1(u) = T1(s) /\ T2(u) = T2(s) /\ B1(u) = B1(s) /\ B2(u) = B2(s) - 1
      /\ ToSet(u.b2) = ToSet(s.b2) \ {key}
      /\ u.t1 = s.t1 /\ u.t2 = s.t2 /\ u.b1 = s.b1
  BY <1>2, <1>5, <1>7, RemoveB2
<1> HIDE DEF u
<1>9. /\ key \notin ResidentOf(u) /\ key \notin GhostsOf(u)
  <2>1. ResidentOf(u) = ResidentOf(s) /\ key \in ToSet(s.b2)
    BY <1>2, <1>5, <1>7, <1>8 DEF ResidentOf
  <2>2. key \notin ToSet(s.b1) /\ key \notin ResidentOf(s)
    BY <1>7, <2>1 DEF Sound, Apart, ResidentOf
  <2> QED BY <1>8, <2>1, <2>2 DEF GhostsOf
<1>10. /\ Sound(arc')
       /\ T1(arc') = T1(u) /\ T2(arc') = T2(u) + 1
       /\ B1(arc') = B1(u) /\ B2(arc') = B2(u)
       /\ ToSet(arc'.t2) = ToSet(u.t2) \cup {key} /\ arc'.t1 = u.t1
  BY <1>2, <1>8, <1>9, PushT2
<1>11. Fits(arc') /\ T1(arc) + T2(arc) = buffer_size
  <2>1. /\ T1(arc) \in Nat /\ T2(arc) \in Nat /\ B1(arc) \in Nat /\ B2(arc) \in Nat
        /\ T1(s) \in Nat /\ T2(s) \in Nat /\ B1(s) \in Nat /\ B2(s) \in Nat
    BY <1>1, <1>7, Lengths
  <2>2. T1(arc) + T2(arc) = buffer_size
    BY <1>1, <1>3, <2>1 DEF Fits
  <2>3. /\ T1(s) + B1(s) = T1(arc) + B1(arc)
        /\ T2(s) + B2(s) = T2(arc) + B2(arc)
        /\ T1(s) + T2(s) = buffer_size - 1
    <3>1. /\ T1(a) = T1(arc) /\ T2(a) = T2(arc)
          /\ B1(a) = B1(arc) /\ B2(a) = B2(arc)
      BY <1>5
    <3>2. /\ T1(s) + B1(s) = T1(a) + B1(a)
          /\ T2(s) + B2(s) = T2(a) + B2(a)
          /\ T1(s) + T2(s) = T1(a) + T2(a) - 1
      BY <1>7
    <3> QED BY <2>1, <2>2, <3>1, <3>2
  <2>4. /\ T1(arc') = T1(s) /\ T2(arc') = T2(s) + 1
        /\ B1(arc') = B1(s) /\ B2(arc') = B2(s) - 1
    BY <1>8, <1>10
  <2>5. T1(arc) + T2(arc) + B1(arc) + B2(arc) <= 2 * buffer_size
        /\ T1(arc) + B1(arc) <= buffer_size
    BY <1>1 DEF Fits
  <2>6. /\ T1(arc') + T2(arc') = buffer_size
        /\ T1(arc') + B1(arc') <= buffer_size
        /\ T1(arc') + T2(arc') + B1(arc') + B2(arc') <= 2 * buffer_size
    BY <2>1, <2>2, <2>3, <2>4, <2>5, SizeType
  <2> QED BY <2>2, <2>6, SizeType DEF Fits
<1>12. Evicts(arc, arc', key)
  <2>1. PICK v \in ResidentOf(a) : ResidentOf(s) = ResidentOf(a) \ {v}
    BY <1>7
  <2>2. ResidentOf(arc') = (ResidentOf(arc) \ {v}) \cup {key}
    BY <1>5, <1>8, <1>10, <2>1 DEF ResidentOf
  <2> QED BY <1>2, <1>5, <1>11, <2>1, <2>2 DEF Evicts
<1> QED BY <1>10, <1>11, <1>12 DEF ARCInv

\* A page in no list comes into t1.
LEMMA NewRoomOK ==
  ASSUME ARCInv, NEW key \in Keys, NewRoom(key)
  PROVE  ARCInv' /\ Fills(arc, arc', key)
<1>1. Sound(arc) /\ Fits(arc)
  BY DEF ARCInv
<1>2. /\ key \notin ResidentOf(arc) /\ key \notin GhostsOf(arc)
      /\ T1(arc) + B1(arc) # buffer_size
      /\ T1(arc) + T2(arc) + B1(arc) + B2(arc) < buffer_size
      /\ arc' = InT1(arc, key)
  BY DEF NewRoom, Unknown, Miss, Has, Total, T1, T2, B1, B2, ResidentOf, GhostsOf
<1>3. /\ Sound(arc')
      /\ T1(arc') = T1(arc) + 1 /\ T2(arc') = T2(arc)
      /\ B1(arc') = B1(arc) /\ B2(arc') = B2(arc)
      /\ ToSet(arc'.t1) = ToSet(arc.t1) \cup {key} /\ arc'.t2 = arc.t2
  BY <1>1, <1>2, PushT1
<1>4. /\ T1(arc) \in Nat /\ T2(arc) \in Nat
      /\ B1(arc) \in Nat /\ B2(arc) \in Nat
  BY <1>1, Lengths
<1>5. Fits(arc')
  BY <1>1, <1>2, <1>3, <1>4, SizeType DEF Fits
<1>6. T1(arc) + T2(arc) < buffer_size
  BY <1>2, <1>4, SizeType
<1>7. Fills(arc, arc', key)
  BY <1>2, <1>3, <1>6 DEF Fills, ResidentOf
<1> QED BY <1>3, <1>5, <1>7 DEF ARCInv

\* And so it does when the buffer is full, after replace_ made room in a, which
\* is arc with one page fewer in its ghosts or as many.
LEMMA ReplaceNew ==
  ASSUME ARCInv, NEW key \in Keys, Unknown(key), NEW a, Sound(a),
         a.t1 = arc.t1, a.t2 = arc.t2,
         T1(a) = T1(arc), T2(a) = T2(arc), GhostsOf(a) \subseteq GhostsOf(arc),
         T1(arc) + T2(arc) = buffer_size, T1(arc) < buffer_size,
         T1(a) + B1(a) < buffer_size,
         T1(a) + T2(a) + B1(a) + B2(a) < 2 * buffer_size,
         arc' = InT1(replace_(a, key), key)
  PROVE  ARCInv' /\ Evicts(arc, arc', key)
<1> DEFINE s == replace_(a, key)
<1>1. key \notin ResidentOf(arc) /\ key \notin GhostsOf(arc)
  BY DEF Unknown, Miss, Has, ResidentOf, GhostsOf
<1>2. FromT1(a, key) \/ a.t2 # <<>>
  BY T2HasPage
<1>3. /\ Sound(s)
      /\ T1(s) + B1(s) = T1(a) + B1(a)
      /\ T2(s) + B2(s) = T2(a) + B2(a)
      /\ T1(s) + T2(s) = T1(a) + T2(a) - 1
      /\ \E v \in ResidentOf(a) : /\ ResidentOf(s) = ResidentOf(a) \ {v}
                                  /\ GhostsOf(s) = GhostsOf(a) \cup {v}
  BY <1>2, ReplaceOK
<1> HIDE DEF s
<1>4. PICK v \in ResidentOf(arc) : /\ ResidentOf(s) = ResidentOf(arc) \ {v}
                                   /\ GhostsOf(s) \subseteq GhostsOf(arc) \cup {v}
  BY <1>3 DEF ResidentOf
<1>5. key \notin ResidentOf(s) /\ key \notin GhostsOf(s)
  BY <1>1, <1>4
<1>6. /\ Sound(arc')
      /\ T1(arc') = T1(s) + 1 /\ T2(arc') = T2(s)
      /\ B1(arc') = B1(s) /\ B2(arc') = B2(s)
      /\ ToSet(arc'.t1) = ToSet(s.t1) \cup {key} /\ arc'.t2 = s.t2
  BY <1>3, <1>5, PushT1 DEF s
<1>7. /\ T1(a) \in Nat /\ T2(a) \in Nat /\ B1(a) \in Nat /\ B2(a) \in Nat
      /\ T1(s) \in Nat /\ T2(s) \in Nat /\ B1(s) \in Nat /\ B2(s) \in Nat
  BY <1>3, Lengths
<1>8. T1(s) + T2(s) = buffer_size - 1
  BY <1>3, <1>7
<1>9. T1(s) + B1(s) < buffer_size /\ T1(s) + T2(s) + B1(s) + B2(s) < 2 * buffer_size
  <2>1. /\ T1(s) + B1(s) = T1(a) + B1(a)
        /\ T2(s) + B2(s) = T2(a) + B2(a)
    BY <1>3
  <2> QED BY <1>7, <2>1, SizeType
<1>10. /\ T1(arc') + T2(arc') = buffer_size
       /\ T1(arc') + B1(arc') <= buffer_size
       /\ T1(arc') + T2(arc') + B1(arc') + B2(arc') <= 2 * buffer_size
  BY <1>6, <1>7, <1>8, <1>9, SizeType
<1>11. Fits(arc')
  BY <1>10, SizeType DEF Fits
<1>12. ResidentOf(arc') = (ResidentOf(arc) \ {v}) \cup {key}
  BY <1>4, <1>6 DEF ResidentOf
<1> QED BY <1>1, <1>4, <1>6, <1>11, <1>12 DEF Evicts, ARCInv

LEMMA NewFullOK ==
  ASSUME ARCInv, NEW key \in Keys, NewFull(key)
  PROVE  ARCInv' /\ Evicts(arc, arc', key)
<1> DEFINE total == T1(arc) + T2(arc) + B1(arc) + B2(arc)
           a == IF Total(arc) = 2 * buffer_size
                THEN [arc EXCEPT !.b2 = PopBack(@)] ELSE arc
<1>1. Sound(arc) /\ Fits(arc)
  BY DEF ARCInv
<1>2. /\ Unknown(key)
      /\ T1(arc) + B1(arc) # buffer_size
      /\ Total(arc) = total
      /\ total >= buffer_size
      /\ arc' = InT1(replace_(a, key), key)
  BY DEF NewFull, Total, T1, T2, B1, B2
<1>3. /\ T1(arc) \in Nat /\ T2(arc) \in Nat
      /\ B1(arc) \in Nat /\ B2(arc) \in Nat
      /\ arc.b2 = <<>> <=> B2(arc) = 0
  BY <1>1, Lengths
<1>4. /\ T1(arc) + T2(arc) = buffer_size /\ T1(arc) < buffer_size
      /\ T1(arc) + B1(arc) < buffer_size /\ total <= 2 * buffer_size
  BY <1>1, <1>2, <1>3, SizeType DEF Fits
<1>5. CASE total = 2 * buffer_size
  <2>1. B2(arc) > 0
    BY <1>3, <1>4, <1>5, SizeType
  <2>2. a = [arc EXCEPT !.b2 = PopBack(@)] /\ arc.b2 # <<>>
    BY <1>2, <1>3, <1>5, <2>1
  <2>3. /\ Sound(a) /\ a.t1 = arc.t1 /\ a.t2 = arc.t2 /\ a.b1 = arc.b1
        /\ ToSet(a.b2) = ToSet(arc.b2) \ {Last(arc.b2)}
        /\ T1(a) = T1(arc) /\ T2(a) = T2(arc)
        /\ B1(a) = B1(arc) /\ B2(a) = B2(arc) - 1
    BY <1>1, <2>2, PopB2
  <2> HIDE DEF a
  <2>4. /\ T1(a) + B1(a) < buffer_size
        /\ T1(a) + T2(a) + B1(a) + B2(a) < 2 * buffer_size
    BY <1>3, <1>4, <2>1, <2>3, SizeType
  <2>5. GhostsOf(a) \subseteq GhostsOf(arc)
    BY <2>3 DEF GhostsOf
  <2> QED BY <1>2, <1>4, <2>3, <2>4, <2>5, ReplaceNew
<1>6. CASE total # 2 * buffer_size
  <2>1. a = arc
    BY <1>2, <1>6
  <2> HIDE DEF a
  <2>2. /\ T1(arc) + B1(arc) < buffer_size
        /\ T1(arc) + T2(arc) + B1(arc) + B2(arc) < 2 * buffer_size
    BY <1>3, <1>4, <1>6, SizeType
  <2> QED BY <1>1, <1>2, <1>4, <2>1, <2>2, ReplaceNew
<1> QED BY <1>5, <1>6

LEMMA NewFullL1OK ==
  ASSUME ARCInv, NEW key \in Keys, NewFullL1(key)
  PROVE  ARCInv' /\ Evicts(arc, arc', key)
<1>1. Sound(arc) /\ Fits(arc)
  BY DEF ARCInv
<1>2. /\ Unknown(key) /\ key \notin ResidentOf(arc) /\ key \notin GhostsOf(arc)
      /\ T1(arc) + B1(arc) = buffer_size
      /\ arc' = InT1(IF T1(arc) < buffer_size
                     THEN replace_([arc EXCEPT !.b1 = PopBack(@)], key)
                     ELSE [arc EXCEPT !.t1 = PopBack(@)], key)
  BY DEF NewFullL1, Unknown, Miss, Has, ResidentOf, GhostsOf, T1, B1
<1>3. /\ T1(arc) \in Nat /\ T2(arc) \in Nat
      /\ B1(arc) \in Nat /\ B2(arc) \in Nat
      /\ arc.t1 = <<>> <=> T1(arc) = 0
      /\ arc.b1 = <<>> <=> B1(arc) = 0
  BY <1>1, Lengths
<1>4. CASE T1(arc) < buffer_size
  <2> DEFINE a == [arc EXCEPT !.b1 = PopBack(@)]
  <2>1. B1(arc) > 0 /\ arc.b1 # <<>>
    BY <1>2, <1>3, <1>4, SizeType
  <2>2. T1(arc) + T2(arc) = buffer_size
        /\ T1(arc) + T2(arc) + B1(arc) + B2(arc) <= 2 * buffer_size
    BY <1>1, <1>3, <2>1 DEF Fits
  <2>3. /\ Sound(a) /\ a.t1 = arc.t1 /\ a.t2 = arc.t2 /\ a.b2 = arc.b2
        /\ ToSet(a.b1) = ToSet(arc.b1) \ {Last(arc.b1)}
        /\ T1(a) = T1(arc) /\ T2(a) = T2(arc)
        /\ B1(a) = B1(arc) - 1 /\ B2(a) = B2(arc)
    BY <1>1, <2>1, PopB1
  <2>4. arc' = InT1(replace_(a, key), key)
    BY <1>2, <1>4
  <2> HIDE DEF a
  <2>5. /\ T1(a) + B1(a) < buffer_size
        /\ T1(a) + T2(a) + B1(a) + B2(a) < 2 * buffer_size
    BY <1>2, <1>3, <2>1, <2>2, <2>3, SizeType
  <2>6. GhostsOf(a) \subseteq GhostsOf(arc)
    BY <2>3 DEF GhostsOf
  <2> QED BY <1>2, <1>4, <2>2, <2>3, <2>4, <2>5, <2>6, ReplaceNew
<1>5. CASE ~(T1(arc) < buffer_size)
  <2> DEFINE a == [arc EXCEPT !.t1 = PopBack(@)]
             v == Last(arc.t1)
  <2>1. T1(arc) = buffer_size /\ T2(arc) = 0 /\ B1(arc) = 0 /\ arc.t1 # <<>>
    BY <1>1, <1>2, <1>3, <1>5, SizeType DEF Fits
  <2>2. /\ Sound(a) /\ a.t2 = arc.t2 /\ a.b1 = arc.b1 /\ a.b2 = arc.b2
        /\ ToSet(a.t1) = ToSet(arc.t1) \ {v}
        /\ T1(a) = T1(arc) - 1 /\ T2(a) = T2(arc)
        /\ B1(a) = B1(arc) /\ B2(a) = B2(arc)
    BY <1>1, <2>1, PopT1
  <2>3. arc' = InT1(a, key)
    BY <1>2, <1>5
  <2>4. v \in ToSet(arc.t1)
    BY <1>1, <2>1, PopBackOK DEF Sound
  <2> HIDE DEF a, v
  <2>5. key \notin ResidentOf(a) /\ key \notin GhostsOf(a)
    BY <1>2, <2>2 DEF ResidentOf, GhostsOf
  <2>6. /\ Sound(arc')
        /\ T1(arc') = T1(a) + 1 /\ T2(arc') = T2(a)
        /\ B1(arc') = B1(a) /\ B2(arc') = B2(a)
        /\ ToSet(arc'.t1) = ToSet(a.t1) \cup {key} /\ arc'.t2 = a.t2
    BY <2>2, <2>3, <2>5, PushT1
  <2>7. /\ T1(arc') = T1(arc) /\ T2(arc') = T2(arc)
        /\ B1(arc') = B1(arc) /\ B2(arc') = B2(arc)
    BY <1>3, <2>2, <2>6
  <2>8. Fits(arc')
    BY <1>1, <2>7 DEF Fits
  <2>9. ResidentOf(arc') = (ResidentOf(arc) \ {v}) \cup {key}
    <3>1. v \notin ToSet(arc.t2)
      BY <1>1, <2>4 DEF Sound, Apart
    <3> QED BY <2>2, <2>6, <3>1 DEF ResidentOf
  <2>10. T1(arc) + T2(arc) = buffer_size /\ v \in ResidentOf(arc)
    BY <2>1, <2>4, SizeType DEF ResidentOf
  <2> QED BY <1>2, <2>6, <2>8, <2>9, <2>10 DEF Evicts, ARCInv
<1> QED BY <1>4, <1>5

-----------------------------------------------------------------------------
(* The invariant *)

LEMMA ARCInit == Init => ARCInv
<1> SUFFICES ASSUME Init PROVE ARCInv
  OBVIOUS
<1>1. /\ arc.t1 = <<>> /\ arc.t2 = <<>> /\ arc.b1 = <<>> /\ arc.b2 = <<>>
      /\ arc \in [t1 : Seq(Keys), t2 : Seq(Keys), b1 : Seq(Keys),
                  b2 : Seq(Keys), p_ : 0 .. buffer_size * Unit, ub : {FALSE}]
  BY CapType DEF Init
<1>2. Sound(arc)
  BY <1>1, EmptyOK DEF Sound, Apart
<1>3. T1(arc) = 0 /\ T2(arc) = 0 /\ B1(arc) = 0 /\ B2(arc) = 0
  BY <1>1, EmptyOK DEF T1, T2, B1, B2
<1> QED BY <1>2, <1>3, SizeType DEF Fits, ARCInv

\* What an access does to the pages, whichever case it is
LEMMA AccessCases ==
  ASSUME ARCInv, NEW key \in Keys, access(key)
  PROVE  /\ ARCInv'
         /\ Keeps(arc, arc', key) \/ Fills(arc, arc', key) \/ Evicts(arc, arc', key)
<1>1. CASE Hit(key)
  BY <1>1, HitOK
<1>2. CASE HitB1(key)
  BY <1>2, HitB1OK
<1>3. CASE HitB2(key)
  BY <1>3, HitB2OK
<1>4. CASE NewFullL1(key)
  BY <1>4, NewFullL1OK
<1>5. CASE NewFull(key)
  BY <1>5, NewFullOK
<1>6. CASE NewRoom(key)
  BY <1>6, NewRoomOK
<1> QED BY <1>1, <1>2, <1>3, <1>4, <1>5, <1>6 DEF access

\* The lists are apart and fit the directory, and no empty list was popped, for
\* every size of the buffer and every trace (arc_replacer.cpp:8).
THEOREM ARCInvariance == Spec => []ARCInv
<1>1. ARCInv /\ [Next]_arc => ARCInv'
  <2>1. ARCInv /\ Next => ARCInv'
    BY AccessCases DEF Next
  <2>2. ARCInv /\ UNCHANGED arc => ARCInv'
    BY DEF ARCInv
  <2> QED BY <2>1, <2>2
<1> QED BY <1>1, ARCInit, PTL DEF Spec

\* The lists fit and the target is a size: what check_consistency of the code
\* would find, were it called (arc_replacer.cpp:76).
THEOREM ConsistentHolds == Spec => []Consistent
<1>1. ARCInv => Consistent
  <2> SUFFICES ASSUME ARCInv PROVE Consistent
    OBVIOUS
  <2>1. Fits(arc) /\ arc.p_ \in 0 .. buffer_size * Unit
    BY DEF ARCInv, Sound
  <2> QED BY <2>1 DEF Fits, Consistent, Total, T1, T2, B1, B2
<1> QED BY <1>1, ARCInvariance, PTL

\* No page is in two of the lists, or twice in one, whatever moves it.
THEOREM DisjointHolds == Spec => []Disjoint
<1>1. ASSUME ARCInv PROVE Disjoint
  <2> DEFINE A == ToSet(arc.t1)  B == ToSet(arc.t2)
             C == ToSet(arc.b1)  D == ToSet(arc.b2)
             p == arc.t1  q == arc.t2  u == arc.b1  v == arc.b2
  <2>1. /\ p \in Seq(Keys) /\ q \in Seq(Keys) /\ u \in Seq(Keys) /\ v \in Seq(Keys)
        /\ Lists(p, A) /\ Lists(q, B) /\ Lists(u, C) /\ Lists(v, D)
        /\ Apart(A, B, C, D)
    BY <1>1 DEF ARCInv, Sound, ListOK, Lists
  <2> HIDE DEF A, B, C, D, p, q, u, v
  <2>2. p \o q \in Seq(Keys) /\ Lists(p \o q, A \cup B)
    BY <2>1, ListsConcat DEF Apart
  <2>3. (A \cup B) \cap C = {} /\ (A \cup B \cup C) \cap D = {}
    BY <2>1 DEF Apart
  <2>4. p \o q \o u \in Seq(Keys) /\ Lists(p \o q \o u, A \cup B \cup C)
    BY <2>1, <2>2, <2>3, ListsConcat
  <2>5. Lists(p \o q \o u \o v, A \cup B \cup C \cup D)
    BY <2>1, <2>3, <2>4, ListsConcat
  <2> QED BY <2>5 DEF Disjoint, Lists, p, q, u, v
<1> QED BY <1>1, ARCInvariance, PTL

\* The ghosts remember something only of a full buffer, and t1 with its ghost
\* never exceeds it: what the cases of a new page rely on (arc_replacer.cpp:48).
THEOREM DirectoryHolds == Spec => []Directory
<1>1. ASSUME ARCInv PROVE Directory
  <2>1. Sound(arc) /\ Fits(arc)
    BY <1>1 DEF ARCInv
  <2>2. /\ B1(arc) \in Nat /\ B2(arc) \in Nat
        /\ arc.b1 = <<>> <=> B1(arc) = 0
        /\ arc.b2 = <<>> <=> B2(arc) = 0
    BY <2>1, Lengths
  <2>3. arc.b1 \o arc.b2 = <<>> <=> arc.b1 = <<>> /\ arc.b2 = <<>>
    BY <2>1, ConcatEqualIffEmptyBoth DEF Sound, ListOK
  <2>4. /\ T1(arc) + B1(arc) <= buffer_size
        /\ B1(arc) + B2(arc) > 0 => T1(arc) + T2(arc) = buffer_size
    BY <2>1 DEF Fits
  <2>5. arc.b1 \o arc.b2 # <<>> => B1(arc) + B2(arc) > 0
    BY <2>2, <2>3
  <2> QED BY <2>4, <2>5 DEF Directory, T1, T2, B1
<1> QED BY <1>1, ARCInvariance, PTL

\* replace_ never pops an empty list: when its test sends it to t2, the ghosts,
\* the target and the sizes leave t2 a page (arc_replacer.cpp:99).
THEOREM PopSafeHolds == Spec => []PopSafe
<1>1. ARCInv => PopSafe
  BY DEF ARCInv, Sound, PopSafe
<1> QED BY <1>1, ARCInvariance, PTL

-----------------------------------------------------------------------------
(* The refinement *)

\* The cardinality of the abstract module is that of this one.
LEMMA SameCardinality == \A S : Cache!Cardinality(S) = Cardinality(S)
BY DEF Cache!Cardinality, Cardinality

LEMMA ResidentCount ==
  ASSUME ARCInv
  PROVE  /\ IsFiniteSet(Resident)
         /\ Cardinality(Resident) = T1(arc) + T2(arc)
<1> DEFINE p == arc.t1  q == arc.t2
<1>1. /\ p \in Seq(Keys) /\ q \in Seq(Keys)
      /\ Lists(p, ToSet(p)) /\ Lists(q, ToSet(q)) /\ ToSet(p) \cap ToSet(q) = {}
  BY DEF ARCInv, Sound, ListOK, Lists, Apart
<1>2. p \o q \in Seq(Keys) /\ Lists(p \o q, ToSet(p) \cup ToSet(q))
      /\ Len(p \o q) = Len(p) + Len(q)
  BY <1>1, ListsConcat
<1> QED BY <1>2, ListsLength DEF Resident, T1, T2

\* ARC is a cache that evicts one page, on a miss, from a full buffer, and keeps
\* the page it was asked for: it implements DemandCache.
THEOREM ARCImplements == Spec => Implements
<1>1. Init => Cache!Init
  BY SizeType, EmptyOK DEF Init, Cache!Init, Resident
<1>2. ARCInv /\ [Next]_arc => [Cache!Next]_<<Resident, buffer_size>>
  <2> SUFFICES ASSUME ARCInv, [Next]_arc
               PROVE  [Cache!Next]_<<Resident, buffer_size>>
    OBVIOUS
  <2>1. CASE UNCHANGED arc
    BY <2>1 DEF Resident
  <2>2. CASE Next
    <3>1. PICK key \in Keys : access(key)
      BY <2>2 DEF Next
    <3>2. Keeps(arc, arc', key) \/ Fills(arc, arc', key) \/ Evicts(arc, arc', key)
      BY <3>1, AccessCases
    <3>0. key \in Keys /\ UNCHANGED buffer_size
      BY <3>1
    <3>3. /\ Resident = ResidentOf(arc) /\ Resident' = ResidentOf(arc')
          /\ Cardinality(Resident) = T1(arc) + T2(arc)
      BY ResidentCount DEF Resident, ResidentOf
    <3>4. CASE Keeps(arc, arc', key)
      <4>1. Cache!Hit(key)
        BY <3>3, <3>4 DEF Keeps, Cache!Hit
      <4> QED BY <3>0, <4>1 DEF Cache!Next
    <3>5. CASE Fills(arc, arc', key)
      <4>1. Cache!Fill(key)
        BY <3>3, <3>5, SameCardinality DEF Fills, Cache!Fill
      <4> QED BY <3>0, <4>1 DEF Cache!Next
    <3>6. CASE Evicts(arc, arc', key)
      <4>1. PICK v \in Resident : Resident' = (Resident \ {v}) \cup {key}
        BY <3>3, <3>6 DEF Evicts
      <4>2. Cache!Cardinality({v}) \in 1 .. 1 /\ {v} \in SUBSET Resident
        <5>1. Cache!Cardinality({v}) = 1
          BY FS_Singleton, SameCardinality
        <5> QED BY <5>1
      <4>3. key \notin Resident /\ Cache!Cardinality(Resident) = buffer_size
        BY <3>3, <3>6, SameCardinality DEF Evicts
      <4>4. Cache!Replace(key)
        BY <4>1, <4>2, <4>3 DEF Cache!Replace
      <4> QED BY <3>0, <4>4 DEF Cache!Next
    <3> QED BY <3>2, <3>4, <3>5, <3>6
  <2> QED BY <2>1, <2>2
<1> QED BY <1>1, <1>2, ARCInvariance, PTL DEF Spec, Implements, Cache!Spec

============================================================================
