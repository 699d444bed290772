----------------------------- MODULE DataLemmas -----------------------------
(***************************************************************************)
(* Facts that the proofs of several modules use: induction and recursion   *)
(* on the naturals, least elements, quotients and remainders, and what the *)
(* operations of a list do to the keys it holds.                           *)
(***************************************************************************)
EXTENDS StdContainers, SequenceTheorems, FiniteSetTheorems,
        WellFoundedInduction, TLAPS

-----------------------------------------------------------------------------
(* Induction and recursion.  The theorems of the library on them take an   *)
(* operator; these take a set, or a function, in its place.                *)

\* A non-empty set of naturals has a least element.
LEMMA LeastNatural ==
  ASSUME NEW T \in SUBSET Nat, T # {}
  PROVE  \E n \in T : \A m \in T : n <= m
<1>1. PICK x \in T : \A y \in T : ~(<<y, x>> \in OpToRel(<, Nat))
  BY NatLessThanWellFounded, WFMin
<1>2. \A y \in T : ~(y < x)
  BY <1>1 DEF OpToRel
<1> QED BY <1>2

\* Induction, for a set of naturals
LEMMA AllNaturals ==
  ASSUME NEW S, 0 \in S, \A n \in Nat : n \in S => n + 1 \in S
  PROVE  Nat \subseteq S
<1> DEFINE T == Nat \ S
<1> SUFFICES ASSUME T # {} PROVE FALSE
  OBVIOUS
<1>1. PICK n \in T : \A m \in T : n <= m
  BY LeastNatural
<1>2. n # 0 /\ n - 1 \in Nat
  BY <1>1
<1>3. n - 1 \notin T
  BY <1>1
<1> QED BY <1>1, <1>2, <1>3

\* N steps in D, and the values they go through from b
Steps(N, D) == [1 .. N -> [D -> D]]
Path(g, N, D, b, F) ==
  g \in [0 .. N -> D] /\ g[0] = b /\ \A n \in 1 .. N : g[n] = F[n][g[n - 1]]

\* A recursive function on an interval exists.
LEMMA Recursion ==
  ASSUME NEW N \in Nat, NEW D, NEW b \in D, NEW F \in Steps(N, D)
  PROVE  \E g : Path(g, N, D, b, F)
<1> USE DEF Steps
<1> DEFINE A(n) == { h \in [0 .. n -> D] :
                       h[0] = b /\ \A i \in 1 .. n : h[i] = F[i][h[i - 1]] }
           S == { n \in Nat : n <= N => A(n) # {} }
<1>1. 0 \in S
  <2>1. [i \in 0 .. 0 |-> b] \in A(0)
    OBVIOUS
  <2> QED BY <2>1
<1>2. ASSUME NEW n \in Nat, n \in S PROVE n + 1 \in S
  <2> SUFFICES ASSUME n + 1 <= N PROVE A(n + 1) # {}
    OBVIOUS
  <2>1. PICK h \in [0 .. n -> D] :
          h[0] = b /\ \A i \in 1 .. n : h[i] = F[i][h[i - 1]]
    BY <1>2
  <2> DEFINE u == [i \in 0 .. n+1 |-> IF i = n + 1 THEN F[n + 1][h[n]] ELSE h[i]]
  <2>2. u \in [0 .. n+1 -> D]
    OBVIOUS
  <2>3. u[0] = b
    BY <2>1
  <2>4. ASSUME NEW i \in 1 .. n+1 PROVE u[i] = F[i][u[i - 1]]
    <3>1. CASE i = n + 1
      BY <3>1
    <3>2. CASE i # n + 1
      <4>1. i \in 1 .. n /\ u[i] = h[i] /\ u[i - 1] = h[i - 1]
        BY <3>2
      <4> QED BY <4>1, <2>1
    <3> QED BY <3>1, <3>2
  <2> HIDE DEF u
  <2>6. u \in A(n + 1)
    BY <2>2, <2>3, <2>4
  <2> HIDE DEF A
  <2> QED BY <2>6
<1>3. A(N) # {}
  <2>1. \A n \in Nat : n \in S => n + 1 \in S
    BY <1>2
  <2>2. Nat \subseteq S
    <3> HIDE DEF S
    <3> QED BY <1>1, <2>1, AllNaturals
  <2> HIDE DEF A
  <2> QED BY <2>2
<1> QED BY <1>3 DEF Path

-----------------------------------------------------------------------------
(* Numbers *)

\* A non-empty set of naturals has a least element, which Min returns.
LEMMA MinOfNaturals ==
  ASSUME NEW T \in SUBSET Nat, T # {}
  PROVE  /\ Min(T) \in T
         /\ \A y \in T : Min(T) <= y
BY LeastNatural DEF Min

LEMMA MinOfTwo ==
  ASSUME NEW a \in Nat, NEW b \in Nat
  PROVE  Min({a, b}) = IF a < b THEN a ELSE b
<1>1. {a, b} \in SUBSET Nat /\ {a, b} # {}
  OBVIOUS
<1>2. Min({a, b}) \in {a, b} /\ \A y \in {a, b} : Min({a, b}) <= y
  BY <1>1, MinOfNaturals
<1> QED BY <1>2

LEMMA MaxWithZero ==
  ASSUME NEW a \in Int
  PROVE  Max({a, 0}) = IF a < 0 THEN 0 ELSE a
<1> DEFINE m == IF a < 0 THEN 0 ELSE a
<1>1. m \in {a, 0} /\ \A y \in {a, 0} : m >= y
  OBVIOUS
<1>2. \A x \in {a, 0} : (\A y \in {a, 0} : x >= y) => x = m
  OBVIOUS
<1> QED BY <1>1, <1>2 DEF Max

LEMMA DivType ==
  ASSUME NEW p \in Nat, NEW q \in Nat \ {0}
  PROVE  p \div q \in Nat
OBVIOUS

LEMMA DivAtMost ==
  ASSUME NEW p \in Nat, NEW q \in Nat \ {0}, NEW h \in Nat, p <= q * h
  PROVE  p \div q <= h
<1> DEFINE d == p \div q
<1>1. d \in Nat /\ q * d <= p
  BY DivType
<1> HIDE DEF d
<1>2. CASE d >= h + 1
  <2>1. q * d >= q * (h + 1) /\ q * (h + 1) = q * h + q
    BY <1>1, <1>2
  <2> DEFINE u == q * h
  <2>2. u \in Int /\ u + q <= p /\ p <= u
    BY <1>1, <2>1
  <2> HIDE DEF u
  <2> QED BY <2>2
<1> QED BY <1>1, <1>2 DEF d

LEMMA DivAtLeast ==
  ASSUME NEW p \in Nat, NEW q \in Nat \ {0}, NEW h \in Nat, p >= q * h
  PROVE  p \div q >= h
<1> DEFINE d == p \div q
           e == p % q
<1>1. d \in Nat /\ e \in 0 .. q-1 /\ p = q * d + e
  BY DivType
<1> HIDE DEF d, e
<1>2. CASE d + 1 <= h
  <2>1. q * h >= q * (d + 1) /\ q * (d + 1) = q * d + q
    BY <1>1, <1>2
  <2> DEFINE u == q * d
  <2>2. u \in Int /\ p = u + e /\ p >= u + q
    BY <1>1, <2>1
  <2> HIDE DEF u
  <2> QED BY <1>1, <2>2
<1> QED BY <1>1, <1>2 DEF d

\* A remainder is the only one.
LEMMA RemainderIs ==
  ASSUME NEW n \in Nat \ {0}, NEW t \in Nat, NEW q \in Int, NEW d \in 0 .. n-1,
         t = n * q + d
  PROVE  t % n = d
<1> DEFINE p == t \div n
           e == t % n
<1>1. t = n * p + e /\ e \in 0 .. n-1 /\ p \in Int
  OBVIOUS
<1> HIDE DEF p, e
<1>2. n * (q - p) = e - d
  <2>1. n * (q - p) = n * q - n * p
    BY <1>1
  <2>2. n * q \in Int /\ n * p \in Int
    BY <1>1
  <2> QED BY <1>1, <2>1, <2>2
<1>3. CASE q - p >= 1
  <2>1. n * (q - p) >= n
    BY <1>1, <1>3
  <2> QED BY <1>1, <1>2, <2>1
<1>4. CASE q - p <= -1
  <2>1. n * (q - p) <= -n
    BY <1>1, <1>4
  <2> QED BY <1>1, <1>2, <2>1
<1>5. CASE q = p
  <2> DEFINE u == n * q
  <2>1. u \in Int
    OBVIOUS
  <2>2. t = u + e /\ t = u + d
    BY <1>1, <1>5
  <2>3. e \in Int /\ d \in Int
    BY <1>1
  <2> HIDE DEF u
  <2> QED BY <2>1, <2>2, <2>3
<1>6. e = d
  BY <1>1, <1>3, <1>4, <1>5
<1> QED BY <1>6 DEF e

LEMMA QuotientIs ==
  ASSUME NEW n \in Nat \ {0}, NEW t \in Nat, NEW q \in Int, NEW d \in 0 .. n-1,
         t = n * q + d
  PROVE  t \div n = q /\ t % n = d
<1> DEFINE p == t \div n
           e == t % n
<1>1. t = n * p + e /\ e \in 0 .. n-1 /\ p \in Int
  OBVIOUS
<1>2. e = d
  BY RemainderIs
<1> HIDE DEF p, e
<1>3. n * (q - p) = 0
  <2>1. n * (q - p) = n * q - n * p
    BY <1>1
  <2>2. n * q \in Int /\ n * p \in Int
    BY <1>1
  <2> QED BY <1>1, <1>2, <2>1, <2>2
<1>4. CASE q - p >= 1
  <2>1. n * (q - p) >= n
    BY <1>1, <1>4
  <2> QED BY <1>1, <1>3, <2>1
<1>5. CASE q - p <= -1
  <2>1. n * (q - p) <= -n
    BY <1>1, <1>5
  <2> QED BY <1>1, <1>3, <2>1
<1>6. q = p
  BY <1>1, <1>4, <1>5
<1> QED BY <1>2, <1>6 DEF p, e

\* The powers of two: a set with one element more has twice the subsets.
LEMMA PowersOfTwo ==
  ASSUME NEW n \in Nat
  PROVE  2^n \in Nat \ {0} /\ 2^(n + 1) = 2^n + 2^n
<1> DEFINE A == 1 .. n
           B == 1 .. n + 1
           without == SUBSET A
           with == (SUBSET B) \ (SUBSET A)
<1>1. /\ IsFiniteSet(A) /\ Cardinality(A) = n
      /\ IsFiniteSet(B) /\ Cardinality(B) = n + 1
  BY FS_Interval
<1>2. IsFiniteSet(without) /\ Cardinality(without) = 2^n
  BY <1>1, FS_SUBSET
<1>3. Cardinality(SUBSET B) = 2^(n + 1)
  BY <1>1, FS_SUBSET
<1>4. ExistsBijection(without, with)
  <2> DEFINE f == [X \in without |-> X \cup {n + 1}]
  <2>1. A \subseteq B /\ n + 1 \in B /\ n + 1 \notin A /\ B \ {n + 1} = A
    OBVIOUS
  <2> HIDE DEF A, B
  <2>2. f \in [without -> with]
    <3>1. \A X \in SUBSET A : X \cup {n + 1} \in (SUBSET B) \ (SUBSET A)
      BY <2>1
    <3> QED BY <3>1
  <2>3. ASSUME NEW X \in without, NEW Y \in without, f[X] = f[Y] PROVE X = Y
    BY <2>1, <2>3
  <2>4. ASSUME NEW Y \in with PROVE \E X \in without : f[X] = Y
    <3>1. Y \subseteq B /\ ~(Y \subseteq A)
      BY <2>4
    <3>2. n + 1 \in Y
      BY <2>1, <3>1
    <3>3. Y \ {n + 1} \in without
      BY <2>1, <3>1
    <3>4. f[Y \ {n + 1}] = Y
      BY <3>2, <3>3
    <3> QED BY <3>3, <3>4
  <2> HIDE DEF f, without, with
  <2>5. f \in Bijection(without, with)
    BY <2>2, <2>3, <2>4 DEF Bijection, Injection, Surjection, IsInjective
  <2> QED BY <2>5 DEF ExistsBijection
<1>5. IsFiniteSet(with) /\ Cardinality(with) = 2^n
  BY <1>2, <1>4, FS_Bijection
<1>6. without \cup with = SUBSET B /\ without \cap with = {}
  <2>1. A \subseteq B
    OBVIOUS
  <2> HIDE DEF A, B
  <2> QED BY <2>1
<1>7. Cardinality(without \cup with) = 2^n + 2^n - Cardinality(without \cap with)
  BY <1>2, <1>5, FS_Union
<1>8. Cardinality({}) = 0
  BY FS_EmptySet
<1>9. 2^n \in Nat
  BY <1>2, FS_CardinalityType
<1>10. 2^n # 0
  <2>1. {} \in without
    OBVIOUS
  <2> HIDE DEF without
  <2>2. Cardinality(without) # 0
    BY <1>2, <2>1, FS_EmptySet
  <2> QED BY <1>2, <2>2
<1> DEFINE p == 2^n
           r == 2^(n + 1)
<1>11. p \in Nat /\ p # 0 /\ r = p + p - 0
  <2> HIDE DEF without, with, A, B
  <2> QED BY <1>3, <1>6, <1>7, <1>8, <1>9, <1>10
<1>12. p \in Nat \ {0} /\ r = p + p
  <2> HIDE DEF p, r
  <2> QED BY <1>11
<1> QED BY <1>12

\* Dividing by p and halving is dividing by twice p.
LEMMA HalfOfQuotient ==
  ASSUME NEW l \in Nat, NEW p \in Nat \ {0}
  PROVE  l \div (p + p) = (l \div p) \div 2
<1> DEFINE d == l \div p
           e == l % p
           h == d \div 2
           b == d % 2
<1>1. d \in Nat /\ e \in 0 .. p-1 /\ l = p * d + e
  BY DivType
<1> HIDE DEF d, e
<1>2. h \in Nat /\ b \in 0 .. 1 /\ d = 2 * h + b
  BY <1>1, DivType
<1> HIDE DEF h, b
<1>3. p * d = (p + p) * h + p * b
  BY <1>1, <1>2
<1>4. p * b \in {0, p}
  BY <1>2
<1>5. p * b + e \in 0 .. (p + p) - 1
  BY <1>1, <1>4
<1>6. l = (p + p) * h + (p * b + e)
  <2> DEFINE u == (p + p) * h
             v == p * b
  <2>1. u \in Int /\ v \in Int /\ p * d = u + v
    BY <1>2, <1>3
  <2> HIDE DEF u, v
  <2>2. l = u + (v + e)
    BY <1>1, <2>1
  <2> QED BY <2>2 DEF u, v
<1>7. p + p \in Nat \ {0} /\ h \in Int
  BY <1>2
<1>8. l \div (p + p) = h
  BY <1>5, <1>6, <1>7, QuotientIs
<1> QED BY <1>8 DEF h, d

\* The place of an access in its interval
LEMMA NextPlace ==
  ASSUME NEW n \in Nat \ {0}, NEW t \in Nat, (t + 1) % n # 0
  PROVE  (t + 1) % n = (t % n) + 1
<1> DEFINE q == t \div n
           d == t % n
<1>1. t = n * q + d /\ d \in 0 .. n-1 /\ q \in Int
  OBVIOUS
<1>2. (t + 1) % n = d + 1
  <2> HIDE DEF q, d
  <2>1. CASE d + 1 = n
    <3>1. n * (q + 1) = n * q + n /\ n * q \in Int
      BY <1>1
    <3>2. t + 1 = n * (q + 1) + 0 /\ q + 1 \in Int /\ t + 1 \in Nat
      BY <1>1, <2>1, <3>1
    <3>3. 0 \in 0 .. n-1
      OBVIOUS
    <3>4. (t + 1) % n = 0
      BY <3>2, <3>3, RemainderIs
    <3> QED BY <3>4
  <2>2. CASE d + 1 # n
    <3>1. t + 1 = n * q + (d + 1) /\ d + 1 \in 0 .. n-1 /\ t + 1 \in Nat
      BY <1>1, <2>2
    <3> QED BY <1>1, <3>1, RemainderIs
  <2> QED BY <2>1, <2>2
<1> QED BY <1>2

-----------------------------------------------------------------------------
(* Lists *)

\* Removing position i moves every later element one place forward.
LEMMA RemoveAtElements ==
  ASSUME NEW S, NEW q \in Seq(S), NEW i \in 1..Len(q)
  PROVE  /\ RemoveAt(q, i) \in Seq(S)
         /\ Len(RemoveAt(q, i)) = Len(q) - 1
         /\ \A j \in 1..Len(q)-1 :
              RemoveAt(q, i)[j] = IF j < i THEN q[j] ELSE q[j+1]
<1> DEFINE u == SubSeq(q, 1, i-1)
           v == SubSeq(q, i+1, Len(q))
<1>1. u \in Seq(S) /\ Len(u) = i-1 /\ \A j \in 1..i-1 : u[j] = q[j]
  BY SubSeqProperties
<1>2. v \in Seq(S) /\ Len(v) = Len(q)-i /\ \A j \in 1..Len(q)-i : v[j] = q[i+j]
  BY SubSeqProperties
<1> HIDE DEF u, v
<1>3. u \o v \in Seq(S) /\ Len(u \o v) = Len(q)-1
  BY <1>1, <1>2
<1>4. \A j \in 1..Len(q)-1 : (u \o v)[j] = IF j < i THEN q[j] ELSE q[j+1]
  BY <1>1, <1>2
<1> QED BY <1>3, <1>4 DEF RemoveAt, u, v

\* A list without position i holds all its keys but that one.
LEMMA ListsRemoveAt ==
  ASSUME NEW S, NEW q \in Seq(S), NEW K, Lists(q, K), NEW i \in 1..Len(q)
  PROVE  /\ RemoveAt(q, i) \in Seq(S)
         /\ Len(RemoveAt(q, i)) = Len(q) - 1
         /\ Lists(RemoveAt(q, i), K \ {q[i]})
<1> DEFINE r == RemoveAt(q, i)
<1>1. /\ r \in Seq(S) /\ Len(r) = Len(q) - 1
      /\ \A j \in 1..Len(q)-1 : r[j] = IF j < i THEN q[j] ELSE q[j+1]
  BY RemoveAtElements
<1> HIDE DEF r
<1>2. Len(q) \in Nat /\ DOMAIN q = 1..Len(q) /\ DOMAIN r = 1..Len(q)-1
  BY <1>1
<1>3. \A a, b \in 1..Len(q) : q[a] = q[b] => a = b
  BY <1>2 DEF Lists, IsInjective
<1>4. IsInjective(r)
  BY <1>1, <1>2, <1>3 DEF IsInjective
<1>5. K = {q[j] : j \in 1..Len(q)}
  BY <1>2 DEF Lists, ToSet
<1>6. ToSet(r) = K \ {q[i]}
  <2>1. ASSUME NEW x \in ToSet(r) PROVE x \in K \ {q[i]}
    <3>1. PICK j \in 1..Len(q)-1 : x = r[j]
      BY <1>2 DEF ToSet
    <3>2. PICK m \in 1..Len(q) : x = q[m] /\ m # i
      BY <3>1, <1>1, <1>2
    <3> QED BY <3>2, <1>3, <1>5
  <2>2. ASSUME NEW x \in K \ {q[i]} PROVE x \in ToSet(r)
    <3>1. PICK m \in 1..Len(q) : x = q[m]
      BY <1>5
    <3>2. m # i
      BY <3>1
    <3>3. CASE m < i
      BY <3>1, <3>3, <1>1, <1>2 DEF ToSet
    <3>4. CASE m > i
      <4>1. m - 1 \in 1..Len(q)-1 /\ r[m-1] = q[m]
        BY <3>4, <1>1, <1>2
      <4> QED BY <4>1, <3>1, <1>2 DEF ToSet
    <3> QED BY <3>2, <3>3, <3>4, <1>2
  <2> QED BY <2>1, <2>2
<1> QED BY <1>1, <1>4, <1>6 DEF Lists, r

\* Erasing a key of the list removes that key only.
LEMMA ListsErase ==
  ASSUME NEW S, NEW q \in Seq(S), NEW K, Lists(q, K), NEW k \in K
  PROVE  /\ Erase(q, k) \in Seq(S)
         /\ Len(Erase(q, k)) = Len(q) - 1
         /\ Lists(Erase(q, k), K \ {k})
<1> DEFINE i == CHOOSE i \in DOMAIN q : q[i] = k
<1>1. i \in 1..Len(q) /\ q[i] = k
  BY DEF Lists, ToSet
<1> HIDE DEF i
<1>2. Erase(q, k) = RemoveAt(q, i)
  BY DEF Erase, i
<1> QED BY <1>1, <1>2, ListsRemoveAt

\* pop_back is the removal of the last place.
LEMMA FrontRemoved ==
  ASSUME NEW S, NEW q \in Seq(S), q # <<>>
  PROVE  Len(q) \in 1..Len(q) /\ Front(q) = RemoveAt(q, Len(q))
<1>1. Len(q) \in Nat \ {0} /\ DOMAIN q = 1..Len(q)
  BY EmptySeq
<1>2. Front(q) \in Seq(S) /\ Len(Front(q)) = Len(q) - 1
      /\ \A j \in 1..Len(q)-1 : Front(q)[j] = q[j]
  BY <1>1, SubSeqProperties DEF Front
<1> DEFINE n == Len(q)
<1>3. n \in 1..Len(q)
  BY <1>1
<1>4. \A j \in 1..Len(q)-1 : j < n
  BY <1>1
<1> HIDE DEF n
<1>5. /\ RemoveAt(q, n) \in Seq(S)
      /\ Len(RemoveAt(q, n)) = Len(q) - 1
      /\ \A j \in 1..Len(q)-1 :
           RemoveAt(q, n)[j] = IF j < n THEN q[j] ELSE q[j+1]
  BY <1>3, RemoveAtElements
<1>6. /\ RemoveAt(q, Len(q)) \in Seq(S)
      /\ Len(RemoveAt(q, Len(q))) = Len(q) - 1
      /\ \A j \in 1..Len(q)-1 : RemoveAt(q, Len(q))[j] = q[j]
  BY <1>4, <1>5 DEF n
<1>7. Front(q) = RemoveAt(q, Len(q))
  BY <1>1, <1>2, <1>6, SeqEqual
<1> QED BY <1>3, <1>7 DEF n

\* pop_front and pop_back remove the first and the last key.
LEMMA ListsPop ==
  ASSUME NEW S, NEW q \in Seq(S), NEW K, Lists(q, K), q # <<>>
  PROVE  /\ Head(q) \in K /\ Last(q) \in K
         /\ Tail(q) \in Seq(S) /\ Lists(Tail(q), K \ {Head(q)})
         /\ Front(q) \in Seq(S) /\ Lists(Front(q), K \ {Last(q)})
         /\ Len(Front(q)) = Len(q) - 1
<1>1. Len(q) \in Nat \ {0} /\ DOMAIN q = 1..Len(q)
  BY EmptySeq
<1>2. Head(q) \in K /\ Last(q) \in K
  BY <1>1 DEF Lists, ToSet, Last
<1>3. Tail(q) = RemoveAt(q, 1)
  <2>1. Tail(q) \in Seq(S) /\ Len(Tail(q)) = Len(q) - 1
        /\ \A j \in 1..Len(q)-1 : Tail(q)[j] = q[j+1]
    BY <1>1
  <2> QED BY <2>1, <1>1, RemoveAtElements, SeqEqual
<1>4. Front(q) = RemoveAt(q, Len(q))
  BY FrontRemoved
<1>5. 1 \in 1..Len(q) /\ Len(q) \in 1..Len(q) /\ q[1] = Head(q)
  BY <1>1
<1>6. /\ RemoveAt(q, 1) \in Seq(S)
      /\ Lists(RemoveAt(q, 1), K \ {Head(q)})
      /\ RemoveAt(q, Len(q)) \in Seq(S)
      /\ Len(RemoveAt(q, Len(q))) = Len(q) - 1
      /\ Lists(RemoveAt(q, Len(q)), K \ {q[Len(q)]})
  BY <1>5, ListsRemoveAt
<1> QED BY <1>2, <1>3, <1>4, <1>6 DEF Last

\* splice: two lists of different keys, one after the other.
LEMMA ListsConcat ==
  ASSUME NEW S, NEW p \in Seq(S), NEW q \in Seq(S), NEW K, NEW L,
         Lists(p, K), Lists(q, L), K \cap L = {}
  PROVE  p \o q \in Seq(S) /\ Lists(p \o q, K \cup L)
<1> DEFINE r == p \o q
<1>1. /\ r \in Seq(S) /\ Len(r) = Len(p) + Len(q)
      /\ \A j \in 1..Len(p)+Len(q) :
           r[j] = IF j <= Len(p) THEN p[j] ELSE q[j - Len(p)]
  OBVIOUS
<1>2. /\ Len(p) \in Nat /\ DOMAIN p = 1..Len(p)
      /\ Len(q) \in Nat /\ DOMAIN q = 1..Len(q)
      /\ DOMAIN r = 1..Len(p)+Len(q)
  BY <1>1
<1> HIDE DEF r
<1>3. /\ \A a, b \in 1..Len(p) : p[a] = p[b] => a = b
      /\ \A a, b \in 1..Len(q) : q[a] = q[b] => a = b
  BY <1>2 DEF Lists, IsInjective
<1>4. K = {p[j] : j \in 1..Len(p)} /\ L = {q[j] : j \in 1..Len(q)}
  BY <1>2 DEF Lists, ToSet
<1>5. \A a \in 1..Len(p), b \in 1..Len(q) : p[a] # q[b]
  BY <1>4
<1>6. IsInjective(r)
  <2> SUFFICES ASSUME NEW a \in 1..Len(p)+Len(q), NEW b \in 1..Len(p)+Len(q),
                      r[a] = r[b]
               PROVE  a = b
    BY <1>2 DEF IsInjective
  <2>1. CASE a <= Len(p) /\ b <= Len(p)
    BY <2>1, <1>1, <1>2, <1>3
  <2>2. CASE a <= Len(p) /\ b > Len(p)
    BY <2>2, <1>1, <1>2, <1>5
  <2>3. CASE a > Len(p) /\ b <= Len(p)
    BY <2>3, <1>1, <1>2, <1>5
  <2>4. CASE a > Len(p) /\ b > Len(p)
    <3>1. a - Len(p) \in 1..Len(q) /\ b - Len(p) \in 1..Len(q)
      BY <2>4, <1>2
    <3>2. q[a - Len(p)] = q[b - Len(p)]
      BY <2>4, <1>1
    <3>3. a - Len(p) = b - Len(p)
      BY <3>1, <3>2, <1>3
    <3> QED BY <3>3, <1>2
  <2> QED BY <2>1, <2>2, <2>3, <2>4, <1>2
<1>7. ToSet(r) = K \cup L
  <2>1. ASSUME NEW x \in ToSet(r) PROVE x \in K \cup L
    <3>1. PICK j \in 1..Len(p)+Len(q) : x = r[j]
      BY <1>2 DEF ToSet
    <3>2. CASE j <= Len(p)
      BY <3>1, <3>2, <1>1, <1>2, <1>4
    <3>3. CASE j > Len(p)
      <4>1. j - Len(p) \in 1..Len(q) /\ x = q[j - Len(p)]
        BY <3>1, <3>3, <1>1, <1>2
      <4> QED BY <4>1, <1>4
    <3> QED BY <3>2, <3>3, <1>2
  <2>2. ASSUME NEW x \in K PROVE x \in ToSet(r)
    BY <1>1, <1>2, <1>4 DEF ToSet
  <2>3. ASSUME NEW x \in L PROVE x \in ToSet(r)
    <3>1. PICK j \in 1..Len(q) : x = q[j]
      BY <1>4
    <3>2. Len(p) + j \in 1..Len(p)+Len(q) /\ r[Len(p) + j] = q[j]
      BY <1>1, <1>2
    <3> QED BY <3>1, <3>2, <1>2 DEF ToSet
  <2> QED BY <2>1, <2>2, <2>3
<1> QED BY <1>1, <1>6, <1>7 DEF Lists, r

\* push_front of a key the list does not hold
LEMMA ListsPush ==
  ASSUME NEW S, NEW q \in Seq(S), NEW K, Lists(q, K), NEW k \in S, k \notin K
  PROVE  /\ <<k>> \o q \in Seq(S)
         /\ Len(<<k>> \o q) = Len(q) + 1
         /\ Lists(<<k>> \o q, K \cup {k})
<1>1. <<k>> \in Seq(S) /\ Len(<<k>>) = 1 /\ <<k>>[1] = k
  OBVIOUS
<1>2. Lists(<<k>>, {k})
  BY <1>1 DEF Lists, IsInjective, ToSet
<1>3. {k} \cap K = {} /\ {k} \cup K = K \cup {k}
  OBVIOUS
<1>4. Lists(<<k>> \o q, {k} \cup K)
  BY <1>1, <1>2, <1>3, ListsConcat
<1>5. <<k>> \o q \in Seq(S) /\ Len(<<k>> \o q) = Len(q) + 1
  OBVIOUS
<1> QED BY <1>3, <1>4, <1>5

\* The empty list holds nothing, and only it does.
LEMMA ListsEmpty ==
  ASSUME NEW S, NEW q \in Seq(S), NEW K, Lists(q, K)
  PROVE  q = <<>> <=> K = {}
<1>1. Len(q) \in Nat /\ DOMAIN q = 1..Len(q)
  OBVIOUS
<1>2. q = <<>> <=> Len(q) = 0
  BY EmptySeq
<1> QED BY <1>1, <1>2 DEF Lists, ToSet

\* A splice is empty when both lists are.
LEMMA ConcatEqualIffEmptyBoth ==
  ASSUME NEW S, NEW p \in Seq(S), NEW q \in Seq(S)
  PROVE  p \o q = <<>> <=> p = <<>> /\ q = <<>>
<1>1. /\ p \o q \in Seq(S) /\ Len(p \o q) = Len(p) + Len(q)
      /\ Len(p) \in Nat /\ Len(q) \in Nat
  OBVIOUS
<1>2. \A r \in Seq(S) : r = <<>> <=> Len(r) = 0
  BY EmptySeq
<1> QED BY <1>1, <1>2

\* A list is as long as the number of keys it holds.
LEMMA ListsLength ==
  ASSUME NEW S, NEW q \in Seq(S), NEW K, Lists(q, K)
  PROVE  IsFiniteSet(K) /\ Cardinality(K) = Len(q)
<1>1. Len(q) \in Nat /\ DOMAIN q = 1..Len(q)
  OBVIOUS
<1>2. IsFiniteSet(1..Len(q)) /\ Cardinality(1..Len(q)) = Len(q)
  BY <1>1, FS_Interval
<1>3. q \in Bijection(1..Len(q), K)
  BY <1>1 DEF Lists, IsInjective, ToSet, Bijection, Injection, Surjection
<1>4. ExistsBijection(1..Len(q), K)
  BY <1>3 DEF ExistsBijection
<1> QED BY <1>2, <1>4, FS_Bijection

=============================================================================
