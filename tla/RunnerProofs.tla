---------------------------- MODULE RunnerProofs ----------------------------
(***************************************************************************)
(* For any number of threads, rows, sizes, runs, cleanings and versions of *)
(* proto: a row that is plotted has the rates of its own policy over the   *)
(* sizes, in order; a result stays in the file until it is cleaned; and    *)
(* what was cleaned does not come back from an older proto.                *)
(***************************************************************************)
EXTENDS Runner, DataLemmas

N == Len(buffer_size_list)
Sizes == Range(buffer_size_list)

LEMMA Constants ==
  /\ buffer_size_list \in Seq(Nat) /\ N \in Nat
  /\ DOMAIN buffer_size_list = 1 .. N
  /\ Sizes = { buffer_size_list[i] : i \in 1 .. N } /\ Sizes \subseteq Nat
  /\ \A i \in 1 .. N-1 : buffer_size_list[i] < buffer_size_list[i + 1]
  /\ 1 \in Rows
<1>1. /\ buffer_size_list \in Seq(Nat) /\ N \in Nat
      /\ DOMAIN buffer_size_list = 1 .. N
      /\ \A i \in 1 .. N-1 : buffer_size_list[i] < buffer_size_list[i + 1]
  BY RunnerAssumption DEF N
<1>2. Sizes = { buffer_size_list[i] : i \in 1 .. N } /\ Sizes \subseteq Nat
  BY <1>1 DEF Sizes, Range
<1>3. 1 \in Rows
  <2>1. Len(trace_list) \in Nat \ {0}
    BY RunnerAssumption, EmptySeq
  <2>2. Len(perTrace) \in Nat \ {0}
    <3> DEFINE lru == [policy |-> "LRU", params |-> "None"]
               P == [policy : STRING, params : STRING] \cup {lru}
    <3>1. perTrace = <<lru>> \o policies
      BY DEF perTrace
    <3>2. policies \in Seq(P)
      <4> DEFINE R == [policy : STRING, params : STRING]
      <4>1. policies \in Seq(R) /\ R \subseteq P
        BY RunnerAssumption
      <4> HIDE DEF R, P
      <4>2. PICK n \in Nat : policies \in [1 .. n -> R]
        BY <4>1, SeqDef
      <4> QED BY <4>1, <4>2, SeqDef
    <3>3. lru \in P
      OBVIOUS
    <3> HIDE DEF P, lru
    <3> QED BY <3>1, <3>2, <3>3
  <2>3. \A a, b \in Nat \ {0} : a * b >= 1
    OBVIOUS
  <2> QED BY <2>1, <2>2, <2>3 DEF Rows
<1> QED BY <1>1, <1>2, <1>3

-----------------------------------------------------------------------------
(* A row in order *)

\* The sizes ascend, from any one to any later one.
LEMMA Ascending ==
  \A i, j \in 1 .. N : i < j => buffer_size_list[i] < buffer_size_list[j]
<1> DEFINE b == buffer_size_list
           S == { d \in Nat : \A i \in 1 .. N : i + d + 1 <= N => b[i] < b[i + d + 1] }
<1>1. N \in Nat /\ (\A i \in 1 .. N : b[i] \in Nat) /\ \A i \in 1 .. N-1 : b[i] < b[i + 1]
  BY Constants
<1> HIDE DEF b
<1>2. 0 \in S
  BY <1>1
<1>3. ASSUME NEW d \in Nat, d \in S PROVE d + 1 \in S
  <2> SUFFICES ASSUME NEW i \in 1 .. N, i + (d + 1) + 1 <= N
               PROVE  b[i] < b[i + (d + 1) + 1]
    OBVIOUS
  <2>1. i + d + 1 \in 1 .. N-1 /\ i + (d + 1) + 1 = (i + d + 1) + 1
    BY <1>1
  <2>2. b[i] < b[i + d + 1] /\ b[i + d + 1] < b[(i + d + 1) + 1]
    BY <1>1, <1>3, <2>1
  <2>3. i + d + 1 \in 1 .. N /\ (i + d + 1) + 1 \in 1 .. N
    BY <1>1, <2>1
  <2> QED BY <1>1, <2>1, <2>2, <2>3
<1>4. Nat \subseteq S
  <2>1. \A d \in Nat : d \in S => d + 1 \in S
    BY <1>3
  <2> HIDE DEF S
  <2> QED BY <1>2, <2>1, AllNaturals
<1>5. ASSUME NEW i \in 1 .. N, NEW j \in 1 .. N, i < j PROVE b[i] < b[j]
  <2>1. j - i - 1 \in Nat /\ i + (j - i - 1) + 1 = j
    BY <1>1, <1>5
  <2>2. j - i - 1 \in S
    BY <1>4, <2>1
  <2> QED BY <1>1, <2>1, <2>2
<1> QED BY <1>5 DEF b

\* A strictly ascending map of an interval into itself moves nothing.
LEMMA AscendingIsIdentity ==
  ASSUME NEW n \in Nat, NEW e \in [1 .. n -> 1 .. n],
         \A i, j \in 1 .. n : i < j => e[i] < e[j]
  PROVE  \A i \in 1 .. n : e[i] = i
<1> DEFINE L == { m \in Nat : m + 1 <= n => e[m + 1] >= m + 1 }
           U == { m \in Nat : m < n => e[n - m] <= n - m }
<1>1. Nat \subseteq L
  <2>1. 0 \in L
    OBVIOUS
  <2>2. ASSUME NEW m \in Nat, m \in L PROVE m + 1 \in L
    <3> SUFFICES ASSUME (m + 1) + 1 <= n PROVE e[(m + 1) + 1] >= (m + 1) + 1
      OBVIOUS
    <3>1. e[m + 1] < e[(m + 1) + 1] /\ m + 1 \in 1 .. n /\ (m + 1) + 1 \in 1 .. n
      OBVIOUS
    <3>2. e[m + 1] >= m + 1 /\ e[m + 1] \in Nat /\ e[(m + 1) + 1] \in Nat
      BY <2>2, <3>1
    <3> QED BY <3>1, <3>2
  <2>3. \A m \in Nat : m \in L => m + 1 \in L
    BY <2>2
  <2> HIDE DEF L
  <2> QED BY <2>1, <2>3, AllNaturals
<1>2. Nat \subseteq U
  <2>1. 0 \in U
    OBVIOUS
  <2>2. ASSUME NEW m \in Nat, m \in U PROVE m + 1 \in U
    <3> SUFFICES ASSUME m + 1 < n PROVE e[n - (m + 1)] <= n - (m + 1)
      OBVIOUS
    <3>1. /\ n - (m + 1) \in 1 .. n /\ n - m \in 1 .. n
          /\ n - (m + 1) < n - m
      OBVIOUS
    <3>2. e[n - (m + 1)] < e[n - m]
      BY <3>1
    <3>3. e[n - m] <= n - m /\ e[n - m] \in Nat /\ e[n - (m + 1)] \in Nat
      BY <2>2, <3>1
    <3> QED BY <3>2, <3>3
  <2>3. \A m \in Nat : m \in U => m + 1 \in U
    BY <2>2
  <2> HIDE DEF U
  <2> QED BY <2>1, <2>3, AllNaturals
<1>3. ASSUME NEW i \in 1 .. n PROVE e[i] = i
  <2>1. i - 1 \in L /\ n - i \in U
    <3>1. i - 1 \in Nat /\ n - i \in Nat
      OBVIOUS
    <3> HIDE DEF L, U
    <3> QED BY <1>1, <1>2, <3>1
  <2>2. e[i] >= i
    BY <2>1
  <2>3. n - (n - i) = i
    OBVIOUS
  <2>4. e[i] <= i
    BY <2>1, <2>3
  <2> QED BY <2>2, <2>4
<1> QED BY <1>3

Rates == [row : Rows, size : Sizes, build : Nat]
Entries == [size : Sizes, rate : Rates]

\* If a row has a rate for each of the sizes, sorting puts each in its place.
LEMMA Sorted ==
  ASSUME NEW list \in Seq(Entries), Len(list) = N,
         \A i, j \in 1 .. N : list[i].size = list[j].size => i = j
  PROVE  /\ InOrder(list) \in [1 .. N -> Entries]
         /\ \A i \in 1 .. N : /\ InOrder(list)[i].size = buffer_size_list[i]
                              /\ \E j \in 1 .. N : InOrder(list)[i] = list[j]
<1> DEFINE b == buffer_size_list
           f == [i \in 1 .. N |-> CHOOSE j \in 1 .. N : b[j] = list[i].size]
<1>1. DOMAIN list = 1 .. N /\ N \in Nat /\ \A i \in 1 .. N : list[i].size \in Sizes
  <2>1. N \in Nat
    BY Constants
  <2>2. DOMAIN list = 1 .. N /\ \A i \in 1 .. N : list[i] \in Entries
    BY <2>1
  <2> QED BY <2>1, <2>2 DEF Entries
<1>2. ASSUME NEW i \in 1 .. N PROVE f[i] \in 1 .. N /\ b[f[i]] = list[i].size
  <2>1. list[i].size \in { b[j] : j \in 1 .. N }
    BY <1>1, Constants
  <2> DEFINE s == list[i].size
  <2>2. \E j \in 1 .. N : b[j] = s
    BY <2>1
  <2>3. f[i] = CHOOSE j \in 1 .. N : b[j] = s
    OBVIOUS
  <2> HIDE DEF s, f, b
  <2>4. f[i] \in 1 .. N /\ b[f[i]] = s
    BY <2>2, <2>3
  <2> QED BY <2>4 DEF s
<1>3. /\ \A i, j \in 1 .. N : i < j => b[i] < b[j]
      /\ \A i \in 1 .. N : b[i] \in Nat
  BY Ascending, Constants
<1>4. f \in [1 .. N -> 1 .. N]
  BY <1>2
<1> HIDE DEF b, f
<1>5. f \in Injection(1 .. N, 1 .. N)
  <2>1. \A i, j \in 1 .. N : f[i] = f[j] => i = j
    BY <1>2
  <2> QED BY <1>4, <2>1 DEF Injection, IsInjective
<1>6. \A j \in 1 .. N : \E i \in 1 .. N : f[i] = j
  <2>1. IsFiniteSet(1 .. N)
    BY <1>1, FS_Interval
  <2>2. f \in Surjection(1 .. N, 1 .. N)
    BY <1>5, <2>1, FS_Injection
  <2> QED BY <2>2 DEF Surjection
<1> DEFINE p == [j \in 1 .. N |-> CHOOSE i \in 1 .. N : f[i] = j]
           Ordered(u) == \A i, j \in 1 .. N : i < j => list[u[i]].size <= list[u[j]].size
<1>7. /\ p \in [1 .. N -> 1 .. N]
      /\ \A j \in 1 .. N : f[p[j]] = j
  <2>1. ASSUME NEW j \in 1 .. N PROVE p[j] \in 1 .. N /\ f[p[j]] = j
    <3>1. p[j] = CHOOSE i \in 1 .. N : f[i] = j
      OBVIOUS
    <3> HIDE DEF p
    <3> QED BY <1>6, <3>1
  <2>2. p = [j \in 1 .. N |-> p[j]]
    OBVIOUS
  <2> HIDE DEF p
  <2> QED BY <2>1, <2>2
<1> HIDE DEF p
<1>8. p \in Bijection(1 .. N, 1 .. N)
  <2>1. \A i, j \in 1 .. N : p[i] = p[j] => i = j
    BY <1>7
  <2>2. \A i \in 1 .. N : \E j \in 1 .. N : p[j] = i
    <3> SUFFICES ASSUME NEW i \in 1 .. N PROVE \E j \in 1 .. N : p[j] = i
      OBVIOUS
    <3>1. f[i] \in 1 .. N /\ f[p[f[i]]] = f[i] /\ p[f[i]] \in 1 .. N
      BY <1>4, <1>7
    <3>2. p[f[i]] = i
      BY <1>5, <3>1 DEF Injection, IsInjective
    <3> QED BY <3>1, <3>2
  <2> QED BY <1>7, <2>1, <2>2 DEF Bijection, Injection, Surjection, IsInjective
<1>9. Ordered(p)
  <2> SUFFICES ASSUME NEW i \in 1 .. N, NEW j \in 1 .. N, i < j
               PROVE  list[p[i]].size <= list[p[j]].size
    OBVIOUS
  <2>1. list[p[i]].size = b[i] /\ list[p[j]].size = b[j]
    BY <1>2, <1>7
  <2> QED BY <1>3, <2>1
<1> DEFINE to == CHOOSE u \in Bijection(1 .. N, 1 .. N) : Ordered(u)
<1>10. to \in Bijection(1 .. N, 1 .. N) /\ Ordered(to)
  <2> HIDE DEF Ordered
  <2> QED BY <1>8, <1>9
<1>11. InOrder(list) = [i \in 1 .. N |-> list[to[i]]]
  BY <1>1 DEF InOrder
<1> HIDE DEF to
<1> DEFINE e == [i \in 1 .. N |-> f[to[i]]]
<1>12. to \in [1 .. N -> 1 .. N] /\ \A i, j \in 1 .. N : to[i] = to[j] => i = j
  BY <1>10 DEF Bijection, Injection, IsInjective
<1>13. e \in [1 .. N -> 1 .. N]
  BY <1>4, <1>12
<1>14. ASSUME NEW i \in 1 .. N, NEW j \in 1 .. N, i < j PROVE e[i] < e[j]
  <2>1. to[i] \in 1 .. N /\ to[j] \in 1 .. N /\ to[i] # to[j]
    BY <1>12, <1>14
  <2>2. list[to[i]].size <= list[to[j]].size /\ list[to[i]].size # list[to[j]].size
    BY <1>10, <1>14, <2>1
  <2>3. b[f[to[i]]] <= b[f[to[j]]] /\ f[to[i]] # f[to[j]]
    BY <1>2, <2>1, <2>2
  <2>4. f[to[i]] \in 1 .. N /\ f[to[j]] \in 1 .. N
    BY <1>2, <2>1
  <2>5. ~(f[to[j]] < f[to[i]])
    BY <1>3, <2>3, <2>4
  <2>6. f[to[i]] < f[to[j]]
    BY <2>3, <2>4, <2>5
  <2> QED BY <2>6
<1>15. \A i \in 1 .. N : e[i] = i
  <2>1. \A i, j \in 1 .. N : i < j => e[i] < e[j]
    BY <1>14
  <2> HIDE DEF e
  <2> QED BY <1>1, <1>13, <2>1, AscendingIsIdentity
<1>16. ASSUME NEW i \in 1 .. N
       PROVE  InOrder(list)[i].size = b[i] /\ \E j \in 1 .. N : InOrder(list)[i] = list[j]
  <2>1. InOrder(list)[i] = list[to[i]] /\ to[i] \in 1 .. N /\ f[to[i]] = i
    BY <1>11, <1>12, <1>15
  <2> QED BY <1>2, <2>1
<1>17. InOrder(list) \in [1 .. N -> Entries]
  BY <1>1, <1>11, <1>12
<1> QED BY <1>16, <1>17 DEF b

-----------------------------------------------------------------------------
(* The inductive invariant *)

\* What a thread does: nothing, or a task that has no rate yet, or has one
Short == [pc : {"find", "read", "run"}, size : Sizes]
Long == [pc : {"lock", "open", "write", "add"}, size : Sizes, rate : Rates]
Doing == {Idle} \cup Short \cup Long

TypeOK ==
  /\ state \in {"running", "done", "failed"}
  /\ row \in Nat \ {0} /\ submitted \in 0 .. N
  /\ hit_rate_list \in Seq(Entries) /\ plotted \in Seq([1 .. N -> Entries])
  /\ thread \in [Threads -> Doing]
  /\ DOMAIN db \subseteq Keys /\ db \in [DOMAIN db -> Rates]
  /\ build \in Nat /\ since \in [Keys -> Nat]

\* The pool works only while runner.py makes a row.
Progress ==
  /\ Len(plotted) = row - 1
  /\ IF state = "running" THEN row \in Rows ELSE \A w \in Threads : At(w, "idle")

\* No two tasks of a row, at work or ended, have the same size.
Started == { buffer_size_list[i] : i \in 1 .. submitted }
Apart ==
  /\ \A w \in Threads : ~ At(w, "idle") =>
       /\ thread[w].size \in Started
       /\ \A v \in Threads : ~ At(v, "idle") /\ thread[v].size = thread[w].size => v = w
       /\ \A i \in DOMAIN hit_rate_list : hit_rate_list[i].size # thread[w].size
  /\ \A i \in DOMAIN hit_rate_list :
       /\ hit_rate_list[i].size \in Started
       /\ \A j \in DOMAIN hit_rate_list :
            hit_rate_list[i].size = hit_rate_list[j].size => i = j

\* A rate is what was run for the key it is kept under.
KeyOfRate(r) == make_cache_key_string(r.row, r.size)
RatesRight ==
  /\ \A k \in DOMAIN db : KeyOfRate(db[k]) = k
  /\ \A w \in Threads : thread[w] \in Long => KeyOfRate(thread[w].rate) = KeyOf(w)
  /\ \A i \in DOMAIN hit_rate_list :
       KeyOfRate(hit_rate_list[i].rate) = make_cache_key_string(row, hit_rate_list[i].size)

\* What a thread is about to save is not in the file.
Unsaved ==
  /\ ~exists => DOMAIN db = {}
  /\ \A w \in Threads : At(w, "write") => exists
  /\ \A w \in Threads :
       thread[w].pc \in {"run", "lock", "open", "write"} => KeyOf(w) \notin DOMAIN db

\* Neither the file nor a thread holds a result older than the last cleaning.
Fresh ==
  /\ \A k \in Keys : since[k] <= build
  /\ CleanLasts
  /\ \A w \in Threads :
       thread[w].pc \in {"lock", "open", "write"} => thread[w].rate.build >= since[KeyOf(w)]

IInv == TypeOK /\ Progress /\ Apart /\ RatesRight /\ Unsaved /\ Fresh /\ RowsRight

-----------------------------------------------------------------------------
(* What a step does to the threads *)

LEMMA KeyApart ==
  ASSUME NEW n, NEW m, NEW s, NEW t,
         make_cache_key_string(n, s) = make_cache_key_string(m, t)
  PROVE  configuration(n) = configuration(m) /\ s = t
BY DEF make_cache_key_string, configuration

LEMMA KeyTyped ==
  ASSUME NEW n \in Rows, NEW s \in Sizes
  PROVE  make_cache_key_string(n, s) \in Keys
BY DEF Keys, Sizes

LEMMA Kinds ==
  ASSUME TypeOK, NEW w \in Threads
  PROVE  /\ At(w, "idle") => thread[w] = Idle
         /\ thread[w].pc \in {"find", "read", "run"} => thread[w] \in Short
         /\ thread[w].pc \in {"lock", "open", "write", "add"} => thread[w] \in Long
         /\ ~ At(w, "idle") => thread[w].size \in Sizes
         /\ thread[w] \in Long => thread[w].pc \in {"lock", "open", "write", "add"}
<1>1. thread[w] \in Doing
  BY DEF TypeOK
<1> QED BY <1>1 DEF Doing, Short, Long, Idle, At

\* Goes changes pc only.
LEMMA GoesTo ==
  ASSUME TypeOK, NEW w \in Threads, NEW pc, Goes(w, pc), ~ At(w, "idle")
  PROVE  /\ \A v \in Threads \ {w} : thread'[v] = thread[v]
         /\ thread'[w].pc = pc /\ thread'[w].size = thread[w].size
         /\ thread[w] \in Short /\ pc \in {"find", "read", "run"} => thread'[w] \in Short
         /\ thread[w] \in Long /\ pc \in {"lock", "open", "write", "add"} =>
              thread'[w] \in Long /\ thread'[w].rate = thread[w].rate
         /\ thread' = [v \in Threads |-> thread'[v]]
<1>1. thread \in [Threads -> Doing] /\ thread[w] \in Short \cup Long
  <2>1. thread \in [Threads -> Doing]
    BY DEF TypeOK
  <2>2. thread[w] # Idle
    BY DEF Idle, At
  <2> QED BY <2>1, <2>2 DEF Doing
<1>2. thread' = [thread EXCEPT ![w].pc = pc]
  BY DEF Goes
<1>3. /\ \A v \in Threads \ {w} : thread'[v] = thread[v]
      /\ thread'[w] = [thread[w] EXCEPT !.pc = pc]
      /\ thread' = [v \in Threads |-> thread'[v]]
  BY <1>1, <1>2
<1>4. CASE thread[w] \in Short
  BY <1>3, <1>4 DEF Short, Long
<1>5. CASE thread[w] \in Long
  BY <1>3, <1>5 DEF Short, Long
<1> QED BY <1>1, <1>3, <1>4, <1>5

-----------------------------------------------------------------------------
(* The tasks *)

\* A thread is at work only while a row of the figure is made.
LEMMA AtWork ==
  ASSUME Progress, NEW w \in Threads, ~ At(w, "idle")
  PROVE  state = "running" /\ row \in Rows
BY DEF Progress

LEMMA StartKeeps ==
  ASSUME IInv, NEW w \in Threads, Start(w)
  PROVE  IInv'
<1> DEFINE s == buffer_size_list[submitted + 1]
           d == [pc |-> "find", size |-> s]
<1>1. /\ TypeOK /\ Progress /\ Apart /\ RatesRight /\ Unsaved /\ Fresh /\ RowsRight
      /\ state = "running" /\ At(w, "idle") /\ submitted < N /\ submitted' = submitted + 1
      /\ thread' = [thread EXCEPT ![w] = d]
      /\ UNCHANGED <<runs, state, row, hit_rate_list, plotted, lock, file, user>>
  BY DEF IInv, Start, N
<1>2. /\ submitted \in 0 .. N /\ N \in Nat /\ submitted + 1 \in 1 .. N
      /\ s \in Sizes /\ d \in Short /\ d.size = s /\ d.pc = "find"
  BY <1>1, Constants DEF TypeOK, Short
<1> HIDE DEF s, d
<1>3. /\ \A v \in Threads \ {w} : thread'[v] = thread[v]
      /\ thread'[w] = d /\ thread' \in [Threads -> Doing]
  BY <1>1, <1>2 DEF TypeOK, Doing
<1>4. TypeOK'
  BY <1>1, <1>2, <1>3 DEF TypeOK, file, user
<1>5. Progress'
  BY <1>1 DEF Progress
<1>6. Apart'
  <2>1. Started' = Started \cup {s} /\ s \notin Started
    <3>1. \A i \in 1 .. submitted : buffer_size_list[i] # s
      BY <1>2, Ascending, Constants DEF s
    <3>2. 1 .. submitted + 1 = (1 .. submitted) \cup {submitted + 1}
      BY <1>2
    <3> QED BY <1>1, <3>1, <3>2 DEF Started, s
  <2> QED BY <1>1, <1>2, <1>3, <2>1 DEF Apart, At
<1>7. RatesRight'
  BY <1>1, <1>2, <1>3 DEF RatesRight, KeyOf, KeyOfRate, file, Short, Long
<1>8. Unsaved'
  BY <1>1, <1>2, <1>3 DEF Unsaved, KeyOf, file, At
<1>9. Fresh' /\ RowsRight'
  BY <1>1, <1>2, <1>3 DEF Fresh, KeyOf, CleanLasts, RowsRight, file, user
<1> QED BY <1>4, <1>5, <1>6, <1>7, <1>8, <1>9 DEF IInv

\* A step that leaves the row and the file alone, or only opens the file.
LEMMA FindKeeps ==
  ASSUME IInv, NEW w \in Threads, Find(w)
  PROVE  IInv'
<1>1. /\ TypeOK /\ Progress /\ Apart /\ RatesRight /\ Unsaved /\ Fresh /\ RowsRight
      /\ At(w, "find") /\ thread[w] \in Short
      /\ UNCHANGED <<run, lock, db, exists, writer, user>>
  BY Kinds DEF IInv, Find, At
<1>2. /\ \A v \in Threads \ {w} : thread'[v] = thread[v]
      /\ thread' \in [Threads -> Doing]
      /\ \/ thread'[w] = Idle
         \/ /\ thread'[w] \in Short /\ thread'[w].size = thread[w].size
            /\ thread'[w].pc = "read" \/ (thread'[w].pc = "run" /\ ~ exists)
  <2>1. CASE ~ exists /\ Goes(w, "run")
    <3>1. ~ At(w, "idle")
      BY <1>1 DEF At
    <3> QED BY <1>1, <2>1, <3>1, GoesTo DEF TypeOK, Doing
  <2>2. CASE Fails(w)
    BY <1>1, <2>2 DEF TypeOK, Fails, Doing
  <2>3. CASE Goes(w, "read")
    <3>1. ~ At(w, "idle")
      BY <1>1 DEF At
    <3> QED BY <1>1, <2>3, <3>1, GoesTo DEF TypeOK, Doing
  <2> QED BY <2>1, <2>2, <2>3 DEF Find
<1>3. TypeOK'
  BY <1>1, <1>2 DEF TypeOK, run, file, user
<1>4. Progress'
  BY <1>1, <1>2 DEF Progress, run, At
<1>5. Apart'
  BY <1>1, <1>2 DEF Apart, Started, run, At, Idle
<1>6. RatesRight'
  BY <1>1, <1>2 DEF RatesRight, KeyOf, KeyOfRate, run, Short, Long, Idle
<1>7. Unsaved'
  BY <1>1, <1>2 DEF Unsaved, KeyOf, run, At, Idle
<1>8. Fresh' /\ RowsRight'
  BY <1>1, <1>2 DEF Fresh, KeyOf, CleanLasts, RowsRight, run, user, Idle
<1> QED BY <1>3, <1>4, <1>5, <1>6, <1>7, <1>8 DEF IInv

LEMMA ReadKeeps ==
  ASSUME IInv, NEW w \in Threads, Read(w)
  PROVE  IInv'
<1>1. /\ TypeOK /\ Progress /\ Apart /\ RatesRight /\ Unsaved /\ Fresh /\ RowsRight
      /\ At(w, "read") /\ thread[w] \in Short
      /\ UNCHANGED <<run, lock, db, exists, writer, user>>
  BY Kinds DEF IInv, Read, At
<1>2. /\ \A v \in Threads \ {w} : thread'[v] = thread[v]
      /\ thread' \in [Threads -> Doing]
      /\ \/ /\ KeyOf(w) \in DOMAIN db /\ thread'[w] \in Long
            /\ thread'[w] = [pc |-> "add", size |-> thread[w].size, rate |-> db[KeyOf(w)]]
         \/ /\ KeyOf(w) \notin DOMAIN db /\ thread'[w] \in Short
            /\ thread'[w] = [pc |-> "run", size |-> thread[w].size]
  <2>1. thread \in [Threads -> Doing] /\ thread[w].size \in Sizes
    BY <1>1 DEF TypeOK, Short
  <2>2. CASE KeyOf(w) \in DOMAIN db
    <3>1. [pc |-> "add", size |-> thread[w].size, rate |-> db[KeyOf(w)]] \in Long
      BY <1>1, <2>1, <2>2 DEF TypeOK, Long
    <3> QED BY <2>1, <2>2, <3>1 DEF Read, Doing
  <2>3. CASE KeyOf(w) \notin DOMAIN db
    <3>1. [pc |-> "run", size |-> thread[w].size] \in Short
      BY <2>1 DEF Short
    <3> QED BY <2>1, <2>3, <3>1 DEF Read, Doing
  <2> QED BY <2>2, <2>3
<1>3. TypeOK'
  BY <1>1, <1>2 DEF TypeOK, run, file, user
<1>4. Progress'
  BY <1>1, <1>2 DEF Progress, run, At
<1>5. Apart'
  BY <1>1, <1>2 DEF Apart, Started, run, At
<1>6. RatesRight'
  BY <1>1, <1>2 DEF RatesRight, KeyOf, KeyOfRate, run, Short, Long
<1>7. Unsaved'
  BY <1>1, <1>2 DEF Unsaved, KeyOf, run, At
<1>8. Fresh' /\ RowsRight'
  BY <1>1, <1>2 DEF Fresh, KeyOf, CleanLasts, RowsRight, run, user
<1> QED BY <1>3, <1>4, <1>5, <1>6, <1>7, <1>8 DEF IInv

LEMMA RunProtoKeeps ==
  ASSUME IInv, NEW w \in Threads, RunProto(w)
  PROVE  IInv'
<1> DEFINE d == [pc |-> "lock", size |-> thread[w].size,
                 rate |-> [row |-> row, size |-> thread[w].size, build |-> build]]
<1>1. /\ TypeOK /\ Progress /\ Apart /\ RatesRight /\ Unsaved /\ Fresh /\ RowsRight
      /\ At(w, "run") /\ thread[w] \in Short /\ UNCHANGED <<run, lock, file, user>>
  BY Kinds DEF IInv, RunProto, At
<1>2. row \in Rows /\ thread[w].size \in Sizes /\ build \in Nat
  BY <1>1, AtWork DEF At, Short, TypeOK
<1>3. /\ \A v \in Threads \ {w} : thread'[v] = thread[v]
      /\ thread' \in [Threads -> Doing]
      /\ thread'[w] = Idle \/ (thread'[w] \in Long /\ thread'[w] = d)
  <2>1. CASE Fails(w)
    BY <1>1, <2>1 DEF TypeOK, Fails, Doing
  <2>2. CASE thread' = [thread EXCEPT ![w] = d]
    <3>1. d \in Long
      BY <1>2 DEF Long, Rates
    <3> HIDE DEF d
    <3> QED BY <1>1, <2>2, <3>1 DEF TypeOK, Doing
  <2> QED BY <2>1, <2>2 DEF RunProto
<1>4. TypeOK'
  BY <1>1, <1>3 DEF TypeOK, run, file, user
<1>5. Progress'
  BY <1>1, <1>3 DEF Progress, run, At
<1>6. Apart'
  BY <1>1, <1>3 DEF Apart, Started, run, At, Idle
<1>7. RatesRight'
  BY <1>1, <1>3 DEF RatesRight, KeyOf, KeyOfRate, run, file, Short, Long, Idle
<1>8. Unsaved'
  BY <1>1, <1>3 DEF Unsaved, KeyOf, run, file, At, Idle
<1>9. Fresh' /\ RowsRight'
  <2>1. build >= since[KeyOf(w)]
    BY <1>1, <1>2, KeyTyped DEF Fresh, KeyOf
  <2> QED BY <1>1, <1>3, <2>1 DEF Fresh, KeyOf, CleanLasts, RowsRight, run, file, user, Idle
<1> QED BY <1>4, <1>5, <1>6, <1>7, <1>8, <1>9 DEF IInv

\* Taking the lock, and opening the file or failing to, leave all it holds.
LEMMA LockOpenKeep ==
  ASSUME IInv, NEW w \in Threads, Lock(w) \/ Open(w)
  PROVE  IInv'
<1>1. /\ TypeOK /\ Progress /\ Apart /\ RatesRight /\ Unsaved /\ Fresh /\ RowsRight
      /\ At(w, "lock") \/ At(w, "open")
      /\ thread[w] \in Long
      /\ UNCHANGED <<run, db, user>> /\ (exists => exists')
  BY Kinds DEF IInv, Lock, Open, At, file
<1>2. /\ \A v \in Threads \ {w} : thread'[v] = thread[v]
      /\ thread' \in [Threads -> Doing]
      /\ \/ thread'[w] = Idle
         \/ /\ thread'[w] \in Long /\ thread'[w].rate = thread[w].rate
            /\ thread'[w].size = thread[w].size
            /\ thread'[w].pc = "open" \/ (thread'[w].pc = "write" /\ exists')
  <2>1. CASE Lock(w)
    <3>1. ~ At(w, "idle") /\ Goes(w, "open") /\ thread[w] \in Long
      BY <1>1, <2>1, Kinds DEF Lock, At
    <3> QED BY <1>1, <3>1, GoesTo DEF TypeOK, Doing
  <2>2. CASE Open(w) /\ Fails(w)
    BY <1>1, <2>2 DEF TypeOK, Fails, Doing
  <2>3. CASE Open(w) /\ Goes(w, "write") /\ exists' = TRUE
    <3>1. ~ At(w, "idle") /\ Goes(w, "write") /\ thread[w] \in Long
      BY <1>1, <2>3, Kinds DEF Open, At
    <3> QED BY <1>1, <2>3, <3>1, GoesTo DEF TypeOK, Doing
  <2> QED BY <2>1, <2>2, <2>3 DEF Open
<1>3. thread[w].pc \in {"lock", "open"} /\ thread[w] \in Long
  BY <1>1, Kinds DEF At
<1>4. TypeOK'
  BY <1>1, <1>2 DEF TypeOK, run, user
<1>5. Progress'
  BY <1>1, <1>2, <1>3 DEF Progress, run, At
<1>6. Apart'
  BY <1>1, <1>2, <1>3 DEF Apart, Started, run, At, Idle
<1>7. RatesRight'
  BY <1>1, <1>2, <1>3 DEF RatesRight, KeyOf, KeyOfRate, run, Long, Idle
<1>8. Unsaved'
  BY <1>1, <1>2, <1>3 DEF Unsaved, KeyOf, run, At, Idle
<1>9. Fresh' /\ RowsRight'
  BY <1>1, <1>2, <1>3 DEF Fresh, KeyOf, CleanLasts, RowsRight, run, user, Idle
<1> QED BY <1>4, <1>5, <1>6, <1>7, <1>8, <1>9 DEF IInv

\* The only other work on keys of the row is on other sizes.
LEMMA OtherKeys ==
  ASSUME Apart, NEW w \in Threads, NEW v \in Threads, v # w,
         ~ At(w, "idle"), ~ At(v, "idle")
  PROVE  KeyOf(v) # KeyOf(w)
<1>1. thread[v].size # thread[w].size
  BY DEF Apart
<1> QED BY <1>1, KeyApart DEF KeyOf

LEMMA WriteKeeps ==
  ASSUME IInv, NEW w \in Threads, Write(w)
  PROVE  /\ IInv'
         /\ \A k \in DOMAIN db : k \in DOMAIN db' /\ db'[k] = db[k]
<1> DEFINE key == KeyOf(w)
           rate == thread[w].rate
<1>1. /\ TypeOK /\ Progress /\ Apart /\ RatesRight /\ Unsaved /\ Fresh /\ RowsRight
      /\ At(w, "write") /\ thread[w] \in Long /\ UNCHANGED <<run, exists, readers, user>>
      /\ db' = Saved(key, rate) /\ Goes(w, "add")
  BY Kinds DEF IInv, Write, At
<1>2. /\ \A v \in Threads \ {w} : thread'[v] = thread[v]
      /\ thread' \in [Threads -> Doing]
      /\ thread'[w] \in Long /\ thread'[w].rate = rate
      /\ thread'[w].size = thread[w].size /\ thread'[w].pc = "add"
  <2>1. ~ At(w, "idle")
    BY <1>1 DEF At
  <2> QED BY <1>1, <2>1, GoesTo DEF TypeOK, Doing
<1>3. /\ exists /\ row \in Rows /\ thread[w].size \in Sizes /\ rate \in Rates
      /\ key \in Keys /\ key \notin DOMAIN db
      /\ KeyOfRate(rate) = key /\ rate.build >= since[key]
  <2>1. exists /\ row \in Rows /\ thread[w].size \in Sizes /\ rate \in Rates
    BY <1>1, AtWork DEF Unsaved, Long, At
  <2>2. key \in Keys
    BY <2>1, KeyTyped DEF KeyOf
  <2> QED BY <1>1, <2>1, <2>2 DEF Unsaved, RatesRight, Fresh, At
<1> HIDE DEF key, rate
<1>4. /\ DOMAIN db' = DOMAIN db \cup {key}
      /\ db' = [x \in DOMAIN db' |-> db'[x]]
      /\ db'[key] = rate /\ \A k \in DOMAIN db : db'[k] = db[k]
  BY <1>1, <1>3 DEF Saved
<1>5. TypeOK'
  BY <1>1, <1>2, <1>3, <1>4 DEF TypeOK, run, user
<1>6. Progress'
  BY <1>1, <1>2 DEF Progress, run, At
<1>7. Apart'
  BY <1>1, <1>2 DEF Apart, Started, run, At
<1>8. RatesRight'
  BY <1>1, <1>2, <1>3, <1>4 DEF RatesRight, KeyOf, KeyOfRate, run, Long, key, rate
<1>9. Unsaved'
  <2>1. ASSUME NEW v \in Threads, thread'[v].pc \in {"run", "lock", "open", "write"}
        PROVE  KeyOf(v)' \notin DOMAIN db'
    <3>1. v # w /\ thread'[v] = thread[v] /\ KeyOf(v)' = KeyOf(v)
      BY <1>1, <1>2, <2>1 DEF KeyOf, run
    <3>2. KeyOf(v) # key
      BY <1>1, <2>1, <3>1, OtherKeys DEF At, key
    <3> QED BY <1>1, <1>4, <2>1, <3>1, <3>2 DEF Unsaved
  <2> QED BY <1>1, <1>2, <1>3, <2>1 DEF Unsaved, At
<1>10. Fresh'
  BY <1>1, <1>2, <1>3, <1>4 DEF Fresh, KeyOf, CleanLasts, run, user
<1>11. RowsRight'
  BY <1>1 DEF RowsRight, run
<1> QED BY <1>4, <1>5, <1>6, <1>7, <1>8, <1>9, <1>10, <1>11 DEF IInv

LEMMA AddKeeps ==
  ASSUME IInv, NEW w \in Threads, Add(w)
  PROVE  IInv'
<1> DEFINE e == [size |-> thread[w].size, rate |-> thread[w].rate]
           list == hit_rate_list
<1>1. /\ TypeOK /\ Progress /\ Apart /\ RatesRight /\ Unsaved /\ Fresh /\ RowsRight
      /\ At(w, "add") /\ thread[w] \in Long
      /\ UNCHANGED <<runs, state, row, submitted, plotted, lock, file, user>>
      /\ thread' = [thread EXCEPT ![w] = Idle]
      /\ hit_rate_list' = Append(hit_rate_list, e)
  BY Kinds DEF IInv, Add, At
<1>2. /\ \A v \in Threads \ {w} : thread'[v] = thread[v]
      /\ thread' \in [Threads -> Doing] /\ thread'[w] = Idle
  BY <1>1 DEF TypeOK, Doing
<1>3. /\ e \in Entries /\ e.size = thread[w].size /\ e.rate = thread[w].rate
      /\ list \in Seq(Entries)
  BY <1>1 DEF Long, Entries, TypeOK
<1> HIDE DEF e
<1>4. /\ list' \in Seq(Entries)
      /\ DOMAIN list' = DOMAIN list \cup {Len(list) + 1}
      /\ list'[Len(list) + 1] = e /\ \A i \in DOMAIN list : list'[i] = list[i]
  BY <1>1, <1>3
<1>5. Len(list) + 1 \notin DOMAIN list
  BY <1>3
<1> HIDE DEF list
<1>6. TypeOK'
  BY <1>1, <1>2, <1>4 DEF TypeOK, file, user, list
<1>7. Progress'
  BY <1>1, <1>2, AtWork DEF Progress, At
<1>8. Apart'
  <2>1. /\ \A i \in DOMAIN list : list[i].size \in Started /\ list[i].size # e.size
        /\ \A i, j \in DOMAIN list : list[i].size = list[j].size => i = j
        /\ e.size \in Started /\ Started' = Started
    BY <1>1, <1>3 DEF Apart, Started, At, list
  <2>2. /\ \A i \in DOMAIN list' : list'[i].size \in Started
        /\ \A i, j \in DOMAIN list' : list'[i].size = list'[j].size => i = j
    BY <1>4, <2>1
  <2>3. \A v \in Threads : ~ At(v, "idle")' =>
          /\ thread'[v].size \in Started
          /\ \A u \in Threads : ~ At(u, "idle")' /\ thread'[u].size = thread'[v].size => u = v
          /\ \A i \in DOMAIN list' : list'[i].size # thread'[v].size
    <3>1. \A v \in Threads : ~ At(v, "idle")' =>
            v # w /\ thread'[v] = thread[v] /\ ~ At(v, "idle")
      BY <1>2 DEF At, Idle
    <3>2. \A v \in Threads \ {w} : ~ At(v, "idle") => thread[v].size # e.size
      BY <1>1, <1>3 DEF Apart, At
    <3> QED BY <1>1, <1>4, <3>1, <3>2 DEF Apart, list
  <2> QED BY <2>1, <2>2, <2>3 DEF Apart, list
<1>9. RatesRight'
  BY <1>1, <1>2, <1>3, <1>4 DEF RatesRight, KeyOf, KeyOfRate, file, Long, Idle, list
<1>10. Unsaved'
  BY <1>1, <1>2 DEF Unsaved, KeyOf, file, At, Idle
<1>11. Fresh' /\ RowsRight'
  BY <1>1, <1>2 DEF Fresh, KeyOf, CleanLasts, RowsRight, file, user, Idle
<1> QED BY <1>6, <1>7, <1>8, <1>9, <1>10, <1>11 DEF IInv

-----------------------------------------------------------------------------
(* The main thread *)

\* The first row, and the rows of a run begun again, are made from nothing.
LEMMA Idleness ==
  ASSUME NEW t \in [Threads -> Doing], \A w \in Threads : t[w].pc = "idle"
  PROVE  \A w \in Threads : t[w] = Idle
<1>1. \A w \in Threads : t[w] \in Doing
  OBVIOUS
<1> QED BY <1>1 DEF Doing, Short, Long

\* A row is plotted only if each of its tasks has added a rate.
LEMMA PlotKeeps ==
  ASSUME IInv, Plot
  PROVE  IInv'
<1> DEFINE list == hit_rate_list
<1>1. /\ TypeOK /\ Progress /\ Apart /\ RatesRight /\ Unsaved /\ Fresh /\ RowsRight
      /\ state = "running" /\ submitted = N /\ \A w \in Threads : At(w, "idle")
      /\ UNCHANGED <<runs, thread, lock, file, user>>
  BY DEF IInv, Plot, N
<1>2. \A w \in Threads : thread[w] = Idle
  BY <1>1, Idleness DEF At, TypeOK
<1>3. N \in Nat /\ row \in Nat \ {0} /\ list \in Seq(Entries) /\ plotted \in Seq([1 .. N -> Entries])
  BY <1>1, Constants DEF TypeOK
<1>4. Unsaved' /\ Fresh'
  BY <1>1, <1>2 DEF Unsaved, Fresh, CleanLasts, KeyOf, file, user, Idle, At
<1>5. CASE Len(list) # N
  <2>1. state' = "failed" /\ UNCHANGED <<row, submitted, hit_rate_list, plotted>>
    BY <1>5 DEF Plot, N
  <2>2. TypeOK' /\ Progress' /\ RowsRight'
    BY <1>1, <2>1 DEF TypeOK, Progress, RowsRight, At, file, user
  <2>3. Apart' /\ RatesRight'
    BY <1>1, <1>2, <2>1 DEF Apart, RatesRight, Started, KeyOf, KeyOfRate, file, At
  <2> QED BY <1>4, <2>2, <2>3 DEF IInv
<1>6. CASE Len(list) = N
  <2> DEFINE r == InOrder(list)
  <2>1. /\ plotted' = Append(plotted, r) /\ submitted' = 0 /\ hit_rate_list' = <<>>
        /\ row' = row + 1 /\ state' = IF row + 1 \in Rows THEN "running" ELSE "done"
    BY <1>6 DEF Plot, N
  <2>2. /\ r \in [1 .. N -> Entries]
        /\ \A i \in 1 .. N : r[i].size = buffer_size_list[i] /\ \E j \in 1 .. N : r[i] = list[j]
    <3>1. \A i, j \in 1 .. N : list[i].size = list[j].size => i = j
      BY <1>1, <1>3, <1>6 DEF Apart
    <3> QED BY <1>3, <1>6, <3>1, Sorted
  <2>3. \A i \in 1 .. N : /\ configuration(r[i].rate.row) = configuration(row)
                          /\ r[i].rate.size = buffer_size_list[i]
    <3> SUFFICES ASSUME NEW i \in 1 .. N
                 PROVE  /\ configuration(r[i].rate.row) = configuration(row)
                        /\ r[i].rate.size = buffer_size_list[i]
      OBVIOUS
    <3>1. PICK j \in 1 .. N : r[i] = list[j]
      BY <2>2
    <3>2. make_cache_key_string(list[j].rate.row, list[j].rate.size)
          = make_cache_key_string(row, list[j].size)
      BY <1>1, <1>3, <1>6 DEF RatesRight, KeyOfRate
    <3> HIDE DEF r
    <3> QED BY <2>2, <3>1, <3>2, KeyApart
  <2> HIDE DEF r
  <2>4. TypeOK'
    BY <1>1, <1>3, <2>1, <2>2 DEF TypeOK, file, user
  <2>5. Progress'
    <3>1. state' # "running" \/ row' \in Rows
      BY <2>1
    <3> QED BY <1>1, <1>3, <2>1, <3>1 DEF Progress, At
  <2>6. Apart' /\ RatesRight'
    BY <1>1, <1>2, <2>1 DEF Apart, RatesRight, KeyOf, KeyOfRate, file, At, Idle, Long
  <2>7. RowsRight'
    <3>1. /\ DOMAIN plotted' = 1 .. row /\ plotted'[row] = r
          /\ \A n \in DOMAIN plotted : n \in 1 .. row /\ plotted'[n] = plotted[n]
          /\ \A n \in 1 .. row : n = row \/ n \in DOMAIN plotted
      BY <1>1, <1>3, <2>1 DEF Progress
    <3> SUFFICES ASSUME NEW n \in 1 .. row, NEW i \in 1 .. N
                 PROVE  /\ configuration(plotted'[n][i].rate.row) = configuration(n)
                        /\ plotted'[n][i].rate.size = buffer_size_list[i]
      BY <3>1, Constants DEF RowsRight
    <3>2. CASE n = row
      BY <2>3, <3>1, <3>2
    <3>3. CASE n # row
      <4>1. n \in DOMAIN plotted /\ plotted'[n] = plotted[n]
        BY <3>1, <3>3
      <4>2. DOMAIN buffer_size_list = 1 .. N
        BY Constants
      <4> QED BY <1>1, <4>1, <4>2 DEF RowsRight
    <3> QED BY <3>2, <3>3
  <2> QED BY <1>4, <2>4, <2>5, <2>6, <2>7 DEF IInv
<1> QED BY <1>5, <1>6

LEMMA RestartKeeps ==
  ASSUME IInv, Restart
  PROVE  IInv'
<1>1. /\ TypeOK /\ Progress /\ Apart /\ RatesRight /\ Unsaved /\ Fresh
      /\ state # "running" /\ \A w \in Threads : At(w, "idle")
      /\ state' = "running" /\ row' = 1 /\ submitted' = 0
      /\ hit_rate_list' = <<>> /\ plotted' = <<>>
      /\ UNCHANGED <<thread, lock, file, user>>
  BY DEF IInv, Restart, Progress
<1>2. \A w \in Threads : thread[w] = Idle
  BY <1>1, Idleness DEF At, TypeOK
<1>3. TypeOK' /\ Progress'
  BY <1>1, Constants DEF TypeOK, Progress, file, user
<1>4. Apart' /\ RatesRight' /\ RowsRight'
  BY <1>1, <1>2 DEF Apart, RatesRight, RowsRight, KeyOf, KeyOfRate, file, At, Idle, Long
<1>5. Unsaved' /\ Fresh'
  BY <1>1, <1>2 DEF Unsaved, Fresh, CleanLasts, KeyOf, file, user, Idle, At
<1> QED BY <1>3, <1>4, <1>5 DEF IInv

-----------------------------------------------------------------------------
(* The cleaner, and a new version *)

LEMMA CleanerOpensKeeps ==
  ASSUME IInv, invalid_cache
  PROVE  IInv'
<1>1. /\ TypeOK /\ Progress /\ Apart /\ RatesRight /\ Unsaved /\ Fresh /\ RowsRight
      /\ UNCHANGED <<run, thread, lock, db, exists, readers, build, since>>
  BY DEF IInv, invalid_cache
<1>2. TypeOK' /\ Progress' /\ Apart' /\ RatesRight'
  BY <1>1 DEF TypeOK, Progress, Apart, Started, RatesRight, KeyOf, KeyOfRate, run, At
<1>3. Unsaved' /\ Fresh' /\ RowsRight'
  BY <1>1 DEF Unsaved, Fresh, CleanLasts, RowsRight, KeyOf, run, At
<1> QED BY <1>2, <1>3 DEF IInv

\* What is left in the file is as it was.
LEMMA Left ==
  ASSUME Delete
  PROVE  /\ DOMAIN db' = Remaining /\ db' = [k \in DOMAIN db' |-> db'[k]]
         /\ \A k \in DOMAIN db : Invalid(k) \/ (k \in DOMAIN db' /\ db'[k] = db[k])
         /\ \A k \in DOMAIN db' : k \in DOMAIN db /\ ~ Invalid(k) /\ db'[k] = db[k]
BY DEF Delete, Restrict, Remaining

LEMMA DeleteKeeps ==
  ASSUME IInv, Delete
  PROVE  IInv'
<1>1. /\ TypeOK /\ Progress /\ Apart /\ RatesRight /\ Unsaved /\ Fresh /\ RowsRight
      /\ UNCHANGED <<run, thread, lock, exists, readers, cleans, build>>
      /\ since' = [k \in Keys |-> IF Invalid(k) /\ ~ InHand(k) THEN build ELSE since[k]]
  BY DEF IInv, Delete
<1>2. /\ db' = [k \in DOMAIN db' |-> db'[k]]
      /\ \A k \in DOMAIN db' : k \in DOMAIN db /\ ~ Invalid(k) /\ db'[k] = db[k]
  BY Left
<1>3. TypeOK'
  BY <1>1, <1>2 DEF TypeOK, run
<1>4. Progress' /\ Apart'
  BY <1>1 DEF Progress, Apart, Started, run, At
<1>5. RatesRight' /\ RowsRight'
  BY <1>1, <1>2 DEF RatesRight, RowsRight, KeyOf, KeyOfRate, run
<1>6. Unsaved'
  BY <1>1, <1>2 DEF Unsaved, KeyOf, run, At
<1>7. Fresh'
  <2>1. \A k \in Keys : since[k] <= build /\ since[k] \in Nat /\ build \in Nat
    BY <1>1 DEF Fresh, TypeOK
  <2>2. \A k \in Keys : since'[k] <= build'
    BY <1>1, <2>1
  <2>3. CleanLasts'
    <3>1. \A k \in DOMAIN db' : since'[k] = since[k] /\ db'[k] = db[k] /\ k \in DOMAIN db
      BY <1>1, <1>2 DEF TypeOK
    <3> QED BY <1>1, <3>1 DEF Fresh, CleanLasts
  <2>4. ASSUME NEW w \in Threads, thread[w].pc \in {"lock", "open", "write"}
        PROVE  thread[w].rate.build >= since'[KeyOf(w)]
    <3>1. InHand(KeyOf(w))
      BY <2>4 DEF InHand
    <3>2. KeyOf(w) \in Keys
      <4>1. ~ At(w, "idle") /\ thread[w].size \in Sizes
        BY <1>1, <2>4, Kinds DEF At
      <4> QED BY <1>1, <4>1, AtWork, KeyTyped DEF KeyOf
    <3>3. since'[KeyOf(w)] = since[KeyOf(w)]
      BY <1>1, <3>1, <3>2
    <3> QED BY <1>1, <2>4, <3>3 DEF Fresh
  <2> QED BY <1>1, <2>2, <2>3, <2>4 DEF Fresh, KeyOf, run
<1> QED BY <1>3, <1>4, <1>5, <1>6, <1>7 DEF IInv

LEMMA RebuildKeeps ==
  ASSUME IInv, Rebuild
  PROVE  IInv'
<1>1. /\ TypeOK /\ Progress /\ Apart /\ RatesRight /\ Unsaved /\ Fresh /\ RowsRight
      /\ build' = build + 1 /\ UNCHANGED <<run, thread, lock, file, since>>
  BY DEF IInv, Rebuild
<1>2. TypeOK' /\ Progress' /\ Apart' /\ RatesRight'
  BY <1>1 DEF TypeOK, Progress, Apart, Started, RatesRight, KeyOf, KeyOfRate, run, file, At
<1>3. Unsaved' /\ RowsRight'
  BY <1>1 DEF Unsaved, RowsRight, KeyOf, run, file, At
<1>4. Fresh'
  <2>1. \A k \in Keys : since[k] <= build /\ since[k] \in Nat /\ build \in Nat
    BY <1>1 DEF Fresh, TypeOK
  <2> QED BY <1>1, <2>1 DEF Fresh, CleanLasts, KeyOf, run, file
<1> QED BY <1>2, <1>3, <1>4 DEF IInv

-----------------------------------------------------------------------------
(* The theorems *)

LEMMA Initially ==
  ASSUME Init
  PROVE  IInv
<1>1. /\ state = "running" /\ row = 1 /\ submitted = 0 /\ hit_rate_list = <<>>
      /\ plotted = <<>> /\ thread = [w \in Threads |-> Idle] /\ db = << >>
      /\ exists = FALSE /\ build = 1 /\ since = [k \in Keys |-> 1]
  BY DEF Init
<1>2. DOMAIN db = {} /\ db = [k \in DOMAIN db |-> db[k]]
  BY <1>1
<1>3. TypeOK /\ Progress
  BY <1>1, <1>2, Constants DEF TypeOK, Progress, Doing
<1>4. Apart /\ RatesRight /\ Unsaved
  BY <1>1, <1>2 DEF Apart, RatesRight, Unsaved, At, Idle, Long
<1>5. Fresh /\ RowsRight
  BY <1>1, <1>2 DEF Fresh, CleanLasts, RowsRight, Idle
<1> QED BY <1>3, <1>4, <1>5 DEF IInv

\* Every step but the cleaner's leaves in the file what was there.
LEMMA EveryStep ==
  ASSUME IInv, [Next]_vars
  PROVE  /\ IInv'
         /\ \A k \in DOMAIN db : \/ k \in DOMAIN db' /\ db'[k] = db[k]
                                 \/ writer = "cleaner" /\ Invalid(k)
<1> DEFINE Kept == \A k \in DOMAIN db : k \in DOMAIN db' /\ db'[k] = db[k]
<1>1. ASSUME NEW w \in Threads, Task(w)
      PROVE  IInv' /\ Kept
  <2>1. CASE Write(w)
    BY <2>1, WriteKeeps
  <2>2. CASE ~ Write(w)
    <3>1. db' = db
      BY <1>1, <2>2 DEF Task, Start, Find, Read, RunProto, Lock, Open, Add, file
    <3>2. IInv'
      BY <1>1, <2>2, StartKeeps, FindKeeps, ReadKeeps, RunProtoKeeps, LockOpenKeep,
         AddKeeps DEF Task
    <3> QED BY <3>1, <3>2
  <2> QED BY <2>1, <2>2
<1>2. CASE Plot \/ Restart \/ invalid_cache \/ Rebuild
  <2>1. db' = db
    BY <1>2 DEF Plot, Restart, invalid_cache, Rebuild, file
  <2> QED BY <1>2, <2>1, PlotKeeps, RestartKeeps, CleanerOpensKeeps, RebuildKeeps
<1>3. CASE Delete
  BY <1>3, DeleteKeeps, Left DEF Delete
<1>4. CASE UNCHANGED vars
  <2>1. UNCHANGED <<run, thread, lock, file, build, since>>
    BY <1>4 DEF vars, user
  <2>2. TypeOK' /\ Progress' /\ Apart' /\ RatesRight'
    BY <2>1 DEF IInv, TypeOK, Progress, Apart, Started, RatesRight, KeyOf, KeyOfRate,
                run, file, At
  <2>3. Unsaved' /\ Fresh' /\ RowsRight'
    BY <2>1 DEF IInv, Unsaved, Fresh, CleanLasts, RowsRight, KeyOf, run, file, At
  <2> QED BY <2>1, <2>2, <2>3 DEF IInv, file
<1> QED BY <1>1, <1>2, <1>3, <1>4 DEF Next

THEOREM RunnerInvariance == Spec => []IInv
<1>1. Init => IInv
  BY Initially
<1>2. IInv /\ [Next]_vars => IInv'
  BY EveryStep
<1> QED BY <1>1, <1>2, PTL DEF Spec

\* Every plotted row has the rates of its own policy, parameters, trace and
\* sizes, in the order of the sizes, for every interleaving of the pool.
THEOREM RowsRightHolds == Spec => []RowsRight
<1>1. IInv => RowsRight
  BY DEF IInv
<1> QED BY <1>1, RunnerInvariance, PTL

\* What was cleaned does not come back from an older proto.
THEOREM CleanLastsHolds == Spec => []CleanLasts
<1>1. IInv => CleanLasts
  BY DEF IInv, Fresh
<1> QED BY <1>1, RunnerInvariance, PTL

\* No step but the cleaner's takes a result away, or changes it.
THEOREM ResultsKeptHolds == Spec => ResultsKept
<1> DEFINE Kept == \A k \in DOMAIN db : \/ k \in DOMAIN db' /\ db'[k] = db[k]
                                        \/ writer = "cleaner" /\ Invalid(k)
<1>1. IInv /\ [Next]_vars => [Kept]_vars
  BY EveryStep
<1> QED BY <1>1, RunnerInvariance, PTL DEF Spec, ResultsKept

=============================================================================
