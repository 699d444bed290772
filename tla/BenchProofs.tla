---------------------------- MODULE BenchProofs ----------------------------
(***************************************************************************)
(* For any number of threads and any trace: every place is requested once  *)
(* at most and, without an early stop, once; the shared index overshoots   *)
(* by less than the number of threads; every thread is counted warm once;  *)
(* a report sums up no more than was requested, and an early stop has its  *)
(* reason; and for what memcached has, RocksDB has a value too or refused  *)
(* that one.                                                               *)
(***************************************************************************)
EXTENDS Bench, DataLemmas

-----------------------------------------------------------------------------
(* Where a thread is: in a request, or after it *)

Busy == {"get", "find", "put", "fill", "tally"}
After == {"warm", "report", "read", "unlock", "decide", "stop"}
Labels == Busy \cup After \cup {"loop", "take", "drain", "done"}

PcOK == pc \in [Threads -> Labels]

LEMMA Constants ==
  /\ T \in Nat \ {0} /\ Length \in Nat
  /\ access_list \in [0 .. Length - 1 -> Keys]
  /\ DOMAIN access_list = 0 .. Length - 1
  /\ \A k \in Sizes : k \in Nat \ {0}
BY BenchAssumption

\* Where the steps of a thread start and lead
LEMMA Moves ==
  ASSUME NEW t \in Threads, Step(t)
  PROVE  \/ Loop(t) /\ \E l \in {"take", "drain"} : Goto(t, l)
         \/ Take(t) /\ Goto(t, "get")
         \/ /\ pc[t] \in Busy /\ \E l \in Busy : Goto(t, l)
            /\ UNCHANGED <<i, global_i, served, test_finished, warming_up,
                           warming_up_counter>>
         \/ Tally(t) /\ \E l \in {"warm", "report"} : Goto(t, l)
         \/ Warm(t) /\ Goto(t, "report")
         \/ /\ pc[t] \in After /\ \E l \in After \ {"warm"} : Goto(t, l)
            /\ UNCHANGED <<i, global_i, served, warming_up, warming_up_counter>>
            /\ test_finished => test_finished'
         \/ Stop(t) /\ \E l \in {"done", "loop"} : Goto(t, l)
         \/ Drain(t) /\ Goto(t, "done")
<1>1. CASE Loop(t)
  BY <1>1 DEF Loop
<1>2. CASE Take(t)
  BY <1>2 DEF Take
<1>3. CASE Get(t)
  BY <1>3 DEF Get, At, Busy, request, stats, report
<1>4. CASE Find(t)
  BY <1>4 DEF Find, At, Busy, request, stats, report
<1>5. CASE Save(t)
  BY <1>5 DEF Save, At, Busy, request, stats, report
<1>6. CASE Fill(t)
  BY <1>6 DEF Fill, At, Busy, request, stats, report
<1>7. CASE Tally(t)
  BY <1>7 DEF Tally
<1>8. CASE Warm(t)
  BY <1>8 DEF Warm
<1>9. CASE SkipReport(t)
  BY <1>9 DEF SkipReport, At, After, request, stats, report
<1>10. CASE StartReport(t)
  BY <1>10 DEF StartReport, At, After, request, stats, report
<1>11. CASE ReadReport(t)
  BY <1>11 DEF ReadReport, At, After, request, stats, report
<1>12. CASE EndReport(t)
  BY <1>12 DEF EndReport, At, After, request, stats, report
<1>13. CASE Decide(t)
  BY <1>13 DEF Decide, At, After, request, stats, report
<1>14. CASE Stop(t)
  BY <1>14 DEF Stop
<1>15. CASE Drain(t)
  BY <1>15 DEF Drain
<1> QED BY <1>1, <1>2, <1>3, <1>4, <1>5, <1>6, <1>7, <1>8, <1>9, <1>10, <1>11, <1>12, <1>13, <1>14, <1>15, Zenon DEF Step

LEMMA PcInit == Init => PcOK
BY DEF Init, PcOK, Labels

LEMMA PcNext == PcOK /\ [Next]_vars => PcOK'
<1> SUFFICES ASSUME PcOK, [Next]_vars PROVE PcOK'
  OBVIOUS
<1>1. ASSUME NEW t \in Threads, Step(t) PROVE PcOK'
  <2>1. \E l \in Labels : Goto(t, l)
    BY <1>1, Moves DEF Labels, Busy, After
  <2> QED BY <2>1 DEF PcOK, Goto
<1>2. UNCHANGED pc => PcOK'
  BY DEF PcOK
<1> QED BY <1>1, <1>2 DEF Next, Forget, Joined, vars

-----------------------------------------------------------------------------
(* The warm-up *)

\* A thread that is about to be counted warm is not yet marked.
WarmInv ==
  /\ warming_up \in [Threads -> BOOLEAN]
  /\ WarmCounted
  /\ \A t \in Threads : pc[t] = "warm" => ~warming_up[t]

Warmed(f) == { t \in Threads : f[t] }

LEMMA MarkOnce ==
  ASSUME warming_up \in [Threads -> BOOLEAN], WarmCounted,
         NEW t \in Threads, ~warming_up[t], MarkWarm(t)
  PROVE  warming_up' \in [Threads -> BOOLEAN] /\ WarmCounted'
<1>1. warming_up' = [warming_up EXCEPT ![t] = TRUE]
  BY DEF MarkWarm
<1>2. warming_up' \in [Threads -> BOOLEAN]
  BY <1>1
<1>3. Warmed(warming_up') = Warmed(warming_up) \cup {t}
  BY <1>1 DEF Warmed
<1>4. IsFiniteSet(Warmed(warming_up)) /\ t \notin Warmed(warming_up)
  <2>1. IsFiniteSet(Threads)
    BY Constants, FS_Interval DEF Threads
  <2> QED BY <2>1, FS_Subset DEF Warmed
<1>5. Cardinality(Warmed(warming_up')) = Cardinality(Warmed(warming_up)) + 1
  BY <1>3, <1>4, FS_AddElement
<1> QED BY <1>2, <1>5 DEF WarmCounted, Warmed, MarkWarm

\* A step of t either leaves the marks alone, and goes to "warm" only unmarked,
\* or marks t, which was not marked.
LEMMA WarmStep ==
  ASSUME PcOK, WarmInv, NEW t \in Threads, Step(t)
  PROVE  WarmInv'
<1>1. CASE MarkWarm(t) /\ ~warming_up[t]
           /\ \E l \in Labels \ {"warm"} : Goto(t, l)
  <2>1. warming_up' \in [Threads -> BOOLEAN] /\ WarmCounted'
    BY <1>1, MarkOnce DEF WarmInv
  <2>2. \A u \in Threads : pc'[u] = "warm" => ~warming_up'[u]
    BY <1>1 DEF WarmInv, PcOK, Goto, MarkWarm
  <2> QED BY <2>1, <2>2 DEF WarmInv
<1>2. ASSUME UNCHANGED <<warming_up, warming_up_counter>>,
             \E l \in Labels : Goto(t, l) /\ (l = "warm" => ~warming_up[t])
      PROVE  WarmInv'
  <2>1. \A u \in Threads : pc'[u] = "warm" => ~warming_up[u]
    BY <1>2 DEF WarmInv, PcOK, Goto
  <2> QED BY <1>2, <2>1 DEF WarmInv, WarmCounted
<1>3. CASE Warm(t)
  BY <1>1, <1>3 DEF Warm, WarmInv, At, Labels, After
<1>4. CASE Drain(t)
  <2>1. CASE hasWarmup /\ ~warming_up[t]
    BY <1>1, <1>4, <2>1 DEF Drain, Labels
  <2>2. CASE ~(hasWarmup /\ ~warming_up[t])
    BY <1>2, <1>4, <2>2 DEF Drain, stats, Labels
  <2> QED BY <2>1, <2>2
<1>5. CASE Tally(t)
  <2>1. UNCHANGED <<warming_up, warming_up_counter>>
    BY <1>5 DEF Tally
  <2>2. Goto(t, "report") \/ (Goto(t, "warm") /\ ~warming_up[t])
    BY <1>5 DEF Tally
  <2> QED BY <1>2, <2>1, <2>2 DEF Labels, After
<1>6. CASE Loop(t) \/ Take(t) \/ Stop(t)
  <2>1. UNCHANGED <<warming_up, warming_up_counter>>
    BY <1>6 DEF Loop, Take, Stop, stats
  <2>2. \E l \in Labels \ {"warm"} : Goto(t, l)
    BY <1>6 DEF Loop, Take, Stop, Labels, Busy
  <2> QED BY <1>2, <2>1, <2>2
<1>7. ASSUME \E l \in Busy \cup (After \ {"warm"}) : Goto(t, l),
             UNCHANGED <<warming_up, warming_up_counter>>
      PROVE  WarmInv'
  BY <1>2, <1>7 DEF Labels, Busy
<1> QED BY <1>3, <1>4, <1>5, <1>6, <1>7, Moves

LEMMA WarmInit == Init => WarmInv
<1> SUFFICES ASSUME Init PROVE WarmInv
  OBVIOUS
<1>1. { t \in Threads : warming_up[t] } = {}
  BY DEF Init
<1> QED BY <1>1, FS_EmptySet DEF Init, WarmInv, WarmCounted

\* warming_up_counter is the number of threads that are warm: each is counted
\* once, under stats_mutex or at the end of the trace (bench.cpp:238, 310).
THEOREM WarmCountedHolds == Spec => []WarmCounted
<1>1. PcOK /\ WarmInv /\ [Next]_vars => WarmInv'
  <2> SUFFICES ASSUME PcOK, WarmInv, [Next]_vars PROVE WarmInv'
    OBVIOUS
  <2>1. UNCHANGED <<pc, warming_up, warming_up_counter>> => WarmInv'
    BY DEF WarmInv, WarmCounted
  <2>2. ASSUME NEW k \in Keys, Forget(k) PROVE WarmInv'
    BY <2>1, <2>2 DEF Forget, stats
  <2>3. UNCHANGED vars => WarmInv'
    BY <2>1 DEF vars, stats
  <2> QED BY <2>2, <2>3, WarmStep DEF Next, Joined
<1>2. WarmInv => WarmCounted
  BY DEF WarmInv
<1> QED BY <1>1, <1>2, PcInit, PcNext, WarmInit, PTL DEF Spec

-----------------------------------------------------------------------------
(* The store *)

Asking == {"get", "find", "put", "fill"}

\* RocksDB has a value of the key, or refused this one.
Backed(k, v) == db[k] # Absent \/ <<k, v>> \in refused

\* The request in hand has a key of the trace; a value on its way is one.
StoreInv ==
  /\ i \in [Threads -> Nat] /\ global_i \in Nat
  /\ mem \in [Keys -> Nat] /\ db \in [Keys -> Nat]
  /\ key \in [Threads -> Keys \cup {NoKey}]
  /\ value \in [Threads -> Nat]
  /\ CacheBacked
  /\ \A t \in Threads :
       /\ pc[t] \in Asking => key[t] \in Keys
       /\ pc[t] \in {"put", "fill"} => value[t] # Absent
       /\ pc[t] = "fill" => Backed(key[t], value[t])

\* A step that leaves the stores and the requests alone
LEMMA StoreSame ==
  ASSUME PcOK, StoreInv, NEW t \in Threads,
         UNCHANGED <<mem, rocksdb, key, value>>,
         i' \in [Threads -> Nat], global_i' \in Nat,
         NEW l \in Labels \ Asking, Goto(t, l)
  PROVE  StoreInv'
<1>1. \A u \in Threads : pc'[u] \in Asking => pc'[u] = pc[u]
  BY DEF PcOK, Goto
<1>2. \A u \in Threads :
        /\ pc'[u] \in Asking => key[u] \in Keys
        /\ pc'[u] \in {"put", "fill"} => value[u] # Absent
        /\ pc'[u] = "fill" => Backed(key[u], value[u])
  BY <1>1 DEF StoreInv, Asking
<1> QED BY <1>2 DEF StoreInv, CacheBacked, Backed, rocksdb

LEMMA StoreStep ==
  ASSUME PcOK, StoreInv, NEW t \in Threads, Step(t)
  PROVE  StoreInv'
<1>1. /\ \A k \in Sizes : k \in Nat \ {0}
      /\ Absent = 0 /\ T \in Nat \ {0}
  BY Constants DEF Absent
<1>2. /\ i \in [Threads -> Nat] /\ global_i \in Nat
      /\ mem \in [Keys -> Nat] /\ db \in [Keys -> Nat]
      /\ key \in [Threads -> Keys \cup {NoKey}]
      /\ value \in [Threads -> Nat]
      /\ pc \in [Threads -> Labels]
  BY DEF StoreInv, PcOK
<1>3. CASE Take(t)
  <2>1. /\ UNCHANGED <<value, mem, db, refused>> /\ Goto(t, "get")
        /\ \E k \in Fetched(IF threadsSync THEN global_i ELSE i[t]) :
             key' = [key EXCEPT ![t] = k]
        /\ i' = [i EXCEPT ![t] = IF threadsSync THEN global_i ELSE @]
        /\ global_i' = IF threadsSync THEN global_i + 1 ELSE global_i
    BY <1>2, <1>3 DEF Take, rocksdb
  <2>2. (IF threadsSync THEN global_i ELSE i[t]) \in Nat
    BY <1>2
  <2>3. \A p \in Nat : Fetched(p) \subseteq Keys
    BY Constants DEF Fetched
  <2>4. PICK k \in Keys : key' = [key EXCEPT ![t] = k]
    BY <2>1, <2>2, <2>3
  <2>5. i' \in [Threads -> Nat] /\ global_i' \in Nat
    BY <1>2, <2>1
  <2>6. \A u \in Threads :
          /\ pc'[u] \in Asking => key'[u] \in Keys
          /\ pc'[u] \in {"put", "fill"} => value[u] # Absent
          /\ pc'[u] = "fill" => Backed(key'[u], value[u])
    BY <1>2, <2>1, <2>4 DEF Goto, StoreInv, Asking
  <2> QED BY <1>2, <2>1, <2>4, <2>5, <2>6 DEF StoreInv, CacheBacked, Backed
<1>4. CASE Get(t)
  <2>1. /\ UNCHANGED <<i, key, value, global_i, mem, db, refused>>
        /\ pc[t] = "get" /\ (Goto(t, "tally") \/ Goto(t, "find"))
    BY <1>4, Zenon DEF Get, At, rocksdb
  <2>2. \A u \in Threads :
          /\ pc'[u] \in Asking => key[u] \in Keys
          /\ pc'[u] \in {"put", "fill"} => value[u] # Absent
          /\ pc'[u] = "fill" => Backed(key[u], value[u])
    BY <1>2, <2>1 DEF Goto, StoreInv, Asking
  <2> QED BY <2>1, <2>2 DEF StoreInv, CacheBacked, Backed
<1>5. CASE Find(t)
  <2>1. /\ UNCHANGED <<i, key, global_i, mem, db, refused>>
        /\ pc[t] = "find" /\ key[t] \in Keys
    BY <1>5 DEF Find, At, StoreInv, Asking, rocksdb
  <2>2. \E v \in Nat \ {0}, l \in {"put", "fill"} :
          /\ value' = [value EXCEPT ![t] = v] /\ Goto(t, l)
          /\ l = "fill" => db[key[t]] # Absent
    BY <1>1, <1>2, <1>5, <2>1 DEF Find
  <2>3. \A u \in Threads :
          /\ pc'[u] \in Asking => key[u] \in Keys
          /\ pc'[u] \in {"put", "fill"} => value'[u] # Absent
          /\ pc'[u] = "fill" => Backed(key[u], value'[u])
    BY <1>1, <1>2, <2>1, <2>2 DEF Goto, StoreInv, Asking, Backed
  <2>4. value' \in [Threads -> Nat]
    BY <1>2, <2>2
  <2> QED BY <2>1, <2>3, <2>4 DEF StoreInv, CacheBacked, Backed
<1>6. CASE Save(t)
  <2>1. /\ UNCHANGED <<i, key, value, global_i, mem>>
        /\ pc[t] = "put" /\ key[t] \in Keys /\ value[t] # Absent
        /\ Goto(t, "fill")
    BY <1>6 DEF Save, At, StoreInv, Asking, request
  <2>2. \/ db' = [db EXCEPT ![key[t]] = value[t]] /\ refused' = refused
        \/ db' = db /\ refused' = refused \cup {<<key[t], value[t]>>}
    BY <1>6 DEF Save
  <2>3. /\ db' \in [Keys -> Nat]
        /\ db'[key[t]] # Absent \/ <<key[t], value[t]>> \in refused'
        /\ \A k \in Keys : db[k] # Absent => db'[k] # Absent
        /\ refused \subseteq refused'
    BY <1>2, <2>1, <2>2
  <2>4. \A u \in Threads :
          /\ pc'[u] \in Asking => key[u] \in Keys
          /\ pc'[u] \in {"put", "fill"} => value[u] # Absent
          /\ pc'[u] = "fill" => db'[key[u]] # Absent \/ <<key[u], value[u]>> \in refused'
    <3> TAKE u \in Threads
    <3>1. CASE u = t
      BY <1>2, <2>1, <2>3, <3>1 DEF Goto
    <3>2. CASE u # t
      <4>1. pc'[u] = pc[u]
        BY <1>2, <2>1, <3>2 DEF Goto
      <4>2. /\ pc[u] \in Asking => key[u] \in Keys
            /\ pc[u] \in {"put", "fill"} => value[u] # Absent
            /\ pc[u] = "fill" => db[key[u]] # Absent \/ <<key[u], value[u]>> \in refused
        BY DEF StoreInv, Backed
      <4> QED BY <2>3, <4>1, <4>2 DEF Asking
    <3> QED BY <3>1, <3>2
  <2>5. CacheBacked'
    BY <2>1, <2>3 DEF StoreInv, CacheBacked
  <2> QED BY <1>2, <2>1, <2>3, <2>4, <2>5 DEF StoreInv, Backed
<1>7. CASE Fill(t)
  <2>1. /\ UNCHANGED <<i, key, value, global_i, db, refused>>
        /\ pc[t] = "fill" /\ key[t] \in Keys
        /\ db[key[t]] # Absent \/ <<key[t], value[t]>> \in refused
        /\ mem' \in {mem, [mem EXCEPT ![key[t]] = value[t]]} /\ Goto(t, "tally")
    BY <1>7 DEF Fill, At, StoreInv, Asking, Backed, request, rocksdb
  <2>2. mem' \in [Keys -> Nat] /\ CacheBacked'
    BY <1>2, <2>1 DEF StoreInv, CacheBacked
  <2>3. \A u \in Threads :
          /\ pc'[u] \in Asking => key[u] \in Keys
          /\ pc'[u] \in {"put", "fill"} => value[u] # Absent
          /\ pc'[u] = "fill" => Backed(key[u], value[u])
    BY <1>2, <2>1 DEF Goto, StoreInv, Asking
  <2> QED BY <2>1, <2>2, <2>3 DEF StoreInv, Backed
<1>8. CASE Tally(t)
  <2>1. /\ UNCHANGED <<global_i, mem, db, refused>> /\ Forgotten(t)
        /\ i' = IF threadsSync THEN i ELSE [i EXCEPT ![t] = @ + T]
        /\ Goto(t, "warm") \/ Goto(t, "report")
    BY <1>8 DEF Tally, rocksdb
  <2>2. i' \in [Threads -> Nat]
    BY <1>1, <1>2, <2>1
  <2>3. /\ key' \in [Threads -> Keys \cup {NoKey}] /\ value' \in [Threads -> Nat]
        /\ \A u \in Threads : u # t => key'[u] = key[u] /\ value'[u] = value[u]
    BY <1>1, <1>2, <2>1 DEF Forgotten
  <2>4. \A u \in Threads : pc'[u] \in Asking => u # t /\ pc'[u] = pc[u]
    BY <1>2, <2>1 DEF Goto, Asking
  <2>5. \A u \in Threads :
          /\ pc'[u] \in Asking => key'[u] \in Keys
          /\ pc'[u] \in {"put", "fill"} => value'[u] # Absent
          /\ pc'[u] = "fill" => Backed(key'[u], value'[u])
    BY <2>3, <2>4 DEF StoreInv, Asking
  <2> QED BY <1>2, <2>1, <2>2, <2>3, <2>5 DEF StoreInv, CacheBacked, Backed
<1>9. ASSUME UNCHANGED <<mem, rocksdb, key, value, i, global_i>>,
             \E l \in Labels \ Asking : Goto(t, l)
      PROVE  StoreInv'
  BY <1>2, <1>9, StoreSame
<1>10. CASE Loop(t)
  BY <1>9, <1>10 DEF Loop, request, Labels, Asking
<1>11. CASE Warm(t)
  BY <1>9, <1>11 DEF Warm, request, Labels, After, Asking
<1>12. CASE SkipReport(t) \/ StartReport(t)
  BY <1>9, <1>12 DEF SkipReport, StartReport, request, Labels, After, Asking
<1>13. CASE ReadReport(t)
  BY <1>9, <1>13 DEF ReadReport, request, Labels, After, Asking
<1>14. CASE EndReport(t) \/ Decide(t)
  BY <1>9, <1>14 DEF EndReport, Decide, request, Labels, After, Asking
<1>15. CASE Stop(t) \/ Drain(t)
  BY <1>9, <1>15 DEF Stop, Drain, request, Labels, After, Asking
<1> QED BY <1>3, <1>4, <1>5, <1>6, <1>7, <1>8, <1>10, <1>11, <1>12, <1>13,
           <1>14, <1>15 DEF Step

LEMMA StoreInit == Init => StoreInv
<1> SUFFICES ASSUME Init PROVE StoreInv
  OBVIOUS
<1>1. \A k \in Sizes : k \in Nat
  BY Constants
<1>2. /\ i \in [Threads -> Nat] /\ global_i \in Nat
      /\ mem \in [Keys -> Nat] /\ db \in [Keys -> Nat]
      /\ key \in [Threads -> Keys \cup {NoKey}] /\ value \in [Threads -> Nat]
  BY <1>1, Constants DEF Init, Threads, Absent
<1> QED BY <1>2 DEF Init, StoreInv, CacheBacked, Asking

\* For what memcached has, RocksDB has a value too or refused that one, whatever
\* requests of any number of threads interleave and whichever reads and writes
\* of the two stores fail (bench.cpp:158-170).
THEOREM CacheBackedHolds == Spec => []CacheBacked
<1>1. PcOK /\ StoreInv /\ [Next]_vars => StoreInv'
  <2> SUFFICES ASSUME PcOK, StoreInv, [Next]_vars PROVE StoreInv'
    OBVIOUS
  <2>1. ASSUME NEW k \in Keys, Forget(k) PROVE StoreInv'
    <3>1. /\ mem' = [mem EXCEPT ![k] = Absent]
          /\ UNCHANGED <<pc, i, key, value, global_i, db, refused>>
      BY <2>1 DEF Forget, request, rocksdb
    <3> QED BY <3>1 DEF StoreInv, CacheBacked, Backed, Absent
  <2>2. UNCHANGED vars => StoreInv'
    BY DEF vars, request, rocksdb, StoreInv, CacheBacked, Backed
  <2> QED BY <2>1, <2>2, StoreStep DEF Next, Joined
<1>2. StoreInv => CacheBacked
  BY DEF StoreInv
<1> QED BY <1>1, <1>2, PcInit, PcNext, StoreInit, PTL DEF Spec

-----------------------------------------------------------------------------
(* The places of the trace *)

IndexOK ==
  /\ option \in Options
  /\ i \in [Threads -> Nat] /\ global_i \in Nat
  /\ served \in [0 .. Length + T - 1 -> Nat]

\* A thread without a client does nothing.
StartedInv ==
  /\ started \subseteq Threads
  /\ \A t \in Threads : t \notin started => pc[t] = "done" /\ i[t] = t
  /\ started = {} => global_i = 0

\* Any other leaves at the end of the trace or when the test was stopped.
LeftInv ==
  \A t \in Threads :
    t \in started /\ pc[t] \in {"drain", "done"} =>
      test_finished \/ (IF threadsSync THEN global_i ELSE i[t]) >= Length

\* A shared index: the places under it were requested once.  From the last of
\* the trace on, each place that was taken is still that of the thread that
\* took it, which takes no other.
SyncInv ==
  /\ \A p \in DOMAIN served : served[p] = IF p < global_i THEN 1 ELSE 0
  /\ \A t \in Threads : pc[t] = "take" => Length > 0
  /\ \A p \in Nat : Length - 1 <= p /\ p < global_i =>
       \E t \in Threads : i[t] = p /\ pc[t] # "take"
  /\ global_i <= Length + T - 1

\* An index each: a place belongs to the thread it is congruent to, and was
\* requested once if that thread is past it, or at it and busy with it.
Passed(t, p) == p < i[t] \/ (p = i[t] /\ pc[t] \in Busy)
PrivateInv ==
  /\ global_i = 0
  /\ \A t \in Threads :
       /\ i[t] % T = t % T /\ i[t] >= 1
       /\ pc[t] \in {"take"} \cup Busy => i[t] < Length
  /\ \A p \in DOMAIN served, t \in Threads :
       p % T = t % T =>
         served[p] = IF 1 <= p /\ p < Length /\ Passed(t, p) THEN 1 ELSE 0

PlaceInv ==
  /\ IndexOK /\ StartedInv /\ LeftInv
  /\ threadsSync => SyncInv
  /\ ~threadsSync => PrivateInv

\* Each place belongs to one thread.
LEMMA Owner ==
  ASSUME NEW p \in Nat
  PROVE  \E t \in Threads : p % T = t % T
<1>1. T \in Nat \ {0}
  BY Constants
<1>2. CASE p % T = 0
  <2>1. T = T * 1 + 0 /\ 0 \in 0 .. T-1
    BY <1>1
  <2>2. T % T = 0
    BY <1>1, <2>1, RemainderIs
  <2> QED BY <1>1, <1>2, <2>2 DEF Threads
<1>3. CASE p % T # 0
  <2> DEFINE d == p % T
  <2>1. d \in 1 .. T-1
    BY <1>1, <1>3
  <2> HIDE DEF d
  <2>2. d = T * 0 + d /\ d \in 0 .. T-1 /\ d \in Nat
    BY <1>1, <2>1
  <2>3. d % T = d
    BY <1>1, <2>2, RemainderIs
  <2> QED BY <1>1, <2>1, <2>3 DEF Threads, d
<1> QED BY <1>2, <1>3

\* Two places of one thread are T apart at least.
LEMMA FarApart ==
  ASSUME NEW p \in Nat, NEW q \in Nat, p % T = q % T, p < q
  PROVE  p + T <= q
<1> DEFINE a == p \div T
           b == q \div T
           d == p % T
<1>1. /\ T \in Nat \ {0} /\ a \in Int /\ b \in Int /\ d \in 0 .. T-1
      /\ p = T * a + d /\ q = T * b + d
  BY Constants
<1> HIDE DEF a, b, d
<1>2. T * b - T * a = T * (b - a) /\ T * a \in Int /\ T * b \in Int
  BY <1>1
<1> DEFINE m == T * a
           n == T * b
<1>3. m \in Int /\ n \in Int /\ p = m + d /\ q = n + d /\ n - m = T * (b - a)
  BY <1>1, <1>2
<1>4. b - a >= 1
  <2>1. CASE b - a <= 0
    <3>1. T * (b - a) <= 0
      BY <1>1, <2>1
    <3> HIDE DEF m, n
    <3> QED BY <1>1, <1>3, <3>1
  <2> QED BY <1>1, <2>1
<1>5. T * (b - a) >= T
  BY <1>1, <1>4
<1> HIDE DEF m, n
<1> QED BY <1>1, <1>3, <1>5

\* No two threads own a place.
LEMMA OneOwner ==
  ASSUME NEW t \in Threads, NEW u \in Threads, t % T = u % T
  PROVE  t = u
<1>1. t \in 1 .. T /\ u \in 1 .. T /\ T \in Nat \ {0} /\ t \in Nat /\ u \in Nat
  BY Constants DEF Threads
<1>2. CASE t < u
  <2>1. t + T <= u
    BY <1>1, <1>2, FarApart
  <2> QED BY <1>1, <2>1
<1>3. CASE u < t
  <2>1. u + T <= t
    BY <1>1, <1>3, FarApart
  <2> QED BY <1>1, <2>1
<1> QED BY <1>1, <1>2, <1>3

\* The next place of a thread is its own too.
LEMMA NextOwn ==
  ASSUME NEW p \in Nat
  PROVE  (p + T) % T = p % T
<1> DEFINE a == p \div T
           d == p % T
<1>1. T \in Nat \ {0} /\ a \in Int /\ d \in 0 .. T-1 /\ p = T * a + d
  BY Constants
<1> HIDE DEF a, d
<1>2. T * (a + 1) = T * a + T /\ T * a \in Int
  BY <1>1
<1>3. p + T = T * (a + 1) + d /\ a + 1 \in Int /\ p + T \in Nat
  BY <1>1, <1>2
<1>4. (p + T) % T = d
  BY <1>1, <1>3, RemainderIs
<1> QED BY <1>4 DEF d

LEMMA PlaceInit == Init => PlaceInv
<1> SUFFICES ASSUME Init PROVE PlaceInv
  OBVIOUS
<1>1. /\ T \in Nat \ {0} /\ Length \in Nat /\ Threads = 1 .. T
      /\ \A t \in Threads :
           i[t] = t /\ pc[t] = IF t \in started THEN "loop" ELSE "done"
      /\ global_i = 0 /\ DOMAIN served = 0 .. Length + T - 1
      /\ \A p \in DOMAIN served : served[p] = 0
  BY Constants DEF Init, Threads
<1>2. IndexOK /\ StartedInv /\ LeftInv
  BY <1>1 DEF Init, IndexOK, StartedInv, LeftInv
<1>3. SyncInv
  BY <1>1 DEF SyncInv
<1>4. PrivateInv
  <2>1. ASSUME NEW p \in DOMAIN served, NEW t \in Threads, p % T = t % T,
               1 <= p, Passed(t, p)
        PROVE  FALSE
    <3>1. p \in Nat /\ t \in Nat /\ p < t /\ t <= T
      BY <1>1, <2>1 DEF Passed, Busy
    <3>2. p + T <= t
      BY <2>1, <3>1, FarApart
    <3> QED BY <1>1, <2>1, <3>1, <3>2
  <2>2. \A p \in DOMAIN served, t \in Threads :
          p % T = t % T =>
            served[p] = IF 1 <= p /\ p < Length /\ Passed(t, p) THEN 1 ELSE 0
    BY <1>1, <2>1
  <2>3. \A t \in Threads : /\ i[t] % T = t % T /\ i[t] >= 1
                           /\ pc[t] \notin {"take"} \cup Busy
    BY <1>1 DEF Busy
  <2> QED BY <1>1, <2>2, <2>3 DEF PrivateInv
<1> QED BY <1>2, <1>3, <1>4 DEF PlaceInv

Index(t) == IF threadsSync THEN global_i ELSE i[t]

\* A step that moves no index and requests nothing: it may end the loop, enter
\* a request or leave one only as the loop, and a private index, allow.
LEMMA PlaceKeep ==
  ASSUME PcOK, PlaceInv, NEW t \in Threads,
         UNCHANGED <<option, started, i, global_i, served>>, StartedInv',
         test_finished => test_finished', NEW l \in Labels, Goto(t, l),
         l \in {"drain", "done"} => test_finished' \/ Index(t) >= Length,
         l = "take" => Index(t) < Length,
         ~threadsSync => (pc[t] \in Busy <=> l \in Busy)
  PROVE  PlaceInv'
<1>1. /\ pc' = [pc EXCEPT ![t] = l] /\ pc \in [Threads -> Labels]
      /\ threadsSync' = threadsSync
      /\ Length \in Nat /\ global_i \in Nat /\ i \in [Threads -> Nat]
  BY Constants DEF Goto, PcOK, threadsSync, PlaceInv, IndexOK
<1>2. IndexOK'
  BY DEF PlaceInv, IndexOK
<1>3. LeftInv'
  BY <1>1, Zenon DEF PlaceInv, LeftInv, Index
<1>4. CASE threadsSync
  <2>1. SyncInv /\ Index(t) = global_i
    BY <1>4 DEF PlaceInv, Index
  <2>2. \A u \in Threads : pc'[u] = "take" => Length > 0
    BY <1>1, <2>1 DEF SyncInv
  <2>3. ASSUME NEW p \in Nat, Length - 1 <= p, p < global_i
        PROVE  \E u \in Threads : i[u] = p /\ pc'[u] # "take"
    <3>1. l # "take"
      BY <1>1, <2>1, <2>3
    <3>2. PICK u \in Threads : i[u] = p /\ pc[u] # "take"
      BY <2>1, <2>3 DEF SyncInv
    <3> QED BY <1>1, <3>1, <3>2
  <2>4. SyncInv'
    BY <2>1, <2>2, <2>3 DEF SyncInv
  <2> QED BY <1>1, <1>2, <1>3, <1>4, <2>4 DEF PlaceInv
<1>5. CASE ~threadsSync
  <2>1. PrivateInv /\ Index(t) = i[t]
    BY <1>5 DEF PlaceInv, Index
  <2>2. \A u \in Threads : pc'[u] \in Busy <=> pc[u] \in Busy
    BY <1>1, <1>5
  <2>3. \A u \in Threads : pc'[u] \in {"take"} \cup Busy => i[u] < Length
    BY <1>1, <2>1, <2>2 DEF PrivateInv
  <2>4. \A u \in Threads, p \in DOMAIN served : Passed(u, p)' <=> Passed(u, p)
    BY <2>2 DEF Passed
  <2>5. PrivateInv'
    <3>1. \A p \in DOMAIN served', u \in Threads :
            p % T = u % T =>
              served'[p] = IF 1 <= p /\ p < Length /\ Passed(u, p)' THEN 1 ELSE 0
      <4> SUFFICES ASSUME NEW p \in DOMAIN served, NEW u \in Threads,
                          p % T = u % T
                   PROVE  served[p] = IF 1 <= p /\ p < Length /\ Passed(u, p)'
                                      THEN 1 ELSE 0
        OBVIOUS
      <4>1. served[p] = IF 1 <= p /\ p < Length /\ Passed(u, p) THEN 1 ELSE 0
        BY <2>1 DEF PrivateInv
      <4> QED BY <2>4, <4>1
    <3> QED BY <2>1, <2>3, <3>1 DEF PrivateInv
  <2> QED BY <1>1, <1>2, <1>3, <1>5, <2>5 DEF PlaceInv
<1> QED BY <1>4, <1>5

\* While a thread is about to take a place, each of those taken from the last of
\* the trace on has a thread other than it: there is room for one more.
LEMMA RoomLeft ==
  ASSUME IndexOK, SyncInv, NEW t \in Threads, pc[t] = "take"
  PROVE  global_i + 1 <= Length + T - 1
<1> DEFINE P == Length - 1 .. global_i - 1
           W == Threads \ {t}
           f == [p \in P |-> CHOOSE u \in W : i[u] = p]
<1>1. T \in Nat \ {0} /\ Length \in Nat /\ Length > 0 /\ global_i \in Nat
  BY Constants DEF IndexOK, SyncInv
<1>2. IsFiniteSet(W) /\ Cardinality(W) = T - 1
  <2>1. IsFiniteSet(Threads) /\ Cardinality(Threads) = T
    BY <1>1, FS_Interval DEF Threads
  <2> QED BY <2>1, FS_RemoveElement
<1>3. IsFiniteSet(P) /\ (global_i >= Length => Cardinality(P) = global_i - Length + 1)
  BY <1>1, FS_Interval
<1>4. \A p \in P : f[p] \in W /\ i[f[p]] = p
  <2> TAKE p \in P
  <2>1. p \in Nat /\ Length - 1 <= p /\ p < global_i
    BY <1>1
  <2>2. \E u \in W : i[u] = p
    BY <2>1 DEF SyncInv
  <2> QED BY <2>2
<1> HIDE DEF P, W, f
<1>5. ~(Cardinality(W) < Cardinality(P))
  <2>1. SUFFICES ASSUME Cardinality(W) < Cardinality(P) PROVE FALSE
    OBVIOUS
  <2>2. f \in [P -> W]
    BY <1>4 DEF f
  <2>3. \E x, y \in P : x # y /\ f[x] = f[y]
    BY <1>2, <1>3, <2>1, <2>2, FS_PigeonHole
  <2> QED BY <1>4, <2>3
<1> QED BY <1>1, <1>2, <1>3, <1>5

LEMMA PlaceTakeSync ==
  ASSUME PcOK, PlaceInv, threadsSync, NEW t \in Threads, Take(t),
         UNCHANGED <<option, started>>, StartedInv'
  PROVE  PlaceInv'
<1>1. /\ pc' = [pc EXCEPT ![t] = "get"] /\ pc[t] = "take"
      /\ i' = [i EXCEPT ![t] = global_i] /\ global_i' = global_i + 1
      /\ served' = [served EXCEPT ![global_i] = @ + 1]
      /\ UNCHANGED test_finished
  BY DEF Take, At, Goto, report
<1>2. /\ pc \in [Threads -> Labels] /\ i \in [Threads -> Nat] /\ global_i \in Nat
      /\ served \in [0 .. Length + T - 1 -> Nat] /\ IndexOK
      /\ T \in Nat \ {0} /\ Length \in Nat /\ SyncInv /\ threadsSync'
  BY Constants DEF PcOK, PlaceInv, IndexOK, threadsSync
<1>3. global_i + 1 <= Length + T - 1
  BY <1>1, <1>2, RoomLeft
<1>4. IndexOK'
  BY <1>1, <1>2, <1>3 DEF IndexOK
<1>5. LeftInv'
  <2>1. ASSUME NEW u \in Threads, u \in started, pc'[u] \in {"drain", "done"}
        PROVE  test_finished \/ global_i + 1 >= Length
    <3>1. pc[u] \in {"drain", "done"}
      BY <1>1, <1>2, <2>1
    <3>2. test_finished \/ global_i >= Length
      BY <2>1, <3>1 DEF PlaceInv, LeftInv
    <3> QED BY <1>2, <3>2
  <2> QED BY <1>1, <1>2, <2>1 DEF LeftInv
<1>6. SyncInv'
  <2>1. \A p \in DOMAIN served' : served'[p] = IF p < global_i' THEN 1 ELSE 0
    BY <1>1, <1>2, <1>3 DEF SyncInv
  <2>2. \A u \in Threads : pc'[u] = "take" => Length > 0
    BY <1>1, <1>2 DEF SyncInv
  <2>3. ASSUME NEW p \in Nat, Length - 1 <= p, p < global_i'
        PROVE  \E u \in Threads : i'[u] = p /\ pc'[u] # "take"
    <3>1. CASE p = global_i
      BY <1>1, <1>2, <3>1
    <3>2. CASE p # global_i
      <4>1. PICK u \in Threads : i[u] = p /\ pc[u] # "take"
        BY <1>1, <1>2, <2>3, <3>2 DEF SyncInv
      <4> QED BY <1>1, <1>2, <4>1
    <3> QED BY <3>1, <3>2
  <2> QED BY <1>1, <1>3, <2>1, <2>2, <2>3 DEF SyncInv
<1> QED BY <1>2, <1>4, <1>5, <1>6 DEF PlaceInv

LEMMA PlaceTakePrivate ==
  ASSUME PcOK, PlaceInv, ~threadsSync, NEW t \in Threads, Take(t),
         UNCHANGED <<option, started>>, StartedInv'
  PROVE  PlaceInv'
<1>1. /\ pc' = [pc EXCEPT ![t] = "get"] /\ pc[t] = "take"
      /\ i' = [i EXCEPT ![t] = i[t]] /\ global_i' = global_i
      /\ served' = [served EXCEPT ![i[t]] = @ + 1]
      /\ UNCHANGED test_finished
  BY DEF Take, At, Goto, report
<1>2. /\ pc \in [Threads -> Labels] /\ i \in [Threads -> Nat] /\ global_i \in Nat
      /\ served \in [0 .. Length + T - 1 -> Nat] /\ IndexOK
      /\ T \in Nat \ {0} /\ Length \in Nat /\ PrivateInv /\ ~threadsSync'
  BY Constants DEF PcOK, PlaceInv, IndexOK, threadsSync
<1>3. i' = i /\ i[t] < Length /\ i[t] >= 1 /\ i[t] \in Nat /\ i[t] % T = t % T
      /\ i[t] \in DOMAIN served
  BY <1>1, <1>2 DEF PrivateInv
<1>4. IndexOK'
  BY <1>1, <1>2, <1>3 DEF IndexOK
<1>5. LeftInv'
  BY <1>1, <1>2, <1>3 DEF PlaceInv, LeftInv
<1>6. ASSUME NEW p \in DOMAIN served, NEW u \in Threads, p % T = u % T
      PROVE  served'[p] = IF 1 <= p /\ p < Length /\ Passed(u, p)' THEN 1 ELSE 0
  <2>1. served[p] = IF 1 <= p /\ p < Length /\ Passed(u, p) THEN 1 ELSE 0
    BY <1>2, <1>6 DEF PrivateInv
  <2>2. CASE u = t /\ p = i[t]
    <3>1. ~Passed(t, p) /\ Passed(t, p)'
      BY <1>1, <1>2, <1>3, <2>2 DEF Passed, Busy
    <3> QED BY <1>1, <1>2, <1>3, <2>1, <2>2, <3>1
  <2>3. CASE u = t /\ p # i[t]
    <3>1. Passed(u, p)' <=> Passed(u, p)
      BY <1>1, <1>2, <1>3, <2>3 DEF Passed
    <3> QED BY <1>1, <1>2, <2>1, <2>3, <3>1
  <2>4. CASE u # t
    <3>1. p # i[t]
      BY <1>3, <1>6, <2>4, OneOwner
    <3>2. Passed(u, p)' <=> Passed(u, p)
      BY <1>1, <1>2, <1>3, <2>4 DEF Passed
    <3> QED BY <1>1, <1>2, <2>1, <3>1, <3>2
  <2> QED BY <2>2, <2>3, <2>4
<1>7. \A u \in Threads : pc'[u] \in {"take"} \cup Busy => i[u] < Length
  BY <1>1, <1>2, <1>3 DEF PrivateInv
<1>8. DOMAIN served' = DOMAIN served
  BY <1>1
<1>9. PrivateInv'
  BY <1>1, <1>2, <1>3, <1>6, <1>7, <1>8 DEF PrivateInv
<1> QED BY <1>2, <1>4, <1>5, <1>9 DEF PlaceInv

LEMMA PlaceTallyPrivate ==
  ASSUME PcOK, PlaceInv, ~threadsSync, NEW t \in Threads, Tally(t),
         UNCHANGED <<option, started>>, StartedInv'
  PROVE  PlaceInv'
<1>1. PICK l \in {"warm", "report"} :
      /\ pc' = [pc EXCEPT ![t] = l] /\ pc[t] = "tally"
      /\ i' = [i EXCEPT ![t] = i[t] + T]
      /\ UNCHANGED <<global_i, served, test_finished>>
  BY DEF Tally, At, Goto, report
<1>2. /\ pc \in [Threads -> Labels] /\ i \in [Threads -> Nat] /\ global_i \in Nat
      /\ served \in [0 .. Length + T - 1 -> Nat] /\ IndexOK
      /\ T \in Nat \ {0} /\ Length \in Nat /\ PrivateInv /\ ~threadsSync'
  BY Constants DEF PcOK, PlaceInv, IndexOK, threadsSync
<1>3. /\ i[t] < Length /\ i[t] >= 1 /\ i[t] \in Nat /\ i[t] % T = t % T
      /\ (i[t] + T) % T = t % T /\ i[t] + T \in Nat /\ i[t] + T >= 1
  <2>1. i[t] \in Nat /\ i[t] < Length /\ i[t] >= 1 /\ i[t] % T = t % T
    BY <1>1, <1>2 DEF PrivateInv, Busy
  <2>2. i[t] + T \in Nat /\ i[t] + T >= 1
    <3>1. ASSUME NEW a \in Nat, NEW b \in Nat, a >= 1
          PROVE  a + b \in Nat /\ a + b >= 1
      BY <3>1
    <3> QED BY <1>2, <2>1, <3>1
  <2> QED BY <2>1, <2>2, NextOwn
<1>4. IndexOK'
  <2>1. i' \in [Threads -> Nat]
    BY <1>1, <1>2, <1>3
  <2> QED BY <1>1, <1>2, <2>1 DEF IndexOK
<1>5. LeftInv'
  BY <1>1, <1>2, <1>3 DEF PlaceInv, LeftInv
<1>6. ASSUME NEW p \in DOMAIN served, NEW u \in Threads, p % T = u % T
      PROVE  Passed(u, p)' <=> Passed(u, p)
  <2>1. CASE u = t
    <3>1. Passed(t, p) <=> p <= i[t]
      <4>1. p \in Nat /\ i[t] \in Nat /\ pc[t] \in Busy
        BY <1>1, <1>2, <1>3 DEF Busy
      <4> QED BY <4>1 DEF Passed
    <3>2. Passed(t, p)' <=> p < i[t] + T
      <4>1. i'[t] = i[t] + T /\ pc'[t] \in {"warm", "report"}
        BY <1>1, <1>2
      <4>2. pc'[t] \notin Busy
        BY <4>1 DEF Busy
      <4> QED BY <4>1, <4>2 DEF Passed
    <3>3. ~(i[t] < p /\ p < i[t] + T)
      <4> SUFFICES ASSUME i[t] < p, p < i[t] + T PROVE FALSE
        OBVIOUS
      <4>1. p \in Nat /\ i[t] % T = p % T
        BY <1>2, <1>3, <1>6, <2>1
      <4>2. i[t] + T <= p
        BY <1>3, <4>1, FarApart
      <4> QED BY <1>2, <1>3, <4>1, <4>2
    <3> QED BY <1>2, <1>3, <2>1, <3>1, <3>2, <3>3
  <2>2. CASE u # t
    BY <1>1, <1>2, <2>2 DEF Passed
  <2> QED BY <2>1, <2>2
<1>7. \A u \in Threads :
        /\ i'[u] % T = u % T /\ i'[u] >= 1
        /\ pc'[u] \in {"take"} \cup Busy => i'[u] < Length
  <2> TAKE u \in Threads
  <2>1. CASE u = t
    <3>1. i'[t] = i[t] + T /\ pc'[t] \notin {"take"} \cup Busy
      BY <1>1, <1>2 DEF Busy
    <3> QED BY <1>3, <2>1, <3>1
  <2>2. CASE u # t
    BY <1>1, <1>2, <2>2 DEF PrivateInv
  <2> QED BY <2>1, <2>2
<1>8. \A p \in DOMAIN served', u \in Threads :
        p % T = u % T =>
          served'[p] = IF 1 <= p /\ p < Length /\ Passed(u, p)' THEN 1 ELSE 0
  BY <1>1, <1>2, <1>6 DEF PrivateInv
<1>9. PrivateInv'
  BY <1>1, <1>2, <1>7, <1>8 DEF PrivateInv
<1> QED BY <1>2, <1>4, <1>5, <1>9 DEF PlaceInv

\* Only threads with a client step.
LEMMA StartedStep ==
  ASSUME PcOK, IndexOK, StartedInv, NEW t \in Threads, Step(t)
  PROVE  StartedInv'
<1>1. /\ pc \in [Threads -> Labels] /\ i \in [Threads -> Nat]
      /\ started' = started
  BY DEF PcOK, IndexOK, Step
<1>2. pc[t] # "done"
  BY Moves DEF Loop, Take, Tally, Warm, Stop, Drain, At, Busy, After
<1>3. t \in started
  BY <1>2 DEF StartedInv
<1>4. \A u \in Threads : u # t => pc'[u] = pc[u]
  <2>1. \E l : Goto(t, l)
    BY Moves
  <2> QED BY <1>1, <2>1 DEF Goto
<1>5. \A u \in Threads : u # t => i'[u] = i[u]
  <2>1. i' = i \/ \E x : i' = [i EXCEPT ![t] = x]
    BY Moves DEF Loop, Take, Tally, Warm, Stop, Drain, request
  <2> QED BY <1>1, <2>1
<1> QED BY <1>1, <1>3, <1>4, <1>5 DEF StartedInv

LEMMA PlaceStep ==
  ASSUME PcOK, PlaceInv, NEW t \in Threads, Step(t)
  PROVE  PlaceInv'
<1>1. UNCHANGED <<option, started>> /\ StartedInv'
  BY StartedStep DEF PlaceInv, Step
<1>2. CASE Loop(t)
  <2>1. /\ UNCHANGED <<i, global_i, served, test_finished>> /\ pc[t] = "loop"
        /\ Goto(t, IF Index(t) < Length THEN "take" ELSE "drain")
    BY <1>2 DEF Loop, At, request, report, Index
  <2>2. Index(t) \in Nat /\ Length \in Nat
    BY Constants DEF PlaceInv, IndexOK, Index
  <2>3. CASE Index(t) < Length
    BY <1>1, <2>1, <2>3, PlaceKeep DEF Labels, Busy
  <2>4. CASE ~(Index(t) < Length)
    BY <1>1, <2>1, <2>2, <2>4, PlaceKeep DEF Labels, Busy
  <2> QED BY <2>3, <2>4
<1>3. CASE Take(t)
  BY <1>1, <1>3, PlaceTakeSync, PlaceTakePrivate
<1>4. CASE /\ pc[t] \in Busy /\ \E l \in Busy : Goto(t, l)
           /\ UNCHANGED <<i, global_i, served, test_finished>>
  <2>1. PICK l \in Busy : Goto(t, l)
    BY <1>4
  <2>2. l \in Labels /\ l \notin {"take", "drain", "done"}
    BY DEF Labels, Busy
  <2> QED BY <1>1, <1>4, <2>1, <2>2, PlaceKeep
<1>5. CASE Tally(t)
  <2>1. CASE threadsSync
    <3>1. UNCHANGED <<i, global_i, served, test_finished>>
      BY <1>5, <2>1 DEF Tally, report
    <3>2. PICK l \in {"warm", "report"} : Goto(t, l)
      BY <1>5 DEF Tally
    <3>3. l \in Labels /\ l \notin {"take", "drain", "done"}
      BY DEF Labels, After
    <3> QED BY <1>1, <2>1, <3>1, <3>2, <3>3, PlaceKeep
  <2> QED BY <1>1, <1>5, <2>1, PlaceTallyPrivate
<1>6. CASE Warm(t)
  <2>1. /\ UNCHANGED <<i, global_i, served, test_finished>>
        /\ pc[t] \notin Busy /\ Goto(t, "report")
    BY <1>6 DEF Warm, At, request, report, Busy
  <2> QED BY <1>1, <2>1, PlaceKeep DEF Labels, After, Busy
<1>7. CASE /\ pc[t] \in After /\ \E l \in After \ {"warm"} : Goto(t, l)
           /\ UNCHANGED <<i, global_i, served>>
           /\ test_finished => test_finished'
  <2>1. PICK l \in After : Goto(t, l)
    BY <1>7
  <2>2. l \in Labels /\ l \notin {"take", "drain", "done"} /\ l \notin Busy
        /\ pc[t] \notin Busy
    BY <1>7 DEF Labels, Busy, After
  <2> QED BY <1>1, <1>7, <2>1, <2>2, PlaceKeep
<1>8. CASE Stop(t)
  <2>1. /\ UNCHANGED <<i, global_i, served, test_finished>> /\ pc[t] \notin Busy
        /\ \/ Goto(t, "done") /\ test_finished
           \/ Goto(t, "loop")
    BY <1>8 DEF Stop, At, request, report, Busy
  <2> QED BY <1>1, <2>1, PlaceKeep DEF Labels, Busy
<1>9. CASE Drain(t)
  <2>1. /\ UNCHANGED <<i, global_i, served, test_finished>> /\ pc[t] = "drain"
        /\ Goto(t, "done")
    BY <1>9 DEF Drain, At, request, report
  <2>2. test_finished \/ Index(t) >= Length
    BY <2>1 DEF PlaceInv, LeftInv, StartedInv, Index
  <2> QED BY <1>1, <2>1, <2>2, PlaceKeep DEF Labels, Busy
<1> QED BY <1>2, <1>3, <1>4, <1>5, <1>6, <1>7, <1>8, <1>9, Moves

LEMMA PlaceNext == PcOK /\ PlaceInv /\ [Next]_vars => PlaceInv'
<1> SUFFICES ASSUME PcOK, PlaceInv, [Next]_vars PROVE PlaceInv'
  OBVIOUS
<1>1. ASSUME UNCHANGED <<option, started, pc, i, global_i, served, test_finished>>
      PROVE  PlaceInv'
  <2>1. (IndexOK' <=> IndexOK) /\ UNCHANGED threadsSync
    BY <1>1 DEF IndexOK, threadsSync
  <2>2. (StartedInv' <=> StartedInv) /\ (LeftInv' <=> LeftInv)
    BY <1>1, <2>1 DEF StartedInv, LeftInv
  <2>3. SyncInv' <=> SyncInv
    BY <1>1 DEF SyncInv
  <2>4. PrivateInv' <=> PrivateInv
    <3>1. \A t \in Threads, p \in DOMAIN served : Passed(t, p)' <=> Passed(t, p)
      BY <1>1 DEF Passed
    <3> QED BY <1>1, <3>1 DEF PrivateInv
  <2> QED BY <2>1, <2>2, <2>3, <2>4 DEF PlaceInv
<1>2. ASSUME NEW k \in Keys, Forget(k) PROVE PlaceInv'
  BY <1>1, <1>2 DEF Forget, request, report
<1>3. UNCHANGED vars => PlaceInv'
  BY <1>1 DEF vars, request, report
<1> QED BY <1>2, <1>3, PlaceStep DEF Next, Joined

LEMMA PlaceInvariance == Spec => [](PcOK /\ PlaceInv)
BY PcInit, PcNext, PlaceInit, PlaceNext, PTL DEF Spec

\* However the threads interleave around i_mutex, and with an index each, no
\* place of the trace is requested twice (bench.cpp:209).
THEOREM RequestedOnceHolds == Spec => []RequestedOnce
<1>1. PcOK /\ PlaceInv => RequestedOnce
  <2> SUFFICES ASSUME PlaceInv, NEW p \in DOMAIN served PROVE served[p] <= 1
    BY DEF RequestedOnce
  <2>1. CASE threadsSync
    BY <2>1 DEF PlaceInv, SyncInv
  <2>2. CASE ~threadsSync
    <3>1. p \in Nat
      BY Constants DEF PlaceInv, IndexOK
    <3>2. PICK t \in Threads : p % T = t % T
      BY <3>1, Owner
    <3>3. served[p] = IF 1 <= p /\ p < Length /\ Passed(t, p) THEN 1 ELSE 0
      BY <2>2, <3>2 DEF PlaceInv, PrivateInv
    <3> QED BY <3>3
  <2> QED BY <2>1, <2>2
<1> QED BY <1>1, PlaceInvariance, PTL

\* A place after the first belongs to the thread it is congruent to.
LEMMA BelongsIs ==
  ASSUME NEW p \in Nat, NEW t \in Threads
  PROVE  Belongs(p, t) <=> p >= 1 /\ p % T = t % T
<1>1. T \in Nat \ {0} /\ t \in Nat /\ 1 <= t /\ t <= T
  BY Constants DEF Threads
<1>2. ASSUME p >= 1, p % T = t % T, p < t PROVE FALSE
  <2>1. p + T <= t
    BY <1>1, <1>2, FarApart
  <2> QED BY <1>1, <1>2, <2>1
<1> QED BY <1>1, <1>2 DEF Belongs

\* When the last thread has left and none stopped the test, every place was
\* requested by whoever came first or, of private indices, by the thread it
\* belongs to, unless memcached() gave that one no client (bench.cpp:202, 209).
THEOREM WholeTraceHolds == Spec => []WholeTrace
<1>1. PcOK /\ PlaceInv => WholeTrace
  <2> SUFFICES ASSUME PlaceInv, AllDone, ~test_finished,
                      NEW p \in DOMAIN access_list
               PROVE  served[p] = IF \E t \in started : threadsSync \/ Belongs(p, t)
                                  THEN 1 ELSE 0
    BY DEF WholeTrace
  <2>1. /\ p \in 0 .. Length - 1 /\ T \in Nat \ {0} /\ Length \in Nat /\ p \in Nat
        /\ DOMAIN served = 0 .. Length + T - 1 /\ p \in DOMAIN served
        /\ started \subseteq Threads
    BY Constants DEF PlaceInv, IndexOK, StartedInv
  <2>2. \A t \in started : (IF threadsSync THEN global_i ELSE i[t]) >= Length
    BY <2>1 DEF AllDone, At, PlaceInv, LeftInv
  <2>3. CASE threadsSync
    <3>1. served[p] = IF p < global_i THEN 1 ELSE 0
      BY <2>1, <2>3 DEF PlaceInv, SyncInv
    <3>2. CASE started = {}
      BY <2>1, <3>1, <3>2 DEF PlaceInv, StartedInv
    <3>3. CASE started # {}
      <4>1. global_i >= Length /\ global_i \in Nat
        BY <2>2, <2>3, <3>3 DEF PlaceInv, IndexOK
      <4> QED BY <2>1, <2>3, <3>1, <3>3, <4>1
    <3> QED BY <3>2, <3>3
  <2>4. CASE ~threadsSync
    <3>1. PICK t \in Threads : p % T = t % T
      BY <2>1, Owner
    <3>2. served[p] = IF 1 <= p /\ p < Length /\ Passed(t, p) THEN 1 ELSE 0
      BY <2>1, <2>4, <3>1 DEF PlaceInv, PrivateInv
    <3>3. \A u \in Threads : Belongs(p, u) <=> p >= 1 /\ u = t
      BY <2>1, <3>1, BelongsIs, OneOwner
    <3>4. CASE t \in started
      <4>1. p < i[t] /\ p < Length
        BY <2>1, <2>2, <2>4, <3>4 DEF PlaceInv, IndexOK
      <4> QED BY <2>1, <2>4, <3>2, <3>3, <3>4, <4>1 DEF Passed
    <3>5. CASE t \notin started
      <4>1. i[t] = t /\ pc[t] \notin Busy
        BY <3>5 DEF PlaceInv, StartedInv, Busy
      <4>2. ~(1 <= p /\ Passed(t, p))
        <5>1. 1 <= p => p >= t /\ t \in Nat
          BY <3>3 DEF Belongs, Threads
        <5> QED BY <2>1, <4>1, <5>1 DEF Passed
      <4> QED BY <2>1, <2>4, <3>2, <3>3, <3>5, <4>2
    <3> QED BY <3>4, <3>5
  <2> QED BY <2>3, <2>4
<1> QED BY <1>1, PlaceInvariance, PTL

\* A shared index passes the end of the trace by less than the number of
\* threads, private ones never do (bench.cpp:209).
THEOREM OvershootBoundedHolds == Spec => []OvershootBounded
<1>1. PcOK /\ PlaceInv => OvershootBounded
  <2> SUFFICES ASSUME PlaceInv PROVE OvershootBounded
    OBVIOUS
  <2>1. T \in Nat \ {0} /\ Length \in Nat /\ DOMAIN served = 0 .. Length + T - 1
    BY Constants DEF PlaceInv, IndexOK
  <2>2. CASE threadsSync
    BY <2>2 DEF PlaceInv, SyncInv, OvershootBounded
  <2>3. CASE ~threadsSync
    <3>1. ASSUME NEW p \in DOMAIN served, p >= Length PROVE served[p] = 0
      <4>1. p \in Nat /\ ~(p < Length)
        BY <2>1, <3>1
      <4>2. PICK t \in Threads : p % T = t % T
        BY <4>1, Owner
      <4>3. served[p] = IF 1 <= p /\ p < Length /\ Passed(t, p) THEN 1 ELSE 0
        BY <2>3, <4>2 DEF PlaceInv, PrivateInv
      <4> QED BY <4>1, <4>3
    <3>2. global_i <= Length + T - 1
      BY <2>1, <2>3 DEF PlaceInv, PrivateInv
    <3> QED BY <3>1, <3>2 DEF OvershootBounded, InTrace
  <2> QED BY <2>2, <2>3
<1> QED BY <1>1, PlaceInvariance, PTL

-----------------------------------------------------------------------------
(* Sums *)

LEMMA SumsIs ==
  ASSUME NEW c \in Seq(Nat)
  PROVE  /\ Sums(c) \in [0 .. Len(c) -> Nat]
         /\ Sums(c)[0] = 0
         /\ \A n \in 1 .. Len(c) : Sums(c)[n] = Sums(c)[n - 1] + c[n]
<1> DEFINE N == Len(c)
           P(g) == g = [m \in 0 .. N |-> IF m = 0 THEN 0 ELSE g[m - 1] + c[m]]
           F == [m \in 1 .. N |-> [x \in Nat |-> x + c[m]]]
<1>1. N \in Nat /\ \A m \in 1 .. N : c[m] \in Nat
  OBVIOUS
<1> HIDE DEF N
<1>2. F \in Steps(N, Nat)
  BY <1>1 DEF Steps
<1>3. \E g : P(g)
  <2>1. ASSUME NEW n \in 1 .. N, NEW x \in Nat PROVE F[n][x] = x + c[n]
    OBVIOUS
  <2> HIDE DEF F
  <2>2. 0 \in Nat
    OBVIOUS
  <2>3. PICK g : Path(g, N, Nat, 0, F)
    BY <1>1, <1>2, <2>2, Recursion
  <2>4. ASSUME NEW n \in 0 .. N PROVE g[n] = IF n = 0 THEN 0 ELSE g[n - 1] + c[n]
    <3>1. CASE n = 0
      BY <2>3, <3>1, <1>1 DEF Path
    <3>2. CASE n # 0
      <4>1. n \in 1 .. N /\ g[n - 1] \in Nat
        BY <3>2, <2>3, <1>1 DEF Path
      <4>2. g[n] = F[n][g[n - 1]]
        BY <2>3, <3>2, <1>1 DEF Path
      <4> QED BY <2>1, <3>2, <4>1, <4>2
    <3> QED BY <3>1, <3>2
  <2>5. g = [n \in 0 .. N |-> IF n = 0 THEN 0 ELSE g[n - 1] + c[n]]
    BY <2>3, <2>4 DEF Path
  <2> QED BY <2>5
<1> DEFINE s == Sums(c)
<1>4. P(s)
  <2>1. Sums(c) = CHOOSE sum : P(sum)
    BY DEF Sums, N
  <2> HIDE DEF P
  <2> QED BY <1>3, <2>1
<1> HIDE DEF s
<1>5. s[0] = 0 /\ \A n \in 1 .. N : s[n] = s[n - 1] + c[n]
  BY <1>1, <1>4
<1> DEFINE S == { n \in Nat : n <= N => s[n] \in Nat }
<1>6. Nat \subseteq S
  <2>1. 0 \in S
    BY <1>5
  <2>2. \A n \in Nat : n \in S => n + 1 \in S
    BY <1>1, <1>5
  <2> HIDE DEF S
  <2> QED BY <2>1, <2>2, AllNaturals
<1>7. s \in [0 .. N -> Nat]
  BY <1>4, <1>6
<1> QED BY <1>5, <1>7 DEF s, N

\* What the counters of the threads are, in a list
OfThreads == [Threads -> Nat]

LEMMA OfThreadsIs ==
  ASSUME NEW c \in OfThreads
  PROVE  c \in Seq(Nat) /\ Len(c) = T /\ Total(c) = Sums(c)[T] /\ Total(c) \in Nat
<1>1. T \in Nat /\ c \in [1 .. T -> Nat]
  BY Constants DEF OfThreads, Threads
<1>2. c \in Seq(Nat) /\ Len(c) = T
  BY <1>1
<1>3. Sums(c) \in [0 .. T -> Nat]
  BY <1>2, SumsIs
<1>4. Sums(c)[T] \in Nat
  BY <1>1, <1>3
<1> QED BY <1>2, <1>4 DEF Total

\* Sums grow with what is summed.
LEMMA SumsAtMost ==
  ASSUME NEW c \in Seq(Nat), NEW d \in Seq(Nat), Len(c) = Len(d),
         \A n \in 1 .. Len(d) : c[n] <= d[n]
  PROVE  (\A n \in 0 .. Len(d) : Sums(c)[n] <= Sums(d)[n]) /\ Total(c) <= Total(d)
<1> DEFINE N == Len(d)
           s == Sums(c)
           r == Sums(d)
           S == { n \in Nat : n <= N => s[n] <= r[n] }
<1>1. /\ N \in Nat /\ s \in [0 .. N -> Nat] /\ r \in [0 .. N -> Nat]
      /\ s[0] = 0 /\ r[0] = 0
      /\ \A n \in 1 .. N : s[n] = s[n - 1] + c[n] /\ r[n] = r[n - 1] + d[n]
      /\ \A n \in 1 .. N : c[n] \in Nat /\ d[n] \in Nat /\ c[n] <= d[n]
  <2>1. N \in Nat /\ Len(c) = N /\ \A n \in 1 .. N : c[n] \in Nat /\ d[n] \in Nat
    OBVIOUS
  <2>2. s \in [0 .. N -> Nat] /\ s[0] = 0 /\ \A n \in 1 .. N : s[n] = s[n - 1] + c[n]
    BY <2>1, SumsIs
  <2>3. r \in [0 .. N -> Nat] /\ r[0] = 0 /\ \A n \in 1 .. N : r[n] = r[n - 1] + d[n]
    BY SumsIs
  <2> QED BY <2>1, <2>2, <2>3
<1> HIDE DEF N, s, r
<1>2. 0 \in S
  BY <1>1
<1>3. ASSUME NEW n \in Nat, n \in S PROVE n + 1 \in S
  <2> SUFFICES ASSUME n + 1 <= N PROVE s[n + 1] <= r[n + 1]
    OBVIOUS
  <2>1. n + 1 \in 1 .. N /\ n \in 0 .. N /\ (n + 1) - 1 = n /\ s[n] <= r[n]
    BY <1>1, <1>3
  <2>2. s[n + 1] = s[n] + c[n + 1] /\ r[n + 1] = r[n] + d[n + 1]
    BY <1>1, <2>1
  <2> DEFINE x == s[n]
             y == r[n]
             u == c[n + 1]
             v == d[n + 1]
  <2>3. x \in Nat /\ y \in Nat /\ u \in Nat /\ v \in Nat /\ x <= y /\ u <= v
    BY <1>1, <2>1
  <2>4. s[n + 1] = x + u /\ r[n + 1] = y + v
    BY <2>2
  <2> HIDE DEF x, y, u, v
  <2> QED BY <2>3, <2>4
<1>4. \A n \in Nat : n \in S => n + 1 \in S
  BY <1>3
<1>5. Nat \subseteq S
  <2> HIDE DEF S
  <2> QED BY <1>2, <1>4, AllNaturals
<1>6. \A n \in 0 .. N : s[n] <= r[n]
  BY <1>1, <1>5
<1> QED BY <1>1, <1>6 DEF Total, N, s, r

\* One more at one place is one more in all.
LEMMA SumsOneMore ==
  ASSUME NEW c \in Seq(Nat), NEW d \in Seq(Nat), Len(c) = Len(d),
         NEW k \in 1 .. Len(d), d[k] = c[k] + 1,
         \A n \in 1 .. Len(d) : n # k => d[n] = c[n]
  PROVE  Total(d) = Total(c) + 1
<1> DEFINE N == Len(d)
           s == Sums(c)
           r == Sums(d)
           S == { n \in Nat : n <= N => r[n] = s[n] + (IF k <= n THEN 1 ELSE 0) }
<1>1. /\ N \in Nat /\ s \in [0 .. N -> Nat] /\ r \in [0 .. N -> Nat]
      /\ s[0] = 0 /\ r[0] = 0
      /\ \A n \in 1 .. N : s[n] = s[n - 1] + c[n] /\ r[n] = r[n - 1] + d[n]
      /\ \A n \in 1 .. N : c[n] \in Nat /\ d[n] \in Nat
      /\ \A n \in 1 .. N : n # k => d[n] = c[n]
      /\ k \in 1 .. N /\ d[k] = c[k] + 1
  <2>1. N \in Nat /\ Len(c) = N /\ \A n \in 1 .. N : c[n] \in Nat /\ d[n] \in Nat
    OBVIOUS
  <2>2. s \in [0 .. N -> Nat] /\ s[0] = 0 /\ \A n \in 1 .. N : s[n] = s[n - 1] + c[n]
    BY <2>1, SumsIs
  <2>3. r \in [0 .. N -> Nat] /\ r[0] = 0 /\ \A n \in 1 .. N : r[n] = r[n - 1] + d[n]
    BY SumsIs
  <2> QED BY <2>1, <2>2, <2>3
<1> HIDE DEF N, s, r
<1>2. 0 \in S
  BY <1>1
<1>3. ASSUME NEW n \in Nat, n \in S PROVE n + 1 \in S
  <2> SUFFICES ASSUME n + 1 <= N
               PROVE  r[n + 1] = s[n + 1] + (IF k <= n + 1 THEN 1 ELSE 0)
    OBVIOUS
  <2>1. n + 1 \in 1 .. N /\ n \in 0 .. N /\ (n + 1) - 1 = n
        /\ r[n] = s[n] + (IF k <= n THEN 1 ELSE 0)
    BY <1>1, <1>3
  <2>2. s[n + 1] = s[n] + c[n + 1] /\ r[n + 1] = r[n] + d[n + 1]
    BY <1>1, <2>1
  <2> DEFINE x == s[n]
             y == r[n]
             u == c[n + 1]
             v == d[n + 1]
  <2>3. x \in Nat /\ y \in Nat /\ u \in Nat /\ v \in Nat /\ k \in Nat
        /\ y = x + (IF k <= n THEN 1 ELSE 0)
        /\ (n + 1 = k => v = u + 1) /\ (n + 1 # k => v = u)
    <3>1. x \in Nat /\ y \in Nat /\ u \in Nat /\ v \in Nat /\ k \in Nat
      <4>1. x \in Nat /\ y \in Nat
        BY <1>1, <2>1
      <4>2. u \in Nat /\ v \in Nat
        BY <1>1, <2>1
      <4>3. k \in Nat
        BY <1>1
      <4> QED BY <4>1, <4>2, <4>3
    <3>2. y = x + (IF k <= n THEN 1 ELSE 0)
      BY <2>1
    <3>3. (n + 1 = k => v = u + 1) /\ (n + 1 # k => v = u)
      BY <1>1, <2>1
    <3> QED BY <3>1, <3>2, <3>3
  <2>4. s[n + 1] = x + u /\ r[n + 1] = y + v
    BY <2>2
  <2> HIDE DEF x, y, u, v
  <2>5. CASE n + 1 = k
    <3>1. k <= n + 1 /\ ~(k <= n)
      BY <2>3, <2>5
    <3>2. y = x /\ v = u + 1
      BY <2>3, <2>5, <3>1
    <3> QED BY <2>3, <2>4, <3>1, <3>2
  <2>6. CASE n + 1 # k
    <3>1. k <= n + 1 <=> k <= n
      BY <2>3, <2>6
    <3> QED BY <2>3, <2>4, <2>6, <3>1
  <2> QED BY <2>5, <2>6
<1>4. \A n \in Nat : n \in S => n + 1 \in S
  BY <1>3
<1>5. Nat \subseteq S
  <2> HIDE DEF S
  <2> QED BY <1>2, <1>4, AllNaturals
<1>6. r[N] = s[N] + 1
  BY <1>1, <1>5
<1> QED BY <1>6 DEF Total, N, s, r

\* The sums of three columns are together at most that of a fourth, if their
\* rows are.
LEMMA SumsOfThree ==
  ASSUME NEW c0 \in OfThreads, NEW c1 \in OfThreads, NEW c2 \in OfThreads,
         NEW d \in OfThreads, \A t \in Threads : c0[t] + c1[t] + c2[t] <= d[t]
  PROVE  Total(c0) + Total(c1) + Total(c2) <= Total(d)
<1> DEFINE r0 == Sums(c0)
           r1 == Sums(c1)
           r2 == Sums(c2)
           s == Sums(d)
           S == { n \in Nat : n <= T => r0[n] + r1[n] + r2[n] <= s[n] }
<1>1. /\ T \in Nat /\ Threads = 1 .. T
      /\ \A t \in 1 .. T : c0[t] \in Nat /\ c1[t] \in Nat /\ c2[t] \in Nat /\ d[t] \in Nat
  BY Constants DEF OfThreads, Threads
<1>2. /\ c0 \in Seq(Nat) /\ Len(c0) = T /\ c1 \in Seq(Nat) /\ Len(c1) = T
      /\ c2 \in Seq(Nat) /\ Len(c2) = T /\ d \in Seq(Nat) /\ Len(d) = T
      /\ Total(c0) = r0[T] /\ Total(c1) = r1[T] /\ Total(c2) = r2[T] /\ Total(d) = s[T]
  BY OfThreadsIs
<1>3. /\ r0 \in [0 .. T -> Nat] /\ r1 \in [0 .. T -> Nat]
      /\ r2 \in [0 .. T -> Nat] /\ s \in [0 .. T -> Nat]
      /\ r0[0] = 0 /\ r1[0] = 0 /\ r2[0] = 0 /\ s[0] = 0
      /\ \A n \in 1 .. T : /\ r0[n] = r0[n - 1] + c0[n] /\ r1[n] = r1[n - 1] + c1[n]
                           /\ r2[n] = r2[n - 1] + c2[n] /\ s[n] = s[n - 1] + d[n]
  BY <1>2, SumsIs
<1> HIDE DEF r0, r1, r2, s
<1>4. 0 \in S
  BY <1>3
<1>5. ASSUME NEW n \in Nat, n \in S PROVE n + 1 \in S
  <2> SUFFICES ASSUME n + 1 <= T
               PROVE  r0[n + 1] + r1[n + 1] + r2[n + 1] <= s[n + 1]
    OBVIOUS
  <2>1. n + 1 \in 1 .. T /\ n \in 0 .. T /\ (n + 1) - 1 = n
        /\ r0[n] + r1[n] + r2[n] <= s[n]
    BY <1>1, <1>5
  <2>2. /\ r0[n + 1] = r0[n] + c0[n + 1] /\ r1[n + 1] = r1[n] + c1[n + 1]
        /\ r2[n + 1] = r2[n] + c2[n + 1] /\ s[n + 1] = s[n] + d[n + 1]
    BY <1>3, <2>1
  <2> DEFINE x0 == r0[n]
             x1 == r1[n]
             x2 == r2[n]
             x == s[n]
             y0 == c0[n + 1]
             y1 == c1[n + 1]
             y2 == c2[n + 1]
             y == d[n + 1]
  <2>3. x0 \in Nat /\ x1 \in Nat /\ x2 \in Nat /\ x \in Nat /\ x0 + x1 + x2 <= x
    BY <1>3, <2>1
  <2>4. y0 \in Nat /\ y1 \in Nat /\ y2 \in Nat /\ y \in Nat /\ y0 + y1 + y2 <= y
    BY <1>1, <2>1 DEF Threads
  <2>5. /\ r0[n + 1] = x0 + y0 /\ r1[n + 1] = x1 + y1
        /\ r2[n + 1] = x2 + y2 /\ s[n + 1] = x + y
    BY <2>2
  <2> HIDE DEF x0, x1, x2, x, y0, y1, y2, y
  <2> QED BY <2>3, <2>4, <2>5
<1>6. \A n \in Nat : n \in S => n + 1 \in S
  BY <1>5
<1>7. Nat \subseteq S
  <2> HIDE DEF S
  <2> QED BY <1>4, <1>6, AllNaturals
<1>8. r0[T] + r1[T] + r2[T] <= s[T]
  BY <1>1, <1>7
<1> QED BY <1>2, <1>8

-----------------------------------------------------------------------------
(* The report and the early stop *)

Columns == [0 .. T -> [Results -> Nat]]
Reporting == {"read", "unlock"}

\* Only thread 1 reports, and nobody clears a counter meanwhile.
StatsTypes ==
  /\ rr \in [Threads -> Results] /\ counter \in Columns /\ place \in Nat
  /\ \A t \in Threads : /\ pc[t] \in Reporting => t = 1 /\ stats_mutex = 1
                        /\ pc[t] = "decide" => t = 1

\* A report that has read result k of threads 1 .. j: the sums it has so far
\* are not over those of the counters as they now are.
ReadSoFar(k, j) ==
  \A r \in Results :
    /\ r < k => counter[0][r] <= Total(Counts(r))
    /\ r = k /\ j > 0 => counter[0][r] <= Sums(Counts(r))[j]

ReportInv ==
  /\ pc[1] = "read" =>
       \E k \in Results, j \in 0 .. T - 1 : place = T * k + j /\ ReadSoFar(k, j)
  /\ ReportNotOver

\* What a thread counted since it was warm, and what it has in hand, it requested.
InHand(t) == IF pc[t] \in Busy THEN 1 ELSE 0
Work == [t \in Threads |-> Count(counter[t]) + InHand(t)]
WorkInv == Total(Work) <= Total(Requests)

StopInv ==
  /\ pc[1] = "decide" => Count(counter[0]) <= Total(Requests)
  /\ StopHonest

StatsInv == StatsTypes /\ ReportInv /\ WorkInv /\ StopInv

\* Steps that neither count, clear, report nor decide
Quiet(t) ==
  /\ UNCHANGED <<counter, served, test_finished, place, stats_mutex>>
  /\ \E r \in Results : rr' \in {rr, [rr EXCEPT ![t] = r]}
  /\ \E l \in Labels \ (Reporting \cup {"decide"}) :
       Goto(t, l) /\ (l \in Busy <=> pc[t] \in Busy)

Clears(t) ==
  /\ stats_mutex = 0 /\ ClearCounter(t)
  /\ UNCHANGED <<rr, served, test_finished, place, stats_mutex>>
  /\ pc[t] \notin Busy
  /\ \E l \in Labels \ (Reporting \cup {"decide"} \cup Busy) : Goto(t, l)

LEMMA StatsMoves ==
  ASSUME NEW t \in Threads, Step(t)
  PROVE  \/ Quiet(t) \/ Clears(t) \/ Take(t) \/ Tally(t)
         \/ StartReport(t) \/ ReadReport(t) \/ EndReport(t) \/ Decide(t)
<1>1. /\ Busy \subseteq Labels /\ "warm" \notin Busy /\ "report" \notin Busy
      /\ "loop" \notin Busy /\ "take" \notin Busy /\ "drain" \notin Busy
      /\ "done" \notin Busy /\ "stop" \notin Busy
      /\ {"warm", "report", "loop", "take", "drain", "done", "stop"} \subseteq Labels
      /\ 0 \in Results /\ 1 \in Results /\ 2 \in Results
  BY DEF Busy, Labels, After, Results
<1>2. CASE Loop(t)
  BY <1>1, <1>2 DEF Loop, Quiet, At, request, stats, report, Reporting
<1>3. CASE Get(t)
  BY <1>1, <1>3 DEF Get, Answer, Quiet, At, report, Reporting, Busy
<1>4. CASE Find(t)
  BY <1>1, <1>4 DEF Find, Answer, Quiet, At, stats, report, Reporting, Busy
<1>5. CASE Save(t)
  BY <1>1, <1>5 DEF Save, Quiet, At, request, stats, report, Reporting, Busy
<1>6. CASE Fill(t)
  BY <1>1, <1>6 DEF Fill, Quiet, At, request, report, Reporting, Busy
<1>7. CASE Warm(t)
  BY <1>1, <1>7 DEF Warm, Clears, At, request, report, Reporting
<1>8. CASE SkipReport(t)
  BY <1>1, <1>8 DEF SkipReport, Quiet, At, request, stats, report, Reporting
<1>9. CASE Stop(t)
  BY <1>1, <1>9 DEF Stop, Quiet, At, request, stats, report, Reporting
<1>10. CASE Drain(t)
  <2>1. CASE hasWarmup /\ ~warming_up[t]
    BY <1>1, <1>10, <2>1 DEF Drain, Clears, At, request, report, Reporting
  <2>2. CASE ~(hasWarmup /\ ~warming_up[t])
    BY <1>1, <1>10, <2>2 DEF Drain, Quiet, At, request, stats, report, Reporting
  <2> QED BY <2>1, <2>2
<1> QED BY <1>2, <1>3, <1>4, <1>5, <1>6, <1>7, <1>8, <1>9, <1>10, Zenon DEF Step

\* The counter of thread t after Tally
LEMMA TallyCounts ==
  ASSUME StatsTypes, NEW t \in Threads, Tally(t)
  PROVE  /\ counter' \in Columns /\ counter'[0] = counter[0]
         /\ Count(counter'[t]) = Count(counter[t]) + 1
         /\ \A u \in Threads, r \in Results : counter[u][r] <= counter'[u][r]
         /\ \A u \in Threads \ {t} : counter'[u] = counter[u]
<1> DEFINE c == counter[t]
           d == [c EXCEPT ![rr[t]] = @ + 1]
<1>1. /\ counter \in [0 .. T -> [Results -> Nat]] /\ rr[t] \in Results
      /\ t \in 0 .. T /\ t # 0 /\ 0 \in 0 .. T /\ Threads \subseteq 0 .. T
      /\ counter' = [counter EXCEPT ![t] = d]
  BY Constants DEF StatsTypes, Columns, Tally, Threads
<1>2. c \in [Results -> Nat]
  BY <1>1
<1>3. /\ d \in [Results -> Nat] /\ d[rr[t]] = c[rr[t]] + 1
      /\ \A r \in Results : r # rr[t] => d[r] = c[r]
      /\ \A r \in Results : c[r] \in Nat
  <2> HIDE DEF c
  <2> QED BY <1>1, <1>2
<1>4. /\ counter' \in [0 .. T -> [Results -> Nat]] /\ counter'[t] = d
      /\ \A u \in 0 .. T : u # t => counter'[u] = counter[u]
  <2> HIDE DEF d
  <2> QED BY <1>1, <1>3
<1> HIDE DEF c, d
<1>5. Count(d) = Count(c) + 1
  <2>1. c[0] \in Nat /\ c[1] \in Nat /\ c[2] \in Nat /\ rr[t] \in 0 .. 2
    BY <1>1, <1>3 DEF Results
  <2>2. CASE rr[t] = 0
    <3>1. d[0] = c[0] + 1 /\ d[1] = c[1] /\ d[2] = c[2]
      BY <1>3, <2>2 DEF Results
    <3> QED BY <2>1, <3>1 DEF Count
  <2>3. CASE rr[t] = 1
    <3>1. d[0] = c[0] /\ d[1] = c[1] + 1 /\ d[2] = c[2]
      BY <1>3, <2>3 DEF Results
    <3> QED BY <2>1, <3>1 DEF Count
  <2>4. CASE rr[t] = 2
    <3>1. d[0] = c[0] /\ d[1] = c[1] /\ d[2] = c[2] + 1
      BY <1>3, <2>4 DEF Results
    <3> QED BY <2>1, <3>1 DEF Count
  <2> QED BY <2>1, <2>2, <2>3, <2>4
<1>6. ASSUME NEW u \in Threads, NEW r \in Results
      PROVE  counter[u][r] <= counter'[u][r]
  <2>1. CASE u = t
    <3>1. c[r] <= d[r]
      <4>1. c[r] \in Nat
        BY <1>3
      <4>2. d[r] = c[r] \/ d[r] = c[r] + 1
        BY <1>3
      <4> QED BY <4>1, <4>2
    <3> QED BY <1>4, <2>1, <3>1 DEF c
  <2>2. CASE u # t
    <3>1. counter'[u] = counter[u] /\ counter[u][r] \in Nat
      BY <1>1, <1>4, <2>2
    <3> QED BY <3>1
  <2> QED BY <2>1, <2>2
<1> QED BY <1>1, <1>4, <1>5, <1>6 DEF Columns, c

LEMMA ClearCounts ==
  ASSUME StatsTypes, NEW t \in Threads, ClearCounter(t)
  PROVE  /\ counter' \in Columns /\ counter'[0] = counter[0]
         /\ Count(counter'[t]) = 0
         /\ \A u \in Threads \ {t} : counter'[u] = counter[u]
<1> DEFINE d == [r \in Results |-> 0]
<1>1. /\ counter \in [0 .. T -> [Results -> Nat]]
      /\ t \in 0 .. T /\ t # 0 /\ 0 \in 0 .. T /\ Threads \subseteq 0 .. T
      /\ counter' = [counter EXCEPT ![t] = d]
  BY Constants DEF StatsTypes, Columns, ClearCounter, Threads
<1>2. d \in [Results -> Nat] /\ d[0] = 0 /\ d[1] = 0 /\ d[2] = 0
  BY DEF Results
<1> HIDE DEF d
<1>3. /\ counter' \in [0 .. T -> [Results -> Nat]] /\ counter'[t] = d
      /\ \A u \in 0 .. T : u # t => counter'[u] = counter[u]
  BY <1>1, <1>2
<1>4. Count(d) = 0
  BY <1>2 DEF Count
<1> QED BY <1>1, <1>3, <1>4 DEF Columns

\* Only StartReport, ReadReport and EndReport lead where a report is.
LEMMA TypesStep ==
  ASSUME PcOK, StatsTypes, NEW t \in Threads, Step(t)
  PROVE  StatsTypes'
<1>1. /\ rr \in [Threads -> Results] /\ counter \in Columns /\ place \in Nat
      /\ pc \in [Threads -> Labels] /\ T \in Nat \ {0} /\ 0 \in Results
  BY Constants DEF StatsTypes, PcOK, Results
<1>2. ASSUME rr' \in [Threads -> Results], counter' \in Columns, place' \in Nat,
             UNCHANGED stats_mutex,
             NEW l \in Labels \ (Reporting \cup {"decide"}), Goto(t, l)
      PROVE  StatsTypes'
  <2>1. \A u \in Threads : pc'[u] \in Reporting \cup {"decide"} => pc'[u] = pc[u]
    BY <1>1, <1>2 DEF Goto
  <2> QED BY <1>2, <2>1 DEF StatsTypes
<1>3. CASE Quiet(t)
  <2>1. rr' \in [Threads -> Results]
    BY <1>1, <1>3 DEF Quiet
  <2>2. PICK l \in Labels \ (Reporting \cup {"decide"}) : Goto(t, l)
    BY <1>3 DEF Quiet
  <2> QED BY <1>1, <1>2, <1>3, <2>1, <2>2 DEF Quiet
<1>4. CASE Clears(t)
  <2>1. counter' \in Columns
    BY <1>4, ClearCounts DEF Clears
  <2>2. PICK l \in Labels \ (Reporting \cup {"decide"}) : Goto(t, l)
    BY <1>4 DEF Clears
  <2> QED BY <1>1, <1>2, <1>4, <2>1, <2>2 DEF Clears
<1>5. CASE Take(t)
  <2>1. UNCHANGED <<rr, counter, place, stats_mutex>> /\ Goto(t, "get")
    BY <1>5 DEF Take, stats, report
  <2> QED BY <1>1, <1>2, <2>1 DEF Labels, Busy, Reporting
<1>6. CASE Tally(t)
  <2>1. UNCHANGED <<place, stats_mutex>> /\ rr' = [rr EXCEPT ![t] = 0]
        /\ (Goto(t, "warm") \/ Goto(t, "report"))
    BY <1>6 DEF Tally, report, Forgotten
  <2>2. rr' \in [Threads -> Results]
    BY <1>1, <2>1
  <2>3. counter' \in Columns
    BY <1>6, TallyCounts
  <2> QED BY <1>1, <1>2, <2>1, <2>2, <2>3 DEF Labels, After, Reporting
<1>7. CASE StartReport(t)
  <2>1. /\ UNCHANGED <<rr, counter>> /\ place' = 0 /\ stats_mutex' = 1 /\ t = 1
        /\ stats_mutex = 0 /\ pc' = [pc EXCEPT ![t] = "read"]
    BY <1>7 DEF StartReport, ReportDue, request, stats, Goto
  <2>2. \A u \in Threads : u # t => pc'[u] = pc[u]
    BY <1>1, <2>1
  <2>3. pc'[t] = "read"
    BY <1>1, <2>1
  <2>4. \A u \in Threads : /\ pc'[u] \in Reporting => u = 1 /\ stats_mutex' = 1
                           /\ pc'[u] = "decide" => u = 1
    BY <2>1, <2>2, <2>3 DEF StatsTypes
  <2> QED BY <1>1, <2>1, <2>4 DEF StatsTypes
<1>8. CASE ReadReport(t)
  <2> DEFINE k == place \div T
             j == (place % T) + 1
             c == IF j = 1 THEN 0 ELSE counter[0][k]
             x == c + counter[j][k]
  <2>1. /\ UNCHANGED <<rr, stats_mutex>> /\ place' = place + 1 /\ pc[t] = "read"
        /\ counter' = [counter EXCEPT ![0][k] = x]
        /\ (Goto(t, "unlock") \/ Goto(t, "read"))
    BY <1>8 DEF ReadReport, At, request
  <2>2. place' \in Nat
    BY <1>1, <2>1
  <2>3. counter' \in Columns
    <3>1. j \in 0 .. T /\ 0 \in 0 .. T
      BY <1>1
    <3>2. CASE k \in Results
      <4>1. counter[j][k] \in Nat /\ counter[0][k] \in Nat
        BY <1>1, <3>1, <3>2 DEF Columns
      <4>2. c \in Nat
        BY <4>1
      <4>3. x \in Nat
        <5> HIDE DEF c, j, k
        <5> QED BY <4>1, <4>2
      <4> HIDE DEF x, k, j, c
      <4> QED BY <1>1, <2>1, <3>1, <3>2, <4>3 DEF Columns
    <3>3. CASE k \notin Results
      <4> HIDE DEF x, k, j, c
      <4> QED BY <1>1, <2>1, <3>1, <3>3 DEF Columns
    <3> QED BY <3>2, <3>3
  <2>4. t = 1 /\ stats_mutex = 1
    BY <2>1 DEF StatsTypes, Reporting
  <2>5. \A u \in Threads : u # t => pc'[u] = pc[u]
    BY <1>1, <2>1 DEF Goto
  <2>6. pc'[t] # "decide"
    BY <1>1, <2>1 DEF Goto
  <2>7. \A u \in Threads : /\ pc'[u] \in Reporting => u = 1 /\ stats_mutex' = 1
                           /\ pc'[u] = "decide" => u = 1
    BY <2>1, <2>4, <2>5, <2>6 DEF StatsTypes
  <2> QED BY <1>1, <2>1, <2>2, <2>3, <2>7 DEF StatsTypes
<1>9. CASE EndReport(t)
  <2>1. /\ UNCHANGED <<rr, counter, place>> /\ pc[t] = "unlock"
        /\ pc' = [pc EXCEPT ![t] = "decide"]
    BY <1>9 DEF EndReport, request, stats, Goto, At
  <2>2. t = 1 /\ pc'[t] = "decide" /\ \A u \in Threads : u # t => pc'[u] = pc[u]
    BY <1>1, <2>1 DEF StatsTypes, Reporting
  <2>3. \A u \in Threads : pc'[u] \notin Reporting /\ (pc'[u] = "decide" => u = 1)
    BY <2>2 DEF StatsTypes, Reporting
  <2> QED BY <1>1, <2>1, <2>3 DEF StatsTypes
<1>10. CASE Decide(t)
  <2>1. UNCHANGED <<rr, counter, place, stats_mutex>> /\ Goto(t, "stop")
    BY <1>10 DEF Decide, request, stats
  <2> QED BY <1>1, <1>2, <2>1 DEF Labels, After, Reporting
<1> QED BY <1>3, <1>4, <1>5, <1>6, <1>7, <1>8, <1>9, <1>10, StatsMoves

\* The counters of the threads for one result
ColumnOf(c, r) == [t \in Threads |-> c[t][r]]

LEMMA CountsOfColumn ==
  ASSUME NEW r
  PROVE  Counts(r) = ColumnOf(counter, r) /\ Counts(r)' = ColumnOf(counter', r)
BY DEF Counts, ColumnOf

LEMMA ColumnIs ==
  ASSUME NEW c \in Columns, NEW r \in Results
  PROVE  ColumnOf(c, r) \in OfThreads /\ c[0][r] \in Nat
<1>1. Threads \subseteq 0 .. T /\ 0 \in 0 .. T
  BY Constants DEF Threads
<1> QED BY <1>1 DEF ColumnOf, OfThreads, Columns

\* The sums of the counters grow with them.
LEMMA ColumnsGrow ==
  ASSUME NEW c \in Columns, NEW d \in Columns, NEW r \in Results,
         \A t \in Threads : c[t][r] <= d[t][r]
  PROVE  /\ \A n \in 0 .. T : /\ Sums(ColumnOf(c, r))[n] \in Nat
                              /\ Sums(ColumnOf(d, r))[n] \in Nat
                              /\ Sums(ColumnOf(c, r))[n] <= Sums(ColumnOf(d, r))[n]
         /\ Total(ColumnOf(c, r)) <= Total(ColumnOf(d, r))
         /\ Total(ColumnOf(c, r)) \in Nat /\ Total(ColumnOf(d, r)) \in Nat
<1> DEFINE u == ColumnOf(c, r)
           v == ColumnOf(d, r)
<1>1. /\ u \in OfThreads /\ v \in OfThreads /\ Threads = 1 .. T
      /\ \A t \in Threads : u[t] <= v[t]
  BY ColumnIs DEF ColumnOf, Threads
<1> HIDE DEF u, v
<1>2. /\ u \in Seq(Nat) /\ Len(u) = T /\ Total(u) \in Nat
      /\ v \in Seq(Nat) /\ Len(v) = T /\ Total(v) \in Nat
  BY <1>1, OfThreadsIs
<1>3. (\A n \in 0 .. T : Sums(u)[n] <= Sums(v)[n]) /\ Total(u) <= Total(v)
  BY <1>1, <1>2, SumsAtMost
<1>4. \A n \in 0 .. T : Sums(u)[n] \in Nat /\ Sums(v)[n] \in Nat
  BY <1>2, SumsIs
<1> QED BY <1>2, <1>3, <1>4 DEF u, v

\* What a report has read so far stays under what the counters become.
LEMMA ReportKeep ==
  ASSUME StatsTypes, StatsTypes', ReportInv,
         pc'[1] \in Reporting =>
           /\ pc'[1] = pc[1] /\ place' = place /\ counter'[0] = counter[0]
           /\ \A t \in Threads, r \in Results : counter[t][r] <= counter'[t][r]
  PROVE  ReportInv'
<1>1. CASE pc'[1] \notin Reporting
  BY <1>1 DEF ReportInv, ReportNotOver, Reporting, At
<1>2. CASE pc'[1] \in Reporting
  <2>1. /\ pc'[1] = pc[1] /\ place' = place /\ counter'[0] = counter[0]
        /\ counter \in Columns /\ counter' \in Columns
        /\ \A t \in Threads, r \in Results : counter[t][r] <= counter'[t][r]
    BY <1>2 DEF StatsTypes
  <2>2. ASSUME NEW r \in Results
        PROVE  /\ counter[0][r] \in Nat
               /\ \A n \in 0 .. T : /\ Sums(Counts(r))[n] \in Nat /\ Sums(Counts(r)')[n] \in Nat
                                    /\ Sums(Counts(r))[n] <= Sums(Counts(r)')[n]
               /\ Total(Counts(r)) <= Total(Counts(r)')
               /\ Total(Counts(r)) \in Nat /\ Total(Counts(r)') \in Nat
    BY <2>1, ColumnIs, ColumnsGrow, CountsOfColumn
  <2>3. T \in Nat \ {0}
    BY Constants
  <2>4. ASSUME NEW k \in Results, NEW j \in 0 .. T - 1, ReadSoFar(k, j)
        PROVE  ReadSoFar(k, j)'
    <3> SUFFICES ASSUME NEW r \in Results
                 PROVE  /\ r < k => counter'[0][r] <= Total(Counts(r)')
                        /\ r = k /\ j > 0 => counter'[0][r] <= Sums(Counts(r)')[j]
      BY DEF ReadSoFar, Total
    <3> DEFINE a == counter[0][r]
               x == Total(Counts(r))
               y == Total(Counts(r)')
               u == Sums(Counts(r))[j]
               v == Sums(Counts(r)')[j]
    <3>1. j \in 0 .. T
      BY <2>3
    <3>2. a \in Nat /\ x \in Nat /\ y \in Nat /\ u \in Nat /\ v \in Nat /\ x <= y /\ u <= v
      BY <2>2, <3>1
    <3>3. (r < k => a <= x) /\ (r = k /\ j > 0 => a <= u)
      BY <2>4 DEF ReadSoFar
    <3>4. counter'[0][r] = a
      BY <2>1
    <3> HIDE DEF a, x, y, u, v
    <3>5. (r < k => a <= y) /\ (r = k /\ j > 0 => a <= v)
      BY <3>2, <3>3
    <3> QED BY <3>4, <3>5 DEF y, v
  <2>5. ReportNotOver'
    <3> SUFFICES ASSUME pc'[1] = "unlock", NEW r \in Results
                 PROVE  counter'[0][r] <= Total(Counts(r)')
      BY DEF ReportNotOver, At, Total
    <3>1. counter[0][r] <= Total(Counts(r))
      BY <2>1 DEF ReportInv, ReportNotOver, At
    <3> DEFINE a == counter[0][r]
               x == Total(Counts(r))
               y == Total(Counts(r)')
    <3>2. a \in Nat /\ x \in Nat /\ y \in Nat /\ x <= y /\ a <= x /\ counter'[0][r] = a
      BY <2>1, <2>2, <3>1
    <3> HIDE DEF a, x, y
    <3>3. counter'[0][r] <= y
      BY <3>2
    <3> QED BY <3>3 DEF y
  <2>6. pc'[1] = "read" =>
          \E k \in Results, j \in 0 .. T - 1 : place' = T * k + j /\ ReadSoFar(k, j)'
    BY <2>1, <2>4 DEF ReportInv
  <2> QED BY <2>5, <2>6 DEF ReportInv
<1> QED BY <1>1, <1>2

\* Another counter is read: what was read of it is not more than it now holds.
LEMMA ReadStep ==
  ASSUME StatsTypes, ReportInv, pc \in [Threads -> Labels], ReadReport(1)
  PROVE  ReportInv'
<1>1. /\ pc[1] = "read" /\ counter \in Columns /\ place' = place + 1
      /\ T \in Nat \ {0} /\ 1 \in Threads /\ Threads = 1 .. T
  BY Constants DEF ReadReport, At, StatsTypes, Threads
<1>2. PICK k \in Results, j0 \in 0 .. T - 1 : place = T * k + j0 /\ ReadSoFar(k, j0)
  BY <1>1 DEF ReportInv
<1> DEFINE j == j0 + 1
           a == IF j = 1 THEN 0 ELSE counter[0][k]
           x == a + counter[j][k]
           s == Sums(Counts(k))
<1>3. place \div T = k /\ (place % T) + 1 = j /\ k \in 0 .. 2 /\ j \in 1 .. T
  <2>1. place \in Nat /\ k \in Int
    BY DEF StatsTypes, Results
  <2>2. place \div T = k /\ place % T = j0
    BY <1>1, <1>2, <2>1, QuotientIs
  <2> QED BY <1>1, <2>2 DEF Results
<1>4. /\ counter' = [counter EXCEPT ![0][k] = x]
      /\ Goto(1, IF place + 1 = 3 * T THEN "unlock" ELSE "read")
  BY <1>3 DEF ReadReport
<1>5. /\ x <= s[j]
      /\ j = T => s[j] = Total(Counts(k))
  <2> DEFINE b == counter[j][k]
             d == counter[0][k]
  <2>1. Counts(k) \in OfThreads /\ d \in Nat /\ Counts(k)[j] = b
    <3>1. ColumnOf(counter, k) \in OfThreads /\ d \in Nat
      BY <1>1, ColumnIs
    <3>2. j \in Threads
      BY <1>1, <1>3
    <3>3. ColumnOf(counter, k)[j] = b
      BY <3>2 DEF ColumnOf
    <3>4. Counts(k) = ColumnOf(counter, k)
      BY CountsOfColumn
    <3> QED BY <3>1, <3>3, <3>4
  <2>2. Counts(k) \in Seq(Nat) /\ Len(Counts(k)) = T /\ Total(Counts(k)) = s[T]
    BY <2>1, OfThreadsIs
  <2>3. s \in [0 .. T -> Nat] /\ s[0] = 0 /\ s[j] = s[j - 1] + Counts(k)[j]
    BY <1>3, <2>2, SumsIs
  <2>4. j0 \in 0 .. T /\ j - 1 = j0
    BY <1>1
  <2>5. s[j0] \in Nat /\ (j0 > 0 => d <= s[j0]) /\ b \in Nat
    BY <1>1, <1>2, <1>3, <2>1, <2>3, <2>4 DEF ReadSoFar, OfThreads
  <2>6. a \in Nat /\ a <= s[j0]
    <3>1. CASE j0 = 0
      BY <2>3, <3>1
    <3>2. CASE j0 # 0
      BY <2>1, <2>4, <2>5, <3>2
    <3> QED BY <3>1, <3>2
  <2>7. s[j] = s[j0] + b
    BY <2>1, <2>3, <2>4
  <2> DEFINE y == s[j0]
  <2>8. y \in Nat /\ a \in Nat /\ a <= y /\ b \in Nat /\ s[j] = y + b /\ x = a + b
    BY <2>5, <2>6, <2>7
  <2> HIDE DEF y, a, b, x, s
  <2>9. x <= s[j]
    BY <2>8
  <2> QED BY <2>2, <2>9
<1> HIDE DEF a, x, s
<1>6. /\ counter'[0][k] = x /\ \A r \in Results : r # k => counter'[0][r] = counter[0][r]
      /\ \A u \in Threads : counter'[u] = counter[u]
  <2>1. /\ counter \in [0 .. T -> [Results -> Nat]] /\ 0 \in 0 .. T
        /\ \A u \in Threads : u \in 0 .. T /\ u # 0
    BY <1>1 DEF Columns
  <2> QED BY <1>4, <2>1
<1>7. ASSUME NEW r PROVE Counts(r)' = Counts(r)
  BY <1>6 DEF Counts
<1>8. ASSUME NEW r \in Results, r < k
      PROVE  counter'[0][r] <= Total(Counts(r))
  <2>1. r # k /\ counter[0][r] <= Total(Counts(r))
    BY <1>2, <1>3, <1>8 DEF ReadSoFar, Results
  <2> QED BY <1>6, <2>1
<1>9. T * k \in Nat /\ (k = 0 => T * k = 0) /\ (k = 1 => T * k = T) /\ (k = 2 => T * k = 2 * T)
  BY <1>1, <1>3
<1>10. CASE j < T
  <2>1. place' = T * k + j /\ j \in 0 .. T - 1 /\ place + 1 # 3 * T
    BY <1>1, <1>2, <1>3, <1>9, <1>10
  <2>2. pc'[1] = "read"
    BY <1>1, <1>4, <2>1 DEF Goto
  <2>3. ASSUME NEW r \in Results
        PROVE  /\ r < k => counter'[0][r] <= Total(Counts(r)')
               /\ r = k /\ j > 0 => counter'[0][r] <= Sums(Counts(r)')[j]
    <3>1. r < k => counter'[0][r] <= Total(Counts(r)')
      BY <1>7, <1>8
    <3>2. r = k => counter'[0][r] <= Sums(Counts(r)')[j]
      BY <1>5, <1>6, <1>7 DEF s
    <3> QED BY <3>1, <3>2
  <2>4. ReadSoFar(k, j)'
    BY <2>3 DEF ReadSoFar, Total
  <2> QED BY <2>1, <2>2, <2>4 DEF ReportInv, ReportNotOver, At
<1>11. CASE j = T
  <2>1. place' = T * k + T
    BY <1>1, <1>2, <1>3, <1>9, <1>11
  <2>2. counter'[0][k] <= Total(Counts(k))
    BY <1>5, <1>6, <1>11
  <2>3. ASSUME NEW r \in Results, r <= k PROVE counter'[0][r] <= Total(Counts(r)')
    <3>1. r < k \/ r = k
      BY <1>3, <2>3 DEF Results
    <3> QED BY <1>7, <1>8, <2>2, <3>1
  <2>4. CASE k = 2
    <3>1. place + 1 = 3 * T
      BY <1>1, <1>9, <2>1, <2>4
    <3>2. pc'[1] = "unlock"
      BY <1>1, <1>4, <3>1 DEF Goto
    <3>3. \A r \in Results : r <= k
      BY <2>4 DEF Results
    <3>4. \A r \in Results : counter'[0][r] <= Total(Counts(r)')
      BY <2>3, <3>3
    <3>5. ReportNotOver'
      BY <3>4 DEF ReportNotOver, Total
    <3> QED BY <3>2, <3>5 DEF ReportInv
  <2>5. CASE k # 2
    <3>1. k + 1 \in Results /\ place' = T * (k + 1) + 0 /\ place + 1 # 3 * T
          /\ 0 \in 0 .. T - 1
      BY <1>1, <1>3, <1>9, <2>1, <2>5 DEF Results
    <3>2. pc'[1] = "read"
      BY <1>1, <1>4, <3>1 DEF Goto
    <3>3. ASSUME NEW r \in Results, r < k + 1 PROVE counter'[0][r] <= Total(Counts(r)')
      <4>1. r <= k
        BY <1>3, <3>3 DEF Results
      <4> QED BY <2>3, <4>1
    <3>4. ReadSoFar(k + 1, 0)'
      BY <3>3 DEF ReadSoFar, Total
    <3> QED BY <3>1, <3>2, <3>4 DEF ReportInv, ReportNotOver, At
  <2> QED BY <2>4, <2>5
<1> QED BY <1>1, <1>3, <1>10, <1>11

LEMMA ReportStep ==
  ASSUME PcOK, StatsTypes, StatsTypes', ReportInv, NEW t \in Threads, Step(t)
  PROVE  ReportInv'
<1>1. /\ pc \in [Threads -> Labels] /\ counter \in Columns /\ 1 \in Threads
      /\ \A u \in Threads, r \in Results : counter[u][r] \in Nat
  <2>1. T \in Nat \ {0} /\ Threads = 1 .. T /\ Threads \subseteq 0 .. T
    BY Constants DEF Threads
  <2>2. counter \in [0 .. T -> [Results -> Nat]]
    BY DEF StatsTypes, Columns
  <2>3. \A u \in 0 .. T : counter[u] \in [Results -> Nat]
    BY <2>2
  <2> QED BY <2>1, <2>2, <2>3 DEF PcOK, Columns
<1>2. ASSUME counter'[0] = counter[0], place' = place,
             \A u \in Threads, r \in Results : counter[u][r] <= counter'[u][r],
             NEW l \in Labels \ Reporting, Goto(t, l)
      PROVE  ReportInv'
  <2>1. pc'[1] \in Reporting => pc'[1] = pc[1]
    BY <1>1, <1>2 DEF Goto
  <2> QED BY <1>2, <2>1, ReportKeep
<1>3. ASSUME UNCHANGED <<counter, place>>, NEW l \in Labels \ Reporting, Goto(t, l)
      PROVE  ReportInv'
  <2>1. \A u \in Threads, r \in Results : counter[u][r] <= counter'[u][r]
    BY <1>1, <1>3
  <2> QED BY <1>2, <1>3, <2>1
<1>4. CASE Quiet(t)
  <2>1. PICK l \in Labels \ Reporting : Goto(t, l)
    BY <1>4 DEF Quiet
  <2> QED BY <1>3, <1>4, <2>1 DEF Quiet
<1>5. CASE Clears(t)
  <2>1. PICK l \in Labels \ Reporting : Goto(t, l)
    BY <1>5 DEF Clears
  <2>2. pc[1] \notin Reporting
    BY <1>1, <1>5 DEF Clears, StatsTypes
  <2>3. pc'[1] \notin Reporting
    BY <1>1, <2>1, <2>2 DEF Goto
  <2> QED BY <2>3, ReportKeep
<1>6. CASE Take(t)
  <2>1. UNCHANGED <<counter, place>> /\ Goto(t, "get")
    BY <1>6 DEF Take, stats, report
  <2> QED BY <1>3, <2>1 DEF Labels, Busy, Reporting
<1>7. CASE Tally(t)
  <2>1. UNCHANGED place /\ (Goto(t, "warm") \/ Goto(t, "report"))
    BY <1>7 DEF Tally, report
  <2>2. /\ counter'[0] = counter[0]
        /\ \A u \in Threads, r \in Results : counter[u][r] <= counter'[u][r]
    BY <1>7, TallyCounts
  <2> QED BY <1>2, <2>1, <2>2 DEF Labels, After, Reporting
<1>8. CASE StartReport(t)
  <2>1. /\ place' = 0 /\ t = 1 /\ pc' = [pc EXCEPT ![t] = "read"]
    BY <1>8 DEF StartReport, ReportDue, Goto
  <2>2. pc'[1] = "read"
    BY <1>1, <2>1
  <2>3. 0 \in Results /\ 0 \in 0 .. T - 1 /\ place' = T * 0 + 0
    BY <2>1, Constants DEF Results
  <2>4. ReadSoFar(0, 0)'
    <3>1. \A r \in Results : ~(r < 0)
      BY DEF Results
    <3> QED BY <3>1 DEF ReadSoFar
  <2> QED BY <2>2, <2>3, <2>4 DEF ReportInv, ReportNotOver, At
<1>9. CASE ReadReport(t)
  <2>1. t = 1
    BY <1>9 DEF ReadReport, At, StatsTypes, Reporting
  <2> QED BY <1>1, <1>9, <2>1, ReadStep
<1>10. CASE EndReport(t)
  <2>1. UNCHANGED <<counter, place>> /\ Goto(t, "decide")
    BY <1>10 DEF EndReport, stats
  <2> QED BY <1>3, <2>1 DEF Labels, After, Reporting
<1>11. CASE Decide(t)
  <2>1. UNCHANGED <<counter, place>> /\ Goto(t, "stop")
    BY <1>11 DEF Decide, stats
  <2> QED BY <1>3, <2>1 DEF Labels, After, Reporting
<1> QED BY <1>4, <1>5, <1>6, <1>7, <1>8, <1>9, <1>10, <1>11, StatsMoves

\* How often each place was requested, from place 0
RequestsOf(s) == [p \in 1 .. Length + T |-> s[p - 1]]

LEMMA RequestsIs ==
  ASSUME NEW s \in [0 .. Length + T - 1 -> Nat]
  PROVE  /\ RequestsOf(s) \in Seq(Nat) /\ Len(RequestsOf(s)) = Length + T
         /\ Total(RequestsOf(s)) \in Nat
<1>1. Length + T \in Nat /\ \A p \in 1 .. Length + T : p - 1 \in 0 .. Length + T - 1
  BY Constants
<1>2. RequestsOf(s) \in [1 .. Length + T -> Nat]
  BY <1>1 DEF RequestsOf
<1>3. RequestsOf(s) \in Seq(Nat) /\ Len(RequestsOf(s)) = Length + T
  BY <1>1, <1>2
<1> QED BY <1>1, <1>3, SumsIs DEF Total

\* A request is one more.
LEMMA OneMoreRequest ==
  ASSUME NEW s \in [0 .. Length + T - 1 -> Nat], NEW p \in 0 .. Length + T - 1
  PROVE  Total(RequestsOf([s EXCEPT ![p] = @ + 1])) = Total(RequestsOf(s)) + 1
<1> DEFINE r == [s EXCEPT ![p] = @ + 1]
           c == RequestsOf(s)
           d == RequestsOf(r)
           N == Length + T
<1>1. N \in Nat /\ p \in Nat /\ p + 1 \in 1 .. N /\ (p + 1) - 1 = p
      /\ 0 .. Length + T - 1 = 0 .. N - 1
  <2>1. Length \in Nat /\ T \in Nat
    BY Constants
  <2> QED BY <2>1
<1>2. /\ r \in [0 .. N - 1 -> Nat] /\ r[p] = s[p] + 1
      /\ \A m \in 0 .. N - 1 : m # p => r[m] = s[m]
  <2> DEFINE D == 0 .. Length + T - 1
             x == s[p] + 1
  <2>1. s \in [D -> Nat] /\ p \in D /\ s[p] \in Nat
    <3>1. s \in [D -> Nat] /\ p \in D
      OBVIOUS
    <3> HIDE DEF D
    <3> QED BY <3>1
  <2>2. x \in Nat /\ r = [s EXCEPT ![p] = x]
    BY <2>1
  <2> HIDE DEF D, x, r
  <2>3. r \in [D -> Nat] /\ r[p] = x /\ \A m \in D : m # p => r[m] = s[m]
    BY <2>1, <2>2
  <2> QED BY <1>1, <2>3 DEF D, x
<1> HIDE DEF r
<1>3. /\ c \in Seq(Nat) /\ Len(c) = N /\ d \in Seq(Nat) /\ Len(d) = N
  <2>1. r \in [0 .. Length + T - 1 -> Nat]
    <3> HIDE DEF N
    <3> QED BY <1>1, <1>2
  <2> QED BY <2>1, RequestsIs
<1>4. d[p + 1] = c[p + 1] + 1
  BY <1>1, <1>2 DEF RequestsOf
<1>5. ASSUME NEW n \in 1 .. N, n # p + 1 PROVE d[n] = c[n]
  <2>1. n - 1 \in 0 .. N - 1 /\ n - 1 # p
    BY <1>1, <1>5
  <2> QED BY <1>2, <2>1 DEF RequestsOf
<1> HIDE DEF c, d, N
<1>6. Total(d) = Total(c) + 1
  BY <1>1, <1>3, <1>4, <1>5, SumsOneMore
<1> QED BY <1>6 DEF c, d, r

\* A step requests a place, and then one of the trace's or just after it, or
\* leaves the requests as they are.
LEMMA RequestsStep ==
  ASSUME PlaceInv, PlaceInv', NEW t \in Threads, Step(t)
  PROVE  /\ Total(Requests) \in Nat /\ Total(Requests') \in Nat
         /\ Take(t) => Total(Requests') = Total(Requests) + 1
         /\ ~Take(t) => served' = served
<1>1. /\ served \in [0 .. Length + T - 1 -> Nat] /\ served' \in [0 .. Length + T - 1 -> Nat]
      /\ Requests = RequestsOf(served) /\ Requests' = RequestsOf(served')
  BY DEF PlaceInv, IndexOK, Requests, RequestsOf
<1>2. Total(Requests) \in Nat /\ Total(Requests') \in Nat
  BY <1>1, RequestsIs
<1>3. CASE Take(t)
  <2> DEFINE p == IF threadsSync THEN global_i ELSE i[t]
  <2>1. /\ pc[t] = "take" /\ served' = [served EXCEPT ![p] = @ + 1]
        /\ global_i' = IF threadsSync THEN global_i + 1 ELSE global_i
    BY <1>3 DEF Take, At
  <2>2. /\ global_i \in Nat /\ i[t] \in Nat /\ threadsSync' = threadsSync
        /\ T \in Nat \ {0} /\ Length \in Nat
    BY Constants DEF PlaceInv, IndexOK, Step, threadsSync
  <2>3. p \in 0 .. Length + T - 1
    <3>1. CASE threadsSync
      <4>1. global_i' = global_i + 1 /\ global_i' <= Length + T - 1
        BY <2>1, <2>2, <3>1 DEF PlaceInv, SyncInv
      <4> QED BY <2>2, <3>1, <4>1
    <3>2. CASE ~threadsSync
      <4>1. i[t] < Length
        BY <2>1, <3>2 DEF PlaceInv, PrivateInv
      <4> QED BY <2>2, <3>2, <4>1
    <3> QED BY <3>1, <3>2
  <2> HIDE DEF p
  <2>4. Total(Requests') = Total(Requests) + 1
    BY <1>1, <2>1, <2>3, OneMoreRequest
  <2> QED BY <1>2, <1>3, <2>4
<1>4. CASE ~Take(t)
  <2>1. served' = served
    BY <1>4, StatsMoves DEF Quiet, Clears, Tally, StartReport, ReadReport, EndReport, Decide
  <2> QED BY <1>2, <1>4, <2>1
<1> QED BY <1>3, <1>4

WorkOf(c, p) == [t \in Threads |-> Count(c[t]) + (IF p[t] \in Busy THEN 1 ELSE 0)]

LEMMA WorkIs ==
  ASSUME NEW c \in Columns, NEW p
  PROVE  /\ WorkOf(c, p) \in OfThreads
         /\ \A t \in Threads : Count(c[t]) \in Nat
<1>1. \A t \in Threads : c[t] \in [Results -> Nat]
  <2>1. Threads \subseteq 0 .. T
    BY Constants DEF Threads
  <2> QED BY <2>1 DEF Columns
<1>2. \A t \in Threads : Count(c[t]) \in Nat
  <2> TAKE t \in Threads
  <2>1. c[t][0] \in Nat /\ c[t][1] \in Nat /\ c[t][2] \in Nat
    BY <1>1 DEF Results
  <2> QED BY <2>1 DEF Count
<1> QED BY <1>2 DEF WorkOf, OfThreads

LEMMA WorkOfState ==
  /\ Work = WorkOf(counter, pc) /\ Work' = WorkOf(counter', pc')
  /\ \A t \in Threads : /\ Work[t] = Count(counter[t]) + InHand(t)
                        /\ Work'[t] = Count(counter'[t]) + InHand(t)'
BY DEF Work, WorkOf, InHand

\* The counts and what is in hand never grow without a request.
LEMMA WorkKeep ==
  ASSUME StatsTypes, StatsTypes', WorkInv, PlaceInv, served' = served,
         \A u \in Threads : Work'[u] <= Work[u]
  PROVE  WorkInv'
<1>1. /\ Work \in Seq(Nat) /\ Len(Work) = T /\ Total(Work) \in Nat
      /\ Work' \in Seq(Nat) /\ Len(Work') = T /\ Total(Work') \in Nat
  <2>1. Work \in OfThreads /\ Work' \in OfThreads
    BY WorkIs, WorkOfState DEF StatsTypes
  <2> QED BY <2>1, OfThreadsIs
<1>2. Total(Work') <= Total(Work)
  BY <1>1, SumsAtMost DEF Threads
<1>3. Total(Requests) \in Nat /\ Requests' = Requests
  <2>1. served \in [0 .. Length + T - 1 -> Nat] /\ Requests = RequestsOf(served)
    BY DEF PlaceInv, IndexOK, Requests, RequestsOf
  <2> QED BY <2>1, RequestsIs DEF Requests
<1>4. Total(Work) <= Total(Requests)
  BY DEF WorkInv
<1>5. Total(Work') <= Total(Requests')
  BY <1>1, <1>2, <1>3, <1>4
<1> QED BY <1>5 DEF WorkInv, Total

LEMMA WorkStep ==
  ASSUME PcOK, StatsTypes, StatsTypes', PlaceInv, PlaceInv', WorkInv,
         NEW t \in Threads, Step(t)
  PROVE  WorkInv'
<1>1. /\ pc \in [Threads -> Labels] /\ counter \in Columns /\ counter' \in Columns
      /\ \A u \in Threads : /\ Count(counter[u]) \in Nat /\ Count(counter'[u]) \in Nat
                            /\ InHand(u) \in 0 .. 1 /\ InHand(u)' \in 0 .. 1
                            /\ Work[u] = Count(counter[u]) + InHand(u)
                            /\ Work'[u] = Count(counter'[u]) + InHand(u)'
  <2>1. counter \in Columns /\ counter' \in Columns
    BY DEF StatsTypes
  <2>2. \A u \in Threads : Count(counter[u]) \in Nat /\ Count(counter'[u]) \in Nat
    BY <2>1, WorkIs
  <2>3. \A u \in Threads : InHand(u) \in 0 .. 1 /\ InHand(u)' \in 0 .. 1
    BY DEF InHand
  <2> QED BY <2>1, <2>2, <2>3, WorkOfState DEF PcOK
<1>2. ASSUME NEW l \in Labels, Goto(t, l)
      PROVE  /\ InHand(t)' = IF l \in Busy THEN 1 ELSE 0
             /\ \A u \in Threads : u # t => InHand(u)' = InHand(u)
  BY <1>1, <1>2 DEF Goto, InHand
<1>3. ASSUME \A u \in Threads : u # t => counter'[u] = counter[u],
             NEW l \in Labels, Goto(t, l), Work'[t] <= Work[t], served' = served
      PROVE  WorkInv'
  <2>1. ASSUME NEW u \in Threads PROVE Work'[u] <= Work[u]
    <3>1. CASE u = t
      BY <1>3, <3>1
    <3>2. CASE u # t
      <4>1. Work'[u] = Work[u] /\ Work[u] \in Nat
        BY <1>1, <1>2, <1>3, <3>2
      <4> QED BY <4>1
    <3> QED BY <3>1, <3>2
  <2> QED BY <1>3, <2>1, WorkKeep
<1>4. ASSUME \A u \in Threads : counter'[u] = counter[u], served' = served,
             NEW l \in Labels, Goto(t, l), l \in Busy <=> pc[t] \in Busy
      PROVE  WorkInv'
  <2>1. InHand(t)' = InHand(t)
    BY <1>2, <1>4 DEF InHand
  <2>2. Work'[t] <= Work[t]
    BY <1>1, <1>4, <2>1
  <2> QED BY <1>3, <1>4, <2>2
<1>5. CASE Quiet(t)
  <2>1. PICK l \in Labels : Goto(t, l) /\ (l \in Busy <=> pc[t] \in Busy)
    BY <1>5 DEF Quiet
  <2> QED BY <1>4, <1>5, <2>1 DEF Quiet
<1>6. CASE Clears(t)
  <2>1. PICK l \in Labels \ Busy : Goto(t, l)
    BY <1>6 DEF Clears
  <2>2. Count(counter'[t]) = 0 /\ \A u \in Threads : u # t => counter'[u] = counter[u]
    BY <1>6, ClearCounts DEF Clears
  <2>3. InHand(t)' = 0
    BY <1>2, <2>1
  <2>4. Work'[t] <= Work[t]
    BY <1>1, <2>2, <2>3
  <2> QED BY <1>3, <1>6, <2>1, <2>2, <2>4 DEF Clears
<1>7. CASE Tally(t)
  <2>1. pc[t] = "tally" /\ served' = served /\ (Goto(t, "warm") \/ Goto(t, "report"))
    BY <1>7 DEF Tally, At
  <2>2. /\ Count(counter'[t]) = Count(counter[t]) + 1
        /\ \A u \in Threads : u # t => counter'[u] = counter[u]
    BY <1>7, TallyCounts
  <2>3. PICK l \in Labels \ Busy : Goto(t, l)
    BY <2>1 DEF Labels, After, Busy
  <2>4. InHand(t)' = 0 /\ InHand(t) = 1
    BY <1>2, <2>1, <2>3 DEF InHand, Busy
  <2>5. Work'[t] <= Work[t]
    BY <1>1, <2>2, <2>4
  <2> QED BY <1>3, <2>1, <2>2, <2>3, <2>5
<1>8. CASE StartReport(t)
  <2>1. UNCHANGED <<counter, served>> /\ pc[t] = "report" /\ Goto(t, "read")
    BY <1>8 DEF StartReport, stats, At
  <2> QED BY <1>4, <2>1 DEF Labels, After, Busy
<1>9. CASE ReadReport(t)
  <2>1. served' = served /\ pc[t] = "read" /\ (Goto(t, "unlock") \/ Goto(t, "read"))
    BY <1>9 DEF ReadReport, At
  <2>2. \A u \in Threads : counter'[u] = counter[u]
    <3>1. PICK x : \E k : counter' = [counter EXCEPT ![0][k] = x]
      BY <1>9 DEF ReadReport
    <3>2. \A u \in Threads : u # 0 /\ u \in 0 .. T
      BY Constants DEF Threads
    <3> QED BY <1>1, <3>1, <3>2 DEF Columns
  <2> QED BY <1>4, <2>1, <2>2 DEF Labels, After, Busy
<1>10. CASE EndReport(t)
  <2>1. UNCHANGED <<counter, served>> /\ pc[t] = "unlock" /\ Goto(t, "decide")
    BY <1>10 DEF EndReport, stats, At
  <2> QED BY <1>4, <2>1 DEF Labels, After, Busy
<1>11. CASE Decide(t)
  <2>1. UNCHANGED <<counter, served>> /\ pc[t] = "decide" /\ Goto(t, "stop")
    BY <1>11 DEF Decide, stats, At
  <2> QED BY <1>4, <2>1 DEF Labels, After, Busy
<1>12. CASE Take(t)
  <2>1. counter' = counter /\ pc[t] = "take" /\ Goto(t, "get")
    BY <1>12 DEF Take, stats, At
  <2>2. InHand(t) = 0 /\ InHand(t)' = 1
    BY <1>2, <2>1 DEF InHand, Labels, Busy
  <2>3. /\ Work'[t] = Work[t] + 1
        /\ \A u \in Threads : u # t => Work'[u] = Work[u]
    <3>1. "get" \in Labels
      BY DEF Labels, Busy
    <3>2. \A u \in Threads : u # t => InHand(u)' = InHand(u)
      BY <1>2, <2>1, <3>1
    <3> QED BY <1>1, <2>1, <2>2, <3>2
  <2>4. /\ Work \in Seq(Nat) /\ Len(Work) = T /\ Total(Work) \in Nat
        /\ Work' \in Seq(Nat) /\ Len(Work') = T /\ Total(Work') \in Nat
    <3>1. Work \in OfThreads /\ Work' \in OfThreads
      BY <1>1, WorkIs, WorkOfState
    <3> QED BY <3>1, OfThreadsIs
  <2>5. Total(Work') = Total(Work) + 1
    BY <2>3, <2>4, SumsOneMore DEF Threads
  <2>6. Total(Requests) \in Nat /\ Total(Requests') = Total(Requests) + 1
    BY <1>12, RequestsStep
  <2>7. Total(Work) <= Total(Requests)
    BY DEF WorkInv
  <2>8. Total(Work') <= Total(Requests')
    BY <2>4, <2>5, <2>6, <2>7
  <2> QED BY <2>8 DEF WorkInv, Total
<1> QED BY <1>5, <1>6, <1>7, <1>8, <1>9, <1>10, <1>11, <1>12, StatsMoves

\* The sums that Decide looks at are those EndReport leaves it with.
LEMMA DecideKeeps ==
  ASSUME PcOK, StatsTypes, NEW t \in Threads, Step(t), ~EndReport(t), pc'[1] = "decide"
  PROVE  pc[1] = "decide" /\ counter'[0] = counter[0]
<1>1. pc \in [Threads -> Labels] /\ 1 \in Threads
  BY Constants DEF PcOK, Threads
<1>2. ASSUME NEW l, l # "decide", Goto(t, l) PROVE pc[1] = "decide"
  BY <1>1, <1>2 DEF Goto
<1>3. CASE Quiet(t)
  BY <1>2, <1>3 DEF Quiet
<1>4. CASE Clears(t)
  BY <1>2, <1>4, ClearCounts DEF Clears
<1>5. CASE Take(t)
  BY <1>2, <1>5 DEF Take, stats
<1>6. CASE Tally(t)
  <2>1. Goto(t, "warm") \/ Goto(t, "report")
    BY <1>6 DEF Tally
  <2> QED BY <1>2, <1>6, <2>1, TallyCounts
<1>7. CASE StartReport(t)
  BY <1>2, <1>7 DEF StartReport, stats
<1>8. CASE ReadReport(t)
  <2>1. t = 1 /\ pc[t] = "read" /\ (Goto(t, "unlock") \/ Goto(t, "read"))
    BY <1>8 DEF ReadReport, At, StatsTypes, Reporting
  <2> QED BY <1>1, <2>1 DEF Goto
<1>9. CASE Decide(t)
  BY <1>2, <1>9 DEF Decide, stats
<1> QED BY <1>3, <1>4, <1>5, <1>6, <1>7, <1>8, <1>9, StatsMoves

\* A report that is complete has counted no more than was requested.
LEMMA ReportRequested ==
  ASSUME StatsTypes, ReportInv, WorkInv, PlaceInv, pc[1] = "unlock"
  PROVE  Count(counter[0]) <= Total(Requests)
<1>1. counter \in Columns /\ 0 \in Results /\ 1 \in Results /\ 2 \in Results
  BY DEF StatsTypes, Results
<1>2. ASSUME NEW r \in Results
      PROVE  /\ counter[0][r] \in Nat /\ Counts(r) \in OfThreads /\ Total(Counts(r)) \in Nat
             /\ counter[0][r] <= Total(Counts(r))
  <2>1. counter[0][r] \in Nat /\ Counts(r) \in OfThreads
    BY <1>1, ColumnIs, CountsOfColumn
  <2>2. counter[0][r] <= Total(Counts(r))
    BY DEF ReportInv, ReportNotOver, At
  <2> QED BY <2>1, <2>2, OfThreadsIs
<1>3. Work \in OfThreads /\ Total(Work) \in Nat
  BY <1>1, WorkIs, WorkOfState, OfThreadsIs
<1>4. ASSUME NEW t \in Threads
      PROVE  Counts(0)[t] + Counts(1)[t] + Counts(2)[t] <= Work[t]
  <2>1. Work[t] = Count(counter[t]) + InHand(t) /\ Count(counter[t]) \in Nat
    BY <1>1, WorkIs, WorkOfState
  <2>2. InHand(t) \in 0 .. 1
    BY DEF InHand
  <2>3. Counts(0)[t] + Counts(1)[t] + Counts(2)[t] = Count(counter[t])
    BY DEF Counts, Count
  <2> QED BY <2>1, <2>2, <2>3
<1>5. Total(Counts(0)) + Total(Counts(1)) + Total(Counts(2)) <= Total(Work)
  BY <1>1, <1>2, <1>3, <1>4, SumsOfThree
<1>6. Total(Requests) \in Nat /\ Total(Work) <= Total(Requests)
  <2>1. served \in [0 .. Length + T - 1 -> Nat] /\ Requests = RequestsOf(served)
    BY DEF PlaceInv, IndexOK, Requests, RequestsOf
  <2> QED BY <2>1, RequestsIs DEF WorkInv
<1> DEFINE a0 == counter[0][0]
           a1 == counter[0][1]
           a2 == counter[0][2]
           x0 == Total(Counts(0))
           x1 == Total(Counts(1))
           x2 == Total(Counts(2))
           w == Total(Work)
           z == Total(Requests)
<1>7. /\ a0 \in Nat /\ x0 \in Nat /\ a0 <= x0 /\ a1 \in Nat /\ x1 \in Nat /\ a1 <= x1
      /\ a2 \in Nat /\ x2 \in Nat /\ a2 <= x2 /\ w \in Nat /\ z \in Nat
      /\ x0 + x1 + x2 <= w /\ w <= z /\ Count(counter[0]) = a0 + a1 + a2
  BY <1>1, <1>2, <1>3, <1>5, <1>6 DEF Count
<1> HIDE DEF a0, a1, a2, x0, x1, x2, w, z
<1>8. Count(counter[0]) <= z
  BY <1>7
<1> QED BY <1>8 DEF z

LEMMA StopStep ==
  ASSUME PcOK, PlaceInv, PlaceInv', StatsInv, NEW t \in Threads, Step(t)
  PROVE  StopInv'
<1>1. StatsTypes /\ ReportInv /\ WorkInv /\ StopInv
  BY DEF StatsInv
<1> DEFINE y == Total(Requests)
           z == Total(Requests')
<1>2. y \in Nat /\ z \in Nat /\ y <= z
  <2>1. y \in Nat /\ z \in Nat /\ (z = y + 1 \/ z = y)
    <3>1. CASE Take(t)
      BY <3>1, RequestsStep
    <3>2. CASE ~Take(t)
      <4>1. served' = served
        BY <3>2, RequestsStep
      <4>2. Requests' = Requests
        BY <4>1 DEF Requests
      <4> QED BY <4>2, RequestsStep
    <3> QED BY <3>1, <3>2
  <2> HIDE DEF y, z
  <2> QED BY <2>1
<1>3. Count(counter[0]) \in Nat /\ earlyStop \in Nat /\ earlyStop' = earlyStop
  <2>1. counter[0] \in [Results -> Nat]
    <3>1. 0 \in 0 .. T
      BY Constants
    <3> QED BY <1>1, <3>1 DEF StatsTypes, Columns
  <2>2. counter[0][0] \in Nat /\ counter[0][1] \in Nat /\ counter[0][2] \in Nat
    BY <2>1 DEF Results
  <2>3. option \in [threadsSync : BOOLEAN, hasWarmup : BOOLEAN, earlyStop : Nat]
    BY BenchAssumption DEF PlaceInv, IndexOK
  <2> QED BY <2>2, <2>3 DEF Count, earlyStop, Step
<1>4. ASSUME pc'[1] = "decide" PROVE Count(counter'[0]) <= z
  <2>1. CASE EndReport(t)
    <3>1. pc[t] = "unlock" /\ counter' = counter
      BY <2>1 DEF EndReport, At, stats
    <3>2. t = 1
      BY <1>1, <3>1 DEF StatsTypes, Reporting
    <3>3. Count(counter[0]) <= y
      BY <1>1, <3>1, <3>2, ReportRequested
    <3> HIDE DEF y, z
    <3> QED BY <1>2, <1>3, <3>1, <3>3
  <2>2. CASE ~EndReport(t)
    <3>1. pc[1] = "decide" /\ counter'[0] = counter[0]
      BY <1>1, <1>4, <2>2, DecideKeeps
    <3>2. Count(counter[0]) <= y
      BY <1>1, <3>1 DEF StopInv
    <3> HIDE DEF y, z
    <3> QED BY <1>2, <1>3, <3>1, <3>2
  <2> QED BY <2>1, <2>2
<1>5. ASSUME test_finished' PROVE earlyStop < z
  <2>1. CASE test_finished
    <3>1. earlyStop < y
      BY <1>1, <2>1 DEF StopInv, StopHonest
    <3> HIDE DEF y, z
    <3> QED BY <1>2, <1>3, <3>1
  <2>2. CASE ~test_finished
    <3>1. Decide(t)
      BY <1>5, <2>2, StatsMoves
         DEF Quiet, Clears, Take, Tally, StartReport, ReadReport, EndReport, report
    <3>2. pc[t] = "decide" /\ Count(counter[0]) > earlyStop
      BY <1>5, <2>2, <3>1 DEF Decide, At
    <3>3. t = 1
      BY <1>1, <3>2 DEF StatsTypes
    <3>4. Count(counter[0]) <= y
      BY <1>1, <3>2, <3>3 DEF StopInv
    <3> HIDE DEF y, z
    <3> QED BY <1>2, <1>3, <3>2, <3>4
  <2> QED BY <2>1, <2>2
<1>6. (pc'[1] = "decide" => Count(counter'[0]) <= Total(Requests'))
      /\ (test_finished' => earlyStop' < Total(Requests'))
  BY <1>3, <1>4, <1>5
<1> QED BY <1>6 DEF StopInv, StopHonest, Count, Total

LEMMA StatsInit == Init => StatsInv
<1> SUFFICES ASSUME Init PROVE StatsInv
  OBVIOUS
<1>1. /\ T \in Nat \ {0} /\ Length \in Nat /\ 1 \in Threads /\ Threads = 1 .. T
      /\ 0 \in Results
  BY Constants DEF Threads, Results
<1>2. \A u \in Threads : pc[u] \in {"loop", "done"}
  BY DEF Init
<1>3. StatsTypes
  <2>1. rr \in [Threads -> Results] /\ counter \in Columns /\ place \in Nat
    BY <1>1 DEF Init, Columns
  <2> QED BY <1>2, <2>1 DEF StatsTypes, Reporting
<1>4. ReportInv
  BY <1>1, <1>2 DEF ReportInv, ReportNotOver, At
<1>5. StopInv
  BY <1>1, <1>2 DEF StopInv, StopHonest, Init
<1>6. WorkInv
  <2>1. Work \in OfThreads
    BY <1>3, WorkIs, WorkOfState DEF StatsTypes
  <2> DEFINE none == [u \in Threads |-> 0]
  <2>2. \A u \in Threads : Work[u] = 0
    <3> TAKE u \in Threads
    <3>1. counter[u] = [r \in Results |-> 0]
      BY <1>1 DEF Init
    <3>2. Count(counter[u]) = 0
      BY <3>1 DEF Count, Results
    <3>3. InHand(u) = 0
      BY <1>2 DEF InHand, Busy
    <3> QED BY <3>2, <3>3 DEF Work
  <2>3. Total(Work) = 0
    <3>1. Work \in Seq(Nat) /\ Len(Work) = T /\ Total(Work) = Sums(Work)[T]
      BY <2>1, OfThreadsIs
    <3> DEFINE s == Sums(Work)
               S == { n \in Nat : n <= T => s[n] = 0 }
    <3>2. s[0] = 0 /\ \A n \in 1 .. T : s[n] = s[n - 1] + Work[n]
      BY <3>1, SumsIs
    <3> HIDE DEF s
    <3>3. 0 \in S
      BY <3>2
    <3>4. ASSUME NEW n \in Nat, n \in S PROVE n + 1 \in S
      <4> SUFFICES ASSUME n + 1 <= T PROVE s[n + 1] = 0
        OBVIOUS
      <4>1. n + 1 \in 1 .. T /\ (n + 1) - 1 = n /\ s[n] = 0
        BY <1>1, <3>4
      <4>2. s[n + 1] = s[n] + Work[n + 1] /\ Work[n + 1] = 0
        BY <1>1, <2>2, <3>2, <4>1
      <4> QED BY <4>1, <4>2
    <3>5. \A n \in Nat : n \in S => n + 1 \in S
      BY <3>4
    <3>6. Nat \subseteq S
      <4> HIDE DEF S
      <4> QED BY <3>3, <3>5, AllNaturals
    <3> QED BY <1>1, <3>1, <3>6 DEF s
  <2>4. Total(Requests) \in Nat
    <3>1. served \in [0 .. Length + T - 1 -> Nat] /\ Requests = RequestsOf(served)
      BY DEF Init, Requests, RequestsOf
    <3> QED BY <3>1, RequestsIs
  <2> QED BY <2>3, <2>4 DEF WorkInv
<1> QED BY <1>3, <1>4, <1>5, <1>6 DEF StatsInv

LEMMA StatsNext == PcOK /\ PlaceInv /\ StatsInv /\ [Next]_vars => StatsInv'
<1> SUFFICES ASSUME PcOK, PlaceInv, StatsInv, [Next]_vars PROVE StatsInv'
  OBVIOUS
<1>1. PlaceInv'
  BY PlaceNext
<1>2. ASSUME NEW t \in Threads, Step(t) PROVE StatsInv'
  <2>1. StatsTypes /\ ReportInv /\ WorkInv
    BY DEF StatsInv
  <2>2. StatsTypes'
    BY <1>2, <2>1, TypesStep
  <2>3. ReportInv'
    BY <1>2, <2>1, <2>2, ReportStep
  <2>4. WorkInv'
    BY <1>1, <1>2, <2>1, <2>2, WorkStep
  <2>5. StopInv'
    BY <1>1, <1>2, StopStep
  <2> QED BY <2>2, <2>3, <2>4, <2>5 DEF StatsInv
<1>3. ASSUME UNCHANGED <<option, pc, rr, counter, place, stats_mutex, served, test_finished>>
      PROVE  StatsInv'
  <2>1. StatsTypes' <=> StatsTypes
    BY <1>3 DEF StatsTypes
  <2>2. \A r : Counts(r)' = Counts(r)
    BY <1>3 DEF Counts
  <2>3. ReportNotOver' <=> ReportNotOver
    BY <1>3, <2>2 DEF ReportNotOver, At, Total
  <2>4. ReportInv' <=> ReportInv
    <3>1. \A k, j : ReadSoFar(k, j)' <=> ReadSoFar(k, j)
      BY <1>3, <2>2 DEF ReadSoFar, Total
    <3> QED BY <1>3, <2>3, <3>1 DEF ReportInv
  <2>5. Work' = Work /\ Requests' = Requests /\ earlyStop' = earlyStop
    BY <1>3 DEF Work, InHand, Requests, earlyStop
  <2>6. WorkInv' <=> WorkInv
    BY <2>5 DEF WorkInv, Total
  <2>7. StopInv' <=> StopInv
    BY <1>3, <2>5 DEF StopInv, StopHonest, Total
  <2> QED BY <2>1, <2>4, <2>6, <2>7 DEF StatsInv
<1>4. ASSUME NEW k \in Keys, Forget(k) PROVE StatsInv'
  BY <1>3, <1>4 DEF Forget, request, report, stats
<1>5. UNCHANGED vars => StatsInv'
  BY <1>3 DEF vars, request, report, stats
<1> QED BY <1>2, <1>4, <1>5 DEF Next, Joined

LEMMA StatsInvariance == Spec => []StatsInv
BY PcInit, PcNext, PlaceInit, PlaceNext, StatsInit, StatsNext, PTL DEF Spec

\* The sums of a report are those of counters that only grew since they were
\* read: stats_mutex keeps every reset out of it (bench.cpp:228-242, 252-305).
THEOREM ReportNotOverHolds == Spec => []ReportNotOver
<1>1. StatsInv => ReportNotOver
  BY DEF StatsInv, ReportInv
<1> QED BY <1>1, StatsInvariance, PTL

\* An early stop comes after more requests than the option asks for, though
\* the sum it is decided by is read while the others count (bench.cpp:306).
THEOREM StopHonestHolds == Spec => []StopHonest
<1>1. StatsInv => StopHonest
  BY DEF StatsInv, StopInv
<1> QED BY <1>1, StatsInvariance, PTL

=============================================================================
