------------------------------- MODULE Bench -------------------------------
(***************************************************************************)
(* The web application benchmark (src/bench.cpp): threads 1 .. T replay a  *)
(* trace against a cache-aside store, memcached in front of RocksDB.  With *)
(* --sync-threads they share one index of the trace, otherwise thread t    *)
(* takes the places t, t + T, t + 2T, ...  Each thread keeps counters, which *)
(* it resets once it is warmed up; thread 1 adds up the counters of all of *)
(* them, as they are being incremented, into slot 0 and may stop the test. *)
(*                                                                         *)
(* A critical section of i_mutex or stats_mutex is one step, but for the   *)
(* report, whose reads interleave with the increments of the others.       *)
(***************************************************************************)
EXTENDS Integers, Sequences, FiniteSets, FiniteSetsExt

CONSTANTS
  T,               \* threadNum
  Keys,
  access_list,     \* the trace, from place 0
  Options,         \* the combinations of options main may be given
  warmup_access, report_interval,
  Sizes            \* the lengths rand() may give a new value

Threads == 1 .. T
Length == Cardinality(DOMAIN access_list)

\* A report interval shorter than the number of threads divides by zero.
ASSUME BenchAssumption ==
  /\ T \in Nat \ {0}
  /\ Length \in Nat /\ access_list \in [0 .. Length - 1 -> Keys]
  /\ Options \subseteq [threadsSync : BOOLEAN, hasWarmup : BOOLEAN,
                         earlyStop : Nat]
  /\ {warmup_access, report_interval} \subseteq Nat
  /\ report_interval \div T > 0
  /\ Sizes \subseteq Nat \ {0} /\ Sizes # {}

Results == 0 .. 2      \* in_memcached, in_rocksdb, not_found
Absent == 0
NoKey == CHOOSE k \in Keys : TRUE

VARIABLES
  option,        \* the options in force, which never change
  started,       \* the threads memcached() gives a client; the others return
  pc,
  i,             \* i, or now_i of a shared index: the place being requested
  key, value, rr, \* the request in hand: its key, its value and its result
  global_i,
  mem, db,       \* memcached and RocksDB: the value of each key, or Absent
  refused,       \* history: the values of keys that RocksDB did not take
  counter, memc_counter,        \* slot 0 is the report's
  warming_up, warming_up_counter,
  stats_mutex,   \* the thread that holds it, or 0
  place,         \* the next read of the report
  test_finished,
  served         \* history: how often each place was requested

request == <<i, key, value, rr>>
stats == <<counter, memc_counter, warming_up, warming_up_counter>>
report == <<stats_mutex, place, test_finished>>
rocksdb == <<db, refused>>
vars == <<option, started, pc, request, global_i, mem, rocksdb, stats, report,
          served>>

threadsSync == option.threadsSync
hasWarmup == option.hasWarmup
earlyStop == option.earlyStop  \* 0: none

Init ==
  /\ option \in Options
  /\ started \in SUBSET Threads
  /\ pc = [t \in Threads |-> IF t \in started THEN "loop" ELSE "done"]
  /\ i = [t \in Threads |-> t]
  /\ key = [t \in Threads |-> NoKey]
  /\ value = [t \in Threads |-> Absent]
  /\ rr = [t \in Threads |-> 0]
  /\ global_i = 0
  /\ mem = [k \in Keys |-> Absent]
  /\ db \in [Keys -> Sizes \cup {Absent}] /\ refused = {}
  /\ counter = [t \in 0 .. T |-> [r \in Results |-> 0]]
  /\ memc_counter = [t \in 0 .. Max({T, 2}) |-> 0]
  /\ warming_up = [t \in Threads |-> FALSE]
  /\ warming_up_counter = 0
  /\ stats_mutex = 0 /\ place = 0 /\ test_finished = FALSE
  /\ served = [p \in 0 .. Length + T - 1 |-> 0]

\* c[1] + ... + c[m], for each m, and the whole sum
Sums(c) ==
  LET sum[m \in 0 .. Len(c)] == IF m = 0 THEN 0 ELSE sum[m - 1] + c[m]
  IN sum
Total(c) == Sums(c)[Len(c)]

At(t, l) == pc[t] = l
Goto(t, l) == pc' = [pc EXCEPT ![t] = l]

Count(c) == c[0] + c[1] + c[2]

-----------------------------------------------------------------------------
(* subprocess_work: the next place of the trace *)

\* mutant: the loop ends one place late
LoopLate(t) ==
  /\ At(t, "loop")
  /\ Goto(t, IF (IF threadsSync THEN global_i ELSE i[t]) <= Length
             THEN "take" ELSE "drain")
  /\ UNCHANGED <<request, global_i, mem, rocksdb, stats, report, served>>

\* mutant: the end of the trace waits for the early stop
LoopWaits(t) ==
  /\ At(t, "loop")
  /\ Goto(t, IF (IF threadsSync THEN global_i ELSE i[t]) < Length
             THEN "take" ELSE IF earlyStop = 0 \/ test_finished
             THEN "drain" ELSE "loop")
  /\ UNCHANGED <<request, global_i, mem, rocksdb, stats, report, served>>

\* The condition of the loop reads global_i without i_mutex.
Loop(t) ==
  /\ At(t, "loop")
  /\ Goto(t, IF (IF threadsSync THEN global_i ELSE i[t]) < Length
             THEN "take" ELSE "drain")
  /\ UNCHANGED <<request, global_i, mem, rocksdb, stats, report, served>>

\* What the vector yields at a place: past its end, whatever is there.
Fetched(p) == IF p < Length THEN {access_list[p]} ELSE Keys

\* mutant: the shared index stays on the last place
TakeClamped(t) ==
  LET p == IF threadsSync THEN global_i ELSE i[t]
  IN /\ At(t, "take")
     /\ \E k \in Fetched(p) : key' = [key EXCEPT ![t] = k]
     /\ i' = [i EXCEPT ![t] = p]
     /\ global_i' = IF threadsSync THEN Min({global_i + 1, Length - 1})
                    ELSE global_i
     /\ served' = [served EXCEPT ![p] = @ + 1]
     /\ Goto(t, "get")
     /\ UNCHANGED <<value, rr, mem, rocksdb, stats, report>>

\* The shared index is taken and incremented under i_mutex.
Take(t) ==
  LET p == IF threadsSync THEN global_i ELSE i[t]
  IN /\ At(t, "take")
     /\ \E k \in Fetched(p) : key' = [key EXCEPT ![t] = k]
     /\ i' = [i EXCEPT ![t] = p]
     /\ global_i' = IF threadsSync THEN global_i + 1 ELSE global_i
     /\ served' = [served EXCEPT ![p] = @ + 1]
     /\ Goto(t, "get")
     /\ UNCHANGED <<value, rr, mem, rocksdb, stats, report>>

-----------------------------------------------------------------------------
(* do_request_item: cache-aside *)

CallMemcached(t) == memc_counter' = [memc_counter EXCEPT ![t] = @ + 1]

Answer(t, r) == rr' = [rr EXCEPT ![t] = r]

\* memcached may fail to answer, which reads as a key it does not have.
Get(t) ==
  /\ At(t, "get")
  /\ CallMemcached(t)
  /\ \/ mem[key[t]] # Absent /\ Answer(t, 0) /\ Goto(t, "tally")
     \/ UNCHANGED rr /\ Goto(t, "find")
  /\ UNCHANGED <<i, key, value, global_i, mem, rocksdb, counter, warming_up,
                 warming_up_counter, report, served>>

\* mutant: a new value goes to memcached and not to RocksDB
FindNoPut(t) ==
  /\ At(t, "find")
  /\ Goto(t, "fill")
  /\ \/ /\ db[key[t]] # Absent
        /\ value' = [value EXCEPT ![t] = db[key[t]]]
        /\ Answer(t, 1)
     \/ /\ \E v \in Sizes : value' = [value EXCEPT ![t] = v]
        /\ Answer(t, 2)
  /\ UNCHANGED <<i, key, global_i, mem, rocksdb, stats, report, served>>

\* A new value is made for a key RocksDB does not have, or fails to read.
Find(t) ==
  /\ At(t, "find")
  /\ \/ /\ db[key[t]] # Absent
        /\ value' = [value EXCEPT ![t] = db[key[t]]]
        /\ Answer(t, 1)
        /\ Goto(t, "fill")
     \/ /\ \E v \in Sizes : value' = [value EXCEPT ![t] = v]
        /\ Answer(t, 2)
        /\ Goto(t, "put")
  /\ UNCHANGED <<i, key, global_i, mem, rocksdb, stats, report, served>>

\* RocksDB before memcached.  RocksDB may refuse the value; nothing looks at
\* its answer, and memcached is given the value all the same.
Save(t) ==
  /\ At(t, "put")
  /\ \/ db' = [db EXCEPT ![key[t]] = value[t]] /\ UNCHANGED refused
     \/ refused' = refused \cup {<<key[t], value[t]>>} /\ UNCHANGED db
  /\ Goto(t, "fill")
  /\ UNCHANGED <<request, global_i, mem, stats, report, served>>

\* memcached may refuse a value; nothing looks at its answer.
Fill(t) ==
  /\ At(t, "fill")
  /\ CallMemcached(t)
  /\ mem' \in {mem, [mem EXCEPT ![key[t]] = value[t]]}
  /\ Goto(t, "tally")
  /\ UNCHANGED <<request, global_i, rocksdb, counter, warming_up,
                 warming_up_counter, report, served>>

\* memcached makes room.
Forget(k) ==
  /\ mem[k] # Absent
  /\ mem' = [mem EXCEPT ![k] = Absent]
  /\ UNCHANGED <<option, started, pc, request, global_i, rocksdb, stats, report,
                 served>>

-----------------------------------------------------------------------------
(* subprocess_work: counters, warm-up and report *)

\* The locals of request_item are gone when it returns.
Forgotten(t) ==
  /\ key' = [key EXCEPT ![t] = NoKey]
  /\ value' = [value EXCEPT ![t] = Absent]
  /\ rr' = [rr EXCEPT ![t] = 0]

\* mutant: a private index moves by one too many
TallyByMore(t) ==
  LET c == [counter[t] EXCEPT ![rr[t]] = @ + 1]
  IN /\ At(t, "tally")
     /\ counter' = [counter EXCEPT ![t] = c]
     /\ i' = IF threadsSync THEN i ELSE [i EXCEPT ![t] = @ + T + 1]
     /\ Forgotten(t)
     /\ Goto(t, "report")
     /\ UNCHANGED <<global_i, mem, rocksdb, memc_counter, warming_up,
                    warming_up_counter, report, served>>

\* request_item counts the result; then a private index moves on.
Tally(t) ==
  LET c == [counter[t] EXCEPT ![rr[t]] = @ + 1]
  IN /\ At(t, "tally")
     /\ counter' = [counter EXCEPT ![t] = c]
     /\ i' = IF threadsSync THEN i ELSE [i EXCEPT ![t] = @ + T]
     /\ Forgotten(t)
     /\ Goto(t, IF hasWarmup /\ ~warming_up[t]
                              /\ Count(c) >= warmup_access \div T
                THEN "warm" ELSE "report")
     /\ UNCHANGED <<global_i, mem, rocksdb, memc_counter, warming_up,
                    warming_up_counter, report, served>>

\* What a thread does to its own slots when it is warmed up
ClearCounter(t) == counter' = [counter EXCEPT ![t] = [r \in Results |-> 0]]
MarkWarm(t) ==
  /\ warming_up' = [warming_up EXCEPT ![t] = TRUE]
  /\ warming_up_counter' = warming_up_counter + 1

\* mutant: a thread clears its counters without stats_mutex
WarmUnlocked(t) ==
  /\ At(t, "warm")
  /\ ClearCounter(t) /\ MarkWarm(t)
  /\ memc_counter' = [memc_counter EXCEPT ![t] = 0]
  /\ Goto(t, "report")
  /\ UNCHANGED <<request, global_i, mem, rocksdb, report, served>>

Warm(t) ==
  /\ At(t, "warm")
  /\ stats_mutex = 0
  /\ ClearCounter(t) /\ MarkWarm(t)
  /\ memc_counter' = [memc_counter EXCEPT ![t] = 0]
  /\ Goto(t, "report")
  /\ UNCHANGED <<request, global_i, mem, rocksdb, report, served>>

\* Thread 1 reports whenever its own count comes round.
ReportDue(t) == t = 1 /\ Count(counter[t]) % (report_interval \div T) = 0

SkipReport(t) ==
  /\ At(t, "report") /\ ~ReportDue(t)
  /\ Goto(t, "stop")
  /\ UNCHANGED <<request, global_i, mem, rocksdb, stats, report, served>>

StartReport(t) ==
  /\ At(t, "report") /\ ReportDue(t)
  /\ stats_mutex = 0
  /\ stats_mutex' = t /\ place' = 0
  /\ Goto(t, "read")
  /\ UNCHANGED <<request, global_i, mem, rocksdb, stats, test_finished, served>>

\* mutant: slot 0 goes on from the last report
ReadReportNoRestart(t) ==
  LET k == place \div T
      j == (place % T) + 1
  IN /\ At(t, "read")
     /\ counter' = [counter EXCEPT ![0][k] = @ + counter[j][k]]
     /\ memc_counter' = [memc_counter EXCEPT ![0] = @ + memc_counter[j]]
     /\ place' = place + 1
     /\ Goto(t, IF place + 1 = 3 * T THEN "unlock" ELSE "read")
     /\ UNCHANGED <<request, global_i, mem, rocksdb, warming_up,
                    warming_up_counter, stats_mutex, test_finished, served>>

\* One read of the report: the counter of thread j for result k, and its
\* memc_counter.  Slot 0 restarts with each result.
ReadReport(t) ==
  LET k == place \div T
      j == (place % T) + 1
      c == IF j = 1 THEN 0 ELSE counter[0][k]
      m == IF j = 1 THEN 0 ELSE memc_counter[0]
  IN /\ At(t, "read")
     /\ counter' = [counter EXCEPT ![0][k] = c + counter[j][k]]
     /\ memc_counter' = [memc_counter EXCEPT ![0] = m + memc_counter[j]]
     /\ place' = place + 1
     /\ Goto(t, IF place + 1 = 3 * T THEN "unlock" ELSE "read")
     /\ UNCHANGED <<request, global_i, mem, rocksdb, warming_up,
                    warming_up_counter, stats_mutex, test_finished, served>>

EndReport(t) ==
  /\ At(t, "unlock")
  /\ stats_mutex' = 0
  /\ Goto(t, "decide")
  /\ UNCHANGED <<request, global_i, mem, rocksdb, stats, place, test_finished,
                 served>>

\* tot_counter is the sum the report just computed in slot 0.
Decide(t) ==
  /\ At(t, "decide")
  /\ test_finished' = (test_finished \/
                         (earlyStop # 0 /\ Count(counter[0]) > earlyStop))
  /\ Goto(t, "stop")
  /\ UNCHANGED <<request, global_i, mem, rocksdb, stats, stats_mutex, place,
                 served>>

Stop(t) ==
  /\ At(t, "stop")
  /\ Goto(t, IF test_finished /\ earlyStop # 0 THEN "done" ELSE "loop")
  /\ UNCHANGED <<request, global_i, mem, rocksdb, stats, report, served>>

\* mutant: the end of the trace warms up every thread again
DrainAgain(t) ==
  LET m == memc_counter
  IN /\ At(t, "drain")
     /\ IF hasWarmup
        THEN /\ stats_mutex = 0
             /\ ClearCounter(t) /\ MarkWarm(t)
             /\ memc_counter' = [m EXCEPT ![0] = 2 * m[0] + m[1] + m[2]]
        ELSE UNCHANGED stats
     /\ Goto(t, "done")
     /\ UNCHANGED <<request, global_i, mem, rocksdb, report, served>>

\* The end of a trace too small to warm the thread up.  The loop over the
\* three results adds memc_counter[0..2] into slot 0.
Drain(t) ==
  LET m == memc_counter
  IN /\ At(t, "drain")
     /\ IF hasWarmup /\ ~warming_up[t]
        THEN /\ stats_mutex = 0
             /\ ClearCounter(t) /\ MarkWarm(t)
             /\ memc_counter' = [m EXCEPT ![0] = 2 * m[0] + m[1] + m[2]]
        ELSE UNCHANGED stats
     /\ Goto(t, "done")
     /\ UNCHANGED <<request, global_i, mem, rocksdb, report, served>>

-----------------------------------------------------------------------------
Step(t) ==
  /\ UNCHANGED <<option, started>>
  /\ \/ Loop(t) \/ Take(t) \/ Get(t) \/ Find(t) \/ Save(t) \/ Fill(t)
     \/ Tally(t) \/ Warm(t) \/ SkipReport(t) \/ StartReport(t)
     \/ ReadReport(t) \/ EndReport(t) \/ Decide(t) \/ Stop(t) \/ Drain(t)

AllDone == \A t \in Threads : At(t, "done")

\* main has joined every thread.
Joined == AllDone /\ UNCHANGED vars

Next == (\E t \in Threads : Step(t)) \/ (\E k \in Keys : Forget(k)) \/ Joined

\* The operating system runs every thread that is not waiting for a mutex;
\* a thread that waits gets a mutex that stays free.
Spec == Init /\ [][Next]_vars /\ \A t \in Threads : WF_vars(Step(t))

-----------------------------------------------------------------------------
(* Safety *)

\* No place of the trace is requested twice, by the same thread or another.
RequestedOnce == \A p \in DOMAIN served : served[p] <= 1

\* When the threads leave without an early stop, every place of the trace has
\* been requested once: by whoever came first, if any thread had a client, or,
\* with an index each, by the thread it belongs to, if that one had.  Private
\* indices start at the thread's number: place 0 belongs to nobody.
Belongs(p, t) == p >= t /\ p % T = t % T
WholeTrace ==
  AllDone /\ ~test_finished =>
    \A p \in DOMAIN access_list :
      served[p] = IF \E t \in started : threadsSync \/ Belongs(p, t)
                  THEN 1 ELSE 0

\* bench.cpp:209: a thread requests a place only while the trace has one.
\* Between that test and i_mutex, another thread may take the last place.
InTrace == \A p \in DOMAIN served : p >= Length => served[p] = 0

\* The index overshoots the trace by less than the number of threads, and
\* not at all when each has its own.
OvershootBounded ==
  /\ global_i <= Length + T - 1
  /\ ~threadsSync => InTrace

\* warming_up_counter, which tells whether a report is one of the warm-up,
\* is the number of threads that are warmed up: none is counted twice.
WarmCounted ==
  warming_up_counter = Cardinality({ t \in Threads : warming_up[t] })

\* The sums of a report, read while the other threads count, never exceed
\* what they have counted by the time it ends: no reset of theirs falls into
\* the middle of it.
Counts(r) == [t \in Threads |-> counter[t][r]]
ReportNotOver ==
  At(1, "unlock") => \A r \in Results : counter[0][r] <= Total(Counts(r))

\* The test is stopped early only after that many requests were made, and
\* only thread 1 stops it.
Requests == [p \in 1 .. Length + T |-> served[p - 1]]
StopHonest == test_finished => earlyStop < Total(Requests)

\* What memcached has would be lost if it forgot it only when RocksDB refused
\* that very value (bench.cpp:168): for any other key in memcached, RocksDB has
\* one too, whatever the reads and writes that failed.
CacheBacked ==
  \A k \in Keys :
    mem[k] # Absent => db[k] # Absent \/ <<k, mem[k]>> \in refused

\* bench.cpp:327: all threads warmed up, the statistics are clean: whoever
\* was marked at the end of the trace has no count left.
DrainedClean ==
  AllDone /\ warming_up_counter = T =>
    \A t \in Threads : Count(counter[t]) = 0 => memc_counter[t] = 0

-----------------------------------------------------------------------------
(* Liveness *)

\* Every thread leaves, whatever the others and memcached do: main joins.
Terminates == <>AllDone

============================================================================
