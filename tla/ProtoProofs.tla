---------------------------- MODULE ProtoProofs ----------------------------
(***************************************************************************)
(* The trace simulator, proved: the trace it replays is the one requested; *)
(* LRU, LFU, SRRIP, DRRIP, LRFU, EFSW and LIRS stay sound, remember what   *)
(* happened and evict on demand only; and OPT has at least their hits.     *)
(* All of it is for every trace, buffer and value of the parameters.       *)
(***************************************************************************)
EXTENDS Proto, StructureLemmas

\* The policies the theorems are about
Proved == {"LRU", "LFU", "SRRIP", "DRRIP", "LRFU", "EFSW", "LIRS"}

\* What the provers are to see of the constants
LEMMA ConstantsAre ==
  /\ Keys \subseteq Int /\ IsFiniteSet(Keys)
  /\ m \in Nat /\ m - 2 \in Nat
<1>1. Keys \subseteq Int /\ IsFiniteSet(Keys)
  BY ProtoAssumption
<1>2. m \in Nat \ {0, 1}
  BY ProtoAssumption
<1>3. m - 2 \in Nat
  BY <1>2
<1> QED BY <1>1, <1>2, <1>3

LEMMA KeysAreFinite == IsFiniteSet(Keys)
BY ConstantsAre

\* A raw trace becomes a file of runs, whose blocks are among Keys.
LEMMA FileType ==
  ASSUME NEW t \in RawTraces
  PROVE  /\ t.requests \in Seq(Nat \X Nat)
         /\ Processed(t) \in Seq(Runs)
         /\ get_access_list(Processed(t)) \in Seq(Keys)
         /\ Len(get_access_list(Processed(t))) <= Length
<1>1. t.requests \in Seq(Nat \X Nat) /\ t.script \in {"msr", "blkparse"}
  BY ProtoAssumption
<1>2. process_msr(t.requests) \in Seq(Runs)
  <2>1. PICK g \in [0 .. Len(t.requests) -> RunStates] :
          process_msr(t.requests) = Flushed(g[Len(t.requests)])
    BY <1>1, msr_path
  <2>2. Len(t.requests) \in 0 .. Len(t.requests)
    BY <1>1
  <2> QED BY <2>1, <2>2, FlushedIs
<1>3. process_blkparse(t.requests) \in Seq(Runs)
  <2>1. PICK g \in [0 .. Len(t.requests) -> RunStates] :
          process_blkparse(t.requests) = Flushed(g[Len(t.requests)])
    BY <1>1, blkparse_path
  <2>2. Len(t.requests) \in 0 .. Len(t.requests)
    BY <1>1
  <2> QED BY <2>1, <2>2, FlushedIs
<1>4. Processed(t) \in Seq(Runs)
  BY <1>1, <1>2, <1>3 DEF Processed
<1> DEFINE b == get_access_list(Processed(t))
<1>5. b \in Seq(Int) /\ ToSet(b) \subseteq Keys /\ Len(b) <= Length
  BY <1>4, ReadType, TraceAssumption
<1> HIDE DEF b
<1>6. b \in Seq(Keys)
  BY <1>5 DEF ToSet
<1> QED BY <1>1, <1>4, <1>5, <1>6 DEF b

\* What every policy has around it
Running ==
  /\ cache_policy \in Policies /\ buffer_param \in Params /\ raw \in RawTraces
  /\ trace_file = Processed(raw)
  /\ buffer_size_ \in Nat /\ ts \in Nat
  /\ hit_count_ \in Nat /\ miss_count_ \in Nat
  /\ opt_hit_count \in Nat /\ opt_miss_count \in Nat
  /\ loaded \in [Keys -> Nat]
  /\ Made => access_list = get_access_list(trace_file) /\ ts <= Len(access_list)
  /\ ~Made => /\ ts = 0 /\ hit_count_ = 0 /\ opt_hit_count = 0
              /\ loaded = [k \in Keys |-> 0]

LEMMA BufferSize ==
  ASSUME Running
  PROVE  buffer_size \in Nat \ {0}
<1> DEFINE num == buffer_param[1]
           den == buffer_param[2]
           u == Cardinality(UniqueKeys(trace_file))
<1>1. num \in Nat \ {0} /\ den \in Nat \ {0}
  BY ProtoAssumption DEF Running
<1>2. u \in Nat
  <2>1. trace_file \in Seq(Runs)
    BY FileType DEF Running
  <2> QED BY <2>1, UniqueKeysFinite, FS_CardinalityType
<1>3. buffer_size = IF num > den THEN num \div den
                    ELSE Max({1, (num * u) \div den})
  BY DEF buffer_size
<1> HIDE DEF num, den, u
<1>4. CASE num > den
  <2>1. num \div den \in Nat /\ num \div den >= 1
    BY <1>1, <1>4, DivType, DivAtLeast
  <2> QED BY <1>3, <1>4, <2>1
<1>5. CASE ~(num > den)
  <2>1. num * u \in Nat
    BY <1>1, <1>2
  <2>2. (num * u) \div den \in Nat
    BY <1>1, <2>1, DivType
  <2> QED BY <1>3, <1>5, <2>2, MaxOfOne
<1> QED BY <1>4, <1>5

\* The blocks the program has read
LEMMA AccessList ==
  ASSUME Running, Made
  PROVE  /\ access_list \in Seq(Keys) /\ Len(access_list) <= Length
         /\ Len(access_list) \in Nat
         /\ \A i \in 1 .. Len(access_list) : access_list[i] \in Keys
<1>1. access_list \in Seq(Keys) /\ Len(access_list) <= Length
  BY FileType DEF Running
<1> QED BY <1>1

LEMMA RunningInit == Init => Running
<1> SUFFICES ASSUME Init PROVE Running
  OBVIOUS
<1> QED BY DEF Init, Running, Made

\* Whatever the policy, an access counts a hit or a miss.
LEMMA AccessCounts ==
  ASSUME hit_count_ \in Nat, miss_count_ \in Nat, NEW key, Access(key)
  PROVE  \/ hit_count_' = hit_count_ + 1 /\ miss_count_' = miss_count_
         \/ hit_count_' = hit_count_ /\ miss_count_' = miss_count_ + 1
<1> USE DEF Access, LRU!CountHit, LRU!CountMiss, LFU!CountHit, LFU!CountMiss,
            SRRIP!CountHit, SRRIP!CountMiss, DRRIP!CountHit, DRRIP!CountMiss,
            LRFU!CountHit, LRFU!CountMiss, EFSW!CountHit, EFSW!CountMiss,
            LIRS!CountHit, LIRS!CountMiss, DLIRS!CountHit, DLIRS!CountMiss,
            CACHEUS!CountHit, CACHEUS!CountMiss
<1>1. CASE LRU!access(key)
  BY <1>1 DEF LRU!access, LRU!Hit, LRU!Miss
<1>2. CASE LFU!access(key)
  BY <1>2 DEF LFU!access, LFU!Hit, LFU!Miss
<1>3. CASE SRRIP!access(key)
  BY <1>3 DEF SRRIP!access, SRRIP!Hit, SRRIP!MissAt
<1>4. CASE DRRIP!dynamic_access(key)
  BY <1>4 DEF DRRIP!dynamic_access, DRRIP!Hit, DRRIP!MissAt
<1>5. CASE LRFU!access(key)
  BY <1>5 DEF LRFU!access, LRFU!Hit, LRFU!Miss
<1>6. CASE EFSW!access(key)
  BY <1>6 DEF EFSW!access, EFSW!Hit, EFSW!Miss
<1>7. CASE LIRS!access(key)
  BY <1>7 DEF LIRS!access, LIRS!HitLIR, LIRS!HitHIRInStack, LIRS!HitHIR,
              LIRS!MissNHIRInStack, LIRS!MissNHIR, LIRS!MissNew
<1>8. CASE DLIRS!access(key)
  BY <1>8 DEF DLIRS!access, DLIRS!hitLIR, DLIRS!hitHIRinLIRS,
              DLIRS!hitHIRinQ, DLIRS!Miss
<1>9. CASE CACHEUS!access(key)
  BY <1>9 DEF CACHEUS!access, CACHEUS!HitInS, CACHEUS!HitInQ,
              CACHEUS!HitInLRUHist, CACHEUS!HitInLFUHist, CACHEUS!Miss
<1> QED BY <1>1, <1>2, <1>3, <1>4, <1>5, <1>6, <1>7, <1>8, <1>9

LEMMA RunningNext ==
  ASSUME Running, [Next]_vars
  PROVE  Running'
<1>1. CASE Make
  <2>1. buffer_size \in Nat \ {0}
    BY BufferSize
  <2>2. ts = 0 /\ ~Made /\ Made'
    BY <1>1, <2>1 DEF Make, Made, Running
  <2>3. Len(get_access_list(trace_file)) \in Nat
    BY FileType DEF Running
  <2> QED BY <1>1, <2>1, <2>2, <2>3 DEF Make, Running, asked
<1>2. CASE check_get
  <2> DEFINE key == access_list[ts + 1]
  <2>1. Made /\ ts < Len(access_list) /\ ts' = ts + 1
        /\ Access(key) /\ OPT!access(key)
        /\ UNCHANGED <<asked, access_list, buffer_size_>>
        /\ loaded' = IF miss_count_' = miss_count_ THEN loaded
                     ELSE [loaded EXCEPT ![key] = ts + 1]
    BY <1>2 DEF check_get
  <2> HIDE DEF key
  <2>2. hit_count_' \in Nat /\ miss_count_' \in Nat
    BY <2>1, AccessCounts DEF Running
  <2>3. opt_hit_count' \in Nat /\ opt_miss_count' \in Nat
    BY <2>1 DEF OPT!access, OPT!Hit, OPT!Miss, OPT!CountHit, OPT!CountMiss,
                Running
  <2>4. Len(access_list) \in Nat
    BY <2>1, AccessList
  <2>5. loaded' \in [Keys -> Nat]
    <3>1. loaded \in [Keys -> Nat] /\ ts + 1 \in Nat
      BY DEF Running
    <3>2. [loaded EXCEPT ![key] = ts + 1] \in [Keys -> Nat]
      BY <3>1
    <3> QED BY <2>1, <3>1, <3>2
  <2>6. Made'
    BY <2>1 DEF Made
  <2> QED BY <2>1, <2>2, <2>3, <2>4, <2>5, <2>6 DEF Running, asked
<1>3. CASE UNCHANGED vars
  BY <1>3 DEF vars, asked, Running, Made
<1> QED BY <1>1, <1>2, <1>3 DEF Next

\* The trace is read and the sizes are what they should be, throughout.
LEMMA RunningAlways == Spec => []Running
<1> QED BY RunningInit, RunningNext, PTL DEF Spec

LEMMA TraceKeptIs ==
  ASSUME Running
  PROVE  TraceKept
<1> DEFINE N == Len(raw.requests)
           Kept == /\ (\A n \in 2 .. N : ~ Restarts(n)) =>
                        access_list = Blocks(<<-1, Len(Requested)>>)
                   /\ \A n \in 2 .. N :
                        Restarts(n) /\ (\A h \in 2 .. n - 1 : ~ Restarts(h)) =>
                          Requested = Preceding(n) \o access_list
<1> SUFFICES ASSUME Made
             PROVE  /\ raw.script = "msr" => access_list = Requested
                    /\ raw.script = "blkparse" /\ (\A i \in DOMAIN raw.requests :
                                                      raw.requests[i][2] > 0) => Kept
  BY Zenon DEF TraceKept
<1>1. access_list = get_access_list(Processed(raw))
  BY DEF Running
<1>2. raw.requests \in Seq(Nat \X Nat)
  BY FileType DEF Running
<1>3. ASSUME raw.script = "msr" PROVE access_list = Requested
  BY <1>1, <1>2, <1>3, msr_keeps DEF Processed, Requested
<1>4. ASSUME raw.script = "blkparse",
             \A i \in DOMAIN raw.requests : raw.requests[i][2] > 0
      PROVE  Kept
  <2>1. access_list = get_access_list(process_blkparse(raw.requests))
    BY <1>1, <1>4 DEF Processed
  <2>2. \A n : /\ Preceding(n) = Prefix(raw.requests, n - 1)
               /\ Restarts(n) <=> Away(raw.requests, n)
    BY Zenon DEF Preceding, Restarts, Prefix, Away
  <2>3. /\ (\A n \in 2 .. N : ~ Away(raw.requests, n)) =>
             access_list = Blocks(<<-1, Len(Requested)>>)
        /\ \A n \in 2 .. N :
             Away(raw.requests, n) /\ (\A h \in 2 .. n - 1 : ~ Away(raw.requests, h)) =>
               Requested = Prefix(raw.requests, n - 1) \o access_list
    BY <1>2, <1>4, <2>1, blkparse_keeps DEF Requested
  <2> QED BY <2>2, <2>3, Zenon
<1> QED BY <1>3, <1>4

\* The program is given the blocks that were requested, in their order; by the
\* scripts like process_blkparse, all but the first run, which they take to be
\* at block -1 (trace_processor.py:30-44), whatever the requests.
THEOREM TraceKeptHolds == Spec => []TraceKept
<1> QED BY RunningAlways, TraceKeptIs, PTL

\* The block accessed next
key_ == access_list[ts + 1]

\* A turn of the trace, but for the two caches
Turn ==
  /\ Running /\ Made /\ ts < Len(access_list)
  /\ ts' = ts + 1
  /\ access_list' = access_list
  /\ buffer_size_' = buffer_size_
  /\ cache_policy' = cache_policy
  /\ loaded' = IF miss_count_' = miss_count_ THEN loaded
               ELSE [loaded EXCEPT ![key_] = ts + 1]

LEMMA TurnIs ==
  ASSUME Running, check_get
  PROVE  Turn /\ Access(key_) /\ OPT!access(key_) /\ Running' /\ Made'
<1>1. Turn /\ Access(key_) /\ OPT!access(key_)
  BY DEF check_get, Turn, key_, asked
<1>2. Running'
  BY RunningNext DEF Next
<1>3. Made'
  BY <1>1 DEF Turn, Made
<1> QED BY <1>1, <1>2, <1>3

LEMMA TurnFacts ==
  ASSUME Turn
  PROVE  /\ key_ \in Keys /\ ts \in Nat /\ ts' = ts + 1
         /\ buffer_size_ \in Nat \ {0} /\ buffer_size_' = buffer_size_
         /\ ts + 1 \in 1 .. Len(access_list) /\ Len(access_list) \in Nat
         /\ access_list' = access_list /\ cache_policy' = cache_policy
         /\ hit_count_ \in Nat /\ miss_count_ \in Nat
<1>1. ts \in Nat /\ Len(access_list) \in Nat /\ ts + 1 \in 1 .. Len(access_list)
  BY AccessList DEF Turn, Running
<1> QED BY <1>1, AccessList DEF Turn, Running, Made, key_

\* The accesses of a page after one more
LEMMA UsesAre ==
  ASSUME Turn, NEW k, NEW p \in Nat, p <= ts + 1
  PROVE  Uses(k, p)' = IF k = key_ THEN Uses(k, p) \cup {ts + 1} ELSE Uses(k, p)
<1>1. ts \in Nat /\ ts' = ts + 1 /\ access_list' = access_list
  BY TurnFacts
<1>2. p .. ts + 1 = (p .. ts) \cup {ts + 1}
  BY <1>1
<1> QED BY <1>1, <1>2 DEF Uses, key_

LEMMA UsesFinite ==
  ASSUME Running, NEW k, NEW p \in Nat
  PROVE  /\ Uses(k, p) \subseteq p .. ts /\ IsFiniteSet(Uses(k, p))
         /\ Cardinality(Uses(k, p)) \in Nat
<1>1. Uses(k, p) \subseteq p .. ts /\ ts \in Nat
  BY DEF Uses, Running
<1>2. IsFiniteSet(p .. ts)
  BY <1>1, FS_Interval
<1> QED BY <1>1, <1>2, FS_Subset, FS_CardinalityType

-----------------------------------------------------------------------------
(* LFU *)

\* The first entry is one of them.
LEMMA LFUBeginIs ==
  ASSUME NEW s, LFUOK(s), s.buffer_set_ # {}
  PROVE  LFU!Begin(s.buffer_set_) \in s.buffer_set_
<1> DEFINE S == s.buffer_set_
           F == { a.freq : a \in S }
<1>1. S \subseteq LFUItems /\ \A a, b \in S : a.timestamp = b.timestamp => a = b
  BY DEF LFUOK
<1>2. F \subseteq Nat /\ F # {}
  BY <1>1 DEF LFUItems
<1> HIDE DEF S
<1>3. PICK f \in F : \A g \in F : f <= g
  BY <1>2, LeastNatural
<1> DEFINE T == { a.timestamp : a \in { b \in S : b.freq = f } }
<1>4. T \subseteq Nat /\ T # {}
  BY <1>1, <1>3 DEF LFUItems
<1>5. PICK t \in T : \A u \in T : t <= u
  BY <1>4, LeastNatural
<1>6. PICK a \in S : a.freq = f /\ a.timestamp = t
  BY <1>5
<1>7. ASSUME NEW b \in S \ {a} PROVE LFU!Before(a, b)
  <2>1. f <= b.freq /\ b.freq \in Nat /\ f \in Nat /\ b.timestamp \in Nat /\ t \in Nat
    BY <1>1, <1>2, <1>3, <1>4 DEF LFUItems
  <2>2. b.freq = f => t <= b.timestamp /\ b.timestamp # t
    BY <1>1, <1>5, <1>6
  <2> QED BY <1>6, <2>1, <2>2 DEF LFU!Before
<1> QED BY <1>6, <1>7 DEF LFU!Begin, S

LEMMA LFUErase ==
  ASSUME NEW s, LFUOK(s), NEW k \in DOMAIN s.u_map_
  PROVE  LET t == LFU!EraseItem(s, s.u_map_[k])
         IN /\ LFUOK(t) /\ DOMAIN t.u_map_ = DOMAIN s.u_map_ \ {k}
            /\ \A l \in DOMAIN t.u_map_ : t.u_map_[l] = s.u_map_[l]
<1> DEFINE t == LFU!EraseItem(s, s.u_map_[k])
<1>1. s.u_map_[k].key = k
  BY DEF LFUOK
<1>2. /\ t = [buffer_set_ |-> s.buffer_set_ \ {s.u_map_[k]},
              u_map_ |-> [x \in DOMAIN s.u_map_ \ {k} |-> s.u_map_[x]]]
  BY <1>1 DEF LFU!EraseItem, LFU!Drop
<1>3. /\ t.buffer_set_ = s.buffer_set_ \ {s.u_map_[k]}
      /\ DOMAIN t.u_map_ = DOMAIN s.u_map_ \ {k}
      /\ t.u_map_ = [x \in DOMAIN t.u_map_ |-> t.u_map_[x]]
      /\ \A l \in DOMAIN t.u_map_ : t.u_map_[l] = s.u_map_[l]
      /\ t = [buffer_set_ |-> t.buffer_set_, u_map_ |-> t.u_map_]
  BY <1>2
<1> HIDE DEF t
<1>4. \A l \in DOMAIN t.u_map_ : s.u_map_[l] # s.u_map_[k]
  BY <1>3 DEF LFUOK
<1>5. t.buffer_set_ = { t.u_map_[l] : l \in DOMAIN t.u_map_ }
  BY <1>3, <1>4 DEF LFUOK
<1>6. LFUOK(t)
  BY <1>3, <1>5 DEF LFUOK
<1> QED BY <1>3, <1>6 DEF t

LEMMA LFUInsert ==
  ASSUME NEW s, LFUOK(s), NEW k \in Keys, k \notin DOMAIN s.u_map_, ts \in Nat,
         NEW f \in Nat,
         \A l \in DOMAIN s.u_map_ : s.u_map_[l].timestamp <= ts
  PROVE  LET t == LFU!Insert(s, f, k)
         IN /\ LFUOK(t) /\ DOMAIN t.u_map_ = DOMAIN s.u_map_ \cup {k}
            /\ \A l \in DOMAIN s.u_map_ : t.u_map_[l] = s.u_map_[l]
            /\ t.u_map_[k].freq = f
            /\ \A l \in DOMAIN t.u_map_ : t.u_map_[l].timestamp <= ts + 1
<1> DEFINE t == LFU!Insert(s, f, k)
           item == [freq |-> f, timestamp |-> ts + 1, key |-> k]
<1>1. t = [buffer_set_ |-> s.buffer_set_ \cup {item},
           u_map_ |-> [x \in DOMAIN s.u_map_ \cup {k} |->
                         IF x = k THEN item ELSE s.u_map_[x]]]
  BY DEF LFU!Insert, LFU!Put
<1>2. item \in LFUItems /\ item.key = k /\ item.timestamp = ts + 1 /\ item.freq = f
  BY DEF LFUItems
<1> HIDE DEF item
<1>3. /\ t.buffer_set_ = s.buffer_set_ \cup {item}
      /\ DOMAIN t.u_map_ = DOMAIN s.u_map_ \cup {k}
      /\ t.u_map_ = [x \in DOMAIN t.u_map_ |-> t.u_map_[x]]
      /\ \A l \in DOMAIN s.u_map_ : t.u_map_[l] = s.u_map_[l]
      /\ t.u_map_[k] = item
      /\ t = [buffer_set_ |-> t.buffer_set_, u_map_ |-> t.u_map_]
  BY <1>1
<1> HIDE DEF t
<1>4. t.buffer_set_ = { t.u_map_[l] : l \in DOMAIN t.u_map_ }
  BY <1>3 DEF LFUOK
<1>5. \A l \in DOMAIN s.u_map_ : s.u_map_[l].timestamp \in Nat
  BY DEF LFUOK, LFUItems
<1>6. \A l \in DOMAIN t.u_map_ : t.u_map_[l].timestamp <= ts + 1
  BY <1>2, <1>3, <1>5
<1>7. \A l \in DOMAIN t.u_map_ :
        t.u_map_[l] \in LFUItems /\ t.u_map_[l].key = l
  BY <1>2, <1>3 DEF LFUOK
<1>8. \A i, j \in DOMAIN t.u_map_ :
        t.u_map_[i].timestamp = t.u_map_[j].timestamp => i = j
  BY <1>2, <1>3, <1>5 DEF LFUOK
<1>9. LFUOK(t)
  BY <1>3, <1>4, <1>7, <1>8 DEF LFUOK
<1> QED BY <1>2, <1>3, <1>6, <1>9 DEF t

\* The invariant of LFU
LFUInv ==
  /\ LFUOK(cache) /\ Fits(DOMAIN cache.u_map_)
  /\ \A k \in DOMAIN cache.u_map_ :
       /\ cache.u_map_[k].timestamp <= ts
       /\ loaded[k] <= ts
       /\ cache.u_map_[k].freq = Cardinality(Uses(k, loaded[k]))

LEMMA LFUTurn ==
  ASSUME Turn, NEW k, k = key_, LFUInv, LFU!access(k)
  PROVE  /\ LFUInv'
         /\ Demand(DOMAIN cache.u_map_, DOMAIN cache'.u_map_, k)
         /\ Counts(k \in DOMAIN cache.u_map_)
<1> DEFINE R == DOMAIN cache.u_map_
<1>1. /\ k \in Keys /\ ts \in Nat /\ ts' = ts + 1
      /\ buffer_size_ \in Nat \ {0} /\ buffer_size_' = buffer_size_
      /\ hit_count_ \in Nat /\ miss_count_ \in Nat
      /\ loaded \in [Keys -> Nat]
  BY TurnFacts DEF Turn, Running
<1>2. /\ LFUOK(cache) /\ R \subseteq Keys /\ Cardinality(R) <= buffer_size_
      /\ IsFiniteSet(R) /\ Cardinality(R) \in Nat
      /\ \A l \in R : cache.u_map_[l].timestamp <= ts
  BY KeysAreFinite, KeysFinite DEF LFUInv, Fits
<1>3. CASE LFU!Hit(k)
  <2> DEFINE item == cache.u_map_[k]
             t == LFU!EraseItem(cache, item)
  <2>1. /\ k \in R /\ cache' = LFU!Insert(t, item.freq + 1, k)
        /\ hit_count_' = hit_count_ + 1 /\ miss_count_' = miss_count_
    BY <1>3 DEF LFU!Hit, LFU!CountHit
  <2>2. /\ LFUOK(t) /\ DOMAIN t.u_map_ = R \ {k}
        /\ \A l \in R \ {k} : t.u_map_[l] = cache.u_map_[l]
    BY <1>2, <2>1, LFUErase
  <2>3. item.freq \in Nat
    BY <1>2, <2>1 DEF LFUOK, LFUItems
  <2> HIDE DEF item, t
  <2>4. /\ LFUOK(cache') /\ DOMAIN cache'.u_map_ = R
        /\ \A l \in R \ {k} : cache'.u_map_[l] = cache.u_map_[l]
        /\ cache'.u_map_[k].freq = item.freq + 1
        /\ \A l \in R : cache'.u_map_[l].timestamp <= ts + 1
    <3>1. item.freq + 1 \in Nat /\ k \notin R \ {k} /\ (R \ {k}) \cup {k} = R
      BY <2>1, <2>3
    <3>2. \A l \in DOMAIN t.u_map_ : t.u_map_[l].timestamp <= ts
      BY <1>2, <2>2
    <3> HIDE DEF R
    <3>3. /\ LFUOK(t) /\ k \in Keys /\ k \notin DOMAIN t.u_map_ /\ ts \in Nat
      BY <1>1, <2>2, <3>1
    <3>4. LET u == LFU!Insert(t, item.freq + 1, k)
          IN /\ LFUOK(u) /\ DOMAIN u.u_map_ = DOMAIN t.u_map_ \cup {k}
             /\ \A l \in DOMAIN t.u_map_ : u.u_map_[l] = t.u_map_[l]
             /\ u.u_map_[k].freq = item.freq + 1
             /\ \A l \in DOMAIN u.u_map_ : u.u_map_[l].timestamp <= ts + 1
      BY <3>1, <3>2, <3>3, LFUInsert
    <3> QED BY <2>1, <2>2, <3>1, <3>4
  <2>5. loaded' = loaded
    BY <1>1, <2>1 DEF Turn
  <2>6. ASSUME NEW l \in R
        PROVE  /\ loaded'[l] <= ts'
               /\ cache'.u_map_[l].freq = Cardinality(Uses(l, loaded[l])')
    <3>1. /\ loaded[l] \in Nat /\ loaded[l] <= ts
          /\ cache.u_map_[l].freq = Cardinality(Uses(l, loaded[l]))
      BY <1>1, <1>2 DEF LFUInv
    <3>2. loaded[l] <= ts + 1
      BY <1>1, <3>1
    <3>3. Uses(l, loaded[l])' = IF l = k THEN Uses(l, loaded'[l]) \cup {ts + 1}
                                ELSE Uses(l, loaded'[l])
      <4> DEFINE p == loaded[l]
      <4>1. p \in Nat /\ p <= ts + 1
        BY <3>1, <3>2
      <4>2. p' = p
        BY <2>5
      <4>3. Uses(l, p)' = { i \in p .. ts' : access_list'[i] = l }
        BY <4>2 DEF Uses
      <4>4. ts' = ts + 1 /\ access_list' = access_list
            /\ p .. ts + 1 = (p .. ts) \cup {ts + 1}
        BY <1>1, <4>1, TurnFacts
      <4> QED BY <2>5, <4>3, <4>4 DEF Uses, key_
    <3>4. CASE l # k
      BY <1>1, <2>4, <2>5, <3>1, <3>2, <3>3, <3>4
    <3>5. CASE l = k
      <4>1. /\ IsFiniteSet(Uses(l, loaded[l]))
            /\ ts + 1 \notin Uses(l, loaded[l])
        BY <1>1, <3>1, UsesFinite DEF Turn
      <4>2. Cardinality(Uses(l, loaded[l]) \cup {ts + 1})
              = Cardinality(Uses(l, loaded[l])) + 1
        BY <4>1, FS_AddElement
      <4> QED BY <1>1, <2>4, <2>5, <3>1, <3>2, <3>3, <3>5, <4>2 DEF item
    <3> QED BY <3>4, <3>5
  <2>7. LFUInv'
    BY <1>1, <1>2, <2>4, <2>6 DEF LFUInv, Fits, LFUOK, LFUItems
  <2> QED BY <2>1, <2>4, <2>7 DEF Demand, Counts
<1>4. CASE LFU!Miss(k)
  <2> DEFINE full == Cardinality(cache.buffer_set_) >= buffer_size_
             old == LFU!Begin(cache.buffer_set_)
             t == IF full THEN LFU!EraseItem(cache, old) ELSE cache
  <2>1. /\ k \notin R /\ cache' = LFU!Insert(t, 1, k)
        /\ hit_count_' = hit_count_ /\ miss_count_' = miss_count_ + 1
    <3>1. k \notin R /\ hit_count_' = hit_count_ /\ miss_count_' = miss_count_ + 1
      BY <1>4 DEF LFU!Miss, LFU!CountMiss
    <3>2. LFU!Cardinality(cache.buffer_set_) = Cardinality(cache.buffer_set_)
      BY DEF LFU!Cardinality, Cardinality
    <3>3. cache' = LFU!Insert(t, 1, k)
      BY <1>4, <3>2 DEF LFU!Miss
    <3> QED BY <3>1, <3>3
  <2> HIDE DEF old
  <2>2. PICK S \in SUBSET R :
               /\ LFUOK(t) /\ DOMAIN t.u_map_ = S
               /\ \A l \in S : t.u_map_[l] = cache.u_map_[l]
               /\ \/ Cardinality(R) < buffer_size_ /\ S = R
                  \/ Cardinality(R) = buffer_size_ /\ \E v \in R : S = R \ {v}
    <3>1. Cardinality(cache.buffer_set_) = Cardinality(R)
      BY <1>2, KeysAreFinite, LFUCount
    <3>2. CASE ~full
      BY <1>1, <1>2, <3>1, <3>2
    <3>3. CASE full
      <4>1. Cardinality(R) = buffer_size_ /\ R # {}
        BY <1>1, <1>2, <3>1, <3>3, FS_EmptySet
      <4>2. cache.buffer_set_ # {}
        BY <1>2, <4>1 DEF LFUOK
      <4>3. old \in cache.buffer_set_
        BY <1>2, <4>2, LFUBeginIs DEF old
      <4>4. PICK v \in R : old = cache.u_map_[v]
        BY <1>2, <4>3 DEF LFUOK
      <4>5. /\ LFUOK(t) /\ DOMAIN t.u_map_ = R \ {v}
            /\ \A l \in R \ {v} : t.u_map_[l] = cache.u_map_[l]
        BY <1>2, <3>3, <4>4, LFUErase DEF old
      <4> QED BY <4>1, <4>5
    <3> QED BY <3>2, <3>3
  <2> HIDE DEF t
  <2>3. /\ LFUOK(cache') /\ DOMAIN cache'.u_map_ = S \cup {k}
        /\ \A l \in S : cache'.u_map_[l] = cache.u_map_[l]
        /\ cache'.u_map_[k].freq = 1
        /\ \A l \in S \cup {k} : cache'.u_map_[l].timestamp <= ts + 1
    <3>1. /\ LFUOK(t) /\ k \in Keys /\ k \notin DOMAIN t.u_map_ /\ ts \in Nat
      BY <1>1, <2>1, <2>2
    <3>2. \A l \in DOMAIN t.u_map_ : t.u_map_[l].timestamp <= ts
      BY <1>2, <2>2
    <3>3. LET u == LFU!Insert(t, 1, k)
          IN /\ LFUOK(u) /\ DOMAIN u.u_map_ = DOMAIN t.u_map_ \cup {k}
             /\ \A l \in DOMAIN t.u_map_ : u.u_map_[l] = t.u_map_[l]
             /\ u.u_map_[k].freq = 1
             /\ \A l \in DOMAIN u.u_map_ : u.u_map_[l].timestamp <= ts + 1
      BY <3>1, <3>2, LFUInsert
    <3> QED BY <2>1, <2>2, <3>3
  <2>4. Demand(R, DOMAIN cache'.u_map_, k)
    BY <2>1, <2>2, <2>3 DEF Demand
  <2>5. loaded' = [loaded EXCEPT ![k] = ts + 1]
    BY <1>1, <2>1 DEF Turn
  <2>6. ASSUME NEW l \in S
        PROVE  /\ loaded'[l] <= ts'
               /\ cache'.u_map_[l].freq = Cardinality(Uses(l, loaded[l])')
    <3>1. /\ l # k /\ l \in Keys /\ l \in R
      BY <1>2, <2>1
    <3>2. /\ loaded[l] \in Nat /\ loaded[l] <= ts /\ loaded'[l] = loaded[l]
          /\ cache.u_map_[l].freq = Cardinality(Uses(l, loaded[l]))
      BY <1>1, <2>5, <3>1 DEF LFUInv
    <3>3. \A p \in Nat : p <= ts + 1 => Uses(l, p)' = Uses(l, p)
      BY <3>1, UsesAre
    <3>4. Uses(l, loaded[l])' = Uses(l, loaded[l])
      BY <1>1, <3>2, <3>3 DEF Uses
    <3> QED BY <1>1, <2>3, <3>2, <3>4
  <2>7. loaded'[k] = ts' /\ cache'.u_map_[k].freq = Cardinality(Uses(k, loaded[k])')
    <3>1. loaded'[k] = ts + 1 /\ (ts + 1) .. (ts + 1) = {ts + 1}
      BY <1>1, <2>5
    <3>2. Uses(k, loaded[k])' = { i \in {ts + 1} : access_list[i] = k }
      BY <1>1, <3>1, TurnFacts DEF Uses
    <3>3. Uses(k, loaded[k])' = {ts + 1}
      BY <3>2 DEF key_
    <3>4. Cardinality({ts + 1}) = 1
      BY FS_Singleton
    <3> QED BY <1>1, <2>3, <3>1, <3>3, <3>4
  <2>8. LFUInv'
    <3>1. /\ Fits(DOMAIN cache.u_map_)'
      <4>1. DOMAIN cache'.u_map_ \subseteq Keys
            /\ Cardinality(DOMAIN cache'.u_map_) <= buffer_size_
        BY <1>1, <1>2, <2>4, KeysAreFinite, DemandFits DEF Fits
      <4> QED BY <1>1, <4>1 DEF Fits
    <3>2. LFUOK(cache')
      BY <2>3
    <3>3. \A l \in DOMAIN cache'.u_map_ :
            /\ cache'.u_map_[l].timestamp <= ts' /\ loaded'[l] <= ts'
            /\ cache'.u_map_[l].freq = Cardinality(Uses(l, loaded[l])')
      BY <1>1, <2>3, <2>6, <2>7
    <3>4. LFUOK(cache)'
      BY <3>2 DEF LFUOK, LFUItems
    <3> QED BY <3>1, <3>3, <3>4 DEF LFUInv
  <2> QED BY <2>1, <2>4, <2>8 DEF Counts
<1> QED BY <1>3, <1>4 DEF LFU!access

-----------------------------------------------------------------------------
(* SRRIP and DRRIP *)

Far == SRRIP!Distances

\* The pages of U are shared out among the sets.
RRIPOK(s) ==
  /\ s = [index_sets_ |-> s.index_sets_, u_map_ |-> s.u_map_]
  /\ s.index_sets_ \in [Far -> SUBSET Keys]
  /\ s.u_map_ = UNION { s.index_sets_[d] : d \in Far }
  /\ \A d, e \in Far : d # e => s.index_sets_[d] \cap s.index_sets_[e] = {}

LEMMA FarIs ==
  /\ SRRIP!evict_bitmap_ \in Nat /\ SRRIP!evict_bitmap_ >= 3
  /\ Far = 0 .. SRRIP!evict_bitmap_
<1>1. m \in Nat /\ m - 2 \in Nat
  BY ConstantsAre
<1> DEFINE T == { n \in Nat : 2^(n + 2) >= 4 /\ 2^(n + 2) \in Nat }
<1>2. 0 \in T
  <2>1. 2^0 \in Nat /\ 2^1 = 2^0 + 2^0 /\ 2^2 = 2^1 + 2^1 /\ 2^0 # 0
    <3>1. 2^0 \in Nat \ {0} /\ 2^(0 + 1) = 2^0 + 2^0
      BY PowersOfTwo
    <3>2. 2^(1 + 1) = 2^1 + 2^1
      BY PowersOfTwo
    <3> QED BY <3>1, <3>2
  <2> QED BY <2>1
<1>3. ASSUME NEW n \in Nat, n \in T PROVE n + 1 \in T
  <2>1. 2^((n + 2) + 1) = 2^(n + 2) + 2^(n + 2) /\ (n + 1) + 2 = (n + 2) + 1
    BY PowersOfTwo
  <2> DEFINE x == 2^(n + 2)
  <2>2. x >= 4 /\ x \in Nat
    BY <1>3
  <2>3. 2^((n + 1) + 2) = x + x
    BY <2>1
  <2> HIDE DEF x
  <2>4. x + x >= 4 /\ x + x \in Nat
    BY <2>2
  <2> QED BY <2>3, <2>4
<1>4. Nat \subseteq T
  <2> HIDE DEF T
  <2> QED BY <1>2, <1>3, AllNaturals
<1>5. 2^m >= 4 /\ 2^m \in Nat
  <2>1. (m - 2) + 2 = m /\ m - 2 \in T
    BY <1>1, <1>4
  <2> QED BY <2>1
<1> DEFINE x == 2^m
<1>6. SRRIP!evict_bitmap_ = x - 1 /\ x >= 4 /\ x \in Nat
  BY <1>5 DEF SRRIP!evict_bitmap_
<1> HIDE DEF x
<1> QED BY <1>6 DEF Far, SRRIP!Distances

LEMMA RRIPInsert ==
  ASSUME NEW s, RRIPOK(s), NEW d \in Far, NEW k \in Keys, k \notin s.u_map_
  PROVE  LET t == SRRIP!Insert(s, d, k)
         IN RRIPOK(t) /\ t.u_map_ = s.u_map_ \cup {k}
<1> DEFINE t == SRRIP!Insert(s, d, k)
           S == s.index_sets_
           T == t.index_sets_
<1>1. /\ T = [S EXCEPT ![d] = @ \cup {k}]
      /\ t.u_map_ = s.u_map_ \cup {k}
      /\ t = [index_sets_ |-> T, u_map_ |-> t.u_map_]
  BY DEF SRRIP!Insert
<1>2. /\ S \in [Far -> SUBSET Keys]
      /\ s.u_map_ = UNION { S[e] : e \in Far }
      /\ \A e, f \in Far : e # f => S[e] \cap S[f] = {}
      /\ \A e \in Far : k \notin S[e]
  BY DEF RRIPOK
<1> HIDE DEF t, S
<1>3. /\ T \in [Far -> SUBSET Keys]
      /\ \A e \in Far : T[e] = IF e = d THEN S[d] \cup {k} ELSE S[e]
  BY <1>1, <1>2
<1> HIDE DEF T
<1>4. UNION { T[e] : e \in Far } = t.u_map_
  BY <1>1, <1>2, <1>3
<1>5. \A e, f \in Far : e # f => T[e] \cap T[f] = {}
  BY <1>2, <1>3
<1> QED BY <1>1, <1>3, <1>4, <1>5 DEF RRIPOK, t, T

LEMMA RRIPRemove ==
  ASSUME NEW s, RRIPOK(s), NEW d \in Far, NEW k \in s.index_sets_[d],
         NEW t, t = [index_sets_ |-> [s.index_sets_ EXCEPT ![d] = @ \ {k}],
                     u_map_ |-> s.u_map_ \ {k}]
  PROVE  RRIPOK(t) /\ t.u_map_ = s.u_map_ \ {k}
<1> DEFINE S == s.index_sets_
           T == t.index_sets_
<1>1. /\ T = [S EXCEPT ![d] = @ \ {k}]
      /\ t.u_map_ = s.u_map_ \ {k}
      /\ t = [index_sets_ |-> T, u_map_ |-> t.u_map_]
  OBVIOUS
<1>2. /\ S \in [Far -> SUBSET Keys]
      /\ s.u_map_ = UNION { S[e] : e \in Far }
      /\ \A e, f \in Far : e # f => S[e] \cap S[f] = {}
      /\ k \in S[d]
  BY DEF RRIPOK
<1> HIDE DEF S
<1>3. /\ T \in [Far -> SUBSET Keys]
      /\ \A e \in Far : T[e] = IF e = d THEN S[d] \ {k} ELSE S[e]
  BY <1>1, <1>2
<1> HIDE DEF T
<1>4. UNION { T[e] : e \in Far } = t.u_map_
  BY <1>1, <1>2, <1>3
<1>5. \A e, f \in Far : e # f => T[e] \cap T[f] = {}
  BY <1>2, <1>3
<1> QED BY <1>1, <1>3, <1>4, <1>5 DEF RRIPOK, T

LEMMA MaxOfFar ==
  ASSUME NEW S \in SUBSET Far, S # {}
  PROVE  Max(S) \in S /\ \A y \in S : y <= Max(S)
<1> DEFINE N == SRRIP!evict_bitmap_
           T == { N - x : x \in S }
<1>1. N \in Nat /\ S \subseteq 0 .. N
  BY FarIs
<1> HIDE DEF N
<1>2. T \subseteq Nat /\ T # {}
  <2>1. \A x \in S : N - x \in Nat
    BY <1>1
  <2> QED BY <2>1
<1>3. PICK t \in T : \A u \in T : t <= u
  BY <1>2, LeastNatural
<1>4. PICK x \in S : t = N - x
  BY <1>3
<1>5. ASSUME NEW y \in S PROVE y <= x
  <2>1. N - y \in T
    OBVIOUS
  <2>2. N - x <= N - y
    BY <1>3, <1>4, <2>1
  <2> QED BY <1>1, <2>2
<1>6. \A y \in S : x >= y
  BY <1>1, <1>5
<1>7. Max(S) \in S /\ \A y \in S : Max(S) >= y
  BY <1>6 DEF Max
<1> QED BY <1>1, <1>7

\* The sets move up until the last one has a page; the smallest leaves.
LEMMA RRIPEvict ==
  ASSUME NEW s, RRIPOK(s), s.u_map_ # {}
  PROVE  LET t == SRRIP!Evict(s)
         IN RRIPOK(t) /\ \E v \in s.u_map_ : t.u_map_ = s.u_map_ \ {v}
<1> DEFINE N == SRRIP!evict_bitmap_
           S == s.index_sets_
           F == { d \in Far : S[d] # {} }
           up == N - Max(F)
           A == SRRIP!Aged(S)
           item == SRRIP!Min(A[N])
<1>1. /\ S \in [Far -> SUBSET Keys]
      /\ s.u_map_ = UNION { S[e] : e \in Far }
      /\ \A e, f \in Far : e # f => S[e] \cap S[f] = {}
      /\ s.u_map_ \subseteq Keys
  BY DEF RRIPOK
<1>2. N \in Nat /\ N >= 3 /\ Far = 0 .. N
  BY FarIs
<1>3. F # {} /\ F \subseteq Far
  BY <1>1
<1>4. Max(F) \in F /\ \A d \in F : d <= Max(F)
  BY <1>3, MaxOfFar
<1>5. A = [d \in Far |-> IF d < up THEN {} ELSE S[d - up]]
  BY DEF SRRIP!Aged, SRRIP!Max, Max, Far
<1> DEFINE x == Max(F)
<1>6. x \in 0 .. N /\ S[x] # {} /\ up = N - x /\ \A d \in 0 .. N : S[d] # {} => d <= x
  BY <1>2, <1>4
<1> HIDE DEF S, x, A, N, F
<1>7. /\ \A d \in 0 .. N : d < up => A[d] = {}
      /\ \A d \in 0 .. N : ~(d < up) => d - up \in 0 .. N /\ A[d] = S[d - up]
  BY <1>2, <1>5, <1>6 DEF x
<1>8. A \in [Far -> SUBSET Keys]
  BY <1>1, <1>2, <1>5, <1>7
<1>9. \A e, f \in Far : e # f => A[e] \cap A[f] = {}
  <2> TAKE e, f \in Far
  <2> HAVE e # f
  <2>1. CASE e < up \/ f < up
    BY <1>2, <1>7, <2>1
  <2>2. CASE ~(e < up) /\ ~(f < up)
    <3>1. e - up # f - up
      BY <1>2, <1>6
    <3> QED BY <1>1, <1>2, <1>7, <2>2, <3>1
  <2> QED BY <2>1, <2>2
<1>10. UNION { A[e] : e \in Far } = s.u_map_
  <2>1. ASSUME NEW e \in Far, S[e] # {}
        PROVE  e + up \in Far /\ A[e + up] = S[e]
    <3>1. e \in 0 .. N /\ e <= x
      BY <1>2, <1>6, <2>1
    <3>2. e + up \in 0 .. N /\ ~(e + up < up) /\ (e + up) - up = e
      BY <1>2, <1>6, <3>1
    <3> QED BY <1>2, <1>7, <3>2
  <2>2. ASSUME NEW e \in Far, NEW k \in A[e] PROVE \E d \in Far : k \in S[d]
    BY <1>2, <1>7
  <2> QED BY <1>1, <2>1, <2>2
<1>11. N \in Far /\ A[N] = S[x] /\ A[N] # {}
  <2>1. N \in 0 .. N /\ ~(N < up) /\ N - up = x
    BY <1>2, <1>6
  <2> QED BY <1>2, <1>6, <1>7, <2>1
<1>12. item \in A[N]
  <2>1. A[N] \subseteq Keys
    BY <1>8, <1>11
  <2>2. IsFiniteSet(A[N]) /\ A[N] \subseteq Int
    BY <2>1, KeysAreFinite, KeysFinite, ConstantsAre
  <2>3. Min(A[N]) \in A[N]
    BY <1>11, <2>2, MinOfFinite
  <2> QED BY <2>3 DEF Min, SRRIP!Min
<1> DEFINE a == [index_sets_ |-> A, u_map_ |-> s.u_map_]
           t == SRRIP!Evict(s)
<1>13. RRIPOK(a)
  BY <1>8, <1>9, <1>10 DEF RRIPOK
<1>14. t = [index_sets_ |-> [a.index_sets_ EXCEPT ![N] = @ \ {item}],
            u_map_ |-> a.u_map_ \ {item}]
  BY DEF SRRIP!Evict, S, A, N
<1> HIDE DEF t, item
<1>15. a.index_sets_ = A /\ a.u_map_ = s.u_map_
  OBVIOUS
<1> HIDE DEF a
<1>16. RRIPOK(t) /\ t.u_map_ = s.u_map_ \ {item}
  BY <1>11, <1>12, <1>13, <1>14, <1>15, RRIPRemove
<1>17. item \in s.u_map_
  BY <1>10, <1>11, <1>12
<1> QED BY <1>16, <1>17 DEF t

RRIPInv == RRIPOK(cache) /\ Fits(cache.u_map_)

\* DRRIP differs from SRRIP in where it puts a new page.
LEMMA SameRRIP ==
  ASSUME NEW k, DRRIP!dynamic_access(k)
  PROVE  SRRIP!Hit(k) \/ \E d \in {1, 2} : SRRIP!MissAt(k, SRRIP!evict_bitmap_ - d)
<1>1. DRRIP!evict_bitmap_ = SRRIP!evict_bitmap_
  BY DEF DRRIP!evict_bitmap_, SRRIP!evict_bitmap_
<1>2. DRRIP!Distances = SRRIP!Distances
  BY <1>1 DEF DRRIP!Distances, SRRIP!Distances
<1>3. \A S : DRRIP!Min(S) = SRRIP!Min(S) /\ DRRIP!Max(S) = SRRIP!Max(S)
  BY DEF DRRIP!Min, SRRIP!Min, DRRIP!Max, SRRIP!Max
<1>4. \A S : DRRIP!Cardinality(S) = SRRIP!Cardinality(S)
  BY DEF DRRIP!Cardinality, SRRIP!Cardinality
<1>5. ASSUME NEW s, NEW d PROVE DRRIP!Insert(s, d, k) = SRRIP!Insert(s, d, k)
  BY DEF DRRIP!Insert, SRRIP!Insert
<1>6. ASSUME NEW s PROVE DRRIP!Evict(s) = SRRIP!Evict(s)
  <2>1. ASSUME NEW S PROVE DRRIP!Aged(S) = SRRIP!Aged(S)
    BY <1>1, <1>2, <1>3 DEF DRRIP!Aged, SRRIP!Aged
  <2>2. DRRIP!Aged(s.index_sets_) = SRRIP!Aged(s.index_sets_)
    BY <2>1
  <2> QED BY <1>1, <1>3, <2>2 DEF DRRIP!Evict, SRRIP!Evict
<1>7. ASSUME DRRIP!Hit(k) PROVE SRRIP!Hit(k)
  BY <1>2, <1>3, <1>5, <1>7 DEF DRRIP!Hit, SRRIP!Hit, DRRIP!CountHit, SRRIP!CountHit
<1>8. ASSUME NEW d, DRRIP!MissAt(k, d) PROVE SRRIP!MissAt(k, d)
  <2>1. DRRIP!Evict(cache) = SRRIP!Evict(cache)
    BY <1>6
  <2>2. DRRIP!Cardinality(cache.u_map_) = SRRIP!Cardinality(cache.u_map_)
    BY <1>4
  <2> QED BY <1>5, <1>8, <2>1, <2>2
          DEF DRRIP!MissAt, SRRIP!MissAt, DRRIP!CountMiss, SRRIP!CountMiss
<1> QED BY <1>1, <1>7, <1>8 DEF DRRIP!dynamic_access

LEMMA RRIPTurn ==
  ASSUME Turn, NEW k, k = key_, RRIPInv,
         SRRIP!access(k) \/ DRRIP!dynamic_access(k)
  PROVE  /\ RRIPInv'
         /\ Demand(cache.u_map_, cache'.u_map_, k)
         /\ Counts(k \in cache.u_map_)
<1> DEFINE R == cache.u_map_
<1>1. /\ k \in Keys
      /\ buffer_size_ \in Nat \ {0} /\ buffer_size_' = buffer_size_
      /\ hit_count_ \in Nat /\ miss_count_ \in Nat
  BY TurnFacts
<1>2. /\ RRIPOK(cache) /\ R \subseteq Keys /\ Cardinality(R) <= buffer_size_
      /\ IsFiniteSet(R) /\ Cardinality(R) \in Nat
  BY KeysAreFinite, KeysFinite DEF RRIPInv, Fits
<1>3. /\ SRRIP!evict_bitmap_ \in Nat /\ SRRIP!evict_bitmap_ >= 3
      /\ Far = 0 .. SRRIP!evict_bitmap_ /\ SRRIP!Distances = 0 .. SRRIP!evict_bitmap_
  BY FarIs DEF Far
<1>4. SRRIP!Hit(k) \/ \E d \in Far : SRRIP!MissAt(k, d)
  <2>1. SRRIP!evict_bitmap_ - 1 \in Far /\ SRRIP!evict_bitmap_ - 2 \in Far
    BY <1>3
  <2> QED BY <2>1, SameRRIP DEF SRRIP!access
<1>5. ASSUME SRRIP!Hit(k)
      PROVE  /\ RRIPOK(cache') /\ cache'.u_map_ = R
             /\ k \in R /\ Counts(TRUE)
  <2> DEFINE D == { e \in SRRIP!Distances : k \in cache.index_sets_[e] }
             d == SRRIP!Min(D)
             t == [cache EXCEPT !.index_sets_[d] = @ \ {k}]
             t2 == [index_sets_ |-> [cache.index_sets_ EXCEPT ![d] = @ \ {k}],
                    u_map_ |-> cache.u_map_ \ {k}]
  <2>1. k \in R /\ Counts(TRUE) /\ cache' = SRRIP!Insert(t, 0, k)
    BY <1>5 DEF SRRIP!Hit, SRRIP!CountHit, Counts
  <2>2. d \in D
    <3>1. PICK e \in Far : k \in cache.index_sets_[e]
      BY <1>2, <2>1 DEF RRIPOK
    <3>2. D # {} /\ D \subseteq Nat
      BY <1>3, <3>1
    <3> HIDE DEF D
    <3>3. Min(D) \in D
      BY <3>2, MinOfNaturals
    <3> QED BY <3>3 DEF Min, SRRIP!Min
  <2>3. d \in Far /\ k \in cache.index_sets_[d]
    BY <1>3, <2>2
  <2> HIDE DEF d
  <2>4. RRIPOK(t2) /\ t2.u_map_ = R \ {k}
    BY <1>2, <2>3, RRIPRemove
  <2>5. SRRIP!Insert(t, 0, k) = SRRIP!Insert(t2, 0, k)
    <3>1. cache = [index_sets_ |-> cache.index_sets_, u_map_ |-> cache.u_map_]
      BY <1>2 DEF RRIPOK
    <3>2. /\ t.index_sets_ = [cache.index_sets_ EXCEPT ![d] = @ \ {k}]
          /\ t.u_map_ = R
      BY <3>1
    <3>3. /\ t2.index_sets_ = [cache.index_sets_ EXCEPT ![d] = @ \ {k}]
          /\ t2.u_map_ = R \ {k}
      OBVIOUS
    <3>4. (R \ {k}) \cup {k} = R \cup {k}
      OBVIOUS
    <3> HIDE DEF t, t2, R
    <3> QED BY <3>2, <3>3, <3>4 DEF SRRIP!Insert
  <2> HIDE DEF t, t2
  <2>6. LET u == SRRIP!Insert(t2, 0, k)
        IN RRIPOK(u) /\ u.u_map_ = t2.u_map_ \cup {k}
    <3>1. 0 \in Far /\ k \notin t2.u_map_
      BY <1>3, <2>4
    <3> QED BY <1>1, <2>4, <3>1, RRIPInsert
  <2>7. cache'.u_map_ = R
    BY <2>1, <2>4, <2>5, <2>6
  <2> QED BY <2>1, <2>5, <2>6, <2>7
<1>6. ASSUME NEW d \in Far, SRRIP!MissAt(k, d)
      PROVE  RRIPOK(cache') /\ Demand(R, cache'.u_map_, k)
             /\ k \notin R /\ Counts(FALSE)
  <2> DEFINE full == Cardinality(R) >= buffer_size_
             t == IF full THEN SRRIP!Evict(cache) ELSE cache
  <2>1. k \notin R /\ Counts(FALSE)
    BY <1>6 DEF SRRIP!MissAt, SRRIP!CountMiss, Counts
  <2>2. cache' = SRRIP!Insert(t, d, k)
    <3>1. SRRIP!Cardinality(cache.u_map_) = Cardinality(cache.u_map_)
      BY DEF SRRIP!Cardinality, Cardinality
    <3> QED BY <1>6, <3>1 DEF SRRIP!MissAt
  <2>3. RRIPOK(t) /\ \/ Cardinality(R) < buffer_size_ /\ t.u_map_ = R
                     \/ Cardinality(R) = buffer_size_
                        /\ \E v \in R : t.u_map_ = R \ {v}
    <3>1. CASE ~full
      BY <1>1, <1>2, <3>1
    <3>2. CASE full
      <4>1. Cardinality(R) = buffer_size_ /\ R # {}
        BY <1>1, <1>2, <3>2, FS_EmptySet
      <4>2. LET u == SRRIP!Evict(cache)
            IN RRIPOK(u) /\ \E v \in R : u.u_map_ = R \ {v}
        BY <1>2, <4>1, RRIPEvict
      <4> QED BY <3>2, <4>1, <4>2
    <3> QED BY <3>1, <3>2
  <2> HIDE DEF t
  <2>4. LET u == SRRIP!Insert(t, d, k)
        IN RRIPOK(u) /\ u.u_map_ = t.u_map_ \cup {k}
    <3>1. k \notin t.u_map_
      BY <2>1, <2>3
    <3> QED BY <1>1, <1>6, <2>3, <3>1, RRIPInsert
  <2>5. Demand(R, cache'.u_map_, k)
    BY <2>1, <2>2, <2>3, <2>4 DEF Demand
  <2> QED BY <2>1, <2>2, <2>4, <2>5
<1>7. RRIPOK(cache') /\ Demand(R, cache'.u_map_, k) /\ Counts(k \in R)
  BY <1>4, <1>5, <1>6 DEF Demand, Counts
<1>8. cache'.u_map_ \subseteq Keys /\ Cardinality(cache'.u_map_) <= buffer_size_
  BY <1>1, <1>2, <1>7, KeysAreFinite, DemandFits DEF Fits
<1>9. RRIPInv'
  BY <1>1, <1>7, <1>8 DEF RRIPInv, Fits, RRIPOK, Far, SRRIP!Distances,
     SRRIP!evict_bitmap_
<1> QED BY <1>7, <1>9

\* A page is in as many sets as it should be.
LEMMA RRIPSound ==
  ASSUME RRIPOK(cache), NEW k \in Keys
  PROVE  Cardinality({ d \in DOMAIN cache.index_sets_ :
                         k \in cache.index_sets_[d] })
           = IF k \in cache.u_map_ THEN 1 ELSE 0
<1> DEFINE D == { d \in DOMAIN cache.index_sets_ : k \in cache.index_sets_[d] }
<1>1. DOMAIN cache.index_sets_ = Far
  BY DEF RRIPOK
<1>2. CASE k \in cache.u_map_
  <2>1. PICK d \in Far : k \in cache.index_sets_[d]
    BY <1>2 DEF RRIPOK
  <2>2. D = {d}
    BY <1>1, <2>1 DEF RRIPOK
  <2> QED BY <1>2, <2>2, FS_Singleton
<1>3. CASE k \notin cache.u_map_
  <2>1. D = {}
    BY <1>1, <1>3 DEF RRIPOK
  <2> QED BY <1>3, <2>1, FS_EmptySet
<1> QED BY <1>2, <1>3

-----------------------------------------------------------------------------
(* LRU *)

LEMMA TabledFacts ==
  ASSUME NEW l, NEW ns, NEW q, Tabled(l, ns, q)
  PROVE  /\ Chain(l, ns) /\ ns \in Seq(Nat) /\ l.u_map \in KeyTables
         /\ q \in Seq(Keys) /\ Len(q) = Len(ns) /\ Len(q) \in Nat
         /\ DOMAIN q = 1 .. Len(q) /\ DOMAIN l.u_map = ToSet(q)
         /\ ToSet(q) = { q[i] : i \in 1 .. Len(q) }
         /\ \A i \in 1 .. Len(q) :
              /\ i \in 1 .. Len(ns) /\ q[i] \in Keys /\ q[i] \in Int
              /\ q[i] \in ToSet(q) /\ l.u_map[q[i]] = ns[i]
              /\ ns[i] \in DOMAIN l.node /\ l.node[ns[i]].key = q[i]
<1>1. /\ Chain(l, ns) /\ ns \in Seq(Nat) /\ l.u_map \in KeyTables
      /\ q \in Seq(Keys) /\ Len(q) = Len(ns) /\ Len(q) \in Nat
      /\ DOMAIN l.u_map = ToSet(q)
  BY DEF Tabled, Chain, Ends, ListStates
<1>2. DOMAIN q = 1 .. Len(q) /\ ToSet(q) = { q[i] : i \in 1 .. Len(q) }
  BY <1>1 DEF ToSet
<1>3. \A i \in 1 .. Len(q) : q[i] \in Keys /\ q[i] \in Int
  <2>1. Keys \subseteq Int
    BY ProtoAssumption
  <2>2. \A i \in 1 .. Len(q) : q[i] \in Keys
    BY <1>1
  <2> QED BY <2>1, <2>2
<1>4. \A i \in 1 .. Len(ns) : ns[i] \in DOMAIN l.node
  BY <1>1, ChainNodes
<1>5. \A i \in 1 .. Len(q) : l.u_map[q[i]] = ns[i] /\ l.node[ns[i]].key = q[i]
  BY DEF Tabled
<1> QED BY <1>1, <1>2, <1>3, <1>4, <1>5

\* A list without its node at place i
LEMMA TabledRemove ==
  ASSUME NEW l, NEW ns, NEW q, Tabled(l, ns, q), NEW i \in 1 .. Len(q),
         NEW t, t.u_map = Drop(l.u_map, q[i]), Chain(t, RemoveAt(ns, i)),
         \A x \in DOMAIN t.node : t.node[x].key = l.node[x].key
  PROVE  Tabled(t, RemoveAt(ns, i), RemoveAt(q, i))
<1> DEFINE ms == RemoveAt(ns, i)
           r == RemoveAt(q, i)
<1>1. /\ r \in Seq(Keys) /\ Len(r) = Len(q) - 1 /\ Len(r) \in Nat
      /\ \A j \in 1 .. Len(r) : r[j] = IF j < i THEN q[j] ELSE q[j + 1]
  <2>1. q \in Seq(Keys) /\ Len(q) \in Nat /\ i \in 1 .. Len(q)
    BY TabledFacts
  <2>2. /\ r \in Seq(Keys) /\ Len(r) = Len(q) - 1
        /\ \A j \in 1 .. Len(q) - 1 : r[j] = IF j < i THEN q[j] ELSE q[j + 1]
    BY <2>1, RemoveAtElements
  <2> QED BY <2>1, <2>2
<1>2. /\ ns \in Seq(Nat) /\ Len(ns) = Len(q)
      /\ \A a, b \in 1 .. Len(q) : q[a] = q[b] => a = b
      /\ \A a \in 1 .. Len(q) : l.node[ns[a]].key = q[a] /\ l.u_map[q[a]] = ns[a]
      /\ DOMAIN l.u_map = ToSet(q)
  BY DEF Tabled, Chain
<1>3. /\ Len(ms) = Len(r)
      /\ \A j \in 1 .. Len(r) : ms[j] = IF j < i THEN ns[j] ELSE ns[j + 1]
  <2>1. ns \in Seq(Nat) /\ i \in 1 .. Len(ns) /\ Len(r) = Len(ns) - 1
    BY <1>1, <1>2
  <2>2. /\ Len(ms) = Len(ns) - 1
        /\ \A j \in 1 .. Len(ns) - 1 : ms[j] = IF j < i THEN ns[j] ELSE ns[j + 1]
    BY <2>1, RemoveAtElements
  <2> QED BY <2>1, <2>2
<1>4. \A j \in 1 .. Len(r) : ms[j] \in DOMAIN t.node
  <2>1. Chain(t, ms)
    OBVIOUS
  <2> HIDE DEF ms
  <2> QED BY <1>3, <2>1, ChainNodes
<1>5. Lists(q, ToSet(q)) /\ Lists(r, ToSet(q) \ {q[i]})
  <2>1. Lists(q, ToSet(q))
    BY <1>2 DEF Lists, IsInjective, Tabled
  <2> QED BY <2>1, ListsRemoveAt DEF Tabled
<1> HIDE DEF ms, r
<1>6. ASSUME NEW j \in 1 .. Len(r)
      PROVE  t.node[ms[j]].key = r[j] /\ t.u_map[r[j]] = ms[j]
  <2>1. PICK a \in 1 .. Len(q) : r[j] = q[a] /\ ms[j] = ns[a] /\ a # i
    <3>1. CASE j < i
      BY <1>1, <1>3, <3>1
    <3>2. CASE ~(j < i)
      <4>1. j + 1 \in 1 .. Len(q) /\ j + 1 # i
        BY <1>1, <3>2
      <4> QED BY <1>1, <1>3, <3>2, <4>1
    <3> QED BY <3>1, <3>2
  <2>2. t.node[ms[j]].key = l.node[ms[j]].key
    BY <1>4
  <2>3. q[a] # q[i] /\ q[a] \in DOMAIN l.u_map
    BY <1>2, <2>1 DEF ToSet, Tabled
  <2>4. t.u_map[q[a]] = l.u_map[q[a]]
    BY <2>3 DEF Drop
  <2> QED BY <1>2, <2>1, <2>2, <2>4
<1>7. DOMAIN t.u_map = ToSet(r)
  BY <1>2, <1>5 DEF Drop, Lists
<1>8. \A a, b \in 1 .. Len(r) : r[a] = r[b] => a = b
  BY <1>1, <1>5 DEF Lists, IsInjective
<1>9. Chain(t, ms)
  BY DEF ms
<1> QED BY <1>1, <1>3, <1>6, <1>7, <1>8, <1>9 DEF Tabled, ms, r

LEMMA TabledRemoveKey ==
  ASSUME NEW l, NEW ns, NEW q, Tabled(l, ns, q), NEW i \in 1 .. Len(q)
  PROVE  Tabled(RemoveKey(l, q[i]), RemoveAt(ns, i), RemoveAt(q, i))
<1> DEFINE u == remove(l, ns[i])
           x == Drop(l.u_map, q[i])
           t == [u EXCEPT !.u_map = x]
<1>1. /\ Chain(l, ns) /\ l.u_map[q[i]] = ns[i] /\ i \in 1 .. Len(ns)
      /\ q[i] \in Int /\ l.u_map \in KeyTables
  BY TabledFacts
<1>2. /\ Chain(u, RemoveAt(ns, i)) /\ u.u_map = l.u_map
      /\ \A y \in DOMAIN u.node : u.node[y].key = l.node[y].key
  BY <1>1, ChainRemove
<1>3. x \in KeyTables
  BY <1>1, KeyTableFacts
<1>4. RemoveKey(l, q[i]) = t
  BY <1>1, <1>2 DEF RemoveKey
<1> HIDE DEF u, x
<1>5. Chain(t, RemoveAt(ns, i)) /\ t.node = u.node /\ t.u_map = x
  BY <1>2, <1>3, ChainTable
<1> HIDE DEF t
<1>6. Tabled(t, RemoveAt(ns, i), RemoveAt(q, i))
  BY <1>2, <1>5, TabledRemove DEF x
<1> QED BY <1>4, <1>6

LEMMA TabledPopBack ==
  ASSUME NEW l, NEW ns, NEW q, Tabled(l, ns, q), q # <<>>
  PROVE  Tabled(PopBack(l), RemoveAt(ns, Len(q)), RemoveAt(q, Len(q)))
<1> DEFINE i == Len(q)
           x == Drop(l.u_map, q[i])
           u == [l EXCEPT !.u_map = x]
           t == remove(u, ns[i])
<1>1. i \in 1 .. Len(q) /\ i \in 1 .. Len(ns) /\ q[i] \in Int
  <2>1. Len(q) # 0 /\ Len(q) \in Nat
    BY EmptySeq, TabledFacts
  <2>2. i \in 1 .. Len(q)
    BY <2>1
  <2> QED BY <2>2, TabledFacts
<1>2. Chain(l, ns) /\ l.u_map \in KeyTables /\ l.node[ns[i]].key = q[i]
      /\ Len(ns) = i
  BY <1>1 DEF Tabled, Chain, Ends, ListStates
<1>3. l.tail = ns[i] /\ ns[i] \in DOMAIN l.node
  <2>1. Len(ns) # 0
    BY <1>1, <1>2
  <2>2. l.tail = ns[Len(ns)]
    BY <1>2, <2>1, ChainEnds
  <2> QED BY <1>1, <1>2, <2>2, TabledFacts
<1>4. x \in KeyTables
  BY <1>1, <1>2, KeyTableFacts
<1>5. PopBack(l) = t
  BY <1>2, <1>3 DEF PopBack, Live
<1> HIDE DEF i, x
<1>6. Chain(u, ns) /\ u.node = l.node /\ u.u_map = x
  BY <1>2, <1>4, ChainTable
<1> HIDE DEF u
<1>7. /\ Chain(t, RemoveAt(ns, i)) /\ t.u_map = u.u_map
      /\ \A y \in DOMAIN t.node : t.node[y].key = u.node[y].key
  BY <1>1, <1>6, ChainRemove
<1> HIDE DEF t
<1>8. Tabled(t, RemoveAt(ns, i), RemoveAt(q, i))
  <2>1. t.u_map = Drop(l.u_map, q[i])
    BY <1>6, <1>7 DEF x
  <2>2. \A y \in DOMAIN t.node : t.node[y].key = l.node[y].key
    BY <1>6, <1>7
  <2> QED BY <1>1, <1>7, <2>1, <2>2, TabledRemove
<1> QED BY <1>5, <1>8 DEF i

\* A key that is not in the list becomes its first.
LEMMA TabledPushFront ==
  ASSUME NEW l, NEW ns, NEW q, Tabled(l, ns, q), NEW k \in Keys,
         k \notin ToSet(q)
  PROVE  \E ms : Tabled(PushFront(l, k), ms, <<k>> \o q)
<1> DEFINE n == l.made + 1
           ms == <<n>> \o ns
           r == <<k>> \o q
           u == push_front(l, k)
           x == Put(l.u_map, k, n)
           t == [u EXCEPT !.u_map = x]
<1>1. /\ Chain(l, ns) /\ k \in Int /\ l.u_map \in KeyTables /\ n \in Nat
      /\ q \in Seq(Keys) /\ ns \in Seq(Nat) /\ Len(ns) = Len(q)
      /\ k \notin DOMAIN l.u_map
  BY ProtoAssumption DEF Tabled, Chain, Ends, ListStates
<1>2. /\ Chain(u, ms) /\ u.u_map = l.u_map /\ u.head = n
      /\ u.node[n].key = k
      /\ n \notin DOMAIN l.node /\ DOMAIN u.node = DOMAIN l.node \cup {n}
      /\ \A y \in DOMAIN l.node : u.node[y].key = l.node[y].key
  BY <1>1, ChainFront
<1>3. x \in KeyTables
  BY <1>1, KeyTableFacts
<1>4. PushFront(l, k) = t
  BY <1>1, <1>2 DEF PushFront, Count
<1>5. /\ r \in Seq(Keys) /\ Len(r) = Len(q) + 1 /\ r[1] = k
      /\ \A i \in 1 .. Len(q) + 1 :
           i # 1 => i - 1 \in 1 .. Len(q) /\ r[i] = q[i - 1]
  BY <1>1, FrontIs
<1>6. /\ ms \in Seq(Nat) /\ Len(ms) = Len(q) + 1 /\ ms[1] = n
      /\ \A i \in 1 .. Len(q) + 1 :
           i # 1 => i - 1 \in 1 .. Len(q) /\ ms[i] = ns[i - 1]
  BY <1>1, FrontIs
<1>7. \A i \in 1 .. Len(q) : /\ l.node[ns[i]].key = q[i] /\ l.u_map[q[i]] = ns[i]
                             /\ ns[i] \in DOMAIN l.node /\ q[i] \in DOMAIN l.u_map
                             /\ q[i] # k
  BY TabledFacts
<1> HIDE DEF n, ms, r, u, x
<1>8. Chain(t, ms) /\ t.node = u.node /\ t.u_map = x
  BY <1>2, <1>3, ChainTable
<1> HIDE DEF t
<1>9. ASSUME NEW i \in 1 .. Len(r)
      PROVE  t.node[ms[i]].key = r[i] /\ t.u_map[r[i]] = ms[i]
  <2>1. CASE i = 1
    BY <1>2, <1>5, <1>6, <1>8, <2>1 DEF x, Put
  <2>2. CASE i # 1
    <3>1. i - 1 \in 1 .. Len(q) /\ r[i] = q[i - 1] /\ ms[i] = ns[i - 1]
      BY <1>5, <1>6, <2>2
    <3>2. t.node[ms[i]].key = q[i - 1]
      BY <1>2, <1>7, <1>8, <3>1
    <3>3. t.u_map[q[i - 1]] = ns[i - 1]
      BY <1>7, <1>8, <3>1 DEF x, Put
    <3> QED BY <3>1, <3>2, <3>3
  <2> QED BY <2>1, <2>2
<1>10. \A i, j \in 1 .. Len(r) : r[i] = r[j] => i = j
  <2>1. \A i \in 1 .. Len(r) : i # 1 => r[i] # k
    BY <1>5, <1>7
  <2>2. \A i, j \in 1 .. Len(q) : q[i] = q[j] => i = j
    BY DEF Tabled
  <2>3. ASSUME NEW i \in 1 .. Len(r), NEW j \in 1 .. Len(r), r[i] = r[j] PROVE i = j
    <3>1. CASE i = 1 \/ j = 1
      BY <1>5, <2>1, <2>3, <3>1
    <3>2. CASE i # 1 /\ j # 1
      <4>1. i - 1 = j - 1
        BY <1>5, <2>2, <2>3, <3>2
      <4> QED BY <4>1
    <3> QED BY <3>1, <3>2
  <2> QED BY <2>3
<1>11. DOMAIN t.u_map = ToSet(r)
  <2>1. ToSet(r) = ToSet(q) \cup {k}
    <3>1. DOMAIN r = 1 .. Len(q) + 1 /\ DOMAIN q = 1 .. Len(q) /\ Len(q) \in Nat
      BY <1>1, <1>5
    <3>2. ASSUME NEW y \in ToSet(r) PROVE y \in ToSet(q) \cup {k}
      BY <1>5, <3>1, <3>2 DEF ToSet
    <3>3. ASSUME NEW y \in ToSet(q) PROVE y \in ToSet(r)
      <4>1. PICK i \in 1 .. Len(q) : y = q[i]
        BY <3>1 DEF ToSet
      <4>2. i + 1 \in 1 .. Len(q) + 1 /\ i + 1 # 1 /\ (i + 1) - 1 = i
        BY <3>1
      <4>3. r[i + 1] = y
        BY <1>5, <4>1, <4>2
      <4> QED BY <3>1, <4>2, <4>3 DEF ToSet
    <3>4. k \in ToSet(r)
      <4>1. 1 \in 1 .. Len(q) + 1
        BY <3>1
      <4> QED BY <1>5, <3>1, <4>1 DEF ToSet
    <3> QED BY <3>2, <3>3, <3>4
  <2> QED BY <1>8, <2>1 DEF x, Put, Tabled
<1>12. Tabled(t, ms, r)
  BY <1>5, <1>6, <1>8, <1>9, <1>10, <1>11 DEF Tabled
<1> QED BY <1>4, <1>12 DEF r

\* The operators of LinkList, as LRU has them
LEMMA ListOfLRU ==
  ASSUME NEW l, NEW k
  PROVE  /\ LRU!Count(l, k) = Count(l, k)
         /\ LRU!RemoveKey(l, k) = RemoveKey(l, k)
         /\ LRU!PushFront(l, k) = PushFront(l, k)
         /\ LRU!PopBack(l) = PopBack(l)
<1> USE DEF LRU!nullptr, nullptr, LRU!Live, Live, LRU!Put, Put, LRU!Drop, Drop
<1>1. ASSUME NEW s, NEW n, NEW p
      PROVE  LRU!SetPred(s, n, p) = SetPred(s, n, p)
             /\ LRU!SetNext(s, n, p) = SetNext(s, n, p)
  BY DEF LRU!SetPred, SetPred, LRU!SetNext, SetNext
<1>2. ASSUME NEW s PROVE LRU!push_front(s, k) = push_front(s, k)
  BY <1>1 DEF LRU!push_front, push_front
<1>3. ASSUME NEW y, NEW n PROVE LRU!remove(y, n) = remove(y, n)
  <2> DEFINE x == y.node[n]
             s == [y EXCEPT !.head = IF @ = n THEN x.next ELSE @,
                            !.tail = IF @ = n THEN x.pred ELSE @]
             t == IF x.pred = 0 THEN s ELSE SetNext(s, x.pred, x.next)
             u == IF x.next = 0 THEN t ELSE SetPred(t, x.next, x.pred)
             v == IF x.pred = 0 THEN s ELSE LRU!SetNext(s, x.pred, x.next)
             w == IF x.next = 0 THEN v ELSE LRU!SetPred(v, x.next, x.pred)
  <2>1. remove(y, n) = IF n \notin DOMAIN y.node THEN [y EXCEPT !.ub = TRUE]
                       ELSE [u EXCEPT !.node = Drop(@, n), !.size = @ - 1]
    BY DEF remove
  <2>2. LRU!remove(y, n) = IF n \notin DOMAIN y.node THEN [y EXCEPT !.ub = TRUE]
                           ELSE [w EXCEPT !.node = Drop(@, n), !.size = @ - 1]
    BY DEF LRU!remove
  <2>3. t = v
    BY <1>1
  <2> HIDE DEF t, v
  <2>4. u = w
    BY <1>1, <2>3
  <2> HIDE DEF u, w
  <2> QED BY <2>1, <2>2, <2>4
<1>4. LRU!Count(l, k) = Count(l, k)
  BY DEF LRU!Count, Count
<1>5. LRU!RemoveKey(l, k) = RemoveKey(l, k)
  BY <1>3 DEF LRU!RemoveKey, RemoveKey
<1>6. LRU!PushFront(l, k) = PushFront(l, k)
  BY <1>2, <1>4, <1>5 DEF LRU!PushFront, PushFront
<1>7. LRU!PopBack(l) = PopBack(l)
  BY <1>3 DEF LRU!PopBack, PopBack
<1> QED BY <1>4, <1>5, <1>6, <1>7

LEMMA ReadOfLRU ==
  ASSUME NEW l
  PROVE  LRU!Sequence(l) = Sequence(l) /\ LRU!Linked(l) = Linked(l)
<1> USE DEF LRU!nullptr, nullptr, LRU!Live, Live
<1>1. ASSUME NEW first, NEW dir PROVE LRU!Walk(l, first, dir) = Walk(l, first, dir)
  BY DEF LRU!Walk, Walk, LRU!Last, Last
<1>2. LRU!Forward(l) = Forward(l) /\ LRU!Backward(l) = Backward(l)
  BY <1>1 DEF LRU!Forward, Forward, LRU!Backward, Backward
<1>3. LRU!Sequence(l) = Sequence(l)
  BY <1>2 DEF LRU!Sequence, Sequence
<1>4. \A s : /\ LRU!Reverse(s) = Reverse(s) /\ LRU!ToSet(s) = ToSet(s)
             /\ LRU!IsInjective(s) = IsInjective(s)
  BY DEF LRU!Reverse, Reverse, LRU!ToSet, ToSet, LRU!IsInjective, IsInjective
<1>5. \A s, S : LRU!Lists(s, S) = Lists(s, S)
  BY <1>4 DEF LRU!Lists, Lists
<1>6. LRU!Chained(l) = Chained(l)
  BY <1>2, <1>4, <1>5 DEF LRU!Chained, Chained
<1>7. LRU!Linked(l) = Linked(l)
  BY <1>3, <1>4, <1>6 DEF LRU!Linked, Linked
<1> QED BY <1>3, <1>7

LEMMA LatestIs ==
  ASSUME Turn, NEW k
  PROVE  /\ k = key_ => Uses(k, 1)' # {} /\ Max(Uses(k, 1))' = ts + 1
         /\ k # key_ => Uses(k, 1)' = Uses(k, 1)
                        /\ Max(Uses(k, 1))' = Max(Uses(k, 1))
         /\ Uses(k, 1) # {} => Max(Uses(k, 1)) \in Nat /\ Max(Uses(k, 1)) <= ts
<1>1. ts \in Nat /\ 1 <= ts + 1 /\ Uses(k, 1) \subseteq 1 .. ts
  BY TurnFacts, UsesFinite DEF Turn
<1>2. Uses(k, 1)' = IF k = key_ THEN Uses(k, 1) \cup {ts + 1} ELSE Uses(k, 1)
  BY <1>1, UsesAre
<1>3. ASSUME Uses(k, 1) # {}
      PROVE  Max(Uses(k, 1)) \in Nat /\ Max(Uses(k, 1)) <= ts
  <2>1. Uses(k, 1) \in SUBSET (0 .. ts)
    BY <1>1
  <2>2. Max(Uses(k, 1)) \in Uses(k, 1) /\ Max(Uses(k, 1)) \in Nat
    BY <1>1, <1>3, <2>1, MaxOfPlaces
  <2> QED BY <1>1, <2>2
<1>4. ASSUME k = key_ PROVE Uses(k, 1)' # {} /\ Max(Uses(k, 1))' = ts + 1
  <2> DEFINE S == Uses(k, 1) \cup {ts + 1}
  <2>1. Uses(k, 1)' = S
    BY <1>2, <1>4
  <2>2. S \in SUBSET (0 .. ts + 1) /\ ts + 1 \in Nat /\ ts + 1 \in S
    BY <1>1
  <2> HIDE DEF S
  <2>3. Max(S) \in S /\ Max(S) \in Nat /\ ts + 1 <= Max(S)
    BY <2>2, MaxOfPlaces
  <2>4. Max(S) = ts + 1
    BY <1>1, <2>2, <2>3
  <2> QED BY <2>1, <2>2, <2>4
<1>5. k # key_ => Uses(k, 1)' = Uses(k, 1)
                  /\ Max(Uses(k, 1))' = Max(Uses(k, 1))
  BY <1>2
<1> QED BY <1>3, <1>4, <1>5

\* The pages of the list q, the most recently accessed first
Recent(q) ==
  /\ \A i \in 1 .. Len(q) : Uses(q[i], 1) # {}
  /\ \A i, j \in 1 .. Len(q) : i < j => Max(Uses(q[j], 1)) < Max(Uses(q[i], 1))

LEMMA RecentRemove ==
  ASSUME NEW q \in Seq(Keys), NEW i \in 1 .. Len(q), Recent(q)
  PROVE  Recent(RemoveAt(q, i))
<1> DEFINE r == RemoveAt(q, i)
           At0(j) == IF j < i THEN j ELSE j + 1
<1>1. /\ Len(q) \in Nat /\ Len(r) = Len(q) - 1
      /\ \A j \in 1 .. Len(q) - 1 : r[j] = IF j < i THEN q[j] ELSE q[j + 1]
  BY RemoveAtElements
<1> HIDE DEF r
<1>2. \A j \in 1 .. Len(r) : r[j] = q[At0(j)] /\ At0(j) \in 1 .. Len(q)
  BY <1>1
<1>3. \A j, x \in 1 .. Len(r) : j < x => At0(j) < At0(x)
  BY <1>1
<1> HIDE DEF At0
<1>4. Recent(r)
  BY <1>2, <1>3 DEF Recent
<1> QED BY <1>4 DEF r

\* A page accessed moves to the front.
LEMMA RecentFront ==
  ASSUME Turn, NEW k, k = key_, NEW q \in Seq(Keys), Recent(q),
         k \notin ToSet(q)
  PROVE  Recent(<<k>> \o q)'
<1> DEFINE r == <<k>> \o q
<1>1. k \in Keys /\ ts \in Nat
  BY TurnFacts
<1>2. /\ Len(r) = Len(q) + 1 /\ r[1] = k /\ Len(q) \in Nat
      /\ \A i \in 1 .. Len(q) + 1 :
           i # 1 => i - 1 \in 1 .. Len(q) /\ r[i] = q[i - 1]
  BY <1>1, FrontIs
<1>3. \A i \in 1 .. Len(q) : q[i] # k
  BY <1>2 DEF ToSet
<1> HIDE DEF r
<1>4. Uses(k, 1)' # {} /\ Max(Uses(k, 1))' = ts + 1
  BY LatestIs
<1>5. ASSUME NEW i \in 1 .. Len(q)
      PROVE  /\ Uses(q[i], 1)' # {} /\ Max(Uses(q[i], 1))' = Max(Uses(q[i], 1))
             /\ Max(Uses(q[i], 1)) \in Nat /\ Max(Uses(q[i], 1)) <= ts
  <2>1. q[i] # key_ /\ Uses(q[i], 1) # {}
    BY <1>3 DEF Recent
  <2> DEFINE x == q[i]
  <2>2. x # key_ /\ Uses(x, 1) # {} /\ x' = x
    BY <2>1
  <2> HIDE DEF x
  <2> QED BY <2>1, LatestIs
<1>6. r' = r
  BY DEF r
<1>7. ASSUME NEW i \in 1 .. Len(r) PROVE Uses(r[i], 1)' # {}
  <2>1. CASE i = 1
    BY <1>2, <1>4, <2>1
  <2>2. CASE i # 1
    <3>1. i - 1 \in 1 .. Len(q) /\ r[i] = q[i - 1]
      BY <1>2, <2>2
    <3> QED BY <1>5, <3>1
  <2> QED BY <2>1, <2>2
<1>8. ASSUME NEW i \in 1 .. Len(r), NEW j \in 1 .. Len(r), i < j
      PROVE  Max(Uses(r[j], 1))' < Max(Uses(r[i], 1))'
  <2>1. j # 1 /\ j - 1 \in 1 .. Len(q) /\ r[j] = q[j - 1]
    BY <1>2, <1>8
  <2>2. /\ Max(Uses(r[j], 1))' = Max(Uses(q[j - 1], 1))
        /\ Max(Uses(q[j - 1], 1)) \in Nat /\ Max(Uses(q[j - 1], 1)) <= ts
    BY <1>5, <2>1
  <2>3. CASE i = 1
    BY <1>1, <1>2, <1>4, <2>2, <2>3
  <2>4. CASE i # 1
    <3>1. i - 1 \in 1 .. Len(q) /\ r[i] = q[i - 1] /\ i - 1 < j - 1
      BY <1>2, <1>8, <2>4
    <3>2. Max(Uses(r[i], 1))' = Max(Uses(q[i - 1], 1))
      BY <1>5, <3>1
    <3> QED BY <2>1, <2>2, <3>1, <3>2 DEF Recent
  <2> QED BY <2>3, <2>4
<1>9. Recent(r)'
  BY <1>6, <1>7, <1>8 DEF Recent
<1> QED BY <1>9 DEF r

\* The invariant of LRU
LRUInv ==
  \E ns, q : Tabled(cache, ns, q) /\ Len(q) <= buffer_size_ /\ Recent(q)

LEMMA TabledPrime ==
  ASSUME NEW ns, NEW q, Tabled(cache', ns, q)
  PROVE  Tabled(cache, ns, q)'
BY DEF Tabled, Chain, Ends, ListStates, NodeTables, KeyTables, ListNodes, At,
       nullptr, Distinct, Elements, NodeIs

\* An access puts its page first, after the page itself or the last one has
\* left, if one has.
LEMMA LRUFront ==
  ASSUME Turn, NEW k, k = key_, NEW ns, NEW q,
         NEW l, Tabled(l, ns, q), Recent(q), k \notin ToSet(q),
         Len(q) < buffer_size_, cache' = PushFront(l, k)
  PROVE  LRUInv' /\ \E ms : Tabled(cache', ms, <<k>> \o q)
<1>1. k \in Keys /\ buffer_size_ \in Nat /\ buffer_size_' = buffer_size_
  BY TurnFacts
<1>2. PICK ms : Tabled(cache', ms, <<k>> \o q)
  BY <1>1, TabledPushFront
<1>3. q \in Seq(Keys) /\ Len(q) \in Nat
  BY TabledFacts
<1>4. Len(<<k>> \o q) = Len(q) + 1
  BY <1>1, <1>3, FrontIs
<1>5. Recent(<<k>> \o q)'
  BY <1>3, RecentFront
<1> DEFINE r == <<k>> \o q
<1>6. Tabled(cache, ms, r)' /\ Len(r) <= buffer_size_' /\ Recent(r)' /\ r' = r
  BY <1>1, <1>2, <1>3, <1>4, <1>5, TabledPrime
<1> HIDE DEF r
<1>7. LRUInv'
  BY <1>6 DEF LRUInv
<1> QED BY <1>2, <1>7

LEMMA LRUTurn ==
  ASSUME Turn, NEW k, k = key_, LRUInv, LRU!access(k)
  PROVE  /\ LRUInv'
         /\ Demand(ToSet(Sequence(cache)), ToSet(Sequence(cache')), k)
         /\ Counts(k \in ToSet(Sequence(cache)))
<1>1. /\ k \in Keys
      /\ buffer_size_ \in Nat \ {0} /\ buffer_size_' = buffer_size_
      /\ hit_count_ \in Nat /\ miss_count_ \in Nat
  BY TurnFacts
<1>2. PICK ns, q : Tabled(cache, ns, q) /\ Len(q) <= buffer_size_ /\ Recent(q)
  BY DEF LRUInv
<1> DEFINE R == ToSet(q)
<1>3. /\ Sequence(cache) = q /\ cache.size = Len(q)
      /\ q \in Seq(Keys) /\ Len(q) \in Nat /\ DOMAIN cache.u_map = R
      /\ R = { q[i] : i \in 1 .. Len(q) }
  BY <1>2, TabledLinked, TabledFacts
<1>4. Lists(q, R) /\ Cardinality(R) = Len(q)
  <2>1. Lists(q, R)
    BY <1>2, <1>3 DEF Lists, IsInjective, Tabled
  <2> QED BY <1>3, <2>1, ListsLength
<1>5. ASSUME NEW l, NEW ms, NEW r, Tabled(l, ms, r), Recent(r), k \notin ToSet(r),
             Len(r) < buffer_size_, cache' = PushFront(l, k)
      PROVE  LRUInv' /\ ToSet(Sequence(cache')) = ToSet(r) \cup {k}
  <2>1. LRUInv' /\ \E xs : Tabled(cache', xs, <<k>> \o r)
    BY <1>5, LRUFront
  <2>2. Sequence(cache') = <<k>> \o r
    BY <2>1, TabledLinked
  <2>3. r \in Seq(Keys) /\ Lists(r, ToSet(r))
    BY <1>5, TabledFacts DEF Tabled, Lists, IsInjective
  <2>4. ToSet(<<k>> \o r) = ToSet(r) \cup {k}
    BY <1>1, <1>5, <2>3, ListsPush DEF Lists
  <2> QED BY <2>1, <2>2, <2>4
<1>6. CASE LRU!Hit(k)
  <2>1. /\ k \in R /\ cache' = PushFront(RemoveKey(cache, k), k)
        /\ hit_count_' = hit_count_ + 1 /\ miss_count_' = miss_count_
    BY <1>3, <1>6, ListOfLRU DEF LRU!Hit, LRU!CountHit, Count
  <2>2. PICK i \in 1 .. Len(q) : k = q[i]
    BY <1>3, <2>1
  <2> DEFINE r == RemoveAt(q, i)
  <2>3. /\ Tabled(RemoveKey(cache, k), RemoveAt(ns, i), r) /\ Recent(r)
        /\ Len(r) = Len(q) - 1 /\ Lists(r, R \ {k})
    BY <1>2, <1>3, <1>4, <2>2, TabledRemoveKey, RecentRemove, ListsRemoveAt
  <2>4. ToSet(r) = R \ {k} /\ Len(r) < buffer_size_
    BY <1>1, <1>2, <1>3, <2>3 DEF Lists
  <2> HIDE DEF r
  <2>5. LRUInv' /\ ToSet(Sequence(cache')) = ToSet(r) \cup {k}
    BY <1>5, <2>1, <2>3, <2>4
  <2>6. ToSet(Sequence(cache')) = R
    BY <2>1, <2>4, <2>5
  <2> QED BY <1>3, <2>1, <2>5, <2>6 DEF Demand, Counts
<1>7. CASE LRU!Miss(k)
  <2> DEFINE full == cache.size = buffer_size_
             l == IF full THEN PopBack(cache) ELSE cache
  <2>1. /\ k \notin R /\ cache' = PushFront(l, k)
        /\ hit_count_' = hit_count_ /\ miss_count_' = miss_count_ + 1
    BY <1>3, <1>7, ListOfLRU DEF LRU!Miss, LRU!CountMiss, Count
  <2>2. CASE ~full
    <3>1. Len(q) < buffer_size_ /\ l = cache
      BY <1>1, <1>2, <1>3, <2>2
    <3>2. LRUInv' /\ ToSet(Sequence(cache')) = R \cup {k}
      BY <1>2, <1>5, <2>1, <3>1
    <3> QED BY <1>3, <1>4, <2>1, <3>1, <3>2 DEF Demand, Counts
  <2>3. CASE full
    <3> DEFINE i == Len(q)
               r == RemoveAt(q, i)
    <3>1. i = buffer_size_ /\ i \in 1 .. Len(q) /\ q # <<>> /\ l = PopBack(cache)
      <4>1. i = buffer_size_ /\ i \in Nat \ {0}
        BY <1>1, <1>3, <2>3
      <4>2. q # <<>>
        BY <1>3, <4>1
      <4>3. l = PopBack(cache)
        BY <2>3
      <4> QED BY <4>1, <4>2, <4>3
    <3>2. /\ Tabled(l, RemoveAt(ns, i), r) /\ Recent(r)
          /\ Len(r) = Len(q) - 1 /\ Lists(r, R \ {q[i]})
      BY <1>2, <1>3, <1>4, <3>1, TabledPopBack, RecentRemove, ListsRemoveAt
    <3>3. ToSet(r) = R \ {q[i]} /\ Len(r) < buffer_size_ /\ q[i] \in R
      BY <1>1, <1>2, <1>3, <3>1, <3>2 DEF Lists
    <3> HIDE DEF r, l
    <3>4. LRUInv' /\ ToSet(Sequence(cache')) = ToSet(r) \cup {k}
      BY <1>5, <2>1, <3>2, <3>3
    <3> QED BY <1>3, <1>4, <2>1, <3>1, <3>3, <3>4 DEF Demand, Counts
  <2> QED BY <2>2, <2>3
<1> QED BY <1>6, <1>7 DEF LRU!access

\* What the run checks of LRU
LEMMA LRUSound ==
  ASSUME Running, LRUInv
  PROVE  /\ LRU!Sound /\ ByRecency(Reverse(LRU!Pages))
         /\ LRU!resident = ToSet(Sequence(cache))
         /\ Fits(ToSet(Sequence(cache)))
<1>1. PICK ns, q : Tabled(cache, ns, q) /\ Len(q) <= buffer_size_ /\ Recent(q)
  BY DEF LRUInv
<1>2. Linked(cache) /\ Sequence(cache) = q
  BY <1>1, TabledLinked
<1>3. LRU!Sound /\ LRU!Pages = q
  BY <1>2, ReadOfLRU DEF LRU!Sound, LRU!Pages
<1>4. q \in Seq(Keys) /\ Len(q) \in Nat /\ DOMAIN q = 1 .. Len(q)
      /\ ToSet(q) = { q[i] : i \in 1 .. Len(q) }
  BY <1>1, TabledFacts
<1>5. ByRecency(Reverse(q))
  <2> DEFINE r == Reverse(q)
  <2>1. DOMAIN r = 1 .. Len(q) /\ \A i \in 1 .. Len(q) : r[i] = q[Len(q) - i + 1]
    BY <1>4 DEF Reverse
  <2> HIDE DEF r
  <2>2. \A i, j \in 1 .. Len(q) :
          i < j => /\ Len(q) - i + 1 \in 1 .. Len(q) /\ Len(q) - j + 1 \in 1 .. Len(q)
                   /\ Len(q) - j + 1 < Len(q) - i + 1
    BY <1>4
  <2>3. ByRecency(r)
    BY <1>1, <2>1, <2>2 DEF ByRecency, Recent
  <2> QED BY <2>3 DEF r
<1>6. LRU!resident = ToSet(q)
  BY <1>3 DEF LRU!resident, LRU!ToSet, ToSet
<1>7. Fits(ToSet(q))
  <2>1. Lists(q, ToSet(q))
    BY <1>1, <1>4 DEF Lists, IsInjective, Tabled
  <2>2. Cardinality(ToSet(q)) = Len(q)
    BY <1>4, <2>1, ListsLength
  <2>3. ToSet(q) \subseteq Keys
    BY <1>4
  <2> QED BY <1>1, <2>2, <2>3 DEF Fits
<1> QED BY <1>2, <1>3, <1>5, <1>6, <1>7

-----------------------------------------------------------------------------
(* OPT: the places of a page that are still to come *)

LEMMA ComingRead ==
  ASSUME NEW l, NEW S, Coming(l, S)
  PROVE  LET q == Sequence(l)
         IN /\ Chained(l) /\ ToSet(q) = S /\ Increasing(q)
            /\ q = <<>> <=> S = {}
            /\ q # <<>> => Head(q) = l.node[l.head].key
<1>1. PICK ns : ComingBy(l, S, ns)
  BY DEF Coming
<1> DEFINE q == Sequence(l)
<1>2. Chain(l, ns) /\ Len(ns) \in Nat
  BY <1>1, ChainNodes DEF ComingBy
<1>3. Chained(l) /\ q = [i \in 1 .. Len(ns) |-> l.node[ns[i]].key]
  BY <1>2, ChainIs DEF KeysOf
<1>4. q \in Seq(Int) /\ Len(q) = Len(ns) /\ DOMAIN q = 1 .. Len(ns)
      /\ \A i \in 1 .. Len(ns) : q[i] = l.node[ns[i]].key
  <2>1. \A i \in 1 .. Len(ns) : l.node[ns[i]].key \in Int
    BY <1>2 DEF Chain, NodeIs, ListNodes
  <2>2. q \in [1 .. Len(ns) -> Int]
    BY <1>3, <2>1
  <2>3. q \in Seq(Int) /\ Len(q) = Len(ns)
    BY <1>2, <2>2
  <2> QED BY <1>3, <2>3
<1> HIDE DEF q
<1>5. ToSet(q) = S /\ Increasing(q)
  BY <1>1, <1>4 DEF ComingBy, ToSet, Increasing
<1>6. q = <<>> <=> S = {}
  <2>1. q = <<>> <=> Len(ns) = 0
    BY <1>4, EmptySeq
  <2>2. S = {} <=> Len(ns) = 0
    <3>1. l.size = Len(ns)
      BY <1>2 DEF Chain, Ends
    <3> QED BY <3>1, ComingFirst
  <2> QED BY <2>1, <2>2
<1>7. ASSUME q # <<>> PROVE Head(q) = l.node[l.head].key
  <2>1. Len(ns) # 0
    BY <1>4, <1>7, EmptySeq
  <2>2. l.head = ns[1] /\ 1 \in 1 .. Len(ns)
    BY <1>2, <2>1, ChainEnds
  <2>3. Head(q) = q[1]
    BY <1>4, <1>7
  <2> QED BY <1>4, <2>2, <2>3
<1> QED BY <1>3, <1>5, <1>6, <1>7 DEF q

\* The operators of LinkList, as OPT has them
LEMMA ListOfOPT ==
  ASSUME NEW l, NEW k
  PROVE  OPT!push_back(l, k) = push_back(l, k) /\ OPT!pop_front(l) = pop_front(l)
<1> USE DEF OPT!nullptr, nullptr, OPT!Live, Live, OPT!Put, Put, OPT!Drop, Drop
<1>1. ASSUME NEW s, NEW n, NEW p
      PROVE  OPT!SetPred(s, n, p) = SetPred(s, n, p)
             /\ OPT!SetNext(s, n, p) = SetNext(s, n, p)
  BY DEF OPT!SetPred, SetPred, OPT!SetNext, SetNext
<1>2. OPT!push_back(l, k) = push_back(l, k)
  BY <1>1 DEF OPT!push_back, push_back
<1>3. ASSUME NEW y, NEW n PROVE OPT!remove(y, n) = remove(y, n)
  <2> DEFINE x == y.node[n]
             s == [y EXCEPT !.head = IF @ = n THEN x.next ELSE @,
                            !.tail = IF @ = n THEN x.pred ELSE @]
             t == IF x.pred = 0 THEN s ELSE SetNext(s, x.pred, x.next)
             u == IF x.next = 0 THEN t ELSE SetPred(t, x.next, x.pred)
             v == IF x.pred = 0 THEN s ELSE OPT!SetNext(s, x.pred, x.next)
             w == IF x.next = 0 THEN v ELSE OPT!SetPred(v, x.next, x.pred)
  <2>1. remove(y, n) = IF n \notin DOMAIN y.node THEN [y EXCEPT !.ub = TRUE]
                       ELSE [u EXCEPT !.node = Drop(@, n), !.size = @ - 1]
    BY DEF remove
  <2>2. OPT!remove(y, n) = IF n \notin DOMAIN y.node THEN [y EXCEPT !.ub = TRUE]
                           ELSE [w EXCEPT !.node = Drop(@, n), !.size = @ - 1]
    BY DEF OPT!remove
  <2>3. t = v
    BY <1>1
  <2> HIDE DEF t, v
  <2>4. u = w
    BY <1>1, <2>3
  <2> HIDE DEF u, w
  <2> QED BY <2>1, <2>2, <2>4
<1>4. OPT!pop_front(l) = pop_front(l)
  BY <1>3 DEF OPT!pop_front, pop_front
<1> QED BY <1>2, <1>4

LEMMA ReadOfOPT ==
  ASSUME NEW l
  PROVE  OPT!Sequence(l) = Sequence(l) /\ OPT!Chained(l) = Chained(l)
<1> USE DEF OPT!nullptr, nullptr, OPT!Live, Live
<1>1. ASSUME NEW first, NEW dir PROVE OPT!Walk(l, first, dir) = Walk(l, first, dir)
  BY DEF OPT!Walk, Walk, OPT!Last, Last
<1>2. OPT!Forward(l) = Forward(l) /\ OPT!Backward(l) = Backward(l)
  BY <1>1 DEF OPT!Forward, Forward, OPT!Backward, Backward
<1>3. OPT!Sequence(l) = Sequence(l)
  BY <1>2 DEF OPT!Sequence, Sequence
<1>4. \A s : /\ OPT!Reverse(s) = Reverse(s) /\ OPT!ToSet(s) = ToSet(s)
             /\ OPT!IsInjective(s) = IsInjective(s)
  BY DEF OPT!Reverse, Reverse, OPT!ToSet, ToSet, OPT!IsInjective, IsInjective
<1>5. \A s, S : OPT!Lists(s, S) = Lists(s, S)
  BY <1>4 DEF OPT!Lists, Lists
<1>6. OPT!Chained(l) = Chained(l)
  BY <1>2, <1>4, <1>5 DEF OPT!Chained, Chained
<1> QED BY <1>3, <1>6

\* The list of a page has the places of its accesses.
LEMMA PlacesOfAre ==
  ASSUME NEW al \in Seq(Keys), NEW k
  PROVE  Coming(OPT!PlacesOf(al, k), { i \in 0 .. Len(al) - 1 : al[i + 1] = k })
<1> DEFINE N == Len(al)
           D == { l \in ListStates : \E ns : Chain(l, ns) }
           F == [i \in 1 .. N |->
                   [l \in D |-> IF al[i] = k THEN push_back(l, i - 1) ELSE l]]
           Step(f, n) == IF n = 0 THEN NewList
                         ELSE IF al[n] = k THEN push_back(f[n - 1], n - 1)
                         ELSE f[n - 1]
           P(f) == f = [n \in 0 .. N |-> Step(f, n)]
           h == CHOOSE f : P(f)
           S(n) == { i \in 0 .. n - 1 : al[i + 1] = k }
<1>1. N \in Nat
  OBVIOUS
<1>2. OPT!PlacesOf(al, k) = h[N]
  <2>1. OPT!NewList = NewList
    BY DEF OPT!NewList, NewList, OPT!nullptr, nullptr, OPT!NoEntries, NoEntries
  <2>2. \A l, p : OPT!push_back(l, p) = push_back(l, p)
    BY ListOfOPT
  <2> QED BY <2>1, <2>2 DEF OPT!PlacesOf
<1>3. NewList \in D
  BY NewChain DEF Chain, Ends
<1>4. ASSUME NEW i \in 1 .. N, NEW l \in D PROVE push_back(l, i - 1) \in D
  <2>1. PICK ns : Chain(l, ns)
    OBVIOUS
  <2>2. Chain(push_back(l, i - 1), Append(ns, l.made + 1))
    BY <2>1, ChainBack
  <2> QED BY <2>2 DEF Chain, Ends
<1> HIDE DEF D
<1>5. F \in Steps(N, D)
  BY <1>4 DEF Steps
<1>6. \A i \in 1 .. N, l \in D : F[i][l] = IF al[i] = k THEN push_back(l, i - 1) ELSE l
  OBVIOUS
<1> HIDE DEF F
<1>7. PICK g : Loops(g, N, D, NewList, F)
  BY <1>1, <1>3, <1>5, Loop
<1>8. P(g)
  <2>1. ASSUME NEW n \in 0 .. N PROVE g[n] = Step(g, n)
    <3>1. CASE n = 0
      BY <1>7, <3>1 DEF Loops
    <3>2. CASE n # 0
      <4>1. n \in 1 .. N
        BY <3>2
      <4>2. g[n] = F[n][g[n - 1]] /\ g[n - 1] \in D
        BY <1>7, <4>1 DEF Loops
      <4> QED BY <1>6, <3>2, <4>1, <4>2
    <3> QED BY <3>1, <3>2
  <2>2. g = [n \in 0 .. N |-> g[n]]
    BY <1>7 DEF Loops
  <2> HIDE DEF Step
  <2>3. [n \in 0 .. N |-> g[n]] = [n \in 0 .. N |-> Step(g, n)]
    BY <2>1
  <2> QED BY <2>2, <2>3
<1> HIDE DEF Step
<1>9. P(h)
  <2>1. \E f : P(f)
    BY <1>8
  <2> QED BY <2>1
<1>10. h = [n \in 0 .. N |-> Step(h, n)]
  BY <1>9
<1> HIDE DEF h
<1>11. \A n \in 0 .. N : h[n] = Step(h, n)
  BY <1>10
<1> DEFINE T == { n \in Nat : n <= N => Coming(h[n], S(n)) }
<1>12. 0 \in T
  <2>1. S(0) = {} /\ h[0] = NewList
    BY <1>1, <1>11 DEF Step
  <2> QED BY <2>1, ComingNew
<1>13. ASSUME NEW n \in Nat, n \in T PROVE n + 1 \in T
  <2> SUFFICES ASSUME n + 1 <= N PROVE Coming(h[n + 1], S(n + 1))
    OBVIOUS
  <2>1. n + 1 \in 0 .. N /\ (n + 1) - 1 = n /\ n + 1 # 0
    BY <1>1
  <2>2. Coming(h[n], S(n))
    BY <1>1, <1>13
  <2>3. 0 .. (n + 1) - 1 = (0 .. n - 1) \cup {n}
    OBVIOUS
  <2>4. S(n + 1) = IF al[n + 1] = k THEN S(n) \cup {n} ELSE S(n)
    BY <2>3
  <2>5. h[n + 1] = IF al[n + 1] = k THEN push_back(h[n], n) ELSE h[n]
    BY <1>11, <2>1 DEF Step
  <2>6. n \in Int /\ \A s \in S(n) : s < n
    OBVIOUS
  <2> HIDE DEF S
  <2>7. Coming(push_back(h[n], n), S(n) \cup {n})
    BY <2>2, <2>6, ComingBack
  <2> QED BY <2>2, <2>4, <2>5, <2>7
<1> HIDE DEF T
<1>14. Nat \subseteq T
  BY <1>12, <1>13, AllNaturals
<1>15. Coming(h[N], S(N))
  <2>1. N \in T /\ N <= N
    BY <1>1, <1>14
  <2> QED BY <2>1 DEF T
<1> QED BY <1>2, <1>15

-----------------------------------------------------------------------------
(* OPT *)

\* No place of a trace is as far.
LEMMA NeverIs == OPT!Never \in Nat /\ Length \in Nat /\ Length <= OPT!Never
<1>1. Length \in Nat /\ Length <= 2147483647
  BY ProtoAssumption
<1> QED BY <1>1, SMT DEF OPT!Never

Entries == [future : 0 .. OPT!Never, key : Keys]

EntryTables == UNION { [S -> Entries] : S \in SUBSET Keys }

OPTStates == [key_access_u_map_ : [Keys -> ListStates],
              buffer_set_ : SUBSET Entries, u_map_ : EntryTables,
              ub : BOOLEAN]

\* Every list has the places from t on; every entry but those of pages that
\* are never accessed again is the one its page has, at its next access.
OPTPart(al, s, t) ==
  /\ s \in OPTStates /\ s.ub = FALSE
  /\ \A k \in Keys : Coming(s.key_access_u_map_[k], PlacesIn(al, k, t))
  /\ \A e \in s.buffer_set_ :
       IF e.future = OPT!Never THEN PlacesIn(al, e.key, t) = {}
       ELSE /\ e.key \in DOMAIN s.u_map_ /\ s.u_map_[e.key] = e
            /\ LeastOf(e.future, PlacesIn(al, e.key, t))

OPTOK(al, s, t) == OPTPart(al, s, t) /\ Entered(al, s, t, DOMAIN s.u_map_)

LEMMA EntryTableFacts ==
  /\ \A f \in EntryTables, k \in Keys, e \in Entries :
       OPT!Put(f, k, e) \in EntryTables
  /\ \A f \in EntryTables : \A k : OPT!Drop(f, k) \in EntryTables
<1>1. ASSUME NEW f \in EntryTables, NEW k \in Keys, NEW e \in Entries
      PROVE  OPT!Put(f, k, e) \in EntryTables
  <2>1. PICK S \in SUBSET Keys : f \in [S -> Entries]
    BY DEF EntryTables
  <2>2. OPT!Put(f, k, e) \in [S \cup {k} -> Entries]
    BY <2>1 DEF OPT!Put
  <2>3. S \cup {k} \in SUBSET Keys
    OBVIOUS
  <2> QED BY <2>2, <2>3 DEF EntryTables
<1>2. ASSUME NEW f \in EntryTables, NEW k PROVE OPT!Drop(f, k) \in EntryTables
  <2>1. PICK S \in SUBSET Keys : f \in [S -> Entries]
    BY DEF EntryTables
  <2>2. OPT!Drop(f, k) \in [S \ {k} -> Entries]
    BY <2>1 DEF OPT!Drop
  <2>3. S \ {k} \in SUBSET Keys
    OBVIOUS
  <2> QED BY <2>2, <2>3 DEF EntryTables
<1> QED BY <1>1, <1>2

\* u is s with a page k more.
Filled(al, s, t, k, u) ==
  /\ OPTOK(al, u, t) /\ DOMAIN u.u_map_ = DOMAIN s.u_map_ \cup {k}
  /\ \E e : u.buffer_set_ = s.buffer_set_ \cup {e}

Ready(al, s, t, k) ==
  /\ OPTPart(al, s, t) /\ EnteredBut(al, s, t, k)
  /\ \A e \in s.buffer_set_ : e.key # k

LEMMA OPTInsert ==
  ASSUME NEW al \in Seq(Keys), Len(al) <= OPT!Never, NEW t \in Nat,
         NEW k \in Keys, NEW s, Ready(al, s, t, k)
  PROVE  Filled(al, s, t, k, OPT!Insert(s, k))
<1> DEFINE uses == s.key_access_u_map_[k]
           f == OPT!Future(s, k)
           same == { e \in s.buffer_set_ : e.future = f }
           item == OPT!Inserted(s, k)
           S == PlacesIn(al, k, t)
           buffers == s.buffer_set_ \cup {item}
           table == OPT!Put(s.u_map_, k, item)
           u == OPT!Insert(s, k)
<1>0. /\ OPTPart(al, s, t) /\ EnteredBut(al, s, t, k)
      /\ \A e \in s.buffer_set_ : e.key # k
  BY DEF Ready
<1>1. /\ s \in OPTStates /\ s.ub = FALSE /\ s.buffer_set_ \subseteq Entries
      /\ s.u_map_ \in EntryTables
      /\ \A l \in Keys : Coming(s.key_access_u_map_[l], PlacesIn(al, l, t))
  BY <1>0 DEF OPTPart, OPTStates
<1> HIDE DEF u, item
<1>3. S \subseteq Nat /\ \A p \in S : p < OPT!Never /\ p # OPT!Never
  <2>1. \A p \in S : p \in t .. Len(al) - 1 /\ Len(al) \in Nat
    BY DEF PlacesIn
  <2> HIDE DEF S
  <2>2. S \subseteq Nat
    BY <2>1
  <2>3. \A p \in S : p < OPT!Never
    BY <2>1, NeverIs
  <2> QED BY <2>2, <2>3
<1>4. IF S = {} THEN f = OPT!Never ELSE LeastOf(f, S)
  <2>1. Coming(uses, S)
    BY <1>1
  <2>2. (uses.size = 0 <=> S = {}) /\ (uses.size # 0 => LeastOf(uses.node[uses.head].key, S))
    BY <2>1, ComingFirst DEF LeastOf
  <2> QED BY <2>2 DEF OPT!Future
<1> HIDE DEF f
<1>5. f \in 0 .. OPT!Never
  <2>1. CASE S = {}
    BY <1>4, <2>1, NeverIs
  <2>2. CASE S # {}
    <3>1. f \in S
      BY <1>4, <2>2 DEF LeastOf
    <3>2. f \in Nat /\ f < OPT!Never
      BY <1>3, <3>1
    <3> QED BY <3>2, NeverIs
  <2> QED BY <2>1, <2>2
<1>6. /\ item \in Entries /\ item.future = f
      /\ item.key = k \/ item \in s.buffer_set_
      /\ S # {} => item = [future |-> f, key |-> k]
  <2>1. CASE same = {}
    <3>1. item = [future |-> f, key |-> k]
      BY <2>1 DEF item, OPT!Inserted, f
    <3> QED BY <1>5, <3>1 DEF Entries
  <2>2. CASE same # {}
    <3>1. item \in same
      BY <2>2 DEF item, OPT!Inserted, f
    <3>2. ASSUME S # {} PROVE FALSE
      <4>1. item.future = f /\ item \in s.buffer_set_ /\ item.future # OPT!Never
        BY <1>3, <1>4, <3>1, <3>2 DEF LeastOf
      <4>2. f \in PlacesIn(al, item.key, t)
        BY <1>0, <4>1 DEF OPTPart, LeastOf
      <4>3. f \in PlacesIn(al, k, t)
        BY <1>4, <3>2 DEF LeastOf
      <4>4. item.key = k
        BY <4>2, <4>3, SamePlace
      <4> QED BY <1>0, <4>1, <4>4
    <3>3. item \in s.buffer_set_ /\ item.future = f
      BY <3>1
    <3> QED BY <1>1, <3>2, <3>3
  <2> QED BY <2>1, <2>2
<1>7. buffers \subseteq Entries /\ table \in EntryTables
  BY <1>1, <1>6, EntryTableFacts
<1> HIDE DEF table, buffers
<1>8. /\ u \in OPTStates /\ u.ub = FALSE /\ u.u_map_ = table
      /\ u.buffer_set_ = buffers /\ u.key_access_u_map_ = s.key_access_u_map_
  <2> DEFINE v == [s EXCEPT !.buffer_set_ = buffers]
             w == [v EXCEPT !.u_map_ = table]
  <2>1. u = w
    BY <1>1 DEF OPTStates, u, OPT!Insert, buffers, table, item
  <2>2. /\ v \in OPTStates /\ v.ub = FALSE /\ v.u_map_ = s.u_map_
        /\ v.buffer_set_ = buffers /\ v.key_access_u_map_ = s.key_access_u_map_
    BY <1>1, <1>7 DEF OPTStates
  <2> HIDE DEF v
  <2>3. /\ w \in OPTStates /\ w.ub = FALSE /\ w.u_map_ = table
        /\ w.buffer_set_ = buffers /\ w.key_access_u_map_ = s.key_access_u_map_
    BY <1>7, <2>2 DEF OPTStates
  <2> QED BY <2>1, <2>3
<1>9. /\ DOMAIN table = DOMAIN s.u_map_ \cup {k} /\ table[k] = item
      /\ \A l \in DOMAIN s.u_map_ : l # k => table[l] = s.u_map_[l]
  BY DEF table, OPT!Put
<1>10. ASSUME NEW e \in buffers
       PROVE  IF e.future = OPT!Never THEN PlacesIn(al, e.key, t) = {}
              ELSE /\ e.key \in DOMAIN table /\ table[e.key] = e
                   /\ LeastOf(e.future, PlacesIn(al, e.key, t))
  <2>1. CASE e \in s.buffer_set_
    BY <1>0, <1>9, <2>1 DEF OPTPart
  <2>2. CASE e = item /\ e \notin s.buffer_set_
    <3>1. e.key = k /\ e.future = f
      BY <1>6, <2>2
    <3>2. CASE S = {}
      BY <1>4, <3>1, <3>2
    <3>3. CASE S # {}
      <4>1. f # OPT!Never /\ LeastOf(f, S)
        BY <1>3, <1>4, <3>3 DEF LeastOf
      <4> QED BY <1>9, <2>2, <3>1, <4>1
    <3> QED BY <3>2, <3>3
  <2> QED BY <2>1, <2>2 DEF buffers
<1>11. OPTPart(al, u, t)
  BY <1>1, <1>8, <1>10 DEF OPTPart
<1>12. Entered(al, u, t, DOMAIN u.u_map_)
  <2> SUFFICES ASSUME NEW l \in DOMAIN table, PlacesIn(al, l, t) # {}
               PROVE  table[l] \in buffers /\ table[l].key = l
    BY <1>8 DEF Entered
  <2>1. CASE l = k
    BY <1>6, <1>9, <2>1 DEF buffers
  <2>2. CASE l # k
    <3>1. l \in DOMAIN s.u_map_ \ {k} /\ table[l] = s.u_map_[l]
      BY <1>9, <2>2
    <3> QED BY <1>0, <3>1 DEF EnteredBut, Entered, buffers
  <2> QED BY <2>1, <2>2
<1>13. OPTOK(al, u, t)
  BY <1>11, <1>12 DEF OPTOK
<1> QED BY <1>8, <1>9, <1>13 DEF buffers, u, Filled

LEMMA OPTNewIs ==
  ASSUME NEW al \in Seq(Keys)
  PROVE  /\ OPTOK(al, OPT!New(al), 0) /\ OPT!New(al).buffer_set_ = {}
         /\ DOMAIN OPT!New(al).u_map_ = {}
<1> DEFINE lists == [k \in Keys |-> OPT!PlacesOf(al, k)]
           s == OPT!New(al)
<1>1. \A k \in Keys : Coming(OPT!PlacesOf(al, k), PlacesIn(al, k, 0))
  BY PlacesOfAre DEF PlacesIn
<1>2. \A k \in Keys : OPT!PlacesOf(al, k) \in ListStates
  BY <1>1 DEF Coming, ComingBy, Chain, Ends
<1>3. lists \in [Keys -> ListStates] /\ \A k \in Keys : lists[k] = OPT!PlacesOf(al, k)
  BY <1>2
<1> HIDE DEF lists
<1>4. OPT!NoEntries \in EntryTables /\ DOMAIN OPT!NoEntries = {}
  <2>1. OPT!NoEntries \in [{} -> Entries]
    BY DEF OPT!NoEntries
  <2>2. {} \in SUBSET Keys
    OBVIOUS
  <2> QED BY <2>1, <2>2 DEF EntryTables
<1>5. s = [key_access_u_map_ |-> lists, buffer_set_ |-> {},
           u_map_ |-> OPT!NoEntries, ub |-> FALSE]
  BY DEF OPT!New, lists
<1>6. s \in OPTStates /\ s.ub = FALSE /\ s.buffer_set_ = {}
      /\ s.u_map_ = OPT!NoEntries /\ s.key_access_u_map_ = lists
  BY <1>3, <1>4, <1>5 DEF OPTStates
<1> HIDE DEF s
<1>7. OPTOK(al, s, 0)
  BY <1>1, <1>3, <1>4, <1>6 DEF OPTOK, OPTPart, Entered
<1> QED BY <1>4, <1>6, <1>7 DEF s

LEMMA OPTPopped ==
  ASSUME NEW al \in Seq(Keys), NEW t \in Nat, t < Len(al), NEW k \in Keys,
         k = al[t + 1], OPTOK(al, opt, t)
  PROVE  LET p == OPT!Popped(k)
         IN /\ p \in OPTStates /\ p.ub = FALSE
            /\ p.buffer_set_ = opt.buffer_set_ /\ p.u_map_ = opt.u_map_
            /\ \A l \in Keys :
                 Coming(p.key_access_u_map_[l], PlacesIn(al, l, t + 1))
<1> DEFINE lists == opt.key_access_u_map_
           list == pop_front(lists[k])
           new == [lists EXCEPT ![k] = list]
           p == OPT!Popped(k)
<1>1. /\ opt \in OPTStates /\ opt.ub = FALSE /\ lists \in [Keys -> ListStates]
      /\ \A l \in Keys : Coming(lists[l], PlacesIn(al, l, t))
  BY DEF OPTOK, OPTPart, OPTStates
<1>2. Coming(list, PlacesIn(al, k, t + 1))
  <2>1. Coming(lists[k], PlacesIn(al, k, t)) /\ PlacesIn(al, k, t) # {}
    BY <1>1, PlacesNext
  <2> DEFINE f == lists[k].node[lists[k].head].key
             S == PlacesIn(al, k, t)
  <2>2. Coming(list, S \ {f})
    BY <2>1, ComingPop
  <2>3. LeastOf(f, S)
    BY <2>1, ComingFirst DEF LeastOf
  <2>4. LeastOf(t, S) /\ S \subseteq Int
    BY <2>1, PlacesNext, ComingFirst
  <2> HIDE DEF f, S
  <2>5. f = t
    BY <2>3, <2>4 DEF LeastOf
  <2> QED BY <2>2, <2>5, PlacesNext DEF S
<1>3. list \in ListStates
  BY <1>2 DEF Coming, ComingBy, Chain, Ends
<1> HIDE DEF list
<1>4. /\ new \in [Keys -> ListStates] /\ new[k] = list
      /\ \A l \in Keys : l # k => new[l] = lists[l]
  BY <1>1, <1>3
<1>5. p = [opt EXCEPT !.key_access_u_map_ = new]
  BY <1>1, ListOfOPT DEF OPT!Popped, OPTStates, list
<1> HIDE DEF new, p
<1>6. /\ p \in OPTStates /\ p.ub = FALSE
      /\ p.buffer_set_ = opt.buffer_set_ /\ p.u_map_ = opt.u_map_
      /\ p.key_access_u_map_ = new
  BY <1>1, <1>4, <1>5 DEF OPTStates
<1>7. ASSUME NEW l \in Keys
      PROVE  Coming(p.key_access_u_map_[l], PlacesIn(al, l, t + 1))
  BY <1>1, <1>2, <1>4, <1>6, PlacesNext
<1> QED BY <1>6, <1>7 DEF p

\* The entry that a full buffer gives up is the one needed last.
LEMMA OPTBeginIs ==
  ASSUME NEW S \in SUBSET Entries, S # {}
  PROVE  OPT!Begin(S) \in S /\ \A e \in S : e.future <= OPT!Begin(S).future
<1> DEFINE T == { e.future : e \in S }
<1>1. T \in SUBSET (0 .. OPT!Never) /\ T # {} /\ \A e \in S : e.future \in Nat
  BY NeverIs DEF Entries
<1>2. OPT!Never \in Nat
  BY NeverIs
<1>3. Max(T) \in T /\ \A f \in T : f <= Max(T)
  BY <1>1, <1>2, MaxOfPlaces
<1>4. PICK a \in S : a.future = Max(T)
  BY <1>3
<1>5. \A e \in S : a.future >= e.future
  BY <1>1, <1>3, <1>4
<1>6. OPT!Begin(S) \in S /\ \A e \in S : OPT!Begin(S).future >= e.future
  BY <1>5 DEF OPT!Begin
<1> QED BY <1>1, <1>6

\* The entries of a page that is accessed now are its own.
LEMMA OPTOwn ==
  ASSUME NEW al \in Seq(Keys), NEW t \in Nat, t < Len(al), NEW k \in Keys,
         k = al[t + 1], NEW s, OPTOK(al, s, t), NEW e \in s.buffer_set_,
         e.key = k
  PROVE  k \in DOMAIN s.u_map_ /\ s.u_map_[k] = e
<1>1. PlacesIn(al, k, t) # {}
  BY PlacesNext
<1>2. IF e.future = OPT!Never THEN PlacesIn(al, e.key, t) = {}
      ELSE e.key \in DOMAIN s.u_map_ /\ s.u_map_[e.key] = e
  BY DEF OPTOK, OPTPart
<1> QED BY <1>1, <1>2

\* The list of the page accessed loses that access, and the page its entry.
LEMMA OPTHitReady ==
  ASSUME NEW al \in Seq(Keys), NEW t \in Nat, t < Len(al), NEW k \in Keys,
         k = al[t + 1], OPTOK(al, opt, t), k \in DOMAIN opt.u_map_
  PROVE  LET s == [OPT!Popped(k) EXCEPT !.buffer_set_ = @ \ {opt.u_map_[k]}]
         IN /\ opt.u_map_[k] \in opt.buffer_set_
            /\ OPTPart(al, s, t + 1)
            /\ EnteredBut(al, s, t + 1, k)
            /\ \A e \in s.buffer_set_ : e.key # k
            /\ s.u_map_ = opt.u_map_
            /\ s.buffer_set_ = opt.buffer_set_ \ {opt.u_map_[k]}
<1> DEFINE p == OPT!Popped(k)
           item == opt.u_map_[k]
           B == opt.buffer_set_ \ {item}
           s == [p EXCEPT !.buffer_set_ = @ \ {item}]
<1>1. /\ p \in OPTStates /\ p.ub = FALSE
      /\ p.buffer_set_ = opt.buffer_set_ /\ p.u_map_ = opt.u_map_
      /\ \A l \in Keys :
           Coming(p.key_access_u_map_[l], PlacesIn(al, l, t + 1))
  BY OPTPopped
<1> HIDE DEF p
<1>2. item \in opt.buffer_set_ /\ item.key = k
  <2>1. PlacesIn(al, k, t) # {}
    BY PlacesNext
  <2> QED BY <2>1 DEF OPTOK, Entered
<1>3. \A e \in B : e.key # k
  BY OPTOwn
<1> HIDE DEF item
<1>4. B \in SUBSET Entries
  BY <1>1 DEF OPTStates
<1>5. s = [p EXCEPT !.buffer_set_ = B]
  BY <1>1 DEF OPTStates
<1> HIDE DEF B, s
<1>6. /\ s \in OPTStates /\ s.ub = FALSE /\ s.u_map_ = opt.u_map_
      /\ s.buffer_set_ = B /\ s.key_access_u_map_ = p.key_access_u_map_
  BY <1>1, <1>4, <1>5 DEF OPTStates
<1>7. \A l : l # k => PlacesIn(al, l, t + 1) = PlacesIn(al, l, t)
  BY PlacesNext
<1>8. OPTPart(al, s, t + 1)
  <2>1. \A e \in B :
          IF e.future = OPT!Never THEN PlacesIn(al, e.key, t + 1) = {}
          ELSE /\ e.key \in DOMAIN opt.u_map_ /\ opt.u_map_[e.key] = e
               /\ LeastOf(e.future, PlacesIn(al, e.key, t + 1))
    BY <1>3, <1>7 DEF OPTOK, OPTPart, B
  <2> QED BY <1>1, <1>6, <2>1 DEF OPTPart
<1>9. EnteredBut(al, s, t + 1, k)
  <2> SUFFICES ASSUME NEW l \in DOMAIN opt.u_map_ \ {k},
                      PlacesIn(al, l, t + 1) # {}
               PROVE  opt.u_map_[l] \in B /\ opt.u_map_[l].key = l
    BY <1>6 DEF EnteredBut, Entered
  <2>1. opt.u_map_[l] \in opt.buffer_set_ /\ opt.u_map_[l].key = l
    BY <1>7 DEF OPTOK, Entered
  <2> QED BY <1>2, <2>1 DEF B
<1> QED BY <1>2, <1>3, <1>6, <1>8, <1>9 DEF B, item, s, p

LEMMA OPTMissReady ==
  ASSUME NEW al \in Seq(Keys), NEW t \in Nat, t < Len(al), NEW k \in Keys,
         k = al[t + 1], OPTOK(al, opt, t), k \notin DOMAIN opt.u_map_
  PROVE  LET s == OPT!Popped(k)
         IN /\ OPTOK(al, s, t + 1)
            /\ \A e \in s.buffer_set_ : e.key # k
            /\ s.u_map_ = opt.u_map_
            /\ s.buffer_set_ = opt.buffer_set_
<1> DEFINE s == OPT!Popped(k)
<1>1. /\ s \in OPTStates /\ s.ub = FALSE
      /\ s.buffer_set_ = opt.buffer_set_ /\ s.u_map_ = opt.u_map_
      /\ \A l \in Keys :
           Coming(s.key_access_u_map_[l], PlacesIn(al, l, t + 1))
  BY OPTPopped
<1> HIDE DEF s
<1>3. \A e \in s.buffer_set_ : e.key # k
  BY <1>1, OPTOwn
<1>7. \A l : l # k => PlacesIn(al, l, t + 1) = PlacesIn(al, l, t)
  BY PlacesNext
<1>8. OPTPart(al, s, t + 1)
  BY <1>1, <1>3, <1>7 DEF OPTOK, OPTPart
<1>9. Entered(al, s, t + 1, DOMAIN s.u_map_)
  <2> SUFFICES ASSUME NEW l \in DOMAIN opt.u_map_,
                      PlacesIn(al, l, t + 1) # {}
               PROVE  opt.u_map_[l] \in opt.buffer_set_ /\ opt.u_map_[l].key = l
    BY <1>1 DEF Entered
  <2> QED BY <1>7 DEF OPTOK, Entered
<1> QED BY <1>1, <1>3, <1>8, <1>9 DEF s, OPTOK

\* The entry needed last leaves with its page.
LEMMA OPTEvict ==
  ASSUME NEW al \in Seq(Keys), NEW t \in Nat, NEW s, OPTOK(al, s, t),
         s.buffer_set_ # {}
  PROVE  LET item == OPT!Begin(s.buffer_set_)
             u == OPT!EvictBegin(s)
         IN /\ OPTOK(al, u, t) /\ item \in s.buffer_set_
            /\ \A e \in s.buffer_set_ : e.future <= item.future
            /\ u.buffer_set_ = s.buffer_set_ \ {item}
            /\ DOMAIN u.u_map_ = DOMAIN s.u_map_ \ {item.key}
<1> DEFINE item == OPT!Begin(s.buffer_set_)
           B == s.buffer_set_ \ {item}
           x == OPT!Drop(s.u_map_, item.key)
           u == OPT!EvictBegin(s)
<1>1. /\ s \in OPTStates /\ s.ub = FALSE /\ s.buffer_set_ \in SUBSET Entries
      /\ s.u_map_ \in EntryTables
      /\ \A l \in Keys : Coming(s.key_access_u_map_[l], PlacesIn(al, l, t))
  BY DEF OPTOK, OPTPart, OPTStates
<1>2. item \in s.buffer_set_ /\ \A e \in s.buffer_set_ : e.future <= item.future
  BY <1>1, OPTBeginIs
<1>3. \A e \in s.buffer_set_ : e.future \in 0 .. OPT!Never /\ e.future \in Nat
  BY <1>1, NeverIs DEF Entries
<1> HIDE DEF item
<1>4. B \in SUBSET Entries /\ x \in EntryTables
  BY <1>1, EntryTableFacts
<1>5. /\ DOMAIN x = DOMAIN s.u_map_ \ {item.key}
      /\ \A l \in DOMAIN x : x[l] = s.u_map_[l]
  BY DEF OPT!Drop
<1>6. /\ u \in OPTStates /\ u.ub = FALSE /\ u.u_map_ = x
      /\ u.buffer_set_ = B /\ u.key_access_u_map_ = s.key_access_u_map_
  <2> DEFINE v == [s EXCEPT !.buffer_set_ = B]
             w == [v EXCEPT !.u_map_ = x]
  <2>1. u = w
    BY <1>1 DEF OPTStates, OPT!EvictBegin, B, x, item
  <2> HIDE DEF B, x
  <2>2. /\ v \in OPTStates /\ v.ub = FALSE /\ v.u_map_ = s.u_map_
        /\ v.buffer_set_ = B /\ v.key_access_u_map_ = s.key_access_u_map_
    BY <1>1, <1>4 DEF OPTStates
  <2> HIDE DEF v
  <2>3. /\ w \in OPTStates /\ w.ub = FALSE /\ w.u_map_ = x
        /\ w.buffer_set_ = B /\ w.key_access_u_map_ = s.key_access_u_map_
    BY <1>4, <2>2 DEF OPTStates
  <2> QED BY <2>1, <2>3
<1> HIDE DEF x, u
<1>7. ASSUME NEW e \in B, e.future # OPT!Never
      PROVE  e.key \in DOMAIN x /\ x[e.key] = e
             /\ LeastOf(e.future, PlacesIn(al, e.key, t))
  <2>1. /\ e.key \in DOMAIN s.u_map_ /\ s.u_map_[e.key] = e
        /\ LeastOf(e.future, PlacesIn(al, e.key, t))
    BY <1>7 DEF OPTOK, OPTPart
  <2>2. ASSUME e.key = item.key PROVE FALSE
    <3>1. CASE item.future = OPT!Never
      <4>1. PlacesIn(al, e.key, t) = {}
        BY <1>2, <2>2, <3>1 DEF OPTOK, OPTPart
      <4> QED BY <2>1, <4>1 DEF LeastOf
    <3>2. CASE item.future # OPT!Never
      <4>1. s.u_map_[item.key] = item
        BY <1>2, <3>2 DEF OPTOK, OPTPart
      <4> QED BY <2>1, <2>2, <4>1
    <3> QED BY <3>1, <3>2
  <2> QED BY <1>5, <2>1, <2>2
<1>8. OPTPart(al, u, t)
  <2>1. ASSUME NEW e \in B
        PROVE  IF e.future = OPT!Never THEN PlacesIn(al, e.key, t) = {}
               ELSE /\ e.key \in DOMAIN x /\ x[e.key] = e
                    /\ LeastOf(e.future, PlacesIn(al, e.key, t))
    <3>1. CASE e.future = OPT!Never
      BY <3>1 DEF OPTOK, OPTPart
    <3>2. CASE e.future # OPT!Never
      BY <1>7, <3>2
    <3> QED BY <3>1, <3>2
  <2> HIDE DEF B
  <2> QED BY <1>1, <1>6, <2>1 DEF OPTPart
<1>9. Entered(al, u, t, DOMAIN u.u_map_)
  <2> SUFFICES ASSUME NEW l \in DOMAIN x, PlacesIn(al, l, t) # {}
               PROVE  x[l] \in B /\ x[l].key = l
    BY <1>6 DEF EnteredBut, Entered
  <2>1. l \in DOMAIN s.u_map_ /\ l # item.key /\ x[l] = s.u_map_[l]
    BY <1>5
  <2>2. s.u_map_[l] \in s.buffer_set_ /\ s.u_map_[l].key = l
    BY <2>1 DEF OPTOK, Entered
  <2> QED BY <2>1, <2>2
<1> QED BY <1>2, <1>5, <1>6, <1>8, <1>9 DEF OPTOK, u, item

OPTInv ==
  /\ OPTOK(access_list, opt, ts)
  /\ IsFiniteSet(opt.buffer_set_) /\ Cardinality(opt.buffer_set_) <= buffer_size_

\* From the pages D to the pages E by an access of k: a page leaves only a
\* full buffer, and only the one whose next access is the furthest away.
OPTMove(D, E, k) ==
  \/ k \in D /\ E = D
  \/ k \notin D /\ E = D \cup {k}
  \/ /\ k \notin D /\ Cardinality(opt.buffer_set_) = buffer_size_
     /\ \E item \in opt.buffer_set_ :
          /\ E = (D \ {item.key}) \cup {k} /\ item.key # k
          /\ \A e \in opt.buffer_set_ : e.future <= item.future

LEMMA OPTPrime ==
  ASSUME OPTOK(access_list', opt', ts')
  PROVE  OPTOK(access_list, opt, ts)'
BY DEF OPTOK, OPTPart, Entered, OPTStates, Entries, EntryTables, PlacesIn,
       LeastOf, Coming, ComingBy, Chain, Ends, ListStates, NodeTables,
       KeyTables, ListNodes, At, nullptr, Distinct, Elements, NodeIs

LEMMA OPTTurn ==
  ASSUME Turn, NEW k, k = key_, OPTInv, OPT!access(k)
  PROVE  /\ OPTInv'
         /\ OPTMove(DOMAIN opt.u_map_, DOMAIN opt'.u_map_, k)
         /\ opt_hit_count' = IF k \in DOMAIN opt.u_map_ THEN opt_hit_count + 1
                             ELSE opt_hit_count
<1> DEFINE al == access_list
           D == DOMAIN opt.u_map_
           B == opt.buffer_set_
<1>1. /\ k \in Keys /\ ts \in Nat /\ ts' = ts + 1 /\ al' = al
      /\ buffer_size_ \in Nat \ {0} /\ buffer_size_' = buffer_size_
      /\ al \in Seq(Keys) /\ Len(al) \in Nat /\ Len(al) <= Length
      /\ ts < Len(al) /\ k = al[ts + 1]
  BY TurnFacts, AccessList DEF Turn, key_
<1>2. Len(al) <= OPT!Never
  BY <1>1, NeverIs
<1>3. OPTOK(al, opt, ts) /\ IsFiniteSet(B) /\ Cardinality(B) <= buffer_size_
      /\ Cardinality(B) \in Nat
  BY FS_CardinalityType DEF OPTInv
<1>4. ASSUME NEW s, OPTPart(al, s, ts + 1),
             EnteredBut(al, s, ts + 1, k),
             \A e \in s.buffer_set_ : e.key # k,
             IsFiniteSet(s.buffer_set_), Cardinality(s.buffer_set_) < buffer_size_,
             opt' = OPT!Insert(s, k)
      PROVE  OPTInv' /\ DOMAIN opt'.u_map_ = DOMAIN s.u_map_ \cup {k}
  <2>1. ts + 1 \in Nat
    BY <1>1
  <2>2. /\ OPTOK(al, opt', ts + 1)
        /\ DOMAIN opt'.u_map_ = DOMAIN s.u_map_ \cup {k}
        /\ \E e : opt'.buffer_set_ = s.buffer_set_ \cup {e}
    <3> DEFINE u == OPT!Insert(s, k)
    <3>1. OPTOK(al, u, ts + 1) /\ DOMAIN u.u_map_ = DOMAIN s.u_map_ \cup {k}
          /\ \E e : u.buffer_set_ = s.buffer_set_ \cup {e}
      <4> DEFINE t == ts + 1
      <4>1. /\ Ready(al, s, t, k)
            /\ t \in Nat /\ al \in Seq(Keys) /\ Len(al) <= OPT!Never /\ k \in Keys
        BY <1>1, <1>2, <1>4, <2>1 DEF Ready
      <4> HIDE DEF t, al
      <4>2. Filled(al, s, t, k, u)
        BY <4>1, OPTInsert
      <4> QED BY <4>2 DEF t, Filled
    <3> HIDE DEF u
    <3>2. opt' = u
      BY <1>4 DEF u
    <3> QED BY <3>1, <3>2
  <2>3. PICK e : opt'.buffer_set_ = s.buffer_set_ \cup {e}
    BY <2>2
  <2>4. Cardinality(s.buffer_set_) \in Nat
    BY <1>4, FS_CardinalityType
  <2>5. /\ IsFiniteSet(s.buffer_set_ \cup {e})
        /\ \/ Cardinality(s.buffer_set_ \cup {e}) = Cardinality(s.buffer_set_)
           \/ Cardinality(s.buffer_set_ \cup {e}) = Cardinality(s.buffer_set_) + 1
    BY <1>4, FS_AddElement
  <2>6. Cardinality(opt'.buffer_set_) <= buffer_size_
    BY <1>1, <1>4, <2>3, <2>4, <2>5
  <2>7. OPTOK(access_list, opt, ts)'
    BY <1>1, <2>2, OPTPrime
  <2> QED BY <1>1, <2>2, <2>3, <2>5, <2>6, <2>7 DEF OPTInv
<1>5. CASE OPT!Hit(k)
  <2> DEFINE item == opt.u_map_[k]
             s == [OPT!Popped(k) EXCEPT !.buffer_set_ = @ \ {item}]
  <2>1. k \in D /\ opt_hit_count' = opt_hit_count + 1
    BY <1>5 DEF OPT!Hit, OPT!CountHit
  <2>2. /\ item \in B /\ OPTPart(al, s, ts + 1)
        /\ EnteredBut(al, s, ts + 1, k)
        /\ \A e \in s.buffer_set_ : e.key # k
        /\ s.u_map_ = opt.u_map_ /\ s.buffer_set_ = B \ {item}
    BY <1>1, <1>3, <2>1, OPTHitReady
  <2>3. opt' = OPT!Insert(s, k)
    BY <1>5, <2>2 DEF OPT!Hit
  <2> HIDE DEF s, item
  <2>4. IsFiniteSet(B \ {item}) /\ Cardinality(B \ {item}) = Cardinality(B) - 1
    BY <1>3, <2>2, FS_RemoveElement
  <2>5. Cardinality(s.buffer_set_) < buffer_size_
    BY <1>1, <1>3, <2>2, <2>4
  <2>6. OPTInv' /\ DOMAIN opt'.u_map_ = D \cup {k}
    BY <1>4, <2>2, <2>3, <2>4, <2>5
  <2>7. DOMAIN opt'.u_map_ = D
    BY <2>1, <2>6
  <2> QED BY <2>1, <2>6, <2>7 DEF OPTMove
<1>6. CASE OPT!Miss(k)
  <2> DEFINE p == OPT!Popped(k)
             full == Cardinality(B) >= buffer_size_
  <2>1. /\ k \notin D /\ opt_hit_count' = opt_hit_count
        /\ opt' = OPT!Insert(IF full THEN OPT!EvictBegin(p) ELSE p, k)
    <3>1. OPT!Cardinality(B) = Cardinality(B)
      BY DEF OPT!Cardinality, Cardinality
    <3> QED BY <1>6, <3>1 DEF OPT!Miss, OPT!CountMiss
  <2>2. /\ OPTOK(al, p, ts + 1) /\ \A e \in p.buffer_set_ : e.key # k
        /\ p.u_map_ = opt.u_map_ /\ p.buffer_set_ = B
    BY <1>1, <1>3, <2>1, OPTMissReady
  <2> HIDE DEF p
  <2>3. CASE ~full
    <3>1. /\ opt' = OPT!Insert(p, k) /\ OPTPart(al, p, ts + 1)
          /\ EnteredBut(al, p, ts + 1, k)
      BY <2>1, <2>2, <2>3 DEF OPTOK, Entered, EnteredBut
    <3>2. Cardinality(p.buffer_set_) < buffer_size_ /\ IsFiniteSet(p.buffer_set_)
      BY <1>1, <1>3, <2>2, <2>3
    <3>3. OPTInv' /\ DOMAIN opt'.u_map_ = D \cup {k}
      BY <1>4, <2>2, <3>1, <3>2
    <3> QED BY <2>1, <3>3 DEF OPTMove
  <2>4. CASE full
    <3> DEFINE item == OPT!Begin(B)
               s == OPT!EvictBegin(p)
    <3>1. Cardinality(B) = buffer_size_ /\ B # {}
      <4>1. Cardinality(B) = buffer_size_
        BY <1>1, <1>3, <2>4
      <4> QED BY <1>1, <4>1, FS_EmptySet
    <3>2. /\ OPTOK(al, s, ts + 1) /\ item \in B
          /\ \A e \in B : e.future <= item.future
          /\ s.buffer_set_ = B \ {item}
          /\ DOMAIN s.u_map_ = D \ {item.key}
      <4>1. ts + 1 \in Nat /\ p.buffer_set_ # {}
        BY <1>1, <2>2, <3>1
      <4>2. LET i == OPT!Begin(p.buffer_set_)
            IN /\ OPTOK(al, s, ts + 1) /\ i \in p.buffer_set_
               /\ \A e \in p.buffer_set_ : e.future <= i.future
               /\ s.buffer_set_ = p.buffer_set_ \ {i}
               /\ DOMAIN s.u_map_ = DOMAIN p.u_map_ \ {i.key}
        BY <1>1, <2>2, <4>1, OPTEvict
      <4> QED BY <2>2, <4>2
    <3>3. opt' = OPT!Insert(s, k)
      BY <2>1, <2>4
    <3> HIDE DEF s, item
    <3>4. /\ OPTPart(al, s, ts + 1)
          /\ EnteredBut(al, s, ts + 1, k)
          /\ \A e \in s.buffer_set_ : e.key # k
      BY <2>2, <3>2 DEF OPTOK, Entered, EnteredBut
    <3>5. IsFiniteSet(B \ {item}) /\ Cardinality(B \ {item}) = Cardinality(B) - 1
      BY <1>3, <3>2, FS_RemoveElement
    <3>6. Cardinality(s.buffer_set_) < buffer_size_ /\ IsFiniteSet(s.buffer_set_)
      BY <1>1, <3>1, <3>2, <3>5
    <3>7. OPTInv' /\ DOMAIN opt'.u_map_ = (D \ {item.key}) \cup {k}
      BY <1>4, <3>2, <3>3, <3>4, <3>6
    <3>8. item.key # k
      BY <2>2, <3>2
    <3> QED BY <2>1, <3>1, <3>2, <3>7, <3>8 DEF OPTMove
  <2> QED BY <2>3, <2>4
<1> QED BY <1>5, <1>6 DEF OPT!access

-----------------------------------------------------------------------------
(* OPT is optimal *)

\* When the page OPT evicts is accessed again, the whole buffer has been.
LEMMA OPTLast ==
  ASSUME Turn, NEW k, k = key_, OPTInv, k \notin DOMAIN opt.u_map_,
         NEW item \in opt.buffer_set_,
         \A e \in opt.buffer_set_ : e.future <= item.future,
         NEW t \in Nat, item.key \in Reached(access_list, ts + 1, t)
  PROVE  Cardinality(opt.buffer_set_)
           <= Cardinality(DOMAIN opt.u_map_ \cap Reached(access_list, ts + 1, t))
<1> DEFINE al == access_list
           D == DOMAIN opt.u_map_
           B == opt.buffer_set_
           V == Reached(al, ts + 1, t)
<1>1. /\ k \in Keys /\ ts \in Nat /\ al \in Seq(Keys) /\ Len(al) \in Nat
      /\ ts < Len(al) /\ k = al[ts + 1]
  BY TurnFacts, AccessList DEF Turn, key_
<1>2. /\ PlacesIn(al, k, ts + 1) = PlacesIn(al, k, ts) \ {ts}
      /\ \A l : l # k => PlacesIn(al, l, ts + 1) = PlacesIn(al, l, ts)
  <2> HIDE DEF al, D, B, V
  <2> QED BY <1>1, PlacesNext
<1>3. /\ OPTPart(al, opt, ts) /\ IsFiniteSet(B) /\ Cardinality(B) \in Nat
      /\ B \subseteq Entries
  BY FS_CardinalityType DEF OPTInv, OPTOK, OPTPart, OPTStates
<1>4. item.future # OPT!Never /\ item.future \in Nat /\ item.future <= t
      /\ item.future < OPT!Never
  <2>1. PICK i \in PlacesIn(al, item.key, ts + 1) : i <= t
    BY DEF Reached
  <2>2. i \in PlacesIn(al, item.key, ts)
    BY <1>2, <2>1
  <2>3. item.future # OPT!Never /\ LeastOf(item.future, PlacesIn(al, item.key, ts))
    BY <1>3, <2>2 DEF OPTPart
  <2>4. item.future <= i /\ i \in Nat
    BY <1>1, <2>2, <2>3 DEF LeastOf, PlacesIn
  <2>5. item.future \in 0 .. OPT!Never
    BY <1>3 DEF Entries
  <2>6. item.future \in Nat /\ item.future < OPT!Never
    BY <2>3, <2>5, NeverIs
  <2> QED BY <2>1, <2>3, <2>4, <2>6
<1>5. ASSUME NEW e \in B
      PROVE  e.key \in D \cap V /\ opt.u_map_[e.key] = e
  <2>1. e.future <= item.future /\ e.future \in 0 .. OPT!Never /\ e.key \in Keys
    BY <1>3 DEF Entries
  <2>2. e.future \in Nat /\ e.future # OPT!Never /\ e.future <= t
    BY <1>4, <2>1, NeverIs
  <2>3. /\ e.key \in D /\ opt.u_map_[e.key] = e
        /\ LeastOf(e.future, PlacesIn(al, e.key, ts))
    BY <1>3, <2>2 DEF OPTPart
  <2>4. e.future \in PlacesIn(al, e.key, ts + 1)
    BY <1>2, <2>3 DEF LeastOf
  <2> QED BY <2>1, <2>2, <2>3, <2>4 DEF Reached
<1> DEFINE f == [e \in B |-> e.key]
<1>6. V \subseteq Keys
  BY DEF Reached
<1> HIDE DEF V, D, B
<1>7. f \in Injection(B, D \cap V)
  <2>1. f \in [B -> D \cap V]
    BY <1>5
  <2>2. ASSUME NEW e \in B, NEW g \in B, f[e] = f[g] PROVE e = g
    <3>1. e.key = g.key
      BY <2>2
    <3> QED BY <1>5, <3>1
  <2> QED BY <2>1, <2>2 DEF Injection, IsInjective
<1>8. IsFiniteSet(D \cap V)
  BY <1>6, KeysAreFinite, KeysFinite
<1>9. Cardinality(B) <= Cardinality(D \cap V)
  BY <1>7, <1>8, FS_Injection
<1> QED BY <1>9 DEF B, D, V

\* With R its pages and h its hits at place s of the trace, a policy is behind
\* OPT with D and o: it has had no more hits, and would not have more at any
\* place t if it were never to evict another page.
Behind(R, D, s, h, o) ==
  /\ h <= o
  /\ \A t \in Nat : h + Cardinality(R \cap Reached(access_list, s, t))
                      <= o + Cardinality(D \cap Reached(access_list, s, t))

LEMMA BehindNext ==
  ASSUME Turn, NEW k, k = key_, OPTInv,
         NEW R, NEW S, NEW D, D = DOMAIN opt.u_map_, NEW E,
         NEW h2, NEW o2, D \subseteq Keys, E \subseteq Keys,
         Fits(R), Demand(R, S, k), OPTMove(D, E, k),
         h2 = IF k \in R THEN hit_count_ + 1 ELSE hit_count_,
         o2 = IF k \in D THEN opt_hit_count + 1 ELSE opt_hit_count,
         Behind(R, D, ts, hit_count_, opt_hit_count)
  PROVE  Behind(S, E, ts + 1, h2, o2)
<1> DEFINE al == access_list
           h == hit_count_
           o == opt_hit_count
<1>1. /\ k \in Keys /\ ts \in Nat /\ al \in Seq(Keys) /\ Len(al) \in Nat
      /\ ts < Len(al) /\ k = al[ts + 1]
      /\ buffer_size_ \in Nat \ {0} /\ h \in Nat /\ o \in Nat
  BY TurnFacts, AccessList DEF Turn, key_, Running
<1>2. S \subseteq Keys /\ R \subseteq Keys /\ Cardinality(S) <= buffer_size_
      /\ Cardinality(S) \in Nat /\ k \in S
  <2>1. S \subseteq Keys /\ Cardinality(S) <= buffer_size_
    BY <1>1, KeysAreFinite, DemandFits
  <2>2. R \subseteq Keys /\ k \in S
    BY DEF Fits, Demand
  <2> QED BY <2>1, <2>2, KeysAreFinite, KeysFinite
<1>3. h2 = h + One0(k \in R) /\ o2 = o + One0(k \in D)
      /\ One0(k \in R) \in Nat /\ One0(k \in D) \in Nat
      /\ h2 \in Nat /\ o2 \in Nat
  BY <1>1 DEF One0
<1>4. h2 <= o2
  <2>1. Reached(al, ts, ts) = {k}
    BY <1>1, ReachedNext
  <2>2. h + Cardinality(R \cap {k}) <= o + Cardinality(D \cap {k})
    BY <1>1, <2>1 DEF Behind
  <2>3. \A X \in SUBSET Keys : Cardinality(X \cap {k}) = One0(k \in X)
    BY <1>1, KeysAreFinite, SizeWith DEF One0
  <2>4. Cardinality(R \cap {k}) = One0(k \in R) /\ Cardinality(D \cap {k}) = One0(k \in D)
    BY <1>2, <2>3
  <2> QED BY <1>3, <2>2, <2>4
<1>5. ASSUME NEW t \in Nat
      PROVE  h2 + Cardinality(S \cap Reached(al, ts + 1, t))
               <= o2 + Cardinality(E \cap Reached(al, ts + 1, t))
  <2> DEFINE V == Reached(al, ts + 1, t)
             a == Cardinality(S \cap V)
             b == Cardinality(E \cap V)
  <2> SUFFICES h2 + a <= o2 + b
    OBVIOUS
  <2>1. V \subseteq Keys
    BY DEF Reached
  <2>2. a \in Nat /\ b \in Nat
    <3> HIDE DEF V
    <3> QED BY <1>2, <2>1, KeysAreFinite, SizeAtMost
  <2>3. CASE t < ts + 1
    <3>1. V = {}
      BY <1>1, <2>3, ReachedNext
    <3>2. a = 0 /\ b = 0
      BY <3>1, FS_EmptySet
    <3> HIDE DEF a, b
    <3>3. h2 + a <= o2 + b
      BY <1>3, <1>4, <3>2
    <3> QED BY <3>3 DEF a, b
  <2>4. CASE ~(t < ts + 1)
    <3> DEFINE U == V \cup {k}
               x == Cardinality(R \cap U)
               y == Cardinality(D \cap U)
               i == One0(k \in R)
               j == One0(k \in D)
               n == One0(k \in V)
    <3>1. Reached(al, ts, t) = U
      <4>1. t >= ts
        BY <1>1, <2>4
      <4> QED BY <1>1, <4>1, ReachedNext
    <3>2. h + x <= o + y
      <4>1. h + Cardinality(R \cap Reached(al, ts, t))
              <= o + Cardinality(D \cap Reached(al, ts, t))
        BY DEF Behind
      <4> QED BY <3>1, <4>1
    <3> HIDE DEF V
    <3>3. i + a <= x + n
      BY <1>1, <2>1, KeysAreFinite, DemandLeaves
    <3>4. x \in Nat /\ y \in Nat /\ i \in Nat /\ j \in Nat /\ n \in Nat
      <4>1. U \subseteq Keys
        BY <1>1, <2>1
      <4> HIDE DEF U
      <4> QED BY <1>2, <4>1, KeysAreFinite, SizeAtMost DEF One0
    <3>5. ASSUME (D \cap V) \cup {k} \subseteq E, k \in D => E = D
          PROVE  h2 + a <= o2 + b
      <4>1. y + n <= j + b
        BY <1>1, <2>1, <3>5, KeysAreFinite, MoveLeaves
      <4>2. h2 = h + i /\ o2 = o + j
        BY <1>3
      <4> HIDE DEF a, b, x, y, i, j, n
      <4> QED BY <1>1, <2>2, <3>2, <3>3, <3>4, <4>1, <4>2
    <3>6. CASE k \in D /\ E = D
      BY <3>5, <3>6
    <3>7. CASE k \notin D /\ E = D \cup {k}
      BY <3>5, <3>7
    <3>8. ASSUME k \notin D, NEW item \in opt.buffer_set_,
                 Cardinality(opt.buffer_set_) = buffer_size_,
                 E = (D \ {item.key}) \cup {k}, item.key # k,
                 \A e \in opt.buffer_set_ : e.future <= item.future
          PROVE  h2 + a <= o2 + b
      <4>1. CASE item.key \notin V
        BY <3>5, <3>8, <4>1
      <4>2. CASE item.key \in V
        <5>1. buffer_size_ <= Cardinality(D \cap V)
          BY <3>8, <4>2, OPTLast DEF V
        <5>2. a <= b
          <6> DEFINE z == item.key
          <6>1. z \in Keys /\ E = (D \ {z}) \cup {k} /\ z # k
            BY <2>1, <3>8, <4>2
          <6> HIDE DEF z
          <6> QED BY <1>1, <1>2, <2>1, <3>8, <5>1, <6>1, KeysAreFinite, FullLeaves
        <5> HIDE DEF a, b
        <5> QED BY <1>3, <1>4, <2>2, <5>2
      <4> QED BY <4>1, <4>2
    <3> QED BY <3>6, <3>7, <3>8 DEF OPTMove
  <2> QED BY <2>3, <2>4
<1> QED BY <1>4, <1>5 DEF Behind

\* A policy without pages is behind if it would be with a page.
LEMMA BehindNone ==
  ASSUME NEW k \in Keys, NEW E \in SUBSET Keys, NEW s, NEW h \in Nat, NEW o \in Nat,
         Behind({k}, E, s, h, o)
  PROVE  Behind({}, E, s, h, o)
<1>1. ASSUME NEW t \in Nat
      PROVE  h + Cardinality({} \cap Reached(access_list, s, t))
               <= o + Cardinality(E \cap Reached(access_list, s, t))
  <2> DEFINE V == Reached(access_list, s, t)
             a == Cardinality({k} \cap V)
             b == Cardinality(E \cap V)
  <2>1. h + a <= o + b
    BY DEF Behind
  <2>2. a \in Nat /\ b \in Nat
    <3> HIDE DEF V
    <3> QED BY KeysAreFinite, SizeAtMost
  <2>3. Cardinality({} \cap V) = 0
    <3> HIDE DEF V
    <3> QED BY FS_EmptySet
  <2>4. h + 0 <= o + b
    <3> HIDE DEF a, b
    <3> QED BY <2>1, <2>2
  <2> QED BY <2>3, <2>4
<1> QED BY <1>1 DEF Behind

-----------------------------------------------------------------------------
(* LRFU and EFSW *)

LEMMA LRFUOps ==
  ASSUME NEW h, NEW k, NEW v
  PROVE  /\ LRFU!Add(h, k, v) = Add(h, k, v)
         /\ LRFU!Pop(h) = Pop(h)
         /\ LRFU!GetValue(h, k) = GetValue(h, k)
         /\ LRFU!Looked(h, k) = Looked(h, k)
         /\ LRFU!InHeap(h, k) = InHeap(h, k)
         /\ LRFU!Size(h) = Size(h)
         /\ LRFU!NewHeap = NewHeap
<1>1. \A g, i : LRFU!heapify_up(g, i) = heapify_up(g, i)
  BY Zenon DEF LRFU!heapify_up, heapify_up, LRFU!Up, Up,
       LRFU!update_value, update_value, LRFU!exchange, exchange,
       LRFU!Less, Less, LRFU!Entry, Entry, LRFU!Size, Size, LRFU!ValueNow, ValueNow
<1>2. \A g, i : LRFU!heapify_down(g, i) = heapify_down(g, i)
  BY ZenonT(60) DEF LRFU!heapify_down, heapify_down, LRFU!Down, Down,
       LRFU!SmallerSon, SmallerSon,
       LRFU!update_value, update_value, LRFU!exchange, exchange,
       LRFU!Less, Less, LRFU!Entry, Entry, LRFU!Size, Size, LRFU!ValueNow, ValueNow
<1>3. LRFU!Add(h, k, v) = Add(h, k, v)
  <2>1. LRFU!InHeap(h, k) = InHeap(h, k)
    BY DEF LRFU!InHeap, InHeap
  <2>2. LRFU!Push(h, k, v) = Push(h, k, v)
    BY <1>1, Zenon DEF LRFU!Push, Push, LRFU!Put, Put, LRFU!Size, Size
  <2>3. \A g, i : LRFU!update_value(g, i) = update_value(g, i)
    BY Zenon DEF LRFU!update_value, update_value, LRFU!Entry, Entry,
         LRFU!Size, Size, LRFU!ValueNow, ValueNow
  <2>4. \A g, i : LRFU!Raised(g, i, v) = Raised(g, i, v)
    BY Zenon DEF LRFU!Raised, Raised, LRFU!Entry, Entry
  <2> DEFINE i == h.index_[k]
             u == [h EXCEPT !.ts_ = @ + 1]
             s == Raised(update_value(u, i), i, v)
  <2>5. LRFU!Raised(LRFU!update_value(u, i), i, v) = s
    <3> HIDE DEF u, i
    <3> QED BY <2>3, <2>4, Zenon
  <2>6. Add(h, k, v) = IF ~InHeap(h, k) THEN Push(h, k, v)
                       ELSE IF v >= 0 THEN heapify_down(s, i) ELSE heapify_up(s, i)
    BY Zenon DEF Add
  <2> DEFINE r == LRFU!Raised(LRFU!update_value(u, i), i, v)
  <2>7. LRFU!Add(h, k, v)
          = IF ~LRFU!InHeap(h, k) THEN LRFU!Push(h, k, v)
            ELSE IF v >= 0 THEN LRFU!heapify_down(r, i)
            ELSE LRFU!heapify_up(r, i)
    BY Zenon DEF LRFU!Add
  <2> HIDE DEF s, i, r
  <2>8. LRFU!heapify_down(r, i) = heapify_down(s, i)
        /\ LRFU!heapify_up(r, i) = heapify_up(s, i)
    <3>1. r = s
      BY <2>5 DEF r
    <3> QED BY <1>1, <1>2, <3>1, Zenon
  <2>9. CASE InHeap(h, k)
    <3>1. LRFU!InHeap(h, k)
      BY <2>1, <2>9
    <3> QED BY <2>6, <2>7, <2>8, <2>9, <3>1
  <2>10. CASE ~InHeap(h, k)
    <3>1. ~LRFU!InHeap(h, k)
      BY <2>1, <2>10
    <3> QED BY <2>2, <2>6, <2>7, <2>10, <3>1
  <2> QED BY <2>9, <2>10
<1>4. LRFU!Pop(h) = Pop(h)
  BY <1>2, Zenon DEF LRFU!Pop, Pop, LRFU!exchange, exchange, LRFU!Entry, Entry,
       LRFU!Size, Size, LRFU!Last, Last, LRFU!Front, Front, LRFU!Drop, Drop
<1>5. /\ LRFU!GetValue(h, k) = GetValue(h, k)
      /\ LRFU!Looked(h, k) = Looked(h, k)
  BY Zenon DEF LRFU!GetValue, GetValue, LRFU!Looked, Looked,
       LRFU!update_value, update_value, LRFU!Entry, Entry, LRFU!Size, Size,
       LRFU!ValueNow, ValueNow
<1>6. /\ LRFU!InHeap(h, k) = InHeap(h, k)
      /\ LRFU!Size(h) = Size(h)
      /\ LRFU!NewHeap = NewHeap
  BY Zenon DEF LRFU!InHeap, InHeap, LRFU!Size, Size, LRFU!NewHeap, NewHeap,
       LRFU!NoEntries, NoEntries
<1> QED BY <1>3, <1>4, <1>5, <1>6

-----------------------------------------------------------------------------
(* The decayed sums of the accesses *)

LEMMA OneIs ==
  /\ One \in Nat /\ Halved(One, 0) = One
  /\ \A n \in Nat : Halved(One, n) \in Nat
  /\ \A d \in Nat : d + 1 <= Length =>
       Halved(One, d) = Halved(One, d + 1) + Halved(One, d + 1)
<1> DEFINE M == 2 * Length
<1>1. Length \in Nat
  BY NeverIs
<1>2. M \in Nat /\ \A d \in Nat : d + 1 <= Length => d + 1 <= M
  BY <1>1
<1>3. One = 2^M
  BY DEF One
<1> HIDE DEF M
<1>4. One \in Nat
  BY <1>2, <1>3, PowersOfTwo
<1>5. \A d \in Nat : d + 1 <= Length =>
        Halved(One, d) = Halved(One, d + 1) + Halved(One, d + 1)
  BY <1>2, <1>3, PowersHalved
<1>6. Halved(One, 0) = One /\ \A n \in Nat : Halved(One, n) \in Nat
  BY <1>4, HalvedIs
<1> QED BY <1>4, <1>5, <1>6

\* What the access at place n is worth to k at time t, and the sums of that
Share(al, k, n, t) == IF al[n] = k THEN Halved(One, t - n) ELSE 0

Sums(g, al, k, t) ==
  /\ g \in [0 .. t -> Nat] /\ g[0] = 0
  /\ \A n \in 1 .. t : g[n] = g[n - 1] + Share(al, k, n, t)

\* With one access more the sum is halved, and One more for its page.
LEMMA SumsNext ==
  ASSUME NEW al, NEW k, NEW t \in Nat, t + 1 <= Length,
         NEW g, Sums(g, al, k, t), NEW h, Sums(h, al, k, t + 1)
  PROVE  h[t + 1] = g[t] \div 2 + (IF al[t + 1] = k THEN One ELSE 0)
<1> DEFINE T == { n \in Nat : n <= t => g[n] = h[n] + h[n] }
<1>1. /\ \A n \in 0 .. t : g[n] \in Nat
      /\ \A n \in 0 .. t + 1 : h[n] \in Nat
      /\ g[0] = 0 /\ h[0] = 0
  BY DEF Sums
<1>2. Length \in Nat
  BY NeverIs
<1>3. \A n \in 1 .. t : g[n] = g[n - 1] + Share(al, k, n, t)
  BY DEF Sums
<1>4. \A n \in 1 .. t + 1 : h[n] = h[n - 1] + Share(al, k, n, t + 1)
  BY DEF Sums
<1>5. \A n \in 1 .. t : /\ Share(al, k, n, t + 1) \in Nat
                        /\ Share(al, k, n, t) = Share(al, k, n, t + 1)
                                                + Share(al, k, n, t + 1)
  <2>1. ASSUME NEW n \in 1 .. t
        PROVE  /\ Share(al, k, n, t + 1) \in Nat
               /\ Share(al, k, n, t) = Share(al, k, n, t + 1) + Share(al, k, n, t + 1)
    <3> DEFINE d == t - n
    <3>1. d \in Nat /\ (t + 1) - n = d + 1 /\ d + 1 <= Length /\ d + 1 \in Nat
      BY <1>2
    <3> HIDE DEF d
    <3>2. Halved(One, d) = Halved(One, d + 1) + Halved(One, d + 1)
          /\ Halved(One, d + 1) \in Nat
      BY <3>1, OneIs
    <3>3. Share(al, k, n, t) = IF al[n] = k THEN Halved(One, d) ELSE 0
      BY DEF Share, d
    <3>4. Share(al, k, n, t + 1) = IF al[n] = k THEN Halved(One, d + 1) ELSE 0
      BY <3>1 DEF Share
    <3> QED BY <3>2, <3>3, <3>4
  <2> QED BY <2>1
<1>6. 0 \in T
  BY <1>1
<1>7. ASSUME NEW n \in Nat, n \in T PROVE n + 1 \in T
  <2> SUFFICES ASSUME n + 1 <= t PROVE g[n + 1] = h[n + 1] + h[n + 1]
    OBVIOUS
  <2>1. n + 1 \in 1 .. t /\ n + 1 \in 1 .. t + 1 /\ (n + 1) - 1 = n
        /\ n \in 0 .. t /\ n \in 0 .. t + 1
    OBVIOUS
  <2> DEFINE a == Share(al, k, n + 1, t + 1)
             b == Share(al, k, n + 1, t)
             x == g[n]
             y == h[n]
  <2>2. g[n + 1] = x + b /\ h[n + 1] = y + a
    BY <1>3, <1>4, <2>1
  <2>3. a \in Nat /\ b = a + a
    BY <1>5, <2>1
  <2>4. x = y + y /\ y \in Nat
    BY <1>1, <1>7, <2>1
  <2> HIDE DEF a, b, x, y
  <2> QED BY <2>2, <2>3, <2>4
<1> HIDE DEF T
<1>8. Nat \subseteq T
  BY <1>6, <1>7, AllNaturals
<1>9. g[t] = h[t] + h[t] /\ h[t] \in Nat
  BY <1>1, <1>8 DEF T
<1>10. h[t + 1] = h[t] + Share(al, k, t + 1, t + 1)
  <2>1. t + 1 \in 1 .. t + 1 /\ (t + 1) - 1 = t
    OBVIOUS
  <2> QED BY <1>4, <2>1
<1>11. Share(al, k, t + 1, t + 1) = IF al[t + 1] = k THEN One ELSE 0
  <2>1. (t + 1) - (t + 1) = 0
    OBVIOUS
  <2> QED BY <2>1, OneIs DEF Share
<1> DEFINE y == h[t]
<1>12. (y + y) \div 2 = y
  <2>1. y \in Nat
    BY <1>9
  <2> HIDE DEF y
  <2> QED BY <2>1
<1> QED BY <1>9, <1>10, <1>11, <1>12

\* Decayed is such a sum.
DecayReads ==
  Running =>
    \A k : \E g : Sums(g, access_list, k, ts) /\ Decayed(k) = g[ts]

LEMMA DecayReadsIs == DecayReads
<1> SUFFICES ASSUME Running, NEW k
             PROVE  \E g : Sums(g, access_list, k, ts) /\ Decayed(k) = g[ts]
  BY DEF DecayReads
<1> DEFINE N == ts
           F == [n \in 1 .. N |->
                   [v \in Nat |-> v + Share(access_list, k, n, N)]]
           Step(f, n) == IF n = 0 THEN 0
                         ELSE f[n - 1] + (IF access_list[n] = k
                                          THEN One \div 2^(ts - n) ELSE 0)
           P(f) == f = [n \in 0 .. N |-> Step(f, n)]
           h == CHOOSE f : P(f)
<1>1. N \in Nat
  BY DEF Running
<1>2. Decayed(k) = h[N]
  BY DEF Decayed
<1>3. \A f, n : Step(f, n) = IF n = 0 THEN 0
                             ELSE f[n - 1] + Share(access_list, k, n, N)
  BY DEF Share, Halved
<1>4. \A n \in 1 .. N : Share(access_list, k, n, N) \in Nat
  <2>1. ASSUME NEW n \in 1 .. N PROVE Share(access_list, k, n, N) \in Nat
    <3>1. N - n \in Nat
      BY <1>1
    <3> HIDE DEF N
    <3>2. Halved(One, N - n) \in Nat
      BY <3>1, OneIs
    <3> QED BY <3>2 DEF Share
  <2> QED BY <2>1
<1> HIDE DEF Step
<1>5. F \in Steps(N, Nat)
  <2>1. ASSUME NEW n \in 1 .. N, NEW v \in Nat
        PROVE  v + Share(access_list, k, n, N) \in Nat
    <3> DEFINE a == Share(access_list, k, n, N)
    <3>1. a \in Nat
      BY <1>4
    <3> SUFFICES v + a \in Nat
      OBVIOUS
    <3> HIDE DEF a
    <3> QED BY <3>1
  <2> QED BY <2>1 DEF Steps
<1>6. \A n \in 1 .. N, v \in Nat : F[n][v] = v + Share(access_list, k, n, N)
  OBVIOUS
<1> HIDE DEF F, N
<1>7. PICK g : Loops(g, N, Nat, 0, F)
  BY <1>1, <1>5, Loop
<1>8. P(g)
  <2>1. ASSUME NEW n \in 0 .. N PROVE g[n] = Step(g, n)
    <3>1. CASE n = 0
      BY <1>3, <1>7, <3>1 DEF Loops
    <3>2. CASE n # 0
      <4>1. n \in 1 .. N
        BY <1>1, <3>2
      <4>2. g[n] = F[n][g[n - 1]] /\ g[n - 1] \in Nat
        BY <1>7, <4>1 DEF Loops
      <4> QED BY <1>3, <1>6, <3>2, <4>1, <4>2
    <3> QED BY <3>1, <3>2
  <2>2. g = [n \in 0 .. N |-> g[n]]
    BY <1>7 DEF Loops
  <2>3. [n \in 0 .. N |-> g[n]] = [n \in 0 .. N |-> Step(g, n)]
    BY <2>1
  <2> QED BY <2>2, <2>3
<1>9. P(h)
  <2>1. \E f : P(f)
    BY <1>8
  <2> QED BY <2>1
<1>10. h = [n \in 0 .. N |-> Step(h, n)]
  BY <1>9
<1> HIDE DEF h
<1>11. \A n \in 0 .. N : h[n] = Step(h, n)
  BY <1>10
<1>12. Loops(h, N, Nat, 0, F)
  <2>1. h = [n \in 0 .. N |-> h[n]]
    BY <1>10
  <2>2. h[0] = 0
    BY <1>1, <1>3, <1>11
  <2>3. ASSUME NEW n \in 1 .. N, h[n - 1] \in Nat PROVE h[n] = F[n][h[n - 1]]
    <3>1. n \in 0 .. N /\ n # 0
      BY <1>1
    <3>2. h[n] = h[n - 1] + Share(access_list, k, n, N)
      BY <1>3, <1>11, <3>1
    <3> QED BY <1>6, <2>3, <3>2
  <2> QED BY <1>1, <1>5, <2>1, <2>2, <2>3, LoopIs
<1>13. Sums(h, access_list, k, N)
  BY <1>6, <1>12 DEF Loops, Sums
<1> QED BY <1>2, <1>13 DEF N

LEMMA DecayReadsNext == DecayReads'
<1> QED BY DecayReadsIs, PTL

LEMMA DecayedType ==
  ASSUME Running, NEW k
  PROVE  Decayed(k) \in Nat
<1>1. PICK g : Sums(g, access_list, k, ts) /\ Decayed(k) = g[ts]
  BY DecayReadsIs DEF DecayReads
<1>2. ts \in 0 .. ts
  BY DEF Running
<1> QED BY <1>1, <1>2 DEF Sums

\* A turn halves the score of every page and gives the one accessed One more.
LEMMA DecayedNext ==
  ASSUME Turn, Running', NEW k \in Keys
  PROVE  Decayed(k)' = Decayed(k) \div 2 + (IF k = key_ THEN One ELSE 0)
<1> DEFINE t == ts  al == access_list
<1>1. /\ t \in Nat /\ ts' = t + 1 /\ access_list' = al /\ t + 1 <= Length
      /\ key_ = al[t + 1]
  <2>1. ts + 1 \in 1 .. Len(access_list) /\ Len(access_list) \in Nat
    BY TurnFacts
  <2>2. Len(access_list) <= Length
    BY AccessList DEF Turn
  <2>3. Length \in Nat
    BY NeverIs
  <2> QED BY <2>1, <2>2, <2>3, TurnFacts DEF key_
<1>2. PICK g : Sums(g, al, k, t) /\ Decayed(k) = g[t]
  BY DecayReadsIs DEF DecayReads, Turn
<1>3. PICK h : Sums(h, al, k, t + 1) /\ Decayed(k)' = h[t + 1]
  <2>1. \E h : Sums(h, access_list', k, ts') /\ Decayed(k)' = h[ts']
    BY DecayReadsNext DEF DecayReads
  <2> HIDE DEF t, al
  <2> QED BY <1>1, <2>1
<1> HIDE DEF t, al
<1>4. h[t + 1] = g[t] \div 2 + (IF al[t + 1] = k THEN One ELSE 0)
  BY <1>1, <1>2, <1>3, SumsNext
<1> QED BY <1>1, <1>2, <1>3, <1>4

HeapInv ==
  /\ HeapOK(cache.heap) /\ HeapOK(cache.store)
  /\ Fits(DOMAIN cache.heap.index_)

\* What a heap says of a page is what its accesses have left.
Scored(h) == \A l \in DOMAIN h.index_ : Worth(h, l) = Decayed(l)

ScoreInv ==
  /\ HeapInv /\ Scored(cache.heap) /\ Scored(cache.store)
  /\ \A l \in Keys \ DOMAIN cache.store.index_ : Decayed(l) = 0

LEMMA HeapPrime ==
  /\ HeapOK(cache'.heap) => HeapOK(cache.heap)'
  /\ HeapOK(cache'.store) => HeapOK(cache.store)'
  /\ \A l : Worth(cache.heap, l)' = Worth(cache'.heap, l)
  /\ \A l : Worth(cache.store, l)' = Worth(cache'.store, l)
<1>1. /\ HeapOK(cache'.heap) => HeapOK(cache.heap)'
      /\ HeapOK(cache'.store) => HeapOK(cache.store)'
  BY DEF HeapOK, HeapStates, HeapEntries, Places
<1>2. /\ \A l : Worth(cache.heap, l)' = Worth(cache'.heap, l)
      /\ \A l : Worth(cache.store, l)' = Worth(cache'.store, l)
  BY DEF Worth, Halved
<1> QED BY <1>1, <1>2

\* The heap after a miss: k is in, at most one page is out.
LEMMA HeapLeft ==
  ASSUME Turn, HeapInv, NEW k \in Keys, k \notin DOMAIN cache.heap.index_,
         NEW left, left = (IF Size(cache.heap) = buffer_size_ THEN Pop(cache.heap)
                           ELSE cache.heap),
         NEW v \in Nat, NEW t, t = Add(left, k, v)
  PROVE  /\ HeapOK(t) /\ Demand(DOMAIN cache.heap.index_, DOMAIN t.index_, k)
         /\ Worth(t, k) = v
         /\ \A l \in DOMAIN t.index_ :
              l # k => /\ l \in DOMAIN cache.heap.index_
                       /\ Worth(t, l) = Worth(cache.heap, l) \div 2
<1> DEFINE h == cache.heap
           R == DOMAIN h.index_
<1>1. HeapOK(h) /\ R \subseteq Keys /\ Cardinality(R) <= buffer_size_
  BY DEF HeapInv, Fits
<1>2. Cardinality(R) = Size(h) /\ Size(h) = Len(h.heap_) /\ Cardinality(R) \in Nat
  BY <1>1, ConstantsAre, HeapReads, KeysAreFinite, KeysFinite DEF Size
<1>3. buffer_size_ \in Nat \ {0}
  BY TurnFacts
<1>4. k \notin R /\ left = IF Size(h) = buffer_size_ THEN Pop(h) ELSE h
  OBVIOUS
<1> HIDE DEF h, R
<1>5. /\ HeapOK(left) /\ k \notin DOMAIN left.index_
      /\ Demand(R, DOMAIN left.index_ \cup {k}, k)
      /\ \A l \in DOMAIN left.index_ : l \in R /\ Worth(left, l) = Worth(h, l)
  <2>1. CASE Size(h) = buffer_size_
    <3>1. Len(h.heap_) > 0
      BY <1>2, <1>3, <2>1
    <3>2. PICK p : Popped(h, Pop(h), p)
      BY <1>1, <3>1, HeapPop
    <3>3. /\ p \in R /\ HeapOK(left) /\ DOMAIN left.index_ = R \ {p}
          /\ \A l \in DOMAIN left.index_ : Worth(left, l) = Worth(h, l)
      BY <1>4, <2>1, <3>2 DEF Popped, R
    <3> QED BY <1>2, <1>4, <2>1, <3>3 DEF Demand
  <2>2. CASE Size(h) # buffer_size_
    <3>1. left = h /\ Cardinality(R) < buffer_size_
      BY <1>1, <1>2, <1>3, <1>4, <2>2
    <3> QED BY <1>1, <1>4, <3>1 DEF Demand, R
  <2> QED BY <2>1, <2>2
<1>6. Added(left, t, k, v)
  BY <1>5, HeapAdd
<1>7. Worth(t, k) = 0 + v
  BY <1>5, <1>6 DEF Added
<1>8. DOMAIN t.index_ = DOMAIN left.index_ \cup {k} /\ HeapOK(t)
  BY <1>6 DEF Added
<1>9. \A l \in DOMAIN left.index_ : l # k => Worth(t, l) = Worth(left, l) \div 2
  BY <1>6 DEF Added
<1>10. ASSUME NEW l \in DOMAIN t.index_, l # k
       PROVE  l \in R /\ Worth(t, l) = Worth(h, l) \div 2
  BY <1>5, <1>8, <1>9, <1>10
<1> QED BY <1>5, <1>7, <1>8, <1>10 DEF h, R

LEMMA ScoredNext ==
  ASSUME Turn, Running', NEW k, k = key_, NEW h, HeapOK(h), Scored(h),
         NEW v, v = Decayed(k) \div 2 + One, NEW t, ScoresNext(h, t, k, v)
  PROVE  \A l \in DOMAIN t.index_ : Worth(t, l) = Decayed(l)'
<1> SUFFICES ASSUME NEW l \in DOMAIN t.index_ PROVE Worth(t, l) = Decayed(l)'
  OBVIOUS
<1>1. l \in Keys /\ k \in Keys
  <2>1. HeapOK(t)
    BY DEF ScoresNext
  <2>2. DOMAIN t.index_ \subseteq Keys
    BY <2>1, HeapFacts
  <2> QED BY <2>2, TurnFacts
<1>2. Decayed(l)' = Decayed(l) \div 2 + (IF l = k THEN One ELSE 0)
  BY <1>1, DecayedNext
<1>3. CASE l = k
  BY <1>2, <1>3 DEF ScoresNext
<1>4. CASE l # k
  <2>1. Worth(t, l) = Decayed(l) \div 2
    BY <1>4 DEF ScoresNext, Scored
  <2>2. Decayed(l) \div 2 \in Nat
    <3>1. Decayed(l) \in Nat
      BY DecayedType DEF Turn
    <3> DEFINE d == Decayed(l)
    <3> SUFFICES d \div 2 \in Nat
      OBVIOUS
    <3>2. d \in Nat
      BY <3>1
    <3> HIDE DEF d
    <3> QED BY <3>2
  <2>3. Decayed(l)' = Decayed(l) \div 2
    BY <1>2, <1>4, <2>2
  <2> QED BY <2>1, <2>3
<1> QED BY <1>3, <1>4

LEMMA ScoreValue ==
  ASSUME Turn, NEW k, k = key_, NEW h, Scored(h),
         k \notin DOMAIN h.index_ => Decayed(k) = 0
  PROVE  /\ (IF k \in DOMAIN h.index_ THEN Worth(h, k) \div 2 ELSE 0) + One
              = Decayed(k) \div 2 + One
         /\ Decayed(k) \div 2 + One \in Nat
<1>1. Decayed(k) \in Nat
  BY DecayedType DEF Turn
<1>2. 0 \div 2 = 0
  OBVIOUS
<1>3. k \in DOMAIN h.index_ => Worth(h, k) = Decayed(k)
  BY DEF Scored
<1> DEFINE d == Decayed(k)
<1>4. d \div 2 \in Nat /\ d \div 2 + One \in Nat
  <2>1. d \in Nat
    BY <1>1
  <2> HIDE DEF d
  <2>2. d \div 2 \in Nat
    BY <2>1
  <2> QED BY <2>2, OneIs
<1> QED BY <1>2, <1>3, <1>4

LEMMA LRFUTurn ==
  ASSUME Turn, Running', NEW k, k = key_, ScoreInv, LRFU!access(k)
  PROVE  /\ ScoreInv'
         /\ Demand(DOMAIN cache.heap.index_, DOMAIN cache'.heap.index_, k)
         /\ Counts(k \in DOMAIN cache.heap.index_)
<1> DEFINE a == cache.heap
           s == cache.store
           v == Decayed(k) \div 2 + One
           R == DOMAIN a.index_
           S == DOMAIN cache'.heap.index_
<1>1. /\ k \in Keys /\ buffer_size_ \in Nat \ {0} /\ buffer_size_' = buffer_size_
  BY TurnFacts
<1>2. /\ HeapOK(a) /\ HeapOK(s) /\ Fits(R) /\ HeapInv /\ Scored(a) /\ Scored(s)
      /\ \A l \in Keys \ DOMAIN s.index_ : Decayed(l) = 0
      /\ DOMAIN s.index_ \subseteq Keys
  BY HeapFacts DEF ScoreInv, HeapInv
<1>3. One \in Nat
  BY OneIs
<1>4. /\ (IF k \in DOMAIN s.index_ THEN Worth(s, k) \div 2 ELSE 0) + One = v
      /\ v \in Nat
  BY <1>1, <1>2, ScoreValue
<1>5. Added(s, Add(s, k, One), k, One)
  BY <1>1, <1>2, <1>3, HeapAdd
<1>6. /\ ScoresNext(s, Add(s, k, One), k, v)
      /\ DOMAIN Add(s, k, One).index_ = DOMAIN s.index_ \cup {k}
  BY <1>3, <1>4, <1>5, AddedScores
<1>7. ASSUME NEW t, HeapOK(t), cache'.heap = t, ScoresNext(a, t, k, v),
             Demand(R, DOMAIN t.index_, k),
             NEW u, HeapOK(u), cache'.store = u, ScoresNext(s, u, k, v),
             DOMAIN u.index_ = DOMAIN s.index_ \cup {k}
      PROVE  ScoreInv'
  <2>1. HeapOK(cache.heap)' /\ HeapOK(cache.store)'
    BY <1>7, HeapPrime
  <2>2. \A l \in DOMAIN t.index_ : Worth(t, l) = Decayed(l)'
    BY <1>2, <1>7, ScoredNext
  <2>3. \A l \in DOMAIN u.index_ : Worth(u, l) = Decayed(l)'
    BY <1>2, <1>7, ScoredNext
  <2>4. Scored(cache.heap)' /\ Scored(cache.store)'
    BY <1>7, <2>2, <2>3, HeapPrime DEF Scored
  <2>5. DOMAIN t.index_ \subseteq Keys /\ Cardinality(DOMAIN t.index_) <= buffer_size_
    BY <1>1, <1>2, <1>7, KeysAreFinite, DemandFits
  <2>6. Fits(DOMAIN cache.heap.index_)'
    BY <1>1, <1>7, <2>5 DEF Fits
  <2>7. ASSUME NEW l \in Keys \ DOMAIN u.index_ PROVE Decayed(l)' = 0
    <3>1. l # k /\ Decayed(l) = 0
      BY <1>2, <1>7
    <3>2. Decayed(l)' = Decayed(l) \div 2 + (IF l = k THEN One ELSE 0)
      BY DecayedNext
    <3>3. Decayed(l)' = (0 \div 2) + 0
      BY <3>1, <3>2
    <3> QED BY <3>3
  <2> QED BY <1>7, <2>1, <2>4, <2>6, <2>7 DEF ScoreInv, HeapInv
<1>8. CASE LRFU!Hit(k)
  <2> DEFINE t == Add(a, k, One)
             u == Add(s, k, One)
  <2>1. /\ k \in R /\ hit_count_' = hit_count_ + 1 /\ miss_count_' = miss_count_
        /\ cache' = [heap |-> t, store |-> u]
    BY <1>8, LRFUOps DEF LRFU!Hit, LRFU!CountHit, InHeap
  <2>2. Added(a, t, k, One)
    BY <1>1, <1>2, <1>3, HeapAdd
  <2>3. (IF k \in DOMAIN a.index_ THEN Worth(a, k) \div 2 ELSE 0) + One = v
    BY <1>2, <2>1, ScoreValue
  <2>4. ScoresNext(a, t, k, v) /\ DOMAIN t.index_ = R \cup {k}
    BY <1>3, <2>2, <2>3, AddedScores
  <2> HIDE DEF t, u
  <2>5. cache'.heap = t /\ cache'.store = u
    BY <2>1
  <2>6. DOMAIN t.index_ = R /\ HeapOK(t) /\ Demand(R, DOMAIN t.index_, k)
    BY <2>1, <2>4 DEF ScoresNext, Demand
  <2>7. HeapOK(u) /\ ScoresNext(s, u, k, v)
        /\ DOMAIN u.index_ = DOMAIN s.index_ \cup {k}
    BY <1>6 DEF ScoresNext, u
  <2> HIDE DEF v, a, s, R
  <2>8. ScoreInv'
    BY <1>7, <2>4, <2>5, <2>6, <2>7
  <2>9. Counts(k \in R)
    BY <2>1 DEF Counts
  <2> QED BY <2>5, <2>6, <2>8, <2>9 DEF R, a
<1>9. CASE LRFU!Miss(k)
  <2> DEFINE left == IF Size(a) = buffer_size_ THEN Pop(a) ELSE a
             w == Add(s, k, One)
             g == GetValue(w, k)
             t == Add(left, k, g)
             u == Looked(w, k)
  <2>1. /\ k \notin R /\ hit_count_' = hit_count_ /\ miss_count_' = miss_count_ + 1
        /\ cache' = [heap |-> t, store |-> u]
    <3> DEFINE y == LRFU!Add(s, k, One)
               x == IF LRFU!Size(a) = buffer_size_ THEN LRFU!Pop(a) ELSE a
               z == LRFU!GetValue(y, k)
               p == LRFU!Add(x, k, z)
               q == LRFU!Looked(y, k)
    <3>1. /\ ~LRFU!InHeap(a, k) /\ hit_count_' = hit_count_
          /\ miss_count_' = miss_count_ + 1 /\ cache' = [heap |-> p, store |-> q]
      BY <1>9, Zenon DEF LRFU!Miss, LRFU!CountMiss
    <3>2. k \notin R
      BY <3>1 DEF LRFU!InHeap
    <3>3. y = w
      BY LRFUOps
    <3>4. x = left
      BY LRFUOps
    <3> HIDE DEF x, y, w, left
    <3>5. z = g
      BY <3>3, LRFUOps
    <3>6. q = u
      BY <3>3, LRFUOps
    <3> HIDE DEF z, g
    <3>7. p = t
      BY <3>4, <3>5, LRFUOps
    <3> HIDE DEF p, q, t, u
    <3> QED BY <3>1, <3>2, <3>6, <3>7
  <2>2. HeapOK(w) /\ k \in DOMAIN w.index_ /\ Worth(w, k) = v
    BY <1>6 DEF ScoresNext
  <2> HIDE DEF w
  <2>3. g = v /\ Same(w, u)
    BY <2>2, ConstantsAre, HeapReads
  <2>4. /\ HeapOK(t) /\ Demand(R, DOMAIN t.index_, k) /\ Worth(t, k) = g
        /\ \A l \in DOMAIN t.index_ :
             l # k => /\ l \in R /\ Worth(t, l) = Worth(a, l) \div 2
    <3>1. g \in Nat
      BY <1>4, <2>3
    <3> HIDE DEF g
    <3> QED BY <1>1, <1>2, <2>1, <3>1, HeapLeft
  <2>5. ScoresNext(a, t, k, v)
    BY <2>3, <2>4 DEF ScoresNext
  <2>6. HeapOK(u) /\ ScoresNext(s, u, k, v)
        /\ DOMAIN u.index_ = DOMAIN s.index_ \cup {k}
    BY <1>6, <2>3 DEF ScoresNext, Same, w
  <2> HIDE DEF t, u
  <2>7. cache'.heap = t /\ cache'.store = u
    BY <2>1
  <2> HIDE DEF v, a, s, R
  <2>8. ScoreInv'
    BY <1>7, <2>4, <2>5, <2>6, <2>7
  <2>9. Counts(k \in R)
    BY <2>1 DEF Counts
  <2> QED BY <2>4, <2>7, <2>8, <2>9 DEF R, a
<1> QED BY <1>8, <1>9 DEF LRFU!access

LEMMA EFSWOps ==
  ASSUME NEW h, NEW k, NEW v
  PROVE  /\ EFSW!Add(h, k, v) = Add(h, k, v)
         /\ EFSW!Pop(h) = Pop(h)
         /\ EFSW!GetValue(h, k) = GetValue(h, k)
         /\ EFSW!Looked(h, k) = Looked(h, k)
         /\ EFSW!InHeap(h, k) = InHeap(h, k)
         /\ EFSW!Size(h) = Size(h)
         /\ EFSW!NewHeap = NewHeap
<1>1. \A g, i : EFSW!heapify_up(g, i) = heapify_up(g, i)
  BY Zenon DEF EFSW!heapify_up, heapify_up, EFSW!Up, Up,
       EFSW!update_value, update_value, EFSW!exchange, exchange,
       EFSW!Less, Less, EFSW!Entry, Entry, EFSW!Size, Size, EFSW!ValueNow, ValueNow
<1>2. \A g, i : EFSW!heapify_down(g, i) = heapify_down(g, i)
  BY ZenonT(60) DEF EFSW!heapify_down, heapify_down, EFSW!Down, Down,
       EFSW!SmallerSon, SmallerSon,
       EFSW!update_value, update_value, EFSW!exchange, exchange,
       EFSW!Less, Less, EFSW!Entry, Entry, EFSW!Size, Size, EFSW!ValueNow, ValueNow
<1>3. EFSW!Add(h, k, v) = Add(h, k, v)
  <2>1. EFSW!InHeap(h, k) = InHeap(h, k)
    BY DEF EFSW!InHeap, InHeap
  <2>2. EFSW!Push(h, k, v) = Push(h, k, v)
    BY <1>1, Zenon DEF EFSW!Push, Push, EFSW!Put, Put, EFSW!Size, Size
  <2>3. \A g, i : EFSW!update_value(g, i) = update_value(g, i)
    BY Zenon DEF EFSW!update_value, update_value, EFSW!Entry, Entry,
         EFSW!Size, Size, EFSW!ValueNow, ValueNow
  <2>4. \A g, i : EFSW!Raised(g, i, v) = Raised(g, i, v)
    BY Zenon DEF EFSW!Raised, Raised, EFSW!Entry, Entry
  <2> DEFINE i == h.index_[k]
             u == [h EXCEPT !.ts_ = @ + 1]
             s == Raised(update_value(u, i), i, v)
  <2>5. EFSW!Raised(EFSW!update_value(u, i), i, v) = s
    <3> HIDE DEF u, i
    <3> QED BY <2>3, <2>4, Zenon
  <2>6. Add(h, k, v) = IF ~InHeap(h, k) THEN Push(h, k, v)
                       ELSE IF v >= 0 THEN heapify_down(s, i) ELSE heapify_up(s, i)
    BY Zenon DEF Add
  <2> DEFINE r == EFSW!Raised(EFSW!update_value(u, i), i, v)
  <2>7. EFSW!Add(h, k, v)
          = IF ~EFSW!InHeap(h, k) THEN EFSW!Push(h, k, v)
            ELSE IF v >= 0 THEN EFSW!heapify_down(r, i)
            ELSE EFSW!heapify_up(r, i)
    BY Zenon DEF EFSW!Add
  <2> HIDE DEF s, i, r
  <2>8. EFSW!heapify_down(r, i) = heapify_down(s, i)
        /\ EFSW!heapify_up(r, i) = heapify_up(s, i)
    <3>1. r = s
      BY <2>5 DEF r
    <3> QED BY <1>1, <1>2, <3>1, Zenon
  <2>9. CASE InHeap(h, k)
    <3>1. EFSW!InHeap(h, k)
      BY <2>1, <2>9
    <3> QED BY <2>6, <2>7, <2>8, <2>9, <3>1
  <2>10. CASE ~InHeap(h, k)
    <3>1. ~EFSW!InHeap(h, k)
      BY <2>1, <2>10
    <3> QED BY <2>2, <2>6, <2>7, <2>10, <3>1
  <2> QED BY <2>9, <2>10
<1>4. EFSW!Pop(h) = Pop(h)
  BY <1>2, Zenon DEF EFSW!Pop, Pop, EFSW!exchange, exchange, EFSW!Entry, Entry,
       EFSW!Size, Size, EFSW!Last, Last, EFSW!Front, Front, EFSW!Drop, Drop
<1>5. /\ EFSW!GetValue(h, k) = GetValue(h, k)
      /\ EFSW!Looked(h, k) = Looked(h, k)
  BY Zenon DEF EFSW!GetValue, GetValue, EFSW!Looked, Looked,
       EFSW!update_value, update_value, EFSW!Entry, Entry, EFSW!Size, Size,
       EFSW!ValueNow, ValueNow
<1>6. /\ EFSW!InHeap(h, k) = InHeap(h, k)
      /\ EFSW!Size(h) = Size(h)
      /\ EFSW!NewHeap = NewHeap
  BY Zenon DEF EFSW!InHeap, InHeap, EFSW!Size, Size, EFSW!NewHeap, NewHeap,
       EFSW!NoEntries, NoEntries
<1> QED BY <1>3, <1>4, <1>5, <1>6

LEMMA EFSWTurn ==
  ASSUME Turn, NEW k, k = key_, HeapInv, EFSW!access(k)
  PROVE  /\ HeapInv'
         /\ Demand(DOMAIN cache.heap.index_, DOMAIN cache'.heap.index_, k)
         /\ Counts(k \in DOMAIN cache.heap.index_)
<1> DEFINE a == cache.heap
           s == cache.store
           R == DOMAIN a.index_
<1>1. /\ k \in Keys /\ buffer_size_ \in Nat \ {0} /\ buffer_size_' = buffer_size_
  BY TurnFacts
<1>2. HeapOK(a) /\ HeapOK(s) /\ Fits(R)
  BY DEF HeapInv
<1>3. One \in Nat /\ 10 * One \in Nat /\ 1 * One \in Nat
  BY OneIs
<1>4. ASSUME NEW t, HeapOK(t), cache'.heap = t, Demand(R, DOMAIN t.index_, k),
             NEW u, HeapOK(u), cache'.store = u
      PROVE  HeapInv'
  <2>1. HeapOK(cache.heap)' /\ HeapOK(cache.store)'
    BY <1>4, HeapPrime
  <2>2. DOMAIN t.index_ \subseteq Keys /\ Cardinality(DOMAIN t.index_) <= buffer_size_
    BY <1>1, <1>2, <1>4, KeysAreFinite, DemandFits
  <2>3. Fits(DOMAIN cache.heap.index_)'
    BY <1>1, <1>4, <2>2 DEF Fits
  <2> QED BY <2>1, <2>3 DEF HeapInv
<1>5. CASE EFSW!Hit(k)
  <2> DEFINE t == Add(a, k, 10 * One)
             u == Add(s, k, 10 * One)
  <2>1. /\ k \in R /\ hit_count_' = hit_count_ + 1 /\ miss_count_' = miss_count_
        /\ cache' = [heap |-> t, store |-> u]
    <3> DEFINE p == EFSW!Add(a, k, 10 * One)
               q == EFSW!Add(s, k, 10 * One)
    <3>1. /\ EFSW!InHeap(a, k) /\ hit_count_' = hit_count_ + 1
          /\ miss_count_' = miss_count_ /\ cache' = [heap |-> p, store |-> q]
      BY <1>5, Zenon DEF EFSW!Hit, EFSW!CountHit
    <3>2. k \in R
      BY <3>1 DEF EFSW!InHeap
    <3>3. p = t /\ q = u
      BY EFSWOps
    <3> HIDE DEF p, q, t, u
    <3> QED BY <3>1, <3>2, <3>3
  <2>2. Added(a, t, k, 10 * One) /\ Added(s, u, k, 10 * One)
    BY <1>1, <1>2, <1>3, HeapAdd
  <2> HIDE DEF t, u
  <2>3. cache'.heap = t /\ cache'.store = u
    BY <2>1
  <2>4. HeapOK(t) /\ HeapOK(u) /\ DOMAIN t.index_ = R /\ Demand(R, DOMAIN t.index_, k)
    BY <2>1, <2>2 DEF Added, Demand
  <2> HIDE DEF a, s, R
  <2>5. HeapInv'
    BY <1>4, <2>3, <2>4
  <2>6. Counts(k \in R)
    BY <2>1 DEF Counts
  <2> QED BY <2>3, <2>4, <2>5, <2>6 DEF R, a
<1>6. CASE EFSW!Miss(k)
  <2> DEFINE left == IF Size(a) = buffer_size_ THEN Pop(a) ELSE a
             f == Add(s, k, 1 * One)
             w == Add(f, k, 1 * One)
             g == GetValue(w, k)
             t == Add(left, k, g)
             u == Looked(w, k)
  <2>1. /\ k \notin R /\ hit_count_' = hit_count_ /\ miss_count_' = miss_count_ + 1
        /\ cache' = [heap |-> t, store |-> u]
    <3> DEFINE e == EFSW!Add(s, k, 1 * One)
               y == EFSW!Add(e, k, 1 * One)
               x == IF EFSW!Size(a) = buffer_size_ THEN EFSW!Pop(a) ELSE a
               z == EFSW!GetValue(y, k)
               p == EFSW!Add(x, k, z)
               q == EFSW!Looked(y, k)
    <3>1. /\ ~EFSW!InHeap(a, k) /\ hit_count_' = hit_count_
          /\ miss_count_' = miss_count_ + 1 /\ cache' = [heap |-> p, store |-> q]
      BY <1>6, Zenon DEF EFSW!Miss, EFSW!CountMiss
    <3>2. k \notin R
      BY <3>1 DEF EFSW!InHeap
    <3>3. e = f
      BY EFSWOps
    <3> HIDE DEF e, f
    <3>4. y = w
      BY <3>3, EFSWOps
    <3>5. x = left
      BY EFSWOps
    <3> HIDE DEF x, y, w, left
    <3>6. z = g
      BY <3>4, EFSWOps
    <3>7. q = u
      BY <3>4, EFSWOps
    <3> HIDE DEF z, g
    <3>8. p = t
      BY <3>5, <3>6, EFSWOps
    <3> HIDE DEF p, q, t, u
    <3> QED BY <3>1, <3>2, <3>7, <3>8
  <2>2. Added(s, f, k, 1 * One)
    BY <1>1, <1>2, <1>3, HeapAdd
  <2> HIDE DEF f
  <2>3. Added(f, w, k, 1 * One)
    <3>1. HeapOK(f)
      BY <2>2 DEF Added
    <3> QED BY <1>1, <1>3, <3>1, HeapAdd
  <2> HIDE DEF w
  <2>4. HeapOK(w) /\ k \in DOMAIN w.index_
    BY <2>3 DEF Added
  <2>5. g \in Nat /\ Same(w, u)
    <3>1. g = Worth(w, k) /\ Same(w, u)
      BY <2>4, ConstantsAre, HeapReads
    <3> QED BY <2>4, <3>1, WorthType
  <2> HIDE DEF g
  <2>6. HeapOK(t) /\ Demand(R, DOMAIN t.index_, k)
    BY <1>1, <2>1, <2>5, HeapLeft
  <2>7. HeapOK(u)
    BY <2>5 DEF Same
  <2> HIDE DEF t, u
  <2>8. cache'.heap = t /\ cache'.store = u
    BY <2>1
  <2> HIDE DEF a, s, R
  <2>9. HeapInv'
    BY <1>4, <2>6, <2>7, <2>8
  <2>10. Counts(k \in R)
    BY <2>1 DEF Counts
  <2> QED BY <2>6, <2>8, <2>9, <2>10 DEF R, a
<1> QED BY <1>5, <1>6 DEF EFSW!access

\* The sums depend on the trace only.
LEMMA SumsSame ==
  ASSUME NEW al, NEW k, NEW t \in Nat, NEW g, Sums(g, al, k, t),
         NEW h, Sums(h, al, k, t)
  PROVE  g[t] = h[t]
<1> DEFINE T == { n \in Nat : n <= t => g[n] = h[n] }
<1>1. g[0] = 0 /\ h[0] = 0
  BY DEF Sums
<1>2. \A n \in 1 .. t : /\ g[n] = g[n - 1] + Share(al, k, n, t)
                        /\ h[n] = h[n - 1] + Share(al, k, n, t)
  BY DEF Sums
<1>3. 0 \in T
  BY <1>1
<1>4. ASSUME NEW n \in Nat, n \in T PROVE n + 1 \in T
  <2> SUFFICES ASSUME n + 1 <= t PROVE g[n + 1] = h[n + 1]
    OBVIOUS
  <2>1. n + 1 \in 1 .. t /\ (n + 1) - 1 = n /\ n <= t
    OBVIOUS
  <2>2. g[n] = h[n]
    BY <1>4, <2>1
  <2>3. g[n + 1] = g[n] + Share(al, k, n + 1, t)
        /\ h[n + 1] = h[n] + Share(al, k, n + 1, t)
    BY <1>2, <2>1
  <2> QED BY <2>2, <2>3
<1> HIDE DEF T
<1>5. t \in T
  BY <1>3, <1>4, AllNaturals
<1>6. t <= t
  OBVIOUS
<1> QED BY <1>5, <1>6 DEF T

LEMMA DecayedStutter ==
  ASSUME Running, Running', ts' = ts, access_list' = access_list, NEW k
  PROVE  Decayed(k)' = Decayed(k)
<1>1. PICK g : Sums(g, access_list, k, ts) /\ Decayed(k) = g[ts]
  BY DecayReadsIs DEF DecayReads
<1>2. PICK h : Sums(h, access_list', k, ts') /\ Decayed(k)' = h[ts']
  BY DecayReadsNext DEF DecayReads
<1>3. ts \in Nat
  BY DEF Running
<1>4. Sums(h, access_list, k, ts)
  BY <1>2
<1>5. g[ts] = h[ts]
  BY <1>1, <1>3, <1>4, SumsSame
<1> QED BY <1>1, <1>2, <1>5

\* No page has a score before the first access.
LEMMA DecayedNone ==
  ASSUME Running', ts' = 0, NEW k
  PROVE  Decayed(k)' = 0
<1>1. PICK h : Sums(h, access_list', k, ts') /\ Decayed(k)' = h[ts']
  BY DecayReadsNext DEF DecayReads
<1>2. h[0] = 0
  BY <1>1 DEF Sums
<1> QED BY <1>1, <1>2

-----------------------------------------------------------------------------
(* LIRS: its lists, and the types of the pages in them *)

LEMMA LIRSOps ==
  ASSUME NEW q, NEW k
  PROVE  /\ LIRS!Erase(q, k) = Erase(q, k) /\ LIRS!Front(q) = Front(q)
         /\ LIRS!Last(q) = Last(q) /\ LIRS!ToSet(q) = ToSet(q)
         /\ LIRS!Has(q, k) <=> k \in ToSet(q)
         /\ LIRS!Drop(q, k) = Drop(q, k) /\ \A e : LIRS!Put(q, k, e) = Put(q, k, e)
<1>1. LIRS!ToSet(q) = ToSet(q)
  BY DEF LIRS!ToSet, ToSet
<1>2. LIRS!Has(q, k) <=> k \in ToSet(q)
  BY <1>1 DEF LIRS!Has
<1>3. LIRS!Erase(q, k) = Erase(q, k)
  BY Zenon DEF LIRS!Erase, Erase, LIRS!RemoveAt, RemoveAt
<1>4. LIRS!Front(q) = Front(q) /\ LIRS!Last(q) = Last(q)
  BY Zenon DEF LIRS!Front, Front, LIRS!Last, Last
<1>5. LIRS!Drop(q, k) = Drop(q, k) /\ \A e : LIRS!Put(q, k, e) = Put(q, k, e)
  BY Zenon DEF LIRS!Drop, Drop, LIRS!Put, Put
<1> QED BY <1>1, <1>2, <1>3, <1>4, <1>5


\* The pages of a list, and a list with k in front
Closed(O) ==
  /\ O \subseteq Seq(Keys)
  /\ \A q \in O : \A i \in 1 .. Len(q) : RemoveAt(q, i) \in O

Pushes(O, P, k) == \A q \in O : k \notin ToSet(q) => <<k>> \o q \in P

\* map_, with the pages of each type
Types(L, H, N) ==
  [k \in L \cup H \cup N |->
     IF k \in L THEN "LIR" ELSE IF k \in H THEN "HIR" ELSE "NHIR"]

Lirs(s, q, h, ty, V, u) ==
  [s_ |-> s, q_ |-> q, hirs_ |-> h, type |-> ty, valid |-> V,
   used_size_ |-> u, ub |-> FALSE]

\* No page is of two types.
Apart3(L, H, N) ==
  /\ L \cap H = {} /\ L \cap N = {} /\ H \cap N = {}
  /\ L \cup H \cup N \subseteq Keys

\* The lists of l have the pages A, Q and C, that of A in an order of O; map_
\* has L, H and N; V and u are what is said to be resident.
Shape(l, O, A, Q, C, L, H, N, V, u) ==
  /\ l = Lirs(l.s_, l.q_, l.hirs_, Types(L, H, N), V, u)
  /\ Closed(O) /\ l.s_ \in O /\ l.q_ \in Seq(Keys) /\ l.hirs_ \in Seq(Keys)
  /\ Lists(l.s_, A) /\ Lists(l.q_, Q) /\ Lists(l.hirs_, C)
  /\ Apart3(L, H, N)

LEMMA Untyped ==
  ASSUME NEW L, NEW H, NEW N, Apart3(L, H, N), NEW k
  PROVE  /\ Drop(Types(L, H, N), k) = Types(L \ {k}, H \ {k}, N \ {k})
         /\ Apart3(L \ {k}, H \ {k}, N \ {k})
<1>1. Drop(Types(L, H, N), k) = Types(L \ {k}, H \ {k}, N \ {k})
  BY DEF Types, Apart3, Drop
<1>2. Apart3(L \ {k}, H \ {k}, N \ {k})
  BY DEF Apart3
<1> QED BY <1>1, <1>2

LEMMA TypePut ==
  ASSUME NEW L, NEW H, NEW N, Apart3(L, H, N), NEW k \in Keys \ (L \cup H \cup N)
  PROVE  /\ Put(Types(L, H, N), k, "LIR") = Types(L \cup {k}, H, N)
         /\ Apart3(L \cup {k}, H, N)
<1>1. Put(Types(L, H, N), k, "LIR") = Types(L \cup {k}, H, N)
  BY DEF Types, Apart3, Put
<1>2. Apart3(L \cup {k}, H, N)
  BY DEF Apart3
<1> QED BY <1>1, <1>2

LEMMA DelIs ==
  ASSUME NEW s, NEW q, NEW h, NEW ty, NEW V, NEW u, NEW p
  PROVE  /\ p \in ToSet(s) => LIRS!Del(Lirs(s, q, h, ty, V, u), "s_", p)
                                = Lirs(Erase(s, p), q, h, ty, V, u)
         /\ p \in ToSet(q) => LIRS!Del(Lirs(s, q, h, ty, V, u), "q_", p)
                                = Lirs(s, Erase(q, p), h, ty, V, u)
         /\ p \in ToSet(h) => LIRS!Del(Lirs(s, q, h, ty, V, u), "hirs_", p)
                                = Lirs(s, q, Erase(h, p), ty, V, u)
BY LIRSOps DEF LIRS!Del, Lirs

LEMMA InsIs ==
  ASSUME NEW s, NEW q, NEW h, NEW ty, NEW V, NEW u, NEW p
  PROVE  /\ LIRS!Ins(Lirs(s, q, h, ty, V, u), "s_", p)
                                = Lirs(<<p>> \o s, q, h, ty, V, u)
         /\ LIRS!Ins(Lirs(s, q, h, ty, V, u), "q_", p)
                                = Lirs(s, <<p>> \o q, h, ty, V, u)
         /\ LIRS!Ins(Lirs(s, q, h, ty, V, u), "hirs_", p)
                                = Lirs(s, q, <<p>> \o h, ty, V, u)
<1> DEFINE l == Lirs(s, q, h, ty, V, u)
<1>1. l["s_"] = s /\ l["q_"] = q /\ l["hirs_"] = h
  BY DEF Lirs
<1>2. ASSUME NEW list
      PROVE  LIRS!Ins(l, list, p) = [l EXCEPT ![list] = <<p>> \o l[list]]
  BY Zenon DEF LIRS!Ins
<1>3. ASSUME NEW e, NEW t
      PROVE  /\ t = [l EXCEPT !["s_"] = e] => t = Lirs(e, q, h, ty, V, u)
             /\ t = [l EXCEPT !["q_"] = e] => t = Lirs(s, e, h, ty, V, u)
             /\ t = [l EXCEPT !["hirs_"] = e] => t = Lirs(s, q, e, ty, V, u)
  BY DEF Lirs
<1> HIDE DEF l
<1>4. LIRS!Ins(l, "s_", p) = Lirs(<<p>> \o s, q, h, ty, V, u)
  BY <1>1, <1>2, <1>3, Zenon
<1>5. LIRS!Ins(l, "q_", p) = Lirs(s, <<p>> \o q, h, ty, V, u)
  BY <1>1, <1>2, <1>3, Zenon
<1>6. LIRS!Ins(l, "hirs_", p) = Lirs(s, q, <<p>> \o h, ty, V, u)
  BY <1>1, <1>2, <1>3, Zenon
<1> QED BY <1>4, <1>5, <1>6 DEF l

\* A list without k
LEMMA ErasedIs ==
  ASSUME NEW S, NEW q \in Seq(S), NEW K, Lists(q, K), NEW k \in K
  PROVE  /\ \E i \in 1 .. Len(q) : q[i] = k /\ Erase(q, k) = RemoveAt(q, i)
         /\ k # Last(q) => Erase(q, k) # <<>> /\ Last(Erase(q, k)) = Last(q)
<1> DEFINE i == CHOOSE j \in DOMAIN q : q[j] = k
<1>1. Len(q) \in Nat /\ DOMAIN q = 1 .. Len(q)
  OBVIOUS
<1>2. \E j \in DOMAIN q : q[j] = k
  BY DEF Lists, ToSet
<1>3. i \in DOMAIN q /\ q[i] = k
  BY <1>2
<1>4. Erase(q, k) = RemoveAt(q, i)
  BY DEF Erase
<1> HIDE DEF i
<1>5. i \in 1 .. Len(q) /\ q[i] = k /\ Erase(q, k) = RemoveAt(q, i)
  BY <1>1, <1>3, <1>4
<1>6. ASSUME k # Last(q)
      PROVE  Erase(q, k) # <<>> /\ Last(Erase(q, k)) = Last(q)
  <2> DEFINE r == RemoveAt(q, i)
  <2>1. i < Len(q)
    <3>1. i # Len(q)
      BY <1>5, <1>6 DEF Last
    <3>2. i \in 1 .. Len(q) /\ Len(q) \in Nat
      BY <1>1, <1>5
    <3> QED BY <3>1, <3>2
  <2>2. /\ Len(r) = Len(q) - 1
        /\ \A j \in 1 .. Len(q) - 1 : r[j] = IF j < i THEN q[j] ELSE q[j + 1]
    BY <1>5, RemoveAtElements
  <2> HIDE DEF r
  <2>3. Len(r) \in 1 .. Len(q) - 1 /\ ~(Len(r) < i) /\ Len(r) + 1 = Len(q)
    BY <1>1, <1>5, <2>1, <2>2
  <2>4. r[Len(r)] = q[Len(q)]
    BY <2>2, <2>3
  <2>5. r # <<>>
    BY <2>3
  <2> QED BY <1>5, <2>4, <2>5 DEF Last, r
<1> QED BY <1>5, <1>6

LEMMA PushedIs ==
  ASSUME NEW S, NEW q \in Seq(S), NEW k \in S
  PROVE  /\ <<k>> \o q # <<>>
         /\ Last(<<k>> \o q) = IF q = <<>> THEN k ELSE Last(q)
<1> DEFINE r == <<k>> \o q
<1>1. /\ Len(r) = Len(q) + 1 /\ r[1] = k /\ Len(q) \in Nat
      /\ \A i \in 1 .. Len(q) + 1 :
           i # 1 => i - 1 \in 1 .. Len(q) /\ r[i] = q[i - 1]
  BY FrontIs
<1> HIDE DEF r
<1>2. r # <<>>
  BY <1>1
<1>3. CASE q = <<>>
  <2>1. Len(r) = 1
    BY <1>1, <1>3
  <2> QED BY <1>1, <1>2, <1>3, <2>1 DEF Last, r
<1>4. CASE q # <<>>
  <2>1. Len(q) # 0
    BY <1>4
  <2>2. Len(q) + 1 \in 1 .. Len(q) + 1 /\ Len(q) + 1 # 1 /\ Len(q) + 1 - 1 = Len(q)
    BY <1>1, <2>1
  <2>3. r[Len(r)] = q[Len(q)]
    BY <1>1, <2>2
  <2> QED BY <1>2, <1>4, <2>3 DEF Last, r
<1> QED BY <1>3, <1>4

\* What is left of an order is one of the orders.
LEMMA ClosedErase ==
  ASSUME NEW O, Closed(O), NEW q \in O, NEW K, Lists(q, K), NEW k \in K
  PROVE  Erase(q, k) \in O
<1>1. q \in Seq(Keys)
  BY DEF Closed
<1> QED BY <1>1, ErasedIs DEF Closed

\* list.erase, and list.push_front
LEMMA DelS ==
  ASSUME NEW l, NEW O, NEW A, NEW Q, NEW C, NEW L, NEW H, NEW N, NEW V, NEW u,
         Shape(l, O, A, Q, C, L, H, N, V, u), NEW k \in A
  PROVE  /\ Shape(LIRS!Del(l, "s_", k), O, A \ {k}, Q, C, L, H, N, V, u)
         /\ k # Last(l.s_) =>
              /\ LIRS!Del(l, "s_", k).s_ # <<>>
              /\ Last(LIRS!Del(l, "s_", k).s_) = Last(l.s_)
<1> DEFINE ty == Types(L, H, N)
           a == l.s_
           b == l.q_
           c == l.hirs_
           t == LIRS!Del(l, "s_", k)
<1>1. /\ l = Lirs(a, b, c, ty, V, u)
      /\ Closed(O) /\ a \in O /\ a \in Seq(Keys)
      /\ b \in Seq(Keys) /\ c \in Seq(Keys)
      /\ Lists(a, A) /\ Lists(b, Q) /\ Lists(c, C)
      /\ Apart3(L, H, N)
  BY DEF Shape, Closed
<1>2. ToSet(a) = A /\ ToSet(b) = Q /\ ToSet(c) = C
  BY <1>1 DEF Lists
<1>3. l.s_ = a
  OBVIOUS
<1> HIDE DEF ty, a, b, c
<1>4. t = Lirs(Erase(a, k), b, c, ty, V, u)
  BY <1>1, <1>2, DelIs
<1>5. /\ Erase(a, k) \in O /\ Lists(Erase(a, k), A \ {k})
      /\ k # Last(a) => Erase(a, k) # <<>> /\ Last(Erase(a, k)) = Last(a)
  BY <1>1, ClosedErase, ListsErase, ErasedIs
<1> HIDE DEF t
<1>6. t.s_ = Erase(a, k) /\ t.q_ = b /\ t.hirs_ = c
  BY <1>4 DEF Lirs
<1>7. Shape(t, O, A \ {k}, Q, C, L, H, N, V, u)
  BY <1>1, <1>2, <1>4, <1>5, <1>6, Zenon DEF Shape, ty
<1> QED BY <1>3, <1>5, <1>6, <1>7 DEF t

LEMMA DelQ ==
  ASSUME NEW l, NEW O, NEW A, NEW Q, NEW C, NEW L, NEW H, NEW N, NEW V, NEW u,
         Shape(l, O, A, Q, C, L, H, N, V, u), NEW k \in Q
  PROVE  /\ Shape(LIRS!Del(l, "q_", k), O, A, Q \ {k}, C, L, H, N, V, u)
         /\ LIRS!Del(l, "q_", k).s_ = l.s_
<1> DEFINE ty == Types(L, H, N)
           a == l.s_
           b == l.q_
           c == l.hirs_
           t == LIRS!Del(l, "q_", k)
<1>1. /\ l = Lirs(a, b, c, ty, V, u)
      /\ Closed(O) /\ a \in O /\ a \in Seq(Keys)
      /\ b \in Seq(Keys) /\ c \in Seq(Keys)
      /\ Lists(a, A) /\ Lists(b, Q) /\ Lists(c, C)
      /\ Apart3(L, H, N)
  BY DEF Shape, Closed
<1>2. ToSet(a) = A /\ ToSet(b) = Q /\ ToSet(c) = C
  BY <1>1 DEF Lists
<1>3. l.s_ = a
  OBVIOUS
<1> HIDE DEF ty, a, b, c
<1>4. t = Lirs(a, Erase(b, k), c, ty, V, u)
  BY <1>1, <1>2, DelIs
<1>5. Erase(b, k) \in Seq(Keys) /\ Lists(Erase(b, k), Q \ {k})
  BY <1>1, ListsErase
<1> HIDE DEF t
<1>6. t.s_ = a /\ t.q_ = Erase(b, k) /\ t.hirs_ = c
  BY <1>4 DEF Lirs
<1>7. Shape(t, O, A, Q \ {k}, C, L, H, N, V, u)
  BY <1>1, <1>2, <1>4, <1>5, <1>6, Zenon DEF Shape, ty
<1> QED BY <1>3, <1>5, <1>6, <1>7 DEF t

LEMMA DelH ==
  ASSUME NEW l, NEW O, NEW A, NEW Q, NEW C, NEW L, NEW H, NEW N, NEW V, NEW u,
         Shape(l, O, A, Q, C, L, H, N, V, u), NEW k \in C
  PROVE  /\ Shape(LIRS!Del(l, "hirs_", k), O, A, Q, C \ {k}, L, H, N, V, u)
         /\ LIRS!Del(l, "hirs_", k).s_ = l.s_
         /\ LIRS!Del(l, "hirs_", k).q_ = l.q_
<1> DEFINE ty == Types(L, H, N)
           a == l.s_
           b == l.q_
           c == l.hirs_
           t == LIRS!Del(l, "hirs_", k)
<1>1. /\ l = Lirs(a, b, c, ty, V, u)
      /\ Closed(O) /\ a \in O /\ a \in Seq(Keys)
      /\ b \in Seq(Keys) /\ c \in Seq(Keys)
      /\ Lists(a, A) /\ Lists(b, Q) /\ Lists(c, C)
      /\ Apart3(L, H, N)
  BY DEF Shape, Closed
<1>2. ToSet(a) = A /\ ToSet(b) = Q /\ ToSet(c) = C
  BY <1>1 DEF Lists
<1>3. l.s_ = a /\ l.q_ = b
  OBVIOUS
<1> HIDE DEF ty, a, b, c
<1>4. t = Lirs(a, b, Erase(c, k), ty, V, u)
  BY <1>1, <1>2, DelIs
<1>5. Erase(c, k) \in Seq(Keys) /\ Lists(Erase(c, k), C \ {k})
  BY <1>1, ListsErase
<1> HIDE DEF t
<1>6. t.s_ = a /\ t.q_ = b /\ t.hirs_ = Erase(c, k)
  BY <1>4 DEF Lirs
<1>7. Shape(t, O, A, Q, C \ {k}, L, H, N, V, u)
  BY <1>1, <1>2, <1>4, <1>5, <1>6, Zenon DEF Shape, ty
<1> QED BY <1>3, <1>5, <1>6, <1>7 DEF t

LEMMA InsS ==
  ASSUME NEW l, NEW O, NEW A, NEW Q, NEW C, NEW L, NEW H, NEW N, NEW V, NEW u,
         Shape(l, O, A, Q, C, L, H, N, V, u), NEW P, Closed(P),
         NEW k \in Keys \ A, Pushes(O, P, k)
  PROVE  /\ Shape(LIRS!Ins(l, "s_", k), P, A \cup {k}, Q, C, L, H, N, V, u)
         /\ LET t == LIRS!Ins(l, "s_", k)
            IN /\ t.s_ # <<>> /\ Len(t.s_) = Len(l.s_) + 1
               /\ Last(t.s_) = IF l.s_ = <<>> THEN k ELSE Last(l.s_)
<1> DEFINE ty == Types(L, H, N)
           a == l.s_
           b == l.q_
           c == l.hirs_
           t == LIRS!Ins(l, "s_", k)
<1>1. /\ l = Lirs(a, b, c, ty, V, u)
      /\ Closed(O) /\ a \in O /\ a \in Seq(Keys)
      /\ b \in Seq(Keys) /\ c \in Seq(Keys)
      /\ Lists(a, A) /\ Lists(b, Q) /\ Lists(c, C)
      /\ Apart3(L, H, N)
  BY DEF Shape, Closed
<1>2. ToSet(a) = A /\ ToSet(b) = Q /\ ToSet(c) = C
  BY <1>1 DEF Lists
<1>3. l.s_ = a
  OBVIOUS
<1> HIDE DEF ty, a, b, c
<1>4. t = Lirs(<<k>> \o a, b, c, ty, V, u)
  BY <1>1, <1>2, InsIs
<1>5. /\ Lists(<<k>> \o a, A \cup {k}) /\ Len(<<k>> \o a) = Len(a) + 1
      /\ <<k>> \o a # <<>> /\ Last(<<k>> \o a) = IF a = <<>> THEN k ELSE Last(a)
  BY <1>1, ListsPush, PushedIs
<1> HIDE DEF t
<1>6. t.s_ = <<k>> \o a /\ t.q_ = b /\ t.hirs_ = c
  BY <1>4 DEF Lirs
<1>7. Shape(t, P, A \cup {k}, Q, C, L, H, N, V, u)
  BY <1>1, <1>2, <1>4, <1>5, <1>6, Zenon DEF Shape, ty, Pushes
<1> QED BY <1>3, <1>5, <1>6, <1>7 DEF t

LEMMA InsQ ==
  ASSUME NEW l, NEW O, NEW A, NEW Q, NEW C, NEW L, NEW H, NEW N, NEW V, NEW u,
         Shape(l, O, A, Q, C, L, H, N, V, u), NEW k \in Keys \ Q
  PROVE  /\ Shape(LIRS!Ins(l, "q_", k), O, A, Q \cup {k}, C, L, H, N, V, u)
         /\ LIRS!Ins(l, "q_", k).s_ = l.s_
<1> DEFINE ty == Types(L, H, N)
           a == l.s_
           b == l.q_
           c == l.hirs_
           t == LIRS!Ins(l, "q_", k)
<1>1. /\ l = Lirs(a, b, c, ty, V, u)
      /\ Closed(O) /\ a \in O /\ a \in Seq(Keys)
      /\ b \in Seq(Keys) /\ c \in Seq(Keys)
      /\ Lists(a, A) /\ Lists(b, Q) /\ Lists(c, C)
      /\ Apart3(L, H, N)
  BY DEF Shape, Closed
<1>2. ToSet(a) = A /\ ToSet(b) = Q /\ ToSet(c) = C
  BY <1>1 DEF Lists
<1>3. l.s_ = a
  OBVIOUS
<1> HIDE DEF ty, a, b, c
<1>4. t = Lirs(a, <<k>> \o b, c, ty, V, u)
  BY <1>1, <1>2, InsIs
<1>5. <<k>> \o b \in Seq(Keys) /\ Lists(<<k>> \o b, Q \cup {k})
  BY <1>1, ListsPush
<1> HIDE DEF t
<1>6. t.s_ = a /\ t.q_ = <<k>> \o b /\ t.hirs_ = c
  BY <1>4 DEF Lirs
<1>7. Shape(t, O, A, Q \cup {k}, C, L, H, N, V, u)
  BY <1>1, <1>2, <1>4, <1>5, <1>6, Zenon DEF Shape, ty
<1> QED BY <1>3, <1>5, <1>6, <1>7 DEF t

LEMMA InsH ==
  ASSUME NEW l, NEW O, NEW A, NEW Q, NEW C, NEW L, NEW H, NEW N, NEW V, NEW u,
         Shape(l, O, A, Q, C, L, H, N, V, u), NEW k \in Keys \ C
  PROVE  /\ Shape(LIRS!Ins(l, "hirs_", k), O, A, Q, C \cup {k}, L, H, N, V, u)
         /\ LIRS!Ins(l, "hirs_", k).s_ = l.s_
<1> DEFINE ty == Types(L, H, N)
           a == l.s_
           b == l.q_
           c == l.hirs_
           t == LIRS!Ins(l, "hirs_", k)
<1>1. /\ l = Lirs(a, b, c, ty, V, u)
      /\ Closed(O) /\ a \in O /\ a \in Seq(Keys)
      /\ b \in Seq(Keys) /\ c \in Seq(Keys)
      /\ Lists(a, A) /\ Lists(b, Q) /\ Lists(c, C)
      /\ Apart3(L, H, N)
  BY DEF Shape, Closed
<1>2. ToSet(a) = A /\ ToSet(b) = Q /\ ToSet(c) = C
  BY <1>1 DEF Lists
<1>3. l.s_ = a
  OBVIOUS
<1> HIDE DEF ty, a, b, c
<1>4. t = Lirs(a, b, <<k>> \o c, ty, V, u)
  BY <1>1, <1>2, InsIs
<1>5. <<k>> \o c \in Seq(Keys) /\ Lists(<<k>> \o c, C \cup {k})
  BY <1>1, ListsPush
<1> HIDE DEF t
<1>6. t.s_ = a /\ t.q_ = b /\ t.hirs_ = <<k>> \o c
  BY <1>4 DEF Lirs
<1>7. Shape(t, O, A, Q, C \cup {k}, L, H, N, V, u)
  BY <1>1, <1>2, <1>4, <1>5, <1>6, Zenon DEF Shape, ty
<1> QED BY <1>3, <1>5, <1>6, <1>7 DEF t

\* map_ changed
LEMMA TypeEdit ==
  ASSUME NEW a, NEW b, NEW c, NEW ty, NEW V, NEW u, NEW l,
         l = Lirs(a, b, c, ty, V, u), NEW e, NEW t, t = [l EXCEPT !.type = e]
  PROVE  t = Lirs(a, b, c, e, V, u)
BY DEF Lirs

LEMMA ShapeOf ==
  ASSUME NEW l, NEW O, NEW A, NEW Q, NEW C, NEW L, NEW H, NEW N, NEW V, NEW u,
         Shape(l, O, A, Q, C, L, H, N, V, u),
         NEW J, NEW I, NEW K, Apart3(J, I, K), NEW W, NEW n, NEW t,
         t = Lirs(l.s_, l.q_, l.hirs_, Types(J, I, K), W, n)
  PROVE  Shape(t, O, A, Q, C, J, I, K, W, n) /\ t.s_ = l.s_ /\ t.q_ = l.q_
<1>1. t.s_ = l.s_ /\ t.q_ = l.q_ /\ t.hirs_ = l.hirs_
  BY DEF Lirs
<1> QED BY <1>1, Zenon DEF Shape

\* A page changes its type.
Retype(l, k, T) == [l EXCEPT !.type[k] = T]

LEMMA RetypeIs ==
  ASSUME NEW l, NEW k, NEW T
  PROVE  Retype(l, k, T) = [l EXCEPT !.type = [l.type EXCEPT ![k] = T]]
BY DEF Retype

LEMMA ToLIR ==
  ASSUME NEW l, NEW O, NEW A, NEW Q, NEW C, NEW L, NEW H, NEW N, NEW V, NEW u,
         Shape(l, O, A, Q, C, L, H, N, V, u), NEW k \in L \cup H \cup N,
         NEW t, t = Retype(l, k, "LIR")
  PROVE  /\ Shape(t, O, A, Q, C, L \cup {k}, H \ {k}, N \ {k}, V, u)
         /\ t.s_ = l.s_ /\ t.q_ = l.q_
<1> DEFINE ty == Types(L, H, N)
           a == l.s_
           b == l.q_
           c == l.hirs_
           e == Types(L \cup {k}, H \ {k}, N \ {k})
<1>1. l = Lirs(a, b, c, ty, V, u) /\ Apart3(L, H, N)
  BY DEF Shape
<1>2. t = [l EXCEPT !.type = [l.type EXCEPT ![k] = "LIR"]]
  BY RetypeIs
<1> HIDE DEF ty, a, b, c, e
<1>3. l.type = ty
  BY <1>1 DEF Lirs
<1>4. [ty EXCEPT ![k] = "LIR"] = e
  BY <1>1 DEF ty, e, Types, Apart3
<1>5. Apart3(L \cup {k}, H \ {k}, N \ {k})
  BY <1>1 DEF Apart3
<1>6. t = Lirs(a, b, c, e, V, u)
  BY <1>1, <1>2, <1>3, <1>4, TypeEdit
<1>7. t = Lirs(l.s_, l.q_, l.hirs_, Types(L \cup {k}, H \ {k}, N \ {k}), V, u)
  BY <1>6 DEF a, b, c, e
<1> QED BY <1>5, <1>7, ShapeOf

LEMMA ToHIR ==
  ASSUME NEW l, NEW O, NEW A, NEW Q, NEW C, NEW L, NEW H, NEW N, NEW V, NEW u,
         Shape(l, O, A, Q, C, L, H, N, V, u), NEW k \in L \cup H \cup N,
         NEW t, t = Retype(l, k, "HIR")
  PROVE  /\ Shape(t, O, A, Q, C, L \ {k}, H \cup {k}, N \ {k}, V, u)
         /\ t.s_ = l.s_ /\ t.q_ = l.q_
<1> DEFINE ty == Types(L, H, N)
           a == l.s_
           b == l.q_
           c == l.hirs_
           e == Types(L \ {k}, H \cup {k}, N \ {k})
<1>1. l = Lirs(a, b, c, ty, V, u) /\ Apart3(L, H, N)
  BY DEF Shape
<1>2. t = [l EXCEPT !.type = [l.type EXCEPT ![k] = "HIR"]]
  BY RetypeIs
<1> HIDE DEF ty, a, b, c, e
<1>3. l.type = ty
  BY <1>1 DEF Lirs
<1>4. [ty EXCEPT ![k] = "HIR"] = e
  BY <1>1 DEF ty, e, Types, Apart3
<1>5. Apart3(L \ {k}, H \cup {k}, N \ {k})
  BY <1>1 DEF Apart3
<1>6. t = Lirs(a, b, c, e, V, u)
  BY <1>1, <1>2, <1>3, <1>4, TypeEdit
<1>7. t = Lirs(l.s_, l.q_, l.hirs_, Types(L \ {k}, H \cup {k}, N \ {k}), V, u)
  BY <1>6 DEF a, b, c, e
<1> QED BY <1>5, <1>7, ShapeOf

LEMMA ToNHIR ==
  ASSUME NEW l, NEW O, NEW A, NEW Q, NEW C, NEW L, NEW H, NEW N, NEW V, NEW u,
         Shape(l, O, A, Q, C, L, H, N, V, u), NEW k \in L \cup H \cup N,
         NEW t, t = Retype(l, k, "NHIR")
  PROVE  /\ Shape(t, O, A, Q, C, L \ {k}, H \ {k}, N \cup {k}, V, u)
         /\ t.s_ = l.s_ /\ t.q_ = l.q_
<1> DEFINE ty == Types(L, H, N)
           a == l.s_
           b == l.q_
           c == l.hirs_
           e == Types(L \ {k}, H \ {k}, N \cup {k})
<1>1. l = Lirs(a, b, c, ty, V, u) /\ Apart3(L, H, N)
  BY DEF Shape
<1>2. t = [l EXCEPT !.type = [l.type EXCEPT ![k] = "NHIR"]]
  BY RetypeIs
<1> HIDE DEF ty, a, b, c, e
<1>3. l.type = ty
  BY <1>1 DEF Lirs
<1>4. [ty EXCEPT ![k] = "NHIR"] = e
  BY <1>1 DEF ty, e, Types, Apart3
<1>5. Apart3(L \ {k}, H \ {k}, N \cup {k})
  BY <1>1 DEF Apart3
<1>6. t = Lirs(a, b, c, e, V, u)
  BY <1>1, <1>2, <1>3, <1>4, TypeEdit
<1>7. t = Lirs(l.s_, l.q_, l.hirs_, Types(L \ {k}, H \ {k}, N \cup {k}), V, u)
  BY <1>6 DEF a, b, c, e
<1> QED BY <1>5, <1>7, ShapeOf

LEMMA PushSIs ==
  ASSUME NEW l, NEW p
  PROVE  LET t == LIRS!Ins(l, "s_", p)
             n == Last(t.hirs_)
         IN /\ Len(t.s_) < limit_ratio_ * LIRS!s_size_ => LIRS!PushS(l, p) = t
            /\ t.hirs_ # <<>> /\ n \in DOMAIN t.type /\ t.type[n] # "NHIR" =>
                 LIRS!PushS(l, p) = t
            /\ ~(Len(t.s_) < limit_ratio_ * LIRS!s_size_)
               /\ t.hirs_ # <<>> /\ n \in DOMAIN t.type /\ t.type[n] = "NHIR" =>
                 LIRS!PushS(l, p) =
                   [LIRS!Del(LIRS!Del(t, "s_", n), "hirs_", n)
                      EXCEPT !.type = Drop(@, n)]
<1>1. LIRS!Last(LIRS!Ins(l, "s_", p).hirs_) = Last(LIRS!Ins(l, "s_", p).hirs_)
  BY LIRSOps
<1>2. \A q, k : LIRS!Drop(q, k) = Drop(q, k)
  BY LIRSOps
<1> QED BY <1>1, <1>2, Zenon DEF LIRS!PushS

\* The pages of hirs_ have types, those that are not resident are in the stack,
\* and there is one if the stack is at its limit.
Pushable(l, A, C, L, H, N) ==
  /\ C \subseteq L \cup H \cup N /\ C \cap N \subseteq A
  /\ C # {} \/ Len(l.s_) + 1 < limit_ratio_ * LIRS!s_size_

\* x is l with p on its stack and M, a page or none, forgotten.
PushedTo(x, l, p, P, A, Q, C, L, H, N, V, u) ==
  \E M \in SUBSET (C \cap N) :
    /\ Shape(x, P, (A \cup {p}) \ M, Q, C \ M, L, H, N \ M, V, u)
    /\ LET y == IF l.s_ = <<>> THEN p ELSE Last(l.s_)
       IN y \notin M => x.s_ # <<>> /\ Last(x.s_) = y

\* A page goes on the stack; the one longest in hirs_ may have to leave it.
LEMMA ShapePush ==
  ASSUME NEW l, NEW O, NEW A, NEW Q, NEW C, NEW L, NEW H, NEW N, NEW V, NEW u,
         Shape(l, O, A, Q, C, L, H, N, V, u), NEW P, Closed(P),
         NEW p \in Keys \ A, Pushes(O, P, p), Pushable(l, A, C, L, H, N)
  PROVE  PushedTo(LIRS!PushS(l, p), l, p, P, A, Q, C, L, H, N, V, u)
<1> DEFINE t == LIRS!Ins(l, "s_", p)
           n == Last(t.hirs_)
           y == IF l.s_ = <<>> THEN p ELSE Last(l.s_)
           z == LIRS!PushS(l, p)
<1>1. /\ Shape(t, P, A \cup {p}, Q, C, L, H, N, V, u)
      /\ t.s_ # <<>> /\ Len(t.s_) = Len(l.s_) + 1 /\ Last(t.s_) = y
  BY InsS
<1>2. /\ Len(t.s_) < limit_ratio_ * LIRS!s_size_ => z = t
      /\ t.hirs_ # <<>> /\ n \in DOMAIN t.type /\ t.type[n] # "NHIR" => z = t
      /\ ~(Len(t.s_) < limit_ratio_ * LIRS!s_size_)
         /\ t.hirs_ # <<>> /\ n \in DOMAIN t.type /\ t.type[n] = "NHIR" =>
           z = [LIRS!Del(LIRS!Del(t, "s_", n), "hirs_", n) EXCEPT !.type = Drop(@, n)]
  BY PushSIs, Zenon
<1> HIDE DEF t, n, y, z
<1>3. /\ t.hirs_ \in Seq(Keys) /\ Lists(t.hirs_, C) /\ Apart3(L, H, N)
      /\ t.type = Types(L, H, N)
  BY <1>1 DEF Shape, Lirs
<1>4. CASE z = t
  <2>1. /\ (A \cup {p}) \ {} = A \cup {p} /\ C \ {} = C /\ N \ {} = N
        /\ {} \in SUBSET (C \cap N)
    OBVIOUS
  <2> QED BY <1>1, <1>4, <2>1, Zenon DEF y, z, PushedTo
<1>5. CASE z # t
  <2>1. C # {} /\ ~(Len(t.s_) < limit_ratio_ * LIRS!s_size_)
    BY <1>1, <1>2, <1>5 DEF Pushable
  <2>2. t.hirs_ # <<>> /\ n \in C
    BY <1>3, <2>1, ListsEmpty, ListsPop DEF n
  <2>3. n \in DOMAIN t.type /\ t.type[n] = "NHIR" /\ n \in N
    <3> DEFINE ty == Types(L, H, N)
    <3>1. /\ DOMAIN ty = L \cup H \cup N
          /\ \A k \in L : ty[k] = "LIR"
          /\ \A k \in H : ty[k] = "HIR"
      BY <1>3 DEF Types, Apart3
    <3>2. t.type = ty
      BY <1>3
    <3> HIDE DEF ty
    <3>3. n \in L \cup H \cup N
      BY <2>2 DEF Pushable
    <3>4. n \in DOMAIN t.type
      BY <3>1, <3>2, <3>3
    <3>5. t.type[n] = "NHIR"
      BY <1>2, <1>5, <2>2, <3>4
    <3>6. n \notin L /\ n \notin H
      BY <3>1, <3>2, <3>5
    <3> QED BY <3>3, <3>4, <3>5, <3>6
  <2>4. n \in A \cup {p}
    BY <2>2, <2>3 DEF Pushable
  <2> DEFINE r == LIRS!Del(t, "s_", n)
             w == LIRS!Del(r, "hirs_", n)
  <2>5. /\ Shape(r, P, (A \cup {p}) \ {n}, Q, C, L, H, N, V, u)
        /\ n # y => r.s_ # <<>> /\ Last(r.s_) = y
    BY <1>1, <2>4, DelS
  <2>6. /\ Shape(w, P, (A \cup {p}) \ {n}, Q, C \ {n}, L, H, N, V, u)
        /\ w.s_ = r.s_
    <3> HIDE DEF r
    <3>1. /\ Shape(w, P, (A \cup {p}) \ {n}, Q, C \ {n}, L, H, N, V, u)
          /\ w.s_ = r.s_ /\ w.q_ = r.q_
      BY <2>2, <2>5, DelH
    <3> QED BY <3>1
  <2>7. z = [w EXCEPT !.type = Drop(@, n)]
    BY <1>2, <2>1, <2>2, <2>3, Zenon
  <2> HIDE DEF r, w
  <2>8. /\ Drop(Types(L, H, N), n) = Types(L, H, N \ {n})
        /\ Apart3(L, H, N \ {n})
    <3>1. L \ {n} = L /\ H \ {n} = H
      BY <1>3, <2>3 DEF Apart3
    <3>2. /\ Drop(Types(L, H, N), n) = Types(L \ {n}, H \ {n}, N \ {n})
          /\ Apart3(L \ {n}, H \ {n}, N \ {n})
      BY <1>3, Untyped, Zenon
    <3> QED BY <3>1, <3>2
  <2>9. w.type = Types(L, H, N) /\ w = Lirs(w.s_, w.q_, w.hirs_, Types(L, H, N), V, u)
    BY <2>6 DEF Shape, Lirs
  <2>10. z = [w EXCEPT !.type = Types(L, H, N \ {n})]
    BY <2>7, <2>8, <2>9
  <2>11. z = Lirs(w.s_, w.q_, w.hirs_, Types(L, H, N \ {n}), V, u)
    BY <2>9, <2>10, TypeEdit
  <2>12. /\ Shape(z, P, (A \cup {p}) \ {n}, Q, C \ {n}, L, H, N \ {n}, V, u)
         /\ z.s_ = w.s_
    BY <2>6, <2>8, <2>11, ShapeOf
  <2>13. {n} \in SUBSET (C \cap N)
    BY <2>2, <2>3
  <2>14. y \notin {n} => z.s_ # <<>> /\ Last(z.s_) = y
    BY <2>5, <2>6, <2>12
  <2> QED BY <2>12, <2>13, <2>14, Zenon DEF z, y, PushedTo
<1> QED BY <1>4, <1>5

\* The last page of the stack leaves the LIR pages.
LEMMA ShapeBottom ==
  ASSUME NEW l, NEW O, NEW A, NEW Q, NEW C, NEW L, NEW H, NEW N, NEW V, NEW u,
         Shape(l, O, A, Q, C, L, H, N, V, u), l.s_ # <<>>,
         NEW y, y = Last(l.s_), y \in L, y \notin Q, y \notin C
  PROVE  /\ Shape(LIRS!Bottom(l), O, A, Q \cup {y}, C \cup {y}, L \ {y},
                  H \cup {y}, N, V, u)
         /\ LIRS!Bottom(l).s_ = l.s_
<1> DEFINE r == LIRS!Ins(l, "hirs_", y)
           t == Retype(r, y, "HIR")
<1>1. /\ l.type[y] = "LIR" /\ y \in Keys /\ Apart3(L, H, N) /\ N \ {y} = N
  BY DEF Shape, Lirs, Types, Apart3
<1>2. Shape(r, O, A, Q, C \cup {y}, L, H, N, V, u) /\ r.s_ = l.s_
  BY <1>1, InsH
<1>3. Shape(t, O, A, Q, C \cup {y}, L \ {y}, H \cup {y}, N, V, u) /\ t.s_ = r.s_
  <2> HIDE DEF r
  <2>1. Shape(t, O, A, Q, C \cup {y}, L \ {y}, H \cup {y}, N \ {y}, V, u)
        /\ t.s_ = r.s_
    <3>1. y \in L \cup H \cup N
      OBVIOUS
    <3> QED BY <1>2, <3>1, ToHIR
  <2> QED BY <1>1, <2>1
<1>4. LIRS!Last(l.s_) = y
  BY LIRSOps
<1>5. LIRS!Bottom(l) = IF LIRS!Has(t.q_, y) THEN LIRS!PushQ(LIRS!Del(t, "q_", y), y)
                       ELSE LIRS!PushQ(t, y)
  BY <1>1, <1>4, Zenon DEF LIRS!Bottom, Retype
<1> HIDE DEF t
<1>6. ~LIRS!Has(t.q_, y)
  <2>1. ToSet(t.q_) = Q
    BY <1>3 DEF Shape, Lists
  <2> QED BY <2>1, LIRSOps
<1>7. LIRS!Bottom(l) = LIRS!Ins(t, "q_", y)
  BY <1>5, <1>6, Zenon DEF LIRS!PushQ
<1>8. /\ Shape(LIRS!Ins(t, "q_", y), O, A, Q \cup {y}, C \cup {y}, L \ {y},
               H \cup {y}, N, V, u)
      /\ LIRS!Ins(t, "q_", y).s_ = t.s_
  BY <1>1, <1>3, InsQ
<1> QED BY <1>2, <1>3, <1>7, <1>8

\* x is l without v in its buffer.
FreedTo(x, l, O, A, Q, C, L, H, N, V, u) ==
  \E v \in Q :
    /\ Shape(x, O, A, Q \ {v}, C, L, H \ {v},
             IF v \in A THEN N \cup {v} ELSE N, V \ {v}, u - 1)
    /\ x.s_ = l.s_

\* The last page of the queue is no longer resident; the stack may still have
\* it.
LEMMA ShapeFree ==
  ASSUME NEW l, NEW O, NEW A, NEW Q, NEW C, NEW L, NEW H, NEW N, NEW V, NEW u,
         Shape(l, O, A, Q, C, L, H, N, V, u),
         Q # {}, Q \subseteq H, Q \subseteq V
  PROVE  FreedTo(LIRS!FreeOne(l), l, O, A, Q, C, L, H, N, V, u)
<1> DEFINE ty == Types(L, H, N)
           a == l.s_
           b == l.q_
           c == l.hirs_
           v == Last(b)
           r == [l EXCEPT !.q_ = Front(b), !.valid = l.valid \ {v},
                          !.used_size_ = l.used_size_ - 1]
           z == LIRS!FreeOne(l)
<1>1. /\ l = Lirs(a, b, c, ty, V, u) /\ l.valid = V /\ l.used_size_ = u
      /\ Closed(O) /\ a \in O /\ b \in Seq(Keys) /\ c \in Seq(Keys)
      /\ Lists(a, A) /\ Lists(b, Q) /\ Lists(c, C)
      /\ Apart3(L, H, N)
  BY DEF Shape, Lirs
<1>2. b # <<>> /\ v \in Q /\ Front(b) \in Seq(Keys) /\ Lists(Front(b), Q \ {v})
  BY <1>1, ListsEmpty, ListsPop
<1>3. /\ L \ {v} = L /\ N \ {v} = N /\ v \in L \cup H \cup N
      /\ v \in V
  BY <1>1, <1>2 DEF Apart3
<1>4. LIRS!Front(b) = Front(b) /\ LIRS!Last(b) = v
  BY LIRSOps
<1>5. z = IF LIRS!Has(r.s_, v) THEN Retype(r, v, "NHIR")
          ELSE [r EXCEPT !.type = LIRS!Drop(@, v)]
  <2>1. v \in l.valid
    BY <1>1, <1>3
  <2> QED BY <1>2, <1>4, <2>1, Zenon DEF LIRS!FreeOne, Retype
<1>6. r = Lirs(a, Front(b), c, ty, V \ {v}, u - 1)
  <2>1. ASSUME NEW e, NEW W, NEW n, NEW x,
               x = [l EXCEPT !.q_ = e, !.valid = W, !.used_size_ = n]
        PROVE  x = Lirs(a, e, c, ty, W, n)
    <3> HIDE DEF a, b, c, ty
    <3> QED BY <1>1, <2>1 DEF Lirs
  <2> QED BY <1>1, <2>1, Zenon
<1>0. l.s_ = a /\ ty = Types(L, H, N)
  OBVIOUS
<1> HIDE DEF r, v, a, b, c, ty, z
<1>7. r.s_ = a /\ r.q_ = Front(b) /\ r.hirs_ = c /\ r.type = ty
  BY <1>6 DEF Lirs
<1>8. Shape(r, O, A, Q \ {v}, C, L, H, N, V \ {v}, u - 1)
  BY <1>1, <1>2, <1>6, <1>7, Zenon DEF Shape, ty
<1>9. LIRS!Has(r.s_, v) <=> v \in A
  <2>1. ToSet(r.s_) = A
    BY <1>1, <1>7 DEF Lists
  <2> QED BY <2>1, LIRSOps
<1>10. CASE v \in A
  <2>1. z = Retype(r, v, "NHIR")
    BY <1>5, <1>9, <1>10, Zenon
  <2>2. /\ Shape(z, O, A, Q \ {v}, C, L \ {v}, H \ {v}, N \cup {v}, V \ {v}, u - 1)
        /\ z.s_ = r.s_
    BY <1>3, <1>8, <2>1, ToNHIR
  <2> QED BY <1>0, <1>2, <1>3, <1>7, <1>10, <2>2 DEF z, FreedTo
<1>11. CASE v \notin A
  <2>1. z = [r EXCEPT !.type = LIRS!Drop(@, v)]
    BY <1>5, <1>9, <1>11, Zenon
  <2>2. LIRS!Drop(ty, v) = Types(L, H \ {v}, N) /\ Apart3(L, H \ {v}, N)
    <3>1. LIRS!Drop(ty, v) = Drop(ty, v)
      BY LIRSOps
    <3>2. /\ Drop(ty, v) = Types(L \ {v}, H \ {v}, N \ {v})
          /\ Apart3(L \ {v}, H \ {v}, N \ {v})
      BY <1>1, Untyped, Zenon DEF ty
    <3> QED BY <1>3, <3>1, <3>2
  <2>3. z = [r EXCEPT !.type = Types(L, H \ {v}, N)]
    BY <1>7, <2>1, <2>2
  <2>4. z = Lirs(a, Front(b), c, Types(L, H \ {v}, N), V \ {v}, u - 1)
    BY <1>6, <2>3, TypeEdit
  <2>5. /\ Shape(z, O, A, Q \ {v}, C, L, H \ {v}, N, V \ {v}, u - 1)
        /\ z.s_ = r.s_
    BY <1>7, <1>8, <2>2, <2>4, ShapeOf
  <2> QED BY <1>0, <1>2, <1>7, <1>11, <2>5 DEF z, FreedTo
<1> QED BY <1>10, <1>11

\* The pages of the stack have types, those that are not LIR are in hirs_.
Stacked(A, C, L, H, N) == A \subseteq L \cup H \cup N /\ A \ L \subseteq C

\* One turn of the loop of Pruning
OneLess(x, l, O, A, Q, C, L, H, N, V, u) ==
  \E p \in A \ L :
    /\ Shape(x, O, A \ {p}, Q, C \ {p}, L, H, N, V, u)
    /\ p = Last(l.s_) /\ l.s_ # <<>>
    /\ x.q_ = l.q_ /\ Len(x.s_) = Len(l.s_) - 1

LEMMA ShapePruneLast ==
  ASSUME NEW l, NEW O, NEW A, NEW Q, NEW C, NEW L, NEW H, NEW N, NEW V, NEW u,
         Shape(l, O, A, Q, C, L, H, N, V, u), Stacked(A, C, L, H, N)
  PROVE  \/ LIRS!PruneLast(l) = l /\ (l.s_ = <<>> \/ Last(l.s_) \in L)
         \/ OneLess(LIRS!PruneLast(l), l, O, A, Q, C, L, H, N, V, u)
<1> DEFINE ty == Types(L, H, N)
           a == l.s_
           b == l.q_
           c == l.hirs_
           p == Last(a)
           r == [l EXCEPT !.s_ = Front(a)]
           x == LIRS!PruneLast(l)
<1>1. /\ l = Lirs(a, b, c, ty, V, u) /\ l.ub = FALSE /\ l.type = ty
      /\ Closed(O) /\ a \in O /\ a \in Seq(Keys) /\ b \in Seq(Keys)
      /\ c \in Seq(Keys) /\ Lists(a, A) /\ Lists(b, Q) /\ Lists(c, C)
      /\ Apart3(L, H, N)
  BY DEF Shape, Closed, Lirs
<1>2. LIRS!Front(a) = Front(a) /\ LIRS!Last(a) = p
  BY LIRSOps
<1>3. x = IF l.ub \/ a = <<>> THEN l
          ELSE IF l.type[p] = "LIR" THEN l ELSE LIRS!Del(r, "hirs_", p)
  BY <1>2, Zenon DEF LIRS!PruneLast
<1>4. r = Lirs(Front(a), b, c, ty, V, u)
  <2>1. ASSUME NEW e, NEW z, z = [l EXCEPT !.s_ = e]
        PROVE  z = Lirs(e, b, c, ty, V, u)
    <3> HIDE DEF a, b, c, ty
    <3> QED BY <1>1, <2>1 DEF Lirs
  <2> QED BY <2>1, Zenon
<1>5. a # <<>> => /\ p \in A /\ Front(a) \in O /\ Lists(Front(a), A \ {p})
                  /\ Len(Front(a)) = Len(a) - 1
  BY <1>1, ListsPop, FrontRemoved DEF Closed
<1>6. (\A k \in A : ty[k] = "LIR" <=> k \in L) /\ A \ L \subseteq C
  BY <1>1 DEF Types, Apart3, Stacked
<1>0. l.s_ = a /\ l.q_ = b
  OBVIOUS
<1> HIDE DEF r, p, a, b, c, ty, x
<1>7. CASE a = <<>>
  BY <1>0, <1>3, <1>7 DEF x
<1>8. CASE a # <<>> /\ p \in L
  <2>1. l.type[p] = "LIR"
    BY <1>1, <1>5, <1>6, <1>8
  <2>2. x = l /\ Last(a) \in L
    BY <1>3, <1>8, <2>1 DEF p
  <2> QED BY <1>0, <2>2 DEF x
<1>9. CASE a # <<>> /\ p \notin L
  <2>1. x = LIRS!Del(r, "hirs_", p)
    <3>1. l.type[p] # "LIR"
      BY <1>1, <1>5, <1>6, <1>9
    <3> QED BY <1>1, <1>3, <1>9, <3>1
  <2>2. r.s_ = Front(a) /\ r.q_ = b /\ r.hirs_ = c
    BY <1>4 DEF Lirs
  <2>3. Shape(r, O, A \ {p}, Q, C, L, H, N, V, u)
    BY <1>1, <1>4, <1>5, <1>9, <2>2, Zenon DEF Shape, ty
  <2>4. p \in A \ L /\ p \in C
    BY <1>5, <1>6, <1>9
  <2>5. /\ Shape(x, O, A \ {p}, Q, C \ {p}, L, H, N, V, u)
        /\ x.s_ = r.s_ /\ x.q_ = r.q_
    BY <2>1, <2>3, <2>4, DelH
  <2>6. p = Last(l.s_)
    BY <1>0 DEF p
  <2>7. OneLess(x, l, O, A, Q, C, L, H, N, V, u)
    BY <1>0, <1>5, <1>9, <2>2, <2>4, <2>5, <2>6 DEF OneLess
  <2> QED BY <2>7 DEF x
<1> QED BY <1>7, <1>8, <1>9

\* What the loop may leave of a replacer of that shape: P is gone.
PrunedFrom(x, O, A, Q, C, L, H, N, V, u) ==
  \E P \in SUBSET (A \ L) : Shape(x, O, A \ P, Q, C \ P, L, H, N, V, u)

AllLirs(ty, q, V, u) ==
  { Lirs(z[1], q, z[2], ty, V, u) : z \in Seq(Keys) \X Seq(Keys) }

LEMMA AllLirsIs ==
  ASSUME NEW ty, NEW q, NEW V, NEW u, NEW x
  PROVE  /\ x \in AllLirs(ty, q, V, u) => x.q_ = q
         /\ x = Lirs(x.s_, q, x.hirs_, ty, V, u) /\ x.s_ \in Seq(Keys)
            /\ x.hirs_ \in Seq(Keys) => x \in AllLirs(ty, q, V, u)
<1>1. ASSUME x \in AllLirs(ty, q, V, u)
      PROVE  x.q_ = q
  <2>1. PICK z : x = Lirs(z[1], q, z[2], ty, V, u)
    BY <1>1 DEF AllLirs
  <2> QED BY <2>1 DEF Lirs
<1>2. ASSUME NEW s \in Seq(Keys), NEW c \in Seq(Keys)
      PROVE  Lirs(s, q, c, ty, V, u) \in AllLirs(ty, q, V, u)
  <2>1. <<s, c>> \in Seq(Keys) \X Seq(Keys) /\ <<s, c>>[1] = s /\ <<s, c>>[2] = c
    OBVIOUS
  <2> QED BY <2>1, Zenon DEF AllLirs
<1> QED BY <1>1, <1>2

\* The loop, as a function on the number of its turns
LEMMA PruningIs ==
  ASSUME NEW l, NEW D, l \in D, \A x \in D : LIRS!PruneLast(x) \in D,
         Len(l.s_) \in Nat
  PROVE  \E g : /\ \A i \in 0 .. Len(l.s_) : g[i] \in D
               /\ g[0] = l /\ LIRS!Pruning(l) = g[Len(l.s_)]
               /\ \A i \in 1 .. Len(l.s_) : g[i] = LIRS!PruneLast(g[i - 1])
<1> DEFINE N == Len(l.s_)
           F == [i \in 1 .. N |-> [x \in D |-> LIRS!PruneLast(x)]]
           P(f) == f = [i \in 0 .. N |->
                          IF i = 0 THEN l ELSE LIRS!PruneLast(f[i - 1])]
<1>1. N \in Nat
  OBVIOUS
<1>2. \A i \in 1 .. N, x \in D : F[i][x] = LIRS!PruneLast(x)
  OBVIOUS
<1>3. F \in Steps(N, D)
  BY DEF Steps
<1> HIDE DEF F, N
<1>4. PICK g : Loops(g, N, D, l, F)
  BY <1>1, <1>3, Loop
<1>5. ASSUME NEW i \in 0 .. N
      PROVE  g[i] = IF i = 0 THEN l ELSE LIRS!PruneLast(g[i - 1])
  <2>1. CASE i = 0
    BY <1>4, <2>1 DEF Loops
  <2>2. CASE i # 0
    <3>1. i \in 1 .. N
      BY <1>1, <2>2
    <3>2. g[i] = F[i][g[i - 1]] /\ g[i - 1] \in D
      BY <1>4, <3>1 DEF Loops
    <3> QED BY <1>2, <2>2, <3>1, <3>2
  <2> QED BY <2>1, <2>2
<1>6. P(g)
  <2>1. g = [i \in 0 .. N |-> g[i]]
    BY <1>4 DEF Loops
  <2> QED BY <1>5, <2>1
<1> DEFINE h == CHOOSE f : P(f)
<1>7. P(h)
  <2> HIDE DEF P
  <2> QED BY <1>6
<1>8. LIRS!Pruning(l) = h[N]
  BY DEF LIRS!Pruning, N
<1> HIDE DEF h
<1>9. h = [i \in 0 .. N |-> h[i]]
      /\ \A i \in 0 .. N :
           h[i] = IF i = 0 THEN l ELSE LIRS!PruneLast(h[i - 1])
  BY <1>7
<1> HIDE DEF P
<1>10. h[0] = l /\ \A i \in 1 .. N : h[i] = LIRS!PruneLast(h[i - 1])
  <2>1. 0 \in 0 .. N /\ \A i \in 1 .. N : i \in 0 .. N /\ i # 0
    BY <1>1
  <2> QED BY <1>9, <2>1
<1>11. Loops(h, N, D, l, F)
  BY <1>1, <1>2, <1>3, <1>9, <1>10, LoopIs
<1>12. \A i \in 0 .. N : h[i] \in D
  BY <1>11 DEF Loops
<1> QED BY <1>8, <1>10, <1>12 DEF N

\* The stack ends in a LIR page, if in any.
EndsLIR(l, L) == l.s_ = <<>> \/ Last(l.s_) \in L

\* x is what such a replacer becomes: P is gone from its stack.
PrunedTo(x, O, A, Q, C, L, H, N, V, u) ==
  \E P \in SUBSET (A \ L) :
    Shape(x, O, A \ P, Q, C \ P, L, H, N, V, u) /\ EndsLIR(x, L)

LEMMA ShapePrune ==
  ASSUME NEW l, NEW O, NEW A, NEW Q, NEW C, NEW L, NEW H, NEW N, NEW V, NEW u,
         Shape(l, O, A, Q, C, L, H, N, V, u), Stacked(A, C, L, H, N)
  PROVE  PrunedTo(LIRS!Pruning(l), O, A, Q, C, L, H, N, V, u)
<1> DEFINE q == l.q_
           n == Len(l.s_)
           D == { x \in AllLirs(Types(L, H, N), q, V, u) :
                    PrunedFrom(x, O, A, Q, C, L, H, N, V, u) }
<1>1. ASSUME NEW x, x.q_ = q, NEW P \in SUBSET (A \ L),
             Shape(x, O, A \ P, Q, C \ P, L, H, N, V, u)
      PROVE  x \in D
  <2>1. /\ x = Lirs(x.s_, q, x.hirs_, Types(L, H, N), V, u)
        /\ x.s_ \in Seq(Keys) /\ x.hirs_ \in Seq(Keys)
    BY <1>1 DEF Shape, Closed
  <2>2. x \in AllLirs(Types(L, H, N), q, V, u)
    BY <2>1, AllLirsIs
  <2>3. PrunedFrom(x, O, A, Q, C, L, H, N, V, u)
    BY <1>1, Zenon DEF PrunedFrom
  <2> QED BY <2>2, <2>3
<1>2. ASSUME NEW x \in D
      PROVE  /\ x.q_ = q
             /\ \E P \in SUBSET (A \ L) :
                  Shape(x, O, A \ P, Q, C \ P, L, H, N, V, u)
  <2>1. x \in AllLirs(Types(L, H, N), q, V, u) /\ PrunedFrom(x, O, A, Q, C, L, H, N, V, u)
    OBVIOUS
  <2>2. x.q_ = q
    BY <2>1, AllLirsIs
  <2> QED BY <2>1, <2>2, Zenon DEF PrunedFrom
<1>0. l.q_ = q
  OBVIOUS
<1> HIDE DEF D, q
<1>3. l \in D
  <2>1. A \ {} = A /\ C \ {} = C /\ {} \in SUBSET (A \ L)
    OBVIOUS
  <2>2. Shape(l, O, A \ {}, Q, C \ {}, L, H, N, V, u)
    BY <2>1
  <2> QED BY <1>0, <1>1, <2>1, <2>2
<1>4. ASSUME NEW x \in D
      PROVE  /\ LIRS!PruneLast(x) \in D
             /\ \/ LIRS!PruneLast(x) = x /\ EndsLIR(x, L)
                \/ ~EndsLIR(x, L) /\ Len(LIRS!PruneLast(x).s_) = Len(x.s_) - 1
  <2>1. PICK P \in SUBSET (A \ L) :
          Shape(x, O, A \ P, Q, C \ P, L, H, N, V, u)
    BY <1>2
  <2> DEFINE y == LIRS!PruneLast(x)
  <2>2. \/ y = x /\ (x.s_ = <<>> \/ Last(x.s_) \in L)
        \/ OneLess(y, x, O, A \ P, Q, C \ P, L, H, N, V, u)
    <3>1. Stacked(A \ P, C \ P, L, H, N)
      BY DEF Stacked
    <3> QED BY <2>1, <3>1, ShapePruneLast
  <2> HIDE DEF y
  <2>3. CASE y = x /\ EndsLIR(x, L)
    BY <2>3 DEF y
  <2>4. CASE ~(y = x /\ EndsLIR(x, L))
    <3>1. PICK p \in (A \ P) \ L :
             /\ Shape(y, O, (A \ P) \ {p}, Q, (C \ P) \ {p}, L, H, N, V, u)
             /\ p = Last(x.s_) /\ x.s_ # <<>>
             /\ y.q_ = x.q_ /\ Len(y.s_) = Len(x.s_) - 1
      BY <2>2, <2>4 DEF EndsLIR, OneLess
    <3>2. /\ (A \ P) \ {p} = A \ (P \cup {p}) /\ (C \ P) \ {p} = C \ (P \cup {p})
          /\ P \cup {p} \in SUBSET (A \ L)
      OBVIOUS
    <3>3. Shape(y, O, A \ (P \cup {p}), Q, C \ (P \cup {p}), L, H, N, V, u)
      BY <3>1, <3>2
    <3>4. y \in D
      <4>1. y.q_ = q
        BY <1>2, <3>1
      <4> QED BY <1>1, <3>2, <3>3, <4>1
    <3>5. ~EndsLIR(x, L)
      BY <3>1 DEF EndsLIR
    <3> QED BY <3>1, <3>4, <3>5 DEF y
  <2> QED BY <2>3, <2>4
<1>5. n \in Nat /\ Len(l.s_) = n
  BY DEF Shape, Closed
<1> HIDE DEF n
<1>6. PICK g : /\ \A i \in 0 .. n : g[i] \in D
               /\ g[0] = l /\ LIRS!Pruning(l) = g[n]
               /\ \A i \in 1 .. n : g[i] = LIRS!PruneLast(g[i - 1])
  <2>1. \A x \in D : LIRS!PruneLast(x) \in D
    BY <1>4
  <2>2. Len(l.s_) \in Nat
    BY <1>5
  <2>3. \E g : /\ \A i \in 0 .. Len(l.s_) : g[i] \in D
              /\ g[0] = l /\ LIRS!Pruning(l) = g[Len(l.s_)]
              /\ \A i \in 1 .. Len(l.s_) : g[i] = LIRS!PruneLast(g[i - 1])
    BY <1>3, <2>1, <2>2, PruningIs, Zenon
  <2> QED BY <1>5, <2>3
<1> DEFINE T == { i \in Nat : i <= n => EndsLIR(g[i], L) \/ Len(g[i].s_) = n - i }
<1>7. 0 \in T
  BY <1>5, <1>6
<1>8. ASSUME NEW i \in Nat, i \in T
      PROVE  i + 1 \in T
  <2> SUFFICES ASSUME i + 1 <= n
               PROVE  EndsLIR(g[i + 1], L) \/ Len(g[i + 1].s_) = n - (i + 1)
    OBVIOUS
  <2>1. /\ i \in 0 .. n /\ i + 1 \in 1 .. n /\ (i + 1) - 1 = i /\ i <= n
        /\ i + 1 \in 0 .. n
    BY <1>5
  <2>2. g[i] \in D /\ g[i + 1] \in D /\ g[i + 1] = LIRS!PruneLast(g[i])
    BY <1>6, <2>1
  <2>3. EndsLIR(g[i], L) \/ Len(g[i].s_) = n - i
    BY <1>8, <2>1
  <2>4. \/ g[i + 1] = g[i] /\ EndsLIR(g[i], L)
        \/ ~EndsLIR(g[i], L) /\ Len(g[i + 1].s_) = Len(g[i].s_) - 1
    BY <1>4, <2>2
  <2>5. (n - i) - 1 = n - (i + 1)
    BY <1>5
  <2> QED BY <2>3, <2>4, <2>5
<1> HIDE DEF T
<1>9. Nat \subseteq T
  BY <1>7, <1>8, AllNaturals
<1>10. EndsLIR(g[n], L) \/ Len(g[n].s_) = 0
  <2>1. n \in T /\ n <= n /\ n - n = 0
    BY <1>5, <1>9
  <2> QED BY <2>1 DEF T
<1>11. g[n] \in D
  BY <1>5, <1>6
<1>12. PICK P \in SUBSET (A \ L) :
         Shape(g[n], O, A \ P, Q, C \ P, L, H, N, V, u)
  BY <1>2, <1>11
<1>13. EndsLIR(g[n], L)
  <2>1. g[n].s_ \in Seq(Keys)
    BY <1>12 DEF Shape, Closed
  <2>2. Len(g[n].s_) = 0 => g[n].s_ = <<>>
    BY <2>1
  <2> QED BY <1>10, <2>2 DEF EndsLIR
<1> QED BY <1>6, <1>12, <1>13, Zenon DEF PrunedTo

-----------------------------------------------------------------------------
(* LIRS: the room of its pages *)

\* LIR and HIR pages have room of their own; there are HIR pages only while the
\* room of LIR pages is full, and pages that left only while both are.
Rooms(L, H, N, ss, qs) ==
  /\ Cardinality(L) <= ss /\ Cardinality(H) <= qs
  /\ H # {} => Cardinality(L) = ss
  /\ N # {} => Cardinality(H) = qs

\* Between accesses, the queue has the HIR pages, hirs_ what the stack has but
\* the LIR ones, and both kinds are resident.
LIRSHas(l, O, A, L, H, N, ss, qs) ==
  /\ Shape(l, O, A, H, A \ L, L, H, N, L \cup H, Cardinality(L \cup H))
  /\ L \subseteq A /\ A \subseteq L \cup H \cup N
  /\ Rooms(L, H, N, ss, qs) /\ EndsLIR(l, L)

LIRSKept(l, O, ss, qs) == \E A, L, H, N : LIRSHas(l, O, A, L, H, N, ss, qs)

\* How the buffer is divided
Divided(ss, qs) ==
  /\ ss \in Nat \ {0} /\ qs \in Nat \ {0} /\ ss + qs = buffer_size_

LEMMA LIRSSizes ==
  ASSUME buffer_size_ \in Nat \ {0}
  PROVE  /\ LIRS!q_size_ \in Nat \ {0} /\ LIRS!s_size_ \in Nat
         /\ LIRS!s_size_ + LIRS!q_size_ = buffer_size_
<1> DEFINE b == buffer_size_
           a == b \div 100
<1>1. a \in Nat /\ a <= b
  <2>1. a \in Nat
    BY DivType
  <2>2. a <= b
    OBVIOUS
  <2> QED BY <2>1, <2>2
<1>2. LIRS!q_size_ = IF a < 1 THEN 1 ELSE a
  <2>1. LIRS!q_size_ = Max({1, a})
    BY Zenon DEF LIRS!q_size_, LIRS!Max, Max
  <2> HIDE DEF a
  <2> QED BY <1>1, <2>1, MaxOfOne
<1>3. LIRS!s_size_ = b - LIRS!q_size_
  BY DEF LIRS!s_size_
<1> HIDE DEF a
<1> QED BY <1>1, <1>2, <1>3

\* A stack of LIR pages only is below its limit.
LEMMA RoomInStack ==
  ASSUME NEW q \in Seq(Keys), NEW B, Lists(q, B), NEW L, L \subseteq Keys,
         B \subseteq L,
         NEW ss \in Nat \ {0}, Cardinality(L) <= ss
  PROVE  Len(q) + 1 < limit_ratio_ * ss
<1>1. Len(q) = Cardinality(B) /\ Len(q) \in Nat
  BY ListsLength
<1>2. Cardinality(B) <= Cardinality(L) /\ Cardinality(L) \in Nat
  BY KeysAreFinite, SizeAtMost
<1>3. limit_ratio_ \in Nat \ {0, 1, 2}
  BY ProtoAssumption
<1>4. limit_ratio_ * ss >= 3 * ss
  <2>1. \A x \in Nat : x >= 3 => x * ss >= 3 * ss
    OBVIOUS
  <2> QED BY <1>3, <2>1
<1>5. limit_ratio_ * ss \in Nat
  <2>1. \A x \in Nat : x * ss \in Nat
    OBVIOUS
  <2> QED BY <1>3, <2>1
<1> DEFINE w == limit_ratio_ * ss
<1> HIDE DEF w
<1>6. w \in Nat /\ w >= 3 * ss
  BY <1>4, <1>5 DEF w
<1>7. Len(q) + 1 < w
  BY <1>1, <1>2, <1>6
<1> QED BY <1>7 DEF w

\* A page takes the place of another.
LEMMA SizeSwap ==
  ASSUME NEW X \in SUBSET Keys, NEW a \in X, NEW b \in Keys \ X
  PROVE  /\ Cardinality((X \ {a}) \cup {b}) = Cardinality(X)
         /\ Cardinality((X \cup {b}) \ {a}) = Cardinality(X)
         /\ Cardinality(X) \in Nat
<1>1. /\ Cardinality(X \ {a}) = Cardinality(X) - 1 /\ Cardinality(X) \in Nat
  BY KeysAreFinite, SizeWith
<1> DEFINE Y == X \ {a}
<1>2. Y \in SUBSET Keys /\ b \notin Y
  OBVIOUS
<1> HIDE DEF Y
<1>3. Cardinality(Y \cup {b}) = Cardinality(Y) + 1
  BY <1>2, KeysAreFinite, SizeWith
<1>4. (X \cup {b}) \ {a} = Y \cup {b} /\ (X \ {a}) \cup {b} = Y \cup {b}
  BY DEF Y
<1>5. Cardinality(Y \cup {b}) = Cardinality(X)
  BY <1>1, <1>3 DEF Y
<1> QED BY <1>1, <1>4, <1>5

LEMMA SizeJoin ==
  ASSUME NEW X \in SUBSET Keys, NEW Y \in SUBSET Keys, X \cap Y = {}
  PROVE  /\ Cardinality(X \cup Y) = Cardinality(X) + Cardinality(Y)
         /\ Cardinality(X) \in Nat /\ Cardinality(Y) \in Nat
<1>1. IsFiniteSet(X) /\ IsFiniteSet(Y) /\ Cardinality(X) \in Nat /\ Cardinality(Y) \in Nat
  BY KeysAreFinite, KeysFinite
<1>2. Cardinality(X \cap Y) = 0
  BY FS_EmptySet
<1>3. Cardinality(X \cup Y) = Cardinality(X) + Cardinality(Y) - Cardinality(X \cap Y)
  BY <1>1, FS_Union
<1> QED BY <1>1, <1>2, <1>3

\* What is pruned at the end of an access
LEMMA LIRSEnd ==
  ASSUME NEW l, NEW O, NEW A, NEW C, NEW L, NEW H, NEW N, NEW V, NEW u,
         Shape(l, O, A, H, C, L, H, N, V, u),
         C = A \ L, L \subseteq A, A \subseteq L \cup H \cup N,
         V = L \cup H, u = Cardinality(V),
         NEW ss, NEW qs, Rooms(L, H, N, ss, qs)
  PROVE  /\ LIRSKept(LIRS!Pruning(l), O, ss, qs)
         /\ LIRS!Pruning(l).valid = V /\ LIRS!Pruning(l).ub = FALSE
<1> DEFINE x == LIRS!Pruning(l)
<1>1. Stacked(A, C, L, H, N)
  BY DEF Stacked
<1>2. PICK P \in SUBSET (A \ L) :
        Shape(x, O, A \ P, H, C \ P, L, H, N, V, u) /\ EndsLIR(x, L)
  <2>1. PrunedTo(x, O, A, H, C, L, H, N, V, u)
    BY <1>1, ShapePrune
  <2> QED BY <2>1, Zenon DEF PrunedTo
<1> DEFINE B == A \ P
<1>3. C \ P = B \ L /\ L \subseteq B /\ B \subseteq L \cup H \cup N
  OBVIOUS
<1> HIDE DEF x, B
<1>4. Shape(x, O, B, H, B \ L, L, H, N, L \cup H, Cardinality(L \cup H))
  BY <1>2, <1>3 DEF B
<1>5. LIRSHas(x, O, B, L, H, N, ss, qs)
  BY <1>2, <1>3, <1>4 DEF LIRSHas
<1>6. LIRSKept(x, O, ss, qs)
  BY <1>5, Zenon DEF LIRSKept
<1>7. x.valid = V /\ x.ub = FALSE
  BY <1>2 DEF Shape, Lirs
<1> QED BY <1>6, <1>7 DEF x

LEMMA ShapeRead ==
  ASSUME NEW l, NEW O, NEW A, NEW Q, NEW C, NEW L, NEW H, NEW N, NEW V, NEW u,
         Shape(l, O, A, Q, C, L, H, N, V, u)
  PROVE  /\ l.valid = V /\ l.used_size_ = u /\ l.ub = FALSE
         /\ l.s_ \in Seq(Keys) /\ Lists(l.s_, A) /\ ToSet(l.s_) = A
         /\ l.q_ \in Seq(Keys) /\ Lists(l.q_, Q)
         /\ A \subseteq Keys /\ L \subseteq Keys /\ H \subseteq Keys /\ N \subseteq Keys
         /\ L \cap H = {} /\ L \cap N = {} /\ H \cap N = {}
         /\ l.s_ = <<>> <=> A = {}
         /\ DOMAIN l.type = L \cup H \cup N
         /\ \A k \in L \cup H \cup N :
              l.type[k] = IF k \in L THEN "LIR" ELSE IF k \in H THEN "HIR" ELSE "NHIR"
<1>1. /\ l.valid = V /\ l.used_size_ = u /\ l.ub = FALSE
      /\ l.type = Types(L, H, N)
  BY DEF Shape, Lirs
<1>2. /\ l.s_ \in Seq(Keys) /\ Lists(l.s_, A) /\ ToSet(l.s_) = A
      /\ l.q_ \in Seq(Keys) /\ Lists(l.q_, Q)
  BY DEF Shape, Closed, Lists
<1>3. A \subseteq Keys
  BY <1>2 DEF ToSet
<1>4. /\ L \subseteq Keys /\ H \subseteq Keys /\ N \subseteq Keys
      /\ L \cap H = {} /\ L \cap N = {} /\ H \cap N = {}
  BY DEF Shape, Apart3
<1>5. l.s_ = <<>> <=> A = {}
  BY <1>2, ListsEmpty
<1>6. /\ DOMAIN l.type = L \cup H \cup N
      /\ \A k \in L \cup H \cup N :
           l.type[k] = IF k \in L THEN "LIR" ELSE IF k \in H THEN "HIR" ELSE "NHIR"
  BY <1>1 DEF Types
<1> QED BY <1>1, <1>2, <1>3, <1>4, <1>5, <1>6

LEMMA ShapeSets ==
  ASSUME NEW l, NEW O, NEW A, NEW Q, NEW C, NEW L, NEW H, NEW N, NEW V, NEW u,
         Shape(l, O, A, Q, C, L, H, N, V, u)
  PROVE  Apart3(L, H, N) /\ A \subseteq Keys
<1>1. A \subseteq Keys
  BY ShapeRead, Zenon
<1>2. Apart3(L, H, N)
  BY DEF Shape
<1> QED BY <1>1, <1>2

LEMMA ShapeStack ==
  ASSUME NEW l, NEW O, NEW A, NEW Q, NEW C, NEW L, NEW H, NEW N, NEW V, NEW u,
         Shape(l, O, A, Q, C, L, H, N, V, u)
  PROVE  l.s_ \in Seq(Keys) /\ Lists(l.s_, A)
BY ShapeRead, Zenon

\* The outcome of an access: x, with R resident
LIRSDone(x, O, R, ss, qs) ==
  LIRSKept(x, O, ss, qs) /\ x.valid = R /\ x.ub = FALSE

LEMMA PushableIs ==
  ASSUME NEW l, NEW A, NEW C, NEW L, NEW H, NEW N, NEW J \in SUBSET Keys,
         l.s_ \in Seq(Keys), Lists(l.s_, A), A \ J \subseteq C,
         C \subseteq L \cup H \cup N, C \cap N \subseteq A,
         LIRS!s_size_ \in Nat \ {0}, Cardinality(J) <= LIRS!s_size_
  PROVE  Pushable(l, A, C, L, H, N)
<1>1. ASSUME C = {}
      PROVE  Len(l.s_) + 1 < limit_ratio_ * LIRS!s_size_
  <2> DEFINE q == l.s_
             ss == LIRS!s_size_
  <2>1. A \subseteq J
    BY <1>1
  <2>2. q \in Seq(Keys) /\ Lists(q, A) /\ ss \in Nat \ {0} /\ Cardinality(J) <= ss
    OBVIOUS
  <2> HIDE DEF q, ss
  <2>3. Len(q) + 1 < limit_ratio_ * ss
    BY <2>1, <2>2, RoomInStack
  <2> QED BY <2>3 DEF q, ss
<1> QED BY <1>1, Zenon DEF Pushable

\* x is l with the page p of its stack at the top and M forgotten.
MovedTo(x, l, p, P, A, Q, C, L, H, N, V, u) ==
  \E M \in SUBSET (C \cap N) :
    /\ Shape(x, P, A \ M, Q, C \ M, L, H, N \ M, V, u)
    /\ p # Last(l.s_) /\ Last(l.s_) \notin M =>
         x.s_ # <<>> /\ Last(x.s_) = Last(l.s_)

LEMMA ShapeMove ==
  ASSUME NEW l, NEW O, NEW A, NEW Q, NEW C, NEW L, NEW H, NEW N, NEW V, NEW u,
         Shape(l, O, A, Q, C, L, H, N, V, u), NEW P, Closed(P),
         NEW p \in A, p \notin N, Pushes(O, P, p),
         Pushable(LIRS!Del(l, "s_", p), A \ {p}, C, L, H, N)
  PROVE  MovedTo(LIRS!MoveTopS(l, p), l, p, P, A, Q, C, L, H, N, V, u)
<1> DEFINE r == LIRS!Del(l, "s_", p)
           x == LIRS!MoveTopS(l, p)
           B == A \ {p}
<1>1. x = LIRS!PushS(r, p)
  BY DEF LIRS!MoveTopS
<1>2. /\ Shape(r, O, B, Q, C, L, H, N, V, u)
      /\ p # Last(l.s_) => r.s_ # <<>> /\ Last(r.s_) = Last(l.s_)
  BY DelS
<1>3. p \in Keys \ B /\ Pushable(r, B, C, L, H, N)
  BY ShapeRead
<1>4. B \cup {p} = A
  OBVIOUS
<1> HIDE DEF r, x, B
<1>5. PushedTo(x, r, p, P, B, Q, C, L, H, N, V, u)
  BY <1>1, <1>2, <1>3, ShapePush
<1>6. PICK M \in SUBSET (C \cap N) :
        /\ Shape(x, P, (B \cup {p}) \ M, Q, C \ M, L, H, N \ M, V, u)
        /\ LET y == IF r.s_ = <<>> THEN p ELSE Last(r.s_)
           IN y \notin M => x.s_ # <<>> /\ Last(x.s_) = y
  BY <1>5, Zenon DEF PushedTo
<1>7. Shape(x, P, A \ M, Q, C \ M, L, H, N \ M, V, u)
  BY <1>4, <1>6
<1>8. p # Last(l.s_) /\ Last(l.s_) \notin M =>
        x.s_ # <<>> /\ Last(x.s_) = Last(l.s_)
  BY <1>2, <1>6
<1> QED BY <1>7, <1>8, Zenon DEF MovedTo, x

\* The LIR page at the end of the stack gives its place to p, on top.
LEMMA LIRSSwap ==
  ASSUME NEW l, NEW O, NEW A, NEW C, NEW L, NEW H, NEW N, NEW V, NEW u,
         NEW p \in A \ L, NEW J, J = L \cup {p},
         Shape(l, O, A, H, C, J, H, N, V, u), C = A \ L,
         L \subseteq A, A \subseteq J \cup H \cup N,
         V = J \cup H, u = Cardinality(V),
         l.s_ # <<>>, NEW y \in L, y = Last(l.s_),
         NEW ss, NEW qs, Rooms(J \ {y}, H \cup {y}, N, ss, qs)
  PROVE  LIRSDone(LIRS!Pruning(LIRS!Del(LIRS!Bottom(l), "hirs_", p)),
                  O, V, ss, qs)
<1> DEFINE b == LIRS!Bottom(l)
           d == LIRS!Del(b, "hirs_", p)
           I == J \ {y}
           G == H \cup {y}
           D == C \cup {y}
<1>0. Apart3(J, H, N)
  BY ShapeSets, Zenon
<1>1. y \in J /\ y \notin H /\ y \notin C /\ y # p
  BY <1>0 DEF Apart3
<1>2. Shape(b, O, A, G, D, I, G, N, V, u)
  BY <1>1, ShapeBottom
<1>3. p \in D
  OBVIOUS
<1>4. /\ D \ {p} = A \ I /\ I \subseteq A /\ A \subseteq I \cup G \cup N
      /\ V = I \cup G
  BY <1>1
<1> HIDE DEF b, I, G, D
<1>5. Shape(d, O, A, G, D \ {p}, I, G, N, V, u)
  BY <1>2, <1>3, DelH
<1> HIDE DEF d
<1>6. /\ LIRSKept(LIRS!Pruning(d), O, ss, qs)
      /\ LIRS!Pruning(d).valid = V /\ LIRS!Pruning(d).ub = FALSE
  <2>1. Rooms(I, G, N, ss, qs)
    BY DEF I, G
  <2> QED BY <1>4, <1>5, <2>1, LIRSEnd
<1> QED BY <1>6 DEF LIRSDone, d, b

\* What an access of p starts from
LIRSReady(l, O, P, p, A, L, H, N, ss, qs) ==
  /\ LIRSHas(l, O, A, L, H, N, ss, qs)
  /\ Closed(P) /\ Pushes(O, P, p)
  /\ ss = LIRS!s_size_ /\ Divided(ss, qs)

\* A LIR page is accessed.
LEMMA LIRSTouch ==
  ASSUME NEW l, NEW O, NEW P, NEW p, NEW A, NEW L, NEW H, NEW N, NEW ss, NEW qs,
         LIRSReady(l, O, P, p, A, L, H, N, ss, qs), p \in L
  PROVE  LIRSDone(LIRS!Pruning(LIRS!MoveTopS(l, p)), P, L \cup H, ss, qs)
<1> DEFINE r == LIRS!Del(l, "s_", p)
           x == LIRS!MoveTopS(l, p)
           C == A \ L
           V == L \cup H
           u == Cardinality(V)
<1>1. /\ Shape(l, O, A, H, C, L, H, N, V, u) /\ Closed(P) /\ Pushes(O, P, p)
      /\ L \subseteq A /\ A \subseteq L \cup H \cup N
      /\ Rooms(L, H, N, ss, qs) /\ ss = LIRS!s_size_ /\ ss \in Nat \ {0}
  BY DEF LIRSReady, LIRSHas, Divided
<1>0. Apart3(L, H, N)
  BY <1>1, ShapeSets, Zenon
<1>2. /\ L \subseteq Keys /\ p \notin N /\ L \cap N = {}
  BY <1>0 DEF Apart3
<1>3. p \in A /\ (A \ {p}) \ L \subseteq C /\ C \subseteq L \cup H \cup N
      /\ C \cap N \subseteq A \ {p}
  BY <1>1, <1>2
<1> HIDE DEF C, V, u
<1>4. Shape(r, O, A \ {p}, H, C, L, H, N, V, u)
  BY <1>1, <1>3, DelS
<1>5. Pushable(r, A \ {p}, C, L, H, N)
  <2>1. r.s_ \in Seq(Keys) /\ Lists(r.s_, A \ {p})
    BY <1>4, ShapeStack, Zenon
  <2>2. Cardinality(L) <= LIRS!s_size_
    BY <1>1 DEF Rooms
  <2> HIDE DEF r
  <2> QED BY <1>1, <1>2, <1>3, <2>1, <2>2, PushableIs
<1>6. MovedTo(x, l, p, P, A, H, C, L, H, N, V, u)
  BY <1>1, <1>2, <1>3, <1>5, ShapeMove
<1> HIDE DEF r, x
<1>7. PICK M \in SUBSET (C \cap N) :
        Shape(x, P, A \ M, H, C \ M, L, H, N \ M, V, u)
  BY <1>6, Zenon DEF MovedTo
<1> DEFINE B == A \ M
           K == N \ M
<1>8. /\ C \ M = B \ L /\ L \subseteq B /\ B \subseteq L \cup H \cup K
  BY <1>1, <1>2 DEF C
<1>9. Rooms(L, H, K, ss, qs)
  BY <1>1 DEF Rooms
<1>10. Shape(x, P, B, H, C \ M, L, H, K, V, u)
  BY <1>7
<1> HIDE DEF B, K
<1>11. /\ LIRSKept(LIRS!Pruning(x), P, ss, qs)
       /\ LIRS!Pruning(x).valid = V /\ LIRS!Pruning(x).ub = FALSE
  <2>1. V = L \cup H /\ u = Cardinality(V)
    BY DEF V, u
  <2> QED BY <1>8, <1>9, <1>10, <2>1, LIRSEnd
<1> QED BY <1>11 DEF LIRSDone, V, x

\* The page at the end of the stack gives its place to p, v leaves.
LEMMA RoomsSwap ==
  ASSUME NEW L, NEW H, NEW N, NEW ss, NEW qs, Rooms(L, H, N, ss, qs),
         Apart3(L, H, N), NEW v \in H, NEW y \in L, NEW p \in Keys \ L,
         NEW K, K = {} \/ N # {}
  PROVE  Rooms((L \cup {p}) \ {y}, (H \ {v}) \cup {y}, K, ss, qs)
<1>1. L \in SUBSET Keys /\ H \in SUBSET Keys /\ y \in Keys \ H
  BY DEF Apart3
<1>2. Cardinality((L \cup {p}) \ {y}) = Cardinality(L)
  BY <1>1, SizeSwap
<1>3. Cardinality((H \ {v}) \cup {y}) = Cardinality(H)
  BY <1>1, SizeSwap
<1>4. H # {}
  OBVIOUS
<1> QED BY <1>2, <1>3, <1>4 DEF Rooms

\* x has p on top of its stack, of LIR pages L and p; y gives its place.
Lifted(x, P, p, y, Q, L, J, G, V, u, ss, qs) ==
  \E B, K :
    /\ Shape(x, P, B, Q, B \ L, J, G, K, V, u)
    /\ L \subseteq B /\ p \in B \ L /\ B \subseteq J \cup G \cup K
    /\ Rooms(J \ {y}, G \cup {y}, K, ss, qs)
    /\ x.s_ # <<>> /\ y = Last(x.s_)

LEMMA LIRSLift ==
  ASSUME NEW e, NEW O, NEW A, NEW Q, NEW C, NEW L, NEW J, NEW G, NEW N,
         NEW V, NEW u, Shape(e, O, A, Q, C, J, G, N, V, u),
         NEW P, NEW p \in A \ L, Closed(P), Pushes(O, P, p),
         J = L \cup {p}, C = A \ L, L \subseteq A, A \subseteq J \cup G \cup N,
         NEW ss, NEW qs, ss = LIRS!s_size_, ss \in Nat \ {0},
         Cardinality(L) <= ss,
         e.s_ # <<>>, NEW y \in L, y = Last(e.s_),
         Rooms(J \ {y}, G \cup {y}, N, ss, qs)
  PROVE  Lifted(LIRS!MoveTopS(e, p), P, p, y, Q, L, J, G, V, u, ss, qs)
<1> DEFINE x == LIRS!MoveTopS(e, p)
           r == LIRS!Del(e, "s_", p)
<1>1. Apart3(J, G, N) /\ A \subseteq Keys
  BY ShapeSets, Zenon
<1>2. /\ p \notin N /\ p # y /\ L \subseteq Keys
      /\ (A \ {p}) \ L \subseteq C /\ C \subseteq J \cup G \cup N
      /\ C \cap N \subseteq A \ {p} /\ C \cap N \subseteq N
      /\ y \notin N
  BY <1>1 DEF Apart3
<1>3. Shape(r, O, A \ {p}, Q, C, J, G, N, V, u)
  BY DelS
<1>4. Pushable(r, A \ {p}, C, J, G, N)
  <2>1. r.s_ \in Seq(Keys) /\ Lists(r.s_, A \ {p})
    BY <1>3, ShapeStack, Zenon
  <2> HIDE DEF r
  <2> QED BY <1>1, <1>2, <2>1, PushableIs
<1>5. MovedTo(x, e, p, P, A, Q, C, J, G, N, V, u)
  BY <1>2, <1>4, ShapeMove
<1> HIDE DEF r, x
<1>6. PICK M \in SUBSET (C \cap N) :
        /\ Shape(x, P, A \ M, Q, C \ M, J, G, N \ M, V, u)
        /\ p # Last(e.s_) /\ Last(e.s_) \notin M =>
             x.s_ # <<>> /\ Last(x.s_) = Last(e.s_)
  BY <1>5, Zenon DEF MovedTo
<1>7. y \notin M /\ p \notin M /\ M \subseteq N /\ \A k \in L : k \notin M
  BY <1>1, <1>2 DEF Apart3
<1>8. x.s_ # <<>> /\ y = Last(x.s_)
  BY <1>2, <1>6, <1>7
<1> DEFINE B == A \ M
           K == N \ M
<1>9. /\ p \in B \ L /\ C \ M = B \ L /\ L \subseteq B
      /\ B \subseteq J \cup G \cup K
  BY <1>1, <1>2, <1>7
<1>10. Rooms(J \ {y}, G \cup {y}, K, ss, qs)
  BY DEF Rooms
<1>11. Shape(x, P, B, Q, B \ L, J, G, K, V, u)
  BY <1>6, <1>9
<1> HIDE DEF B, K
<1>12. Lifted(x, P, p, y, Q, L, J, G, V, u, ss, qs)
  BY <1>8, <1>9, <1>10, <1>11, Zenon DEF Lifted
<1> QED BY <1>12 DEF x

\* A HIR page of the stack is accessed.
LEMMA LIRSRaise ==
  ASSUME NEW l, NEW O, NEW P, NEW p, NEW A, NEW L, NEW H, NEW N, NEW ss, NEW qs,
         LIRSReady(l, O, P, p, A, L, H, N, ss, qs), p \in H, p \in A,
         NEW e, e = Retype(l, p, "LIR")
  PROVE  LET z == LIRS!Del(LIRS!MoveTopS(e, p), "q_", p)
         IN LIRSDone(LIRS!Pruning(LIRS!Del(LIRS!Bottom(z), "hirs_", p)),
                     P, L \cup H, ss, qs)
<1> DEFINE C == A \ L
           J == L \cup {p}
           G == H \ {p}
           V == L \cup H
           u == Cardinality(V)
           y == Last(l.s_)
           x == LIRS!MoveTopS(e, p)
           z == LIRS!Del(x, "q_", p)
<1>0. /\ Shape(l, O, A, H, C, L, H, N, V, u) /\ Closed(P) /\ Pushes(O, P, p)
      /\ L \subseteq A /\ A \subseteq L \cup H \cup N
      /\ Rooms(L, H, N, ss, qs) /\ EndsLIR(l, L)
      /\ ss = LIRS!s_size_ /\ ss \in Nat \ {0}
  BY DEF LIRSReady, LIRSHas, Divided
<1>1. Apart3(L, H, N) /\ A \subseteq Keys
  BY <1>0, ShapeSets, Zenon
<1>2. /\ p \notin L /\ p \notin N /\ p \in L \cup H \cup N /\ N \ {p} = N
      /\ p \in Keys \ L
  BY <1>0, <1>1 DEF Apart3
<1>3. V = J \cup G /\ C = A \ L /\ A \subseteq J \cup G \cup N /\ p \in A \ L
  BY <1>0, <1>1, <1>2
<1>4. l.s_ # <<>> /\ y \in L
  <2>1. l.s_ \in Seq(Keys) /\ Lists(l.s_, A)
    BY <1>0, <1>1, ShapeStack, Zenon
  <2>2. l.s_ # <<>>
    BY <2>1, ListsEmpty
  <2> QED BY <1>0, <1>1, <1>2, <2>2 DEF EndsLIR
<1> HIDE DEF C, J, G, V, u, y
<1>5. Shape(e, O, A, H, C, J, G, N, V, u) /\ e.s_ = l.s_
  <2>1. Shape(e, O, A, H, C, L \cup {p}, H \ {p}, N \ {p}, V, u) /\ e.s_ = l.s_
    BY <1>0, <1>1, <1>2, ToLIR
  <2> QED BY <1>2, <2>1 DEF J, G
<1>6. Rooms(J \ {y}, G \cup {y}, N, ss, qs)
  BY <1>0, <1>1, <1>2, <1>4, RoomsSwap DEF J, G
<1>7. Lifted(x, P, p, y, H, L, J, G, V, u, ss, qs)
  <2>1. J = L \cup {p} /\ y = Last(e.s_) /\ e.s_ # <<>> /\ Cardinality(L) <= ss
    BY <1>0, <1>1, <1>4, <1>5 DEF J, y, Rooms
  <2> QED BY <1>0, <1>1, <1>3, <1>4, <1>5, <1>6, <2>1, LIRSLift
<1> HIDE DEF x
<1>8. PICK B, K :
        /\ Shape(x, P, B, H, B \ L, J, G, K, V, u)
        /\ L \subseteq B /\ p \in B \ L /\ B \subseteq J \cup G \cup K
        /\ Rooms(J \ {y}, G \cup {y}, K, ss, qs)
        /\ x.s_ # <<>> /\ y = Last(x.s_)
  BY <1>7, Zenon DEF Lifted
<1> DEFINE D == B \ L
<1>9. Shape(z, P, B, G, D, J, G, K, V, u) /\ z.s_ # <<>> /\ y = Last(z.s_)
  BY <1>8, DelQ DEF G
<1>10. D = B \ L
  OBVIOUS
<1> HIDE DEF z, D
<1>11. LIRSDone(LIRS!Pruning(LIRS!Del(LIRS!Bottom(z), "hirs_", p)), P, V, ss, qs)
  <2>1. J = L \cup {p} /\ V = J \cup G /\ u = Cardinality(V)
    BY <1>3 DEF J, u
  <2> QED BY <1>4, <1>8, <1>9, <1>10, <2>1, LIRSSwap
<1> QED BY <1>11 DEF z, x, V

\* A HIR page goes on the stack, and to the front of hirs_.
LEMMA LIRSQueued ==
  ASSUME NEW d, NEW P, NEW A, NEW p \in Keys \ A, NEW L, NEW H, NEW N, NEW V,
         NEW u, NEW M \in SUBSET ((A \ L) \cap N),
         Shape(d, P, (A \cup {p}) \ M, H, (A \ L) \ M, L, H, N \ M, V, u),
         L \subseteq A, A \subseteq L \cup H \cup N, p \in H,
         V = L \cup H, u = Cardinality(V),
         NEW ss, NEW qs, Rooms(L, H, N, ss, qs)
  PROVE  LIRSDone(LIRS!Pruning(LIRS!Ins(d, "hirs_", p)), P, V, ss, qs)
<1> DEFINE B == (A \cup {p}) \ M
           C == (A \ L) \ M
           K == N \ M
           D == B \ L
           t == LIRS!Ins(d, "hirs_", p)
<1>1. Apart3(L, H, K)
  BY ShapeSets, Zenon
<1>2. p \in Keys \ C /\ p \notin M /\ \A k \in L : k \notin M
  BY <1>1 DEF Apart3
<1>3. C \cup {p} = D /\ L \subseteq B /\ B \subseteq L \cup H \cup K
  BY <1>1, <1>2 DEF Apart3
<1>4. Rooms(L, H, K, ss, qs)
  BY DEF Rooms
<1>5. D = B \ L
  OBVIOUS
<1>6. Shape(d, P, B, H, C, L, H, K, V, u)
  OBVIOUS
<1> HIDE DEF B, C, K, D
<1>7. Shape(t, P, B, H, D, L, H, K, V, u)
  BY <1>2, <1>3, <1>6, InsH
<1> HIDE DEF t
<1>8. /\ LIRSKept(LIRS!Pruning(t), P, ss, qs)
      /\ LIRS!Pruning(t).valid = V /\ LIRS!Pruning(t).ub = FALSE
  BY <1>3, <1>4, <1>5, <1>7, LIRSEnd
<1> QED BY <1>8 DEF LIRSDone, t

\* A HIR page that is not in the stack is accessed.
LEMMA LIRSTop ==
  ASSUME NEW l, NEW O, NEW P, NEW p, NEW A, NEW L, NEW H, NEW N, NEW ss, NEW qs,
         LIRSReady(l, O, P, p, A, L, H, N, ss, qs), p \in H, p \notin A
  PROVE  LET d == LIRS!MoveTopQ(LIRS!PushS(l, p), p)
         IN LIRSDone(LIRS!Pruning(LIRS!Ins(d, "hirs_", p)), P, L \cup H, ss, qs)
<1> DEFINE C == A \ L
           V == L \cup H
           u == Cardinality(V)
           x == LIRS!PushS(l, p)
           q == LIRS!Del(x, "q_", p)
           d == LIRS!MoveTopQ(x, p)
<1>0. /\ Shape(l, O, A, H, C, L, H, N, V, u) /\ Closed(P) /\ Pushes(O, P, p)
      /\ L \subseteq A /\ A \subseteq L \cup H \cup N
      /\ Rooms(L, H, N, ss, qs)
      /\ ss = LIRS!s_size_ /\ ss \in Nat \ {0}
  BY DEF LIRSReady, LIRSHas, Divided
<1>1. Apart3(L, H, N) /\ A \subseteq Keys
  BY <1>0, ShapeSets, Zenon
<1>2. /\ p \in Keys \ A /\ L \subseteq Keys
      /\ A \ L \subseteq C /\ C \subseteq L \cup H \cup N /\ C \cap N \subseteq A
  BY <1>0, <1>1 DEF Apart3
<1>3. Pushable(l, A, C, L, H, N)
  <2>1. l.s_ \in Seq(Keys) /\ Lists(l.s_, A)
    BY <1>0, <1>1, ShapeStack, Zenon
  <2>2. Cardinality(L) <= LIRS!s_size_
    BY <1>0, <1>1 DEF Rooms
  <2> QED BY <1>0, <1>1, <1>2, <2>1, <2>2, PushableIs
<1> HIDE DEF C, V, u
<1>4. PushedTo(x, l, p, P, A, H, C, L, H, N, V, u)
  BY <1>0, <1>1, <1>2, <1>3, ShapePush
<1> HIDE DEF x
<1>5. PICK M \in SUBSET (C \cap N) :
        Shape(x, P, (A \cup {p}) \ M, H, C \ M, L, H, N \ M, V, u)
  BY <1>4, Zenon DEF PushedTo
<1> DEFINE B == (A \cup {p}) \ M
           D == C \ M
           K == N \ M
<1>6. Shape(q, P, B, H \ {p}, D, L, H, K, V, u)
  BY <1>5, DelQ
<1>7. d = LIRS!Ins(q, "q_", p)
  BY Zenon DEF LIRS!MoveTopQ, LIRS!PushQ
<1>8. (H \ {p}) \cup {p} = H /\ p \in Keys \ (H \ {p})
  BY <1>2
<1> HIDE DEF B, D, K, q, d
<1>9. Shape(d, P, B, H, D, L, H, K, V, u)
  BY <1>6, <1>7, <1>8, InsQ
<1>10. LIRSDone(LIRS!Pruning(LIRS!Ins(d, "hirs_", p)), P, V, ss, qs)
  <2>1. V = L \cup H /\ u = Cardinality(V) /\ M \in SUBSET ((A \ L) \cap N)
    BY DEF V, u, C
  <2>2. Shape(d, P, (A \cup {p}) \ M, H, (A \ L) \ M, L, H, N \ M, V, u)
    BY <1>9 DEF B, D, K, C
  <2> QED BY <1>0, <1>1, <1>2, <2>1, <2>2, LIRSQueued
<1> QED BY <1>10 DEF d, x, V

\* x is l without v, with p resident in its place, of LIR pages J and of HIR
\* ones G and I.
BackTo(x, l, O, p, T, A, L, H, N, V, u) ==
  \E v \in H :
    /\ Shape(x, O, A, H \ {v}, A \ L,
             IF T = "LIR" THEN L \cup {p} ELSE L,
             IF T = "LIR" THEN H \ {v} ELSE (H \ {v}) \cup {p},
             (N \cup ({v} \cap A)) \ {p}, (V \ {v}) \cup {p}, u)
    /\ x.s_ = l.s_

\* What Back makes of l, with p resident again
Rejoin(l, p, T) ==
  [LIRS!FreeOne([l EXCEPT !.used_size_ = @ + 1])
     EXCEPT !.valid = @ \cup {p}, !.type[p] = T]

LEMMA LIRSBack ==
  ASSUME NEW l, NEW O, NEW A, NEW L, NEW H, NEW N, NEW V, NEW u \in Nat,
         Shape(l, O, A, H, A \ L, L, H, N, V, u), H # {}, H \subseteq V,
         NEW p \in N, NEW T \in {"LIR", "HIR"},
         NEW t, t = Rejoin(l, p, T)
  PROVE  BackTo(t, l, O, p, T, A, L, H, N, V, u)
<1> DEFINE C == A \ L
           m1 == [l EXCEPT !.used_size_ = @ + 1]
           b == LIRS!FreeOne(m1)
<1>0. Apart3(L, H, N)
  BY ShapeSets, Zenon
<1>1. Shape(m1, O, A, H, C, L, H, N, V, u + 1) /\ m1.s_ = l.s_
  <2>1. l = Lirs(l.s_, l.q_, l.hirs_, Types(L, H, N), V, u)
    BY DEF Shape
  <2>2. m1 = Lirs(l.s_, l.q_, l.hirs_, Types(L, H, N), V, u + 1)
    <3>1. ASSUME NEW a, NEW c, NEW d, NEW e, NEW z, z = Lirs(a, c, d, e, V, u),
                 NEW y, y = [z EXCEPT !.used_size_ = @ + 1]
          PROVE  y = Lirs(a, c, d, e, V, u + 1)
      BY <3>1 DEF Lirs
    <3> QED BY <2>1, <3>1, Zenon
  <2>3. Shape(l, O, A, H, C, L, H, N, V, u)
    OBVIOUS
  <2> HIDE DEF C, m1
  <2> QED BY <1>0, <2>2, <2>3, ShapeOf
<1>2. FreedTo(b, m1, O, A, H, C, L, H, N, V, u + 1)
  <2>1. H \subseteq H
    OBVIOUS
  <2> HIDE DEF C, m1
  <2> QED BY <1>1, <2>1, ShapeFree
<1>3. t = [b EXCEPT !.valid = @ \cup {p}, !.type[p] = T]
  BY Zenon DEF Rejoin
<1> HIDE DEF b, C, m1
<1>4. PICK v \in H :
        /\ Shape(b, O, A, H \ {v}, C, L, H \ {v},
                 IF v \in A THEN N \cup {v} ELSE N, V \ {v}, (u + 1) - 1)
        /\ b.s_ = m1.s_
  BY <1>2, Zenon DEF FreedTo
<1> DEFINE G == H \ {v}
           K == N \cup ({v} \cap A)
           W == V \ {v}
           X == W \cup {p}
<1>5. (IF v \in A THEN N \cup {v} ELSE N) = K /\ (u + 1) - 1 = u
  OBVIOUS
<1>6. Shape(b, O, A, G, C, L, G, K, W, u)
  BY <1>4, <1>5
<1>7. Apart3(L, G, K) /\ p \in K /\ p \notin L /\ p \notin G
  BY <1>0 DEF Apart3
<1> HIDE DEF G, K, W
<1> DEFINE r == [b EXCEPT !.valid = @ \cup {p}]
<1>8. Shape(r, O, A, G, C, L, G, K, X, u) /\ r.s_ = b.s_
  <2>1. b = Lirs(b.s_, b.q_, b.hirs_, Types(L, G, K), W, u)
    BY <1>6 DEF Shape
  <2>2. r = Lirs(b.s_, b.q_, b.hirs_, Types(L, G, K), X, u)
    <3>1. ASSUME NEW a, NEW c, NEW d, NEW e, NEW z, z = Lirs(a, c, d, e, W, u),
                 NEW y, y = [z EXCEPT !.valid = @ \cup {p}]
          PROVE  y = Lirs(a, c, d, e, X, u)
      BY <3>1 DEF Lirs
    <3> QED BY <2>1, <3>1, Zenon
  <2> HIDE DEF X, r
  <2> QED BY <1>6, <1>7, <2>2, ShapeOf
<1>9. t = Retype(r, p, T)
  BY <1>3 DEF Retype
<1> HIDE DEF r, X
<1>10. CASE T = "LIR"
  <2>1. Shape(t, O, A, G, C, L \cup {p}, G \ {p}, K \ {p}, X, u) /\ t.s_ = r.s_
    <3>1. p \in L \cup G \cup K
      BY <1>7
    <3> QED BY <1>8, <1>9, <1>10, <3>1, ToLIR
  <2>2. G \ {p} = G
    BY <1>7
  <2>3. /\ Shape(t, O, A, G, C, L \cup {p}, G, K \ {p}, X, u)
        /\ t.s_ = l.s_
    BY <1>1, <1>4, <1>8, <2>1, <2>2
  <2> QED BY <1>10, <2>3 DEF BackTo, G, K, W, X, C
<1>11. CASE T = "HIR"
  <2>1. Shape(t, O, A, G, C, L \ {p}, G \cup {p}, K \ {p}, X, u) /\ t.s_ = r.s_
    <3>1. p \in L \cup G \cup K
      BY <1>7
    <3> QED BY <1>8, <1>9, <1>11, <3>1, ToHIR
  <2>2. L \ {p} = L
    BY <1>7
  <2>3. /\ Shape(t, O, A, G, C, L, G \cup {p}, K \ {p}, X, u)
        /\ t.s_ = l.s_
    BY <1>1, <1>4, <1>8, <2>1, <2>2
  <2> QED BY <1>11, <2>3 DEF BackTo, G, K, W, X, C
<1> QED BY <1>10, <1>11

\* A page of the stack that had left comes back.
LEMMA LIRSReturn ==
  ASSUME NEW l, NEW O, NEW P, NEW p, NEW A, NEW L, NEW H, NEW N, NEW ss, NEW qs,
         LIRSReady(l, O, P, p, A, L, H, N, ss, qs), p \in N, p \in A,
         NEW e, e = Rejoin(l, p, "LIR")
  PROVE  \E v \in L \cup H :
           LIRSDone(LIRS!Pruning(LIRS!Del(LIRS!Bottom(LIRS!MoveTopS(e, p)),
                                          "hirs_", p)),
                    P, ((L \cup H) \ {v}) \cup {p}, ss, qs)
<1> DEFINE C == A \ L
           V == L \cup H
           u == Cardinality(V)
           y == Last(l.s_)
           x == LIRS!MoveTopS(e, p)
           J == L \cup {p}
<1>0. /\ Shape(l, O, A, H, C, L, H, N, V, u) /\ Closed(P) /\ Pushes(O, P, p)
      /\ L \subseteq A /\ A \subseteq L \cup H \cup N
      /\ Rooms(L, H, N, ss, qs) /\ EndsLIR(l, L)
      /\ ss = LIRS!s_size_ /\ ss \in Nat \ {0} /\ qs \in Nat \ {0}
  BY DEF LIRSReady, LIRSHas, Divided
<1>1. Apart3(L, H, N) /\ A \subseteq Keys
  BY <1>0, ShapeSets, Zenon
<1>2. /\ p \notin L /\ p \notin H /\ p \in Keys \ L /\ p \in Keys \ V
      /\ L \in SUBSET Keys /\ H \in SUBSET Keys
      /\ V \in SUBSET Keys /\ H \subseteq V /\ L \cap H = {}
      /\ N # {} /\ \A k \in H : k \notin L
  BY <1>1 DEF Apart3
<1>3. u \in Nat /\ H # {}
  <2>1. Cardinality(L) \in Nat /\ Cardinality(H) \in Nat
    BY <1>2, SizeJoin
  <2>2. V \in SUBSET Keys
    BY <1>2
  <2>3. u \in Nat
    BY <2>2, SizeAtMost, KeysAreFinite
  <2>4. Cardinality(H) = qs
    BY <1>0, <1>2 DEF Rooms
  <2>5. H # {}
    BY <1>0, <2>4, FS_EmptySet
  <2> QED BY <2>3, <2>5
<1>4. l.s_ # <<>> /\ y \in L
  <2>1. l.s_ \in Seq(Keys) /\ Lists(l.s_, A)
    BY <1>0, ShapeStack, Zenon
  <2>2. l.s_ # <<>>
    BY <2>1, ListsEmpty
  <2> QED BY <1>0, <1>2, <2>2 DEF EndsLIR
<1>5. BackTo(e, l, O, p, "LIR", A, L, H, N, V, u)
  <2>1. Shape(l, O, A, H, A \ L, L, H, N, V, u)
    BY <1>0
  <2> HIDE DEF V, u, C
  <2> QED BY <1>2, <1>3, <2>1, LIRSBack
<1>6. PICK v \in H :
        /\ Shape(e, O, A, H \ {v}, A \ L, L \cup {p}, H \ {v},
                 (N \cup ({v} \cap A)) \ {p}, (V \ {v}) \cup {p}, u)
        /\ e.s_ = l.s_
  BY <1>5, Zenon DEF BackTo
<1> DEFINE G == H \ {v}
           K == (N \cup ({v} \cap A)) \ {p}
           W == (V \ {v}) \cup {p}
<1>7. /\ A \subseteq J \cup G \cup K /\ p \in A \ L /\ C = A \ L
      /\ W = J \cup G /\ v \in V
  BY <1>0, <1>2
<1>8. u = Cardinality(W)
  <2>1. V \in SUBSET Keys /\ v \in V /\ p \in Keys \ V
    BY <1>2, <1>7
  <2> HIDE DEF V
  <2>2. Cardinality((V \ {v}) \cup {p}) = Cardinality(V)
    BY <2>1, SizeSwap
  <2> QED BY <2>2
<1>9. Rooms(J \ {y}, G \cup {y}, K, ss, qs)
  <2> HIDE DEF y, K
  <2> QED BY <1>0, <1>1, <1>2, <1>4, RoomsSwap
<1>10. Shape(e, O, A, G, C, J, G, K, W, u) /\ e.s_ = l.s_
  BY <1>6
<1> HIDE DEF C, V, u, y, J, G, K, W, x
<1>11. Lifted(x, P, p, y, G, L, J, G, W, u, ss, qs)
  <2>1. J = L \cup {p} /\ y = Last(e.s_) /\ e.s_ # <<>> /\ Cardinality(L) <= ss
    BY <1>0, <1>4, <1>10 DEF J, y, Rooms
  <2> QED BY <1>0, <1>4, <1>7, <1>9, <1>10, <2>1, LIRSLift DEF x
<1>12. PICK B, M :
        /\ Shape(x, P, B, G, B \ L, J, G, M, W, u)
        /\ L \subseteq B /\ p \in B \ L /\ B \subseteq J \cup G \cup M
        /\ Rooms(J \ {y}, G \cup {y}, M, ss, qs)
        /\ x.s_ # <<>> /\ y = Last(x.s_)
  BY <1>11, Zenon DEF Lifted
<1> DEFINE D == B \ L
<1>13. D = B \ L /\ Shape(x, P, B, G, D, J, G, M, W, u)
  BY <1>12
<1> HIDE DEF D
<1>14. LIRSDone(LIRS!Pruning(LIRS!Del(LIRS!Bottom(x), "hirs_", p)), P, W, ss, qs)
  <2>1. J = L \cup {p}
    BY DEF J
  <2> QED BY <1>4, <1>7, <1>8, <1>12, <1>13, <2>1, LIRSSwap
<1> QED BY <1>7, <1>14 DEF x, W, V

\* A page that had left both the buffer and the stack comes back.
LEMMA LIRSReenter ==
  ASSUME NEW l, NEW O, NEW P, NEW p, NEW A, NEW L, NEW H, NEW N, NEW ss, NEW qs,
         LIRSReady(l, O, P, p, A, L, H, N, ss, qs), p \in N, p \notin A,
         NEW e, e = Rejoin(l, p, "HIR")
  PROVE  \E v \in L \cup H :
           LIRSDone(LIRS!Pruning(LIRS!Ins(LIRS!PushQ(LIRS!PushS(e, p), p),
                                          "hirs_", p)),
                    P, ((L \cup H) \ {v}) \cup {p}, ss, qs)
<1> DEFINE C == A \ L
           V == L \cup H
           u == Cardinality(V)
           x == LIRS!PushS(e, p)
<1>0. /\ Shape(l, O, A, H, C, L, H, N, V, u) /\ Closed(P) /\ Pushes(O, P, p)
      /\ L \subseteq A /\ A \subseteq L \cup H \cup N
      /\ Rooms(L, H, N, ss, qs)
      /\ ss = LIRS!s_size_ /\ ss \in Nat \ {0} /\ qs \in Nat \ {0}
  BY DEF LIRSReady, LIRSHas, Divided
<1>1. Apart3(L, H, N) /\ A \subseteq Keys
  BY <1>0, ShapeSets, Zenon
<1>2. /\ p \notin L /\ p \notin H /\ p \in Keys \ A /\ p \in Keys \ V
      /\ L \in SUBSET Keys /\ H \in SUBSET Keys /\ p \in Keys \ H
      /\ V \in SUBSET Keys /\ H \subseteq V /\ L \cap H = {}
      /\ N # {} /\ \A k \in H : k \notin L
  BY <1>1 DEF Apart3
<1>3. u \in Nat /\ H # {}
  <2>1. V \in SUBSET Keys
    BY <1>2
  <2>2. u \in Nat
    BY <2>1, SizeAtMost, KeysAreFinite
  <2>3. Cardinality(H) = qs
    BY <1>0, <1>2 DEF Rooms
  <2>4. H # {}
    BY <1>0, <2>3, FS_EmptySet
  <2> QED BY <2>2, <2>4
<1>4. BackTo(e, l, O, p, "HIR", A, L, H, N, V, u)
  <2>1. Shape(l, O, A, H, A \ L, L, H, N, V, u)
    BY <1>0
  <2> HIDE DEF V, u, C
  <2> QED BY <1>2, <1>3, <2>1, LIRSBack
<1>5. PICK v \in H :
        Shape(e, O, A, H \ {v}, A \ L, L, (H \ {v}) \cup {p},
              (N \cup ({v} \cap A)) \ {p}, (V \ {v}) \cup {p}, u)
  BY <1>4, Zenon DEF BackTo
<1> DEFINE G == H \ {v}
           I == G \cup {p}
           K == (N \cup ({v} \cap A)) \ {p}
           W == (V \ {v}) \cup {p}
<1>6. /\ A \subseteq L \cup I \cup K /\ C = A \ L /\ W = L \cup I
      /\ v \in V /\ p \in I /\ p \in Keys \ G
      /\ C \subseteq L \cup I \cup K /\ C \cap K \subseteq A /\ A \ L \subseteq C
  BY <1>0, <1>2
<1>7. u = Cardinality(W)
  <2>1. V \in SUBSET Keys /\ v \in V /\ p \in Keys \ V
    BY <1>2, <1>6
  <2> HIDE DEF V
  <2>2. Cardinality((V \ {v}) \cup {p}) = Cardinality(V)
    BY <2>1, SizeSwap
  <2> QED BY <2>2
<1>8. Rooms(L, I, K, ss, qs)
  <2>1. Cardinality(I) = Cardinality(H)
    BY <1>2, SizeSwap
  <2> HIDE DEF I, K
  <2> QED BY <1>0, <1>2, <1>3, <2>1 DEF Rooms
<1>9. Shape(e, O, A, G, C, L, I, K, W, u)
  BY <1>5
<1> HIDE DEF C, V, u, G, I, K, W, x
<1>10. Pushable(e, A, C, L, I, K)
  <2>1. e.s_ \in Seq(Keys) /\ Lists(e.s_, A)
    BY <1>9, ShapeStack, Zenon
  <2>2. Cardinality(L) <= LIRS!s_size_
    BY <1>0 DEF Rooms
  <2> QED BY <1>0, <1>2, <1>6, <2>1, <2>2, PushableIs
<1>11. PushedTo(x, e, p, P, A, G, C, L, I, K, W, u)
  BY <1>0, <1>2, <1>9, <1>10, ShapePush DEF x
<1>12. PICK M \in SUBSET (C \cap K) :
         Shape(x, P, (A \cup {p}) \ M, G, C \ M, L, I, K \ M, W, u)
  BY <1>11, Zenon DEF PushedTo
<1> DEFINE d == LIRS!PushQ(x, p)
           B == (A \cup {p}) \ M
           D == C \ M
           T == K \ M
<1>13. d = LIRS!Ins(x, "q_", p)
  BY Zenon DEF LIRS!PushQ
<1> HIDE DEF B, D, T, d
<1>14. Shape(x, P, B, G, D, L, I, T, W, u)
  BY <1>12 DEF B, D, T
<1>15. Shape(d, P, B, I, D, L, I, T, W, u)
  <2>1. Shape(d, P, B, G \cup {p}, D, L, I, T, W, u)
    BY <1>6, <1>13, <1>14, InsQ
  <2> QED BY <2>1 DEF I
<1>16. LIRSDone(LIRS!Pruning(LIRS!Ins(d, "hirs_", p)), P, W, ss, qs)
  <2>1. M \in SUBSET ((A \ L) \cap K)
    BY DEF C
  <2>2. Shape(d, P, (A \cup {p}) \ M, I, (A \ L) \ M, L, I, K \ M, W, u)
    BY <1>15 DEF B, D, T, C
  <2> QED BY <1>0, <1>2, <1>6, <1>7, <1>8, <2>1, <2>2, LIRSQueued
<1> QED BY <1>6, <1>16 DEF d, x, W, V

\* There is room for a page in f.
HasRoom(f, O, A, L, G, K, ss, qs) ==
  /\ Shape(f, O, A, G, A \ L, L, G, K, L \cup G, Cardinality(L \cup G))
  /\ L \subseteq A /\ A \subseteq L \cup G \cup K /\ EndsLIR(f, L)
  /\ Cardinality(L) <= ss /\ Cardinality(G) + 1 <= qs
  /\ G # {} => Cardinality(L) = ss
  /\ K # {} => Cardinality(L) = ss /\ Cardinality(G) + 1 = qs

\* What MissNew makes of it
Incoming(f, p) ==
  [LIRS!PushS([f EXCEPT !.type = LIRS!Put(@, p, "LIR")], p)
     EXCEPT !.valid = @ \cup {p}, !.used_size_ = @ + 1]

IncomingTo(t, f, p, P, A, L, G, K) ==
  \E M \in SUBSET ((A \ L) \cap K) :
    /\ Shape(t, P, (A \cup {p}) \ M, G, (A \ L) \ M, L \cup {p}, G, K \ M,
             (L \cup G) \cup {p}, Cardinality(L \cup G) + 1)
    /\ t.s_ # <<>> /\ Last(t.s_) = IF f.s_ = <<>> THEN p ELSE Last(f.s_)

LEMMA LIRSEnter ==
  ASSUME NEW f, NEW O, NEW P, NEW p, NEW A, NEW L, NEW G, NEW K, NEW ss, NEW qs,
         HasRoom(f, O, A, L, G, K, ss, qs), p \in Keys \ (L \cup G \cup K),
         Closed(P), Pushes(O, P, p), ss = LIRS!s_size_, ss \in Nat \ {0},
         NEW t, t = Incoming(f, p)
  PROVE  IncomingTo(t, f, p, P, A, L, G, K)
<1> DEFINE C == A \ L
           J == L \cup {p}
           V == L \cup G
           u == Cardinality(V)
           r == [f EXCEPT !.type = LIRS!Put(@, p, "LIR")]
           x == LIRS!PushS(r, p)
           W == V \cup {p}
           y == IF f.s_ = <<>> THEN p ELSE Last(f.s_)
<1>0. /\ Shape(f, O, A, G, C, L, G, K, V, u)
      /\ L \subseteq A /\ A \subseteq L \cup G \cup K
      /\ Cardinality(L) <= ss /\ EndsLIR(f, L)
  BY DEF HasRoom
<1>1. Apart3(L, G, K) /\ A \subseteq Keys
  BY <1>0, ShapeSets, Zenon
<1>2. /\ p \in Keys \ A /\ p \notin K /\ L \subseteq Keys /\ L \in SUBSET Keys
      /\ A \ L \subseteq C /\ C \subseteq J \cup G \cup K /\ C \cap K \subseteq A
      /\ \A k \in L : k \notin K
  BY <1>0, <1>1 DEF Apart3
<1>3. t = [x EXCEPT !.valid = @ \cup {p}, !.used_size_ = @ + 1]
  BY Zenon DEF Incoming
<1> HIDE DEF C, V, u, W
<1>4. Shape(r, O, A, G, C, J, G, K, V, u) /\ r.s_ = f.s_
  <2>1. f = Lirs(f.s_, f.q_, f.hirs_, Types(L, G, K), V, u)
    BY <1>0 DEF Shape
  <2>2. f.type = Types(L, G, K)
    BY <2>1 DEF Lirs
  <2>3. LIRS!Put(f.type, p, "LIR") = Types(J, G, K) /\ Apart3(J, G, K)
    <3>1. LIRS!Put(f.type, p, "LIR") = Put(f.type, p, "LIR")
      BY LIRSOps
    <3>2. /\ Put(Types(L, G, K), p, "LIR") = Types(J, G, K)
          /\ Apart3(J, G, K)
      BY <1>1, TypePut
    <3> QED BY <2>2, <3>1, <3>2
  <2>4. r = Lirs(f.s_, f.q_, f.hirs_, Types(J, G, K), V, u)
    <3>2. r = [f EXCEPT !.type = LIRS!Put(f.type, p, "LIR")]
      OBVIOUS
    <3> HIDE DEF r, J
    <3>3. r = Lirs(f.s_, f.q_, f.hirs_, LIRS!Put(f.type, p, "LIR"), V, u)
      BY <2>1, <3>2, TypeEdit
    <3> QED BY <2>3, <3>3
  <2> HIDE DEF r, J
  <2> QED BY <1>0, <2>3, <2>4, ShapeOf
<1> HIDE DEF r, J
<1>5. Pushable(r, A, C, J, G, K)
  <2>1. r.s_ \in Seq(Keys) /\ Lists(r.s_, A)
    BY <1>4, ShapeStack, Zenon
  <2>2. Cardinality(L) <= LIRS!s_size_
    BY <1>0
  <2> QED BY <1>0, <1>2, <2>1, <2>2, PushableIs
<1>6. PushedTo(x, r, p, P, A, G, C, J, G, K, V, u)
  BY <1>0, <1>2, <1>4, <1>5, ShapePush
<1> HIDE DEF x
<1>7. PICK M \in SUBSET (C \cap K) :
        /\ Shape(x, P, (A \cup {p}) \ M, G, C \ M, J, G, K \ M, V, u)
        /\ LET z == IF r.s_ = <<>> THEN p ELSE Last(r.s_)
           IN z \notin M => x.s_ # <<>> /\ Last(x.s_) = z
  BY <1>6, Zenon DEF PushedTo
<1>8. x.s_ # <<>> /\ Last(x.s_) = y
  <2>1. y \notin M
    BY <1>0, <1>2 DEF EndsLIR
  <2> QED BY <1>4, <1>7, <2>1
<1> DEFINE B == (A \cup {p}) \ M
           D == C \ M
           T == K \ M
<1>9. Shape(x, P, B, G, D, J, G, T, V, u)
  BY <1>7
<1> HIDE DEF B, D, T, y
<1>10. Shape(t, P, B, G, D, J, G, T, W, u + 1) /\ t.s_ = x.s_
  <2>1. x = Lirs(x.s_, x.q_, x.hirs_, Types(J, G, T), V, u) /\ Apart3(J, G, T)
    BY <1>9 DEF Shape
  <2>2. t = Lirs(x.s_, x.q_, x.hirs_, Types(J, G, T), W, u + 1)
    <3>1. ASSUME NEW a, NEW c, NEW d, NEW e, NEW z, z = Lirs(a, c, d, e, V, u),
                 NEW w, w = [z EXCEPT !.valid = @ \cup {p}, !.used_size_ = @ + 1]
          PROVE  w = Lirs(a, c, d, e, W, u + 1)
      BY <3>1 DEF Lirs, W
    <3> QED BY <1>3, <2>1, <3>1, Zenon
  <2> QED BY <1>9, <2>1, <2>2, ShapeOf
<1>11. M \in SUBSET ((A \ L) \cap K)
  BY DEF C
<1>12. Shape(t, P, (A \cup {p}) \ M, G, (A \ L) \ M, L \cup {p}, G, K \ M,
             (L \cup G) \cup {p}, Cardinality(L \cup G) + 1)
  BY <1>10 DEF B, D, T, J, W, V, u, C
<1>13. t.s_ # <<>> /\ Last(t.s_) = IF f.s_ = <<>> THEN p ELSE Last(f.s_)
  BY <1>8, <1>10 DEF y
<1> QED BY <1>11, <1>12, <1>13, Zenon DEF IncomingTo

\* A page without a node enters: LIR while there is room for LIR pages.
Placed(t, p) ==
  IF t.used_size_ > LIRS!s_size_
  THEN LIRS!Ins(LIRS!PushQ([t EXCEPT !.type[p] = "HIR"], p), "hirs_", p)
  ELSE t

LEMMA LIRSPlace ==
  ASSUME NEW f, NEW O, NEW P, NEW p, NEW A, NEW L, NEW G, NEW K, NEW ss, NEW qs,
         HasRoom(f, O, A, L, G, K, ss, qs), p \in Keys \ (L \cup G \cup K),
         Closed(P), Pushes(O, P, p), ss = LIRS!s_size_, ss \in Nat \ {0}, qs \in Nat,
         NEW t, t = Incoming(f, p), NEW x, x = Placed(t, p)
  PROVE  LIRSDone(x, P, (L \cup G) \cup {p}, ss, qs)
<1> DEFINE C == A \ L
           J == L \cup {p}
           V == L \cup G
           u == Cardinality(V)
           W == V \cup {p}
           y == IF f.s_ = <<>> THEN p ELSE Last(f.s_)
<1>0. /\ Shape(f, O, A, G, C, L, G, K, V, u)
      /\ L \subseteq A /\ A \subseteq L \cup G \cup K
      /\ Cardinality(L) <= ss /\ EndsLIR(f, L)
      /\ Cardinality(G) + 1 <= qs
      /\ G # {} => Cardinality(L) = ss
      /\ K # {} => Cardinality(L) = ss /\ Cardinality(G) + 1 = qs
  BY DEF HasRoom
<1>1. Apart3(L, G, K) /\ A \subseteq Keys
  BY <1>0, ShapeSets, Zenon
<1>2. /\ p \in Keys \ A /\ p \notin K /\ L \in SUBSET Keys /\ p \in Keys \ V
      /\ G \in SUBSET Keys /\ L \cap G = {} /\ p \notin L /\ p \notin G
      /\ V \in SUBSET Keys /\ \A k \in L : k \notin K
  BY <1>0, <1>1 DEF Apart3
<1>3. /\ u = Cardinality(L) + Cardinality(G)
      /\ Cardinality(L) \in Nat /\ Cardinality(G) \in Nat
      /\ Cardinality(W) = u + 1
      /\ Cardinality(J) = Cardinality(L) + 1
      /\ Cardinality(G \cup {p}) = Cardinality(G) + 1
  <2>1. /\ Cardinality(V) = Cardinality(L) + Cardinality(G)
        /\ Cardinality(L) \in Nat /\ Cardinality(G) \in Nat
    BY <1>2, SizeJoin
  <2> HIDE DEF V
  <2>2. Cardinality(V \cup {p}) = Cardinality(V) + 1
    BY <1>2, KeysAreFinite, SizeWith
  <2>3. Cardinality(L \cup {p}) = Cardinality(L) + 1
    BY <1>2, KeysAreFinite, SizeWith
  <2>4. Cardinality(G \cup {p}) = Cardinality(G) + 1
    BY <1>2, KeysAreFinite, SizeWith
  <2> QED BY <2>1, <2>2, <2>3, <2>4
<1>4. IncomingTo(t, f, p, P, A, L, G, K)
  BY LIRSEnter
<1>5. PICK M \in SUBSET (C \cap K) :
        /\ Shape(t, P, (A \cup {p}) \ M, G, C \ M, J, G, K \ M, W, u + 1)
        /\ t.s_ # <<>> /\ Last(t.s_) = y
  BY <1>4, Zenon DEF IncomingTo
<1> DEFINE B == (A \cup {p}) \ M
           D == C \ M
           T == K \ M
           I == G \cup {p}
<1>6. /\ p \in B /\ p \notin M /\ L \subseteq B /\ J \subseteq B
      /\ B \subseteq J \cup G \cup T /\ B \subseteq L \cup I \cup T
      /\ D = B \ J /\ D \cup {p} = B \ L /\ p \in Keys \ D
      /\ W = J \cup G /\ W = L \cup I /\ J \ {p} = L /\ T \ {p} = T
      /\ p \in J \cup G \cup T /\ p \in Keys \ G
  BY <1>0, <1>2
<1>7. L # {} => f.s_ # <<>>
  <2>1. f.s_ \in Seq(Keys) /\ Lists(f.s_, A)
    BY <1>0, ShapeStack, Zenon
  <2> QED BY <1>0, <2>1, ListsEmpty
<1>8. Shape(t, P, B, G, D, J, G, T, W, u + 1)
  BY <1>5
<1>9. T # {} => K # {}
  OBVIOUS
<1>10. t.used_size_ = u + 1
  BY <1>8 DEF Shape, Lirs
<1>11. y \in J /\ (f.s_ # <<>> => y \in L)
  BY <1>0 DEF EndsLIR
<1> HIDE DEF B, C, D, T, I, J, V, u, W, y
<1>12. CASE u + 1 > ss
  <2> DEFINE h == [t EXCEPT !.type[p] = "HIR"]
             d == LIRS!PushQ(h, p)
  <2>1. x = LIRS!Ins(d, "hirs_", p)
    BY <1>10, <1>12, Zenon DEF Placed
  <2>2. h = Retype(t, p, "HIR")
    BY Zenon DEF Retype
  <2>3. Shape(h, P, B, G, D, L, I, T, W, u + 1) /\ h.s_ = t.s_
    <3> HIDE DEF h
    <3>0. p \in J \cup G \cup T
      BY <1>6
    <3>1. /\ Shape(h, P, B, G, D, J \ {p}, G \cup {p}, T \ {p}, W, u + 1)
          /\ h.s_ = t.s_
      BY <1>8, <2>2, <3>0, ToHIR
    <3> QED BY <1>6, <3>1 DEF I
  <2>4. d = LIRS!Ins(h, "q_", p)
    BY Zenon DEF LIRS!PushQ
  <2> HIDE DEF h, d
  <2>5. Shape(d, P, B, I, D, L, I, T, W, u + 1) /\ d.s_ = t.s_
    <3>1. Shape(d, P, B, G \cup {p}, D, L, I, T, W, u + 1) /\ d.s_ = h.s_
      BY <1>6, <2>3, <2>4, InsQ
    <3> QED BY <2>3, <3>1 DEF I
  <2>6. Shape(x, P, B, I, D \cup {p}, L, I, T, W, u + 1) /\ x.s_ = t.s_
    <3>1. /\ Shape(LIRS!Ins(d, "hirs_", p), P, B, I, D \cup {p}, L, I, T, W, u + 1)
          /\ LIRS!Ins(d, "hirs_", p).s_ = d.s_
      BY <1>6, <2>5, InsH
    <3> QED BY <2>1, <2>5, <3>1
  <2>7. Cardinality(L) = ss
    <3>1. CASE G = {}
      <4>1. Cardinality(G) = 0
        BY <3>1, FS_EmptySet
      <4> QED BY <1>0, <1>3, <1>12, <4>1
    <3>2. CASE G # {}
      BY <1>0, <3>2
    <3> QED BY <3>1, <3>2
  <2>8. Rooms(L, I, T, ss, qs)
    <3>1. Cardinality(I) = Cardinality(G) + 1
      BY <1>3 DEF I
    <3> QED BY <1>0, <1>3, <1>9, <2>7, <3>1 DEF Rooms
  <2>9. EndsLIR(x, L)
    <3>1. L # {}
      BY <2>7, FS_EmptySet
    <3> QED BY <1>5, <1>7, <1>11, <2>6, <3>1 DEF EndsLIR
  <2>10. Shape(x, P, B, I, B \ L, L, I, T, L \cup I, Cardinality(L \cup I))
    BY <1>3, <1>6, <2>6
  <2>11. LIRSHas(x, P, B, L, I, T, ss, qs)
    BY <1>6, <2>8, <2>9, <2>10, Zenon DEF LIRSHas
  <2>12. LIRSKept(x, P, ss, qs)
    BY <2>11, Zenon DEF LIRSKept
  <2>13. x.valid = W /\ x.ub = FALSE
    BY <2>6 DEF Shape, Lirs
  <2> QED BY <2>12, <2>13 DEF LIRSDone, W, V
<1>13. CASE ~(u + 1 > ss)
  <2>1. x = t
    BY <1>10, <1>13, Zenon DEF Placed
  <2>2. Cardinality(L) + 1 <= ss
    BY <1>3, <1>13
  <2>3. G = {} /\ K = {}
    BY <1>0, <1>3, <2>2
  <2>4. Rooms(J, G, T, ss, qs)
    <3>1. T = {} /\ Cardinality(J) = Cardinality(L) + 1
      BY <1>3, <1>9, <2>3 DEF J
    <3> QED BY <1>0, <1>3, <2>2, <2>3, <3>1 DEF Rooms
  <2>5. EndsLIR(x, J)
    BY <1>5, <1>11, <2>1 DEF EndsLIR
  <2>6. Shape(x, P, B, G, B \ J, J, G, T, J \cup G, Cardinality(J \cup G))
    BY <1>3, <1>6, <1>8, <2>1
  <2>7. LIRSHas(x, P, B, J, G, T, ss, qs)
    BY <1>6, <2>4, <2>5, <2>6, Zenon DEF LIRSHas
  <2>8. LIRSKept(x, P, ss, qs)
    BY <2>7, Zenon DEF LIRSKept
  <2>9. x.valid = W /\ x.ub = FALSE
    BY <1>8, <2>1 DEF Shape, Lirs
  <2> QED BY <2>8, <2>9 DEF LIRSDone, W, V
<1>14. u \in Nat /\ ss \in Nat
  BY <1>3
<1> QED BY <1>12, <1>13

\* What MissNew makes room in
Making(l) ==
  IF l.used_size_ >= buffer_size_ \/ Len(l.q_) >= LIRS!q_size_
  THEN LIRS!FreeOne(l) ELSE l

\* The outcome of an access of p, with V resident before it
LIRSTurned(x, P, p, V, ss, qs) ==
  \E S : Demand(V, S, p) /\ LIRSDone(x, P, S, ss, qs)

\* How many pages are resident
LEMMA LIRSCount ==
  ASSUME NEW L, NEW H, NEW N, NEW ss \in Nat, NEW qs \in Nat,
         Rooms(L, H, N, ss, qs), Apart3(L, H, N), ss + qs = buffer_size_
  PROVE  /\ Cardinality(L \cup H) = Cardinality(L) + Cardinality(H)
         /\ Cardinality(L) \in Nat /\ Cardinality(H) \in Nat
         /\ Cardinality(L) <= ss /\ Cardinality(H) <= qs
         /\ Fits(L \cup H)
<1>1. L \in SUBSET Keys /\ H \in SUBSET Keys /\ L \cap H = {}
  BY DEF Apart3
<1>2. /\ Cardinality(L \cup H) = Cardinality(L) + Cardinality(H)
      /\ Cardinality(L) \in Nat /\ Cardinality(H) \in Nat
  BY <1>1, SizeJoin
<1>3. Cardinality(L) <= ss /\ Cardinality(H) <= qs
  BY DEF Rooms
<1> DEFINE V == L \cup H
<1>4. V \subseteq Keys
  BY <1>1
<1> HIDE DEF V
<1>5. Cardinality(V) <= buffer_size_
  BY <1>2, <1>3 DEF V
<1>6. Fits(V)
  BY <1>4, <1>5 DEF Fits
<1> QED BY <1>2, <1>3, <1>6 DEF V

LEMMA LIRSRoom ==
  ASSUME NEW l, NEW O, NEW P, NEW p, NEW A, NEW L, NEW H, NEW N, NEW ss, NEW qs,
         LIRSReady(l, O, P, p, A, L, H, N, ss, qs), qs = LIRS!q_size_,
         p \in Keys \ (L \cup H \cup N)
  PROVE  LIRSTurned(Placed(Incoming(Making(l), p), p), P, p, L \cup H, ss, qs)
<1> DEFINE C == A \ L
           V == L \cup H
           u == Cardinality(V)
           f == Making(l)
           t == Incoming(f, p)
           x == Placed(t, p)
<1>0. /\ Shape(l, O, A, H, C, L, H, N, V, u) /\ Closed(P) /\ Pushes(O, P, p)
      /\ L \subseteq A /\ A \subseteq L \cup H \cup N
      /\ Rooms(L, H, N, ss, qs) /\ EndsLIR(l, L)
      /\ ss = LIRS!s_size_ /\ ss \in Nat \ {0} /\ qs \in Nat \ {0}
      /\ ss + qs = buffer_size_
  BY DEF LIRSReady, LIRSHas, Divided
<1>1. Apart3(L, H, N)
  BY <1>0, ShapeSets, Zenon
<1>2. /\ u = Cardinality(L) + Cardinality(H)
      /\ Cardinality(L) \in Nat /\ Cardinality(H) \in Nat
      /\ Cardinality(L) <= ss /\ Cardinality(H) <= qs
  BY <1>0, <1>1, LIRSCount
<1>3. l.used_size_ = u /\ Len(l.q_) = Cardinality(H)
  <2>1. l.used_size_ = u
    BY <1>0 DEF Shape, Lirs
  <2>2. l.q_ \in Seq(Keys) /\ Lists(l.q_, H)
    BY <1>0 DEF Shape
  <2>3. Len(l.q_) = Cardinality(H)
    BY <2>2, ListsLength
  <2> QED BY <2>1, <2>3
<1>4. ASSUME NEW G, NEW K, HasRoom(f, O, A, L, G, K, ss, qs),
             p \in Keys \ (L \cup G \cup K)
      PROVE  LIRSDone(x, P, (L \cup G) \cup {p}, ss, qs)
  <2> HIDE DEF f
  <2>1. qs \in Nat
    BY <1>0
  <2> HIDE DEF t, x
  <2>2. t = Incoming(f, p) /\ x = Placed(t, p)
    BY DEF t, x
  <2> QED BY <1>0, <1>4, <2>1, <2>2, LIRSPlace
<1>5. CASE ~(l.used_size_ >= buffer_size_ \/ Len(l.q_) >= LIRS!q_size_)
  <2>1. f = l
    BY <1>5, Zenon DEF Making
  <2>2. u < buffer_size_ /\ Cardinality(H) < qs
    <3> HIDE DEF u
    <3> QED BY <1>0, <1>2, <1>3, <1>5
  <2>3. N = {}
    BY <1>0, <1>2, <2>2 DEF Rooms
  <2>4. HasRoom(f, O, A, L, H, N, ss, qs)
    <3> HIDE DEF f
    <3>1. Cardinality(H) + 1 <= qs
      BY <1>0, <1>2, <2>2
    <3>2. H # {} => Cardinality(L) = ss
      BY <1>0 DEF Rooms
    <3> QED BY <1>0, <1>2, <2>1, <2>3, <3>1, <3>2 DEF HasRoom
  <2>5. LIRSDone(x, P, V \cup {p}, ss, qs)
    <3> HIDE DEF f, x
    <3> QED BY <1>4, <2>4
  <2>6. Demand(V, V \cup {p}, p)
    <3>1. p \notin V
      OBVIOUS
    <3> HIDE DEF V
    <3> QED BY <2>2, <3>1 DEF Demand
  <2> HIDE DEF x, V
  <2>7. LIRSTurned(x, P, p, V, ss, qs)
    BY <2>5, <2>6, Zenon DEF LIRSTurned
  <2> QED BY <2>7 DEF x, V
<1>6. CASE l.used_size_ >= buffer_size_ \/ Len(l.q_) >= LIRS!q_size_
  <2>1. f = LIRS!FreeOne(l)
    BY <1>6, Zenon DEF Making
  <2>2. Cardinality(L) = ss /\ Cardinality(H) = qs /\ u = buffer_size_ /\ H # {}
    <3> HIDE DEF u, V
    <3>1. CASE l.used_size_ >= buffer_size_
      <4>1. Cardinality(L) = ss /\ Cardinality(H) = qs /\ u = buffer_size_
        BY <1>0, <1>2, <1>3, <3>1
      <4> QED BY <1>0, <4>1, FS_EmptySet
    <3>2. CASE Len(l.q_) >= LIRS!q_size_
      <4>1. Cardinality(H) = qs
        BY <1>0, <1>2, <1>3, <3>2
      <4>2. H # {}
        BY <1>0, <4>1, FS_EmptySet
      <4>3. Cardinality(L) = ss
        BY <1>0, <4>2 DEF Rooms
      <4> QED BY <1>0, <1>2, <4>1, <4>2, <4>3
    <3> QED BY <1>6, <3>1, <3>2
  <2>3. FreedTo(f, l, O, A, H, C, L, H, N, V, u)
    <3>1. H \subseteq H /\ H \subseteq V
      OBVIOUS
    <3> HIDE DEF C, V, u, f
    <3> QED BY <1>0, <2>1, <2>2, <3>1, ShapeFree
  <2> HIDE DEF f
  <2>4. PICK v \in H :
          /\ Shape(f, O, A, H \ {v}, C, L, H \ {v},
                   IF v \in A THEN N \cup {v} ELSE N, V \ {v}, u - 1)
          /\ f.s_ = l.s_
    BY <2>3, Zenon DEF FreedTo
  <2> DEFINE G == H \ {v}
             K == N \cup ({v} \cap A)
             W == L \cup G
  <2>5. /\ (IF v \in A THEN N \cup {v} ELSE N) = K
        /\ A \subseteq L \cup G \cup K /\ V \ {v} = W
        /\ p \in Keys \ (L \cup G \cup K) /\ v \in V /\ p \notin V
    BY <1>0, <1>1 DEF Apart3
  <2>6. Cardinality(G) + 1 = qs /\ Cardinality(W) = u - 1
    <3>1. V \in SUBSET Keys /\ H \in SUBSET Keys
      BY <1>1 DEF Apart3
    <3>2. Cardinality(H \ {v}) = Cardinality(H) - 1
      BY <3>1, KeysAreFinite, SizeWith
    <3> HIDE DEF V
    <3>3. Cardinality(V \ {v}) = Cardinality(V) - 1
      BY <2>5, <3>1, KeysAreFinite, SizeWith
    <3>4. V \ {v} = W /\ Cardinality(H) \in Nat /\ Cardinality(H) = qs
      BY <1>2, <2>2, <2>5
    <3>5. Cardinality(G) + 1 = qs
      BY <1>0, <3>2, <3>4
    <3> HIDE DEF G, W
    <3>6. Cardinality(W) = u - 1
      BY <3>3, <3>4
    <3> QED BY <3>5, <3>6
  <2>7. HasRoom(f, O, A, L, G, K, ss, qs)
    <3>1. Shape(f, O, A, G, A \ L, L, G, K, W, Cardinality(W))
      BY <2>4, <2>5, <2>6
    <3>2. EndsLIR(f, L)
      BY <1>0, <2>4 DEF EndsLIR
    <3>3. Cardinality(L) <= ss /\ Cardinality(L) = ss /\ Cardinality(G) + 1 <= qs
      <4> HIDE DEF G
      <4> QED BY <1>0, <1>2, <2>2, <2>6
    <3>4. Shape(f, O, A, G, A \ L, L, G, K, L \cup G, Cardinality(L \cup G))
      BY <3>1
    <3> HIDE DEF G, K, W
    <3> QED BY <1>0, <2>5, <2>6, <3>2, <3>3, <3>4, Zenon DEF HasRoom
  <2>8. LIRSDone(x, P, W \cup {p}, ss, qs)
    <3> HIDE DEF G, K, x
    <3> QED BY <1>4, <2>5, <2>7
  <2>9. Demand(V, W \cup {p}, p)
    <3> HIDE DEF V, W
    <3> QED BY <2>2, <2>5 DEF Demand, u
  <2> HIDE DEF x, V, W
  <2>10. LIRSTurned(x, P, p, V, ss, qs)
    BY <2>8, <2>9, Zenon DEF LIRSTurned
  <2> QED BY <2>10 DEF x, V, f
<1> QED BY <1>5, <1>6

-----------------------------------------------------------------------------
(* LIRS: an access *)

\* The lists of pages in the order of their last accesses
RecentLists == { q \in Seq(Keys) : Recent(q) }

LEMMA RecentClosed == Closed(RecentLists)
<1>1. ASSUME NEW q \in RecentLists, NEW i \in 1 .. Len(q)
      PROVE  RemoveAt(q, i) \in RecentLists
  <2>1. q \in Seq(Keys) /\ Recent(q)
    BY DEF RecentLists
  <2>2. RemoveAt(q, i) \in Seq(Keys)
    BY <2>1, RemoveAtElements
  <2> QED BY <2>1, <2>2, RecentRemove DEF RecentLists
<1>2. RecentLists \subseteq Seq(Keys)
  BY DEF RecentLists
<1> QED BY <1>1, <1>2 DEF Closed

LEMMA RecentClosedNext == Closed(RecentLists)'
<1> QED BY RecentClosed, PTL

LEMMA RecentPushes ==
  ASSUME Turn, NEW k, k = key_
  PROVE  Closed(RecentLists') /\ Pushes(RecentLists, RecentLists', k)
<1>1. Closed(RecentLists')
  BY RecentClosedNext DEF Closed
<1>2. k \in Keys
  BY TurnFacts
<1>3. ASSUME NEW q \in RecentLists, k \notin ToSet(q)
      PROVE  <<k>> \o q \in RecentLists'
  <2>1. q \in Seq(Keys) /\ Recent(q)
    BY DEF RecentLists
  <2>2. Recent(<<k>> \o q)'
    BY <1>3, <2>1, RecentFront
  <2> DEFINE r == <<k>> \o q
  <2>3. r \in Seq(Keys) /\ r' = r
    BY <1>2, <2>1
  <2>4. Recent(r)'
    BY <2>2
  <2> HIDE DEF r
  <2>5. r \in RecentLists'
    BY <2>3, <2>4 DEF RecentLists
  <2> QED BY <2>5 DEF r
<1> QED BY <1>1, <1>3 DEF Pushes

\* The invariant of LIRS: with room for LIR pages, its lists are those of a
\* division of the buffer; without, the first access failed.
LIRSInv ==
  IF LIRS!s_size_ = 0 THEN cache \in {LIRS!New, LIRS!Fail(LIRS!New)}
  ELSE LIRSKept(cache, RecentLists, LIRS!s_size_, LIRS!q_size_)

LEMMA KeptPrime ==
  ASSUME NEW ss, NEW qs, ss' = ss, qs' = qs,
         LIRSKept(cache', RecentLists', ss, qs)
  PROVE  LIRSKept(cache, RecentLists, ss, qs)'
BY DEF LIRSKept, LIRSHas, Shape, Rooms, EndsLIR, Lirs, Closed, Lists, Types,
       Apart3

\* The outcome without failure
LEMMA ResultIs ==
  ASSUME NEW x, x.ub = FALSE, LIRS!Result(x)
  PROVE  cache' = x
BY DEF LIRS!Result

\* From a state with room for LIR pages
LEMMA LIRSStep ==
  ASSUME Turn, NEW k, k = key_, LIRS!access(k),
         NEW P, NEW ss, NEW qs, ss = LIRS!s_size_, qs = LIRS!q_size_,
         NEW O, NEW A, NEW L, NEW H, NEW N,
         LIRSReady(cache, O, P, k, A, L, H, N, ss, qs)
  PROVE  LIRSTurned(cache', P, k, L \cup H, ss, qs) /\ Counts(k \in L \cup H)
<1> DEFINE V == L \cup H
           C == A \ L
           u == Cardinality(V)
<1>0. /\ Shape(cache, O, A, H, C, L, H, N, V, u)
      /\ L \subseteq A /\ A \subseteq L \cup H \cup N
      /\ Rooms(L, H, N, ss, qs) /\ ss \in Nat \ {0} /\ qs \in Nat \ {0}
      /\ ss + qs = buffer_size_
  BY DEF LIRSReady, LIRSHas, Divided
<1>1. Apart3(L, H, N)
  BY <1>0, ShapeSets, Zenon
<1>2. /\ DOMAIN cache.type = L \cup H \cup N
      /\ \A j \in L \cup H \cup N :
           cache.type[j] = IF j \in L THEN "LIR" ELSE IF j \in H THEN "HIR" ELSE "NHIR"
      /\ ToSet(cache.s_) = A
  <2>1. cache.type = Types(L, H, N)
    BY <1>0 DEF Shape, Lirs
  <2>2. Lists(cache.s_, A)
    BY <1>0 DEF Shape
  <2> QED BY <2>1, <2>2 DEF Types, Lists
<1>3. LIRS!Has(cache.s_, k) <=> k \in A
  BY <1>2, LIRSOps
<1>4. k \in Keys
  BY TurnFacts
<1>5. ASSUME NEW x, NEW S, LIRSDone(x, P, S, ss, qs), Demand(V, S, k),
             LIRS!Result(x)
      PROVE  LIRSTurned(cache', P, k, V, ss, qs)
  <2>1. cache' = x
    BY <1>5, ResultIs DEF LIRSDone
  <2> HIDE DEF V
  <2> QED BY <1>5, <2>1, Zenon DEF LIRSTurned
<1>6. CASE LIRS!HitLIR(k)
  <2>1. k \in L /\ Counts(k \in V)
    BY <1>1, <1>2, <1>6 DEF LIRS!HitLIR, LIRS!CountHit, Counts, Apart3
  <2>2. LIRSDone(LIRS!Pruning(LIRS!MoveTopS(cache, k)), P, V, ss, qs)
    BY <2>1, LIRSTouch
  <2>3. Demand(V, V, k)
    BY <2>1 DEF Demand
  <2>4. LIRS!Result(LIRS!Pruning(LIRS!MoveTopS(cache, k)))
    BY <1>6 DEF LIRS!HitLIR
  <2> QED BY <1>5, <2>1, <2>2, <2>3, <2>4
<1>7. CASE LIRS!HitHIRInStack(k)
  <2> DEFINE e == Retype(cache, k, "LIR")
             x == LIRS!Pruning(LIRS!Del(LIRS!Bottom(
                    LIRS!Del(LIRS!MoveTopS(e, k), "q_", k)), "hirs_", k))
  <2>1. k \in H /\ k \in A /\ Counts(k \in V)
    BY <1>1, <1>2, <1>3, <1>7 DEF LIRS!HitHIRInStack, LIRS!CountHit, Counts, Apart3
  <2>2. LIRS!Result(x)
    BY <1>7, Zenon DEF LIRS!HitHIRInStack, Retype
  <2>3. LIRSDone(x, P, V, ss, qs)
    BY <2>1, LIRSRaise
  <2>4. Demand(V, V, k)
    BY <2>1 DEF Demand
  <2> HIDE DEF x
  <2> QED BY <1>5, <2>1, <2>2, <2>3, <2>4
<1>8. CASE LIRS!HitHIR(k)
  <2> DEFINE x == LIRS!Pruning(LIRS!Ins(LIRS!MoveTopQ(LIRS!PushS(cache, k), k),
                                        "hirs_", k))
  <2>1. k \in H /\ k \notin A /\ Counts(k \in V)
    BY <1>1, <1>2, <1>3, <1>8 DEF LIRS!HitHIR, LIRS!CountHit, Counts, Apart3
  <2>2. LIRS!Result(x)
    BY <1>8, Zenon DEF LIRS!HitHIR
  <2>3. LIRSDone(x, P, V, ss, qs)
    BY <2>1, LIRSTop
  <2>4. Demand(V, V, k)
    BY <2>1 DEF Demand
  <2> HIDE DEF x
  <2> QED BY <1>5, <2>1, <2>2, <2>3, <2>4
<1>9. ASSUME N # {}, k \notin V, NEW v \in V
      PROVE  Demand(V, (V \ {v}) \cup {k}, k)
  <2>1. Cardinality(H) = qs /\ Cardinality(H) # 0
    BY <1>0, <1>9 DEF Rooms
  <2>2. Cardinality(L) = ss
    BY <1>0, <2>1, FS_EmptySet DEF Rooms
  <2>3. Cardinality(V) = Cardinality(L) + Cardinality(H)
    BY <1>0, <1>1, LIRSCount
  <2> HIDE DEF V
  <2>4. Cardinality(V) = buffer_size_
    BY <1>0, <2>1, <2>2, <2>3
  <2> QED BY <1>9, <2>4 DEF Demand
<1>10. CASE LIRS!MissNHIRInStack(k)
  <2> DEFINE e == Rejoin(cache, k, "LIR")
             x == LIRS!Pruning(LIRS!Del(LIRS!Bottom(LIRS!MoveTopS(e, k)),
                                        "hirs_", k))
  <2>1. k \in N /\ k \in A /\ k \notin V /\ Counts(k \in V)
    BY <1>1, <1>2, <1>3, <1>10
       DEF LIRS!MissNHIRInStack, LIRS!CountMiss, Counts, Apart3
  <2>2. LIRS!Result(x)
    BY <1>10, Zenon DEF LIRS!MissNHIRInStack, LIRS!Back, Rejoin
  <2>3. PICK v \in V : LIRSDone(x, P, (V \ {v}) \cup {k}, ss, qs)
    BY <2>1, LIRSReturn, Zenon
  <2>4. Demand(V, (V \ {v}) \cup {k}, k)
    BY <1>9, <2>1
  <2> HIDE DEF x, V
  <2>5. LIRSTurned(cache', P, k, V, ss, qs)
    BY <1>5, <2>2, <2>3, <2>4
  <2> QED BY <2>1, <2>5 DEF V
<1>11. CASE LIRS!MissNHIR(k)
  <2> DEFINE e == Rejoin(cache, k, "HIR")
             x == LIRS!Pruning(LIRS!Ins(LIRS!PushQ(LIRS!PushS(e, k), k),
                                        "hirs_", k))
  <2>1. k \in N /\ k \notin A /\ k \notin V /\ Counts(k \in V)
    BY <1>1, <1>2, <1>3, <1>11
       DEF LIRS!MissNHIR, LIRS!CountMiss, Counts, Apart3
  <2>2. LIRS!Result(x)
    BY <1>11, Zenon DEF LIRS!MissNHIR, LIRS!Back, Rejoin
  <2>3. PICK v \in V : LIRSDone(x, P, (V \ {v}) \cup {k}, ss, qs)
    BY <2>1, LIRSReenter, Zenon
  <2>4. Demand(V, (V \ {v}) \cup {k}, k)
    BY <1>9, <2>1
  <2> HIDE DEF x, V
  <2>5. LIRSTurned(cache', P, k, V, ss, qs)
    BY <1>5, <2>2, <2>3, <2>4
  <2> QED BY <2>1, <2>5 DEF V
<1>12. CASE LIRS!MissNew(k)
  <2> DEFINE x == Placed(Incoming(Making(cache), k), k)
  <2>1. k \in Keys \ (L \cup H \cup N) /\ Counts(k \in V)
    BY <1>2, <1>4, <1>12 DEF LIRS!MissNew, LIRS!CountMiss, Counts
  <2>2. LIRS!Result(x)
    BY <1>12, Zenon DEF LIRS!MissNew, Placed, Incoming, Making
  <2>3. LIRSTurned(x, P, k, V, ss, qs)
    BY <2>1, LIRSRoom
  <2> HIDE DEF x, V
  <2>4. PICK S : Demand(V, S, k) /\ LIRSDone(x, P, S, ss, qs)
    BY <2>3, Zenon DEF LIRSTurned
  <2>5. LIRSTurned(cache', P, k, V, ss, qs)
    BY <1>5, <2>2, <2>4
  <2> QED BY <2>1, <2>5 DEF V
<1> QED BY <1>6, <1>7, <1>8, <1>10, <1>11, <1>12 DEF LIRS!access

\* An access that fails leaves a cache that is empty empty.
Turned(R, S, k) == Demand(R, S, k) \/ (R = {} /\ S = {})

\* What failed stays failed.
LEMMA StaysFailed ==
  ASSUME NEW t, "ub" \in DOMAIN t, t.ub = TRUE, NEW k, NEW T
  PROVE  LIRS!Ins(LIRS!PushQ(Retype(t, k, T), k), "hirs_", k).ub = TRUE
<1> DEFINE r == Retype(t, k, T)
<1>1. "ub" \in DOMAIN r /\ r.ub = TRUE
  BY DEF Retype
<1> HIDE DEF r
<1>2. ASSUME NEW x, NEW e, "ub" \in DOMAIN x, x.ub = TRUE
      PROVE  /\ "ub" \in DOMAIN [x EXCEPT !["q_"] = e]
             /\ [x EXCEPT !["q_"] = e].ub = TRUE
             /\ [x EXCEPT !["hirs_"] = e].ub = TRUE
  BY <1>2
<1> DEFINE y == LIRS!PushQ(r, k)
<1>3. y = [r EXCEPT !["q_"] = <<k>> \o r["q_"]]
  BY Zenon DEF LIRS!PushQ, LIRS!Ins
<1>4. "ub" \in DOMAIN y /\ y.ub = TRUE
  BY <1>1, <1>2, <1>3
<1> HIDE DEF y
<1>5. LIRS!Ins(y, "hirs_", k) = [y EXCEPT !["hirs_"] = <<k>> \o y["hirs_"]]
  BY Zenon DEF LIRS!Ins
<1>6. LIRS!Ins(y, "hirs_", k).ub = TRUE
  BY <1>2, <1>4, <1>5
<1> QED BY <1>6 DEF y, r

\* With no room for LIR pages, the first access fails.
LEMMA OnePage ==
  ASSUME Turn, NEW k, k = key_, LIRSInv, LIRS!access(k), LIRS!s_size_ = 0
  PROVE  /\ cache' = LIRS!Fail(LIRS!New) /\ cache.valid = {} /\ cache'.valid = {}
         /\ Counts(k \in {})
<1>1. /\ buffer_size_ \in Nat \ {0} /\ LIRS!q_size_ \in Nat \ {0}
  BY TurnFacts, LIRSSizes
<1>2. cache = LIRS!New
  <2>1. LIRS!Fail(LIRS!New).ub = TRUE
    BY DEF LIRS!Fail, LIRS!New
  <2>2. ~cache.ub
    BY DEF LIRS!access
  <2> QED BY <2>1, <2>2 DEF LIRSInv
<1>3. cache = [s_ |-> <<>>, q_ |-> <<>>, hirs_ |-> <<>>, type |-> LIRS!NoEntries,
               valid |-> {}, used_size_ |-> 0, ub |-> FALSE]
  BY <1>2 DEF LIRS!New
<1>4. DOMAIN cache.type = {}
  BY <1>3 DEF LIRS!NoEntries
<1>5. LIRS!MissNew(k)
  BY <1>4 DEF LIRS!access, LIRS!HitLIR, LIRS!HitHIRInStack, LIRS!HitHIR,
              LIRS!MissNHIRInStack, LIRS!MissNHIR
<1>6. Making(cache) = cache
  BY <1>1, <1>3 DEF Making
<1> DEFINE r == [cache EXCEPT !.type = LIRS!Put(@, k, "LIR")]
           s == LIRS!PushS(r, k)
           t == Incoming(Making(cache), k)
           x == Placed(t, k)
<1>7. LIRS!Result(x)
  BY <1>5, Zenon DEF LIRS!MissNew, Placed, Incoming, Making
<1>8. "ub" \in DOMAIN s /\ s.ub = TRUE
  <2> DEFINE w == LIRS!Ins(r, "s_", k)
  <2>1. r = Lirs(<<>>, <<>>, <<>>, LIRS!Put(cache.type, k, "LIR"), {}, 0)
    <3>1. cache = Lirs(<<>>, <<>>, <<>>, LIRS!NoEntries, {}, 0)
      BY <1>3 DEF Lirs
    <3>2. r = [cache EXCEPT !.type = LIRS!Put(cache.type, k, "LIR")]
      OBVIOUS
    <3> HIDE DEF r
    <3> QED BY <3>1, <3>2, TypeEdit
  <2>2. w = [r EXCEPT !["s_"] = <<k>> \o r["s_"]]
    BY Zenon DEF LIRS!Ins
  <2> HIDE DEF r
  <2>3. "ub" \in DOMAIN w /\ w.hirs_ = <<>> /\ Len(w.s_) = 1
    BY <2>1, <2>2 DEF Lirs
  <2>4. limit_ratio_ * LIRS!s_size_ = 0
    <3>1. limit_ratio_ \in Nat
      BY ProtoAssumption
    <3>2. \A y \in Nat : y * 0 = 0
      OBVIOUS
    <3> QED BY <3>1, <3>2
  <2>5. s = IF Len(w.s_) < limit_ratio_ * LIRS!s_size_ THEN w
            ELSE IF w.hirs_ = <<>> \/ LIRS!Last(w.hirs_) \notin DOMAIN w.type
                 THEN LIRS!Fail(w)
            ELSE IF w.type[LIRS!Last(w.hirs_)] # "NHIR" THEN w
            ELSE [LIRS!Del(LIRS!Del(w, "s_", LIRS!Last(w.hirs_)), "hirs_",
                           LIRS!Last(w.hirs_))
                    EXCEPT !.type = LIRS!Drop(@, LIRS!Last(w.hirs_))]
    BY Zenon DEF LIRS!PushS
  <2> HIDE DEF w
  <2>6. s = LIRS!Fail(w)
    <3>1. ~(Len(w.s_) < limit_ratio_ * LIRS!s_size_)
      BY <2>3, <2>4
    <3> QED BY <2>3, <2>5, <3>1
  <2>7. s = [w EXCEPT !.ub = TRUE]
    BY <2>6 DEF LIRS!Fail
  <2> QED BY <2>3, <2>7
<1>9. t = [s EXCEPT !.valid = s.valid \cup {k}, !.used_size_ = s.used_size_ + 1]
  BY <1>6, Zenon DEF Incoming
<1> HIDE DEF s, r
<1>10. x.ub = TRUE
  <2> DEFINE y == LIRS!Ins(LIRS!PushQ(Retype(t, k, "HIR"), k), "hirs_", k)
  <2> HIDE DEF t
  <2>1. "ub" \in DOMAIN t /\ t.ub = TRUE
    BY <1>8, <1>9
  <2>2. y.ub = TRUE
    BY <2>1, StaysFailed
  <2>3. x = t \/ x = y
    BY Zenon DEF Placed, Retype
  <2> HIDE DEF x, y
  <2> QED BY <2>1, <2>2, <2>3
<1> HIDE DEF x, t
<1>11. cache' = LIRS!Fail(cache)
  BY <1>7, <1>10 DEF LIRS!Result
<1>12. cache' = LIRS!Fail(LIRS!New)
  BY <1>2, <1>11
<1>13. LIRS!Fail(LIRS!New).valid = {}
  BY DEF LIRS!Fail, LIRS!New
<1>14. Counts(k \in {})
  BY <1>5 DEF LIRS!MissNew, LIRS!CountMiss, Counts
<1> QED BY <1>3, <1>12, <1>13, <1>14

LEMMA LIRSTurn ==
  ASSUME Turn, NEW k, k = key_, LIRSInv, LIRS!access(k)
  PROVE  /\ LIRSInv' /\ Fits(cache.valid)
         /\ Turned(cache.valid, cache'.valid, k)
         /\ Counts(k \in cache.valid)
<1>1. /\ buffer_size_ \in Nat \ {0} /\ buffer_size_' = buffer_size_
      /\ LIRS!q_size_ \in Nat \ {0} /\ LIRS!s_size_ \in Nat
      /\ LIRS!s_size_ + LIRS!q_size_ = buffer_size_
  BY TurnFacts, LIRSSizes
<1>2. LIRS!q_size_' = LIRS!q_size_ /\ LIRS!s_size_' = LIRS!s_size_
  BY <1>1 DEF LIRS!q_size_, LIRS!s_size_, LIRS!Max
<1>3. CASE LIRS!s_size_ = 0
  <2>1. /\ cache' = LIRS!Fail(LIRS!New) /\ cache.valid = {} /\ cache'.valid = {}
        /\ Counts(k \in {})
    BY <1>3, OnePage
  <2>2. LIRSInv'
    BY <1>2, <1>3, <2>1
       DEF LIRSInv, LIRS!Fail, LIRS!New, LIRS!NoEntries
  <2>3. Fits({})
    BY <1>1, FS_EmptySet DEF Fits
  <2> QED BY <2>1, <2>2, <2>3 DEF Turned
<1>4. CASE LIRS!s_size_ # 0
  <2> DEFINE ss == LIRS!s_size_
             qs == LIRS!q_size_
             O == RecentLists
             P == RecentLists'
  <2>1. LIRSKept(cache, O, ss, qs)
    BY <1>4 DEF LIRSInv
  <2>2. PICK A, L, H, N : LIRSHas(cache, O, A, L, H, N, ss, qs)
    BY <2>1, Zenon DEF LIRSKept
  <2>3. Closed(P) /\ Pushes(O, P, k)
    BY RecentPushes
  <2>4. Divided(ss, qs)
    BY <1>1, <1>4 DEF Divided
  <2> DEFINE V == L \cup H
  <2>5. LIRSTurned(cache', P, k, V, ss, qs) /\ Counts(k \in V)
    <3>1. LIRSReady(cache, O, P, k, A, L, H, N, ss, qs)
      BY <2>2, <2>3, <2>4, Zenon DEF LIRSReady
    <3>2. ss = LIRS!s_size_ /\ qs = LIRS!q_size_
      OBVIOUS
    <3> HIDE DEF ss, qs, O, P
    <3> QED BY <3>1, <3>2, LIRSStep
  <2>6. cache.valid = V /\ Fits(V)
    <3> HIDE DEF O
    <3>1. Shape(cache, O, A, H, A \ L, L, H, N, V, Cardinality(V))
          /\ Rooms(L, H, N, ss, qs)
      BY <2>2 DEF LIRSHas
    <3>2. cache.valid = V
      BY <3>1 DEF Shape, Lirs
    <3>3. Apart3(L, H, N)
      BY <3>1 DEF Shape
    <3>4. ss \in Nat /\ qs \in Nat /\ ss + qs = buffer_size_
      BY <1>1
    <3> HIDE DEF ss, qs
    <3>5. Fits(V)
      BY <3>1, <3>3, <3>4, LIRSCount
    <3> QED BY <3>2, <3>5
  <2> HIDE DEF V
  <2>7. PICK S : Demand(V, S, k) /\ LIRSDone(cache', P, S, ss, qs)
    BY <2>5, Zenon DEF LIRSTurned
  <2>8. cache'.valid = S /\ LIRSKept(cache', P, ss, qs)
    BY <2>7, Zenon DEF LIRSDone
  <2>9. LIRSKept(cache, RecentLists, ss, qs)'
    BY <1>2, <2>8, KeptPrime
  <2>10. LIRSInv'
    BY <1>2, <1>4, <2>9 DEF LIRSInv
  <2> QED BY <2>5, <2>6, <2>7, <2>8, <2>10 DEF Turned
<1> QED BY <1>3, <1>4

LEMMA LIRSReads ==
  ASSUME NEW q, NEW S
  PROVE  /\ LIRS!Cardinality(S) = Cardinality(S)
         /\ LIRS!Lists(q, S) <=> Lists(q, S)
         /\ LIRS!IsInjective(q) <=> IsInjective(q)
<1>1. LIRS!Cardinality(S) = Cardinality(S)
  BY DEF LIRS!Cardinality, Cardinality
<1>2. LIRS!IsInjective(q) <=> IsInjective(q)
  BY DEF LIRS!IsInjective, IsInjective
<1>3. LIRS!ToSet(q) = ToSet(q)
  BY DEF LIRS!ToSet, ToSet
<1>4. LIRS!Lists(q, S) <=> Lists(q, S)
  BY <1>2, <1>3, Zenon DEF LIRS!Lists, Lists
<1> QED BY <1>1, <1>2, <1>4

\* A list of pages, the most recent first, the other way around
LEMMA RecentReversed ==
  ASSUME NEW q \in Seq(Keys), Recent(q)
  PROVE  ByRecency(Reverse(q))
<1> DEFINE r == Reverse(q)
<1>1. Len(q) \in Nat
  OBVIOUS
<1>2. DOMAIN r = 1 .. Len(q) /\ \A i \in 1 .. Len(q) : r[i] = q[Len(q) - i + 1]
  BY <1>1 DEF Reverse
<1> HIDE DEF r
<1>3. \A i, j \in 1 .. Len(q) :
        i < j => /\ Len(q) - i + 1 \in 1 .. Len(q) /\ Len(q) - j + 1 \in 1 .. Len(q)
                 /\ Len(q) - j + 1 < Len(q) - i + 1
  BY <1>1
<1>4. ByRecency(r)
  BY <1>2, <1>3 DEF ByRecency, Recent
<1> QED BY <1>4 DEF r

\* What the run checks of LIRS
LEMMA LIRSSound ==
  ASSUME Running, Made, LIRSInv
  PROVE  /\ LIRS!Sound /\ ByRecency(Reverse(cache.s_))
<1>1. /\ buffer_size_ \in Nat \ {0} /\ LIRS!q_size_ \in Nat \ {0}
      /\ LIRS!s_size_ \in Nat /\ LIRS!s_size_ + LIRS!q_size_ = buffer_size_
  BY LIRSSizes DEF Running, Made
<1>2. CASE LIRS!s_size_ = 0
  <2>1. cache \in {LIRS!New, LIRS!Fail(LIRS!New)}
    BY <1>2 DEF LIRSInv
  <2>2. /\ cache.s_ = <<>> /\ cache.q_ = <<>> /\ cache.hirs_ = <<>>
        /\ DOMAIN cache.type = {} /\ cache.valid = {} /\ cache.used_size_ = 0
    BY <2>1 DEF LIRS!New, LIRS!Fail, LIRS!NoEntries
  <2>3. \A T : LIRS!OfType(cache, T) = {}
    BY <2>2 DEF LIRS!OfType
  <2>4. Cardinality({}) = 0 /\ Len(<<>>) = 0 /\ ToSet(<<>>) = {}
    BY FS_EmptySet DEF ToSet
  <2>5. Lists(<<>>, {}) /\ IsInjective(<<>>)
    BY <2>4 DEF Lists, IsInjective
  <2>6. LIRS!Sound
    <3>1. /\ LIRS!IsInjective(<<>>) /\ LIRS!Lists(<<>>, {})
          /\ LIRS!Cardinality({}) = 0 /\ LIRS!ToSet(<<>>) = {}
      BY <2>4, <2>5, LIRSReads, LIRSOps
    <3>2. /\ LIRS!OfType(cache, {"LIR", "HIR"}) = {}
          /\ LIRS!OfType(cache, {"LIR"}) = {} /\ LIRS!OfType(cache, {"HIR"}) = {}
      BY <2>3
    <3>3. {} \ {} = {}
      OBVIOUS
    <3>4. LIRS!Lists(cache.hirs_,
                     LIRS!ToSet(cache.s_) \ LIRS!OfType(cache, {"LIR"}))
      BY <2>2, <3>1, <3>2, <3>3
    <3>5. cache.valid = LIRS!OfType(cache, {"LIR", "HIR"})
      BY <2>2, <3>2
    <3>6. /\ LIRS!Cardinality(LIRS!OfType(cache, {"LIR"})) <= LIRS!s_size_
          /\ cache.used_size_ = LIRS!Cardinality(cache.valid)
      <4>1. LIRS!Cardinality(LIRS!OfType(cache, {"LIR"})) = 0
        BY <3>1, <3>2
      <4>2. cache.used_size_ = LIRS!Cardinality(cache.valid)
        BY <2>2, <3>1
      <4> QED BY <1>2, <4>1, <4>2
    <3>7. Len(cache.q_) <= LIRS!q_size_
      BY <1>1, <2>2, <2>4
    <3>8. LIRS!Lists(cache.q_, LIRS!OfType(cache, {"HIR"}))
      BY <2>2, <3>1, <3>2
    <3>9. /\ LIRS!IsInjective(cache.s_)
          /\ LIRS!OfType(cache, {"LIR"}) \subseteq LIRS!ToSet(cache.s_)
      BY <2>2, <3>1, <3>2
    <3> QED BY <1>2, <2>2, <3>4, <3>5, <3>6, <3>7, <3>8, <3>9 DEF LIRS!Sound
  <2>7. Recent(<<>>) /\ <<>> \in Seq(Keys)
    BY DEF Recent
  <2> QED BY <2>2, <2>6, <2>7, RecentReversed
<1>3. CASE LIRS!s_size_ # 0
  <2> DEFINE ss == LIRS!s_size_
             qs == LIRS!q_size_
  <2>1. LIRSKept(cache, RecentLists, ss, qs)
    BY <1>3 DEF LIRSInv
  <2>2. PICK A, L, H, N : LIRSHas(cache, RecentLists, A, L, H, N, ss, qs)
    BY <2>1, Zenon DEF LIRSKept
  <2> DEFINE V == L \cup H
  <2>3. /\ Shape(cache, RecentLists, A, H, A \ L, L, H, N, V, Cardinality(V))
        /\ L \subseteq A /\ A \subseteq L \cup H \cup N
        /\ Rooms(L, H, N, ss, qs) /\ EndsLIR(cache, L)
    BY <2>2 DEF LIRSHas
  <2>4. /\ cache.valid = V /\ cache.used_size_ = Cardinality(V)
        /\ cache.ub = FALSE /\ cache.type = Types(L, H, N)
        /\ cache.s_ \in RecentLists /\ cache.q_ \in Seq(Keys)
        /\ Lists(cache.s_, A) /\ Lists(cache.q_, H) /\ Lists(cache.hirs_, A \ L)
        /\ Apart3(L, H, N)
    BY <2>3 DEF Shape, Lirs
  <2>5. /\ LIRS!OfType(cache, {"LIR", "HIR"}) = V
        /\ LIRS!OfType(cache, {"LIR"}) = L
        /\ LIRS!OfType(cache, {"HIR"}) = H
    BY <2>4 DEF LIRS!OfType, Types, Apart3
  <2>6. Len(cache.q_) <= qs /\ Cardinality(L) <= ss
    <3>1. Len(cache.q_) = Cardinality(H)
      BY <2>4, ListsLength
    <3> QED BY <2>3, <3>1 DEF Rooms
  <2>7. cache.s_ # <<>> => cache.type[Last(cache.s_)] = "LIR"
    BY <2>3, <2>4 DEF EndsLIR, Types
  <2>8. ToSet(cache.s_) = A /\ IsInjective(cache.s_)
    BY <2>4 DEF Lists
  <2> HIDE DEF V, ss, qs
  <2>9. /\ LIRS!ToSet(cache.s_) = A /\ LIRS!IsInjective(cache.s_)
        /\ LIRS!Lists(cache.q_, H) /\ LIRS!Lists(cache.hirs_, A \ L)
        /\ LIRS!Cardinality(V) = Cardinality(V)
        /\ LIRS!Cardinality(L) = Cardinality(L)
        /\ LIRS!Last(cache.s_) = Last(cache.s_)
    BY <2>4, <2>8, LIRSReads, LIRSOps
  <2>10. LIRS!Sound
    BY <2>3, <2>4, <2>5, <2>6, <2>7, <2>9 DEF LIRS!Sound, ss, qs
  <2>11. Recent(cache.s_) /\ cache.s_ \in Seq(Keys)
    BY <2>4 DEF RecentLists
  <2> QED BY <2>10, <2>11, RecentReversed
<1> QED BY <1>2, <1>3

\* The one that is made
LEMMA LIRSMade ==
  ASSUME NEW l, l = LIRS!New, NEW O, Closed(O), <<>> \in O, NEW ss, NEW qs,
         ss \in Nat, qs \in Nat
  PROVE  LIRSKept(l, O, ss, qs)
<1>1. l = Lirs(<<>>, <<>>, <<>>, LIRS!NoEntries, {}, 0)
  BY DEF LIRS!New, Lirs
<1>2. LIRS!NoEntries = Types({}, {}, {})
  BY DEF LIRS!NoEntries, Types
<1>3. Cardinality({}) = 0 /\ ToSet(<<>>) = {}
  BY FS_EmptySet DEF ToSet
<1>4. Lists(<<>>, {}) /\ Apart3({}, {}, {})
  BY <1>3 DEF Lists, IsInjective, Apart3
<1>5. l.s_ = <<>> /\ l.q_ = <<>> /\ l.hirs_ = <<>>
  BY <1>1 DEF Lirs
<1>6. {} \ {} = {} /\ {} \cup {} = {}
  OBVIOUS
<1>7. Shape(l, O, {}, {}, {}, {}, {}, {}, {}, 0)
  <2> DEFINE ty == Types({}, {}, {})
  <2>1. l = Lirs(l.s_, l.q_, l.hirs_, ty, {}, 0)
    BY <1>1, <1>2, <1>5
  <2>2. /\ l.s_ \in O /\ l.q_ \in Seq(Keys) /\ l.hirs_ \in Seq(Keys)
        /\ Lists(l.s_, {}) /\ Lists(l.q_, {}) /\ Lists(l.hirs_, {})
    BY <1>4, <1>5
  <2> QED BY <1>4, <2>1, <2>2, Zenon DEF Shape
<1>8. Rooms({}, {}, {}, ss, qs) /\ EndsLIR(l, {})
  BY <1>3, <1>5 DEF Rooms, EndsLIR
<1>9. Shape(l, O, {}, {}, {} \ {}, {}, {}, {}, {} \cup {}, Cardinality({} \cup {}))
  BY <1>3, <1>6, <1>7
<1>10. LIRSHas(l, O, {}, {}, {}, {}, ss, qs)
  BY <1>8, <1>9 DEF LIRSHas
<1> QED BY <1>10, Zenon DEF LIRSKept

LEMMA LIRSStutter ==
  ASSUME LIRSInv, cache' = cache, buffer_size_' = buffer_size_, ts' = ts,
         access_list' = access_list
  PROVE  LIRSInv'
<1>1. LIRS!q_size_' = LIRS!q_size_ /\ LIRS!s_size_' = LIRS!s_size_
  BY DEF LIRS!q_size_, LIRS!s_size_, LIRS!Max
<1>2. RecentLists' = RecentLists
  BY DEF RecentLists, Recent, Uses
<1>3. CASE LIRS!s_size_ = 0
  BY <1>1, <1>3 DEF LIRSInv, LIRS!New, LIRS!Fail, LIRS!NoEntries
<1>4. CASE LIRS!s_size_ # 0
  <2> DEFINE ss == LIRS!s_size_
             qs == LIRS!q_size_
  <2>1. LIRSKept(cache', RecentLists', ss, qs)
    BY <1>2, <1>4 DEF LIRSInv
  <2>2. LIRSKept(cache, RecentLists, ss, qs)'
    BY <1>1, <2>1, KeptPrime
  <2> QED BY <1>1, <1>4, <2>2 DEF LIRSInv
<1> QED BY <1>3, <1>4

-----------------------------------------------------------------------------
(* The policies together *)

\* Every policy keeps its own invariant.
PolicyInv ==
  /\ Is({"LRU"}) => LRUInv
  /\ Is({"LFU"}) => LFUInv
  /\ Is({"SRRIP", "DRRIP"}) => RRIPInv
  /\ Is({"LRFU"}) => ScoreInv
  /\ Is({"EFSW"}) => HeapInv
  /\ Is({"LIRS"}) => LIRSInv

\* What is resident, by policy
ByPolicy ==
  /\ ~Made => Resident = {}
  /\ Is({"LRU"}) => Resident = LRU!resident
  /\ Is({"LFU"}) => Resident = DOMAIN cache.u_map_
  /\ Is({"SRRIP", "DRRIP"}) => Resident = cache.u_map_
  /\ Is({"LRFU", "EFSW"}) => Resident = DOMAIN cache.heap.index_
  /\ Is({"LIRS"}) => Resident = cache.valid

LEMMA ByPolicyIs == ByPolicy
<1>1. ~Made => Resident = {}
  BY DEF Resident, Is
<1>2. Is({"LRU"}) => Resident = LRU!resident
  BY DEF Resident, Is
<1>3. Is({"LFU"}) => Resident = DOMAIN cache.u_map_
  BY DEF Resident, Is
<1>4. Is({"SRRIP", "DRRIP"}) => Resident = cache.u_map_
  BY DEF Resident, Is
<1>5. Is({"LRFU", "EFSW"}) => Resident = DOMAIN cache.heap.index_
  BY DEF Resident, Is
<1>6. Is({"LIRS"}) => Resident = cache.valid
  BY DEF Resident, Is
<1> QED BY <1>1, <1>2, <1>3, <1>4, <1>5, <1>6 DEF ByPolicy

LEMMA ByPolicyNext == ByPolicy'
<1> QED BY ByPolicyIs, PTL

LRUReads ==
  Running /\ LRUInv => LRU!resident = ToSet(Sequence(cache))

LEMMA LRUReadsIs == LRUReads
BY LRUSound DEF LRUReads

LEMMA LRUReadsNext == LRUReads'
<1> QED BY LRUReadsIs, PTL

LEMMA AccessIs ==
  ASSUME Access(key_), cache_policy \in Proved
  PROVE  /\ cache_policy = "LRU" => LRU!access(key_)
         /\ cache_policy = "LFU" => LFU!access(key_)
         /\ cache_policy \in {"SRRIP", "DRRIP"} =>
              SRRIP!access(key_) \/ DRRIP!dynamic_access(key_)
         /\ cache_policy = "LRFU" => LRFU!access(key_)
         /\ cache_policy = "EFSW" => EFSW!access(key_)
         /\ cache_policy = "LIRS" => LIRS!access(key_)
BY DEF Access, Proved

\* An access of a policy, whichever it is
LEMMA PolicyTurn ==
  ASSUME Turn, NEW k, k = key_, PolicyInv, cache_policy \in Proved, Access(k),
         Running', Made'
  PROVE  /\ PolicyInv' /\ Fits(Resident)
         /\ Turned(Resident, Resident', k)
         /\ Counts(k \in Resident)
<1>1. cache_policy' = cache_policy /\ Made
  BY TurnFacts DEF Turn
<1>2. CASE cache_policy = "LRU"
  <2>1. LRUInv /\ LRU!access(k) /\ Running
    BY <1>1, <1>2, AccessIs DEF PolicyInv, Is, Turn
  <2>2. /\ LRUInv'
        /\ Demand(ToSet(Sequence(cache)), ToSet(Sequence(cache')), k)
        /\ Counts(k \in ToSet(Sequence(cache)))
    BY <2>1, LRUTurn
  <2>3. Resident = ToSet(Sequence(cache)) /\ Fits(ToSet(Sequence(cache)))
    BY <1>1, <1>2, <2>1, ByPolicyIs, LRUSound DEF ByPolicy, Is
  <2>4. Resident' = ToSet(Sequence(cache'))
    BY <1>1, <1>2, <2>2, ByPolicyNext, LRUReadsNext DEF ByPolicy, LRUReads, Is
  <2>5. PolicyInv'
    BY <1>1, <1>2, <2>2 DEF PolicyInv, Is
  <2> QED BY <2>2, <2>3, <2>4, <2>5 DEF Turned
<1>3. CASE cache_policy = "LFU"
  <2>1. LFUInv /\ LFU!access(k)
    BY <1>1, <1>3, AccessIs DEF PolicyInv, Is
  <2>2. /\ LFUInv'
        /\ Demand(DOMAIN cache.u_map_, DOMAIN cache'.u_map_, k)
        /\ Counts(k \in DOMAIN cache.u_map_)
    BY <2>1, LFUTurn
  <2>3. Resident = DOMAIN cache.u_map_ /\ Fits(DOMAIN cache.u_map_)
    BY <1>1, <1>3, <2>1, ByPolicyIs DEF ByPolicy, Is, LFUInv
  <2>4. Resident' = DOMAIN cache'.u_map_
    BY <1>1, <1>3, ByPolicyNext DEF ByPolicy, Is
  <2>5. PolicyInv'
    BY <1>1, <1>3, <2>2 DEF PolicyInv, Is
  <2> QED BY <2>2, <2>3, <2>4, <2>5 DEF Turned
<1>4. CASE cache_policy \in {"SRRIP", "DRRIP"}
  <2>1. RRIPInv /\ (SRRIP!access(k) \/ DRRIP!dynamic_access(k))
    BY <1>1, <1>4, AccessIs DEF PolicyInv, Is
  <2>2. /\ RRIPInv'
        /\ Demand(cache.u_map_, cache'.u_map_, k)
        /\ Counts(k \in cache.u_map_)
    BY <2>1, RRIPTurn
  <2>3. Resident = cache.u_map_ /\ Fits(cache.u_map_)
    BY <1>1, <1>4, <2>1, ByPolicyIs DEF ByPolicy, Is, RRIPInv
  <2>4. Resident' = cache'.u_map_
    BY <1>1, <1>4, ByPolicyNext DEF ByPolicy, Is
  <2>5. PolicyInv'
    BY <1>1, <1>4, <2>2 DEF PolicyInv, Is
  <2> QED BY <2>2, <2>3, <2>4, <2>5 DEF Turned
<1>5. CASE cache_policy = "LRFU"
  <2>1. ScoreInv /\ LRFU!access(k)
    BY <1>1, <1>5, AccessIs DEF PolicyInv, Is
  <2>2. /\ ScoreInv'
        /\ Demand(DOMAIN cache.heap.index_, DOMAIN cache'.heap.index_, k)
        /\ Counts(k \in DOMAIN cache.heap.index_)
    BY <2>1, LRFUTurn
  <2>3. Resident = DOMAIN cache.heap.index_ /\ Fits(DOMAIN cache.heap.index_)
    BY <1>1, <1>5, <2>1, ByPolicyIs DEF ByPolicy, Is, ScoreInv, HeapInv
  <2>4. Resident' = DOMAIN cache'.heap.index_
    BY <1>1, <1>5, ByPolicyNext DEF ByPolicy, Is
  <2>5. PolicyInv'
    BY <1>1, <1>5, <2>2 DEF PolicyInv, Is
  <2> QED BY <2>2, <2>3, <2>4, <2>5 DEF Turned
<1>6. CASE cache_policy = "EFSW"
  <2>1. HeapInv /\ EFSW!access(k)
    BY <1>1, <1>6, AccessIs DEF PolicyInv, Is
  <2>2. /\ HeapInv'
        /\ Demand(DOMAIN cache.heap.index_, DOMAIN cache'.heap.index_, k)
        /\ Counts(k \in DOMAIN cache.heap.index_)
    BY <2>1, EFSWTurn
  <2>3. Resident = DOMAIN cache.heap.index_ /\ Fits(DOMAIN cache.heap.index_)
    BY <1>1, <1>6, <2>1, ByPolicyIs DEF ByPolicy, Is, HeapInv
  <2>4. Resident' = DOMAIN cache'.heap.index_
    BY <1>1, <1>6, ByPolicyNext DEF ByPolicy, Is
  <2>5. PolicyInv'
    BY <1>1, <1>6, <2>2 DEF PolicyInv, Is
  <2> QED BY <2>2, <2>3, <2>4, <2>5 DEF Turned
<1>7. CASE cache_policy = "LIRS"
  <2>1. LIRSInv /\ LIRS!access(k)
    BY <1>1, <1>7, AccessIs DEF PolicyInv, Is
  <2>2. /\ LIRSInv' /\ Fits(cache.valid)
        /\ Turned(cache.valid, cache'.valid, k)
        /\ Counts(k \in cache.valid)
    BY <2>1, LIRSTurn
  <2>3. Resident = cache.valid
    BY <1>1, <1>7, ByPolicyIs DEF ByPolicy, Is
  <2>4. Resident' = cache'.valid
    BY <1>1, <1>7, ByPolicyNext DEF ByPolicy, Is
  <2>5. PolicyInv'
    BY <1>1, <1>7, <2>2 DEF PolicyInv, Is
  <2> QED BY <2>2, <2>3, <2>4, <2>5
<1> QED BY <1>2, <1>3, <1>4, <1>5, <1>6, <1>7 DEF Proved

\* How OPT reads its lists
LEMMA OPTReads ==
  ASSUME Running, Made, OPTInv
  PROVE  /\ OPT!Sound
         /\ \A k \in Keys :
              /\ ToSet(OPT!ToCome(k)) =
                   { i \in ts .. Len(access_list) - 1 : access_list[i + 1] = k }
              /\ Increasing(OPT!ToCome(k))
<1> DEFINE S(k) == PlacesIn(access_list, k, ts)
           l(k) == opt.key_access_u_map_[k]
           q(k) == Sequence(l(k))
<1>1. /\ OPTPart(access_list, opt, ts)
      /\ Entered(access_list, opt, ts, DOMAIN opt.u_map_)
      /\ opt \in OPTStates /\ opt.ub = FALSE
      /\ Cardinality(opt.buffer_set_) <= buffer_size_
  BY DEF OPTInv, OPTOK, OPTPart
<1>2. ASSUME NEW k \in Keys
      PROVE  /\ OPT!ToCome(k) = q(k) /\ OPT!Chained(l(k))
             /\ ToSet(q(k)) = S(k) /\ Increasing(q(k))
             /\ q(k) = <<>> <=> S(k) = {}
             /\ q(k) # <<>> => LeastOf(Head(q(k)), S(k))
  <2>1. Coming(l(k), S(k))
    BY <1>1 DEF OPTPart
  <2>2. /\ Chained(l(k)) /\ ToSet(q(k)) = S(k) /\ Increasing(q(k))
        /\ q(k) = <<>> <=> S(k) = {}
        /\ q(k) # <<>> => Head(q(k)) = l(k).node[l(k).head].key
    BY <2>1, ComingRead
  <2>3. /\ l(k).size = 0 <=> S(k) = {}
        /\ l(k).size # 0 => LeastOf(l(k).node[l(k).head].key, S(k))
    BY <2>1, ComingFirst DEF LeastOf
  <2>4. OPT!ToCome(k) = q(k) /\ (OPT!Chained(l(k)) <=> Chained(l(k)))
    BY ReadOfOPT DEF OPT!ToCome
  <2> HIDE DEF l, S
  <2> QED BY <2>2, <2>3, <2>4
<1> HIDE DEF l, q
<1>3. ASSUME NEW k \in DOMAIN opt.u_map_, OPT!ToCome(k) # <<>>
      PROVE  /\ opt.u_map_[k] = [future |-> Head(OPT!ToCome(k)), key |-> k]
             /\ opt.u_map_[k] \in opt.buffer_set_
  <2> DEFINE e == opt.u_map_[k]
  <2>1. k \in Keys /\ opt.buffer_set_ \subseteq Entries
    BY <1>1 DEF OPTStates, EntryTables
  <2>2. S(k) # {} /\ LeastOf(Head(OPT!ToCome(k)), S(k))
    BY <1>2, <1>3, <2>1
  <2>3. e \in opt.buffer_set_ /\ e.key = k
    BY <1>1, <2>2 DEF Entered
  <2>4. LeastOf(e.future, S(k))
    BY <1>1, <2>2, <2>3 DEF OPTPart
  <2>5. e \in Entries /\ e = [future |-> e.future, key |-> k]
    BY <2>1, <2>3 DEF Entries
  <2>6. S(k) \subseteq Int
    BY AccessList DEF PlacesIn, Running
  <2>7. e.future = Head(OPT!ToCome(k))
    <3> DEFINE f == e.future  g == Head(OPT!ToCome(k))
    <3>1. f \in Int /\ g \in Int /\ f <= g /\ g <= f
      <4> HIDE DEF e, S
      <4> QED BY <2>2, <2>4, <2>6 DEF LeastOf
    <3> HIDE DEF f, g
    <3>2. f = g
      BY <3>1
    <3> QED BY <3>2 DEF f, g
  <2> QED BY <2>3, <2>5, <2>7
<1>4. OPT!Cardinality(opt.buffer_set_) = Cardinality(opt.buffer_set_)
  BY DEF OPT!Cardinality, Cardinality
<1>5. OPT!Sound
  BY <1>1, <1>2, <1>3, <1>4 DEF OPT!Sound, l
<1>6. ASSUME NEW k \in Keys
      PROVE  /\ ToSet(OPT!ToCome(k)) =
                  { i \in ts .. Len(access_list) - 1 : access_list[i + 1] = k }
             /\ Increasing(OPT!ToCome(k))
  BY <1>2 DEF PlacesIn
<1> QED BY <1>5, <1>6

\* What proto's program keeps: the trace and the counters, OPT's lists and
\* entries, the containers of the policy, and how far it is behind OPT
Inv ==
  /\ Running
  /\ Made => OPTInv
  /\ PolicyInv
  /\ Is(Proved) => Behind(Resident, DOMAIN opt.u_map_, ts, hit_count_,
                          opt_hit_count)

LEMMA InvInit == Init => Inv
<1> SUFFICES ASSUME Init PROVE Inv
  OBVIOUS
<1>1. Running /\ ~Made
  BY RunningInit DEF Init, Made
<1> QED BY <1>1 DEF Inv, PolicyInv, Is

\* The replacer that is made for a policy
LEMMA NewIs ==
  ASSUME NEW size
  PROVE  /\ cache_policy = "LRU" => New(size) = NewList
         /\ cache_policy = "LFU" =>
              New(size) = [buffer_set_ |-> {}, u_map_ |-> NoEntries]
         /\ cache_policy \in {"SRRIP", "DRRIP"} =>
              New(size) = [index_sets_ |-> [d \in Far |-> {}], u_map_ |-> {}]
         /\ cache_policy \in {"LRFU", "EFSW"} =>
              New(size) = [heap |-> NewHeap, store |-> NewHeap]
         /\ cache_policy = "LIRS" => New(size) = LIRS!New
<1>1. LRU!New = NewList
  BY DEF LRU!New, LRU!NewList, NewList, LRU!nullptr, nullptr, LRU!NoEntries, NoEntries
<1>2. LFU!New = [buffer_set_ |-> {}, u_map_ |-> NoEntries]
  BY DEF LFU!New, LFU!NoEntries, NoEntries
<1>3. SRRIP!New = [index_sets_ |-> [d \in Far |-> {}], u_map_ |-> {}]
  BY DEF SRRIP!New, Far
<1>4. DRRIP!New = SRRIP!New
  BY DEF SRRIP!New, DRRIP!New, SRRIP!Distances, DRRIP!Distances,
         SRRIP!evict_bitmap_, DRRIP!evict_bitmap_
<1>5. cache_policy = "LRU" => New(size) = LRU!New
  BY DEF New
<1>6. cache_policy = "LFU" => New(size) = LFU!New
  BY DEF New
<1>7. cache_policy = "SRRIP" => New(size) = SRRIP!New
  BY DEF New
<1>8. cache_policy = "DRRIP" => New(size) = DRRIP!New
  BY DEF New
<1>9. cache_policy = "LRFU" => New(size) = LRFU!New
  BY DEF New
<1>10. cache_policy = "EFSW" => New(size) = EFSW!New
  BY DEF New
<1>11. /\ LRFU!New = [heap |-> NewHeap, store |-> NewHeap]
       /\ EFSW!New = [heap |-> NewHeap, store |-> NewHeap]
  BY LRFUOps, EFSWOps DEF LRFU!New, EFSW!New
<1>12. cache_policy = "LIRS" => New(size) = LIRS!New
  BY DEF New
<1> QED BY <1>1, <1>2, <1>3, <1>4, <1>5, <1>6, <1>7, <1>8, <1>9, <1>10, <1>11, <1>12

LEMMA HeapsMade ==
  ASSUME cache' = [heap |-> NewHeap, store |-> NewHeap], buffer_size_' \in Nat
  PROVE  /\ HeapInv' /\ DOMAIN cache'.heap.index_ = {}
         /\ DOMAIN cache'.store.index_ = {}
<1>1. cache'.heap = NewHeap /\ cache'.store = NewHeap
  OBVIOUS
<1>2. /\ HeapOK(cache'.heap) /\ HeapOK(cache'.store)
      /\ DOMAIN cache'.heap.index_ = {} /\ DOMAIN cache'.store.index_ = {}
  BY <1>1, NewHeapIs
<1>3. HeapOK(cache.heap)' /\ HeapOK(cache.store)'
  BY <1>2, HeapPrime
<1>4. Cardinality({}) = 0
  BY FS_EmptySet
<1>5. Fits(DOMAIN cache.heap.index_)'
  BY <1>2, <1>4 DEF Fits
<1> QED BY <1>2, <1>3, <1>5 DEF HeapInv

LIRSFirst ==
  cache = LIRS!New /\ Running /\ Made => LIRSInv /\ cache.valid = {}

LEMMA LIRSFirstIs == LIRSFirst
<1> SUFFICES ASSUME cache = LIRS!New, Running, Made
             PROVE  LIRSInv /\ cache.valid = {}
  BY DEF LIRSFirst
<1>1. LIRS!q_size_ \in Nat /\ LIRS!s_size_ \in Nat
  BY LIRSSizes DEF Running, Made
<1>2. <<>> \in RecentLists
  <2>1. <<>> \in Seq(Keys)
    OBVIOUS
  <2> QED BY <2>1 DEF RecentLists, Recent
<1>3. LIRSKept(cache, RecentLists, LIRS!s_size_, LIRS!q_size_)
  BY <1>1, <1>2, RecentClosed, LIRSMade
<1>4. cache.valid = {}
  BY DEF LIRS!New
<1> QED BY <1>3, <1>4 DEF LIRSInv

LEMMA LIRSFirstNext == LIRSFirst'
<1> QED BY LIRSFirstIs, PTL

\* No pages are resident when it is made.
LEMMA PolicyMade ==
  ASSUME Running, Make, Running', Made'
  PROVE  PolicyInv' /\ (Is(Proved)' => Resident' = {})
<1>0. ts' = 0
  BY DEF Make, Running, Made
<1>1. /\ cache' = New(buffer_size) /\ cache_policy' = cache_policy
      /\ buffer_size_' \in Nat
  BY DEF Make, asked, Running
<1>2. Cardinality({}) = 0
  BY FS_EmptySet
<1>3. CASE cache_policy = "LRU"
  <2>1. Tabled(cache', <<>>, <<>>)
    BY <1>1, <1>3, NewIs, TabledNew
  <2>2. Tabled(cache, <<>>, <<>>)'
    BY <2>1, TabledPrime
  <2>3. /\ Recent(<<>>)' /\ Len(<<>>) <= buffer_size_'
    BY <1>1 DEF Recent
  <2>4. LRUInv'
    BY <2>2, <2>3 DEF LRUInv
  <2>5. Sequence(cache') = <<>>
    BY <2>1, TabledLinked
  <2>6. ToSet(Sequence(cache')) = {}
    BY <2>5 DEF ToSet
  <2>7. Resident' = {}
    BY <1>1, <1>3, <2>4, <2>6, ByPolicyNext, LRUReadsNext DEF ByPolicy, LRUReads, Is
  <2> QED BY <1>1, <1>3, <2>4, <2>7 DEF PolicyInv, Is
<1>4. CASE cache_policy = "LFU"
  <2>1. cache' = [buffer_set_ |-> {}, u_map_ |-> NoEntries] /\ DOMAIN NoEntries = {}
    BY <1>1, <1>4, NewIs DEF NoEntries
  <2>2. /\ cache'.buffer_set_ = {} /\ cache'.u_map_ = NoEntries
        /\ DOMAIN cache'.u_map_ = {}
    BY <2>1
  <2>3. LFUOK(cache')
    BY <2>1, <2>2 DEF LFUOK, NoEntries
  <2>4. LFUOK(cache)' /\ Fits(DOMAIN cache.u_map_)'
    BY <1>1, <1>2, <2>2, <2>3 DEF LFUOK, LFUItems, Fits
  <2>5. LFUInv'
    BY <2>2, <2>4 DEF LFUInv
  <2>6. Resident' = {}
    BY <1>1, <1>4, <2>2, ByPolicyNext DEF ByPolicy, Is
  <2> QED BY <1>1, <1>4, <2>5, <2>6 DEF PolicyInv, Is
<1>5. CASE cache_policy \in {"SRRIP", "DRRIP"}
  <2>1. cache' = [index_sets_ |-> [d \in Far |-> {}], u_map_ |-> {}]
    BY <1>1, <1>5, NewIs
  <2>2. cache'.index_sets_ = [d \in Far |-> {}] /\ cache'.u_map_ = {}
    BY <2>1
  <2>3. RRIPOK(cache')
    BY <2>1, <2>2 DEF RRIPOK
  <2>4. RRIPOK(cache)' /\ Fits(cache.u_map_)'
    BY <1>1, <1>2, <2>2, <2>3 DEF RRIPOK, Fits, Far, SRRIP!Distances, SRRIP!evict_bitmap_
  <2>5. RRIPInv'
    BY <2>4 DEF RRIPInv
  <2>6. Resident' = {}
    BY <1>1, <1>5, <2>2, ByPolicyNext DEF ByPolicy, Is
  <2> QED BY <1>1, <1>5, <2>5, <2>6 DEF PolicyInv, Is
<1>6. CASE cache_policy \in {"LRFU", "EFSW"}
  <2>1. cache' = [heap |-> NewHeap, store |-> NewHeap]
    BY <1>1, <1>6, NewIs
  <2>2. /\ HeapInv' /\ DOMAIN cache'.heap.index_ = {}
        /\ DOMAIN cache'.store.index_ = {}
    BY <1>1, <2>1, HeapsMade
  <2>3. Scored(cache.heap)' /\ Scored(cache.store)'
    BY <2>2 DEF Scored
  <2>4. \A l \in Keys : Decayed(l)' = 0
    BY <1>0, DecayedNone
  <2>5. ScoreInv'
    BY <2>2, <2>3, <2>4 DEF ScoreInv
  <2>6. Resident' = {}
    BY <1>1, <1>6, <2>2, ByPolicyNext DEF ByPolicy, Is
  <2> QED BY <1>1, <1>6, <2>2, <2>5, <2>6 DEF PolicyInv, Is
<1>7. CASE cache_policy = "LIRS"
  <2>1. cache' = LIRS!New
    BY <1>1, <1>7, NewIs
  <2>2. LIRSInv' /\ cache'.valid = {}
    <3>1. LIRS!New' = LIRS!New
      BY DEF LIRS!New, LIRS!NoEntries
    <3> QED BY <2>1, <3>1, LIRSFirstNext DEF LIRSFirst
  <2>3. Resident' = {}
    BY <1>1, <1>7, <2>2, ByPolicyNext DEF ByPolicy, Is
  <2> QED BY <1>1, <1>7, <2>2, <2>3 DEF PolicyInv, Is
<1>8. CASE cache_policy \notin Proved
  BY <1>1, <1>8 DEF PolicyInv, Is, Proved
<1> QED BY <1>3, <1>4, <1>5, <1>6, <1>7, <1>8 DEF Proved

LEMMA InvMake ==
  ASSUME Inv, Make
  PROVE  Inv'
<1>1. Running /\ Running'
  BY RunningNext DEF Inv, Next
<1>2. buffer_size_ = 0 /\ buffer_size_' = buffer_size /\ buffer_size \in Nat \ {0}
  BY <1>1, BufferSize DEF Make
<1>3. Made' /\ ~Made /\ buffer_size_' \in Nat
  BY <1>2 DEF Made
<1>4. /\ access_list' \in Seq(Keys) /\ opt' = OPT!New(access_list')
      /\ ts' = 0 /\ hit_count_' = 0 /\ opt_hit_count' = 0
  BY <1>1, <1>3, FileType DEF Make, Running
<1>5. /\ OPTOK(access_list', opt', ts') /\ opt'.buffer_set_ = {}
      /\ DOMAIN opt'.u_map_ = {}
  <2> DEFINE al == access_list'
  <2>1. al \in Seq(Keys) /\ opt' = OPT!New(al) /\ ts' = 0
    BY <1>4
  <2> HIDE DEF al
  <2>2. OPTOK(al, OPT!New(al), 0) /\ OPT!New(al).buffer_set_ = {}
        /\ DOMAIN OPT!New(al).u_map_ = {}
    BY <2>1, OPTNewIs
  <2> QED BY <2>1, <2>2 DEF al
<1>6. OPTInv'
  <2>1. OPTOK(access_list, opt, ts)'
    BY <1>5, OPTPrime
  <2> QED BY <1>3, <1>5, <2>1, FS_EmptySet DEF OPTInv
<1>7. PolicyInv' /\ (Is(Proved)' => Resident' = {})
  BY <1>1, <1>3, PolicyMade
<1>8. Is(Proved)' => Behind(Resident, DOMAIN opt.u_map_, ts, hit_count_, opt_hit_count)'
  <2> SUFFICES ASSUME Is(Proved)'
               PROVE  Behind(Resident, DOMAIN opt.u_map_, ts, hit_count_, opt_hit_count)'
    OBVIOUS
  <2>1. Resident' = {}
    BY <1>7
  <2>2. \A S : {} \cap S = {}
    OBVIOUS
  <2>3. Cardinality({}) = 0
    BY FS_EmptySet
  <2> QED BY <1>4, <1>5, <2>1, <2>2, <2>3 DEF Behind
<1> QED BY <1>1, <1>6, <1>7, <1>8 DEF Inv

LEMMA InvGet ==
  ASSUME Inv, check_get
  PROVE  Inv'
<1> DEFINE k == key_
           D == DOMAIN opt.u_map_
           E == DOMAIN opt'.u_map_
<1>1. /\ Turn /\ Access(k) /\ OPT!access(k) /\ Running' /\ Made'
      /\ Made /\ OPTInv /\ PolicyInv
  <2>1. Running /\ Made
    BY DEF Inv, check_get
  <2> QED BY <2>1, TurnIs DEF Inv
<1>2. /\ OPTInv' /\ OPTMove(D, E, k)
      /\ opt_hit_count' = IF k \in D THEN opt_hit_count + 1 ELSE opt_hit_count
  BY <1>1, OPTTurn
<1>3. cache_policy' = cache_policy /\ ts' = ts + 1 /\ access_list' = access_list
  BY <1>1, TurnFacts
<1>4. CASE cache_policy \notin Proved
  BY <1>1, <1>2, <1>3, <1>4 DEF Inv, PolicyInv, Is, Proved
<1>5. CASE cache_policy \in Proved
  <2>1. /\ PolicyInv' /\ Fits(Resident)
        /\ Turned(Resident, Resident', k)
        /\ Counts(k \in Resident)
    BY <1>1, <1>5, PolicyTurn
  <2>2. D \subseteq Keys /\ E \subseteq Keys
    <3>1. OPTOK(access_list, opt, ts) /\ OPTOK(access_list, opt, ts)'
      BY <1>1, <1>2 DEF OPTInv
    <3>2. D \subseteq Keys
      BY <3>1 DEF OPTOK, OPTPart, OPTStates, EntryTables
    <3>3. E \subseteq Keys
      BY <3>1 DEF OPTOK, OPTPart, OPTStates, EntryTables
    <3> QED BY <3>2, <3>3
  <2>3. Behind(Resident, D, ts, hit_count_, opt_hit_count)
    BY <1>1, <1>5 DEF Inv, Is
  <2>4. hit_count_' = IF k \in Resident THEN hit_count_ + 1 ELSE hit_count_
    BY <2>1 DEF Counts
  <2>5. Behind(Resident', E, ts + 1, hit_count_', opt_hit_count')
    <3> HIDE DEF k, D, E
    <3>1. Turn /\ k = key_ /\ OPTInv /\ D = DOMAIN opt.u_map_
      BY <1>1 DEF k, D
    <3>2. ASSUME NEW S, Demand(Resident, S, k)
          PROVE  Behind(S, E, ts + 1, hit_count_', opt_hit_count')
      BY <1>2, <2>1, <2>2, <2>3, <2>4, <3>1, <3>2, BehindNext
    <3>3. CASE Demand(Resident, Resident', k)
      BY <3>2, <3>3
    <3>4. CASE Resident = {} /\ Resident' = {}
      <4>1. Demand({}, {k}, k)
        BY <3>1, FS_EmptySet, TurnFacts DEF Demand
      <4>2. Behind({k}, E, ts + 1, hit_count_', opt_hit_count')
        BY <3>2, <3>4, <4>1
      <4>3. k \in Keys /\ E \in SUBSET Keys
        BY <2>2, <3>1, TurnFacts
      <4>4. ts + 1 \in Nat /\ hit_count_' \in Nat /\ opt_hit_count' \in Nat
        BY <1>1, <3>1, TurnFacts DEF Running
      <4>5. Behind({}, E, ts + 1, hit_count_', opt_hit_count')
        <5> DEFINE h == hit_count_'
                   o == opt_hit_count'
                   s == ts + 1
        <5>1. h \in Nat /\ o \in Nat /\ Behind({k}, E, s, h, o)
          BY <4>2, <4>4
        <5> HIDE DEF h, o, s
        <5>2. Behind({}, E, s, h, o)
          BY <4>3, <5>1, BehindNone
        <5> QED BY <5>2 DEF h, o, s
      <4> QED BY <3>4, <4>5
    <3> QED BY <2>1, <3>3, <3>4 DEF Turned
  <2>6. Behind(Resident, DOMAIN opt.u_map_, ts, hit_count_, opt_hit_count)'
    BY <1>3, <2>5 DEF Behind, Reached, PlacesIn
  <2> QED BY <1>1, <1>2, <2>1, <2>6 DEF Inv
<1> QED BY <1>4, <1>5

LEMMA LRUStutter ==
  ASSUME LRUInv, cache' = cache, buffer_size_' = buffer_size_, ts' = ts,
         access_list' = access_list
  PROVE  LRUInv'
<1>1. PICK ns, q : Tabled(cache, ns, q) /\ Len(q) <= buffer_size_ /\ Recent(q)
  BY DEF LRUInv
<1>2. Tabled(cache', ns, q)
  BY <1>1
<1>3. Tabled(cache, ns, q)'
  BY <1>2, TabledPrime
<1>4. Recent(q)'
  BY <1>1 DEF Recent, Uses
<1> QED BY <1>1, <1>3, <1>4 DEF LRUInv

\* A step that changes nothing keeps what is resident.
LEMMA ResidentStutter ==
  ASSUME Inv, UNCHANGED vars, cache_policy \in Proved
  PROVE  Resident' = Resident
<1>1. /\ cache_policy' = cache_policy /\ access_list' = access_list
      /\ cache' = cache /\ buffer_size_' = buffer_size_ /\ ts' = ts
  BY DEF vars, asked
<1>2. Running /\ Running' /\ (Made' <=> Made)
  BY <1>1, RunningNext DEF Inv, Made
<1>3. ASSUME LRUInv PROVE LRUInv'
  BY <1>1, <1>3, LRUStutter
<1>4. CASE Made /\ cache_policy = "LRU"
  <2>1. Resident = LRU!resident /\ LRUInv
    BY <1>4, ByPolicyIs DEF ByPolicy, Is, Inv, PolicyInv
  <2>2. Resident' = LRU!resident'
    BY <1>1, <1>2, <1>4, ByPolicyNext DEF ByPolicy, Is
  <2>3. LRU!resident = ToSet(Sequence(cache)) /\ LRU!resident' = ToSet(Sequence(cache'))
    BY <1>2, <1>3, <2>1, LRUReadsIs, LRUReadsNext DEF LRUReads
  <2> QED BY <1>1, <2>1, <2>2, <2>3
<1>5. CASE ~Made \/ cache_policy # "LRU"
  BY <1>1, <1>2, <1>5, ByPolicyIs, ByPolicyNext DEF ByPolicy, Is, Proved
<1> QED BY <1>4, <1>5

\* A step that changes nothing
LEMMA InvStutter ==
  ASSUME Inv, UNCHANGED vars
  PROVE  Inv'
<1>1. /\ cache_policy' = cache_policy /\ access_list' = access_list
      /\ cache' = cache /\ buffer_size_' = buffer_size_ /\ ts' = ts
      /\ hit_count_' = hit_count_ /\ opt' = opt
      /\ opt_hit_count' = opt_hit_count /\ loaded' = loaded
  BY DEF vars, asked
<1>2. Running /\ Running' /\ (Made' <=> Made)
  BY <1>1, RunningNext DEF Inv, Made
<1>3. ASSUME OPTInv PROVE OPTInv'
  <2>1. OPTOK(access_list', opt', ts')
    BY <1>1, <1>3 DEF OPTInv
  <2>2. OPTOK(access_list, opt, ts)'
    BY <2>1, OPTPrime
  <2> QED BY <1>1, <1>3, <2>2 DEF OPTInv
<1>4. ASSUME LRUInv PROVE LRUInv'
  BY <1>1, <1>4, LRUStutter
<1>5. ASSUME LFUInv PROVE LFUInv'
  BY <1>1, <1>5 DEF LFUInv, LFUOK, LFUItems, Fits, Uses
<1>6. ASSUME RRIPInv PROVE RRIPInv'
  BY <1>1, <1>6 DEF RRIPInv, RRIPOK, Fits, Far, SRRIP!Distances, SRRIP!evict_bitmap_
<1>12. ASSUME LIRSInv PROVE LIRSInv'
  BY <1>1, <1>12, LIRSStutter
<1>10. ASSUME HeapInv PROVE HeapInv'
  <2>1. HeapOK(cache'.heap) /\ HeapOK(cache'.store)
    BY <1>1, <1>10 DEF HeapInv
  <2>2. HeapOK(cache.heap)' /\ HeapOK(cache.store)'
    BY <2>1, HeapPrime
  <2> QED BY <1>1, <1>10, <2>2 DEF HeapInv, Fits
<1>11. ASSUME ScoreInv PROVE ScoreInv'
  <2>1. HeapInv'
    BY <1>10, <1>11 DEF ScoreInv
  <2>2. \A l : Decayed(l)' = Decayed(l)
    BY <1>1, <1>2, DecayedStutter
  <2>3. /\ \A l : Worth(cache.heap, l)' = Worth(cache.heap, l)
        /\ \A l : Worth(cache.store, l)' = Worth(cache.store, l)
    BY <1>1, HeapPrime
  <2>4. Scored(cache.heap)' /\ Scored(cache.store)'
    BY <1>1, <1>11, <2>2, <2>3 DEF ScoreInv, Scored
  <2>5. \A l \in Keys \ DOMAIN cache'.store.index_ : Decayed(l)' = 0
    BY <1>1, <1>11, <2>2 DEF ScoreInv
  <2> QED BY <2>1, <2>4, <2>5 DEF ScoreInv
<1>7. PolicyInv'
  BY <1>1, <1>2, <1>4, <1>5, <1>6, <1>10, <1>11, <1>12 DEF Inv, PolicyInv, Is
<1>8. ASSUME Is(Proved) PROVE Resident' = Resident
  BY <1>8, ResidentStutter DEF Is
<1>9. Is(Proved)' => Behind(Resident, DOMAIN opt.u_map_, ts, hit_count_, opt_hit_count)'
  BY <1>1, <1>2, <1>8 DEF Inv, Behind, Reached, PlacesIn, Is
<1> QED BY <1>2, <1>3, <1>7, <1>9 DEF Inv

LEMMA InvNext ==
  ASSUME Inv, [Next]_vars
  PROVE  Inv'
<1>1. CASE Make
  BY <1>1, InvMake
<1>2. CASE check_get
  BY <1>2, InvGet
<1>3. CASE UNCHANGED vars
  BY <1>3, InvStutter
<1> QED BY <1>1, <1>2, <1>3 DEF Next

LEMMA InvAlways == Spec => []Inv
<1> QED BY InvInit, InvNext, PTL DEF Spec

-----------------------------------------------------------------------------
(* The theorems *)

\* The buffer has the size that was worked out, and the policy stays.
Sized == Made => buffer_size_ = buffer_size

LEMMA SizedNext ==
  ASSUME Running, Sized, [Next]_vars
  PROVE  Sized' /\ buffer_size' = buffer_size /\ cache_policy' = cache_policy
<1>1. buffer_param' = buffer_param /\ trace_file' = trace_file
      /\ cache_policy' = cache_policy
  BY DEF Next, Make, check_get, vars, asked
<1>2. buffer_size' = buffer_size
  BY <1>1 DEF buffer_size
<1>3. \/ buffer_size_' = buffer_size
      \/ buffer_size_' = buffer_size_
  BY DEF Next, Make, check_get, vars
<1> QED BY <1>1, <1>2, <1>3 DEF Sized, Made

LEMMA SizedAlways == Spec => [](Running /\ Sized)
<1>1. Init => Running /\ Sized
  BY RunningInit DEF Init, Sized, Made
<1>2. Running /\ Sized /\ [Next]_vars => (Running /\ Sized)'
  BY RunningNext, SizedNext
<1> QED BY <1>1, <1>2, PTL DEF Spec

\* No policy has had more hits than OPT, whatever the trace: when OPT evicts a
\* page, it loses no hit that the other one can still have.
THEOREM OptimalHolds == Spec => [](cache_policy \in Proved => Optimal)
<1>1. Inv => (cache_policy \in Proved => Optimal)
  <2> SUFFICES ASSUME Inv, cache_policy \in Proved PROVE Optimal
    OBVIOUS
  <2>1. CASE Made
    BY <2>1 DEF Inv, Is, Behind, Optimal
  <2>2. CASE ~Made
    BY <2>2 DEF Inv, Running, Optimal
  <2> QED BY <2>1, <2>2
<1> QED BY <1>1, InvAlways, PTL

LEMMA HeapsReads ==
  ASSUME NEW h, NEW k
  PROVE  (Heaps!Indexed(h) <=> Indexed(h)) /\ Heaps!GetValue(h, k) = GetValue(h, k)
<1>1. Heaps!GetValue(h, k) = GetValue(h, k)
  BY Zenon DEF Heaps!GetValue, GetValue, Heaps!ValueNow, ValueNow, Heaps!Entry, Entry
<1>2. \A S : Heaps!Cardinality(S) = Cardinality(S)
  BY Zenon DEF Heaps!Cardinality, Cardinality
<1>3. Heaps!Indexed(h) <=> Indexed(h)
  BY <1>2, Zenon DEF Heaps!Indexed, Indexed, Heaps!Size, Size, Heaps!Entry, Entry
<1> QED BY <1>1, <1>3

\* The containers of a policy, and those of OPT, agree with each other after
\* every access.
THEOREM SoundHolds == Spec => [](cache_policy \in Proved => Sound)
<1>1. Inv => (cache_policy \in Proved => Sound)
  <2> SUFFICES ASSUME Inv, cache_policy \in Proved PROVE Sound
    OBVIOUS
  <2>1. Running /\ PolicyInv
    BY DEF Inv
  <2>2. Is({"LRU"}) => LRU!Sound
    BY <2>1, LRUSound DEF PolicyInv
  <2>3. Is({"LFU"}) =>
          cache.buffer_set_ = { cache.u_map_[k] : k \in DOMAIN cache.u_map_ }
          /\ \A k \in DOMAIN cache.u_map_ : cache.u_map_[k].key = k
    BY <2>1 DEF PolicyInv, LFUInv, LFUOK
  <2>4. Is({"SRRIP", "DRRIP"}) =>
          \A k \in Keys :
            Cardinality({ d \in DOMAIN cache.index_sets_ :
                            k \in cache.index_sets_[d] })
              = IF k \in cache.u_map_ THEN 1 ELSE 0
    BY <2>1, RRIPSound DEF PolicyInv, RRIPInv
  <2>5. Made => OPT!Sound
    BY OPTReads DEF Inv
  <2>6. ~Is({"DLIRS"}) /\ ~Is({"CACHEUS"})
    BY DEF Proved, Is
  <2>8. Is({"LIRS"}) => LIRS!Sound
    BY <2>1, LIRSSound DEF PolicyInv, Is
  <2>7. Is({"LRFU", "EFSW"}) => Heaps!Indexed(cache.heap) /\ Heaps!Indexed(cache.store)
    <3>1. Is({"LRFU", "EFSW"}) => HeapOK(cache.heap) /\ HeapOK(cache.store)
      BY <2>1 DEF PolicyInv, Is, ScoreInv, HeapInv
    <3> QED BY <3>1, ConstantsAre, HeapReads, HeapsReads
  <2> QED BY <2>2, <2>3, <2>4, <2>5, <2>6, <2>7, <2>8 DEF Sound
<1> QED BY <1>1, InvAlways, PTL

\* What a policy remembers of a page, and OPT knows of it, is what happened and
\* what will.
THEOREM HistoryKeptHolds == Spec => [](cache_policy \in Proved => HistoryKept)
<1>1. Inv => (cache_policy \in Proved => HistoryKept)
  <2> SUFFICES ASSUME Inv, cache_policy \in Proved PROVE HistoryKept
    OBVIOUS
  <2>1. Running /\ PolicyInv
    BY DEF Inv
  <2>2. Is({"LRU"}) => ByRecency(Reverse(LRU!Pages))
    BY <2>1, LRUSound DEF PolicyInv
  <2>3. Is({"LFU"}) =>
          \A k \in DOMAIN cache.u_map_ :
            cache.u_map_[k].freq = Cardinality(Uses(k, loaded[k]))
    BY <2>1 DEF PolicyInv, LFUInv
  <2>4. Made => \A k \in Keys :
          /\ ToSet(OPT!ToCome(k)) =
               { i \in ts .. Len(access_list) - 1 : access_list[i + 1] = k }
          /\ Increasing(OPT!ToCome(k))
    BY OPTReads DEF Inv
  <2>5. ~Is({"DLIRS"}) /\ ~Is({"CACHEUS"})
    BY DEF Proved, Is
  <2>7. Is({"LIRS"}) => ByRecency(Reverse(cache.s_))
    BY <2>1, LIRSSound DEF PolicyInv, Is
  <2>6. Is({"LRFU"}) =>
          \A h \in {cache.heap, cache.store} : \A k \in DOMAIN h.index_ :
            Heaps!GetValue(h, k) = Decayed(k)
    <3> SUFFICES ASSUME Is({"LRFU"}), NEW h \in {cache.heap, cache.store},
                        NEW k \in DOMAIN h.index_
                 PROVE  Heaps!GetValue(h, k) = Decayed(k)
      OBVIOUS
    <3>1. HeapOK(h) /\ Scored(h)
      BY <2>1 DEF PolicyInv, ScoreInv, HeapInv
    <3>2. GetValue(h, k) = Worth(h, k)
      BY <3>1, ConstantsAre, HeapReads
    <3> QED BY <3>1, <3>2, HeapsReads DEF Scored
  <2> QED BY <2>2, <2>3, <2>4, <2>5, <2>6, <2>7 DEF HistoryKept
<1> QED BY <1>1, InvAlways, PTL

\* What is held by the abstract cache
HeldOf == cache_policy \in Proved => Held = Resident

LEMMA HeldIs == HeldOf
BY DEF HeldOf, Held, OnePageDLIRS, Is, Proved

LEMMA HeldNext == HeldOf'
<1> QED BY HeldIs, PTL

LEMMA SameCardinality == \A S : Cache!Cardinality(S) = Cardinality(S)
BY DEF Cache!Cardinality, Cardinality

\* A turn of the trace is a step of the abstract cache.
LEMMA CacheTurn ==
  ASSUME Inv, Sized, check_get, cache_policy \in Proved
  PROVE  Cache!Next \/ UNCHANGED <<Held, buffer_size>>
<1> DEFINE k == key_
           R == Held
           S == Held'
<1>1. Turn /\ Access(k) /\ Running' /\ Made' /\ Made /\ PolicyInv /\ Running
  <2>1. Running /\ Made
    BY DEF Inv, check_get
  <2> QED BY <2>1, TurnIs DEF Inv
<1>2. Fits(R) /\ Turned(R, S, k)
  <2>1. R = Resident /\ S = Resident'
    BY <1>1, TurnFacts, HeldIs, HeldNext DEF HeldOf
  <2>2. Fits(Resident) /\ Turned(Resident, Resident', k)
    BY <1>1, PolicyTurn
  <2> QED BY <2>1, <2>2
<1>3. k \in Keys /\ buffer_size_ = buffer_size
  BY <1>1, TurnFacts DEF Sized
<1>4. buffer_size' = buffer_size
  BY <1>1, SizedNext DEF Next
<1>5. CASE k \in R /\ S = R
  <2>1. Cache!Hit(k)
    BY <1>5 DEF Cache!Hit
  <2> QED BY <1>3, <1>4, <2>1 DEF Cache!Next
<1>6. CASE k \notin R /\ Cardinality(R) < buffer_size_ /\ S = R \cup {k}
  <2>1. Cache!Fill(k)
    BY <1>3, <1>6, SameCardinality DEF Cache!Fill
  <2> QED BY <1>3, <1>4, <2>1 DEF Cache!Next
<1>7. ASSUME k \notin R, Cardinality(R) = buffer_size_,
             NEW v \in R, S = (R \ {v}) \cup {k}
      PROVE  Cache!Next
  <2>1. Cache!Cardinality(R) = buffer_size /\ Cache!Cardinality({v}) = 1
    BY <1>3, <1>7, SameCardinality, FS_Singleton
  <2>2. {v} \in SUBSET R /\ Cache!Cardinality({v}) \in 1 .. 1
    BY <1>7, <2>1
  <2>3. Cache!Replace(k)
    BY <1>7, <2>1, <2>2 DEF Cache!Replace
  <2> QED BY <1>3, <1>4, <2>3 DEF Cache!Next
<1>8. CASE R = {} /\ S = {}
  BY <1>4, <1>8
<1> QED BY <1>2, <1>5, <1>6, <1>7, <1>8 DEF Turned, Demand

\* A policy keeps no more pages than its buffer holds, and an access brings in
\* the page accessed and evicts one page at most, on a miss in a full buffer.
THEOREM ProtoImplements == Spec /\ cache_policy \in Proved => Implements
<1>1. Init => Cache!Init
  <2> SUFFICES ASSUME Init PROVE Cache!Init
    OBVIOUS
  <2>1. ~Made /\ Running
    BY RunningInit DEF Init, Made
  <2>2. Held = {}
    BY <2>1, ByPolicyIs DEF ByPolicy, Held
  <2>3. buffer_size \in Nat
    BY <2>1, BufferSize
  <2> QED BY <2>2, <2>3 DEF Cache!Init
<1>2. cache_policy \in Proved /\ [Next]_vars => (cache_policy \in Proved)'
  BY DEF Next, Make, check_get, vars, asked, Proved
<1>3. ASSUME Inv, Sized, Inv', cache_policy \in Proved, [Next]_vars
      PROVE  [Cache!Next]_<<Held, buffer_size>>
  <2>1. CASE check_get
    BY <1>3, <2>1, CacheTurn
  <2>2. CASE Make
    <3>1. Running /\ Running' /\ buffer_size' = buffer_size
      BY <1>3, SizedNext DEF Inv
    <3>2. ~Made /\ Made'
      <4>1. buffer_size_ = 0 /\ buffer_size_' = buffer_size
        BY <2>2 DEF Make
      <4> QED BY <3>1, <4>1, BufferSize DEF Made
    <3>3. Resident = {}
      BY <3>2, ByPolicyIs DEF ByPolicy
    <3>4. Is(Proved)' => Resident' = {}
      BY <2>2, <3>1, <3>2, PolicyMade
    <3>5. Is(Proved)'
      BY <1>2, <1>3, <3>2 DEF Is, Proved
    <3>6. Held = Resident /\ Held' = Resident'
      BY <1>2, <1>3, HeldIs, HeldNext DEF HeldOf
    <3> QED BY <3>1, <3>3, <3>4, <3>5, <3>6
  <2>3. CASE UNCHANGED vars
    <3>1. Resident' = Resident
      BY <1>3, <2>3, ResidentStutter
    <3>2. buffer_size' = buffer_size
      BY <1>3, SizedNext DEF Inv
    <3>3. Held = Resident /\ Held' = Resident'
      BY <1>2, <1>3, HeldIs, HeldNext DEF HeldOf
    <3> QED BY <3>1, <3>2, <3>3
  <2> QED BY <1>3, <2>1, <2>2, <2>3 DEF Next
<1>4. Spec /\ cache_policy \in Proved => [](cache_policy \in Proved)
  BY <1>2, PTL DEF Spec
<1>5. Spec /\ [](cache_policy \in Proved) => [][Cache!Next]_<<Held, buffer_size>>
  BY <1>3, InvAlways, SizedAlways, PTL DEF Spec
<1> QED BY <1>1, <1>4, <1>5, PTL DEF Spec, Implements, Cache!Spec

=============================================================================
