------------------------------- MODULE Proto -------------------------------
(***************************************************************************)
(* proto (src/proto.cpp): reads a trace, works out the size of the buffer, *)
(* makes the replacer it was asked for and gives it every block of the     *)
(* trace.  Here the same trace is also given to OPT, as the scripts do     *)
(* that compare policies.                                                  *)
(*                                                                         *)
(* One variable holds the replacer, whatever its policy: each INSTANCE     *)
(* takes it for its own.                                                   *)
(***************************************************************************)
EXTENDS Replacer, TraceFile

CONSTANTS
  Policies,     \* the policies asked for, by the names of the command line
  Params,       \* buffer_param, as fractions <<num, den>>
  RawTraces,    \* raw traces, each with the script that is used on it
  Length,       \* the length of the longest trace
  m,            \* of SRRIP and DRRIP
  limit_ratio_, \* of LIRS: its stack holds that many times its LIR pages
  stack_limit_  \* of DLIRS: the same of its buffer, as a fraction <<num, den>>

ASSUME ProtoAssumption ==
  /\ Keys \subseteq Int /\ IsFiniteSet(Keys)
  /\ Policies \subseteq {"LRU", "LFU", "SRRIP", "DRRIP", "LRFU", "EFSW",
                         "LIRS", "DLIRS", "CACHEUS"}
  /\ Params \subseteq (Nat \ {0}) \X (Nat \ {0})
  /\ Length \in Nat /\ Length <= 2147483647  \* places are ints
  /\ \A t \in RawTraces :
       /\ t.script \in {"msr", "blkparse"}
       /\ t.requests \in Seq(Nat \X Nat)
  /\ limit_ratio_ \in Nat \ {0, 1, 2}
  /\ stack_limit_[1] \in Nat /\ stack_limit_[2] \in 1 .. stack_limit_[1]
  /\ m \in Nat \ {0, 1}  \* DRRIP puts pages two sets below the last

\* The file the script writes
Processed(trace) ==
  IF trace.script = "msr" THEN process_msr(trace.requests)
  ELSE process_blkparse(trace.requests)

\* Keys has every block of the traces, and Length bounds them.
ASSUME TraceAssumption ==
  \A t \in RawTraces :
    LET blocks == get_access_list(Processed(t))
    IN ToSet(blocks) \subseteq Keys /\ Len(blocks) <= Length

VARIABLES
  cache_policy, buffer_param,               \* the command line
  raw, trace_file,                          \* the raw trace and its file
  access_list,                              \* the trace, once it is read
  cache,                                    \* the replacer
  opt, opt_hit_count, opt_miss_count,       \* OPT on the same trace
  loaded                                    \* history: the last miss of a page

asked == <<cache_policy, buffer_param, raw, trace_file>>
vars == <<asked, access_list, cache, buffer_size_, ts, hit_count_,
          miss_count_, opt, opt_hit_count, opt_miss_count, loaded>>

\* A score is halved at most twice an access.
One == 2^(2 * Length)

LRU == INSTANCE LRUReplacer WITH lruList_ <- cache
LFU == INSTANCE LFUReplacer WITH lfu <- cache
SRRIP == INSTANCE SRRIPReplacer WITH rrip <- cache
DRRIP == INSTANCE DRRIPReplacer WITH rrip <- cache
LRFU == INSTANCE LRFUReplacer WITH lrfu <- cache
EFSW == INSTANCE EFSWReplacer
          WITH efsw <- cache, hit_score_ <- 10, miss_score_ <- 1
LIRS == INSTANCE LIRSReplacer WITH lirs <- cache
DLIRS == INSTANCE DLIRSReplacer WITH dlirs <- cache
CACHEUS == INSTANCE CACHEUSReplacer WITH cacheus <- cache
OPT == INSTANCE OPTReplacer
         WITH hit_count_ <- opt_hit_count, miss_count_ <- opt_miss_count
Heaps == INSTANCE LUHeap

New(size) ==
  CASE cache_policy = "LRU" -> LRU!New
    [] cache_policy = "LFU" -> LFU!New
    [] cache_policy = "SRRIP" -> SRRIP!New
    [] cache_policy = "DRRIP" -> DRRIP!New
    [] cache_policy = "LRFU" -> LRFU!New
    [] cache_policy = "EFSW" -> EFSW!New
    [] cache_policy = "LIRS" -> LIRS!New
    [] cache_policy = "DLIRS" -> DLIRS!New(size)
    [] cache_policy = "CACHEUS" -> CACHEUS!New(size)

Made == buffer_size_ # 0

\* A parameter above 1 is a number of pages, one up to 1 a part of the
\* footprint: at least one page.
buffer_size ==
  LET num == buffer_param[1]  den == buffer_param[2]
      unique_key_nums == Cardinality(UniqueKeys(trace_file))
  IN IF num > den THEN num \div den
     ELSE Max({1, (num * unique_key_nums) \div den})

Init ==
  /\ cache_policy \in Policies /\ buffer_param \in Params /\ raw \in RawTraces
  /\ trace_file = Processed(raw)
  /\ access_list = <<>>
  /\ buffer_size_ = 0  \* nothing is read or made yet
  /\ cache = "none" /\ opt = "none"
  /\ ts = 0
  /\ hit_count_ = 0 /\ miss_count_ = 0
  /\ opt_hit_count = 0 /\ opt_miss_count = 0
  /\ loaded = [k \in Keys |-> 0]

Make ==
  /\ buffer_size_ = 0
  /\ access_list' = get_access_list(trace_file)
  /\ buffer_size_' = buffer_size
  /\ cache' = New(buffer_size)
  /\ opt' = OPT!New(access_list')
  /\ UNCHANGED <<asked, ts, hit_count_, miss_count_, opt_hit_count,
                 opt_miss_count, loaded>>

Access(key) ==
  \/ cache_policy = "LRU" /\ LRU!access(key)
  \/ cache_policy = "LFU" /\ LFU!access(key)
  \/ cache_policy = "SRRIP" /\ SRRIP!access(key)
  \/ cache_policy = "DRRIP" /\ DRRIP!dynamic_access(key)
  \/ cache_policy = "LRFU" /\ LRFU!access(key)
  \/ cache_policy = "EFSW" /\ EFSW!access(key)
  \/ cache_policy = "LIRS" /\ LIRS!access(key)
  \/ cache_policy = "DLIRS" /\ DLIRS!access(key)
  \/ cache_policy = "CACHEUS" /\ CACHEUS!access(key)

\* The next block of the trace
check_get ==
  LET key == access_list[ts + 1]
  IN /\ Made
     /\ ts < Len(access_list)
     /\ ts' = ts + 1
     /\ Access(key)
     /\ OPT!access(key)
     /\ loaded' = IF miss_count_' = miss_count_ THEN loaded
                  ELSE [loaded EXCEPT ![key] = ts + 1]
     /\ UNCHANGED <<asked, access_list, buffer_size_>>

Next == Make \/ check_get

Spec == Init /\ [][Next]_vars

-----------------------------------------------------------------------------
(* Safety *)

Is(ps) == Made /\ cache_policy \in ps

Resident ==
  CASE ~Made -> {}
    [] Is({"LRU"}) -> LRU!resident
    [] Is({"LFU"}) -> DOMAIN cache.u_map_
    [] Is({"SRRIP", "DRRIP"}) -> cache.u_map_
    [] Is({"LRFU", "EFSW"}) -> DOMAIN cache.heap.index_
    [] Is({"LIRS"}) -> cache.valid
    [] Is({"DLIRS"}) -> DLIRS!resident
    [] Is({"CACHEUS"}) -> CACHEUS!resident

\* The containers of a policy agree with each other: the nodes of LRU's list
\* are linked both ways and found by its table; the entry u_map_ names is the
\* page's only entry in the set; a page is in exactly one of the sets SRRIP
\* moves around; index_ follows every exchange in the heap; the stacks, queues
\* and counters of LIRS, DLIRS and CACHEUS share out the pages.  OPT never
\* erases an entry that is gone.
Sound ==
  /\ Is({"LRU"}) => LRU!Sound
  /\ Is({"LFU"}) =>
       cache.buffer_set_ = { cache.u_map_[k] : k \in DOMAIN cache.u_map_ }
       /\ \A k \in DOMAIN cache.u_map_ : cache.u_map_[k].key = k
  /\ Is({"SRRIP", "DRRIP"}) =>
       \A k \in Keys :
         Cardinality({ d \in DOMAIN cache.index_sets_ :
                         k \in cache.index_sets_[d] })
           = IF k \in cache.u_map_ THEN 1 ELSE 0
  /\ Is({"LRFU", "EFSW"}) =>
       Heaps!Indexed(cache.heap) /\ Heaps!Indexed(cache.store)
  /\ Is({"LIRS"}) => LIRS!Sound
  /\ Is({"DLIRS"}) => DLIRS!Sound
  /\ Is({"CACHEUS"}) => CACHEUS!Sound
  /\ Made => OPT!Sound

\* The accesses of k from the one at place p on
Uses(k, p) == { i \in p .. ts : access_list[i] = k }

\* The list q is in the order of the last accesses of its pages.
ByRecency(q) ==
  \A i, j \in DOMAIN q : i < j => Max(Uses(q[i], 1)) < Max(Uses(q[j], 1))

KeySequence(d) == [i \in DOMAIN d |-> d[i].key]

Increasing(q) == \A i, j \in DOMAIN q : i < j => q[i] < q[j]

\* The sum of the accesses of k so far, each worth One halved by every access
\* that came after it
Decayed(k) ==
  LET sum[n \in 0 .. ts] ==
        IF n = 0 THEN 0
        ELSE sum[n - 1] + (IF access_list[n] = k THEN One \div 2^(ts - n)
                           ELSE 0)
  IN sum[ts]

\* What a policy remembers of a page is what happened to it: the list of LRU,
\* the stacks of LIRS and DLIRS and the list s of CACHEUS are in the order of
\* the last accesses, whatever moved between them and the queues; a frequency
\* of LFU counts the accesses since the page came in; and a score of LRFU, in
\* the heap as in the store, is the decayed sum of all of them, whenever it
\* was last brought up to date.  The lists of OPT hold the accesses to come.
HistoryKept ==
  /\ Is({"LRU"}) => ByRecency(Reverse(LRU!Pages))
  /\ Is({"LIRS"}) => ByRecency(Reverse(cache.s_))
  /\ Is({"DLIRS"}) => ByRecency(KeySequence(cache.lirs))
  /\ Is({"CACHEUS"}) => ByRecency(KeySequence(cache.s))
  /\ Is({"LFU"}) =>
       \A k \in DOMAIN cache.u_map_ :
         cache.u_map_[k].freq = Cardinality(Uses(k, loaded[k]))
  /\ Is({"LRFU"}) =>
       \A h \in {cache.heap, cache.store} : \A k \in DOMAIN h.index_ :
         Heaps!GetValue(h, k) = Decayed(k)
  /\ Made => \A k \in Keys :
       /\ ToSet(OPT!ToCome(k)) =
            { i \in ts .. Len(access_list) - 1 : access_list[i + 1] = k }
       /\ Increasing(OPT!ToCome(k))

\* What DLIRS does with one page is no cache of one page (WithinSize).
OnePageDLIRS == Is({"DLIRS"}) /\ buffer_size_ = 1

\* OPT is optimal: after every access of the trace it has had at least as
\* many hits as the other policy.
Optimal == ~OnePageDLIRS => hit_count_ <= opt_hit_count

\* README.md:26: the buffer size is a number of pages, so that no more pages than
\* that are resident.
WithinSize == Made => Cardinality(Resident) <= buffer_size_

\* The blocks of the raw trace, request by request
Requested == get_access_list(raw.requests)

\* The program is given the blocks that were requested, in their order.  The
\* scripts that start a new run only after a block (process_blkparse and its
\* like) take the first run to be at block -1.  They lose it, and nothing else:
\* what precedes the first request that does not go on from there.  If they all
\* do, as many blocks as were requested are put at -1.  (Provided no request is
\* of no block at all.)
Preceding(n) == get_access_list(SubSeq(raw.requests, 1, n - 1))
Restarts(n) == raw.requests[n][1] # Len(Preceding(n)) - 1
TraceKept ==
  Made =>
    /\ raw.script = "msr" => access_list = Requested
    /\ raw.script = "blkparse" /\ (\A i \in DOMAIN raw.requests :
                                      raw.requests[i][2] > 0) =>
         /\ (\A n \in 2 .. Len(raw.requests) : ~ Restarts(n)) =>
              access_list = Blocks(<<-1, Len(Requested)>>)
         /\ \A n \in 2 .. Len(raw.requests) :
              Restarts(n) /\ (\A h \in 2 .. n - 1 : ~ Restarts(h)) =>
                Requested = Preceding(n) \o access_list

-----------------------------------------------------------------------------
(* Refinement *)

\* Whatever the policy, it is a cache that evicts one page, on a miss, from a
\* full buffer.
Held == IF OnePageDLIRS THEN {} ELSE Resident

Cache == INSTANCE DemandCache
           WITH resident <- Held, Size <- buffer_size, Batch <- 1

Implements == Cache!Spec

============================================================================
