# Hill-Cache in TLA+

TLA+ modules, model-checking configurations and machine-checked proofs for the
Hill-Cache repository: a trace-driven simulator of cache replacement policies
(`proto`), whose own policy is Hill-Cache, and a multi-threaded benchmark of a
web application over memcached and RocksDB (`bench`). Paths below are those of
the repository.

## 1. The system

| Part | Files | State | Operations |
|---|---|---|---|
| HillSubReplacer | `include/replacers/hill_replacer.h` | `top_lru_`, one list per score `real_lru_`, ghost list, two tables of entries, `min_level_non_empty_`, a clock and the stamps of the last rollings | `Access`, `Evict`, `Rolling`, `UpdateHalf`, `ReportAndClear`, `GetCurrentLevel` |
| HillReplacer | the same and `src/replacers/hill_replacer.cpp` | a real and a simulated HillSubReplacer, hit statistics, `stable_count_` | `access` |
| bench | `src/bench.cpp` | per thread: its place in the trace, counters, the request in hand; shared: `global_i`, counters of slot 0, two mutexes, `test_finished`; memcached, RocksDB | the loop of `subprocess_work`, `do_request_item` |
| ARC | `arc_replacer.{h,cpp}` | four LRU lists, target `p_` | `access`, `replace_` |
| S3FIFO | `s3fifo_replacer.{h,cpp}` | queues of pointers S_, M_, G_, `table_`, the heap | `access`, `Insert*`, `Evict*`, `EnsureFree` |
| LRUList, LinkList | `util/lru_list.*`, `util/link_list.*` | a doubly linked list, a table of its nodes | `push_*`, `pop_*`, `remove`, `count` |
| HeapDict, DequeDict | `util/heap_dict.hpp`, `util/deque_dict.hpp` | a set, or a list, of entries and a table of places in it | `Push`, `Set`, `Remove`, `Pop*`, `InplaceUpdate` |
| LRU, LFU, OPT, SRRIP, DRRIP | `replacers/*` | a set or list of pages in eviction order | `access` |
| LRFU, EFSW, LUHeap | `replacers/*`, `util/lazy_update_heap.*` | binary heap with lazily decayed scores | `Add`, `Pop`, `access` |
| LIRS | `replacers/*` | a stack, a queue and a list of non-LIR pages over shared nodes | `access` |
| DLIRS | `replacers/*` | the same three with a copy of an entry in each, two limits that move, counters | `access` |
| CACHEUS | `replacers/*` | two lists, an order by frequency, two histories, two limits that move, a learning rate, two weights | `access` |
| proto, unittest_utils | `src/proto.cpp`, `util/unittest_utils.*` | none that lasts | parse options, replay a trace |
| trace scripts | `scripts/trace/` | the run of blocks being put together | coalesce the requests of a raw trace into a file |
| runner scripts | `scripts/prototype/` | a pool of threads, a lock, a database file of results | look up or compute a hit rate, save it, plot; clean the file |
| benchmark scripts | `scripts/benchmark/` | none | start programs, parse what they print |

How they interact. `proto` reads a trace into a list of blocks, builds one
replacer and calls its `access` once per block; everything there is sequential.
HillReplacer passes each access to its two HillSubReplacers, compares what they
report at the end of each interval and sets their half-lives. ARC calls its four
LRULists. In `bench`, POSIX threads share the index of the trace (under
`i_mutex`, except in the condition of the loop), the counters (each thread
writes its own, thread 1 reads them all) and the two stores. The trace scripts
write the files `proto` and `bench` read. `runner.py` runs `proto` from a pool of
threads, once per policy and size, and keeps the hit rates in a file that its
threads, and a cleaner the user starts at any time, open without waiting for each
other.

What is hard.

* HillSubReplacer computes the score of a page *lazily*: a rolling moves whole
  lists and touches no entry, so that the place of a page follows from the
  stamps of the rollings. Five places move `min_level_non_empty_`. An eviction
  happens before the ghost is asked about the page that caused it.
* HillReplacer changes the clock of a policy under its feet.
* `bench` has threads that interleave at every unlocked read and between the
  calls to the two stores; memcached may forget or refuse a value at any time.
* S3FIFO and LIRS delete nodes other containers may still point to; OPT and LFU
  keep iterators into sets; DLIRS and CACHEUS keep up to three copies of a page's
  entry and counters beside the lists they count.
* CACHEUS orders its pages by a comparison that is no order.
* `runner.py` meets a file that may be refused to it at any access, results that
  outlive the `proto` that computed them, and threads that end in any order.

The correctness properties of each part are listed with the modules below; the
hazards they answer are in `PROJECT.json`, each at its line.

## 2. The modules

| Module | Models | Built on | Checked by |
|---|---|---|---|
| StdContainers | `std::list`, `std::unordered_map` (external) | | all below that use it |
| HillSub | the class HillSubReplacer | StdContainers | HillSubSpec, HillReplacer |
| HillSubSpec | one HillSubReplacer under any calls | HillSub, HillAbs | MCHillSub |
| HillAbs | what a HillSubReplacer promises (abstract) | | as `Implements` |
| HillReplacer | two HillSubReplacers and the adaptation | HillSub | MCHillReplacer |
| Bench | `bench.cpp` | | MCBench |
| LinkList | the nodes of `LinkList` and `LRUList`, with their table and lifetime | | LRU-, OPTReplacer |
| LRUList | `LRUList` as a sequence | | ARC, LIRSReplacer |
| DequeDict | `DequeDict` | | DLIRS-, CACHEUSReplacer |
| DemandCache | what a replacer promises (abstract) | | as `Implements` |
| ARC, S3FIFO | these replacers | LRUList, DemandCache | MCARC.cfg, MCS3FIFO |
| Replacer | the counters of the common base class | | the policies |
| LRU-, LFU-, SRRIP-, DRRIP-, OPTReplacer | these replacers | Replacer, LinkList | Proto |
| LUHeap | `LUHeap` | | LRFU-, EFSWReplacer |
| LRFU-, EFSW-, LIRSReplacer | these replacers | Replacer, LUHeap, LRUList | Proto |
| DLIRS-, CACHEUSReplacer | these replacers, HeapDict within CACHEUS | Replacer, DequeDict | Proto |
| TraceFile | the coalescing of `trace_processor.py`, and `get_access_list` | | Proto |
| Proto | from a raw trace through the file to `proto` with any of nine policies, OPT beside it | all of these, DemandCache | MCProto |
| Runner | `runner.py`, `utils.py`, `runner_cache_cleaner.py` | | MCRunner |
| DataLemmas | lemmas on induction, numbers and lists | StdContainers | `tlapm` |
| StructureLemmas | lemmas on the trace file, the linked list, the heap, the trace | Replacer, TraceFile, LinkList, LUHeap, DataLemmas | `tlapm` |
| HillProofs | lemmas on the methods of the class, and the theorems of both modules | HillSubSpec, HillReplacer, DataLemmas | `tlapm` |
| ProtoProofs | an invariant for each policy, and the theorems of Proto | Proto, StructureLemmas | `tlapm` |
| ARCProofs, BenchProofs, RunnerProofs, S3FIFOProofs | theorems | the module they are named for, DataLemmas | `tlapm` |

A definition keeps the name it has in the source, wherever TLA+ allows it;
`PROJECT.json` maps each to its lines. An operator whose comment starts with
`mutant:` is a plausible mistake in the definition that follows it: put in the
place of that definition, it must make TLC find a property violated
(`PROJECT.json` pairs them), which shows that the property depends on the code.

### StdContainers
`std::list` as a sequence, `std::unordered_map` as a function on the set of its
keys: the operations the replacers use. These are external definitions. Those on
sequences are the ones of SequencesExt, written out: Proto takes every replacer by
INSTANCE, which copies all that the replacer reaches, and with SequencesExt among
it tlapm needs six times as long for a proof about Proto.

### HillSub, HillSubSpec, HillAbs
HillSub is the class: one record with the names of its fields, one operator per
method or per part of `Access`, so that HillReplacer can hold two of them.
`Access` is `AccessHit` or `AccessMiss`, each ending in `Insert` (lines 97-120);
`Evict` is `Unlink`, then `PushGhost`. The loop of `GetCurrentLevel` over the
stamps is `RollsSince`: the number of stamps after the entry's. The splices of
`Rolling`, in ascending order of the level, put levels 2j and 2j + 1 into level
j (`HalveLevels`). Undefined behaviour is a field of its own, `ub`:

* `"hit_scan"`: the scan of line 85 read `real_lru_[max_points_]`. It tests a level
  before it tests the bound, so that a hit that empties the last level in use always
  reads one list too far; it then stops at `max_points_` whatever it read.
  `HitScanAlone` says when: the first time, on the only page under the top.
* `"evict_scan"`: the scan of line 166 left `real_lru_`. Where it stops is any
  index past the end; the code only ever compares that index with levels, so
  `max_points_` stands for all of them.
* `"no_victim"`: a victim was used that was never assigned, or taken from an
  empty list. Nothing is said afterwards: the object accepts no more accesses.

HillSubSpec drives one object by the three calls HillReplacer makes to it, in any
order: an access, a new half-life, a report. HillAbs is what the policy
promises: the most recent keys in order, a score per key, all scores below the
top halved at once by a rolling, a victim of the lowest score. HillSubSpec
implements it (`Implements`): the lists, stamps and lazy levels are a
representation of these scores.

### HillReplacer
`r` and `s`, the statistics, and one action per outcome of the comparison: `Continue`
(not the end of an interval), `NoEvidence` (one of them never hit), `Shorten`,
`Lengthen`, `StillStable`, `Nudge`. Each is a whole `access`, the simulated half-life
of line 73 included (`Follow`). `ClimbsToBetter` is the point of the class: the
half-life of the real buffer moves only at the end of an interval, grows only if the
real buffer hit more, shrinks only if the simulated one did, and steps towards
`init_half_` only after enough equal rounds. It is worth nothing unless the two rates
compared are rates of the same accesses (`SameSample`) of two caches in step
(`Lockstep`). The real buffer implements HillAbs here too (`Implements`), under the
half-lives and the reports HillReplacer gives it; this run has `mru_threshold` 0, the
other order of splicing and of eviction. The types of its variables are part of
`Accounted`.

### Bench
One action per access to shared state: the condition of the loop (`Loop`), the index
taken under `i_mutex` (`Take`), each call to a store (`Get`, `Find`, `Save`, `Fill`),
the counter (`Tally`), the warm-up under `stats_mutex` (`Warm`), every single read of
the report (`ReadReport`), the decision after the unlock (`Decide`), the end of a
small trace (`Drain`). `Forget` is memcached making room. Any call to a store may
fail. A read that fails is a key that is not there; a value memcached refuses is left
out; and when RocksDB refuses one, nobody looks at its answer (`bench.cpp:168`), so
that memcached is filled all the same. `started` is the set of the threads that get a
client of memcached; the others return at once (lines 202-206), without replaying
anything or counting their warm-up. Two history variables: `served`, how often each
place of the trace was requested, and `refused`, the values RocksDB did not take.
`Total` is the sum of a sequence of numbers, which `ReportNotOver` compares slot 0
with, and `StopHonest` the number of requests.

### LinkList, LRUList
LinkList is the list as it is in memory: a set of live nodes, each with its two
pointers, the two ends, and the table. `push_*`, `pop_*` and `remove` patch the
pointers, and `ub` becomes TRUE where one that dangles would be followed. LRU uses
it with its table, OPT without. `Chained` says that going from the head by `next`
and from the tail by `pred` meets the same nodes, all the live ones; `Linked`, that
the table names them too. LRUList is the sequence that results, for ARC and LIRS.

### ARC
`access` by its four cases, `replace_`, over LRULists seen as sequences. `p_` is
a double; it is counted in units of `1 / Unit`, with `Unit` a multiple of every
length a list can have, so that no ratio is rounded.

### S3FIFO
The queues hold nodes, `heap` is the set of live nodes, and a new node may be at
the address of any freed one: so the pointer a ghost hit leaves in `G_` is
modelled with all it can do. The loops are bounded and nothing is recursive, so
that they can be reasoned about: the tail of `M_` goes round (`Turn`) at most three
times per page (`MaxTurns`), since no page has more than three hits; `EvictS` takes
a tail per page of `S_`; and `EnsureFree` goes round twice, since only an `EvictS`
that makes no room needs another round, and leaves `S_` empty for it. That the loops
of the code need no more is checked and proved: `ub` says "endless" of a page of `M_`
that has hits left after all those turns, and `Capacity` that there is room after two
rounds. Otherwise `ub` says that a freed node was read, or that the assertion of
`EvictM` failed.

### DemandCache
What any replacer promises of the set of pages it keeps: an access leaves it alone, or
brings one page into a free place and evicts nothing, or brings one page into a full
buffer and evicts at most `Batch`. That the page brought in is the one accessed is not
part of it: the abstract cache does not see which page that is. ARC implements it with
`Batch` = 1; S3FIFO needs `Batch` = `buffer_size`, because `EvictS` empties all of
`S_`.

The policies of Proto implement it with `Batch` = 1 too; OPT does not, and need
not: a page that is never accessed again may lose its entry at once.

### TraceFile
How a trace becomes blocks. A raw trace is a list of requests, a place and a
length. `process_msr` and `process_fiu` join requests that follow each other into
one line of the file; the run at block -1 they start from is not written.
`process_blkparse` and its three likes test the state in another order, so that
the first run of a trace stays at -1, and its blocks with it. `get_access_list`
reads the lines back into blocks. `TraceKept` compares the two ends: with the
first two, the program sees the blocks of the requests, in order; with the others,
those without the blocks of the first run, which is what precedes the first request
that does not go on from -1 (`Restarts`), and nothing else is lost; if none does so,
as many blocks as were requested, from -1 on.

### Replacer, the policies and Proto
Proto takes a raw trace through TraceFile, works out the size of the buffer
(`buffer_size`), makes the replacer the command line asks for (`Make`) and gives it
every block (`check_get`). `proto.cpp:96` compares the size with `> 1`, so that
`--buffer-size 1` is a ratio of one, the whole footprint, and not the one page that
README.md:26 ("integer represents the size") promises; Proto does as the code does.
One variable, `cache`, holds the replacer whatever the policy: the module of each
policy is instantiated with its own variable replaced by `cache`, and its `access` is
a disjunct of `Access`. The same trace goes to OPT at the same step, so that `Optimal`
compares the two hit counts after every access. `loaded` is a history variable: when a
page last missed. `Sound` is the invariant of the containers of the policy in use;
`HistoryKept` says that what it remembers of a page is what happened to it: the lists
of LRU, LIRS, DLIRS and CACHEUS are in the order of the last accesses (`ByRecency`), a
frequency of LFU counts the accesses since the page came in, a score of LRFU is the
sum of all the accesses, halved by every access since (`Decayed`), and the lists of
OPT have the accesses to come, in order (`Increasing`). `TraceAssumption` says that
`Keys` has every block of the traces and that `Length` bounds them; `Length` is below
2^31, since a place in the trace is an `int`.

* LRU is a LinkList with its table; LFU a set of entries ordered by frequency,
  then time.
* SRRIP keeps sets in an array and moves them up by exchanging pointers: the
  sets are a function from the index to a set. DRRIP is the same with a free
  choice for `rand()`. With `m` below 2 the code indexes its array by a negative
  number: `ProtoAssumption` takes `m` from 2 on; the default is 3.
* LRFU and EFSW are two heaps each (LUHeap): resident pages, and the scores of
  pages that left. LUHeap is the array with its index, sifted as the code does,
  the father at `index / 2` included, and scores that are decayed only when
  touched. A score is a multiple of `1 / One`, and `One` is large enough that
  every halving in the bounded trace is exact.
* LIRS is the stack, the queue and the list of non-LIR pages. A node is the
  page itself; `ub` becomes TRUE where the code would erase an iterator that is
  not in its list, ask an empty list for its last node, read a deleted node or
  fail an assertion. `Pruning` is its loop, one page of the stack a turn
  (`PruneLast`). With a buffer of one page `s_size_` is 0 and it does so:
  `Sound` requires the absence of `ub` for two pages or more.
* DLIRS is three DequeDicts, each with its own copy of an entry, as in the code;
  the copies may differ, and each operation reads the one the code reads. The
  limits of LIR and HIR pages move by rounded ratios of the counters `demoted`
  and `nonresident`; `Sound` says that, with two pages or more, the counters count
  the entries they are named for and that no ratio has a zero below. With one page
  it keeps two (`WithinSize`, below), and `Sound`, `Optimal` and `Implements` ask
  nothing of it (`OnePageDLIRS`).
* CACHEUS is five dictionaries. Each eviction asks both experts and may follow
  either: the weights, which stay within 0.01 and 0.99, and the learning rate
  only move the odds, and are left out (the counter `hitrate` that should drive
  the learning rate is never incremented). The order `lfu` is a `std::set` under
  a comparison of one entry's frequency with the other's time; since that is no
  order, `Inserted` is the set of all the places the descent of a tree could end
  at, and of its taking the entry for a neighbour it equals.
* OPT keeps, for each page, a LinkList of the places of its future accesses, and
  an ordered set of pages in which those never needed again compare equal.

### Runner
One row of a figure is one policy over all the sizes: a task per size, run by
`Threads` (`Start`, at most one task per thread), then `Plot`. A task looks its
key up (`Find`, `Read`), runs `proto` (`RunProto`, which may fail), and saves the
result under the lock (`Lock`, `Open`, `Write`, `Add`). The file is a `dbm.gnu`
database (external): many readers or one writer, and a refused `open` raises. An
exception ends the task and stays in its future, which nobody reads: the row is
short, and `runner.py` ends when it plots it (`state` = "failed"). The user may
start the program again (`Restart`), start the cleaner (`invalid_cache`, then
`Delete` when it closes the file) and build a new `proto` (`Rebuild`). A rate is
known by the row, the size and the version it was computed with, so that
`RowsRight` sees one that comes from the wrong place. A row is sorted by size before
it is plotted (`InOrder`), and the sizes of `config.py` ascend, which the code relies
on to set them against the rates (`RunnerAssumption`); `since` is a history
variable, the version as of which a key was last cleaned.

## 3. What the runs check

| Run | Instance | Checks |
|---|---|---|
| `hill_sub_mru` | five keys, three pages, one in the top, ghost of two, levels 0-3, ten accesses; `int32_t` ends at 10, a half-life of two or four | the types; every resident key in the list computed from its entry (`Partition`); sizes; `min_level_non_empty_` exact; the stamps ordered, and top and ghost by them (`StampsOrdered`), past the overflow of the next rolling too; with two pages under the top, every eviction has a victim and its scan stays in `real_lru_` (`EvictSafe`); the scan after a hit first leaves `real_lru_` when the page hit was the only one there (`HitScanAlone`); HillAbs is implemented |
| `hill_replacer` | four keys, three pages, `mru_threshold` 0, intervals of three, steps limited to a factor 2, fifteen accesses | both buffers sound under changing half-lives; in step; same sample; the statistics; the direction of every step; HillAbs is implemented by the real buffer |
| `bench` | two threads, any of which may get no client, a trace of four places of one key; warm-up and stop; stop without warm-up; private indices | no place requested twice, and without an early stop each requested once, except place 0 of private indices and the places of a thread without a client; at most one request more for each other thread; warm-up once per thread; the report never exceeds what was requested; an early stop has its reason; a key memcached holds is in RocksDB unless RocksDB refused that value; every thread returns |
| `arc` | three pages, seven keys, traces of any length | the checks of `check_consistency` and the range of `p_`, the lists disjoint, the directory bounded, `replace_` never pops an empty list; DemandCache is implemented |
| `s3fifo` | three pages, four keys, five nodes, traces of any length up to the first read of a freed node | sizes, `table_` exact although `G_` holds stale pointers, `assert(false)` never reached and the loop before it ends; DemandCache is implemented |
| `proto` | every trace of seven blocks among five up to their names, of five among four with every name, and every raw trace of three requests of up to two blocks by either script; nine policies; buffers of half the footprint, three and four pages | the containers of each policy agree; what it remembers is what happened; OPT has at least as many hits on every prefix; the blocks requested are the blocks replayed, all but the first run of `process_blkparse`; DemandCache is implemented |
| `runner` | two threads, three rows over two sizes, two runs, one cleaning, two versions of `proto` | a row plotted has the rates of its own policy and sizes, in order; a result saved stays until cleaned; what was cleaned does not come back from an older `proto`, unless a thread held it; every run ends |

Bounds. Five keys, three pages and a ghost of one or two are enough for a policy
to fill its buffer, its top and its ghost, to evict into the ghost, to make it
forget and to let a key come back from it, with rollings in between; `MaxTs` (10
and 15 accesses) lets the window of stamps slide, since it holds two or three, and
lets HillReplacer go through five intervals, so that the half-life moves both ways
and the nudge happens. `IntMax` is 2^31 - 1 except in `hill_sub_mru`: there it
is 10, so that a half-life of four, for which the next rolling is due some accesses
ahead, overflows from the seventh access on. The keys are symmetric: no rule of the
code distinguishes one key from another.
Two threads and a trace of four places are enough for every race on the index,
the counters and the report: each involves one reader and one writer. One key is
enough for the stores, since nothing in a request of a key reads or writes another;
`bench_overshoot` and `bench_drain` have two. ARC has no
bound on the trace; seven keys exceed by one what its four lists can hold for
three pages. S3FIFO has none either; five nodes are one more than can be live.

In `proto`, seven accesses fill the largest buffer, evict twice and bring a page
back. Its long traces name their blocks in the order of their first access: a
policy compares keys only for equality, so that every other trace is one of these
with other names. SRRIP and DRRIP are the exception, for they evict the smallest
key of a set: every trace of five blocks among four is there too, whatever the
names. Five blocks exceed every buffer. The raw traces of three
requests have places 1 and 3 and lengths 0 to 2, so that requests follow each
other, overlap, repeat and are empty.

In `runner`, two threads, or a thread and the cleaner, are enough for any refusal;
two of the rows share their policy and differ in its parameters, so that a key
that left out a part would show; the second run finds the results of the first.

Deadlock is not checked where the model really stops: the HillSub and
HillReplacer runs at the bound `MaxTs` (or after `"no_victim"`), S3FIFO after a
freed node was read, Proto at the end of its trace, Runner when the user has
nothing left to do. Bench and ARC are checked for
deadlock; the end of Bench is `Joined`, the return of `main`.

Fairness. Bench and Runner, the two concurrent programs, state fairness and have
liveness. Bench: weak fairness of each thread's next step. The operating system runs
every runnable thread, and a thread blocked on `stats_mutex` gets it once it stays
free. Both stores are assumed to answer, but the answer may be a failure, and `Forget`
has no fairness. Runner: weak fairness of each thread's next step, of the main thread
(`Plot`), and of the end of a cleaner that has the file open (`Delete`); `proto` ends.
The user owes nothing: `Restart`, `invalid_cache` and `Rebuild` have no fairness. The
replacers are sequential objects, and have nothing that must eventually happen.

### Disagreements between the code and what it says

Each of these is a run that TLC must find violated; `PROJECT.json` quotes the
lines.

* `hill_sub_two_pages` (`ScanInBounds`): with one page under the top, as in a
  buffer of two pages, an eviction empties `real_lru_` and the scan of
  `hill_replacer.h:166` for the next level in use runs past its last list.
  `EvictSafeHolds` proves that two pages under the top exclude it, after hits whose
  own scan (line 85) left `real_lru_` too.
* `bench_overshoot` (`InTrace`): `bench.cpp:209` tests the shared index without
  `i_mutex` and line 213 takes it without a second test: two threads that pass
  the test for the last place leave one of them with the place after it.
  `OvershootBounded` says how far this goes: one place per other thread.
* `bench_drain` (`DrainedClean`): the end of a trace too short for the warm-up
  adds the first memcached counts to slot 0 (`bench.cpp:321`) where the warm-up
  clears the thread's own; "clean stats" is then printed over counts that are not.
* `s3fifo_freed` (`FreedNeverRead`): a ghost hit leaves its pointer in `G_`
  (`s3fifo_replacer.h:67`); once `EvictM` has deleted the node, `InsertG` reads it.
* `proto_one_page_dlirs` (`WithinSize`): a ratio that comes to one page leaves DLIRS
  no LIR page, and the loop at `dlirs_replacer.h:98` ejects one all the same: it is
  the first page of the stack, long gone from the buffer, which is resident from
  then on beside the page that is. With the ratio of `scripts/config.py` the blocks
  1, 2, 2 are enough; with two pages or more there always is room for a LIR page.

## 4. What is proved

TLAPS proves the safety of HillSubSpec for every finite set of keys, size, number of
levels, size of the ghost, number of points, half-life and trace. The theorems are
in HillProofs (`SubSpec`, `SubImplements` are the names of HillSubSpec there and here,
`Spec` and `Implements` those of HillReplacer):

| Theorem | States |
|---|---|
| `Invariance` | `IInv` holds of every HillSubReplacer |
| `TypeCorrect` | `SubSpec => []TypeOK` |
| `PartitionHolds` | `SubSpec => []Partition` |
| `CapacityHolds` | `SubSpec => []Capacity` |
| `MinLevelHolds` | `SubSpec => []MinLevelExact` |
| `EvictSafeHolds` | `SubSpec => []EvictSafe` |
| `HitScanAloneHolds` | `SubSpec => HitScanAlone` |
| `StampsHold` | `SubSpec => []StampsOrdered` |
| `ImplementsHolds` | `SubSpec => SubImplements`: HillSubSpec implements HillAbs |

`IInv` is `ObjectOK(sub) /\ EvictSafe`. `ObjectOK` is the conjunction of the named
parts `StateOK`, `PartsOK`, `LevelsOK`, `SizesOK`, `MinOK` and `ClockOK`. None of
them is inductive alone. That a key is in the list of its level after a rolling
(`LevelsOK`) needs the order of the stamps (`ClockOK`), for the level is found by
counting stamps; that the victim of `Evict` exists needs `min_level_non_empty_`
(`MinOK`) and the sizes; `MinOK` after an eviction needs `EvictSafe`'s argument
that a second page is under the top; and the sizes need the partition, since
`Access` compares the number of entries, and not of list elements, with `size_`.

The proof follows the code. An access is a chain of small operators (erase from
the top, unlink a victim, push to the ghost, demote, roll, push to the top), and
HillProofs has a `...Core` lemma for each: from the parts that hold in the
middle of an access, it derives those that hold after the stage. `InsertOK`,
`AccessHitOK`, `AccessMissOK`, `UpdateHalfOK`, `ReportOK` and `NewOK` put them
together, one per method, and `InvNext` has one case per action.
The order of the top and of the ghost (`RecencyOrdered`, in `StampsOrdered`) needs in
between that the top was written before now (`InOrder`), which each stage keeps up to
the push to the top, and that the ghost was when a victim is pushed to it.
DataLemmas has the facts about lists they use: what erasing, popping,
concatenating and pushing do to the elements, to the absence of duplicates and to
the length.

The refinement goes by the stages too. `Score` and `Ghost` are the functions the
entries and the stamps stand for; `...Score` lemmas say what each stage makes of them.
Most add or drop one key (`ScorePut`, `ScoreDrop`). A demotion writes an entry and
changes no score, because an entry written now has the level it was written with
(`LevelNow`). The victim's score is the lowest because the lists agree with the
scores and `min_level_non_empty_` is exact (`VictimLowest`): the refinement rests on
`IInv`. A rolling appends a stamp, may forget the oldest, and halves every score
outside the top (`RollingHalves`): with as many stamps as bits, an entry older than
all of them has level 0, which halving leaves alone (`Shifts`).
`AccessScore` then makes an access a hit, a miss with room or a miss with a victim in
scores, or, where a victim never assigned is read, no step at all.

HillProofs has also the theorems of the adaptive cache, for every trace, size of
the buffers, interval, window, number of stable rounds, `lambda_`, bound and ratio:

| Theorem | States |
|---|---|
| `BothSoundHolds` | `Spec => []BothSound` |
| `SameSampleHolds` | `Spec => []SameSample`, if `Size - LruSize >= 2` |
| `LockstepHolds` | `Spec => []Lockstep`, if `Size - LruSize >= 2` |
| `AccountedHolds` | `Spec => []Accounted` |
| `ClimbsHolds` | `Spec => ClimbsToBetter`, if `Size - LruSize >= 2` |
| `RealImplements` | `Spec => Implements`: the real buffer implements HillAbs |

Their invariant is `RInv`: both buffers are sound, and with two pages under the top
every eviction of either had a victim and stayed in `real_lru_`, `SameSample` and
`Lockstep` hold, and while the buffers are not full they hold the same keys
(`SameUntilFull`). The last part is what makes `Lockstep` inductive: an access may hit
in one buffer and miss in the other, which changes their numbers of keys by different
amounts unless the one that missed is full. With one page under the top or none the
hypothesis fails and so do the theorems: an eviction may then read an uninitialised
victim (`EvictSafe`), after which nothing is said of that buffer, and the access has
no count or place in the list. `SettleOK` and `OutcomeOK` reduce the six outcomes of
an access to one form, an access, a report if the interval ended, then perhaps a new
half-life; more lemmas say what each stage of `Access` leaves of the fields that are
compared. `ClimbsHolds` also needs that the half-life keeps within its clamps
(`HalfOK`), for a clamp must not move it the wrong way, and that a division rounded
down does not either (`DivAtMost`, `DivAtLeast`).

ARCProofs, for every size of the buffer and every trace:

| Theorem | States |
|---|---|
| `ARCInvariance` | `Spec => []ARCInv` |
| `ConsistentHolds` | `Spec => []Consistent` |
| `DisjointHolds` | `Spec => []Disjoint` |
| `DirectoryHolds` | `Spec => []Directory` |
| `PopSafeHolds` | `Spec => []PopSafe` |
| `ARCImplements` | `Spec => Implements`: ARC implements DemandCache |

`ARCInv` is `Sound(arc)`, four lists of distinct keys apart from each other, and
`Fits(arc)`, their lengths: a ghost remembers something only of a full buffer, and
t1 with its ghost never exceeds it. There is one lemma per action (`HitOK`,
`HitB1OK`, `HitB2OK` and three for a new page) over those of the lists and of
`replace_` (`ReplaceOK`). What needs the invariant is that `replace_` always has a
page to move. It takes t2 when t1 is empty or no longer than the target. An empty t2
would leave the whole of a full buffer to t1. But t1 is shorter than the buffer
when the page was in b1, for t1 and b1 together fit in it, and when a new page finds
them shorter; and when the page was in b2, the target has just moved by one at
least (`StepAtLeastUnit`) and is below the size of the buffer (`T2HasPage`).

BenchProofs, for every number of threads, every trace and every combination of
options:

| Theorem | States |
|---|---|
| `RequestedOnceHolds` | `Spec => []RequestedOnce` |
| `WholeTraceHolds` | `Spec => []WholeTrace` |
| `OvershootBoundedHolds` | `Spec => []OvershootBounded` |
| `WarmCountedHolds` | `Spec => []WarmCounted` |
| `CacheBackedHolds` | `Spec => []CacheBacked` |
| `ReportNotOverHolds` | `Spec => []ReportNotOver` |
| `StopHonestHolds` | `Spec => []StopHonest` |

`Moves` sums the actions up: where a step of a thread starts and leads, and what it
leaves alone. Four invariants then stand side by side. `WarmInv`: a thread on its way
to the warm-up is not marked. `StoreInv`: a value on its way to memcached is in
RocksDB already, or RocksDB refused it. `PlaceInv` includes `StartedInv`, that a
thread without a client has left and taken nothing. Of the others it says: with a
shared index, the places below it were requested once; and each place from the last of
the trace on is still that of the thread that took it, which takes no other, so that
while a thread takes one, the others bound how many there can be (`RoomLeft`, by the
pigeonhole principle). With an index each, a place belongs to the thread it is
congruent to modulo the number of threads (`Owner`, `OneOwner`), two places of one
thread are that number apart (`FarApart`), and a place was requested if its thread is
past it.

`StatsInv` is about sums. While thread 1 reads the counters, `ReadSoFar` says of each
result that is read that slot 0 is at most the sum over all threads, and of the one
being read, that it is at most the sum over the threads already read. A thread that
counts only makes these larger (`SumsAtMost`, `SumsOneMore`); one that clears its
counters must hold `stats_mutex`, which thread 1 has (`StatsMoves`). For the early
stop, `WorkInv` says that what the threads have counted, with one more for each that
has a request in hand, is at most the number of requests, which `served` sums: the
sum thread 1 decides by is one of a past moment, and the number of requests never
falls.

S3FIFOProofs, for any keys, addresses of nodes, size of the buffer and share of `S_`:

| Theorem | States |
|---|---|
| `S3FIFOInvariance` | `Spec => []IInv` |
| `CapacityHolds` | `Spec => []Capacity` |
| `TableExactHolds` | `Spec => []TableExact` |
| `AssertAlwaysHolds` | `Spec => []AssertHolds` |
| `S3FIFOImplements` | `Spec => Implements`: S3FIFO implements DemandCache |

`IInv` is the types and the sizes of the queues and, until a freed node is read,
`Good`: table and heap are each other's inverse (`Paired`), and every live node is in
`S_` or `M_`, once, or is a ghost that `G_` has (`Queued`). `Queued` has the set of
the nodes that an access or `EvictS` has in hand, so that it holds between the steps
of an access too: each operator has a lemma (`InsertGIs`, `EvictTailIs`, `TurnIs`,
...) from `Good` to `Good`, or to a freed node that was read. A stale pointer in `G_`
does no harm to the rest: what it points to, if live, is deleted only if it is a
ghost, and then no queue of pages has it. `TurnedIs` is why `EvictM` ends: each turn
takes a hit from the pages of `M_`, which have at most three each (`HitsAtMost`).

RunnerProofs, for any number of threads, traces, policies, sizes, runs, cleanings and
versions of `proto`:

| Theorem | States |
|---|---|
| `RunnerInvariance` | `Spec => []IInv` |
| `RowsRightHolds` | `Spec => []RowsRight` |
| `CleanLastsHolds` | `Spec => []CleanLasts` |
| `ResultsKeptHolds` | `Spec => ResultsKept` |

The parts of `IInv` need each other. `Apart`: no two tasks of a row, at work or ended,
have the same size; with as many entries as sizes, a row then has every size once,
and sorted it is the list of sizes (`Sorted`, by the pigeonhole principle and an
induction). `RatesRight`: a rate is what was run for the key it is kept under, in the
file, in a thread's hand and in the row; two rows with one key have one configuration
(`KeyApart`). `Unsaved`: what a thread is about to save is not in the file, for a
task runs `proto` only after it missed its key, and no other task of the row has that
key; so no result is overwritten. `Fresh`: a rate a thread has yet to save is no older
than the last cleaning of its key, since a cleaning counts only the keys no thread has
in hand.

ProtoProofs, for every raw trace, size of the buffer, and value of the parameters of
the policies:

| Theorem | States |
|---|---|
| `TraceKeptHolds` | `Spec => []TraceKept` |
| `SoundHolds` | `Spec => [](cache_policy \in Proved => Sound)` |
| `HistoryKeptHolds` | `Spec => [](cache_policy \in Proved => HistoryKept)` |
| `OptimalHolds` | `Spec => [](cache_policy \in Proved => Optimal)` |
| `ProtoImplements` | `Spec /\ cache_policy \in Proved => Implements` |

`Proved` is LRU, LFU, SRRIP, DRRIP, LRFU, EFSW and LIRS; the policy never changes.

`TraceKept` is a lemma about TraceFile. Each of the two scripts is a recursive function
of the number of requests read; the invariant along it (StructureLemmas) relates the
blocks of the lines written so far, and of the run in hand, to those of the requests
read so far.

The other four share one inductive invariant, `Inv`. `Running` has the types and says
that the trace being replayed is the one of the file; `OPTInv` is about OPT, `PolicyInv`
has one invariant per policy, and `Behind` compares the two. `TurnIs` splits an access
into that of OPT (`OPTTurn`), that of the policy and the rest. Each policy has a lemma
`...Turn` with the same conclusion: it keeps its invariant, counts a hit exactly if the
page was resident, and changes what is resident as `Demand` says, which is the step of
DemandCache.

* LRU. The list in memory stands for a sequence (`Tabled`): StructureLemmas says what
  `push`, `pop` and `remove` do to that sequence when they patch the pointers of nodes.
  Then the sequence is in the order of the last accesses (`Recent`).
* LFU, SRRIP, DRRIP. The entry `u_map_` names is the only one of its page, and the sets
  that are moved up share out the pages; a victim exists because the buffer is full.
* LRFU, EFSW. `HeapOK` says that `index_` has the place of every page in the array,
  which every exchange of the sifting keeps (`Up` and `Down`, by induction on the
  turns). It does not need the order of the heap, which the father at `index / 2` does
  not keep. For LRFU, `Scored` says that every score, brought up to date, is the decayed
  sum of the accesses of the page: a turn of the trace halves the sum and gives the page
  accessed one more (`DecayedNext`), and a score is halved exactly, since it is a
  multiple of a power of two large enough for the rest of the trace (`One`).
* LIRS. `LIRSKept` describes the containers by the sets of the pages of each type
  (`Shape`): the queue has the HIR pages, hirs_ the pages of the stack that are not LIR.
  Every list operation has a lemma from shape to shape, and every branch of an access is
  a chain of them. What keeps it from failing is `Rooms`: LIR and HIR pages have rooms of
  their own in the buffer, there are HIR pages only while that of the LIR pages is full,
  and pages remembered that left only while both are. So when a page must leave, the
  queue is not empty; and when a HIR page takes a place in the stack, there is a LIR page
  to give it up, at its end (`EndsLIR`), where pruning keeps one. With one page there is
  no room for a LIR page, and the first access fails (`OnePage`).
* OPT. `OPTPart` says that the list of a page has the places of its accesses from `ts`
  on, and that the entry of a page that will be accessed again has the first of them.
  The last entry of the set is then the page needed last (`OPTLast`).

`Optimal` itself is not inductive. `Behind` is: for every place `t` of the trace, the
hits the policy has had, with those it would still have at first accesses up to `t` if
it never evicted again (its pages among the blocks `Reached` by then), are no more than
those of OPT. With `t` the present it gives `Optimal`. A step of the policy alone never
makes its side larger, by more than its hit. When OPT evicts a page, its side falls only
for those `t` at which that page has been accessed; but it was the page needed last, so
that all of OPT's buffer has been by then, which is as much as any policy can have
(`FullLeaves`).

Induction. The library's theorems on induction and recursive functions take an
operator, which none of the provers can instantiate. But that the order of the
naturals is well-founded is stated of a set, and `LeastNatural`, `AllNaturals`
(induction) and `Recursion` (a recursive function on an interval exists) follow from
it in DataLemmas with sets and functions in the place of operators, and from
`Recursion` the lemmas `Loop` and `LoopIs`: a LET that defines a function on an
interval by recursion defines the one there is. The sums of Bench, the loops of S3FIFO
and of LIRS, the sifting of LUHeap, the reading of a trace and the order of a row in
Runner rest on them. `PowersOfTwo` comes from the number of subsets of a set, and
`Shifts` of HillProofs from it: that shifting by one place more halves a score, and by
as many as it has bits leaves nothing.

The assumptions are on the constants, and say of them what the code, its options and
its configuration do: `SizeAssumption` (one page in the top at least, no more than the
buffer), `PointsAssumption` (the number of levels), `ClockAssumption`,
`KeysAssumption`, `HalvesAssumption` and `AdaptAssumption` of HillSub, HillSubSpec and
HillReplacer; `ARCAssumption` (a size of at least one page, a unit),
`S3FIFOAssumption` (the same, and that `S_` is not given all of the buffer);
`BenchAssumption` (a trace from place 0, sizes that are not 0, and no more threads than
accesses in a report interval); `RunnerAssumption` (a trace, sizes that ascend);
`ProtoAssumption` (the types of the parameters, the bounds below which the code of
SRRIP and of the stacks of LIRS and DLIRS is undefined) and `TraceAssumption` (blocks
among `Keys`, traces of at most `Length`).

Only model-checked: of Proto, DLIRS and CACHEUS. What they promise is in the same
properties, and the run checks it; their invariants would be of the kind of that of
LIRS, over dictionaries with a copy of each entry. Out of reach
for good: `Terminates` and `RunEnds`, which are liveness under fairness.

## 5. What is abstracted, and what is not modelled

* A half-life is a whole number of accesses, rounded down; the code keeps a
  double in units of the buffer's size. The comparison with EPSILON is equality
  of the two hit counts, over the same number of accesses.
* `stats()` and all printing, the timers of `bench`, and the hit and miss counts
  of ARC and S3FIFO, which only `stats()` reads.
* The Put and Get of RocksDB are atomic; either may fail. A value is its length.
* Buffers of size 0: `proto.cpp` makes at least one page of a ratio.
* Pointers inside `std::list` and `std::unordered_map` are not modelled, nor the
  tree of a `std::set`, except that CACHEUS may put an entry wherever a tree could.
* The weights and the learning rate of CACHEUS: either expert may be drawn.
* Of the scripts, what is printed, drawn and averaged; a `proto` that fails is one
  that prints no rate.
* The file of results is that of `dbm.gnu`, which refuses at once. Another backend
  of `dbm` that does not lock, and a process killed while it writes, are left out.

Not modelled: DDHeap and DDLru, which no program uses; `Set` of LUHeap and `Peek`
of LIRS, which nothing calls; destructors; the parsing of options and of the lines
of a trace, with their errors; `process_ssd_trace` and the other processors that
write one run per line, and the analyzer, which only counts; `scripts/benchmark`,
which starts programs and parses what they print. ARC, S3FIFO and HILL are
disjuncts of `proto`'s choice too, and are checked in runs of their own, on traces
longer than Proto's.

## 6. What is left

Every replacer `proto` can make is modelled, with the containers under it, and Proto
from the raw trace on, Bench and Runner. Every safety property the runs check is
proved for every value of the constants, but for DLIRS and CACHEUS in those of Proto.
To prove next: DequeDict as LRUList was, then CACHEUS and DLIRS, whose limits move
within bounds that leave each kind of pages a room of at least one page.
