------------------------------ MODULE HillSub ------------------------------
(***************************************************************************)
(* HillSubReplacer (include/replacers/hill_replacer.h): one replacement    *)
(* policy of Hill-Cache.  A resident key is either in top_lru_, an LRU     *)
(* list of the most recent keys, or in the multi-level part real_lru_,     *)
(* one list per score.  A score is halved at every "rolling" of the        *)
(* levels; the entry of a key is not touched by a rolling: the current     *)
(* score is recomputed from insert_level, insert_ts and the time stamps of *)
(* the last rollings (GetCurrentLevel).  A victim leaves the lowest        *)
(* non-empty level and may be remembered, with its score, in the ghost.    *)
(*                                                                         *)
(* The object is one record whose fields keep the names of the class, and  *)
(* every method is an operator from that record to the next one, so that   *)
(* HillReplacer can hold two of them.                                      *)
(***************************************************************************)
EXTENDS StdContainers

CONSTANTS
  Keys,           \* the blocks of the trace
  Size,           \* size_
  LruSize,        \* lru_size_ = max(1, top_ratio * size_)
  MaxPointsBits,  \* max_points_bits_
  MaxPoints,      \* max_points_ = (1 << max_points_bits_) - 1
  GhostSize,      \* ghost_size_
  HitPoints,      \* hit_points_, which an int takes
  MruThreshold,   \* mru_threshold_ after the constructor: -1 stands for 0
  InitHalf,       \* the initial half-life, in accesses: init_half_ * size_
  HalfCap,        \* 1e14, the upper clamp of UpdateHalf, in accesses
  IntMax          \* INT32_MAX

Levels == 0 .. MaxPoints - 1

\* l >> n, for the non-negative scores
Shr(l, n) == l \div 2^n

ASSUME SizeAssumption ==
  /\ Size \in Nat \ {0}
  /\ LruSize \in 1 .. Size
  /\ GhostSize \in Nat

ASSUME PointsAssumption ==
  /\ MaxPointsBits \in Nat \ {0}
  /\ MaxPoints \in Nat \ {0}
  /\ MaxPoints = 2^MaxPointsBits - 1
  /\ HitPoints \in Nat
  /\ MruThreshold \in Int

ASSUME ClockAssumption ==
  /\ InitHalf \in Nat
  /\ HalfCap \in Nat \ {0}
  /\ IntMax \in Nat

ASSUME KeysAssumption == IsFiniteSet(Keys)

-----------------------------------------------------------------------------
(* Entries and levels *)

\* HillEntry: the list iterator of an entry is the key's place in its list.
Entry == [insert_level : Levels, insert_ts : Nat, h_recency : BOOLEAN]

\* The tables real_map_ and ghost_map_
IsEntryMap(m) == DOMAIN m \subseteq Keys /\ m \in [DOMAIN m -> Entry]

\* The non-empty levels from level m up, and the level a scan upwards stops
\* at: max_points_ when it meets none.
NonEmptyFrom(lru, m) == { l \in Levels : l >= m /\ lru[l] # <<>> }
FirstNonEmpty(lru, m) ==
  LET ne == NonEmptyFrom(lru, m) IN IF ne = {} THEN MaxPoints ELSE Min(ne)

-----------------------------------------------------------------------------
(* The clock of the rollings *)

\* A double converted to int32_t: out of range, x86 yields INT32_MIN.
ToInt(x) == IF x > IntMax THEN -IntMax - 1 ELSE x

\* x + y on int32_t, for y of either sign and x non-negative: it wraps.
AddInt(x, y) == IF y > IntMax - x THEN (x - IntMax - 1) + (y - IntMax - 1)
                ELSE x + y

\* The half-life, clamped to [1, 1e14] accesses, starts from the last rolling.
UpdateHalf(s, half) ==
  LET h == IF half < 1 THEN 1 ELSE IF half > HalfCap THEN HalfCap ELSE half
  IN [s EXCEPT !.cur_half_ = h,
               !.next_rolling_ts_ = AddInt(s.prev_rolling_ts_, ToInt(h))]

ReportAndClear(s) ==
  [s EXCEPT !.interval_hit_count_ = 0, !.interval_miss_count_ = 0]

\* mutant: the distance is one short
RollsSinceShort(s, ts) ==
  LET later == { i \in DOMAIN s.rolling_ts : ts < s.rolling_ts[i] }
  IN IF later = {} THEN 0 ELSE Len(s.rolling_ts) - Min(later)

\* How many of the rollings remembered came after ts
RollsSince(s, ts) ==
  LET later == { i \in DOMAIN s.rolling_ts : ts < s.rolling_ts[i] }
  IN IF later = {} THEN 0 ELSE Len(s.rolling_ts) - Min(later) + 1

GetCurrentLevel(s, e) == Shr(e.insert_level, RollsSince(s, e.insert_ts))

\* Level i is spliced into level i / 2, for i ascending: behind what is
\* there, or before it when mru_threshold_ is -1.
HalveLevels(lru) ==
  LET at(i) == IF i \in Levels THEN lru[i] ELSE <<>>
  IN [j \in Levels |-> IF MruThreshold # -1 THEN at(2*j) \o at(2*j + 1)
                       ELSE at(2*j + 1) \o at(2*j)]

\* mutant: min_level_non_empty_ does not follow the levels down
RollingKeepsMin(s) ==
  LET stamps == Append(s.rolling_ts, s.cur_ts_)
  IN [s EXCEPT
        !.real_lru_ = HalveLevels(@),
        !.next_rolling_ts_ = ToInt(s.cur_ts_ + s.cur_half_),
        !.prev_rolling_ts_ = s.cur_ts_,
        !.rolling_ts = IF Len(stamps) > MaxPointsBits THEN Tail(stamps)
                       ELSE stamps]

Rolling(s) ==
  LET moved == NonEmptyFrom(s.real_lru_, 1)
      lowest == IF moved = {} THEN s.min_level_non_empty_
                ELSE Min({s.min_level_non_empty_, Min(moved) \div 2})
      stamps == Append(s.rolling_ts, s.cur_ts_)
  IN [s EXCEPT
        !.real_lru_ = HalveLevels(@),
        !.min_level_non_empty_ = lowest,
        !.next_rolling_ts_ = ToInt(s.cur_ts_ + s.cur_half_),
        !.prev_rolling_ts_ = s.cur_ts_,
        !.rolling_ts = IF Len(stamps) > MaxPointsBits THEN Tail(stamps)
                       ELSE stamps]

-----------------------------------------------------------------------------
(* Eviction *)

\* The victim leaves the front of its level (MRU) up to mru_threshold_.
Mru(s) == s.min_level_non_empty_ <= MruThreshold

VictimLevel(s) ==
  IF Mru(s) THEN FirstNonEmpty(s.real_lru_, s.min_level_non_empty_)
  ELSE s.min_level_non_empty_

\* Otherwise evict_key and evict_level are read before they are assigned, or
\* back() is taken of a list that is empty or that does not exist.
VictimExists(s) ==
  LET l == VictimLevel(s)
  IN /\ l \in Levels
     /\ s.real_lru_[l] # <<>>
     /\ Mru(s) => s.real_map_[Head(s.real_lru_[l])].insert_ts > 0

Victim(s) == LET q == s.real_lru_[VictimLevel(s)]
             IN IF Mru(s) THEN Head(q) ELSE Last(q)

\* mutant: the victim takes its place at the wrong end of the ghost
PushGhostBack(s, k, l) ==
  LET full == Cardinality(DOMAIN s.ghost_map_) >= GhostSize
      lru == IF full THEN Front(s.ghost_lru_) ELSE s.ghost_lru_
      map == IF full THEN Drop(s.ghost_map_, Last(s.ghost_lru_))
             ELSE s.ghost_map_
      e == [insert_level |-> l, insert_ts |-> s.cur_ts_, h_recency |-> FALSE]
  IN [s EXCEPT !.ghost_lru_ = Append(lru, k), !.ghost_map_ = Put(map, k, e)]

\* mutant: the key remembered is stamped with the start of time
PushGhostUnstamped(s, k, l) ==
  LET full == Cardinality(DOMAIN s.ghost_map_) >= GhostSize
      lru == IF full THEN Front(s.ghost_lru_) ELSE s.ghost_lru_
      map == IF full THEN Drop(s.ghost_map_, Last(s.ghost_lru_))
             ELSE s.ghost_map_
      e == [insert_level |-> l, insert_ts |-> 0, h_recency |-> FALSE]
  IN [s EXCEPT !.ghost_lru_ = <<k>> \o lru, !.ghost_map_ = Put(map, k, e)]

\* The ghost makes room by forgetting its oldest key.
PushGhost(s, k, l) ==
  LET full == Cardinality(DOMAIN s.ghost_map_) >= GhostSize
      lru == IF full THEN Front(s.ghost_lru_) ELSE s.ghost_lru_
      map == IF full THEN Drop(s.ghost_map_, Last(s.ghost_lru_))
             ELSE s.ghost_map_
      e == [insert_level |-> l, insert_ts |-> s.cur_ts_, h_recency |-> FALSE]
  IN [s EXCEPT !.ghost_lru_ = <<k>> \o lru, !.ghost_map_ = Put(map, k, e)]

\* The victim leaves the multi-level part, and min_level_non_empty_ moves up
\* to the next level in use.  That loop has no bound: when no level is left
\* it runs off the end of real_lru_.  It may crash, or stop at any index past
\* the end; all those indices compare alike, max_points_ stands for them.
Unlink(s) ==
  LET l == VictimLevel(s)
      q == s.real_lru_[l]
      lru == [s.real_lru_ EXCEPT ![l] = IF Mru(s) THEN Tail(q) ELSE Front(q)]
      m == s.min_level_non_empty_
  IN [s EXCEPT
        !.real_lru_ = lru,
        !.real_map_ = Drop(@, Victim(s)),
        !.min_level_non_empty_ = FirstNonEmpty(lru, m),
        !.ub = IF NonEmptyFrom(lru, m) = {} THEN "evict_scan" ELSE @]

\* A key of level 0 is not worth remembering.
Evict(s) ==
  IF ~VictimExists(s) THEN [s EXCEPT !.ub = "no_victim"]
  ELSE IF GhostSize # 0 /\ VictimLevel(s) # 0
       THEN PushGhost(Unlink(s), Victim(s), VictimLevel(s))
       ELSE Unlink(s)

\* mutant: the buffer makes room one key too late
EvictIfOverfull(s) ==
  IF Cardinality(DOMAIN s.real_map_) = Size + 1 THEN Evict(s) ELSE s

EvictIfFull(s) ==
  IF Cardinality(DOMAIN s.real_map_) = Size THEN Evict(s) ELSE s

-----------------------------------------------------------------------------
(* Access *)

\* A hit: the key leaves the list that holds it.
EraseTop(s, k) ==
  [s EXCEPT !.top_lru_ = Erase(@, k), !.top_lru_size_ = @ - 1,
            !.real_map_ = Drop(@, k), !.interval_hit_count_ = @ + 1]

\* mutant: a hit empties the lowest level and min_level_non_empty_ stays
EraseLevelNoScan(s, k) ==
  LET l == GetCurrentLevel(s, s.real_map_[k])
  IN [s EXCEPT !.real_lru_[l] = Erase(@, k), !.real_map_ = Drop(@, k),
               !.interval_hit_count_ = @ + 1]

\* The scan upwards tests a level before the bound: when no level is left, it
\* reads real_lru_[max_points_] and stops at max_points_, whatever it read.
EraseLevel(s, k) ==
  LET l == GetCurrentLevel(s, s.real_map_[k])
      lru == [s.real_lru_ EXCEPT ![l] = Erase(@, k)]
      m == s.min_level_non_empty_
  IN [s EXCEPT !.real_lru_ = lru, !.real_map_ = Drop(@, k),
               !.min_level_non_empty_ = FirstNonEmpty(lru, m),
               !.interval_hit_count_ = @ + 1,
               !.ub = IF NonEmptyFrom(lru, m) = {} THEN "hit_scan" ELSE @]

EraseReal(s, k) ==
  IF s.real_map_[k].h_recency THEN EraseTop(s, k) ELSE EraseLevel(s, k)

\* A key in the top keeps its score; below, it decays.
RealLevel(s, k) ==
  LET e == s.real_map_[k]
  IN IF e.h_recency THEN e.insert_level ELSE GetCurrentLevel(s, e)

\* A miss: the key leaves the ghost if it is there.
EraseGhost(s, k) ==
  LET gone == k \in DOMAIN s.ghost_map_
  IN [s EXCEPT !.ghost_lru_ = IF gone THEN Erase(@, k) ELSE @,
               !.ghost_map_ = IF gone THEN Drop(@, k) ELSE @,
               !.interval_miss_count_ = @ + 1]

GhostLevel(s, k) ==
  IF k \in DOMAIN s.ghost_map_ THEN GetCurrentLevel(s, s.ghost_map_[k]) ELSE 0

\* mutant: the key demoted keeps the time stamp it had in the top
DemoteTopUnstamped(s) ==
  IF s.top_lru_size_ < LruSize THEN s
  ELSE LET k == Last(s.top_lru_)
           l == s.real_map_[k].insert_level
           e == [s.real_map_[k] EXCEPT !.h_recency = FALSE]
       IN [s EXCEPT !.real_lru_[l] = <<k>> \o @,
                    !.real_map_ = Put(@, k, e),
                    !.min_level_non_empty_ = IF l < @ THEN l ELSE @,
                    !.top_lru_ = Front(@),
                    !.top_lru_size_ = @ - 1]

\* A full top gives its least recent key to the level of its score.
DemoteTop(s) ==
  IF s.top_lru_size_ < LruSize THEN s
  ELSE LET k == Last(s.top_lru_)
           l == s.real_map_[k].insert_level
           e == [insert_level |-> l, insert_ts |-> s.cur_ts_,
                 h_recency |-> FALSE]
       IN [s EXCEPT !.real_lru_[l] = <<k>> \o @,
                    !.real_map_ = Put(@, k, e),
                    !.min_level_non_empty_ = IF l < @ THEN l ELSE @,
                    !.top_lru_ = Front(@),
                    !.top_lru_size_ = @ - 1]

PushTop(s, k, l) ==
  LET e == [insert_level |-> l, insert_ts |-> s.cur_ts_, h_recency |-> TRUE]
  IN [s EXCEPT !.top_lru_ = <<k>> \o @, !.top_lru_size_ = @ + 1,
               !.real_map_ = Put(@, k, e), !.cur_ts_ = @ + 1]

RollIfDue(s) == IF s.cur_ts_ >= s.next_rolling_ts_ THEN Rolling(s) ELSE s

\* mutant: a score may reach max_points_
CapOver(l) == IF l > MaxPoints THEN MaxPoints ELSE l

Cap(l) == IF l > MaxPoints - 1 THEN MaxPoints - 1 ELSE l

Insert(s, k, l) == RollIfDue(PushTop(DemoteTop(s), k, Cap(HitPoints + l)))

\* mutant: the ghost is asked before the eviction
AccessMissAskFirst(s, k) ==
  LET room == EvictIfFull(EraseGhost(s, k))
  IN IF room.ub = "no_victim" THEN room ELSE Insert(room, k, GhostLevel(s, k))

\* The ghost is asked after the eviction, which may have made it forget k.
AccessMiss(s, k) ==
  LET room == EvictIfFull(s)
  IN IF room.ub = "no_victim" THEN room
     ELSE Insert(EraseGhost(room, k), k, GhostLevel(room, k))

AccessHit(s, k) == Insert(EraseReal(s, k), k, RealLevel(s, k))

Access(s, k) ==
  IF k \in DOMAIN s.real_map_ THEN AccessHit(s, k) ELSE AccessMiss(s, k)

New(half) ==
  UpdateHalf(
    [real_lru_ |-> [l \in Levels |-> <<>>], top_lru_ |-> <<>>,
     ghost_lru_ |-> <<>>, top_lru_size_ |-> 0,
     real_map_ |-> NoEntries, ghost_map_ |-> NoEntries,
     min_level_non_empty_ |-> MaxPoints,
     cur_ts_ |-> 0, prev_rolling_ts_ |-> 0, next_rolling_ts_ |-> IntMax,
     rolling_ts |-> <<>>, cur_half_ |-> half,
     interval_hit_count_ |-> 0, interval_miss_count_ |-> 0,
     ub |-> "none"], half)

-----------------------------------------------------------------------------
(* What holds of the object between two calls, in named parts *)

\* The type of the object
StateOK(s) ==
  /\ s \in [real_lru_ : [Levels -> Seq(Keys)],
            top_lru_ : Seq(Keys), ghost_lru_ : Seq(Keys), top_lru_size_ : Nat,
            real_map_ : {s.real_map_}, ghost_map_ : {s.ghost_map_},
            min_level_non_empty_ : 0 .. MaxPoints,
            cur_ts_ : Nat, prev_rolling_ts_ : Nat, next_rolling_ts_ : Int,
            rolling_ts : Seq(Nat), cur_half_ : Nat,
            interval_hit_count_ : Nat, interval_miss_count_ : Nat,
            ub : {"none", "hit_scan", "evict_scan", "no_victim"}]
  /\ IsEntryMap(s.real_map_)
  /\ IsEntryMap(s.ghost_map_)

TopKeys(s) == { k \in DOMAIN s.real_map_ : s.real_map_[k].h_recency }
LevelKeys(s) == { k \in DOMAIN s.real_map_ : ~s.real_map_[k].h_recency }

\* h_recency says which part holds a key, and the list of the ghost holds
\* the keys of its table.
PartsOK(s) ==
  /\ Lists(s.top_lru_, TopKeys(s))
  /\ Lists(s.ghost_lru_, DOMAIN s.ghost_map_)
  /\ DOMAIN s.real_map_ \cap DOMAIN s.ghost_map_ = {}

\* The level computed from the time stamps is the level that holds the key.
LevelsOK(s) ==
  \A l \in Levels :
    Lists(s.real_lru_[l], { k \in LevelKeys(s) :
                              GetCurrentLevel(s, s.real_map_[k]) = l })

\* Neither part nor the ghost outgrows its size; a key is only demoted from
\* a full top.
SizesOK(s) ==
  /\ s.top_lru_size_ = Len(s.top_lru_)
  /\ s.top_lru_size_ <= LruSize
  /\ LevelKeys(s) # {} => s.top_lru_size_ = LruSize
  /\ Cardinality(DOMAIN s.real_map_) <= Size
  /\ Cardinality(DOMAIN s.ghost_map_) <= GhostSize

\* min_level_non_empty_ is what its name says, max_points_ when no level is.
MinOK(s) == s.min_level_non_empty_ = FirstNonEmpty(s.real_lru_, 0)

\* The stamps of the rollings increase up to prev_rolling_ts_.
StampsOK(s) ==
  LET r == s.rolling_ts
  IN /\ Len(r) <= MaxPointsBits
     /\ \A i, j \in DOMAIN r : i < j => r[i] < r[j]
     /\ IF r = <<>> THEN s.prev_rolling_ts_ = 0
        ELSE s.prev_rolling_ts_ = Last(r)
     /\ s.prev_rolling_ts_ <= s.cur_ts_

\* Every entry was written before ts, those below the top not at time 0.
WrittenBefore(s, ts) ==
  /\ \A k \in DOMAIN s.real_map_ : s.real_map_[k].insert_ts < ts
  /\ \A k \in DOMAIN s.ghost_map_ : s.ghost_map_[k].insert_ts < ts
  /\ \A k \in LevelKeys(s) : s.real_map_[k].insert_ts > 0

ClockOK(s) == StampsOK(s) /\ WrittenBefore(s, s.cur_ts_)

\* All of these
ObjectOK(s) ==
  /\ StateOK(s) /\ PartsOK(s) /\ LevelsOK(s)
  /\ SizesOK(s) /\ MinOK(s) /\ ClockOK(s)

\* Every eviction found a victim, and its scan ended inside real_lru_.
EvictionsOK(s) == s.ub \notin {"evict_scan", "no_victim"}

\* The list q is in the order of the stamps of its keys, the last one first.
LastFirst(q, m) ==
  \A i, j \in DOMAIN q : i < j => m[q[i]].insert_ts > m[q[j]].insert_ts

OrderOK(s) ==
  LastFirst(s.top_lru_, s.real_map_) /\ LastFirst(s.ghost_lru_, s.ghost_map_)

============================================================================
