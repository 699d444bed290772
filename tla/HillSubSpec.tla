---------------------------- MODULE HillSubSpec ----------------------------
(***************************************************************************)
(* One HillSubReplacer driven by any sequence of the calls HillReplacer    *)
(* makes to it: an access, a new half-life, a report of the interval.      *)
(***************************************************************************)
EXTENDS HillSub

CONSTANTS
  Halves,  \* the half-lives, in accesses, UpdateHalf may be given
  MaxCurTs    \* bound on cur_ts_, which an int32_t bounds in the code

ASSUME HalvesAssumption == Halves \subseteq Nat /\ MaxCurTs \in Nat

VARIABLE sub

SubInit == sub = New(InitHalf)

\* Nothing is said of a program that read an uninitialised victim.
AccessKey ==
  /\ sub.cur_ts_ < MaxCurTs
  /\ sub.ub # "no_victim"
  /\ \E k \in Keys : sub' = Access(sub, k)

SetHalf == \E h \in Halves : sub' = UpdateHalf(sub, h)

Report == sub' = ReportAndClear(sub)

SubNext == AccessKey \/ SetHalf \/ Report

SubSpec == SubInit /\ [][SubNext]_sub

-----------------------------------------------------------------------------
(* Safety *)

\* Every field of the class keeps its type.
TypeOK == StateOK(sub)

\* A resident key is in exactly one list, the one its entry names, across
\* hits, demotions, evictions and rollings that splice whole levels without
\* touching the entries; the ghost never holds a resident key.
Partition == PartsOK(sub) /\ LevelsOK(sub)

\* The buffer, its top and the ghost keep within their sizes.
Capacity == SizesOK(sub)

\* min_level_non_empty_ is the lowest score in use after every call, although
\* five places of the code move it, each by its own rule.
MinLevelExact == MinOK(sub)

\* The top and the ghost are in the order of their time stamps, so that the
\* key demoted is the least recent and the key forgotten the oldest eviction.
RecencyOrdered == OrderOK(sub)

\* All time stamps are ordered: those of the rollings, which GetCurrentLevel
\* counts from the stamp of an entry, and those of the top and of the ghost.
StampsOrdered == ClockOK(sub) /\ RecencyOrdered

\* With two or more pages under the top, an eviction always finds a victim
\* and its scan for the next level always ends inside real_lru_, also after
\* a hit whose own scan did not.
EvictSafe == Size - LruSize >= 2 => EvictionsOK(sub)

\* hill_replacer.h:85: the first scan after a hit that reads past the last level
\* is that of a hit on the only page under the top, however the levels were
\* moved before; any other page there would have stopped it, for none is below
\* min_level_non_empty_.
HitScanAlone ==
  [][sub.ub # "hit_scan" /\ sub'.ub = "hit_scan" =>
       Cardinality(LevelKeys(sub)) = 1]_sub

\* README.md:26: an integer buffer size is a size; a buffer of any size never
\* scans for a level past the last one.
ScanInBounds == sub.ub # "evict_scan"

-----------------------------------------------------------------------------
(* Refinement *)

\* The object implements the policy with scores halved at once: HillAbs.
SubAbs == INSTANCE HillAbs
         WITH top <- sub.top_lru_,
              score <- [k \in DOMAIN sub.real_map_ |-> RealLevel(sub, k)],
              ghost <- [k \in DOMAIN sub.ghost_map_ |-> GhostLevel(sub, k)]

SubImplements == SubAbs!Spec

============================================================================
