---------------------------- MODULE HillReplacer ----------------------------
(***************************************************************************)
(* HillReplacer (include/replacers/hill_replacer.h and                     *)
(* src/replacers/hill_replacer.cpp): the real buffer r, and a simulated    *)
(* one s of the same size whose half-life is a fixed fraction of r's.      *)
(* Both see every access.  At the end of every update_interval_ accesses   *)
(* their hits are compared, and the half-life of r climbs towards the      *)
(* better of the two: longer when r did better, shorter when s did.        *)
(*                                                                         *)
(* A half-life is a whole number of accesses, rounded down: the code keeps *)
(* it as a double, in units of the buffer's size.                          *)
(***************************************************************************)
EXTENDS HillSub

CONSTANTS
  UpdateInterval,      \* update_interval_
  Window,              \* 500000: hit_recorder is kept shorter than this
  StableRounds,        \* 5: how many equal rounds before a nudge
  Lambda,              \* lambda_
  BoundNum, BoundDen,  \* delta_bound_
  SimNum, SimDen,      \* simulator_ratio_
  MaxTs                \* bound on ts, which an int bounds in the code

ASSUME AdaptAssumption ==
  /\ UpdateInterval \in Nat \ {0}
  /\ Window \in Nat \ {0}
  /\ StableRounds \in Nat \ {0}
  /\ {Lambda, BoundNum, SimNum, MaxTs} \subseteq Nat
  /\ {BoundDen, SimDen} \subseteq Nat \ {0}

VARIABLES
  r, s,               \* replacer_r_ and replacer_s_
  ts,
  hit_count, miss_count,
  hit_recorder,       \* for each of the last accesses, whether r hit
  recorder_hit_count,
  stable_count

vars == <<r, s, ts, hit_count, miss_count, hit_recorder, recorder_hit_count,
          stable_count>>

-----------------------------------------------------------------------------
(* The half-life *)

\* cur_half_ * (1 + delta_ratio * lambda_) and cur_half_ / (...), where
\* delta_ratio is a / b - 1, for a >= b, but no more than delta_bound_.
Capped(a, b) == (a - b) * BoundDen > BoundNum * b
Longer(half, a, b) ==
  IF Capped(a, b) THEN (half * (BoundDen + BoundNum * Lambda)) \div BoundDen
  ELSE (half * (b + (a - b) * Lambda)) \div b
Shorter(half, a, b) ==
  IF Capped(a, b) THEN (half * BoundDen) \div (BoundDen + BoundNum * Lambda)
  ELSE (half * b) \div (b + (a - b) * Lambda)

Simulated(half) == (half * SimNum) \div SimDen

Init ==
  /\ r = New(InitHalf)
  /\ s = New(Simulated(InitHalf))
  /\ ts = 0
  /\ hit_count = 0 /\ miss_count = 0
  /\ hit_recorder = <<>> /\ recorder_hit_count = 0
  /\ stable_count = 0

-----------------------------------------------------------------------------
(* One access *)

\* r' is what is left of r after the access and the adaptation, s' after its
\* own access: s then takes its half-life from that of r.
Follow(t) == s' = UpdateHalf(t, Simulated(r'.cur_half_))

\* mutant: the hit that leaves the window is still counted
AccountForever(k) ==
  LET hit == k \in DOMAIN r.real_map_
      log == Append(hit_recorder, hit)
  IN /\ ts' = ts + 1
     /\ hit_count' = IF hit THEN hit_count + 1 ELSE hit_count
     /\ miss_count' = IF hit THEN miss_count ELSE miss_count + 1
     /\ hit_recorder' = IF Len(log) >= Window THEN Tail(log) ELSE log
     /\ recorder_hit_count' = recorder_hit_count + (IF hit THEN 1 ELSE 0)

Account(k) ==
  LET hit == k \in DOMAIN r.real_map_
      log == Append(hit_recorder, hit)
      full == Len(log) >= Window
  IN /\ ts' = ts + 1
     /\ hit_count' = IF hit THEN hit_count + 1 ELSE hit_count
     /\ miss_count' = IF hit THEN miss_count ELSE miss_count + 1
     /\ hit_recorder' = IF full THEN Tail(log) ELSE log
     /\ recorder_hit_count' =
          recorder_hit_count + (IF hit THEN 1 ELSE 0)
                             - (IF full /\ Head(log) THEN 1 ELSE 0)

\* The last access of an interval, both buffers having taken it
Due == (ts + 1) % UpdateInterval = 0

\* No comparison: the interval goes on.
Continue(rk, sk) ==
  /\ ~Due
  /\ r' = rk
  /\ Follow(sk)
  /\ UNCHANGED stable_count

\* mutant: such a round leaves the counts of s to the next one
NoEvidenceNoClear(rk, sk) ==
  /\ Due
  /\ rk.interval_hit_count_ = 0 \/ sk.interval_hit_count_ = 0
  /\ r' = ReportAndClear(rk)
  /\ Follow(sk)
  /\ UNCHANGED stable_count

\* A round in which one of the two never hit teaches nothing.
NoEvidence(rk, sk) ==
  /\ Due
  /\ rk.interval_hit_count_ = 0 \/ sk.interval_hit_count_ = 0
  /\ r' = ReportAndClear(rk)
  /\ Follow(ReportAndClear(sk))
  /\ UNCHANGED stable_count

Compare(rk, sk) ==
  Due /\ rk.interval_hit_count_ # 0 /\ sk.interval_hit_count_ # 0

\* mutant: the half-life goes the wrong way
ShortenUp(rk, sk) ==
  LET rh == rk.interval_hit_count_  sh == sk.interval_hit_count_
  IN /\ Compare(rk, sk) /\ sh > rh
     /\ r' = UpdateHalf(ReportAndClear(rk), Longer(rk.cur_half_, sh, rh))
     /\ Follow(ReportAndClear(sk))
     /\ stable_count' = 0

\* s did better: r's half-life gets shorter.
Shorten(rk, sk) ==
  LET rh == rk.interval_hit_count_  sh == sk.interval_hit_count_
  IN /\ Compare(rk, sk) /\ sh > rh
     /\ r' = UpdateHalf(ReportAndClear(rk), Shorter(rk.cur_half_, sh, rh))
     /\ Follow(ReportAndClear(sk))
     /\ stable_count' = 0

\* r did better: its half-life gets longer.
Lengthen(rk, sk) ==
  LET rh == rk.interval_hit_count_  sh == sk.interval_hit_count_
  IN /\ Compare(rk, sk) /\ rh > sh
     /\ r' = UpdateHalf(ReportAndClear(rk), Longer(rk.cur_half_, rh, sh))
     /\ Follow(ReportAndClear(sk))
     /\ stable_count' = 0

Equal(rk, sk) ==
  Compare(rk, sk) /\ rk.interval_hit_count_ = sk.interval_hit_count_

StillStable(rk, sk) ==
  /\ Equal(rk, sk)
  /\ stable_count + 1 # StableRounds
  /\ stable_count' = stable_count + 1
  /\ r' = ReportAndClear(rk)
  /\ Follow(ReportAndClear(sk))

\* Five equal rounds in a row: a step, of at most 0.1, towards init_half_.
Nudge(rk, sk) ==
  LET h == rk.cur_half_
      a == IF 10 * BoundNum > BoundDen THEN 11 ELSE BoundDen + BoundNum
      b == IF 10 * BoundNum > BoundDen THEN 10 ELSE BoundDen
  IN /\ Equal(rk, sk)
     /\ stable_count + 1 = StableRounds
     /\ stable_count' = 0
     /\ r' = UpdateHalf(ReportAndClear(rk),
                        IF h < InitHalf THEN Longer(h, a, b)
                        ELSE Shorter(h, a, b))
     /\ Follow(ReportAndClear(sk))

\* mutant: a hit returns before the simulated buffer takes the access
accessReturnsOnHit(k) ==
  LET rk == Access(r, k)
      sk == IF k \in DOMAIN r.real_map_ THEN s ELSE Access(s, k)
  IN /\ ts < MaxTs
     /\ r.ub # "no_victim" /\ s.ub # "no_victim"
     /\ Account(k)
     /\ \/ Continue(rk, sk)
        \/ NoEvidence(rk, sk)
        \/ Shorten(rk, sk)
        \/ Lengthen(rk, sk)
        \/ StillStable(rk, sk)
        \/ Nudge(rk, sk)

\* Nothing is said of a program that read an uninitialised victim.
access(k) ==
  LET rk == Access(r, k)  sk == Access(s, k)
  IN /\ ts < MaxTs
     /\ r.ub # "no_victim" /\ s.ub # "no_victim"
     /\ Account(k)
     /\ \/ Continue(rk, sk)
        \/ NoEvidence(rk, sk)
        \/ Shorten(rk, sk)
        \/ Lengthen(rk, sk)
        \/ StillStable(rk, sk)
        \/ Nudge(rk, sk)

Next == \E k \in Keys : access(k)

Spec == Init /\ [][Next]_vars

-----------------------------------------------------------------------------
(* Safety *)

\* Both buffers stay sound while each is given new half-lives between its
\* rollings: keys in the list of their level, sizes, clocks, lowest level.
BothSound == ObjectOK(r) /\ ObjectOK(s)

\* r and s see the same time, hold as many keys as each other, and have the
\* same top in the same order, whatever each of them evicts.
Lockstep ==
  /\ r.cur_ts_ = ts /\ s.cur_ts_ = ts
  /\ r.top_lru_ = s.top_lru_
  /\ Cardinality(DOMAIN r.real_map_) = Cardinality(DOMAIN s.real_map_)

\* The two rates compared are rates of the same accesses: those since the
\* last multiple of update_interval_.
SameSample ==
  \A x \in {r, s} :
    x.interval_hit_count_ + x.interval_miss_count_ = ts % UpdateInterval

\* The statistics: every access is a hit or a miss; the recorder stays under
\* its window and its count is the number of hits it holds, although the count
\* is kept by increments on both sides of the window; the count of equal
\* rounds starts again at each nudge.
Accounted ==
  /\ {hit_count, miss_count} \subseteq Nat /\ hit_count + miss_count = ts
  /\ hit_recorder \in Seq(BOOLEAN) /\ Len(hit_recorder) = Min({ts, Window - 1})
  /\ recorder_hit_count = Cardinality({ i \in DOMAIN hit_recorder :
                                          hit_recorder[i] })
  /\ stable_count \in 0 .. StableRounds - 1

\* The half-life of r changes only at the end of an interval.  It grows only
\* if r hit more than s in it, and shrinks only if s hit more; after equal
\* rounds it takes a step towards init_half_, from init_half_ itself down.
ClimbsToBetter ==
  [][ LET rh == hit_count' - hit_count + r.interval_hit_count_
          sh == s.interval_hit_count_ +
                  (IF s'.top_lru_ # <<>> /\ s'.top_lru_[1] \in DOMAIN s.real_map_
                   THEN 1 ELSE 0)
      IN /\ r'.cur_half_ # r.cur_half_ => ts' % UpdateInterval = 0
         /\ r'.cur_half_ > r.cur_half_ =>
              rh > sh \/ (rh = sh /\ r.cur_half_ < InitHalf)
         /\ r'.cur_half_ < r.cur_half_ =>
              sh > rh \/ (rh = sh /\ r.cur_half_ >= InitHalf) ]_vars

-----------------------------------------------------------------------------
(* Refinement *)

\* The real buffer implements the policy with scores halved at once, HillAbs,
\* while the adaptation moves its half-life between the accesses.
Abs == INSTANCE HillAbs
         WITH top <- r.top_lru_,
              score <- [k \in DOMAIN r.real_map_ |-> RealLevel(r, k)],
              ghost <- [k \in DOMAIN r.ghost_map_ |-> GhostLevel(r, k)]

Implements == Abs!Spec

============================================================================
