------------------------------ MODULE HillAbs ------------------------------
(***************************************************************************)
(* What one Hill-Cache policy promises, without lists per level, time      *)
(* stamps or lazy scores: the most recent keys are kept in order, every    *)
(* key has a score, a hit adds to it, a rolling halves at once every score *)
(* that is not in the top, and the victim has the lowest score below the   *)
(* top.  Which of the lowest is evicted, what the ghost forgets when it is *)
(* full and when the levels roll are left open.                            *)
(***************************************************************************)
EXTENDS StdContainers

CONSTANTS Keys, Size, LruSize, MaxPoints, GhostSize, HitPoints

VARIABLES
  top,    \* the most recent keys, the last one first
  score,  \* the score of each resident key
  ghost   \* the score of each key remembered after its eviction

vars == <<top, score, ghost>>

Init == top = <<>> /\ score = NoEntries /\ ghost = NoEntries

Below == DOMAIN score \ ToSet(top)

\* The score of a key after one more access, if f says what it was
Raised(f, k) ==
  LET p == HitPoints + (IF k \in DOMAIN f THEN f[k] ELSE 0)
  IN IF p > MaxPoints - 1 THEN MaxPoints - 1 ELSE p

\* k becomes the most recent key; with the top full, its last key goes below.
NextTop(k) ==
  LET others == IF k \in ToSet(top) THEN Erase(top, k) ELSE top
  IN top' = <<k>> \o (IF Len(others) < LruSize THEN others ELSE Front(others))

\* The new scores are s and g, or, if the levels roll, their halves.
RollOrNot(s, g) ==
  \/ score' = s /\ ghost' = g
  \/ /\ score' = [j \in DOMAIN s |-> IF j \in ToSet(top') THEN s[j]
                                     ELSE s[j] \div 2]
     /\ ghost' = [j \in DOMAIN g |-> g[j] \div 2]

Hit(k) ==
  /\ k \in DOMAIN score
  /\ NextTop(k)
  /\ RollOrNot(Put(score, k, Raised(score, k)), ghost)

\* g is the ghost by the time it is asked about k.
Admit(k, s, g) ==
  /\ NextTop(k)
  /\ RollOrNot(Put(s, k, Raised(g, k)), Drop(g, k))

MissWithRoom(k) ==
  /\ k \notin DOMAIN score
  /\ Cardinality(DOMAIN score) < Size
  /\ Admit(k, score, ghost)

\* The ghost with v added, after it forgot a key if it was full
Remember(v) ==
  IF GhostSize = 0 \/ score[v] = 0 THEN {ghost}
  ELSE { Put(g, v, score[v]) :
           g \in IF Cardinality(DOMAIN ghost) < GhostSize THEN {ghost}
                 ELSE { Drop(ghost, f) : f \in DOMAIN ghost } }

MissWithVictim(k) ==
  /\ k \notin DOMAIN score
  /\ Cardinality(DOMAIN score) = Size
  /\ \E v \in Below :
       /\ \A j \in Below : score[v] <= score[j]
       /\ \E g \in Remember(v) : Admit(k, Drop(score, v), g)

Next == \E k \in Keys : Hit(k) \/ MissWithRoom(k) \/ MissWithVictim(k)

Spec == Init /\ [][Next]_vars

============================================================================
