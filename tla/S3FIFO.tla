------------------------------- MODULE S3FIFO -------------------------------
(***************************************************************************)
(* S3FIFOReplacer (include/replacers/s3fifo_replacer.h): a small queue S_  *)
(* of new pages, a main queue M_ and a ghost queue G_, which hold pointers *)
(* to nodes that table_ finds by key.  A ghost has a negative freq.        *)
(*                                                                         *)
(* A hit on a ghost moves its node to M_ and leaves the pointer in G_, so  *)
(* pointers to freed nodes are modelled: heap is the set of live nodes,    *)
(* and a new node may take the place of any freed one.  hit_count_,        *)
(* miss_count_ and ts only feed stats(); they are left out.                *)
(***************************************************************************)
EXTENDS StdContainers

CONSTANTS
  Keys, Nodes,
  buffer_size,
  Share  \* 10: one page in Share is for S_

target_len_s_ == buffer_size \div Share
target_len_m_ == buffer_size - target_len_s_

ASSUME S3FIFOAssumption ==
  /\ buffer_size \in Nat \ {0}
  /\ Share \in Nat \ {0, 1}
  /\ IsFiniteSet(Keys) /\ IsFiniteSet(Nodes)

VARIABLE q  \* the queues S_, M_, G_ from front to back, table_, heap and ub

\* ub: "freed", a freed node was read; "assert", the assertion of EvictM failed;
\* "endless", its loop does not end
Init == q = [S_ |-> <<>>, M_ |-> <<>>, G_ |-> <<>>,
             table_ |-> NoEntries, heap |-> NoEntries, ub |-> "none"]

Live(s, n) == n \in DOMAIN s.heap
freq(s, n) == s.heap[n].freq

-----------------------------------------------------------------------------
(* The queues *)

SetFreq(s, n, f) == [s EXCEPT !.heap[n].freq = f]

\* mutant: the table still finds the node
DeleteUntabled(s, n) == [s EXCEPT !.heap = Drop(@, n)]

\* table_.erase(node->key) and delete node
Delete(s, n) ==
  [s EXCEPT !.table_ = Drop(@, s.heap[n].key), !.heap = Drop(@, n)]

InsertM(s, n) == [SetFreq(s, n, 0) EXCEPT !.M_ = <<n>> \o @]

\* The tail of a full ghost queue is dropped; it is deleted if it still is
\* a ghost, which takes a look at the node.
DropGhost(s) ==
  LET n == Last(s.G_)
      t == [s EXCEPT !.G_ = Front(@)]
  IN IF ~Live(s, n) THEN [t EXCEPT !.ub = "freed"]
     ELSE IF freq(s, n) < 0 THEN Delete(t, n) ELSE t

InsertG(s, n) ==
  LET t == IF Len(s.G_) = target_len_m_ THEN DropGhost(s) ELSE s
  IN IF t.ub # "none" THEN t
     ELSE [SetFreq(t, n, -1) EXCEPT !.G_ = <<n>> \o @]

\* The tail of M_ goes round with one hit less, if it has any.
Turn(s) ==
  LET n == Last(s.M_)
  IN IF freq(s, n) > 0
     THEN [SetFreq(s, n, freq(s, n) - 1) EXCEPT !.M_ = <<n>> \o Front(@)]
     ELSE s

\* Pages of at most three hits have no more turns than this.
MaxTurns(s) == 3 * Len(s.M_)

Turned(s) ==
  LET turn[i \in 0 .. MaxTurns(s)] == IF i = 0 THEN s ELSE Turn(turn[i - 1])
  IN turn[MaxTurns(s)]

\* The first tail of M_ that has no hit left is deleted.  "endless": none has
\* after all those turns, so that the loop would not end.
EvictM(s) ==
  LET t == Turned(s)
      n == Last(t.M_)
  IN IF s.M_ = <<>> THEN [s EXCEPT !.ub = "assert"]
     ELSE IF freq(t, n) > 0 THEN [t EXCEPT !.ub = "endless"]
     ELSE Delete([t EXCEPT !.M_ = Front(@)], n)

EvictTail(s) ==
  LET n == Last(s.S_)
      t == [s EXCEPT !.S_ = Front(@)]
  IN IF s.S_ = <<>> \/ s.ub # "none" THEN s
     ELSE IF freq(s, n) > 0 THEN InsertM(t, n) ELSE InsertG(t, n)

\* All of S_ leaves, the pages that were hit for M_.
EvictS(s) ==
  LET left[i \in 0 .. Len(s.S_)] == IF i = 0 THEN s ELSE EvictTail(left[i - 1])
  IN left[Len(s.S_)]

Full(s) == Len(s.S_) + Len(s.M_) >= buffer_size /\ s.ub = "none"

Evict(s) == IF Len(s.M_) >= target_len_m_ \/ s.S_ = <<>> THEN EvictM(s) ELSE EvictS(s)

\* mutants: one page too many; M_ is asked for a page it may not have
EnsureRoundLate(s) ==
  IF Len(s.S_) + Len(s.M_) > buffer_size /\ s.ub = "none" THEN Evict(s) ELSE s
EnsureRoundFromM(s) == IF Full(s) THEN EvictM(s) ELSE s

EnsureRound(s) == IF Full(s) THEN Evict(s) ELSE s

\* The loop goes round twice at most: EvictM makes room, and when EvictS does
\* not, S_ is empty and EvictM comes next.
EnsureFree(s) == EnsureRound(EnsureRound(s))

-----------------------------------------------------------------------------
(* access *)

Hit(key) ==
  /\ key \in DOMAIN q.table_
  /\ freq(q, q.table_[key]) >= 0
  /\ LET n == q.table_[key]
     IN q' = SetFreq(q, n, Min({freq(q, n) + 1, 3}))

\* mutant: a ghost comes back without a page making room
HitGhostNoRoom(key) ==
  /\ key \in DOMAIN q.table_
  /\ freq(q, q.table_[key]) < 0
  /\ q' = InsertM(q, q.table_[key])

\* The pointer in G_ stays where it is.
HitGhost(key) ==
  /\ key \in DOMAIN q.table_
  /\ freq(q, q.table_[key]) < 0
  /\ LET n == q.table_[key]
         s == EnsureFree(SetFreq(q, n, 0))
     IN q' = IF s.ub # "none" THEN s ELSE InsertM(s, n)

\* A new node may be at the address of any node that is not live.
Miss(key) ==
  /\ key \notin DOMAIN q.table_
  /\ \E n \in Nodes \ DOMAIN q.heap :
       LET s == EnsureFree([q EXCEPT !.table_ = Put(@, key, n),
                                     !.heap = Put(@, n, [key |-> key,
                                                         freq |-> 0])])
       IN q' = IF s.ub # "none" THEN s ELSE [s EXCEPT !.S_ = <<n>> \o @]

\* Nothing is said of a program that read a freed node.
access(key) == q.ub = "none" /\ (Hit(key) \/ HitGhost(key) \/ Miss(key))

Next == \E key \in Keys : access(key)

Spec == Init /\ [][Next]_q

-----------------------------------------------------------------------------
(* Safety *)

Cached == ToSet(q.S_) \cup ToSet(q.M_)

\* Neither the buffer nor the ghost queue holds more than its size, and no node
\* is counted more than three times nor less than as a ghost.
Capacity ==
  /\ Len(q.S_) + Len(q.M_) <= buffer_size
  /\ Len(q.G_) <= target_len_m_
  /\ \A n \in DOMAIN q.heap : q.heap[n] \in [key : Keys, freq : -1 .. 3]

\* Until a freed node is read, table_ finds exactly the live nodes, one per
\* key, and no node leaks: a node is in S_ or M_, once, or it is a ghost that
\* G_ can still reach.  Stale pointers in G_ never break this.
TableExact ==
  q.ub = "none" =>
    /\ \A k \in DOMAIN q.table_ : Live(q, q.table_[k])
                                  /\ q.heap[q.table_[k]].key = k
    /\ \A n \in DOMAIN q.heap : /\ q.heap[n].key \in DOMAIN q.table_
                                /\ q.table_[q.heap[n].key] = n
    /\ IsInjective(q.S_ \o q.M_)
    /\ Cached = { n \in DOMAIN q.heap : freq(q, n) >= 0 }
    /\ DOMAIN q.heap \subseteq Cached \cup ToSet(q.G_)

\* assert(false) in EvictM is never reached, M_ having a page when it is asked
\* for one, and the loop before it ends: every page runs out of hits.
AssertHolds == q.ub \notin {"assert", "endless"}

\* README.md:25 offers S3FIFO as a policy for any trace: it never reads a node
\* that it deleted.
FreedNeverRead == q.ub # "freed"

-----------------------------------------------------------------------------
(* Refinement *)

\* Until a freed node is read, S3FIFO is a cache that evicts on a miss, from
\* a full buffer; but not one page only: all of S_ may go at once.
Cache == INSTANCE DemandCache
           WITH resident <- { q.heap[n].key : n \in Cached \cap DOMAIN q.heap },
                Size <- buffer_size, Batch <- buffer_size

Implements ==
  [][ q'.ub = "none" => Cache!Next ]_(Cached \cap DOMAIN q.heap)

============================================================================
