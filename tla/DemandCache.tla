---------------------------- MODULE DemandCache ----------------------------
(***************************************************************************)
(* What a replacer promises of the set of pages it keeps, whatever its     *)
(* policy.  An access leaves that set as it is, or brings one page in: into *)
(* a free place, evicting nothing, or into a full buffer, evicting one to  *)
(* Batch pages.  Which page is accessed is not part of it.                 *)
(***************************************************************************)
EXTENDS Integers, FiniteSets

CONSTANTS Keys, Batch

VARIABLES resident, Size  \* the size is fixed when the cache is made

Init == resident = {} /\ Size \in Nat

Hit(k) == k \in resident /\ UNCHANGED resident

Fill(k) ==
  /\ k \notin resident
  /\ Cardinality(resident) < Size
  /\ resident' = resident \cup {k}

Replace(k) ==
  /\ k \notin resident
  /\ Cardinality(resident) = Size
  /\ \E V \in SUBSET resident :
       /\ Cardinality(V) \in 1 .. Batch
       /\ resident' = (resident \ V) \cup {k}

Next ==
  /\ \E k \in Keys : Hit(k) \/ Fill(k) \/ Replace(k)
  /\ UNCHANGED Size

Spec == Init /\ [][Next]_<<resident, Size>>

============================================================================
