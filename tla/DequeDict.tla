----------------------------- MODULE DequeDict -----------------------------
(***************************************************************************)
(* DequeDict (include/util/deque_dict.hpp): a list of entries, the newest  *)
(* at the back, with a table from a key to its place.  Here it is the      *)
(* sequence of its entries, each with its key; the caller sees to it that  *)
(* a key that is removed or read is there.                                 *)
(***************************************************************************)
EXTENDS StdContainers

Contain(d, k) == \E i \in DOMAIN d : d[i].key = k

Place(d, k) == CHOOSE i \in DOMAIN d : d[i].key = k
EntryOf(d, k) == d[Place(d, k)]

Removed(d, k) == RemoveAt(d, Place(d, k))

\* Set, Update and Push: an entry that is there moves to the back.
Set(d, e) == Append(IF Contain(d, e.key) THEN Removed(d, e.key) ELSE d, e)

InplaceUpdate(d, e) == [d EXCEPT ![Place(d, e.key)] = e]

KeysOf(d) == { d[i].key : i \in DOMAIN d }

\* The table finds every entry: no key has two.
Dict(d) == \A i, j \in DOMAIN d : d[i].key = d[j].key => i = j

============================================================================
