--------------------------- MODULE StdContainers ---------------------------
(***************************************************************************)
(* The containers of the C++ standard library as the replacers use them.   *)
(* A std::list is a sequence whose first element is its front; the         *)
(* iterator a table keeps for a key is the key's place in its list.  A     *)
(* std::unordered_map is a function on the set of its keys.                *)
(*                                                                         *)
(* The operators on sequences are those of SequencesExt, under its names   *)
(* and as it defines them.  They are written out because Proto takes every *)
(* replacer by INSTANCE, which copies all that the replacer reaches: with  *)
(* SequencesExt among it, a proof about Proto takes six times as long.     *)
(***************************************************************************)
EXTENDS Integers, Sequences, FiniteSets, FiniteSetsExt

ToSet(s) == {s[i] : i \in DOMAIN s}
Last(s) == s[Len(s)]
Front(s) == SubSeq(s, 1, Len(s) - 1)
RemoveAt(s, i) == SubSeq(s, 1, i - 1) \o SubSeq(s, i + 1, Len(s))
InsertAt(s, i, e) == SubSeq(s, 1, i - 1) \o <<e>> \o SubSeq(s, i, Len(s))
Reverse(s) == [i \in 1 .. Len(s) |-> s[Len(s) - i + 1]]

IsPrefix(s, t) == Len(s) <= Len(t) /\ s = SubSeq(t, 1, Len(s))
IsSuffix(s, t) == IsPrefix(Reverse(s), Reverse(t))

\* list.erase(the iterator of k)
Erase(q, k) == RemoveAt(q, CHOOSE i \in DOMAIN q : q[i] = k)

\* An empty map, map[k] = e, and map.erase(k)
NoEntries == [k \in {} |-> 0]
Put(m, k, e) == [x \in DOMAIN m \cup {k} |-> IF x = k THEN e ELSE m[x]]
Drop(m, k) == [x \in DOMAIN m \ {k} |-> m[x]]

\* The list q holds exactly the keys of K, each once.
Lists(q, K) == IsInjective(q) /\ ToSet(q) = K

============================================================================
