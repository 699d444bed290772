------------------------------ MODULE MCProto ------------------------------
(* Instances of Proto for TLC *)
EXTENDS Proto

AllPolicies == {"LRU", "LFU", "SRRIP", "DRRIP", "LRFU", "EFSW", "LIRS",
                "DLIRS", "CACHEUS"}
JustDLIRS == {"DLIRS"}

\* Half the footprint, three pages and four; a quarter
Sizes == {<<1, 2>>, <<3, 1>>, <<4, 1>>}
Quarter == {<<1, 4>>}

\* DLIRS remembers as many pages as it holds (scripts/config.py).
TwiceBuffer == <<2, 1>>

Requests(t) ==
  [script |-> "msr", requests |-> [i \in DOMAIN t |-> <<t[i], 1>>]]

\* Every trace of Length blocks among five, up to the names of the blocks: they
\* are named in the order of their first access. Names matter to SRRIP and DRRIP
\* alone, which evict the smallest key of a set.
Long ==
  LET f[n \in 0 .. Length] ==
        IF n = 0 THEN {<<>>}
        ELSE UNION { { Append(t, k) :
                         k \in 1 .. Min({5, Cardinality(ToSet(t)) + 1}) } :
                     t \in f[n - 1] }
  IN { Requests(t) : t \in f[Length] }

\* Every trace of five blocks among four, whatever their names
Named == { Requests(t) : t \in [1 .. 5 -> 1 .. 4] }

\* Every raw trace of three requests of up to two blocks, by either script
Mixed == { [script |-> s, requests |-> r] :
             s \in {"msr", "blkparse"},
             r \in [1 .. 3 -> {1, 3} \X (0 .. 2)] }

Blocks5 == -1 .. 5
AllTraces == Long \cup Named \cup Mixed

============================================================================
