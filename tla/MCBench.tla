------------------------------ MODULE MCBench ------------------------------
(* Instances of Bench for TLC *)
EXTENDS Bench

CONSTANTS a, b

\* Traces from place 0
Two == [p \in 0 .. 1 |-> a]
Four == [p \in 0 .. 3 |-> a]

Sync == [threadsSync |-> TRUE, hasWarmup |-> FALSE, earlyStop |-> 0]
SyncWarm == [Sync EXCEPT !.hasWarmup = TRUE]
Private == [Sync EXCEPT !.threadsSync = FALSE]

JustSync == {Sync}
JustSyncWarm == {SyncWarm}
Several == { [SyncWarm EXCEPT !.earlyStop = 2], [Sync EXCEPT !.earlyStop = 2],
             Private }

============================================================================
