----------------------------- MODULE TraceFile -----------------------------
(***************************************************************************)
(* The file of a trace: how scripts/trace/trace_processor.py writes it and *)
(* how get_access_list (src/util/unittest_utils.cpp) reads it.             *)
(*                                                                         *)
(* A raw trace is a list of requests <<order, size>>, in blocks; the file  *)
(* a list of runs <<starting_block, number_of_blocks>>.  The scripts write *)
(* requests that follow each other as one run.                             *)
(***************************************************************************)
EXTENDS StdContainers

\* The run that is being put together, and what has been written; the script
\* starts with none, at block -1.
NoRun == [fw |-> <<>>, last |-> -1, last_len |-> 0]

Written(s) == [s EXCEPT !.fw = Append(@, <<s.last, s.last_len>>)]

\* A run at -1 is not written.
NextRun(s, order) ==
  [(IF s.last = -1 THEN s ELSE Written(s)) EXCEPT !.last = order,
                                                  !.last_len = 0]

Lengthened(s, size) == [s EXCEPT !.last_len = @ + size]

\* mutant: the last run is not written
FlushedNot(s) == s.fw

Flushed(s) == IF s.last_len = 0 THEN s.fw ELSE Written(s).fw

\* process_msr and process_fiu
process_msr(access) ==
  LET run[i \in 0 .. Len(access)] ==
        IF i = 0 THEN NoRun
        ELSE LET s == run[i - 1]
                 order == access[i][1]
             IN Lengthened(IF order = s.last + s.last_len THEN s
                           ELSE NextRun(s, order), access[i][2])
  IN Flushed(run[Len(access)])

\* process_blkparse, process_cloudvps, process_spc and process_tpc: a run of
\* no block is not ended, so that the first one stays at -1.
process_blkparse(access) ==
  LET run[i \in 0 .. Len(access)] ==
        IF i = 0 THEN NoRun
        ELSE LET s == run[i - 1]
                 order == access[i][1]
             IN Lengthened(IF order = s.last + s.last_len \/ s.last_len = 0
                           THEN s ELSE NextRun(s, order), access[i][2])
  IN Flushed(run[Len(access)])

Blocks(run) == [i \in 1 .. run[2] |-> run[1] + i - 1]

\* What the program reads: the blocks of every line
get_access_list(file) ==
  LET list[i \in 0 .. Len(file)] ==
        IF i = 0 THEN <<>> ELSE list[i - 1] \o Blocks(file[i])
  IN list[Len(file)]

\* The different blocks among them
UniqueKeys(file) == UNION { ToSet(Blocks(file[i])) : i \in DOMAIN file }

============================================================================
