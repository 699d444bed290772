------------------------------- MODULE Runner -------------------------------
(***************************************************************************)
(* The scripts that run proto for every policy and plot its hit rates      *)
(* (scripts/prototype/runner.py, utils.py, runner_cache_cleaner.py).  Each  *)
(* row of a figure, one policy over all the sizes, is the work of a pool   *)
(* of threads.  A thread looks its result up in a file, runs proto if it   *)
(* is not there, and saves it.  The file is shared with the cleaner, a     *)
(* program of its own; proto may be built again at any time.               *)
(*                                                                         *)
(* The file is a database of dbm.gnu: many may read it or one may write    *)
(* it, and who cannot open it at once gets an exception.                   *)
(***************************************************************************)
EXTENDS Integers, Sequences, FiniteSets, Functions

CONSTANTS
  Threads,      \* runner_threads of them
  trace_list, policies, buffer_size_list,  \* sequences, as in config.py
  Patterns,     \* what the cleaner may be given
  Finds,        \* the names a pattern is a substring of
  MaxRuns, MaxCleans, MaxBuilds  \* bounds on what the user does

\* The sizes are ratios; here they are counted in some unit.
ASSUME RunnerAssumption ==
  /\ Finds \in [Patterns -> SUBSET STRING]
  /\ trace_list \in Seq(STRING) /\ trace_list # <<>>
  /\ policies \in Seq([policy : STRING, params : STRING])
  /\ buffer_size_list \in Seq(Nat)
  /\ \A i \in 1 .. Len(buffer_size_list) - 1 :
       buffer_size_list[i] < buffer_size_list[i + 1]

VARIABLES
  runs, state,    \* the runs of runner.py, and the last one's state
  row,            \* the row being made
  submitted,      \* how many of its tasks were started
  hit_rate_list,  \* what its tasks have added
  plotted,        \* the rows in the figures
  thread,         \* what each thread of the pool does
  lock,           \* who holds it
  db,             \* what the file holds: a function on keys
  exists, readers, writer,  \* whether it is there, and who has it open
  cleaner,        \* the cleaner's arguments, while it has the file open
  cleans, build,  \* how many cleaners ran; the version of proto
  since           \* history: the version as of which a key was cleaned

run == <<runs, state, row, submitted, hit_rate_list, plotted>>
file == <<db, exists, readers, writer>>
user == <<cleaner, cleans, build, since>>
vars == <<run, thread, lock, file, user>>

-----------------------------------------------------------------------------
(* The rows, in the order of the loops, and the keys of the file *)

perTrace == <<[policy |-> "LRU", params |-> "None"]>> \o policies
Rows == 1 .. Len(trace_list) * Len(perTrace)

configuration(n) ==
  LET p == perTrace[((n - 1) % Len(perTrace)) + 1]
  IN [policy |-> p.policy, params |-> p.params,
      trace |-> trace_list[((n - 1) \div Len(perTrace)) + 1]]

\* mutant: the parameters are left out
KeyNoParams(n, size) ==
  [policy |-> configuration(n).policy, params |-> "None",
   trace |-> configuration(n).trace, size |-> size]

make_cache_key_string(n, size) ==
  [policy |-> configuration(n).policy, params |-> configuration(n).params,
   trace |-> configuration(n).trace, size |-> size]

Keys == { make_cache_key_string(n, size) : n \in Rows, size \in Range(buffer_size_list) }

KeyOf(w) == make_cache_key_string(row, thread[w].size)
NoArguments == [policy |-> ".", trace |-> "."]
Idle == [pc |-> "idle"]
At(w, pc) == thread[w].pc = pc
Goes(w, pc) == thread' = [thread EXCEPT ![w].pc = pc]
\* An exception ends the task and stays in its future, which nobody reads.
Fails(w) == thread' = [thread EXCEPT ![w] = Idle]

Init ==
  /\ runs = 1 /\ state = "running" /\ row = 1 /\ submitted = 0
  /\ hit_rate_list = <<>> /\ plotted = <<>>
  /\ thread = [w \in Threads |-> Idle] /\ lock = "free"
  /\ db = << >> /\ exists = FALSE /\ readers = {} /\ writer = "none"
  /\ cleaner = NoArguments /\ cleans = 0 /\ build = 1
  /\ since = [k \in Keys |-> 1]

-----------------------------------------------------------------------------
(* get_hit_rate, on a thread of the pool *)

Start(w) ==
  /\ state = "running" /\ At(w, "idle") /\ submitted < Len(buffer_size_list)
  /\ submitted' = submitted + 1
  /\ thread' = [thread EXCEPT
       ![w] = [pc |-> "find", size |-> buffer_size_list[submitted + 1]]]
  /\ UNCHANGED <<runs, state, row, hit_rate_list, plotted, lock, file, user>>

Find(w) ==
  /\ At(w, "find")
  /\ \/ ~exists /\ Goes(w, "run") /\ UNCHANGED readers
     \/ exists /\ writer # "none" /\ Fails(w) /\ UNCHANGED readers
     \/ exists /\ writer = "none" /\ Goes(w, "read") /\ readers' = readers \cup {w}
  /\ UNCHANGED <<run, lock, db, exists, writer, user>>

Read(w) ==
  /\ At(w, "read")
  /\ readers' = readers \ {w}
  /\ thread' = [thread EXCEPT
       ![w] = IF KeyOf(w) \in DOMAIN db
              THEN [pc |-> "add", size |-> @.size, rate |-> db[KeyOf(w)]]
              ELSE [pc |-> "run", size |-> @.size]]
  /\ UNCHANGED <<run, lock, db, exists, writer, user>>

\* A rate is known by what was run. Without its output, proto having failed,
\* there is no number to convert.
RunProto(w) ==
  /\ At(w, "run")
  /\ \/ Fails(w)
     \/ thread' = [thread EXCEPT
          ![w] = [pc |-> "lock", size |-> @.size,
                  rate |-> [row |-> row, size |-> @.size, build |-> build]]]
  /\ UNCHANGED <<run, lock, file, user>>

Lock(w) ==
  /\ At(w, "lock") /\ lock = "free" /\ lock' = w /\ Goes(w, "open")
  /\ UNCHANGED <<run, file, user>>

\* mutant: the exception leaves the lock taken
OpenKeepsLock(w) ==
  /\ At(w, "open") /\ UNCHANGED lock
  /\ IF readers = {} /\ writer = "none"
     THEN writer' = w /\ exists' = TRUE /\ Goes(w, "write")
     ELSE Fails(w) /\ UNCHANGED <<writer, exists>>
  /\ UNCHANGED <<run, db, readers, user>>

Open(w) ==
  /\ At(w, "open")
  /\ IF readers = {} /\ writer = "none"
     THEN writer' = w /\ exists' = TRUE /\ Goes(w, "write") /\ UNCHANGED lock
     ELSE lock' = "free" /\ Fails(w) /\ UNCHANGED <<writer, exists>>
  /\ UNCHANGED <<run, db, readers, user>>

\* mutant: the file is made anew each time (flag 'n')
SavedAnew(k, rate) == [x \in {k} |-> rate]

Saved(k, rate) == [x \in DOMAIN db \cup {k} |-> IF x = k THEN rate ELSE db[x]]

Write(w) ==
  /\ At(w, "write")
  /\ db' = Saved(KeyOf(w), thread[w].rate)
  /\ writer' = "none" /\ lock' = "free" /\ Goes(w, "add")
  /\ UNCHANGED <<run, exists, readers, user>>

Add(w) ==
  /\ At(w, "add")
  /\ hit_rate_list' = Append(hit_rate_list, [size |-> thread[w].size,
                                             rate |-> thread[w].rate])
  /\ thread' = [thread EXCEPT ![w] = Idle]
  /\ UNCHANGED <<runs, state, row, submitted, plotted, lock, file, user>>

Task(w) == Start(w) \/ Find(w) \/ Read(w) \/ RunProto(w) \/ Lock(w) \/ Open(w)
           \/ Write(w) \/ Add(w)

-----------------------------------------------------------------------------
(* The main thread, once all the tasks of a row have ended *)

\* mutant: the rates stay in the order the tasks ended in
InOrderAdded(list) == list

\* All the entries of a row have the same policy.
InOrder(list) ==
  LET to == CHOOSE p \in Bijection(DOMAIN list, DOMAIN list) :
              \A i, j \in DOMAIN list : i < j => list[p[i]].size <= list[p[j]].size
  IN [i \in DOMAIN list |-> list[to[i]]]

\* A row that is too short cannot be plotted against the sizes: runner.py ends.
Plot ==
  /\ state = "running" /\ submitted = Len(buffer_size_list)
  /\ \A w \in Threads : At(w, "idle")
  /\ IF Len(hit_rate_list) = Len(buffer_size_list)
     THEN /\ plotted' = Append(plotted, InOrder(hit_rate_list))
          /\ submitted' = 0 /\ hit_rate_list' = <<>> /\ row' = row + 1
          /\ state' = IF row + 1 \in Rows THEN "running" ELSE "done"
     ELSE state' = "failed" /\ UNCHANGED <<row, submitted, hit_rate_list, plotted>>
  /\ UNCHANGED <<runs, thread, lock, file, user>>

Restart ==
  /\ state # "running" /\ runs < MaxRuns /\ runs' = runs + 1
  /\ state' = "running" /\ row' = 1 /\ submitted' = 0
  /\ hit_rate_list' = <<>> /\ plotted' = <<>>
  /\ UNCHANGED <<thread, lock, file, user>>

-----------------------------------------------------------------------------
(* The cleaner, and a new version of proto *)

Found(pattern, k) == pattern = "." \/ Finds[pattern] \cap {k.policy, k.trace} # {}
Invalid(k) == Found(cleaner.policy, k) /\ Found(cleaner.trace, k)

invalid_cache ==
  /\ cleans < MaxCleans
  /\ exists /\ readers = {} /\ writer = "none"
  /\ writer' = "cleaner" /\ cleans' = cleans + 1
  /\ \E p, t \in Patterns : cleaner' = [policy |-> p, trace |-> t]
  /\ UNCHANGED <<run, thread, lock, db, exists, readers, build, since>>

\* mutant: keys are deleted while they are gone through, which skips some
RemainingSkip ==
  { k \in DOMAIN db : Invalid(k) => k # CHOOSE x \in DOMAIN db : Invalid(x) }

Remaining == { k \in DOMAIN db : ~ Invalid(k) }

\* A result that a thread has yet to write is not in the file.
InHand(k) == \E w \in Threads : /\ thread[w].pc \in {"lock", "open", "write"}
                                /\ KeyOf(w) = k

Delete ==
  /\ writer = "cleaner" /\ writer' = "none" /\ cleaner' = NoArguments
  /\ db' = Restrict(db, Remaining)
  /\ since' = [k \in Keys |-> IF Invalid(k) /\ ~ InHand(k) THEN build ELSE since[k]]
  /\ UNCHANGED <<run, thread, lock, exists, readers, cleans, build>>

Rebuild == /\ build < MaxBuilds /\ build' = build + 1
           /\ UNCHANGED <<run, thread, lock, file, cleaner, cleans, since>>

Next == (\E w \in Threads : Task(w)) \/ Plot \/ Restart \/ invalid_cache \/ Delete \/ Rebuild

\* The scheduler runs every thread; a program that was started ends.
Fairness == WF_vars(Plot) /\ WF_vars(Delete) /\ \A w \in Threads : WF_vars(Task(w))
Spec == Init /\ [][Next]_vars /\ Fairness

-----------------------------------------------------------------------------
(* A row in a figure has, over each size, the rate of its own policy, its  *)
(* parameters, its trace and that size, whatever order the tasks ended in  *)
(* and whichever of them were read from the file (utils.py:97).            *)
RowsRight ==
  \A n \in DOMAIN plotted : \A i \in DOMAIN buffer_size_list :
    /\ configuration(plotted[n][i].rate.row) = configuration(n)
    /\ plotted[n][i].rate.size = buffer_size_list[i]

\* Of a key that was cleaned, the file holds no result of an older proto,
\* unless a thread had it in hand meanwhile (runner_cache_cleaner.py:14).
CleanLasts == \A k \in DOMAIN db : db[k].build >= since[k]

\* A result in the file stays there, as it is, until its key is cleaned:
\* no thread writes over another's (utils.py:51).
ResultsKept ==
  [][\A k \in DOMAIN db : \/ k \in DOMAIN db' /\ db'[k] = db[k]
                          \/ writer = "cleaner" /\ Invalid(k)]_vars

\* Every run of runner.py ends, even when the file is refused to its
\* threads: none waits for the lock for ever (utils.py:51, 95).
RunEnds == state = "running" ~> state # "running"

=============================================================================
