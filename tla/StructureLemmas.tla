-------------------------- MODULE StructureLemmas --------------------------
(***************************************************************************)
(* Lemmas about the structures of the replacers of Proto, each for any     *)
(* value of the structure: the file of a trace, the linked list and its    *)
(* table, the lists of OPT, the heap that is brought up to date lazily,    *)
(* and the lists of accesses that say what a policy ought to remember.     *)
(***************************************************************************)
EXTENDS Replacer, TraceFile, LinkList, LUHeap, DataLemmas

\* A function defined by recursion on an interval, as a LET defines one
Loops(g, N, D, b, F) ==
  /\ g \in [0 .. N -> D]
  /\ g = [i \in 0 .. N |-> IF i = 0 THEN b ELSE F[i][g[i - 1]]]
  /\ g[0] = b
  /\ \A i \in 1 .. N : g[i] = F[i][g[i - 1]] /\ g[i - 1] \in D

LEMMA Loop ==
  ASSUME NEW N \in Nat, NEW D, NEW b \in D, NEW F \in Steps(N, D)
  PROVE  \E g : Loops(g, N, D, b, F)
<1>1. PICK g : Path(g, N, D, b, F)
  BY Recursion
<1>2. ASSUME NEW i \in 0 .. N
      PROVE  g[i] = IF i = 0 THEN b ELSE F[i][g[i - 1]]
  <2>1. CASE i = 0
    BY <1>1, <2>1 DEF Path
  <2>2. CASE i # 0
    <3>1. i \in 1 .. N
      BY <2>2
    <3> QED BY <1>1, <2>2, <3>1 DEF Path
  <2> QED BY <2>1, <2>2
<1>3. \A i \in 1 .. N : g[i] = F[i][g[i - 1]] /\ g[i - 1] \in D
  <2>1. \A i \in 1 .. N : i - 1 \in 0 .. N
    OBVIOUS
  <2> QED BY <1>1, <2>1 DEF Path
<1> QED BY <1>1, <1>2, <1>3 DEF Path, Loops

\* There is only one.
LEMMA LoopIs ==
  ASSUME NEW N \in Nat, NEW D, NEW b \in D, NEW F \in Steps(N, D),
         NEW h, h = [i \in 0 .. N |-> h[i]], h[0] = b,
         \A i \in 1 .. N : h[i - 1] \in D => h[i] = F[i][h[i - 1]]
  PROVE  Loops(h, N, D, b, F)
<1>1. PICK g : Loops(g, N, D, b, F)
  BY Loop
<1> DEFINE T == { i \in Nat : i <= N => h[i] = g[i] }
<1>2. 0 \in T
  BY <1>1 DEF Loops
<1>3. ASSUME NEW i \in Nat, i \in T PROVE i + 1 \in T
  <2>1. CASE i + 1 <= N
    <3>1. i + 1 \in 1 .. N /\ (i + 1) - 1 = i /\ h[i] = g[i]
      BY <1>3, <2>1
    <3>2. g[i + 1] = F[i + 1][g[i]] /\ g[i] \in D
      BY <1>1, <3>1 DEF Loops
    <3>3. h[i + 1] = g[i + 1]
      BY <3>1, <3>2
    <3> QED BY <3>3
  <2>2. CASE ~ (i + 1 <= N)
    BY <2>2
  <2> QED BY <2>1, <2>2
<1> HIDE DEF T
<1>4. Nat \subseteq T
  BY <1>2, <1>3, AllNaturals
<1>5. \A i \in 0 .. N : h[i] = g[i]
  BY <1>4 DEF T
<1>6. g = [i \in 0 .. N |-> g[i]]
  BY <1>1 DEF Loops
<1>7. h = g
  BY <1>5, <1>6
<1> QED BY <1>1, <1>7

-----------------------------------------------------------------------------
(* The file of a trace *)

\* A run, the type of a line of the file, and its blocks
LEMMA BlocksAre ==
  ASSUME NEW a \in Int, NEW n \in Nat
  PROVE  /\ Blocks(<<a, n>>) \in Seq(Int) /\ Len(Blocks(<<a, n>>)) = n
         /\ \A i \in 1 .. n : Blocks(<<a, n>>)[i] = a + i - 1
BY DEF Blocks

LEMMA BlocksLonger ==
  ASSUME NEW a \in Int, NEW n \in Nat, NEW k \in Nat
  PROVE  Blocks(<<a, n + k>>) = Blocks(<<a, n>>) \o Blocks(<<a + n, k>>)
<1> DEFINE p == Blocks(<<a, n>>)
           q == Blocks(<<a + n, k>>)
           r == Blocks(<<a, n + k>>)
<1>1. /\ p \in Seq(Int) /\ Len(p) = n /\ \A i \in 1 .. n : p[i] = a + i - 1
      /\ q \in Seq(Int) /\ Len(q) = k /\ \A i \in 1 .. k : q[i] = a + n + i - 1
      /\ r \in Seq(Int) /\ Len(r) = n + k
      /\ \A i \in 1 .. n + k : r[i] = a + i - 1
  BY BlocksAre
<1> HIDE DEF p, q, r
<1>2. /\ p \o q \in Seq(Int) /\ Len(p \o q) = n + k
      /\ \A i \in 1 .. n + k :
           (p \o q)[i] = IF i <= n THEN p[i] ELSE q[i - n]
  <2>1. p \in Seq(Int) /\ q \in Seq(Int) /\ Len(p) = n /\ Len(q) = k
    BY <1>1
  <2> QED BY <2>1, ConcatProperties
<1>3. ASSUME NEW i \in 1 .. n + k PROVE r[i] = (p \o q)[i]
  <2>1. CASE i <= n
    <3>1. i \in 1 .. n
      BY <2>1
    <3>2. (p \o q)[i] = p[i]
      BY <1>2, <2>1
    <3> QED BY <1>1, <3>1, <3>2
  <2>2. CASE ~ (i <= n)
    <3>1. i - n \in 1 .. k /\ a + n + (i - n) - 1 = a + i - 1 /\ ~ (i <= n)
      BY <2>2
    <3>2. q[i - n] = a + n + (i - n) - 1
      BY <1>1, <3>1
    <3>3. (p \o q)[i] = q[i - n] /\ r[i] = a + i - 1
      BY <1>1, <1>2, <3>1
    <3> QED BY <3>1, <3>2, <3>3
  <2> QED BY <2>1, <2>2
<1> QED BY <1>1, <1>2, <1>3, SeqEqual DEF p, q, r

\* What is read of a file, line by line
Runs == Int \X Nat

\* One turn of get_access_list's loop
ReadSteps(file) ==
  [i \in 1 .. Len(file) |-> [t \in Seq(Int) |-> t \o Blocks(file[i])]]

LEMMA ReadStepsAre ==
  ASSUME NEW file \in Seq(Runs)
  PROVE  /\ ReadSteps(file) \in Steps(Len(file), Seq(Int))
         /\ \A i \in 1 .. Len(file), t \in Seq(Int) :
              ReadSteps(file)[i][t] = t \o Blocks(file[i])
         /\ <<>> \in Seq(Int)
<1>1. ASSUME NEW i \in 1 .. Len(file) PROVE Blocks(file[i]) \in Seq(Int)
  <2>1. file[i] = <<file[i][1], file[i][2]>> /\ file[i][1] \in Int /\ file[i][2] \in Nat
    BY DEF Runs
  <2> QED BY <2>1, BlocksAre
<1>2. ASSUME NEW i \in 1 .. Len(file), NEW t \in Seq(Int)
      PROVE  t \o Blocks(file[i]) \in Seq(Int)
  BY <1>1, ConcatProperties
<1> QED BY <1>2 DEF ReadSteps, Steps

LEMMA ReadPath ==
  ASSUME NEW file \in Seq(Runs)
  PROVE  \E f : /\ Loops(f, Len(file), Seq(Int), <<>>, ReadSteps(file))
                /\ get_access_list(file) = f[Len(file)]
<1> DEFINE N == Len(file)
           F == ReadSteps(file)
           P(g) == g = [i \in 0 .. N |-> IF i = 0 THEN <<>>
                                         ELSE g[i - 1] \o Blocks(file[i])]
<1>1. N \in Nat /\ <<>> \in Seq(Int)
  BY ReadStepsAre
<1>2. F \in Steps(N, Seq(Int))
  BY ReadStepsAre
<1>3. \A i \in 1 .. N, t \in Seq(Int) : F[i][t] = t \o Blocks(file[i])
  BY ReadStepsAre
<1> HIDE DEF F, N
<1>4. PICK g : Loops(g, N, Seq(Int), <<>>, F)
  BY <1>1, <1>2, Loop
<1>5. ASSUME NEW i \in 0 .. N
      PROVE  g[i] = IF i = 0 THEN <<>> ELSE g[i - 1] \o Blocks(file[i])
  <2>1. CASE i = 0
    BY <1>4, <2>1 DEF Loops
  <2>2. CASE i # 0
    <3>1. i \in 1 .. N
      BY <1>1, <2>2
    <3>2. g[i] = F[i][g[i - 1]] /\ g[i - 1] \in Seq(Int)
      BY <1>4, <3>1 DEF Loops
    <3> QED BY <1>3, <2>2, <3>1, <3>2
  <2> QED BY <2>1, <2>2
<1>6. P(g)
  <2>1. g = [i \in 0 .. N |-> g[i]]
    BY <1>4 DEF Loops
  <2> QED BY <1>5, <2>1
<1> DEFINE h == CHOOSE f : P(f)
<1>7. P(h)
  <2> HIDE DEF P
  <2> QED BY <1>6
<1>8. get_access_list(file) = h[N]
  BY DEF get_access_list, N
<1> HIDE DEF h
<1>9. h = [i \in 0 .. N |-> h[i]]
      /\ \A i \in 0 .. N :
           h[i] = IF i = 0 THEN <<>> ELSE h[i - 1] \o Blocks(file[i])
  BY <1>7
<1> HIDE DEF P
<1>10. h[0] = <<>> /\ \A i \in 1 .. N : h[i] = h[i - 1] \o Blocks(file[i])
  <2>1. 0 \in 0 .. N /\ \A i \in 1 .. N : i \in 0 .. N /\ i # 0
    BY <1>1
  <2> QED BY <1>9, <2>1
<1>11. Loops(h, N, Seq(Int), <<>>, F)
  BY <1>1, <1>2, <1>3, <1>9, <1>10, LoopIs
<1> QED BY <1>8, <1>11 DEF N, F

LEMMA ReadNothing == get_access_list(<<>>) = <<>>
<1>1. <<>> \in Seq(Runs) /\ Len(<<>>) = 0
  OBVIOUS
<1>2. PICK f : /\ Loops(f, Len(<<>>), Seq(Int), <<>>, ReadSteps(<<>>))
               /\ get_access_list(<<>>) = f[Len(<<>>)]
  BY <1>1, ReadPath
<1> QED BY <1>1, <1>2 DEF Loops

LEMMA ReadType ==
  ASSUME NEW file \in Seq(Runs)
  PROVE  get_access_list(file) \in Seq(Int)
<1>1. PICK f : /\ Loops(f, Len(file), Seq(Int), <<>>, ReadSteps(file))
               /\ get_access_list(file) = f[Len(file)]
  BY ReadPath
<1>2. Len(file) \in 0 .. Len(file)
  OBVIOUS
<1> QED BY <1>1, <1>2 DEF Loops

\* One line more is read after the others.
LEMMA ReadAppend ==
  ASSUME NEW file \in Seq(Runs), NEW a \in Int, NEW n \in Nat
  PROVE  /\ Append(file, <<a, n>>) \in Seq(Runs)
         /\ get_access_list(Append(file, <<a, n>>))
              = get_access_list(file) \o Blocks(<<a, n>>)
<1> DEFINE l == Append(file, <<a, n>>)
           N == Len(file)
<1>1. l \in Seq(Runs) /\ Len(l) = N + 1 /\ l[N + 1] = <<a, n>>
      /\ N \in Nat /\ \A i \in 1 .. N : l[i] = file[i]
  BY AppendProperties DEF Runs
<1> HIDE DEF l
<1>2. PICK f : /\ Loops(f, N, Seq(Int), <<>>, ReadSteps(file))
               /\ get_access_list(file) = f[N]
  BY ReadPath
<1>3. PICK g : /\ Loops(g, N + 1, Seq(Int), <<>>, ReadSteps(l))
               /\ get_access_list(l) = g[N + 1]
  BY <1>1, ReadPath
<1> HIDE DEF N
<1>4. f[0] = <<>> /\ \A i \in 1 .. N : f[i] = f[i - 1] \o Blocks(file[i])
  BY <1>2, ReadStepsAre DEF Loops, N
<1>5. g[0] = <<>> /\ \A i \in 1 .. N + 1 : g[i] = g[i - 1] \o Blocks(l[i])
  <2>1. \A i \in 1 .. N + 1, t \in Seq(Int) : ReadSteps(l)[i][t] = t \o Blocks(l[i])
    BY <1>1, ReadStepsAre
  <2> QED BY <1>3, <2>1 DEF Loops
<1> DEFINE T == { i \in Nat : i <= N => g[i] = f[i] }
<1>6. 0 \in T
  BY <1>4, <1>5
<1>7. ASSUME NEW i \in Nat, i \in T PROVE i + 1 \in T
  <2>1. CASE i + 1 <= N
    <3>1. /\ i + 1 \in 1 .. N /\ i + 1 \in 1 .. N + 1 /\ (i + 1) - 1 = i
          /\ g[i] = f[i]
      BY <1>1, <1>7, <2>1
    <3>2. g[i + 1] = g[i] \o Blocks(l[i + 1]) /\ f[i + 1] = f[i] \o Blocks(file[i + 1])
      BY <1>4, <1>5, <3>1
    <3>3. l[i + 1] = file[i + 1]
      BY <1>1, <3>1
    <3>4. g[i + 1] = f[i + 1]
      BY <3>1, <3>2, <3>3
    <3> QED BY <3>4
  <2>2. CASE ~ (i + 1 <= N)
    BY <2>2
  <2> QED BY <2>1, <2>2
<1> HIDE DEF T
<1>8. Nat \subseteq T
  BY <1>6, <1>7, AllNaturals
<1>9. g[N] = f[N]
  BY <1>1, <1>8 DEF T
<1>10. N + 1 \in 1 .. N + 1 /\ (N + 1) - 1 = N
  BY <1>1
<1>11. g[N + 1] = g[N] \o Blocks(l[N + 1])
  BY <1>5, <1>10
<1> QED BY <1>1, <1>2, <1>3, <1>9, <1>11 DEF l

\* The script between two requests
RunStates == [fw : Seq(Runs), last : Int, last_len : Nat]

\* What the file would say if the run were written
Spelled(s) == get_access_list(s.fw) \o Blocks(<<s.last, s.last_len>>)

\* One turn of either loop
msr_turn(s, r) ==
  Lengthened(IF r[1] = s.last + s.last_len THEN s ELSE NextRun(s, r[1]), r[2])
blkparse_turn(s, r) ==
  Lengthened(IF r[1] = s.last + s.last_len \/ s.last_len = 0
             THEN s ELSE NextRun(s, r[1]), r[2])

LEMMA NoRunIs ==
  NoRun \in RunStates /\ NoRun.last = -1 /\ NoRun.last_len = 0
  /\ NoRun.fw = <<>>
<1>1. <<>> \in Seq(Runs)
  OBVIOUS
<1> QED BY <1>1 DEF NoRun, RunStates

LEMMA SpelledType ==
  ASSUME NEW s \in RunStates
  PROVE  /\ Spelled(s) \in Seq(Int) /\ get_access_list(s.fw) \in Seq(Int)
         /\ Blocks(<<s.last, s.last_len>>) \in Seq(Int)
<1>1. s.fw \in Seq(Runs) /\ s.last \in Int /\ s.last_len \in Nat
  BY DEF RunStates
<1>2. get_access_list(s.fw) \in Seq(Int) /\ Blocks(<<s.last, s.last_len>>) \in Seq(Int)
  BY <1>1, ReadType, BlocksAre
<1> QED BY <1>2, ConcatProperties DEF Spelled

\* A run that goes on
LEMMA LongerIs ==
  ASSUME NEW s \in RunStates, NEW n \in Nat
  PROVE  /\ Lengthened(s, n) \in RunStates
         /\ Lengthened(s, n).last = s.last /\ Lengthened(s, n).fw = s.fw
         /\ Lengthened(s, n).last_len = s.last_len + n
         /\ Spelled(Lengthened(s, n))
              = Spelled(s) \o Blocks(<<s.last + s.last_len, n>>)
<1> DEFINE t == Lengthened(s, n)
<1>1. s.fw \in Seq(Runs) /\ s.last \in Int /\ s.last_len \in Nat
  BY DEF RunStates
<1>2. t \in RunStates /\ t.fw = s.fw /\ t.last = s.last /\ t.last_len = s.last_len + n
  BY <1>1 DEF Lengthened, RunStates
<1> HIDE DEF t
<1>3. Blocks(<<s.last, s.last_len + n>>)
        = Blocks(<<s.last, s.last_len>>) \o Blocks(<<s.last + s.last_len, n>>)
  BY <1>1, BlocksLonger
<1>4. /\ get_access_list(s.fw) \in Seq(Int)
      /\ Blocks(<<s.last, s.last_len>>) \in Seq(Int)
      /\ Blocks(<<s.last + s.last_len, n>>) \in Seq(Int)
  BY <1>1, SpelledType, BlocksAre
<1>5. Spelled(t) = Spelled(s) \o Blocks(<<s.last + s.last_len, n>>)
  <2> DEFINE A == get_access_list(s.fw)
             B == Blocks(<<s.last, s.last_len>>)
             C == Blocks(<<s.last + s.last_len, n>>)
  <2>1. Spelled(t) = A \o (B \o C) /\ Spelled(s) = A \o B
    BY <1>2, <1>3 DEF Spelled
  <2>2. A \in Seq(Int) /\ B \in Seq(Int) /\ C \in Seq(Int)
    BY <1>4
  <2> HIDE DEF A, B, C
  <2>3. A \o (B \o C) = (A \o B) \o C
    BY <2>2, ConcatAssociative
  <2> QED BY <2>1, <2>3 DEF C
<1> QED BY <1>2, <1>5 DEF t

\* A run that begins: the one before is written, unless it is at -1.
LEMMA NextRunIs ==
  ASSUME NEW s \in RunStates, NEW a \in Int
  PROVE  /\ NextRun(s, a) \in RunStates
         /\ NextRun(s, a).last = a /\ NextRun(s, a).last_len = 0
         /\ s.last # -1 => Spelled(NextRun(s, a)) = Spelled(s)
         /\ s.last = -1 => Spelled(NextRun(s, a)) = get_access_list(s.fw)
<1> DEFINE t == NextRun(s, a)
           f == Append(s.fw, <<s.last, s.last_len>>)
<1>1. s.fw \in Seq(Runs) /\ s.last \in Int /\ s.last_len \in Nat
  BY DEF RunStates
<1>2. f \in Seq(Runs)
      /\ get_access_list(f) = get_access_list(s.fw) \o Blocks(<<s.last, s.last_len>>)
  BY <1>1, ReadAppend
<1>3. /\ Written(s) \in RunStates /\ Written(s).fw = f
  BY <1>1, <1>2 DEF Written, RunStates
<1>4. /\ t \in RunStates /\ t.last = a /\ t.last_len = 0
      /\ t.fw = IF s.last = -1 THEN s.fw ELSE f
  <2> DEFINE w == IF s.last = -1 THEN s ELSE Written(s)
  <2>1. w \in RunStates /\ w.fw = IF s.last = -1 THEN s.fw ELSE f
    BY <1>3
  <2>2. t = [w EXCEPT !.last = a, !.last_len = 0]
    BY DEF NextRun
  <2> HIDE DEF w, f, t
  <2> QED BY <2>1, <2>2 DEF RunStates
<1>5. Blocks(<<a, 0>>) = <<>>
  BY DEF Blocks
<1>6. get_access_list(t.fw) \in Seq(Int)
  BY <1>4, SpelledType
<1> HIDE DEF f
<1>7. Spelled(t) = get_access_list(t.fw)
  BY <1>4, <1>5, <1>6, ConcatEmptySeq DEF Spelled
<1> HIDE DEF t
<1> QED BY <1>2, <1>4, <1>7 DEF Spelled, t

LEMMA FlushedIs ==
  ASSUME NEW s \in RunStates
  PROVE  Flushed(s) \in Seq(Runs) /\ get_access_list(Flushed(s)) = Spelled(s)
<1>1. s.fw \in Seq(Runs) /\ s.last \in Int /\ s.last_len \in Nat
  BY DEF RunStates
<1>2. CASE s.last_len = 0
  <2>1. Flushed(s) = s.fw /\ Blocks(<<s.last, s.last_len>>) = <<>>
    BY <1>2 DEF Flushed, Blocks
  <2> QED BY <1>1, <2>1, ReadType, ConcatEmptySeq DEF Spelled
<1>3. CASE s.last_len # 0
  <2>1. Flushed(s) = Append(s.fw, <<s.last, s.last_len>>)
    BY <1>1, <1>3 DEF Flushed, Written, RunStates
  <2> QED BY <1>1, <2>1, ReadAppend DEF Spelled
<1> QED BY <1>2, <1>3

\* The turns of the two loops
LEMMA msr_path ==
  ASSUME NEW access \in Seq(Nat \X Nat)
  PROVE  \E g \in [0 .. Len(access) -> RunStates] :
           /\ process_msr(access) = Flushed(g[Len(access)])
           /\ g[0] = NoRun
           /\ \A i \in 1 .. Len(access) : g[i] = msr_turn(g[i - 1], access[i])
<1> DEFINE N == Len(access)
           D == RunStates
           F == [i \in 1 .. N |-> [s \in D |-> msr_turn(s, access[i])]]
           P(g) == g = [i \in 0 .. N |-> IF i = 0 THEN NoRun
                                         ELSE msr_turn(g[i - 1], access[i])]
<1>1. N \in Nat /\ NoRun \in D /\ \A i \in 1 .. N : access[i][1] \in Nat /\ access[i][2] \in Nat
  BY NoRunIs
<1>2. ASSUME NEW i \in 1 .. N, NEW s \in D PROVE msr_turn(s, access[i]) \in D
  <2>1. access[i][1] \in Int /\ access[i][2] \in Nat
    BY <1>1
  <2> DEFINE t == IF access[i][1] = s.last + s.last_len THEN s
                  ELSE NextRun(s, access[i][1])
  <2>2. t \in RunStates
    BY <2>1, NextRunIs
  <2> HIDE DEF t
  <2>3. Lengthened(t, access[i][2]) \in RunStates
    BY <2>1, <2>2, LongerIs
  <2> QED BY <2>3 DEF t, msr_turn
<1>3. F \in Steps(N, D)
  BY <1>2 DEF Steps
<1>4. \A i \in 1 .. N, s \in D : F[i][s] = msr_turn(s, access[i])
  OBVIOUS
<1> HIDE DEF F, D, N
<1>5. PICK g : Loops(g, N, D, NoRun, F)
  BY <1>1, <1>3, Loop
<1>6. ASSUME NEW i \in 0 .. N
      PROVE  g[i] = IF i = 0 THEN NoRun ELSE msr_turn(g[i - 1], access[i])
  <2>1. CASE i = 0
    BY <1>5, <2>1 DEF Loops
  <2>2. CASE i # 0
    <3>1. i \in 1 .. N
      BY <1>1, <2>2
    <3>2. g[i] = F[i][g[i - 1]] /\ g[i - 1] \in D
      BY <1>5, <3>1 DEF Loops
    <3> QED BY <1>4, <2>2, <3>1, <3>2
  <2> QED BY <2>1, <2>2
<1>7. P(g)
  <2>1. g = [i \in 0 .. N |-> g[i]]
    BY <1>5 DEF Loops
  <2> QED BY <1>6, <2>1
<1> DEFINE h == CHOOSE f : P(f)
<1>8. P(h)
  <2> HIDE DEF P
  <2> QED BY <1>7
<1>9. process_msr(access) = Flushed(h[N])
  BY DEF process_msr, msr_turn, N
<1> HIDE DEF h
<1>10. h = [i \in 0 .. N |-> h[i]]
       /\ \A i \in 0 .. N :
            h[i] = IF i = 0 THEN NoRun ELSE msr_turn(h[i - 1], access[i])
  BY <1>8
<1> HIDE DEF P
<1>11. h[0] = NoRun /\ \A i \in 1 .. N : h[i] = msr_turn(h[i - 1], access[i])
  <2>1. 0 \in 0 .. N /\ \A i \in 1 .. N : i \in 0 .. N /\ i # 0
    BY <1>1
  <2> QED BY <1>10, <2>1
<1>12. Loops(h, N, D, NoRun, F)
  BY <1>1, <1>3, <1>4, <1>10, <1>11, LoopIs
<1>13. h \in [0 .. N -> D]
  BY <1>12 DEF Loops
<1> QED BY <1>9, <1>11, <1>13 DEF N, D

LEMMA blkparse_path ==
  ASSUME NEW access \in Seq(Nat \X Nat)
  PROVE  \E g \in [0 .. Len(access) -> RunStates] :
           /\ process_blkparse(access) = Flushed(g[Len(access)])
           /\ g[0] = NoRun
           /\ \A i \in 1 .. Len(access) : g[i] = blkparse_turn(g[i - 1], access[i])
<1> DEFINE N == Len(access)
           D == RunStates
           F == [i \in 1 .. N |-> [s \in D |-> blkparse_turn(s, access[i])]]
           P(g) == g = [i \in 0 .. N |-> IF i = 0 THEN NoRun
                                         ELSE blkparse_turn(g[i - 1], access[i])]
<1>1. N \in Nat /\ NoRun \in D /\ \A i \in 1 .. N : access[i][1] \in Nat /\ access[i][2] \in Nat
  BY NoRunIs
<1>2. ASSUME NEW i \in 1 .. N, NEW s \in D PROVE blkparse_turn(s, access[i]) \in D
  <2>1. access[i][1] \in Int /\ access[i][2] \in Nat
    BY <1>1
  <2> DEFINE t == IF \/ access[i][1] = s.last + s.last_len
                     \/ s.last_len = 0 THEN s
                  ELSE NextRun(s, access[i][1])
  <2>2. t \in RunStates
    BY <2>1, NextRunIs
  <2> HIDE DEF t
  <2>3. Lengthened(t, access[i][2]) \in RunStates
    BY <2>1, <2>2, LongerIs
  <2> QED BY <2>3 DEF t, blkparse_turn
<1>3. F \in Steps(N, D)
  BY <1>2 DEF Steps
<1>4. \A i \in 1 .. N, s \in D : F[i][s] = blkparse_turn(s, access[i])
  OBVIOUS
<1> HIDE DEF F, D, N
<1>5. PICK g : Loops(g, N, D, NoRun, F)
  BY <1>1, <1>3, Loop
<1>6. ASSUME NEW i \in 0 .. N
      PROVE  g[i] = IF i = 0 THEN NoRun ELSE blkparse_turn(g[i - 1], access[i])
  <2>1. CASE i = 0
    BY <1>5, <2>1 DEF Loops
  <2>2. CASE i # 0
    <3>1. i \in 1 .. N
      BY <1>1, <2>2
    <3>2. g[i] = F[i][g[i - 1]] /\ g[i - 1] \in D
      BY <1>5, <3>1 DEF Loops
    <3> QED BY <1>4, <2>2, <3>1, <3>2
  <2> QED BY <2>1, <2>2
<1>7. P(g)
  <2>1. g = [i \in 0 .. N |-> g[i]]
    BY <1>5 DEF Loops
  <2> QED BY <1>6, <2>1
<1> DEFINE h == CHOOSE f : P(f)
<1>8. P(h)
  <2> HIDE DEF P
  <2> QED BY <1>7
<1>9. process_blkparse(access) = Flushed(h[N])
  BY DEF process_blkparse, blkparse_turn, N
<1> HIDE DEF h
<1>10. h = [i \in 0 .. N |-> h[i]]
       /\ \A i \in 0 .. N :
            h[i] = IF i = 0 THEN NoRun ELSE blkparse_turn(h[i - 1], access[i])
  BY <1>8
<1> HIDE DEF P
<1>11. h[0] = NoRun /\ \A i \in 1 .. N : h[i] = blkparse_turn(h[i - 1], access[i])
  <2>1. 0 \in 0 .. N /\ \A i \in 1 .. N : i \in 0 .. N /\ i # 0
    BY <1>1
  <2> QED BY <1>10, <2>1
<1>12. Loops(h, N, D, NoRun, F)
  BY <1>1, <1>3, <1>4, <1>10, <1>11, LoopIs
<1>13. h \in [0 .. N -> D]
  BY <1>12 DEF Loops
<1> QED BY <1>9, <1>11, <1>13 DEF N, D

\* The blocks of the first i requests
Prefix(access, i) == get_access_list(SubSeq(access, 1, i))

LEMMA PrefixIs ==
  ASSUME NEW access \in Seq(Nat \X Nat)
  PROVE  /\ access \in Seq(Runs)
         /\ Prefix(access, 0) = <<>>
         /\ Prefix(access, Len(access)) = get_access_list(access)
         /\ \A i \in 0 .. Len(access) : Prefix(access, i) \in Seq(Int)
         /\ \A i \in 0 .. Len(access) - 1 :
              Prefix(access, i + 1) =
                Prefix(access, i) \o Blocks(<<access[i + 1][1], access[i + 1][2]>>)
<1>1. access \in Seq(Runs) /\ Len(access) \in Nat
  <2>1. \A i \in 1 .. Len(access) : access[i] \in Runs
    BY DEF Runs
  <2> QED BY <2>1
<1>2. SubSeq(access, 1, 0) = <<>> /\ SubSeq(access, 1, Len(access)) = access
  BY <1>1
<1>3. ASSUME NEW i \in 0 .. Len(access)
      PROVE  SubSeq(access, 1, i) \in Seq(Runs)
  BY <1>1
<1>4. ASSUME NEW i \in 0 .. Len(access) - 1
      PROVE  Prefix(access, i + 1) =
                Prefix(access, i) \o Blocks(<<access[i + 1][1], access[i + 1][2]>>)
  <2>1. /\ access[i + 1] = <<access[i + 1][1], access[i + 1][2]>>
        /\ access[i + 1][1] \in Int /\ access[i + 1][2] \in Nat
    <3>1. i + 1 \in 1 .. Len(access)
      BY <1>1
    <3>2. access[i + 1] \in Nat \X Nat
      BY <3>1
    <3> QED BY <3>2
  <2>2. SubSeq(access, 1, i + 1) = Append(SubSeq(access, 1, i), access[i + 1])
    BY <1>1, SubSeqRecursiveSecond
  <2>3. SubSeq(access, 1, i) \in Seq(Runs)
    BY <1>1, <1>3
  <2> DEFINE b == <<access[i + 1][1], access[i + 1][2]>>
  <2>4. get_access_list(Append(SubSeq(access, 1, i), b))
          = get_access_list(SubSeq(access, 1, i)) \o Blocks(b)
    BY <2>1, <2>3, ReadAppend
  <2> QED BY <2>1, <2>2, <2>4 DEF Prefix
<1> QED BY <1>1, <1>2, <1>3, <1>4, ReadNothing, ReadType DEF Prefix

\* process_msr keeps the blocks of every trace, and their order.
LEMMA msr_keeps ==
  ASSUME NEW access \in Seq(Nat \X Nat)
  PROVE  get_access_list(process_msr(access)) = get_access_list(access)
<1> DEFINE N == Len(access)
           R(i) == Prefix(access, i)
<1>1. PICK g \in [0 .. N -> RunStates] :
        /\ process_msr(access) = Flushed(g[N])
        /\ g[0] = NoRun
        /\ \A i \in 1 .. N : g[i] = msr_turn(g[i - 1], access[i])
  BY msr_path
<1> DEFINE Kept(s, i) == /\ Spelled(s) = R(i)
                         /\ s.last = -1 => s.fw = <<>> /\ s.last_len = 0
                         /\ s.last = -1 \/ s.last \in Nat
           T == { i \in Nat : i <= N => Kept(g[i], i) }
<1>2. 0 \in T
  <2>1. Spelled(NoRun) = <<>>
    <3>1. Blocks(<<-1, 0>>) = <<>>
      BY DEF Blocks
    <3> QED BY <3>1, NoRunIs, ReadNothing DEF Spelled
  <2>2. Kept(NoRun, 0)
    BY <2>1, NoRunIs, PrefixIs
  <2> HIDE DEF Kept
  <2> QED BY <1>1, <2>2
<1>3. ASSUME NEW i \in Nat, i \in T PROVE i + 1 \in T
  <2> SUFFICES ASSUME i + 1 <= N PROVE Kept(g[i + 1], i + 1)
    OBVIOUS
  <2>1. /\ i + 1 \in 1 .. N /\ (i + 1) - 1 = i /\ i \in 0 .. N /\ i \in 0 .. N - 1
        /\ i <= N
    OBVIOUS
  <2> DEFINE s == g[i]
             a == access[i + 1][1]
             n == access[i + 1][2]
             t == IF a = s.last + s.last_len THEN s ELSE NextRun(s, a)
  <2>2. s \in RunStates /\ a \in Nat /\ n \in Nat /\ Kept(s, i)
    BY <1>3, <2>1
  <2>3. g[i + 1] = Lengthened(t, n)
    BY <1>1, <2>1 DEF msr_turn
  <2>4. R(i + 1) = R(i) \o Blocks(<<a, n>>) /\ R(i) \in Seq(Int)
    BY <2>1, PrefixIs
  <2> HIDE DEF s, a, n, R
  <2>5. /\ t \in RunStates /\ t.last \in Nat /\ a = t.last + t.last_len
        /\ Spelled(t) = R(i)
    <3>1. CASE a = s.last + s.last_len
      <4>1. s.last \in Nat
        BY <2>2, <3>1
      <4> QED BY <2>2, <3>1, <4>1
    <3>2. CASE a # s.last + s.last_len
      <4> DEFINE u == NextRun(s, a)
      <4>1. t = u
        BY <3>2
      <4>2. /\ u \in RunStates /\ u.last = a /\ u.last_len = 0
            /\ s.last # -1 => Spelled(u) = Spelled(s)
            /\ s.last = -1 => Spelled(u) = get_access_list(s.fw)
        <5>1. s \in RunStates /\ a \in Int
          BY <2>2
        <5> QED BY <5>1, NextRunIs
      <4>3. s.last = -1 => Spelled(s) = get_access_list(s.fw)
        <5>1. Blocks(<<-1, 0>>) = <<>>
          BY DEF Blocks
        <5>2. get_access_list(s.fw) \in Seq(Int)
          BY <2>2, SpelledType
        <5> QED BY <2>2, <5>1, <5>2, ConcatEmptySeq DEF Spelled
      <4> HIDE DEF u, t
      <4> QED BY <2>2, <4>1, <4>2, <4>3
    <3> QED BY <3>1, <3>2
  <2> HIDE DEF t
  <2>6. /\ Lengthened(t, n).last = t.last
        /\ Spelled(Lengthened(t, n)) = Spelled(t) \o Blocks(<<t.last + t.last_len, n>>)
    BY <2>2, <2>5, LongerIs
  <2> DEFINE v == g[i + 1]
  <2>7. Spelled(v) = R(i + 1)
    BY <2>3, <2>4, <2>5, <2>6
  <2>8. v.last \in Nat /\ v.last # -1
    BY <2>3, <2>5, <2>6
  <2> QED BY <2>7, <2>8
<1> HIDE DEF T
<1>4. Nat \subseteq T
  BY <1>2, <1>3, AllNaturals
<1>5. N \in 0 .. N /\ N \in Nat
  OBVIOUS
<1>6. Spelled(g[N]) = R(N)
  BY <1>4, <1>5 DEF T
<1>7. get_access_list(Flushed(g[N])) = Spelled(g[N])
  BY <1>1, <1>5, FlushedIs
<1> QED BY <1>1, <1>6, <1>7, PrefixIs

\* A request that is away from a first run taken to be at block -1
Away(access, j) == access[j][1] # Len(Prefix(access, j - 1)) - 1

LEMMA ConcatBlocks ==
  ASSUME NEW a \in Seq(Int), NEW b \in Seq(Int), NEW c \in Seq(Int)
  PROVE  (a \o b) \o c = a \o (b \o c)
BY ConcatAssociative, SMTT(30)

\* process_blkparse loses what precedes the first request that is away from it,
\* and nothing else; without one, it puts all at block -1.
LEMMA blkparse_keeps ==
  ASSUME NEW access \in Seq(Nat \X Nat), \A i \in DOMAIN access : access[i][2] > 0
  PROVE  LET list == get_access_list(process_blkparse(access))
             all == get_access_list(access)
         IN /\ (\A j \in 2 .. Len(access) : ~ Away(access, j)) =>
                 list = Blocks(<<-1, Len(all)>>)
            /\ \A j \in 2 .. Len(access) :
                 Away(access, j) /\ (\A h \in 2 .. j - 1 : ~ Away(access, h)) =>
                   all = Prefix(access, j - 1) \o list
<1> DEFINE N == Len(access)
           R(i) == Prefix(access, i)
<1>1. PICK g \in [0 .. N -> RunStates] :
        /\ process_blkparse(access) = Flushed(g[N])
        /\ g[0] = NoRun
        /\ \A i \in 1 .. N : g[i] = blkparse_turn(g[i - 1], access[i])
  BY blkparse_path
<1> DEFINE Near(i) == \A h \in 2 .. i : ~ Away(access, h)
           Second(j) == j \in 2 .. N /\ Away(access, j) /\ Near(j - 1)
           AtNone(s, i) == /\ s.last = -1 /\ s.fw = <<>>
                           /\ s.last_len = Len(R(i)) /\ (i > 0 => s.last_len > 0)
                           /\ Near(i)
           Placed(s, i) == /\ s.last \in Nat /\ s.last_len > 0
                           /\ \E j \in 2 .. i : /\ Second(j)
                                                 /\ R(i) = R(j - 1) \o Spelled(s)
           Kept(s, i) == AtNone(s, i) \/ Placed(s, i)
           T == { i \in Nat : i <= N => Kept(g[i], i) }
<1>2. 0 \in T
  <2>1. R(0) = <<>>
    BY PrefixIs
  <2>2. AtNone(NoRun, 0)
    BY <2>1, NoRunIs
  <2> HIDE DEF AtNone, Placed
  <2> QED BY <1>1, <2>2
<1>3. ASSUME NEW i \in Nat, i \in T PROVE i + 1 \in T
  <2> SUFFICES ASSUME i + 1 <= N PROVE Kept(g[i + 1], i + 1)
    <3> HIDE DEF Kept
    <3> QED OBVIOUS
  <2>1. /\ i + 1 \in 1 .. N /\ (i + 1) - 1 = i /\ i \in 0 .. N /\ i \in 0 .. N - 1
        /\ i <= N /\ i + 1 \in DOMAIN access
    OBVIOUS
  <2> DEFINE s == g[i]
             a == access[i + 1][1]
             n == access[i + 1][2]
             v == g[i + 1]
  <2>2. s \in RunStates /\ a \in Nat /\ a \in Int /\ n \in Nat /\ n > 0 /\ Kept(s, i)
    <3> HIDE DEF Kept
    <3>1. access[i + 1] \in Nat \X Nat
      BY <2>1
    <3>2. s \in RunStates
      BY <2>1
    <3>3. n > 0
      BY <2>1
    <3>4. Kept(s, i)
      BY <1>3, <2>1
    <3> QED BY <3>1, <3>2, <3>3, <3>4
  <2>3. v = Lengthened(IF a = s.last + s.last_len \/ s.last_len = 0
                       THEN s ELSE NextRun(s, a), n)
    BY <1>1, <2>1 DEF blkparse_turn
  <2>4. R(i + 1) = R(i) \o Blocks(<<a, n>>) /\ R(i) \in Seq(Int)
    BY <2>1, PrefixIs
  <2>5. Blocks(<<a, n>>) \in Seq(Int) /\ Len(Blocks(<<a, n>>)) = n
    BY <2>2, BlocksAre
  <2>6. Len(R(i + 1)) = Len(R(i)) + n
    BY <2>4, <2>5, ConcatProperties
  <2>7. s.last_len \in Nat
    BY <2>2 DEF RunStates
  <2>12. /\ Away(access, i + 1) <=> a # Len(R(i)) - 1
         /\ Len(R(i)) \in Nat /\ (i = 0 => Len(R(i)) = 0)
    BY <2>4, PrefixIs DEF Away
  <2> HIDE DEF s, a, n, R, v, Second
  <2>13. Placed(s, i) => s.last \in Nat /\ s.last_len > 0
    BY Zenon
  <2>14. n \in Nat /\ n > 0
    BY <2>2
  <2>8. CASE AtNone(s, i) /\ (a = s.last + s.last_len \/ s.last_len = 0)
    <3>1. v = Lengthened(s, n)
      BY <2>3, <2>8
    <3>2. /\ v.last = -1 /\ v.fw = <<>> /\ v.last_len = s.last_len + n
      BY <2>2, <2>8, <3>1, LongerIs
    <3>3. i > 0 => ~ Away(access, i + 1)
      BY <2>2, <2>8, <2>12
    <3>4. Near(i + 1)
      <4> SUFFICES ASSUME NEW h \in 2 .. i + 1 PROVE ~ Away(access, h)
        OBVIOUS
      <4>1. CASE h = i + 1
        BY <3>3, <4>1
      <4>2. CASE h # i + 1
        BY <2>8, <4>2
      <4> QED BY <4>1, <4>2
    <3> HIDE DEF Near
    <3>5. AtNone(v, i + 1)
      BY <2>2, <2>6, <2>7, <2>8, <3>2, <3>4
    <3> QED BY <3>5 DEF v
  <2>9. CASE ~ AtNone(s, i) /\ a = s.last + s.last_len
    <3>0. Placed(s, i)
      BY <2>2, <2>9
    <3>1. v = Lengthened(s, n)
      BY <2>3, <2>9
    <3>2. /\ v.last = s.last /\ v.last_len = s.last_len + n
          /\ Spelled(v) = Spelled(s) \o Blocks(<<a, n>>)
      BY <2>2, <2>9, <3>1, LongerIs
    <3>3. PICK j \in 2 .. i : Second(j) /\ R(i) = R(j - 1) \o Spelled(s)
      BY <3>0
    <3>7. R(j - 1) \in Seq(Int)
      <4>1. j - 1 \in 0 .. N
        BY <2>1, <3>3
      <4> QED BY <4>1, PrefixIs DEF R
    <3>4. R(i + 1) = R(j - 1) \o Spelled(v)
      <4> DEFINE A == Spelled(s)
                 B == Blocks(<<a, n>>)
                 u == R(j - 1)
      <4>1. A \in Seq(Int) /\ B \in Seq(Int)
        BY <2>2, <2>5, SpelledType
      <4>2. R(i + 1) = (u \o A) \o B /\ Spelled(v) = A \o B
        BY <2>4, <3>2, <3>3
      <4> HIDE DEF A, B, u
      <4>3. u \in Seq(Int)
        BY <3>7 DEF u
      <4>4. (u \o A) \o B = u \o (A \o B)
        BY <4>1, <4>3, ConcatBlocks
      <4> QED BY <4>2, <4>4 DEF u
    <3>5. v.last \in Nat /\ v.last_len > 0
      <4> HIDE DEF Placed
      <4>1. s.last \in Nat /\ s.last_len > 0
        BY <2>13, <3>0
      <4>2. v.last = s.last /\ v.last_len = s.last_len + n
        BY <3>2, Zenon
      <4>3. s.last_len + n > 0
        <5>1. \A x, y \in Nat : y > 0 => x + y > 0
          OBVIOUS
        <5> QED BY <2>7, <2>14, <5>1, Zenon
      <4> QED BY <4>1, <4>2, <4>3, Zenon
    <3>6. Placed(v, i + 1)
      <4>1. j \in 2 .. i + 1
        BY <3>3
      <4> QED BY <3>3, <3>4, <3>5, <4>1
    <3> QED BY <3>6 DEF v
  <2>10. CASE a # s.last + s.last_len /\ s.last_len # 0
    <3> DEFINE t == NextRun(s, a)
    <3>1. /\ t \in RunStates /\ t.last = a /\ t.last_len = 0
          /\ s.last # -1 => Spelled(t) = Spelled(s)
          /\ s.last = -1 => Spelled(t) = get_access_list(s.fw)
      BY <2>2, NextRunIs
    <3>2. v = Lengthened(t, n)
      BY <2>3, <2>10
    <3> HIDE DEF t
    <3>3. /\ v.last = a /\ v.last_len = 0 + n
          /\ Spelled(v) = Spelled(t) \o Blocks(<<a + 0, n>>)
      BY <2>2, <3>1, <3>2, LongerIs
    <3>4. v.last \in Nat /\ v.last_len > 0 /\ Spelled(v) = Spelled(t) \o Blocks(<<a, n>>)
      BY <2>2, <3>3
    <3>5. \E j \in 2 .. i + 1 : Second(j) /\ R(i) = R(j - 1) \o Spelled(t)
      <4>1. CASE AtNone(s, i)
        <5>1. Spelled(t) = <<>>
          BY <3>1, <4>1, ReadNothing
        <5>2. R(i) = R(i) \o <<>>
          BY <2>4, ConcatEmptySeq
        <5>3. i > 0 /\ Away(access, i + 1)
          BY <2>1, <2>2, <2>10, <2>12, <4>1
        <5>4. i + 1 \in 2 .. N /\ i + 1 \in 2 .. i + 1
          BY <2>1, <5>3
        <5>5. Second(i + 1)
          BY <2>1, <4>1, <5>3, <5>4 DEF Second
        <5> QED BY <2>1, <5>1, <5>2, <5>4, <5>5
      <4>2. CASE Placed(s, i)
        <5>1. Spelled(t) = Spelled(s)
          <6> HIDE DEF Placed
          <6>1. s.last # -1
            BY <2>13, <4>2
          <6> QED BY <3>1, <6>1
        <5>2. PICK j \in 2 .. i : Second(j) /\ R(i) = R(j - 1) \o Spelled(s)
          BY <4>2
        <5>3. j \in 2 .. i + 1
          BY <5>2
        <5> QED BY <5>1, <5>2, <5>3
      <4> QED BY <2>2, <4>1, <4>2
    <3>6. PICK j \in 2 .. i + 1 : Second(j) /\ R(i) = R(j - 1) \o Spelled(t)
      BY <3>5
    <3>9. R(j - 1) \in Seq(Int)
      <4>1. j - 1 \in 0 .. N
        BY <2>1, <3>6
      <4> QED BY <4>1, PrefixIs DEF R
    <3>7. R(i + 1) = R(j - 1) \o Spelled(v)
      <4> DEFINE A == Spelled(t)
                 B == Blocks(<<a, n>>)
                 u == R(j - 1)
      <4>1. A \in Seq(Int) /\ B \in Seq(Int)
        BY <2>5, <3>1, SpelledType
      <4>2. R(i + 1) = (u \o A) \o B /\ Spelled(v) = A \o B
        BY <2>4, <3>4, <3>6
      <4> HIDE DEF A, B, u
      <4>3. u \in Seq(Int)
        BY <3>9 DEF u
      <4>4. (u \o A) \o B = u \o (A \o B)
        BY <4>1, <4>3, ConcatBlocks
      <4> QED BY <4>2, <4>4 DEF u
    <3>8. Placed(v, i + 1)
      BY <3>4, <3>6, <3>7
    <3> QED BY <3>8 DEF v
  <2>11. ~ AtNone(s, i) => s.last_len # 0
    <3> HIDE DEF AtNone, Placed
    <3> QED BY <2>2, <2>7, <2>13
  <2> QED BY <2>8, <2>9, <2>10, <2>11
<1> HIDE DEF T, AtNone, Placed
<1>4. Nat \subseteq T
  BY <1>2, <1>3, AllNaturals
<1>5. N \in 0 .. N /\ N \in Nat
  OBVIOUS
<1> DEFINE s == g[N]
           list == get_access_list(process_blkparse(access))
<1>6. Kept(s, N) /\ s \in RunStates
  <2>1. N \in T
    BY <1>4, <1>5
  <2>2. Kept(g[N], N)
    BY <1>5, <2>1 DEF T
  <2>3. g[N] \in RunStates
    BY <1>1, <1>5
  <2> QED BY <2>2, <2>3
<1>7. list = Spelled(s)
  BY <1>1, <1>6, FlushedIs
<1>8. R(N) = get_access_list(access)
  BY PrefixIs
<1> HIDE DEF s, list
<1>9. CASE AtNone(s, N)
  <2>1. Spelled(s) = <<>> \o Blocks(<<-1, Len(R(N))>>)
    BY <1>9, ReadNothing DEF AtNone, Spelled
  <2>2. Len(R(N)) \in Nat
    BY <1>5, PrefixIs, LenProperties
  <2>3. Blocks(<<-1, Len(R(N))>>) \in Seq(Int)
    <3> DEFINE a == -1  n == Len(R(N))
    <3>1. a \in Int /\ n \in Nat
      BY <2>2
    <3> HIDE DEF a, n
    <3>2. Blocks(<<a, n>>) \in Seq(Int)
      BY <3>1, BlocksAre
    <3> QED BY <3>2 DEF a, n
  <2>4. list = Blocks(<<-1, Len(R(N))>>)
    BY <1>7, <2>1, <2>3, ConcatEmptySeq
  <2>5. \A j \in 2 .. N : ~ Away(access, j)
    BY <1>9 DEF AtNone
  <2> QED BY <1>8, <2>4, <2>5 DEF list
<1>10. CASE Placed(s, N)
  <2>1. PICK j \in 2 .. N : Second(j) /\ R(N) = R(j - 1) \o Spelled(s)
    BY <1>10 DEF Placed
  <2>2. ASSUME NEW l \in 2 .. N, Away(access, l), \A h \in 2 .. l - 1 : ~ Away(access, h)
        PROVE  l = j
    <3>1. CASE l < j
      BY <2>1, <2>2, <3>1
    <3>2. CASE j < l
      BY <2>1, <2>2, <3>2
    <3> QED BY <3>1, <3>2
  <2> QED BY <1>7, <1>8, <2>1, <2>2 DEF list
<1> QED BY <1>6, <1>9, <1>10

-----------------------------------------------------------------------------
(* LinkList *)

ListNodes == [key : Int, pred : Nat, next : Nat]
NodeTables == UNION { [S -> ListNodes] : S \in SUBSET Nat }
KeyTables == UNION { [S -> Nat] : S \in SUBSET Int }
ListStates == [head : Nat, tail : Nat, size : Int, node : NodeTables,
               made : Nat, u_map : KeyTables, ub : BOOLEAN]

LEMMA SetPredIs ==
  ASSUME NEW l \in ListStates, NEW n \in DOMAIN l.node, NEW p \in Nat
  PROVE  LET t == SetPred(l, n, p)
         IN /\ t \in ListStates
            /\ t.node = [l.node EXCEPT ![n] = [@ EXCEPT !.pred = p]]
            /\ t.head = l.head /\ t.tail = l.tail /\ t.size = l.size
            /\ t.made = l.made /\ t.u_map = l.u_map /\ t.ub = l.ub
<1> DEFINE nodes == [l.node EXCEPT ![n] = [@ EXCEPT !.pred = p]]
           t == [l EXCEPT !.node = nodes]
<1>1. SetPred(l, n, p) = t
  BY DEF SetPred, Live
<1>2. nodes \in NodeTables
  <2>1. PICK S \in SUBSET Nat : l.node \in [S -> ListNodes]
    BY DEF ListStates, NodeTables
  <2>2. [l.node[n] EXCEPT !.pred = p] \in ListNodes
    BY <2>1 DEF ListNodes
  <2>3. nodes \in [S -> ListNodes]
    BY <2>1, <2>2
  <2> QED BY <2>3 DEF NodeTables
<1> HIDE DEF nodes
<1>3. /\ t \in ListStates /\ t.node = nodes
      /\ t.head = l.head /\ t.tail = l.tail /\ t.size = l.size
      /\ t.made = l.made /\ t.u_map = l.u_map /\ t.ub = l.ub
  BY <1>2 DEF ListStates
<1> QED BY <1>1, <1>3 DEF nodes

LEMMA SetNextIs ==
  ASSUME NEW l \in ListStates, NEW n \in DOMAIN l.node, NEW p \in Nat
  PROVE  LET t == SetNext(l, n, p)
         IN /\ t \in ListStates
            /\ t.node = [l.node EXCEPT ![n] = [@ EXCEPT !.next = p]]
            /\ t.head = l.head /\ t.tail = l.tail /\ t.size = l.size
            /\ t.made = l.made /\ t.u_map = l.u_map /\ t.ub = l.ub
<1> DEFINE nodes == [l.node EXCEPT ![n] = [@ EXCEPT !.next = p]]
           t == [l EXCEPT !.node = nodes]
<1>1. SetNext(l, n, p) = t
  BY DEF SetNext, Live
<1>2. nodes \in NodeTables
  <2>1. PICK S \in SUBSET Nat : l.node \in [S -> ListNodes]
    BY DEF ListStates, NodeTables
  <2>2. [l.node[n] EXCEPT !.next = p] \in ListNodes
    BY <2>1 DEF ListNodes
  <2>3. nodes \in [S -> ListNodes]
    BY <2>1, <2>2
  <2> QED BY <2>3 DEF NodeTables
<1> HIDE DEF nodes
<1>3. /\ t \in ListStates /\ t.node = nodes
      /\ t.head = l.head /\ t.tail = l.tail /\ t.size = l.size
      /\ t.made = l.made /\ t.u_map = l.u_map /\ t.ub = l.ub
  BY <1>2 DEF ListStates
<1> QED BY <1>1, <1>3 DEF nodes

\* The element at place i, or no node
At(ns, i) == IF i \in 1 .. Len(ns) THEN ns[i] ELSE nullptr

NodeIs(x, p, n) == x \in ListNodes /\ x.pred = p /\ x.next = n

\* ns has the nodes of the list l in their order.
Ends(l, ns) ==
  /\ l \in ListStates
  /\ l.head = At(ns, 1) /\ l.tail = At(ns, Len(ns)) /\ l.size = Len(ns)
  /\ l.ub = FALSE

Distinct(ns) == \A i, j \in 1 .. Len(ns) : ns[i] = ns[j] => i = j
Elements(ns) == { ns[i] : i \in 1 .. Len(ns) }

Chain(l, ns) ==
  /\ Ends(l, ns)
  /\ ns \in Seq(Nat) /\ Distinct(ns)
  /\ \A i \in 1 .. Len(ns) : ns[i] \in 1 .. l.made
  /\ DOMAIN l.node = Elements(ns)
  /\ \A i \in 1 .. Len(ns) :
       NodeIs(l.node[ns[i]], At(ns, i - 1), At(ns, i + 1))

LEMMA ChainNodes ==
  ASSUME NEW l, NEW ns, Chain(l, ns)
  PROVE  /\ Len(ns) \in Nat /\ l.made \in Nat
         /\ l.node = [x \in Elements(ns) |-> l.node[x]]
         /\ \A i \in 1 .. Len(ns) :
              /\ ns[i] \in DOMAIN l.node /\ ns[i] # nullptr /\ ns[i] \in Nat
              /\ ns[i] <= l.made
         /\ \A i \in Int : At(ns, i) \in Nat
<1>1. Len(ns) \in Nat /\ l.made \in Nat
  BY DEF Chain, Ends, ListStates
<1>2. \A i \in 1 .. Len(ns) : ns[i] \in 1 .. l.made
  BY DEF Chain
<1>3. \A i \in 1 .. Len(ns) : ns[i] \in DOMAIN l.node
  BY DEF Chain, Elements
<1>4. l.node = [x \in Elements(ns) |-> l.node[x]]
  <2>1. l.node \in NodeTables
    BY DEF Chain, Ends, ListStates
  <2> QED BY <2>1 DEF NodeTables, Chain
<1> QED BY <1>1, <1>2, <1>3, <1>4 DEF nullptr, At

LEMMA NewChain == Chain(NewList, <<>>)
<1>1. <<>> \in Seq(Nat) /\ Len(<<>>) = 0
  OBVIOUS
<1>2. At(<<>>, 1) = 0 /\ At(<<>>, 0) = 0
  BY <1>1 DEF At, nullptr
<1>3. NoEntries \in NodeTables /\ NoEntries \in KeyTables /\ DOMAIN NoEntries = {}
  <2>1. NoEntries \in [{} -> ListNodes] /\ NoEntries \in [{} -> Nat]
    BY DEF NoEntries
  <2>2. {} \in SUBSET Nat /\ {} \in SUBSET Int
    OBVIOUS
  <2> QED BY <2>1, <2>2 DEF NodeTables, KeyTables
<1>4. /\ NewList \in ListStates /\ NewList.head = 0 /\ NewList.tail = 0
      /\ NewList.size = 0 /\ NewList.node = NoEntries /\ NewList.ub = FALSE
  BY <1>3 DEF NewList, ListStates, nullptr
<1> QED BY <1>1, <1>2, <1>3, <1>4 DEF Chain, Ends, Distinct, Elements

\* The table of the list says nothing of its nodes.
LEMMA ChainTable ==
  ASSUME NEW l, NEW ns, Chain(l, ns), NEW x \in KeyTables
  PROVE  LET t == [l EXCEPT !.u_map = x]
         IN Chain(t, ns) /\ t.node = l.node /\ t.made = l.made /\ t.u_map = x
            /\ t.head = l.head
<1> DEFINE t == [l EXCEPT !.u_map = x]
<1>1. /\ t \in ListStates /\ t.u_map = x /\ t.node = l.node /\ t.made = l.made
      /\ t.head = l.head /\ t.tail = l.tail /\ t.size = l.size /\ t.ub = l.ub
  BY DEF Chain, Ends, ListStates
<1> HIDE DEF t
<1>2. Chain(t, ns)
  BY <1>1 DEF Chain, Ends
<1> QED BY <1>1, <1>2 DEF t

LEMMA NodeTableFacts ==
  /\ \A f \in NodeTables, n \in Nat, x \in ListNodes : Put(f, n, x) \in NodeTables
  /\ \A f \in NodeTables, n \in Nat : Drop(f, n) \in NodeTables
<1>1. ASSUME NEW f \in NodeTables, NEW n \in Nat, NEW x \in ListNodes
      PROVE  Put(f, n, x) \in NodeTables
  <2>1. PICK S \in SUBSET Nat : f \in [S -> ListNodes]
    BY DEF NodeTables
  <2>2. Put(f, n, x) \in [S \cup {n} -> ListNodes]
    BY <2>1 DEF Put
  <2>3. S \cup {n} \in SUBSET Nat
    OBVIOUS
  <2> QED BY <2>2, <2>3 DEF NodeTables
<1>2. ASSUME NEW f \in NodeTables, NEW n \in Nat PROVE Drop(f, n) \in NodeTables
  <2>1. PICK S \in SUBSET Nat : f \in [S -> ListNodes]
    BY DEF NodeTables
  <2>2. Drop(f, n) \in [S \ {n} -> ListNodes]
    BY <2>1 DEF Drop
  <2>3. S \ {n} \in SUBSET Nat
    OBVIOUS
  <2> QED BY <2>2, <2>3 DEF NodeTables
<1> QED BY <1>1, <1>2

LEMMA FrontIs ==
  ASSUME NEW S, NEW ns \in Seq(S), NEW x \in S
  PROVE  /\ <<x>> \o ns \in Seq(S) /\ Len(<<x>> \o ns) = Len(ns) + 1
         /\ (<<x>> \o ns)[1] = x
         /\ \A i \in 1 .. Len(ns) : (<<x>> \o ns)[i + 1] = ns[i]
         /\ \A i \in 1 .. Len(ns) + 1 :
              i # 1 => i - 1 \in 1 .. Len(ns) /\ (<<x>> \o ns)[i] = ns[i - 1]
<1>1. <<x>> \in Seq(S) /\ Len(<<x>>) = 1 /\ <<x>>[1] = x /\ Len(ns) \in Nat
  OBVIOUS
<1> DEFINE r == <<x>> \o ns
<1>2. /\ r \in Seq(S) /\ Len(r) = Len(ns) + 1
      /\ \A i \in 1 .. 1 + Len(ns) : r[i] = IF i <= 1 THEN <<x>>[i] ELSE ns[i - 1]
  BY <1>1, ConcatProperties
<1> HIDE DEF r
<1>3. r[1] = x
  BY <1>1, <1>2
<1>4. \A i \in 1 .. Len(ns) : r[i + 1] = ns[i]
  <2> TAKE i \in 1 .. Len(ns)
  <2>1. i + 1 \in 1 .. 1 + Len(ns) /\ ~(i + 1 <= 1) /\ (i + 1) - 1 = i
    BY <1>1
  <2> QED BY <1>2, <2>1
<1>5. \A i \in 1 .. Len(ns) + 1 : i # 1 => i - 1 \in 1 .. Len(ns) /\ r[i] = ns[i - 1]
  <2> TAKE i \in 1 .. Len(ns) + 1
  <2> HAVE i # 1
  <2>1. i \in 1 .. 1 + Len(ns) /\ ~(i <= 1) /\ i - 1 \in 1 .. Len(ns)
    BY <1>1
  <2> QED BY <1>2, <2>1
<1> QED BY <1>2, <1>3, <1>4, <1>5 DEF r

\* A sequence with one element more in front
LEMMA FrontAt ==
  ASSUME NEW ns \in Seq(Nat), NEW n \in Nat, n \notin Elements(ns), Distinct(ns)
  PROVE  LET r == <<n>> \o ns
         IN /\ r \in Seq(Nat) /\ Len(r) = Len(ns) + 1 /\ r[1] = n
            /\ Distinct(r) /\ Elements(r) = Elements(ns) \cup {n}
            /\ \A i \in 1 .. Len(ns) : r[i + 1] = ns[i]
            /\ \A i \in 1 .. Len(r) : i # 1 => i - 1 \in 1 .. Len(ns) /\ r[i] = ns[i - 1]
            /\ At(r, 1) = n /\ At(r, 0) = nullptr
            /\ \A i \in 1 .. Len(ns) + 1 : At(r, i + 1) = At(ns, i)
            /\ At(r, Len(r)) = IF At(ns, Len(ns)) = nullptr /\ Len(ns) = 0
                               THEN n ELSE At(ns, Len(ns))
<1> DEFINE r == <<n>> \o ns
           N == Len(ns)
<1>1. /\ r \in Seq(Nat) /\ Len(r) = N + 1 /\ r[1] = n /\ N \in Nat
      /\ \A i \in 1 .. N : r[i + 1] = ns[i]
      /\ \A i \in 1 .. N + 1 : i # 1 => i - 1 \in 1 .. N /\ r[i] = ns[i - 1]
  BY FrontIs
<1> HIDE DEF r
<1>2. \A i \in 1 .. N : ns[i] # n
  BY DEF Elements
<1>3. Distinct(r)
  <2> SUFFICES ASSUME NEW i \in 1 .. N + 1, NEW j \in 1 .. N + 1, r[i] = r[j]
               PROVE  i = j
    BY <1>1 DEF Distinct
  <2>1. CASE i = 1
    <3>1. SUFFICES ASSUME j # 1 PROVE FALSE
      BY <2>1
    <3> QED BY <1>1, <1>2, <2>1, <3>1
  <2>2. CASE i # 1
    <3>1. i - 1 \in 1 .. N /\ r[i] = ns[i - 1]
      BY <1>1, <2>2
    <3>2. j # 1
      BY <1>1, <1>2, <3>1
    <3>3. j - 1 \in 1 .. N /\ r[j] = ns[j - 1]
      BY <1>1, <3>2
    <3>4. i - 1 = j - 1
      BY <3>1, <3>3 DEF Distinct
    <3> QED BY <3>4, <1>1
  <2> QED BY <2>1, <2>2
<1>4. Elements(r) = Elements(ns) \cup {n}
  <2>1. ASSUME NEW i \in 1 .. N + 1 PROVE r[i] \in Elements(ns) \cup {n}
    <3>1. CASE i = 1
      BY <1>1, <3>1
    <3>2. CASE i # 1
      BY <1>1, <3>2 DEF Elements
    <3> QED BY <3>1, <3>2
  <2>2. ASSUME NEW i \in 1 .. N PROVE ns[i] \in Elements(r)
    <3>1. i + 1 \in 1 .. Len(r) /\ r[i + 1] = ns[i]
      BY <1>1
    <3> QED BY <3>1 DEF Elements
  <2>3. n \in Elements(r)
    <3>1. 1 \in 1 .. Len(r)
      BY <1>1
    <3> QED BY <1>1, <3>1 DEF Elements
  <2>4. Elements(r) = { r[i] : i \in 1 .. N + 1 }
    BY <1>1 DEF Elements
  <2>5. Elements(ns) = { ns[i] : i \in 1 .. N }
    BY DEF Elements
  <2>6. Elements(r) \subseteq Elements(ns) \cup {n}
    BY <2>1, <2>4
  <2>7. Elements(ns) \subseteq Elements(r)
    BY <2>2, <2>5
  <2> QED BY <2>3, <2>6, <2>7
<1>5. At(r, 1) = n /\ At(r, 0) = nullptr
  BY <1>1 DEF At
<1>6. ASSUME NEW i \in 1 .. N + 1 PROVE At(r, i + 1) = At(ns, i)
  <2>1. CASE i \in 1 .. N
    <3>1. i + 1 \in 1 .. Len(r)
      BY <1>1, <2>1
    <3> QED BY <1>1, <2>1, <3>1 DEF At
  <2>2. CASE i = N + 1
    <3>1. i + 1 \notin 1 .. Len(r) /\ i \notin 1 .. N
      BY <1>1, <2>2
    <3> QED BY <3>1 DEF At
  <2> QED BY <1>1, <2>1, <2>2
<1>7. At(r, Len(r)) = IF At(ns, N) = nullptr /\ N = 0 THEN n ELSE At(ns, N)
  <2>1. CASE N = 0
    <3>1. N \notin 1 .. N /\ Len(r) = 1
      BY <1>1, <2>1
    <3> QED BY <1>5, <2>1, <3>1 DEF At
  <2>2. CASE N # 0
    <3>1. N \in 1 .. N + 1
      BY <1>1, <2>2
    <3> QED BY <1>1, <1>6, <2>2, <3>1
  <2> QED BY <2>1, <2>2
<1> QED BY <1>1, <1>3, <1>4, <1>5, <1>6, <1>7 DEF r

\* Whether the list is empty shows at its ends.
LEMMA ChainEnds ==
  ASSUME NEW l, NEW ns, Chain(l, ns)
  PROVE  /\ Len(ns) = 0 <=> l.head = nullptr
         /\ Len(ns) = 0 <=> l.tail = nullptr
         /\ Len(ns) # 0 =>
              /\ 1 \in 1 .. Len(ns) /\ l.head = ns[1]
              /\ Len(ns) \in 1 .. Len(ns) /\ l.tail = ns[Len(ns)]
<1>1. /\ l.head = At(ns, 1) /\ l.tail = At(ns, Len(ns))
  BY DEF Chain, Ends
<1>2. /\ Len(ns) \in Nat /\ \A i \in 1 .. Len(ns) : ns[i] # nullptr
  BY ChainNodes
<1>3. CASE Len(ns) = 0
  BY <1>1, <1>3 DEF At
<1>4. CASE Len(ns) # 0
  <2>1. 1 \in 1 .. Len(ns) /\ Len(ns) \in 1 .. Len(ns)
    BY <1>2, <1>4
  <2> QED BY <1>1, <1>2, <1>4, <2>1 DEF At
<1> QED BY <1>3, <1>4

LEMMA ChainFront ==
  ASSUME NEW l, NEW ns, Chain(l, ns), NEW k \in Int
  PROVE  LET t == push_front(l, k)
             n == l.made + 1
         IN /\ Chain(t, <<n>> \o ns) /\ t.u_map = l.u_map /\ t.head = n
            /\ t.node[n].key = k /\ t.made = n
            /\ n \notin DOMAIN l.node /\ DOMAIN t.node = DOMAIN l.node \cup {n}
            /\ \A x \in DOMAIN l.node : t.node[x].key = l.node[x].key
<1> DEFINE n == l.made + 1
           t == push_front(l, k)
           N == Len(ns)
           r == <<n>> \o ns
           new == [key |-> k, pred |-> nullptr, next |-> l.head]
           s == IF l.head = nullptr THEN l ELSE SetPred(l, l.head, n)
<1>1. /\ l \in ListStates /\ l.size = N /\ l.head = At(ns, 1)
      /\ l.tail = At(ns, N) /\ l.ub = FALSE
      /\ ns \in Seq(Nat) /\ Distinct(ns) /\ DOMAIN l.node = Elements(ns)
      /\ \A i \in 1 .. N : ns[i] \in 1 .. l.made
      /\ \A i \in 1 .. N : NodeIs(l.node[ns[i]], At(ns, i - 1), At(ns, i + 1))
  BY DEF Chain, Ends
<1>2. /\ N \in Nat /\ l.made \in Nat /\ l.head \in Nat
      /\ l.node = [x \in Elements(ns) |-> l.node[x]]
      /\ \A i \in 1 .. N : ns[i] \in DOMAIN l.node /\ ns[i] # nullptr
      /\ \A i \in Int : At(ns, i) \in Nat
  <2>1. l.head \in Nat
    BY <1>1 DEF ListStates
  <2> QED BY <1>1, <2>1, ChainNodes
<1>3. n \in Nat /\ n \notin Elements(ns) /\ n # nullptr /\ 1 \in 1 .. n
  <2>0. l.made \in Nat
    BY <1>2
  <2>1. ASSUME NEW i \in 1 .. N PROVE ns[i] # n
    <3>1. ns[i] \in 1 .. l.made
      BY <1>1
    <3> QED BY <2>0, <3>1
  <2>2. n \notin Elements(ns)
    BY <2>1 DEF Elements
  <2>3. n \in Nat /\ n # 0 /\ 1 \in 1 .. n
    BY <2>0
  <2> QED BY <2>2, <2>3 DEF nullptr
<1>4. /\ N = 0 <=> l.head = nullptr
      /\ N = 0 <=> l.tail = nullptr
      /\ N # 0 => 1 \in 1 .. N /\ l.head = ns[1]
  BY ChainEnds
<1>5. /\ s \in ListStates
      /\ s.node = IF N = 0 THEN l.node
                  ELSE [l.node EXCEPT ![ns[1]] = [@ EXCEPT !.pred = n]]
      /\ s.tail = l.tail /\ s.size = N /\ s.u_map = l.u_map /\ s.ub = FALSE
  <2>1. CASE N = 0
    BY <1>1, <1>4, <2>1
  <2>2. CASE N # 0
    <3>1. l.head = ns[1] /\ ns[1] \in DOMAIN l.node /\ s = SetPred(l, ns[1], n)
      BY <1>2, <1>4, <2>2
    <3> HIDE DEF s, n
    <3> QED BY <1>1, <1>3, <2>2, <3>1, SetPredIs
  <2> QED BY <2>1, <2>2
<1>6. t = [s EXCEPT !.node = Put(@, n, new), !.tail = IF @ = nullptr THEN n ELSE @,
                    !.made = n, !.head = n, !.size = @ + 1]
  BY DEF push_front
<1>7. new \in ListNodes /\ new.key = k /\ NodeIs(new, nullptr, At(ns, 1))
  BY <1>1, <1>2 DEF NodeIs, ListNodes, nullptr
<1> HIDE DEF t, s, new
<1>8. Put(s.node, n, new) \in NodeTables
  BY <1>3, <1>5, <1>7, NodeTableFacts DEF ListStates
<1> HIDE DEF n, N
<1>9. /\ t \in ListStates /\ t.node = Put(s.node, n, new) /\ t.head = n
      /\ t.tail = (IF l.tail = nullptr THEN n ELSE l.tail)
      /\ t.made = n /\ t.size = N + 1 /\ t.u_map = l.u_map /\ t.ub = FALSE
  <2> DEFINE nodes == Put(s.node, n, new)
             tail == IF l.tail = nullptr THEN n ELSE l.tail
  <2>1. t = [s EXCEPT !.node = nodes, !.tail = tail, !.made = n, !.head = n,
                      !.size = N + 1]
    BY <1>5, <1>6
  <2>2. nodes \in NodeTables /\ tail \in Nat /\ N + 1 \in Int
    BY <1>1, <1>2, <1>3, <1>8 DEF ListStates
  <2> HIDE DEF nodes, tail
  <2>3. /\ t \in ListStates /\ t.node = nodes /\ t.head = n /\ t.tail = tail
        /\ t.made = n /\ t.size = N + 1 /\ t.u_map = s.u_map /\ t.ub = s.ub
    BY <1>3, <1>5, <2>1, <2>2 DEF ListStates
  <2> QED BY <1>5, <2>3 DEF nodes, tail
<1>10. /\ r \in Seq(Nat) /\ Len(r) = N + 1 /\ r[1] = n
       /\ Distinct(r) /\ Elements(r) = Elements(ns) \cup {n}
       /\ \A i \in 1 .. N + 1 : i # 1 => i - 1 \in 1 .. N /\ r[i] = ns[i - 1]
       /\ At(r, 1) = n /\ At(r, 0) = nullptr
       /\ \A i \in 1 .. N + 1 : At(r, i + 1) = At(ns, i)
       /\ At(r, Len(r)) = IF At(ns, N) = nullptr /\ N = 0 THEN n ELSE At(ns, N)
  BY <1>1, <1>3, FrontAt DEF N
<1> HIDE DEF r
<1>11. Ends(t, r)
  BY <1>1, <1>4, <1>9, <1>10 DEF Ends
<1>12. DOMAIN s.node = Elements(ns)
  BY <1>1, <1>5
<1>13. /\ DOMAIN t.node = Elements(ns) \cup {n} /\ t.node[n] = new
       /\ \A x \in Elements(ns) : t.node[x] = s.node[x]
  BY <1>3, <1>9, <1>12 DEF Put
<1>14. ASSUME NEW i \in 1 .. N
       PROVE  /\ NodeIs(s.node[ns[i]], IF i = 1 THEN n ELSE At(ns, i - 1), At(ns, i + 1))
              /\ s.node[ns[i]].key = l.node[ns[i]].key
  <2>0. N # 0
    BY <1>2
  <2>1. s.node = [l.node EXCEPT ![ns[1]] = [@ EXCEPT !.pred = n]]
    BY <1>5, <2>0
  <2>2. /\ NodeIs(l.node[ns[i]], At(ns, i - 1), At(ns, i + 1))
        /\ ns[i] \in DOMAIN l.node /\ 1 \in 1 .. N
    BY <1>1, <1>2, <1>4, <2>0
  <2>3. CASE i = 1
    <3>1. s.node[ns[i]] = [l.node[ns[i]] EXCEPT !.pred = n]
      BY <2>1, <2>2, <2>3
    <3> QED BY <1>3, <2>2, <2>3, <3>1 DEF NodeIs, ListNodes
  <2>4. CASE i # 1
    <3>1. ns[i] # ns[1]
      BY <1>1, <2>2, <2>4 DEF Distinct, N
    <3>2. s.node[ns[i]] = l.node[ns[i]]
      BY <2>1, <2>2, <3>1
    <3> QED BY <2>2, <2>4, <3>2
  <2> QED BY <2>3, <2>4
<1>15. ASSUME NEW i \in 1 .. N + 1
       PROVE  /\ NodeIs(t.node[r[i]], At(r, i - 1), At(r, i + 1))
              /\ r[i] \in 1 .. n
  <2>1. CASE i = 1
    <3>1. /\ i - 1 = 0 /\ i + 1 = 1 + 1 /\ 1 \in 1 .. N + 1
      BY <1>2, <2>1
    <3>2. At(r, i + 1) = At(ns, 1) /\ At(r, i - 1) = nullptr /\ r[i] = n
      BY <1>10, <2>1, <3>1
    <3> QED BY <1>3, <1>7, <1>13, <3>2
  <2>2. CASE i # 1
    <3> DEFINE j == i - 1
    <3>0. j \in 1 .. N /\ r[i] = ns[j]
      BY <1>10, <2>2
    <3>1. j \in 1 .. N /\ r[i] = ns[j] /\ i = j + 1 /\ j + 1 \in 1 .. N + 1
      BY <1>2, <3>0
    <3> HIDE DEF j
    <3>2. NodeIs(t.node[r[i]], IF j = 1 THEN n ELSE At(ns, j - 1), At(ns, j + 1))
      BY <1>13, <1>14, <3>1 DEF Elements, N
    <3>3. At(r, i + 1) = At(ns, j + 1)
      BY <1>10, <3>1
    <3>4. At(r, i - 1) = IF j = 1 THEN n ELSE At(ns, j - 1)
      <4>1. CASE j = 1
        BY <1>10, <3>1, <4>1
      <4>2. CASE j # 1
        <5>1. j - 1 \in 1 .. N + 1 /\ i - 1 = (j - 1) + 1
          BY <1>2, <3>1, <4>2
        <5> QED BY <1>10, <4>2, <5>1
      <4> QED BY <4>1, <4>2
    <3>5. r[i] \in 1 .. n
      <4>1. ns[j] \in 1 .. l.made
        BY <1>1, <3>1
      <4> QED BY <1>2, <3>1, <4>1 DEF n
    <3> QED BY <3>2, <3>3, <3>4, <3>5
  <2> QED BY <2>1, <2>2
<1>16. Chain(t, r)
  BY <1>9, <1>10, <1>11, <1>13, <1>15 DEF Chain
<1>17. \A x \in Elements(ns) : t.node[x].key = l.node[x].key
  <2> TAKE x \in Elements(ns)
  <2>1. PICK i \in 1 .. N : x = ns[i]
    BY DEF Elements, N
  <2> QED BY <1>13, <1>14, <2>1
<1> QED BY <1>1, <1>3, <1>7, <1>9, <1>13, <1>16, <1>17 DEF t, r, n

\* A sequence with one element more at the end
LEMMA BackAt ==
  ASSUME NEW ns \in Seq(Nat), NEW n \in Nat, n \notin Elements(ns), Distinct(ns)
  PROVE  LET r == Append(ns, n)
         IN /\ r \in Seq(Nat) /\ Len(r) = Len(ns) + 1 /\ r[Len(ns) + 1] = n
            /\ Distinct(r) /\ Elements(r) = Elements(ns) \cup {n}
            /\ \A i \in 1 .. Len(ns) : r[i] = ns[i]
            /\ At(r, Len(r)) = n /\ At(r, Len(r) + 1) = nullptr
            /\ \A i \in 0 .. Len(ns) : At(r, i) = At(ns, i)
            /\ At(r, 1) = IF Len(ns) = 0 THEN n ELSE At(ns, 1)
<1> DEFINE r == Append(ns, n)
           N == Len(ns)
<1>1. /\ r \in Seq(Nat) /\ Len(r) = N + 1 /\ r[N + 1] = n /\ N \in Nat
      /\ \A i \in 1 .. N : r[i] = ns[i]
  BY AppendProperties
<1> HIDE DEF r
<1>2. \A i \in 1 .. N : ns[i] # n
  BY DEF Elements
<1>0. \A i \in 1 .. N + 1 : i \in 1 .. N \/ i = N + 1
  BY <1>1
<1>3. Distinct(r)
  <2> SUFFICES ASSUME NEW i \in 1 .. N + 1, NEW j \in 1 .. N + 1, r[i] = r[j]
               PROVE  i = j
    BY <1>1 DEF Distinct
  <2>1. CASE i \in 1 .. N /\ j \in 1 .. N
    BY <1>1, <2>1 DEF Distinct
  <2>2. CASE ~(i \in 1 .. N /\ j \in 1 .. N)
    BY <1>0, <1>1, <1>2, <2>2
  <2> QED BY <2>1, <2>2
<1>4. Elements(r) = Elements(ns) \cup {n}
  <2>1. Elements(r) = { r[i] : i \in 1 .. N + 1 }
    BY <1>1 DEF Elements
  <2>2. Elements(ns) = { ns[i] : i \in 1 .. N }
    BY DEF Elements
  <2>3. \A i \in 1 .. N + 1 : r[i] \in Elements(ns) \cup {n}
    BY <1>0, <1>1, <2>2
  <2>4. \A i \in 1 .. N : ns[i] \in Elements(r)
    <3>1. \A i \in 1 .. N : i \in 1 .. N + 1
      BY <1>1
    <3> QED BY <1>1, <2>1, <3>1
  <2>5. n \in Elements(r)
    <3>1. N + 1 \in 1 .. N + 1
      BY <1>1
    <3> QED BY <1>1, <2>1, <3>1
  <2> QED BY <2>1, <2>2, <2>3, <2>4, <2>5
<1>5. At(r, Len(r)) = n /\ At(r, Len(r) + 1) = nullptr
  <2>1. N + 1 \in 1 .. N + 1 /\ (N + 1) + 1 \notin 1 .. N + 1
    BY <1>1
  <2> QED BY <1>1, <2>1 DEF At
<1>6. ASSUME NEW i \in 0 .. N PROVE At(r, i) = At(ns, i)
  <2>1. CASE i = 0
    <3>1. i \notin 1 .. N /\ i \notin 1 .. N + 1
      BY <2>1
    <3> QED BY <1>1, <3>1 DEF At
  <2>2. CASE i # 0
    <3>1. i \in 1 .. N /\ i \in 1 .. N + 1
      BY <1>1, <2>2
    <3> QED BY <1>1, <3>1 DEF At
  <2> QED BY <2>1, <2>2
<1>7. At(r, 1) = IF N = 0 THEN n ELSE At(ns, 1)
  <2>1. CASE N = 0
    BY <1>1, <1>5, <2>1
  <2>2. CASE N # 0
    <3>1. 1 \in 0 .. N
      BY <1>1, <2>2
    <3> QED BY <1>6, <2>2, <3>1
  <2> QED BY <2>1, <2>2
<1> QED BY <1>1, <1>3, <1>4, <1>5, <1>6, <1>7 DEF r

LEMMA ChainBack ==
  ASSUME NEW l, NEW ns, Chain(l, ns), NEW k \in Int
  PROVE  LET t == push_back(l, k)
             n == l.made + 1
         IN /\ Chain(t, Append(ns, n)) /\ t.u_map = l.u_map /\ t.tail = n
            /\ t.node[n].key = k /\ t.made = n
            /\ n \notin DOMAIN l.node /\ DOMAIN t.node = DOMAIN l.node \cup {n}
            /\ \A x \in DOMAIN l.node : t.node[x].key = l.node[x].key
<1> DEFINE n == l.made + 1
           t == push_back(l, k)
           N == Len(ns)
           r == Append(ns, n)
           new == [key |-> k, pred |-> l.tail, next |-> nullptr]
           s == IF l.tail = nullptr THEN l ELSE SetNext(l, l.tail, n)
<1>1. /\ l \in ListStates /\ l.size = N /\ l.head = At(ns, 1)
      /\ l.tail = At(ns, N) /\ l.ub = FALSE
      /\ ns \in Seq(Nat) /\ Distinct(ns) /\ DOMAIN l.node = Elements(ns)
      /\ \A i \in 1 .. N : ns[i] \in 1 .. l.made
      /\ \A i \in 1 .. N : NodeIs(l.node[ns[i]], At(ns, i - 1), At(ns, i + 1))
  BY DEF Chain, Ends
<1>2. /\ N \in Nat /\ l.made \in Nat /\ l.tail \in Nat
      /\ l.node = [x \in Elements(ns) |-> l.node[x]]
      /\ \A i \in 1 .. N : ns[i] \in DOMAIN l.node /\ ns[i] # nullptr
      /\ \A i \in Int : At(ns, i) \in Nat
  <2>1. l.tail \in Nat
    BY <1>1 DEF ListStates
  <2> QED BY <1>1, <2>1, ChainNodes
<1>3. n \in Nat /\ n \notin Elements(ns) /\ n # nullptr /\ n \in 1 .. n
  <2>0. l.made \in Nat
    BY <1>2
  <2>1. ASSUME NEW i \in 1 .. N PROVE ns[i] # n
    <3>1. ns[i] \in 1 .. l.made
      BY <1>1
    <3> QED BY <2>0, <3>1
  <2>2. n \notin Elements(ns)
    BY <2>1 DEF Elements
  <2>3. n \in Nat /\ n # 0 /\ n \in 1 .. n
    BY <2>0
  <2> QED BY <2>2, <2>3 DEF nullptr
<1>4. /\ N = 0 <=> l.head = nullptr
      /\ N = 0 <=> l.tail = nullptr
      /\ N # 0 => N \in 1 .. N /\ l.tail = ns[N]
  BY ChainEnds
<1>5. /\ s \in ListStates
      /\ s.node = IF N = 0 THEN l.node
                  ELSE [l.node EXCEPT ![ns[N]] = [@ EXCEPT !.next = n]]
      /\ s.head = l.head /\ s.size = N /\ s.u_map = l.u_map /\ s.ub = FALSE
  <2>1. CASE N = 0
    BY <1>1, <1>4, <2>1
  <2>2. CASE N # 0
    <3>1. l.tail = ns[N] /\ ns[N] \in DOMAIN l.node /\ s = SetNext(l, ns[N], n)
      BY <1>2, <1>4, <2>2
    <3> HIDE DEF s, n
    <3> QED BY <1>1, <1>3, <2>2, <3>1, SetNextIs
  <2> QED BY <2>1, <2>2
<1>6. t = [s EXCEPT !.node = Put(@, n, new), !.head = IF @ = nullptr THEN n ELSE @,
                    !.made = n, !.tail = n, !.size = @ + 1]
  BY DEF push_back
<1>7. new \in ListNodes /\ new.key = k /\ NodeIs(new, At(ns, N), nullptr)
  BY <1>1, <1>2 DEF NodeIs, ListNodes, nullptr
<1> HIDE DEF t, s, new
<1>8. Put(s.node, n, new) \in NodeTables
  BY <1>3, <1>5, <1>7, NodeTableFacts DEF ListStates
<1> HIDE DEF n, N
<1>9. /\ t \in ListStates /\ t.node = Put(s.node, n, new) /\ t.tail = n
      /\ t.head = (IF l.head = nullptr THEN n ELSE l.head)
      /\ t.made = n /\ t.size = N + 1 /\ t.u_map = l.u_map /\ t.ub = FALSE
  <2> DEFINE nodes == Put(s.node, n, new)
             head == IF l.head = nullptr THEN n ELSE l.head
  <2>1. t = [s EXCEPT !.node = nodes, !.head = head, !.made = n, !.tail = n,
                      !.size = N + 1]
    BY <1>5, <1>6
  <2>2. nodes \in NodeTables /\ head \in Nat /\ N + 1 \in Int
    BY <1>1, <1>2, <1>3, <1>8 DEF ListStates
  <2> HIDE DEF nodes, head
  <2>3. /\ t \in ListStates /\ t.node = nodes /\ t.tail = n /\ t.head = head
        /\ t.made = n /\ t.size = N + 1 /\ t.u_map = s.u_map /\ t.ub = s.ub
    BY <1>3, <1>5, <2>1, <2>2 DEF ListStates
  <2> QED BY <1>5, <2>3 DEF nodes, head
<1>10. /\ r \in Seq(Nat) /\ Len(r) = N + 1 /\ r[N + 1] = n
       /\ Distinct(r) /\ Elements(r) = Elements(ns) \cup {n}
       /\ \A i \in 1 .. N : r[i] = ns[i]
       /\ At(r, Len(r)) = n /\ At(r, Len(r) + 1) = nullptr
       /\ \A i \in 0 .. N : At(r, i) = At(ns, i)
       /\ At(r, 1) = IF N = 0 THEN n ELSE At(ns, 1)
  BY <1>1, <1>3, BackAt DEF N
<1> HIDE DEF r
<1>11. Ends(t, r)
  BY <1>1, <1>4, <1>9, <1>10 DEF Ends
<1>12. DOMAIN s.node = Elements(ns)
  BY <1>1, <1>5
<1>13. /\ DOMAIN t.node = Elements(ns) \cup {n} /\ t.node[n] = new
       /\ \A x \in Elements(ns) : t.node[x] = s.node[x]
  BY <1>3, <1>9, <1>12 DEF Put
<1>14. ASSUME NEW i \in 1 .. N
       PROVE  /\ NodeIs(s.node[ns[i]], At(ns, i - 1), IF i = N THEN n ELSE At(ns, i + 1))
              /\ s.node[ns[i]].key = l.node[ns[i]].key
  <2>0. N # 0
    BY <1>2
  <2>1. s.node = [l.node EXCEPT ![ns[N]] = [@ EXCEPT !.next = n]]
    BY <1>5, <2>0
  <2>2. /\ NodeIs(l.node[ns[i]], At(ns, i - 1), At(ns, i + 1))
        /\ ns[i] \in DOMAIN l.node /\ N \in 1 .. N
    BY <1>1, <1>2, <1>4, <2>0
  <2>3. CASE i = N
    <3>1. s.node[ns[i]] = [l.node[ns[i]] EXCEPT !.next = n]
      BY <2>1, <2>2, <2>3
    <3> QED BY <1>3, <2>2, <2>3, <3>1 DEF NodeIs, ListNodes
  <2>4. CASE i # N
    <3>1. ns[i] # ns[N]
      BY <1>1, <2>2, <2>4 DEF Distinct, N
    <3>2. s.node[ns[i]] = l.node[ns[i]]
      BY <2>1, <2>2, <3>1
    <3> QED BY <2>2, <2>4, <3>2
  <2> QED BY <2>3, <2>4
<1>15. ASSUME NEW i \in 1 .. N + 1
       PROVE  /\ NodeIs(t.node[r[i]], At(r, i - 1), At(r, i + 1))
              /\ r[i] \in 1 .. n
  <2>1. CASE i = N + 1
    <3>1. i - 1 = N /\ i + 1 = (N + 1) + 1 /\ N \in 0 .. N
      BY <1>2, <2>1
    <3>2. At(r, i - 1) = At(ns, N) /\ At(r, i + 1) = nullptr /\ r[i] = n
      BY <1>10, <2>1, <3>1
    <3> QED BY <1>3, <1>7, <1>13, <3>2
  <2>2. CASE i # N + 1
    <3>1. i \in 1 .. N /\ i - 1 \in 0 .. N
      BY <1>2, <2>2
    <3>2. r[i] = ns[i] /\ At(r, i - 1) = At(ns, i - 1)
      BY <1>10, <3>1
    <3>3. NodeIs(t.node[r[i]], At(ns, i - 1), IF i = N THEN n ELSE At(ns, i + 1))
      BY <1>13, <1>14, <3>1, <3>2 DEF Elements, N
    <3>4. At(r, i + 1) = IF i = N THEN n ELSE At(ns, i + 1)
      <4>1. CASE i = N
        BY <1>10, <4>1
      <4>2. CASE i # N
        <5>1. i + 1 \in 0 .. N
          BY <1>2, <3>1, <4>2
        <5> QED BY <1>10, <4>2, <5>1
      <4> QED BY <4>1, <4>2
    <3>5. r[i] \in 1 .. n
      <4>1. ns[i] \in 1 .. l.made
        BY <1>1, <3>1
      <4> QED BY <1>2, <3>2, <4>1 DEF n
    <3> QED BY <3>2, <3>3, <3>4, <3>5
  <2> QED BY <2>1, <2>2
<1>16. Chain(t, r)
  BY <1>9, <1>10, <1>11, <1>13, <1>15 DEF Chain
<1>17. \A x \in Elements(ns) : t.node[x].key = l.node[x].key
  <2> TAKE x \in Elements(ns)
  <2>1. PICK i \in 1 .. N : x = ns[i]
    BY DEF Elements, N
  <2> QED BY <1>13, <1>14, <2>1
<1> QED BY <1>1, <1>3, <1>7, <1>9, <1>13, <1>16, <1>17 DEF t, r, n

\* A sequence without its element at place i
LEMMA RemoveAtAt ==
  ASSUME NEW ns \in Seq(Nat), Distinct(ns), NEW i \in 1 .. Len(ns)
  PROVE  LET r == RemoveAt(ns, i)
         IN /\ r \in Seq(Nat) /\ Len(r) = Len(ns) - 1
            /\ Distinct(r) /\ Elements(r) = Elements(ns) \ {ns[i]}
            /\ \A j \in 1 .. Len(ns) - 1 :
                 r[j] = IF j < i THEN ns[j] ELSE ns[j + 1]
            /\ \A j \in 0 .. Len(ns) :
                 At(r, j) = IF j < i THEN At(ns, j) ELSE At(ns, j + 1)
<1> DEFINE r == RemoveAt(ns, i)
           N == Len(ns)
<1>1. /\ r \in Seq(Nat) /\ Len(r) = N - 1 /\ N \in Nat /\ i \in 1 .. N
      /\ \A j \in 1 .. N - 1 : r[j] = IF j < i THEN ns[j] ELSE ns[j + 1]
  <2>1. N \in Nat /\ i \in 1 .. N
    OBVIOUS
  <2>2. /\ r \in Seq(Nat) /\ Len(r) = N - 1
        /\ \A j \in 1 .. N - 1 : r[j] = IF j < i THEN ns[j] ELSE ns[j + 1]
    BY RemoveAtElements
  <2> QED BY <2>1, <2>2
<1> HIDE DEF r
<1>2. Distinct(r)
  <2> SUFFICES ASSUME NEW a \in 1 .. N - 1, NEW b \in 1 .. N - 1, r[a] = r[b]
               PROVE  a = b
    BY <1>1 DEF Distinct
  <2> DEFINE p(x) == IF x < i THEN x ELSE x + 1
  <2>1. ASSUME NEW x \in 1 .. N - 1 PROVE p(x) \in 1 .. N /\ r[x] = ns[p(x)]
    <3>1. x \in 1 .. N /\ x + 1 \in 1 .. N
      BY <1>1
    <3>2. r[x] = IF x < i THEN ns[x] ELSE ns[x + 1]
      BY <1>1
    <3> QED BY <3>1, <3>2
  <2>2. p(a) = p(b)
    BY <2>1 DEF Distinct
  <2> QED BY <1>1, <2>2
<1>3. Elements(r) = Elements(ns) \ {ns[i]}
  <2>1. Elements(r) = { r[j] : j \in 1 .. N - 1 }
    BY <1>1 DEF Elements
  <2>2. Elements(ns) = { ns[j] : j \in 1 .. N }
    BY DEF Elements
  <2>3. ASSUME NEW j \in 1 .. N - 1 PROVE r[j] \in Elements(ns) \ {ns[i]}
    <3>1. PICK p \in 1 .. N : r[j] = ns[p] /\ p # i
      <4>1. CASE j < i
        BY <1>1, <4>1
      <4>2. CASE ~(j < i)
        <5>1. j + 1 \in 1 .. N /\ j + 1 # i
          BY <1>1, <4>2
        <5> QED BY <1>1, <4>2, <5>1
      <4> QED BY <4>1, <4>2
    <3> QED BY <1>1, <2>2, <3>1 DEF Distinct
  <2>4. ASSUME NEW j \in 1 .. N, j # i PROVE ns[j] \in Elements(r)
    <3>1. CASE j < i
      <4>1. j \in 1 .. N - 1 /\ r[j] = ns[j]
        BY <1>1, <3>1
      <4> QED BY <2>1, <4>1
    <3>2. CASE ~(j < i)
      <4>1. j - 1 \in 1 .. N - 1 /\ ~(j - 1 < i) /\ (j - 1) + 1 = j
        BY <1>1, <2>4, <3>2
      <4>2. r[j - 1] = ns[j]
        BY <1>1, <4>1
      <4> QED BY <2>1, <4>1, <4>2
    <3> QED BY <3>1, <3>2
  <2>5. Elements(r) \subseteq Elements(ns) \ {ns[i]}
    BY <2>1, <2>3
  <2>6. Elements(ns) \ {ns[i]} \subseteq Elements(r)
    BY <2>2, <2>4
  <2> QED BY <2>5, <2>6
<1>4. ASSUME NEW j \in 0 .. N
      PROVE  At(r, j) = IF j < i THEN At(ns, j) ELSE At(ns, j + 1)
  <2>1. CASE j \in 1 .. N - 1
    <3>1. j \in 1 .. N /\ j + 1 \in 1 .. N
      BY <1>1, <2>1
    <3> QED BY <1>1, <2>1, <3>1 DEF At
  <2>2. CASE j = 0
    <3>1. j \notin 1 .. N - 1 /\ j \notin 1 .. N /\ j < i
      BY <1>1, <2>2
    <3> QED BY <1>1, <3>1 DEF At
  <2>3. CASE j = N
    <3>1. j \notin 1 .. N - 1 /\ j + 1 \notin 1 .. N /\ ~(j < i)
      BY <1>1, <2>3
    <3> QED BY <1>1, <3>1 DEF At
  <2> QED BY <1>1, <2>1, <2>2, <2>3
<1> QED BY <1>1, <1>2, <1>3, <1>4 DEF r

LEMMA ChainRemove ==
  ASSUME NEW l, NEW ns, Chain(l, ns), NEW i \in 1 .. Len(ns)
  PROVE  LET t == remove(l, ns[i])
         IN /\ Chain(t, RemoveAt(ns, i)) /\ t.u_map = l.u_map /\ t.made = l.made
            /\ DOMAIN t.node = DOMAIN l.node \ {ns[i]}
            /\ \A x \in DOMAIN t.node : t.node[x].key = l.node[x].key
<1> DEFINE n == ns[i]
           N == Len(ns)
           r == RemoveAt(ns, i)
           t == remove(l, n)
           x == l.node[n]
           p == At(ns, i - 1)
           q == At(ns, i + 1)
           s == [l EXCEPT !.head = IF @ = n THEN x.next ELSE @,
                          !.tail = IF @ = n THEN x.pred ELSE @]
           u == IF x.pred = nullptr THEN s ELSE SetNext(s, x.pred, x.next)
           v == IF x.next = nullptr THEN u ELSE SetPred(u, x.next, x.pred)
<1>1. /\ l \in ListStates /\ l.size = N /\ l.head = At(ns, 1)
      /\ l.tail = At(ns, N) /\ l.ub = FALSE
      /\ ns \in Seq(Nat) /\ Distinct(ns) /\ DOMAIN l.node = Elements(ns)
      /\ \A j \in 1 .. N : ns[j] \in 1 .. l.made
      /\ \A j \in 1 .. N : NodeIs(l.node[ns[j]], At(ns, j - 1), At(ns, j + 1))
  BY DEF Chain, Ends
<1>2. /\ N \in Nat /\ l.made \in Nat /\ i \in 1 .. N /\ n \in Nat
      /\ l.node = [y \in Elements(ns) |-> l.node[y]]
      /\ \A j \in 1 .. N : ns[j] \in DOMAIN l.node /\ ns[j] # nullptr
      /\ n \in DOMAIN l.node
  BY <1>1, ChainNodes
<1>3. x.pred = p /\ x.next = q /\ p \in Nat /\ q \in Nat
  <2>1. i - 1 \in Int /\ i + 1 \in Int
    BY <1>2
  <2> QED BY <1>1, <1>2, <2>1, ChainNodes DEF NodeIs
\* Whether there is a node before, and one after
<1>4. /\ p = nullptr <=> i = 1
      /\ i # 1 => i - 1 \in 1 .. N /\ p = ns[i - 1]
      /\ q = nullptr <=> i = N
      /\ i # N => i + 1 \in 1 .. N /\ q = ns[i + 1]
  <2>1. i = 1 => i - 1 \notin 1 .. N
    BY <1>2
  <2>2. i # 1 => i - 1 \in 1 .. N
    BY <1>2
  <2>3. i = N => i + 1 \notin 1 .. N
    BY <1>2
  <2>4. i # N => i + 1 \in 1 .. N
    BY <1>2
  <2>5. /\ p = nullptr <=> i = 1
        /\ i # 1 => p = ns[i - 1]
    BY <1>2, <2>1, <2>2 DEF At
  <2>6. /\ q = nullptr <=> i = N
        /\ i # N => q = ns[i + 1]
    BY <1>2, <2>3, <2>4 DEF At
  <2> QED BY <2>2, <2>4, <2>5, <2>6
<1>5. /\ r \in Seq(Nat) /\ Len(r) = N - 1
      /\ Distinct(r) /\ Elements(r) = Elements(ns) \ {n}
      /\ \A j \in 1 .. N - 1 : r[j] = IF j < i THEN ns[j] ELSE ns[j + 1]
      /\ \A j \in 0 .. N : At(r, j) = IF j < i THEN At(ns, j) ELSE At(ns, j + 1)
  BY <1>1, RemoveAtAt
<1> HIDE DEF r
\* The ends
<1>6. /\ At(ns, 1) = n <=> i = 1
      /\ At(ns, N) = n <=> i = N
  <2>1. 1 \in 1 .. N /\ N \in 1 .. N
    BY <1>2
  <2>2. At(ns, 1) = ns[1] /\ At(ns, N) = ns[N]
    BY <2>1 DEF At
  <2> QED BY <1>1, <2>1, <2>2 DEF Distinct
<1>7. /\ At(r, 1) = IF i = 1 THEN q ELSE At(ns, 1)
      /\ At(r, N - 1) = IF i = N THEN p ELSE At(ns, N)
  <2>1. 1 \in 0 .. N /\ N - 1 \in 0 .. N /\ (N - 1) + 1 = N
    BY <1>2
  <2>2. 1 < i <=> i # 1
    BY <1>2
  <2>3. N - 1 < i <=> i = N
    BY <1>2
  <2> QED BY <1>5, <2>1, <2>2, <2>3
<1> DEFINE head == IF i = 1 THEN q ELSE l.head
           tail == IF i = N THEN p ELSE l.tail
<1>8. /\ s \in ListStates /\ s.node = l.node /\ s.made = l.made
      /\ s.u_map = l.u_map /\ s.ub = FALSE /\ s.size = N
      /\ s.head = head /\ s.tail = tail
  <2>1. s = [l EXCEPT !.head = head, !.tail = tail]
    BY <1>1, <1>3, <1>6
  <2>2. head \in Nat /\ tail \in Nat
    BY <1>1, <1>3 DEF ListStates
  <2> HIDE DEF s, head, tail
  <2> QED BY <1>1, <2>1, <2>2 DEF ListStates
<1> HIDE DEF s, head, tail
<1>9. /\ u \in ListStates /\ u.made = l.made
      /\ u.u_map = l.u_map /\ u.ub = FALSE /\ u.size = N
      /\ u.head = head /\ u.tail = tail
      /\ u.node = IF i = 1 THEN l.node
                  ELSE [l.node EXCEPT ![p] = [@ EXCEPT !.next = q]]
  <2>1. CASE i = 1
    <3>1. u = s
      BY <1>3, <1>4, <2>1
    <3> QED BY <1>8, <2>1, <3>1
  <2>2. CASE i # 1
    <3>1. u = SetNext(s, p, q) /\ p \in DOMAIN s.node
      BY <1>2, <1>3, <1>4, <1>8, <2>2
    <3> HIDE DEF u, p, q
    <3> QED BY <1>3, <1>8, <2>2, <3>1, SetNextIs
  <2> QED BY <2>1, <2>2
<1>10. DOMAIN u.node = Elements(ns)
  BY <1>1, <1>9
<1> DEFINE w == IF i = N THEN u.node
                ELSE [u.node EXCEPT ![q] = [@ EXCEPT !.pred = p]]
<1> HIDE DEF u
<1>11. /\ v \in ListStates /\ v.made = l.made
       /\ v.u_map = l.u_map /\ v.ub = FALSE /\ v.size = N
       /\ v.head = head /\ v.tail = tail /\ v.node = w
  <2>1. CASE i = N
    <3>1. v = u
      BY <1>3, <1>4, <2>1
    <3> QED BY <1>9, <2>1, <3>1
  <2>2. CASE i # N
    <3>1. v = SetPred(u, q, p) /\ q \in DOMAIN u.node
      BY <1>1, <1>2, <1>3, <1>4, <1>10, <2>2
    <3> HIDE DEF v, p, q
    <3> QED BY <1>3, <1>9, <2>2, <3>1, SetPredIs
  <2> QED BY <2>1, <2>2
<1>12. t = [v EXCEPT !.node = Drop(@, n), !.size = @ - 1]
  BY <1>2 DEF remove, Live, u, s
<1> HIDE DEF v, t
<1>13. /\ t \in ListStates /\ t.made = l.made /\ t.u_map = l.u_map /\ t.ub = FALSE
       /\ t.size = N - 1 /\ t.head = head /\ t.tail = tail /\ t.node = Drop(w, n)
  <2>1. t = [v EXCEPT !.node = Drop(w, n), !.size = N - 1]
    BY <1>11, <1>12
  <2>2. Drop(w, n) \in NodeTables /\ N - 1 \in Int
    BY <1>2, <1>11, NodeTableFacts DEF ListStates
  <2> HIDE DEF w, n, N
  <2> QED BY <1>11, <2>1, <2>2 DEF ListStates
<1>14. Ends(t, r)
  BY <1>1, <1>5, <1>7, <1>13 DEF Ends, head, tail
<1>15. DOMAIN w = Elements(ns)
  BY <1>10
<1>16. /\ DOMAIN t.node = Elements(ns) \ {n}
       /\ \A y \in Elements(ns) \ {n} : t.node[y] = w[y]
  BY <1>13, <1>15 DEF Drop
\* What a node that stays points to
<1>17. ASSUME NEW j \in 1 .. N, j # i
       PROVE  /\ NodeIs(w[ns[j]], IF j = i + 1 THEN p ELSE At(ns, j - 1),
                        IF j = i - 1 THEN q ELSE At(ns, j + 1))
              /\ w[ns[j]].key = l.node[ns[j]].key
  <2> DEFINE a == ns[j]
  <2>1. a \in Elements(ns) /\ NodeIs(l.node[a], At(ns, j - 1), At(ns, j + 1))
    BY <1>1 DEF Elements
  <2>2. /\ i # 1 => (a = p <=> j = i - 1)
        /\ i # N => (a = q <=> j = i + 1)
    BY <1>1, <1>4 DEF Distinct
  <2>3. /\ i = 1 => j # i - 1
        /\ i = N => j # i + 1
    BY <1>2
  <2>4. j = i - 1 => j # i + 1
    BY <1>2
  <2>5. i # 1 => p \in Elements(ns)
    BY <1>4 DEF Elements
  <2>6. i # N => q \in Elements(ns)
    BY <1>4 DEF Elements
  <2> HIDE DEF a
  <2>7. u.node[a] = IF j = i - 1 THEN [l.node[a] EXCEPT !.next = q] ELSE l.node[a]
    BY <1>1, <1>9, <2>1, <2>2, <2>3
  <2>8. w[a] = IF j = i + 1 THEN [u.node[a] EXCEPT !.pred = p] ELSE u.node[a]
    BY <1>10, <2>1, <2>2, <2>3
  <2> HIDE DEF w, p, q
  <2>9. CASE j = i - 1
    <3>1. w[a] = [l.node[a] EXCEPT !.next = q]
      BY <2>4, <2>7, <2>8, <2>9
    <3>2. NodeIs(w[a], At(ns, j - 1), q) /\ w[a].key = l.node[a].key
      BY <1>3, <2>1, <3>1 DEF NodeIs, ListNodes
    <3> QED BY <2>4, <2>9, <3>2 DEF a
  <2>10. CASE j # i - 1 /\ j = i + 1
    <3>1. w[a] = [l.node[a] EXCEPT !.pred = p]
      BY <2>7, <2>8, <2>10
    <3>2. NodeIs(w[a], p, At(ns, j + 1)) /\ w[a].key = l.node[a].key
      BY <1>3, <2>1, <3>1 DEF NodeIs, ListNodes
    <3> QED BY <2>10, <3>2 DEF a
  <2>11. CASE j # i - 1 /\ j # i + 1
    BY <2>1, <2>7, <2>8, <2>11 DEF a
  <2> QED BY <2>9, <2>10, <2>11
<1> HIDE DEF w
<1>18. ASSUME NEW b \in 1 .. N - 1
       PROVE  /\ NodeIs(t.node[r[b]], At(r, b - 1), At(r, b + 1))
              /\ r[b] \in 1 .. l.made
  <2> DEFINE j == IF b < i THEN b ELSE b + 1
  <2>1. j \in 1 .. N /\ j # i /\ r[b] = ns[j]
    BY <1>2, <1>5
  <2>2. ns[j] \in Elements(ns) \ {n}
    BY <1>1, <2>1 DEF Elements, Distinct
  <2>3. NodeIs(t.node[r[b]], IF j = i + 1 THEN p ELSE At(ns, j - 1),
               IF j = i - 1 THEN q ELSE At(ns, j + 1))
    <3> HIDE DEF j
    <3> QED BY <1>16, <1>17, <2>1, <2>2
  <2>4. b - 1 \in 0 .. N /\ b + 1 \in 0 .. N
    BY <1>2
  <2>5. At(r, b - 1) = IF j = i + 1 THEN p ELSE At(ns, j - 1)
    <3>1. CASE b < i
      <4>1. j = b /\ j # i + 1 /\ b - 1 < i
        BY <1>2, <3>1
      <4> QED BY <1>5, <2>4, <4>1
    <3>2. CASE b = i
      <4>1. j = i + 1 /\ b - 1 < i /\ b - 1 = i - 1
        BY <1>2, <3>2
      <4> QED BY <1>5, <2>4, <4>1
    <3>3. CASE ~(b < i) /\ b # i
      <4>1. j = b + 1 /\ j # i + 1 /\ ~(b - 1 < i) /\ (b - 1) + 1 = j - 1
        BY <1>2, <3>3
      <4> QED BY <1>5, <2>4, <4>1
    <3> QED BY <3>1, <3>2, <3>3
  <2>6. At(r, b + 1) = IF j = i - 1 THEN q ELSE At(ns, j + 1)
    <3>1. CASE b + 1 < i
      <4>1. j = b /\ j # i - 1
        BY <1>2, <3>1
      <4> QED BY <1>5, <2>4, <3>1, <4>1
    <3>2. CASE b + 1 = i
      <4>1. j = i - 1 /\ ~(b + 1 < i) /\ (b + 1) + 1 = i + 1
        BY <1>2, <3>2
      <4> QED BY <1>5, <2>4, <4>1
    <3>3. CASE ~(b + 1 < i) /\ b + 1 # i
      <4>1. j = b + 1 /\ j # i - 1 /\ (b + 1) + 1 = j + 1
        BY <1>2, <3>3
      <4> QED BY <1>5, <2>4, <3>3, <4>1
    <3> QED BY <3>1, <3>2, <3>3
  <2> HIDE DEF j
  <2> QED BY <1>1, <2>1, <2>3, <2>5, <2>6
<1>19. Chain(t, r)
  BY <1>5, <1>13, <1>14, <1>16, <1>18 DEF Chain
<1>20. \A y \in DOMAIN t.node : t.node[y].key = l.node[y].key
  <2> TAKE y \in DOMAIN t.node
  <2>1. PICK j \in 1 .. N : y = ns[j] /\ j # i
    BY <1>16 DEF Elements
  <2> QED BY <1>16, <1>17, <2>1
<1> QED BY <1>1, <1>13, <1>16, <1>19, <1>20 DEF t, r

\* Walking one way round a list meets the nodes in their order.
LEMMA WalkIs ==
  ASSUME NEW l, NEW ns \in Seq(Nat), l.size = Len(ns),
         NEW first, first = At(ns, 1), NEW dir,
         \A i \in 1 .. Len(ns) : /\ ns[i] \in DOMAIN l.node
                                 /\ l.node[ns[i]][dir] = At(ns, i + 1)
  PROVE  Walk(l, first, dir) = ns
<1> DEFINE N == Len(ns)
           Step(f, i) ==
             IF i = 0 THEN <<>>
             ELSE LET s == f[i - 1]
                      n == IF i = 1 THEN first
                           ELSE IF s = <<>> THEN nullptr
                           ELSE l.node[Last(s)][dir]
                  IN IF Live(l, n) THEN Append(s, n) ELSE s
           P(f) == f = [i \in 0 .. N |-> Step(f, i)]
           g == [i \in 0 .. N |-> SubSeq(ns, 1, i)]
           h == CHOOSE f : P(f)
<1>1. N \in Nat /\ l.size = N
  OBVIOUS
<1>2. Walk(l, first, dir) = h[N]
  BY <1>1 DEF Walk
<1>3. ASSUME NEW i \in 1 .. N
      PROVE  /\ SubSeq(ns, 1, i) = Append(SubSeq(ns, 1, i - 1), ns[i])
             /\ i # 1 => /\ SubSeq(ns, 1, i - 1) # <<>>
                         /\ Last(SubSeq(ns, 1, i - 1)) = ns[i - 1]
  <2> DEFINE s == SubSeq(ns, 1, i - 1)
             t == SubSeq(ns, 1, i)
  <2>1. /\ s \in Seq(Nat) /\ Len(s) = i - 1
        /\ \A j \in 1 .. i - 1 : s[j] = ns[j]
        /\ t \in Seq(Nat) /\ Len(t) = i
        /\ \A j \in 1 .. i : t[j] = ns[j]
    <3>1. i - 1 \in 1 - 1 .. Len(ns) /\ i \in 1 - 1 .. Len(ns) /\ 1 \in 1 .. Len(ns) + 1
      BY <1>1
    <3>2. /\ s \in Seq(Nat) /\ Len(s) = i - 1
          /\ \A j \in 1 .. i - 1 : s[j] = ns[j]
      BY <3>1, SubSeqProperties
    <3>3. /\ t \in Seq(Nat) /\ Len(t) = i
          /\ \A j \in 1 .. i : t[j] = ns[j]
      BY <3>1, SubSeqProperties
    <3> QED BY <3>2, <3>3
  <2>2. ns[i] \in Nat
    BY <1>1
  <2> HIDE DEF s, t
  <2>3. /\ Append(s, ns[i]) \in Seq(Nat) /\ Len(Append(s, ns[i])) = i
        /\ \A j \in 1 .. i : Append(s, ns[i])[j] = t[j]
    <3> DEFINE e == ns[i]
    <3>1. e \in Nat /\ t[i] = e /\ i \in Nat \ {0}
      BY <1>1, <2>1, <2>2
    <3> HIDE DEF e
    <3>2. /\ Append(s, e) \in Seq(Nat) /\ Len(Append(s, e)) = i
          /\ Append(s, e)[i] = e /\ \A j \in 1 .. i - 1 : Append(s, e)[j] = s[j]
      BY <2>1, <3>1
    <3>3. \A j \in 1 .. i : j = i \/ j \in 1 .. i - 1
      BY <3>1
    <3> QED BY <2>1, <3>1, <3>2, <3>3 DEF e
  <2>4. t = Append(s, ns[i])
    BY <2>1, <2>3
  <2>5. i # 1 => s # <<>> /\ Last(s) = ns[i - 1]
    BY <2>1, EmptySeq DEF Last
  <2> QED BY <2>4, <2>5 DEF s, t
<1>4. SubSeq(ns, 1, 0) = <<>> /\ SubSeq(ns, 1, N) = ns
  <2>1. /\ SubSeq(ns, 1, N) \in Seq(Nat) /\ Len(SubSeq(ns, 1, N)) = N
        /\ \A j \in 1 .. N : SubSeq(ns, 1, N)[j] = ns[j]
    BY <1>1, SubSeqProperties
  <2>2. SubSeq(ns, 1, 0) \in Seq(Nat) /\ Len(SubSeq(ns, 1, 0)) = 0
    BY <1>1, SubSeqProperties
  <2>3. SubSeq(ns, 1, 0) = <<>>
    BY <2>2, EmptySeq
  <2> QED BY <2>1, <2>3
<1>5. ASSUME NEW f, NEW i \in 1 .. N, f[i - 1] = SubSeq(ns, 1, i - 1)
      PROVE  Step(f, i) = SubSeq(ns, 1, i)
  <2>1. ns[i] \in DOMAIN l.node /\ Live(l, ns[i])
    BY DEF Live
  <2>2. i = 1 => first = ns[i]
    BY DEF At
  <2>3. i # 1 => l.node[ns[i - 1]][dir] = ns[i]
    <3>1. ASSUME i # 1 PROVE i - 1 \in 1 .. N /\ (i - 1) + 1 = i
      BY <3>1
    <3> QED BY <3>1 DEF At
  <2> DEFINE s == SubSeq(ns, 1, i - 1)
  <2>4. i # 0 /\ f[i - 1] = s
    BY <1>5
  <2>5. SubSeq(ns, 1, i) = Append(s, ns[i]) /\ (i # 1 => s # <<>> /\ Last(s) = ns[i - 1])
    BY <1>3
  <2> HIDE DEF s
  <2>6. CASE i = 1
    <3>1. Step(f, i) = Append(s, ns[i])
      BY <2>1, <2>2, <2>4, <2>6
    <3> QED BY <2>5, <3>1
  <2>7. CASE i # 1
    <3>1. Step(f, i) = Append(s, ns[i])
      BY <2>1, <2>3, <2>4, <2>5, <2>7
    <3> QED BY <2>5, <3>1
  <2> QED BY <2>6, <2>7
<1> HIDE DEF Step
<1>6. Step(g, 0) = <<>> /\ \A f : Step(f, 0) = <<>>
  BY DEF Step
<1>7. P(g)
  <2>1. ASSUME NEW i \in 0 .. N PROVE g[i] = Step(g, i)
    <3>1. CASE i = 0
      BY <1>4, <1>6, <3>1
    <3>2. CASE i # 0
      <4>1. i \in 1 .. N /\ i - 1 \in 0 .. N
        BY <1>1, <3>2
      <4>2. g[i - 1] = SubSeq(ns, 1, i - 1)
        BY <4>1
      <4> HIDE DEF g
      <4>3. Step(g, i) = SubSeq(ns, 1, i)
        BY <1>5, <4>1, <4>2
      <4> QED BY <4>3 DEF g
    <3> QED BY <3>1, <3>2
  <2>2. [i \in 0 .. N |-> g[i]] = [i \in 0 .. N |-> Step(g, i)]
    BY <2>1
  <2> QED BY <2>2
<1>8. P(h)
  <2> HIDE DEF g
  <2>1. \E f : P(f)
    BY <1>7
  <2> QED BY <2>1
<1> DEFINE T == { i \in Nat : i <= N => h[i] = SubSeq(ns, 1, i) }
<1>9. h = [i \in 0 .. N |-> Step(h, i)]
  BY <1>8
<1> HIDE DEF h
<1>10. \A i \in 0 .. N : h[i] = Step(h, i)
  BY <1>9
<1>11. 0 \in T
  BY <1>1, <1>4, <1>6, <1>10
<1>12. ASSUME NEW i \in Nat, i \in T PROVE i + 1 \in T
  <2>1. ASSUME i + 1 <= N PROVE h[i + 1] = SubSeq(ns, 1, i + 1)
    <3>1. i + 1 \in 1 .. N /\ i + 1 \in 0 .. N /\ (i + 1) - 1 = i
          /\ h[i] = SubSeq(ns, 1, i)
      BY <1>1, <1>12, <2>1
    <3>2. Step(h, i + 1) = SubSeq(ns, 1, i + 1)
      BY <1>5, <3>1
    <3> QED BY <1>10, <3>1, <3>2
  <2> QED BY <2>1
<1> HIDE DEF T
<1>13. Nat \subseteq T
  BY <1>11, <1>12, AllNaturals
<1>14. h[N] = SubSeq(ns, 1, N)
  BY <1>1, <1>13 DEF T
<1> QED BY <1>2, <1>4, <1>14

\* The keys of the nodes ns
KeysOf(l, ns) == [i \in 1 .. Len(ns) |-> l.node[ns[i]].key]

\* What the invariants of a list read off it
LEMMA ChainIs ==
  ASSUME NEW l, NEW ns, Chain(l, ns)
  PROVE  Forward(l) = ns /\ Chained(l) /\ Sequence(l) = KeysOf(l, ns)
<1> DEFINE N == Len(ns)
           rs == Reverse(ns)
<1>1. N \in Nat /\ ns \in Seq(Nat) /\ DOMAIN ns = 1 .. N
  BY DEF Chain
<1>2. /\ rs \in Seq(Nat) /\ Len(rs) = N
      /\ \A i \in 1 .. N : rs[i] = ns[N - i + 1] /\ N - i + 1 \in 1 .. N
  <2>1. \A i \in 1 .. N : N - i + 1 \in 1 .. N /\ ns[N - i + 1] \in Nat
    BY <1>1
  <2>2. rs = [i \in 1 .. N |-> ns[N - i + 1]]
    BY <1>1 DEF Reverse
  <2>3. rs \in [1 .. N -> Nat]
    BY <2>1, <2>2
  <2>4. rs \in Seq(Nat) /\ Len(rs) = N
    BY <1>1, <2>3
  <2> QED BY <2>1, <2>2, <2>4
<1> HIDE DEF rs
<1>3. /\ l.head = At(ns, 1) /\ l.tail = At(ns, N) /\ l.size = N /\ ~l.ub
      /\ \A i \in 1 .. N : NodeIs(l.node[ns[i]], At(ns, i - 1), At(ns, i + 1))
      /\ \A i \in 1 .. N : ns[i] \in DOMAIN l.node
  BY ChainNodes DEF Chain, Ends
<1>4. Forward(l) = ns
  <2>1. \A i \in 1 .. N : ns[i] \in DOMAIN l.node
                          /\ l.node[ns[i]]["next"] = At(ns, i + 1)
    BY <1>3 DEF NodeIs, ListNodes
  <2>2. Walk(l, l.head, "next") = ns
    BY <1>1, <1>3, <2>1, WalkIs
  <2> QED BY <2>2 DEF Forward
<1>5. Backward(l) = rs
  <2>1. At(rs, 1) = At(ns, N)
    BY <1>1, <1>2 DEF At
  <2>2. ASSUME NEW i \in 1 .. N
        PROVE  rs[i] \in DOMAIN l.node /\ l.node[rs[i]]["pred"] = At(rs, i + 1)
    <3>1. /\ rs[i] = ns[N - i + 1] /\ N - i + 1 \in 1 .. N
          /\ (N - i + 1) - 1 = N - i
      BY <1>1, <1>2
    <3>2. rs[i] \in DOMAIN l.node /\ l.node[rs[i]].pred = At(ns, N - i)
      BY <1>3, <3>1 DEF NodeIs
    <3>3. At(rs, i + 1) = At(ns, N - i)
      <4>1. CASE i = N
        BY <1>1, <1>2, <4>1 DEF At
      <4>2. CASE i # N
        <5> HIDE DEF N
        <5>1. i + 1 \in 1 .. N /\ N - (i + 1) + 1 = N - i /\ N - i \in 1 .. N
          BY <1>1, <4>2
        <5>2. rs[i + 1] = ns[N - i] /\ Len(rs) = N
          BY <1>2, <5>1
        <5>3. At(rs, i + 1) = rs[i + 1]
          BY <5>1, <5>2 DEF At
        <5>4. At(ns, N - i) = ns[N - i]
          BY <5>1 DEF At, N
        <5> QED BY <5>2, <5>3, <5>4
      <4> QED BY <4>1, <4>2
    <3> QED BY <3>2, <3>3
  <2>3. Walk(l, l.tail, "pred") = rs
    <3>1. l.size = Len(rs) /\ l.tail = At(rs, 1)
          /\ \A i \in 1 .. Len(rs) : rs[i] \in DOMAIN l.node
                                     /\ l.node[rs[i]]["pred"] = At(rs, i + 1)
      BY <1>2, <1>3, <2>1, <2>2
    <3>2. rs \in Seq(Nat)
      BY <1>2
    <3> HIDE DEF N
    <3> QED BY <3>1, <3>2, WalkIs
  <2> QED BY <2>3 DEF Backward
<1>6. Lists(ns, DOMAIN l.node)
  BY <1>1 DEF Chain, Lists, IsInjective, ToSet, Distinct, Elements
<1>7. /\ l.head = nullptr <=> l.size = 0
      /\ l.tail = nullptr <=> l.size = 0
      /\ l.size > 0 => /\ l.node[l.head].pred = nullptr
                       /\ l.node[l.tail].next = nullptr
  <2>1. At(ns, 0) = nullptr /\ At(ns, N + 1) = nullptr
    BY <1>1 DEF At
  <2>2. ASSUME N # 0
        PROVE  l.node[l.head].pred = nullptr /\ l.node[l.tail].next = nullptr
    <3>1. 1 \in 1 .. N /\ N \in 1 .. N /\ 1 - 1 = 0
      BY <1>1, <2>2
    <3>2. l.head = ns[1] /\ l.tail = ns[N]
      BY <2>2, ChainEnds
    <3> QED BY <1>3, <2>1, <3>1, <3>2 DEF NodeIs
  <2> QED BY <1>1, <1>3, <2>2, ChainEnds
<1>8. Chained(l)
  BY <1>3, <1>4, <1>5, <1>6, <1>7 DEF Chained, rs
<1>9. Sequence(l) = KeysOf(l, ns)
  BY <1>1, <1>4 DEF Sequence, KeysOf
<1> QED BY <1>4, <1>8, <1>9

-----------------------------------------------------------------------------
(* LUHeap *)

\* A value halved n times
Halved(v, n) == v \div 2^n

LEMMA HalvedIs ==
  ASSUME NEW v \in Nat, NEW n \in Nat
  PROVE  /\ Halved(v, n) \in Nat
         /\ Halved(v, 0) = v
         /\ Halved(v, n + 1) = Halved(v, n) \div 2
<1>1. 2^n \in Nat \ {0} /\ 2^(n + 1) = 2^n + 2^n
  BY PowersOfTwo
<1> DEFINE p == 2^n
<1>2. v \div p \in Nat /\ v \div (p + p) = (v \div p) \div 2
  <2>1. p \in Nat \ {0}
    BY <1>1
  <2> HIDE DEF p
  <2> QED BY <2>1, DivType, HalfOfQuotient
<1>3. 2^0 = 1
  <2>1. IsFiniteSet({}) /\ Cardinality({}) = 0
    BY FS_EmptySet
  <2>2. Cardinality(SUBSET {}) = 2^0
    BY <2>1, FS_SUBSET
  <2>3. SUBSET {} = {{}} /\ Cardinality({{}}) = 1
    BY FS_Singleton
  <2> QED BY <2>2, <2>3
<1>4. v \div 1 = v
  OBVIOUS
<1> QED BY <1>1, <1>2, <1>3, <1>4 DEF Halved

HeapEntries == [key : Keys, value : Nat, ts_last_access : Nat,
                ts_last_update : Nat]
Places == UNION { [S -> Nat] : S \in SUBSET Keys }
HeapStates == [heap_ : Seq(HeapEntries), index_ : Places, ts_ : Nat]

\* index_ finds every entry, and no entry is ahead of the heap.
HeapOK(h) ==
  /\ h \in HeapStates
  /\ \A i \in 1 .. Len(h.heap_) :
       /\ h.heap_[i].ts_last_update <= h.ts_
       /\ h.heap_[i].key \in DOMAIN h.index_
       /\ h.index_[h.heap_[i].key] + 1 = i
  /\ \A k \in DOMAIN h.index_ :
       /\ h.index_[k] + 1 \in 1 .. Len(h.heap_)
       /\ h.heap_[h.index_[k] + 1].key = k

\* What a page is worth
Worth(h, k) ==
  Halved(h.heap_[h.index_[k] + 1].value,
         h.ts_ - h.heap_[h.index_[k] + 1].ts_last_update)

\* t is the heap h in another order, some of its values brought up to date.
Same(h, t) ==
  /\ HeapOK(t) /\ t.ts_ = h.ts_ /\ DOMAIN t.index_ = DOMAIN h.index_
  /\ Len(t.heap_) = Len(h.heap_)
  /\ \A k \in DOMAIN h.index_ : Worth(t, k) = Worth(h, k)

LEMMA SameTwice ==
  ASSUME NEW h, NEW t, NEW u, Same(h, t), Same(t, u)
  PROVE  Same(h, u)
BY DEF Same

LEMMA SameSelf ==
  ASSUME NEW h, HeapOK(h)
  PROVE  Same(h, h)
BY DEF Same

LEMMA HeapFacts ==
  ASSUME NEW h, HeapOK(h)
  PROVE  /\ h = [heap_ |-> h.heap_, index_ |-> h.index_, ts_ |-> h.ts_]
         /\ h.heap_ \in Seq(HeapEntries) /\ Len(h.heap_) \in Nat
         /\ DOMAIN h.heap_ = 1 .. Len(h.heap_)
         /\ h.ts_ \in Nat /\ h.index_ \in Places
         /\ DOMAIN h.index_ \subseteq Keys
         /\ h.index_ = [k \in DOMAIN h.index_ |-> h.index_[k]]
         /\ \A k \in DOMAIN h.index_ :
              /\ h.index_[k] \in Nat /\ h.index_[k] + 1 \in 1 .. Len(h.heap_)
              /\ h.heap_[h.index_[k] + 1].key = k
         /\ \A i \in 1 .. Len(h.heap_) :
              /\ h.heap_[i] \in HeapEntries
              /\ h.heap_[i].key \in DOMAIN h.index_
              /\ h.index_[h.heap_[i].key] + 1 = i
              /\ h.heap_[i].ts_last_update <= h.ts_
<1>1. h \in HeapStates
  BY DEF HeapOK
<1>2. PICK S \in SUBSET Keys : h.index_ \in [S -> Nat]
  BY <1>1 DEF HeapStates, Places
<1>3. h.heap_ \in Seq(HeapEntries) /\ h.ts_ \in Nat
      /\ h = [heap_ |-> h.heap_, index_ |-> h.index_, ts_ |-> h.ts_]
      /\ h.index_ \in Places
  BY <1>1 DEF HeapStates
<1>4. Len(h.heap_) \in Nat /\ DOMAIN h.heap_ = 1 .. Len(h.heap_)
      /\ \A i \in 1 .. Len(h.heap_) : h.heap_[i] \in HeapEntries
  BY <1>3
<1>5. DOMAIN h.index_ \subseteq Keys /\ \A k \in DOMAIN h.index_ : h.index_[k] \in Nat
  BY <1>2
<1>6. h.index_ = [k \in DOMAIN h.index_ |-> h.index_[k]]
  BY <1>2
<1> QED BY <1>3, <1>4, <1>5, <1>6 DEF HeapOK

\* A heap by its parts
Filed(q, x, n) ==
  /\ \A i \in 1 .. Len(q) :
       /\ q[i].ts_last_update <= n
       /\ q[i].key \in DOMAIN x /\ x[q[i].key] + 1 = i
  /\ \A k \in DOMAIN x : x[k] + 1 \in 1 .. Len(q) /\ q[x[k] + 1].key = k

LEMMA HeapIs ==
  ASSUME NEW q \in Seq(HeapEntries), NEW x \in Places, NEW n \in Nat,
         Filed(q, x, n),
         NEW t, t = [heap_ |-> q, index_ |-> x, ts_ |-> n]
  PROVE  HeapOK(t) /\ t.heap_ = q /\ t.index_ = x /\ t.ts_ = n
<1>1. t.heap_ = q /\ t.index_ = x /\ t.ts_ = n /\ t \in HeapStates
  BY DEF HeapStates
<1> QED BY <1>1 DEF HeapOK, Filed

\* Bringing a value up to date changes no page's worth.
LEMMA UpdateSame ==
  ASSUME NEW h, HeapOK(h), NEW i \in Nat
  PROVE  Same(h, update_value(h, i))
<1> DEFINE q == h.heap_
           e == q[i + 1]
           w == Halved(e.value, h.ts_ - e.ts_last_update)
           f == [e EXCEPT !.value = w, !.ts_last_update = h.ts_]
           r == [q EXCEPT ![i + 1] = f]
           t == update_value(h, i)
<1>1. /\ q \in Seq(HeapEntries) /\ Len(q) \in Nat /\ DOMAIN q = 1 .. Len(q)
      /\ h.ts_ \in Nat /\ h.index_ \in Places
  BY HeapFacts
<1>2. \A k \in DOMAIN h.index_ :
        /\ h.index_[k] \in Nat /\ h.index_[k] + 1 \in 1 .. Len(q)
        /\ q[h.index_[k] + 1].key = k
  BY HeapFacts
<1>3. \A j \in 1 .. Len(q) :
        /\ q[j] \in HeapEntries /\ q[j].key \in DOMAIN h.index_
        /\ h.index_[q[j].key] + 1 = j /\ q[j].ts_last_update <= h.ts_
  BY HeapFacts
<1>4. h = [heap_ |-> q, index_ |-> h.index_, ts_ |-> h.ts_]
  BY HeapFacts
<1>5. CASE i >= Len(q)
  <2>1. t = h
    BY <1>5 DEF update_value, Size
  <2> QED BY <2>1, SameSelf
<1>6. CASE ~(i >= Len(q))
  <2>1. i + 1 \in 1 .. Len(q)
    BY <1>1, <1>6
  <2>2. /\ e \in HeapEntries /\ e.ts_last_update <= h.ts_
        /\ e.value \in Nat /\ e.ts_last_update \in Nat
    BY <1>3, <2>1 DEF HeapEntries
  <2>3. w \in Nat
    <3>1. h.ts_ - e.ts_last_update \in Nat
      BY <1>1, <2>2
    <3> QED BY <2>2, <3>1, HalvedIs
  <2>4. t = [h EXCEPT !.heap_ = r]
    BY <1>6 DEF update_value, Size, Entry, ValueNow, Halved
  <2> HIDE DEF w, t
  <2>5. f \in HeapEntries /\ f.key = e.key /\ f.value = w /\ f.ts_last_update = h.ts_
    BY <1>1, <2>2, <2>3 DEF HeapEntries
  <2> HIDE DEF f
  <2>6. /\ r \in Seq(HeapEntries) /\ Len(r) = Len(q) /\ r[i + 1] = f
        /\ \A j \in 1 .. Len(q) : j # i + 1 => r[j] = q[j]
    BY <1>1, <2>1, <2>5
  <2> HIDE DEF r
  <2>7. t = [heap_ |-> r, index_ |-> h.index_, ts_ |-> h.ts_]
    <3> HIDE DEF q
    <3> QED BY <1>4, <2>4
  <2>8. \A j \in 1 .. Len(q) : r[j].key = q[j].key /\ r[j].ts_last_update <= h.ts_
    BY <1>1, <1>3, <2>5, <2>6
  <2>9. HeapOK(t) /\ t.heap_ = r /\ t.index_ = h.index_ /\ t.ts_ = h.ts_
    <3>1. \A j \in 1 .. Len(r) :
            /\ r[j].ts_last_update <= h.ts_
            /\ r[j].key \in DOMAIN h.index_ /\ h.index_[r[j].key] + 1 = j
      BY <1>3, <2>6, <2>8
    <3>2. \A k \in DOMAIN h.index_ :
            h.index_[k] + 1 \in 1 .. Len(r) /\ r[h.index_[k] + 1].key = k
      BY <1>2, <2>6, <2>8
    <3> HIDE DEF q
    <3> DEFINE x == h.index_  n == h.ts_
    <3>3. x \in Places /\ n \in Nat /\ t = [heap_ |-> r, index_ |-> x, ts_ |-> n]
          /\ r \in Seq(HeapEntries)
      BY <1>1, <2>6, <2>7
    <3> HIDE DEF x, n
    <3>5. Filed(r, x, n)
      BY <3>1, <3>2 DEF Filed, x, n
    <3>4. HeapOK(t) /\ t.heap_ = r /\ t.index_ = x /\ t.ts_ = n
      BY <3>3, <3>5, HeapIs
    <3> QED BY <3>4 DEF x, n
  <2>10. ASSUME NEW k \in DOMAIN h.index_ PROVE Worth(t, k) = Worth(h, k)
    <3>1. CASE h.index_[k] = i
      <4>1. Worth(t, k) = Halved(w, h.ts_ - h.ts_)
        BY <2>5, <2>6, <2>9, <3>1 DEF Worth
      <4>2. h.ts_ - h.ts_ = 0
        BY <1>1
      <4>3. Halved(w, 0) = w
        BY <2>3, HalvedIs
      <4>4. Worth(h, k) = w
        BY <3>1 DEF Worth, w
      <4> QED BY <4>1, <4>2, <4>3, <4>4
    <3>2. CASE h.index_[k] # i
      <4>1. h.index_[k] + 1 # i + 1 /\ h.index_[k] + 1 \in 1 .. Len(q)
        BY <1>2, <3>2
      <4> QED BY <2>6, <2>9, <4>1 DEF Worth
    <3> QED BY <3>1, <3>2
  <2> QED BY <2>6, <2>9, <2>10 DEF Same, t
<1> QED BY <1>5, <1>6

\* Nor does an exchange of two entries.
LEMMA ExchangeSame ==
  ASSUME NEW h, HeapOK(h), NEW i \in Nat, i < Len(h.heap_),
         NEW j \in Nat, j < Len(h.heap_)
  PROVE  Same(h, exchange(h, i, j))
<1> DEFINE q == h.heap_
           x == h.index_
           n == h.ts_
           a == q[i + 1]
           b == q[j + 1]
           r == [[q EXCEPT ![i + 1] = b] EXCEPT ![j + 1] = a]
           y == [[x EXCEPT ![a.key] = x[b.key]] EXCEPT ![b.key] = x[a.key]]
           t == exchange(h, i, j)
<1>1. /\ q \in Seq(HeapEntries) /\ Len(q) \in Nat /\ DOMAIN q = 1 .. Len(q)
      /\ n \in Nat /\ x \in Places /\ x = [k \in DOMAIN x |-> x[k]]
  BY HeapFacts
<1>2. \A k \in DOMAIN x :
        /\ x[k] \in Nat /\ x[k] + 1 \in 1 .. Len(q)
        /\ q[x[k] + 1].key = k
  BY HeapFacts
<1>3. \A l \in 1 .. Len(q) :
        /\ q[l] \in HeapEntries /\ q[l].key \in DOMAIN x
        /\ x[q[l].key] + 1 = l /\ q[l].ts_last_update <= n
  BY HeapFacts
<1>4. t = [heap_ |-> r, index_ |-> y, ts_ |-> n]
  <2>1. h = [heap_ |-> q, index_ |-> x, ts_ |-> n]
    BY HeapFacts
  <2>2. t = [h EXCEPT !.heap_ = r, !.index_ = y]
    BY <2>1 DEF exchange, Entry
  <2> HIDE DEF r, y, t
  <2> QED BY <2>1, <2>2
<1> HIDE DEF t, q, x, n
<1>5. /\ i + 1 \in 1 .. Len(q) /\ j + 1 \in 1 .. Len(q)
  BY <1>1 DEF q
<1>6. /\ a.key \in DOMAIN x /\ b.key \in DOMAIN x
      /\ x[a.key] = i /\ x[b.key] = j
      /\ a \in HeapEntries /\ b \in HeapEntries
  <2>1. x[a.key] + 1 = i + 1 /\ x[b.key] + 1 = j + 1
    BY <1>3, <1>5
  <2>2. a.key \in DOMAIN x /\ b.key \in DOMAIN x
    BY <1>3, <1>5
  <2>3. x[a.key] \in Nat /\ x[b.key] \in Nat
    BY <1>2, <2>2
  <2>4. x[a.key] = i /\ x[b.key] = j
    BY <2>1, <2>3
  <2>5. a \in HeapEntries /\ b \in HeapEntries
    BY <1>3, <1>5
  <2> QED BY <2>2, <2>4, <2>5
<1>7. /\ r \in Seq(HeapEntries) /\ Len(r) = Len(q)
      /\ r[i + 1] = b /\ r[j + 1] = a
      /\ \A l \in 1 .. Len(q) : l # i + 1 /\ l # j + 1 => r[l] = q[l]
  BY <1>1, <1>5, <1>6
<1>8. /\ DOMAIN y = DOMAIN x /\ y[a.key] = j /\ y[b.key] = i
      /\ \A k \in DOMAIN x : k # a.key /\ k # b.key => y[k] = x[k]
  <2>1. a.key = b.key => i = j
    BY <1>6
  <2> QED BY <1>1, <1>6, <2>1
<1>9. y \in Places
  <2>1. PICK S \in SUBSET Keys : x \in [S -> Nat]
    BY <1>1 DEF Places
  <2>2. y \in [S -> Nat]
    BY <1>6, <2>1
  <2> QED BY <2>2 DEF Places
<1> HIDE DEF r, y
<1>10. Filed(r, y, n)
  <2>1. ASSUME NEW l \in 1 .. Len(r)
        PROVE  /\ r[l].ts_last_update <= n
               /\ r[l].key \in DOMAIN y /\ y[r[l].key] + 1 = l
    <3>1. CASE l = i + 1
      BY <1>3, <1>5, <1>6, <1>7, <1>8, <3>1
    <3>2. CASE l = j + 1
      BY <1>3, <1>5, <1>6, <1>7, <1>8, <3>2
    <3>3. CASE l # i + 1 /\ l # j + 1
      <4>1. r[l] = q[l] /\ l \in 1 .. Len(q)
        BY <1>7, <3>3
      <4>2. q[l].key \in DOMAIN x /\ x[q[l].key] + 1 = l /\ q[l].ts_last_update <= n
        BY <1>3, <4>1
      <4>3. q[l].key # a.key /\ q[l].key # b.key
        BY <1>6, <3>3, <4>2
      <4> QED BY <1>8, <4>1, <4>2, <4>3
    <3> QED BY <3>1, <3>2, <3>3
  <2>2. ASSUME NEW k \in DOMAIN y
        PROVE  y[k] + 1 \in 1 .. Len(r) /\ r[y[k] + 1].key = k
    <3>1. CASE k = a.key
      BY <1>5, <1>7, <1>8, <3>1
    <3>2. CASE k = b.key
      BY <1>5, <1>7, <1>8, <3>2
    <3>3. CASE k # a.key /\ k # b.key
      <4>1. k \in DOMAIN x /\ y[k] = x[k]
        BY <1>8, <3>3
      <4>2. x[k] + 1 \in 1 .. Len(q) /\ q[x[k] + 1].key = k
        BY <1>2, <4>1
      <4>3. x[k] + 1 # i + 1 /\ x[k] + 1 # j + 1
        BY <3>3, <4>2
      <4> QED BY <1>7, <4>1, <4>2, <4>3
    <3> QED BY <3>1, <3>2, <3>3
  <2> QED BY <2>1, <2>2 DEF Filed
<1>11. HeapOK(t) /\ t.heap_ = r /\ t.index_ = y /\ t.ts_ = n
  BY <1>1, <1>4, <1>7, <1>9, <1>10, HeapIs
<1>12. ASSUME NEW k \in DOMAIN x PROVE Worth(t, k) = Worth(h, k)
  <2>1. r[y[k] + 1] = q[x[k] + 1]
    <3>1. CASE k = a.key
      BY <1>5, <1>6, <1>7, <1>8, <3>1
    <3>2. CASE k = b.key
      BY <1>5, <1>6, <1>7, <1>8, <3>2
    <3>3. CASE k # a.key /\ k # b.key
      <4>1. y[k] = x[k]
        BY <1>8, <3>3
      <4>2. x[k] + 1 \in 1 .. Len(q) /\ q[x[k] + 1].key = k
        BY <1>2
      <4>3. x[k] + 1 # i + 1 /\ x[k] + 1 # j + 1
        BY <3>3, <4>2
      <4> QED BY <1>7, <4>1, <4>2, <4>3
    <3> QED BY <3>1, <3>2, <3>3
  <2> QED BY <1>11, <2>1 DEF Worth, q, x, n
<1> QED BY <1>7, <1>8, <1>11, <1>12 DEF Same, t, q, x, n

\* One call of heapify_up, at a place of the heap
LEMMA UpSame ==
  ASSUME NEW s, HeapOK(s.h), s.at \in Nat, s.at < Len(s.h.heap_)
  PROVE  /\ Same(s.h, Up(s).h)
         /\ Up(s).at \in Nat /\ Up(s).at < Len(s.h.heap_)
<1> DEFINE father == s.at \div 2
           t == update_value(s.h, father)
           c == Less(Entry(t, s.at), Entry(t, father))
           x == exchange(t, s.at, father)
           u == Up(s)
<1>1. CASE s.at = 0
  <2>1. u = s
    BY <1>1 DEF Up
  <2> QED BY <2>1, SameSelf
<1>2. CASE s.at # 0
  <2>1. father \in Nat /\ father < Len(s.h.heap_)
    <3>1. Len(s.h.heap_) \in Nat
      BY HeapFacts
    <3> DEFINE p == s.at  z == Len(s.h.heap_)
    <3>2. p \in Nat /\ p < z /\ z \in Nat
      BY <3>1
    <3> HIDE DEF p, z
    <3>3. p \div 2 \in Nat /\ p \div 2 < z
      BY <3>2
    <3> QED BY <3>3 DEF p, z
  <2>2. u = IF c THEN [h |-> x, at |-> father] ELSE [h |-> t, at |-> 0]
    BY <1>2 DEF Up
  <2> HIDE DEF c, u, father
  <2>3. Same(s.h, t)
    BY <2>1, UpdateSame
  <2> HIDE DEF t
  <2>4. Same(t, x)
    <3>1. HeapOK(t) /\ Len(t.heap_) = Len(s.h.heap_)
      BY <2>3 DEF Same
    <3> QED BY <2>1, <3>1, ExchangeSame
  <2> HIDE DEF x
  <2>5. Same(s.h, x)
    BY <2>3, <2>4, SameTwice
  <2>6. 0 < Len(s.h.heap_)
    BY <1>2, <2>1, HeapFacts
  <2> QED BY <2>1, <2>2, <2>3, <2>5, <2>6 DEF u
<1> QED BY <1>1, <1>2

\* One call of heapify_down
LEMMA DownSame ==
  ASSUME NEW s, HeapOK(s.h), s.at \in Nat
  PROVE  Same(s.h, Down(s).h) /\ Down(s).at \in Nat
<1> DEFINE l == 2 * s.at + 1
           v == update_value(s.h, l)
           t == update_value(v, 2 * s.at + 2)
           son == SmallerSon(t, s.at)
           c == Less(Entry(t, son), Entry(t, s.at))
           x == exchange(t, s.at, son)
           u == Down(s)
           z == Len(s.h.heap_)
<1>0. z \in Nat /\ l \in Nat /\ 2 * s.at + 2 \in Nat
  BY HeapFacts
<1>1. CASE l >= z
  <2>1. u = s
    BY <1>1 DEF Down, Size
  <2> QED BY <2>1, SameSelf
<1>2. CASE ~(l >= z)
  <2>1. u = IF c THEN [h |-> x, at |-> son] ELSE [h |-> t, at |-> Len(t.heap_)]
    BY <1>2 DEF Down, Size
  <2>2. Same(s.h, v)
    BY <1>0, UpdateSame
  <2>3. Same(v, t)
    <3> HIDE DEF v
    <3>1. HeapOK(v)
      BY <2>2 DEF Same
    <3> QED BY <1>0, <3>1, UpdateSame
  <2>4. Same(s.h, t)
    <3> HIDE DEF v, t
    <3> QED BY <2>2, <2>3, SameTwice
  <2>5. HeapOK(t) /\ Len(t.heap_) = z
    BY <2>4 DEF Same
  <2>6. son = IF 2 * s.at + 2 >= Len(t.heap_)
                 \/ Less(Entry(t, l), Entry(t, 2 * s.at + 2))
              THEN l ELSE 2 * s.at + 2
    BY DEF SmallerSon, Size
  <2> HIDE DEF u, t, v, son, c, x
  <2>7. son \in Nat /\ son < z /\ s.at < z
    <3>1. son = l \/ (son = 2 * s.at + 2 /\ ~(2 * s.at + 2 >= z))
      BY <2>5, <2>6
    <3>2. l < z
      BY <1>0, <1>2
    <3>3. s.at < z
      BY <1>0, <3>2
    <3> HIDE DEF z
    <3> QED BY <1>0, <3>1, <3>2, <3>3
  <2>8. Same(t, x)
    BY <2>5, <2>7, ExchangeSame DEF x
  <2>9. Same(s.h, x)
    BY <2>4, <2>8, SameTwice
  <2> QED BY <1>0, <2>1, <2>4, <2>5, <2>7, <2>9 DEF u
<1> QED BY <1>1, <1>2

LEMMA heapify_upSame ==
  ASSUME NEW h, HeapOK(h), NEW i \in Nat, i < Len(h.heap_)
  PROVE  Same(h, heapify_up(h, i))
<1> DEFINE N == Len(h.heap_)
           b == [h |-> h, at |-> i]
           D == { s \in [h : HeapStates, at : Nat] :
                    Same(h, s.h) /\ s.at < Len(s.h.heap_) }
           F == [j \in 1 .. N |-> [s \in D |-> Up(s)]]
           Step(f, n) == IF n = 0 THEN b ELSE Up(f[n - 1])
           P(f) == f = [n \in 0 .. N |-> Step(f, n)]
           c == CHOOSE f : P(f)
<1>1. N \in Nat
  BY HeapFacts
<1>2. heapify_up(h, i) = c[N].h
  BY DEF heapify_up, Size
<1>3. b \in D
  <2>1. h \in HeapStates /\ Same(h, h)
    BY SameSelf DEF HeapOK
  <2> QED BY <2>1
<1>4. ASSUME NEW s \in D PROVE Up(s) \in D
  <2>1. HeapOK(s.h) /\ s.at \in Nat /\ Same(h, s.h) /\ s.at < Len(s.h.heap_)
    BY DEF Same
  <2>2. Same(s.h, Up(s).h) /\ Up(s).at \in Nat /\ Up(s).at < Len(s.h.heap_)
    BY <2>1, UpSame
  <2>3. Same(h, Up(s).h)
    BY <2>1, <2>2, SameTwice
  <2>4. Up(s) = [h |-> Up(s).h, at |-> Up(s).at]
    BY DEF Up
  <2> DEFINE u == Up(s)
  <2> HIDE DEF u
  <2>5. u.h \in HeapStates
    BY <2>3 DEF Same, HeapOK, u
  <2>6. u = [h |-> u.h, at |-> u.at] /\ u.at \in Nat /\ Same(h, u.h)
    BY <2>2, <2>3, <2>4 DEF u
  <2>7. u \in [h : HeapStates, at : Nat]
    BY <2>5, <2>6
  <2>8. u \in D
    BY <2>1, <2>2, <2>6, <2>7 DEF Same, u
  <2> QED BY <2>8 DEF u
<1> HIDE DEF D, b
<1>5. F \in Steps(N, D)
  BY <1>4 DEF Steps
<1>6. \A j \in 1 .. N, s \in D : F[j][s] = Up(s)
  OBVIOUS
<1> HIDE DEF F, N
<1>7. PICK g : Loops(g, N, D, b, F)
  BY <1>1, <1>3, <1>5, Loop
<1>8. P(g)
  <2>1. ASSUME NEW n \in 0 .. N PROVE g[n] = Step(g, n)
    <3>1. CASE n = 0
      BY <1>7, <3>1 DEF Loops
    <3>2. CASE n # 0
      <4>1. n \in 1 .. N
        BY <1>1, <3>2
      <4>2. g[n] = F[n][g[n - 1]] /\ g[n - 1] \in D
        BY <1>7, <4>1 DEF Loops
      <4> QED BY <1>6, <3>2, <4>1, <4>2
    <3> QED BY <3>1, <3>2
  <2>2. g = [n \in 0 .. N |-> g[n]]
    BY <1>7 DEF Loops
  <2> HIDE DEF Step
  <2>3. [n \in 0 .. N |-> g[n]] = [n \in 0 .. N |-> Step(g, n)]
    BY <2>1
  <2> QED BY <2>2, <2>3
<1> HIDE DEF Step
<1>9. P(c)
  <2>1. \E f : P(f)
    BY <1>8
  <2> QED BY <2>1
<1>10. c = [n \in 0 .. N |-> Step(c, n)]
  BY <1>9
<1> HIDE DEF c
<1>11. \A n \in 0 .. N : c[n] = Step(c, n)
  BY <1>10
<1>12. Loops(c, N, D, b, F)
  <2>1. c = [n \in 0 .. N |-> c[n]]
    BY <1>10
  <2>2. c[0] = b
    <3>1. c[0] = Step(c, 0)
      BY <1>1, <1>11
    <3> QED BY <3>1 DEF Step
  <2>3. ASSUME NEW n \in 1 .. N, c[n - 1] \in D PROVE c[n] = F[n][c[n - 1]]
    <3>1. n \in 0 .. N /\ n # 0
      BY <1>1
    <3>2. c[n] = Up(c[n - 1])
      BY <1>11, <3>1 DEF Step
    <3> QED BY <1>6, <2>3, <3>2
  <2> QED BY <1>1, <1>3, <1>5, <2>1, <2>2, <2>3, LoopIs
<1>13. c[N] \in D
  BY <1>1, <1>12 DEF Loops
<1> QED BY <1>2, <1>13 DEF D

LEMMA heapify_downSame ==
  ASSUME NEW h, HeapOK(h), NEW i \in Nat
  PROVE  Same(h, heapify_down(h, i))
<1> DEFINE N == Len(h.heap_)
           b == [h |-> h, at |-> i]
           D == { s \in [h : HeapStates, at : Nat] :
                    Same(h, s.h) }
           F == [j \in 1 .. N |-> [s \in D |-> Down(s)]]
           Step(f, n) == IF n = 0 THEN b ELSE Down(f[n - 1])
           P(f) == f = [n \in 0 .. N |-> Step(f, n)]
           c == CHOOSE f : P(f)
<1>1. N \in Nat
  BY HeapFacts
<1>2. heapify_down(h, i) = c[N].h
  BY DEF heapify_down, Size
<1>3. b \in D
  <2>1. h \in HeapStates /\ Same(h, h)
    BY SameSelf DEF HeapOK
  <2> QED BY <2>1
<1>4. ASSUME NEW s \in D PROVE Down(s) \in D
  <2>1. HeapOK(s.h) /\ s.at \in Nat /\ Same(h, s.h)
    BY DEF Same
  <2>2. Same(s.h, Down(s).h) /\ Down(s).at \in Nat
    BY <2>1, DownSame
  <2>3. Same(h, Down(s).h)
    BY <2>1, <2>2, SameTwice
  <2>4. Down(s) = [h |-> Down(s).h, at |-> Down(s).at]
    BY DEF Down
  <2> DEFINE u == Down(s)
  <2> HIDE DEF u
  <2>5. u.h \in HeapStates
    BY <2>3 DEF Same, HeapOK, u
  <2>6. u = [h |-> u.h, at |-> u.at] /\ u.at \in Nat /\ Same(h, u.h)
    BY <2>2, <2>3, <2>4 DEF u
  <2>7. u \in [h : HeapStates, at : Nat]
    BY <2>5, <2>6
  <2>8. u \in D
    BY <2>1, <2>2, <2>6, <2>7 DEF Same, u
  <2> QED BY <2>8 DEF u
<1> HIDE DEF D, b
<1>5. F \in Steps(N, D)
  BY <1>4 DEF Steps
<1>6. \A j \in 1 .. N, s \in D : F[j][s] = Down(s)
  OBVIOUS
<1> HIDE DEF F, N
<1>7. PICK g : Loops(g, N, D, b, F)
  BY <1>1, <1>3, <1>5, Loop
<1>8. P(g)
  <2>1. ASSUME NEW n \in 0 .. N PROVE g[n] = Step(g, n)
    <3>1. CASE n = 0
      BY <1>7, <3>1 DEF Loops
    <3>2. CASE n # 0
      <4>1. n \in 1 .. N
        BY <1>1, <3>2
      <4>2. g[n] = F[n][g[n - 1]] /\ g[n - 1] \in D
        BY <1>7, <4>1 DEF Loops
      <4> QED BY <1>6, <3>2, <4>1, <4>2
    <3> QED BY <3>1, <3>2
  <2>2. g = [n \in 0 .. N |-> g[n]]
    BY <1>7 DEF Loops
  <2> HIDE DEF Step
  <2>3. [n \in 0 .. N |-> g[n]] = [n \in 0 .. N |-> Step(g, n)]
    BY <2>1
  <2> QED BY <2>2, <2>3
<1> HIDE DEF Step
<1>9. P(c)
  <2>1. \E f : P(f)
    BY <1>8
  <2> QED BY <2>1
<1>10. c = [n \in 0 .. N |-> Step(c, n)]
  BY <1>9
<1> HIDE DEF c
<1>11. \A n \in 0 .. N : c[n] = Step(c, n)
  BY <1>10
<1>12. Loops(c, N, D, b, F)
  <2>1. c = [n \in 0 .. N |-> c[n]]
    BY <1>10
  <2>2. c[0] = b
    <3>1. c[0] = Step(c, 0)
      BY <1>1, <1>11
    <3> QED BY <3>1 DEF Step
  <2>3. ASSUME NEW n \in 1 .. N, c[n - 1] \in D PROVE c[n] = F[n][c[n - 1]]
    <3>1. n \in 0 .. N /\ n # 0
      BY <1>1
    <3>2. c[n] = Down(c[n - 1])
      BY <1>11, <3>1 DEF Step
    <3> QED BY <1>6, <2>3, <3>2
  <2> QED BY <1>1, <1>3, <1>5, <2>1, <2>2, <2>3, LoopIs
<1>13. c[N] \in D
  BY <1>1, <1>12 DEF Loops
<1> QED BY <1>2, <1>13 DEF D

\* Every page has one entry.
LEMMA HeapSize ==
  ASSUME NEW h, HeapOK(h), IsFiniteSet(Keys)
  PROVE  IsFiniteSet(DOMAIN h.index_) /\ Cardinality(DOMAIN h.index_) = Len(h.heap_)
<1> DEFINE q == h.heap_
           x == h.index_
           K == DOMAIN x
           N == Len(q)
           f == [k \in K |-> x[k] + 1]
<1>1. /\ N \in Nat
      /\ \A k \in K : x[k] + 1 \in 1 .. N /\ q[x[k] + 1].key = k
      /\ \A i \in 1 .. N : q[i].key \in K /\ x[q[i].key] + 1 = i
  BY HeapFacts
<1> HIDE DEF q, x, N, K
<1>2. f \in Bijection(K, 1 .. N)
  <2>1. f \in [K -> 1 .. N]
    BY <1>1
  <2>2. ASSUME NEW k \in K, NEW l \in K, f[k] = f[l] PROVE k = l
    BY <1>1, <2>2
  <2>3. \A i \in 1 .. N : \E k \in K : f[k] = i
    BY <1>1
  <2> QED BY <2>1, <2>2, <2>3 DEF Bijection, Injection, Surjection, IsInjective
<1>3. IsFiniteSet(1 .. N) /\ Cardinality(1 .. N) = N
  <2>1. IsFiniteSet(1 .. N)
        /\ Cardinality(1 .. N) = IF 1 > N THEN 0 ELSE N - 1 + 1
    BY <1>1, FS_Interval
  <2> QED BY <1>1, <2>1
<1>4. K \subseteq Keys
  BY HeapFacts DEF K, x
<1>5. IsFiniteSet(K)
  BY <1>4, FS_Subset
<1>6. Cardinality(K) = Cardinality(1 .. N)
  BY <1>2, <1>5, FS_Bijection DEF ExistsBijection
<1> QED BY <1>3, <1>5, <1>6 DEF K, x, N, q

LEMMA WorthType ==
  ASSUME NEW h, HeapOK(h), NEW k \in DOMAIN h.index_
  PROVE  Worth(h, k) \in Nat
<1> DEFINE e == h.heap_[h.index_[k] + 1]
<1>1. e \in HeapEntries /\ e.ts_last_update <= h.ts_ /\ h.ts_ \in Nat
  BY HeapFacts
<1>2. e.value \in Nat /\ e.ts_last_update \in Nat
  BY <1>1 DEF HeapEntries
<1> HIDE DEF e
<1>3. h.ts_ - e.ts_last_update \in Nat
  BY <1>1, <1>2
<1>4. Halved(e.value, h.ts_ - e.ts_last_update) \in Nat
  BY <1>2, <1>3, HalvedIs
<1> QED BY <1>4 DEF Worth, e

\* A value a time later is half of what it was.
LEMMA HalvedLater ==
  ASSUME NEW e \in HeapEntries, NEW n \in Nat, e.ts_last_update <= n
  PROVE  Halved(e.value, (n + 1) - e.ts_last_update)
           = Halved(e.value, n - e.ts_last_update) \div 2
<1>1. e.value \in Nat /\ e.ts_last_update \in Nat
  BY DEF HeapEntries
<1> DEFINE d == n - e.ts_last_update
           v == e.value
<1>2. d \in Nat /\ (n + 1) - e.ts_last_update = d + 1 /\ v \in Nat
  BY <1>1
<1> HIDE DEF d, v
<1>3. Halved(v, d + 1) = Halved(v, d) \div 2
  BY <1>2, HalvedIs
<1> QED BY <1>2, <1>3 DEF d, v

\* t is h after k was given v more: what the other pages are worth is halved,
\* and what k was.
Added(h, t, k, v) ==
  /\ HeapOK(t) /\ t.ts_ = h.ts_ + 1 /\ DOMAIN t.index_ = DOMAIN h.index_ \cup {k}
  /\ \A l \in DOMAIN h.index_ : l # k => Worth(t, l) = Worth(h, l) \div 2
  /\ Worth(t, k) = (IF k \in DOMAIN h.index_ THEN Worth(h, k) \div 2 ELSE 0) + v

LEMMA AddedSame ==
  ASSUME NEW h, NEW t, NEW u, NEW k, NEW v, Added(h, t, k, v), Same(t, u)
  PROVE  Added(h, u, k, v)
BY DEF Added, Same

LEMMA HeapPush ==
  ASSUME NEW h, HeapOK(h), NEW k \in Keys, k \notin DOMAIN h.index_, NEW v \in Nat
  PROVE  Added(h, Push(h, k, v), k, v)
<1> DEFINE q == h.heap_
           x == h.index_
           n == h.ts_
           N == Len(q)
           e == [key |-> k, value |-> v, ts_last_access |-> n + 1,
                 ts_last_update |-> n + 1]
           r == Append(q, e)
           y == Put(x, k, N)
           u == [heap_ |-> r, index_ |-> y, ts_ |-> n + 1]
<1>1. q \in Seq(HeapEntries) /\ N \in Nat /\ n \in Nat /\ x \in Places
  BY HeapFacts
<1>2. \A l \in DOMAIN x :
        /\ x[l] \in Nat /\ x[l] + 1 \in 1 .. N /\ q[x[l] + 1].key = l
        /\ q[x[l] + 1] \in HeapEntries /\ q[x[l] + 1].ts_last_update <= n
  BY HeapFacts
<1>3. \A i \in 1 .. N :
        /\ q[i] \in HeapEntries /\ q[i].key \in DOMAIN x
        /\ x[q[i].key] + 1 = i /\ q[i].ts_last_update <= n
  BY HeapFacts
<1>4. Push(h, k, v) = heapify_up(u, N)
  BY DEF Push, Size
<1>5. e \in HeapEntries /\ e.key = k /\ e.value = v /\ e.ts_last_update = n + 1
  BY <1>1 DEF HeapEntries
<1> HIDE DEF e, n, N, q, x
<1>6. /\ r \in Seq(HeapEntries) /\ Len(r) = N + 1 /\ r[N + 1] = e
      /\ \A i \in 1 .. N : r[i] = q[i]
  BY <1>1, <1>5 DEF N
<1>7. /\ DOMAIN y = DOMAIN x \cup {k} /\ y[k] = N
      /\ \A l \in DOMAIN x : l # k => y[l] = x[l]
  BY DEF Put
<1>8. k \notin DOMAIN x
  BY DEF x
<1>9. y \in Places
  <2>1. PICK S \in SUBSET Keys : x \in [S -> Nat]
    BY <1>1 DEF Places
  <2>2. y \in [S \cup {k} -> Nat]
    BY <1>1, <2>1 DEF Put
  <2>3. S \cup {k} \in SUBSET Keys
    OBVIOUS
  <2> QED BY <2>2, <2>3 DEF Places
<1> HIDE DEF r, y
<1>10. Filed(r, y, n + 1)
  <2>1. ASSUME NEW i \in 1 .. Len(r)
        PROVE  /\ r[i].ts_last_update <= n + 1
               /\ r[i].key \in DOMAIN y /\ y[r[i].key] + 1 = i
    <3>1. CASE i = N + 1
      BY <1>1, <1>5, <1>6, <1>7, <3>1
    <3>2. CASE i # N + 1
      <4>1. i \in 1 .. N /\ r[i] = q[i]
        BY <1>1, <1>6, <3>2
      <4>2. q[i].key \in DOMAIN x /\ x[q[i].key] + 1 = i
            /\ q[i].ts_last_update <= n /\ q[i] \in HeapEntries
        BY <1>3, <4>1
      <4>3. q[i].ts_last_update \in Nat
        BY <4>2 DEF HeapEntries
      <4>4. q[i].ts_last_update <= n + 1
        BY <1>1, <4>2, <4>3
      <4> QED BY <1>7, <1>8, <4>1, <4>2, <4>4
    <3> QED BY <3>1, <3>2
  <2>2. ASSUME NEW l \in DOMAIN y
        PROVE  y[l] + 1 \in 1 .. Len(r) /\ r[y[l] + 1].key = l
    <3>1. CASE l = k
      BY <1>1, <1>5, <1>6, <1>7, <3>1
    <3>2. CASE l # k
      <4>1. l \in DOMAIN x /\ y[l] = x[l]
        BY <1>7, <3>2
      <4>2. x[l] + 1 \in 1 .. N /\ q[x[l] + 1].key = l
        BY <1>2, <4>1
      <4>3. x[l] + 1 \in 1 .. Len(r)
        BY <1>1, <1>6, <4>2
      <4> QED BY <1>6, <4>1, <4>2, <4>3
    <3> QED BY <3>1, <3>2
  <2> QED BY <2>1, <2>2 DEF Filed
<1>11. HeapOK(u) /\ u.heap_ = r /\ u.index_ = y /\ u.ts_ = n + 1
  <2> DEFINE z == n + 1
  <2>1. z \in Nat /\ Filed(r, y, z)
    BY <1>1, <1>10
  <2> HIDE DEF z
  <2>2. r \in Seq(HeapEntries) /\ u = [heap_ |-> r, index_ |-> y, ts_ |-> z]
    BY <1>6 DEF z
  <2> HIDE DEF u
  <2>3. HeapOK(u) /\ u.heap_ = r /\ u.index_ = y /\ u.ts_ = z
    BY <1>9, <2>1, <2>2, HeapIs
  <2> QED BY <2>3 DEF z
<1> HIDE DEF u
<1>12. Worth(u, k) = v
  <2>1. Worth(u, k) = Halved(v, (n + 1) - (n + 1))
    BY <1>5, <1>6, <1>7, <1>11 DEF Worth
  <2>2. (n + 1) - (n + 1) = 0
    BY <1>1
  <2> QED BY <2>1, <2>2, HalvedIs
<1>13. ASSUME NEW l \in DOMAIN x, l # k PROVE Worth(u, l) = Worth(h, l) \div 2
  <2> DEFINE f == q[x[l] + 1]
  <2>1. f \in HeapEntries /\ f.ts_last_update <= n /\ x[l] + 1 \in 1 .. N
    BY <1>2
  <2>2. u.heap_[u.index_[l] + 1] = f
    BY <1>6, <1>7, <1>11, <1>13, <2>1
  <2>3. Worth(u, l) = Halved(f.value, (n + 1) - f.ts_last_update)
    BY <1>11, <2>2 DEF Worth
  <2>4. Worth(h, l) = Halved(f.value, n - f.ts_last_update)
    BY DEF Worth, q, x, n
  <2> HIDE DEF f
  <2> QED BY <1>1, <2>1, <2>3, <2>4, HalvedLater
<1>14. Added(h, u, k, v)
  <2>1. u.ts_ = h.ts_ + 1 /\ DOMAIN u.index_ = DOMAIN h.index_ \cup {k}
    BY <1>7, <1>11 DEF n, x
  <2>2. \A l \in DOMAIN h.index_ : l # k => Worth(u, l) = Worth(h, l) \div 2
    BY <1>13 DEF x
  <2>3. Worth(u, k) = 0 + v
    BY <1>12
  <2> QED BY <1>11, <2>1, <2>2, <2>3 DEF Added
<1>15. Same(u, heapify_up(u, N))
  <2>1. N < Len(u.heap_)
    BY <1>1, <1>6, <1>11
  <2> QED BY <1>1, <1>11, <2>1, heapify_upSame
<1> QED BY <1>4, <1>14, <1>15, AddedSame

LEMMA NewHeapIs ==
  HeapOK(NewHeap) /\ DOMAIN NewHeap.index_ = {} /\ NewHeap.ts_ = 0
<1>1. /\ NewHeap.heap_ = <<>> /\ NewHeap.index_ = NoEntries /\ NewHeap.ts_ = 0
      /\ NewHeap = [heap_ |-> <<>>, index_ |-> NoEntries, ts_ |-> 0]
  BY DEF NewHeap
<1>2. <<>> \in Seq(HeapEntries) /\ Len(<<>>) = 0
  OBVIOUS
<1>3. DOMAIN NoEntries = {} /\ NoEntries \in [{} -> Nat]
  BY DEF NoEntries
<1>4. NoEntries \in Places
  BY <1>3 DEF Places
<1> HIDE DEF NoEntries
<1>5. NewHeap \in HeapStates
  BY <1>1, <1>2, <1>4 DEF HeapStates
<1>6. 1 .. 0 = {}
  OBVIOUS
<1> QED BY <1>1, <1>2, <1>3, <1>5, <1>6 DEF HeapOK

\* A time later every page is worth half as much.
LEMMA HeapTick ==
  ASSUME NEW h, HeapOK(h), NEW u, u = [h EXCEPT !.ts_ = @ + 1]
  PROVE  /\ HeapOK(u) /\ u.ts_ = h.ts_ + 1 /\ u.index_ = h.index_
         /\ u.heap_ = h.heap_
         /\ \A l \in DOMAIN h.index_ : Worth(u, l) = Worth(h, l) \div 2
<1> DEFINE q == h.heap_
           x == h.index_
           n == h.ts_
           z == n + 1
<1>1. /\ h = [heap_ |-> q, index_ |-> x, ts_ |-> n]
      /\ q \in Seq(HeapEntries) /\ n \in Nat /\ x \in Places
  BY HeapFacts
<1>2. \A k \in DOMAIN x :
        /\ x[k] \in Nat /\ x[k] + 1 \in 1 .. Len(q) /\ q[x[k] + 1].key = k
  BY HeapFacts
<1>3. \A i \in 1 .. Len(q) :
        /\ q[i] \in HeapEntries /\ q[i].key \in DOMAIN x
        /\ x[q[i].key] + 1 = i /\ q[i].ts_last_update <= n
  BY HeapFacts
<1>4. u = [h EXCEPT !.ts_ = z]
  OBVIOUS
<1> HIDE DEF q, x, n, z
<1>5. u = [heap_ |-> q, index_ |-> x, ts_ |-> z]
  BY <1>1, <1>4
<1>6. z \in Nat /\ z = n + 1
  BY <1>1 DEF z
<1>7. \A i \in 1 .. Len(q) : q[i].ts_last_update <= z
  <2>1. ASSUME NEW i \in 1 .. Len(q) PROVE q[i].ts_last_update <= z
    <3>1. q[i].ts_last_update \in Nat /\ q[i].ts_last_update <= n
      BY <1>3 DEF HeapEntries
    <3> QED BY <1>1, <1>6, <3>1
  <2> QED BY <2>1
<1>8. Filed(q, x, z)
  BY <1>2, <1>3, <1>7 DEF Filed
<1>9. HeapOK(u) /\ u.heap_ = q /\ u.index_ = x /\ u.ts_ = z
  BY <1>1, <1>5, <1>6, <1>8, HeapIs
<1>10. ASSUME NEW l \in DOMAIN x PROVE Worth(u, l) = Worth(h, l) \div 2
  <2> DEFINE f == q[x[l] + 1]
  <2>1. f \in HeapEntries /\ f.ts_last_update <= n
    BY <1>2, <1>3
  <2>2. Worth(u, l) = Halved(f.value, (n + 1) - f.ts_last_update)
    BY <1>6, <1>9 DEF Worth
  <2>3. Worth(h, l) = Halved(f.value, n - f.ts_last_update)
    BY DEF Worth, q, x, n
  <2> HIDE DEF f
  <2> QED BY <1>1, <2>1, <2>2, <2>3, HalvedLater
<1> QED BY <1>6, <1>9, <1>10 DEF q, x, n

\* What update_value leaves at its place
LEMMA UpdatedNow ==
  ASSUME NEW h, HeapOK(h), NEW i \in Nat, i < Len(h.heap_)
  PROVE  LET t == update_value(h, i)
         IN t.heap_[i + 1].ts_last_update = h.ts_ /\ t.index_ = h.index_
<1> DEFINE q == h.heap_
           f == [q[i + 1] EXCEPT !.value = ValueNow(h, i), !.ts_last_update = h.ts_]
           r == [q EXCEPT ![i + 1] = f]
           t == update_value(h, i)
<1>1. Len(q) \in Nat /\ DOMAIN q = 1 .. Len(q)
  BY HeapFacts
<1>2. i + 1 \in 1 .. Len(q) /\ ~(i >= Len(q))
  BY <1>1
<1>3. q[i + 1] \in HeapEntries
  BY <1>2, HeapFacts
<1>4. h = [heap_ |-> q, index_ |-> h.index_, ts_ |-> h.ts_]
  BY HeapFacts
<1>5. t = [h EXCEPT !.heap_ = r]
  BY <1>2 DEF update_value, Size, Entry
<1>6. f.ts_last_update = h.ts_
  BY <1>3 DEF HeapEntries
<1> HIDE DEF f, t
<1>7. r[i + 1] = f
  BY <1>1, <1>2
<1> HIDE DEF r, q
<1>8. t.heap_ = r /\ t.index_ = h.index_
  BY <1>4, <1>5
<1> QED BY <1>6, <1>7, <1>8 DEF t

\* An entry that is up to date is given v more.
LEMMA HeapRaise ==
  ASSUME NEW h, HeapOK(h), NEW k \in DOMAIN h.index_, NEW v \in Nat,
         NEW i, i = h.index_[k], h.heap_[i + 1].ts_last_update = h.ts_,
         NEW s, s = Raised(h, i, v)
  PROVE  /\ HeapOK(s) /\ s.ts_ = h.ts_ /\ s.index_ = h.index_
         /\ \A l \in DOMAIN h.index_ : l # k => Worth(s, l) = Worth(h, l)
         /\ Worth(s, k) = Worth(h, k) + v
<1> DEFINE q == h.heap_
           x == h.index_
           n == h.ts_
           e == q[i + 1]
           w == e.value + v
           f == [e EXCEPT !.value = w, !.ts_last_access = n]
           r == [q EXCEPT ![i + 1] = f]
<1>1. /\ h = [heap_ |-> q, index_ |-> x, ts_ |-> n]
      /\ q \in Seq(HeapEntries) /\ n \in Nat /\ x \in Places
      /\ Len(q) \in Nat /\ DOMAIN q = 1 .. Len(q)
  BY HeapFacts
<1>2. \A l \in DOMAIN x :
        /\ x[l] \in Nat /\ x[l] + 1 \in 1 .. Len(q) /\ q[x[l] + 1].key = l
  BY HeapFacts
<1>3. \A j \in 1 .. Len(q) :
        /\ q[j] \in HeapEntries /\ q[j].key \in DOMAIN x
        /\ x[q[j].key] + 1 = j /\ q[j].ts_last_update <= n
  BY HeapFacts
<1>4. s = [h EXCEPT !.heap_ = r]
  BY DEF Raised, Entry
<1>5. k \in DOMAIN x /\ i = x[k] /\ e.ts_last_update = n
  OBVIOUS
<1> HIDE DEF q, x, n
<1>6. i \in Nat /\ i + 1 \in 1 .. Len(q) /\ e \in HeapEntries /\ e.value \in Nat
  BY <1>2, <1>3, <1>5 DEF HeapEntries
<1>7. w \in Nat
  BY <1>6
<1> HIDE DEF w
<1>8. f \in HeapEntries /\ f.key = e.key /\ f.value = w /\ f.ts_last_update = n
  BY <1>1, <1>5, <1>6, <1>7 DEF HeapEntries
<1> HIDE DEF f
<1>9. /\ r \in Seq(HeapEntries) /\ Len(r) = Len(q) /\ r[i + 1] = f
      /\ \A j \in 1 .. Len(q) : j # i + 1 => r[j] = q[j]
  BY <1>1, <1>6, <1>8
<1> HIDE DEF r
<1>10. s = [heap_ |-> r, index_ |-> x, ts_ |-> n]
  BY <1>1, <1>4
<1>11. n <= n
  BY <1>1
<1>12. \A j \in 1 .. Len(q) : r[j].key = q[j].key /\ r[j].ts_last_update <= n
  BY <1>3, <1>8, <1>9, <1>11
<1>13. Filed(r, x, n)
  BY <1>2, <1>3, <1>9, <1>12 DEF Filed
<1>14. HeapOK(s) /\ s.heap_ = r /\ s.index_ = x /\ s.ts_ = n
  BY <1>1, <1>9, <1>10, <1>13, HeapIs
<1>15. ASSUME NEW l \in DOMAIN x, l # k PROVE Worth(s, l) = Worth(h, l)
  <2>1. x[l] # i
    BY <1>2, <1>5, <1>15
  <2>2. x[l] \in Nat /\ x[l] + 1 \in 1 .. Len(q)
    BY <1>2
  <2>3. x[l] + 1 # i + 1
    BY <1>6, <2>1, <2>2
  <2> QED BY <1>9, <1>14, <2>2, <2>3 DEF Worth, q, x, n
<1>16. Worth(s, k) = Worth(h, k) + v
  <2>1. Worth(s, k) = Halved(w, n - n)
    BY <1>5, <1>8, <1>9, <1>14 DEF Worth
  <2>2. Worth(h, k) = Halved(e.value, n - n)
    BY <1>5 DEF Worth, q, x, n
  <2>3. n - n = 0
    BY <1>1
  <2>4. Halved(w, 0) = w /\ Halved(e.value, 0) = e.value
    BY <1>6, <1>7, HalvedIs
  <2> QED BY <2>1, <2>2, <2>3, <2>4 DEF w
<1> QED BY <1>14, <1>15, <1>16 DEF x, n

LEMMA HeapAdd ==
  ASSUME NEW h, HeapOK(h), NEW k \in Keys, NEW v \in Nat
  PROVE  Added(h, Add(h, k, v), k, v)
<1>1. CASE k \notin DOMAIN h.index_
  BY <1>1, HeapPush DEF Add, InHeap
<1>2. CASE k \in DOMAIN h.index_
  <2> DEFINE i == h.index_[k]
             u == [h EXCEPT !.ts_ = @ + 1]
             t == update_value(u, i)
             s == Raised(t, i, v)
  <2>1. Add(h, k, v) = heapify_down(s, i)
    BY <1>2 DEF Add, InHeap
  <2>2. i \in Nat /\ i + 1 \in 1 .. Len(h.heap_) /\ Len(h.heap_) \in Nat
    BY <1>2, HeapFacts
  <2>3. /\ HeapOK(u) /\ u.ts_ = h.ts_ + 1 /\ u.index_ = h.index_
        /\ u.heap_ = h.heap_
        /\ \A l \in DOMAIN h.index_ : Worth(u, l) = Worth(h, l) \div 2
    BY HeapTick
  <2> HIDE DEF u
  <2>4. i < Len(u.heap_)
    BY <2>2, <2>3
  <2>5. Same(u, t)
    BY <2>2, <2>3, UpdateSame
  <2>6. t.heap_[i + 1].ts_last_update = u.ts_ /\ t.index_ = u.index_
    BY <2>2, <2>3, <2>4, UpdatedNow
  <2> HIDE DEF t
  <2>7. HeapOK(t) /\ t.ts_ = u.ts_ /\ \A l \in DOMAIN u.index_ : Worth(t, l) = Worth(u, l)
    BY <2>5 DEF Same
  <2>0. s = Raised(t, i, v)
    OBVIOUS
  <2>8. i = t.index_[k] /\ k \in DOMAIN t.index_ /\ t.heap_[i + 1].ts_last_update = t.ts_
    BY <1>2, <2>3, <2>6, <2>7
  <2>9. /\ HeapOK(s) /\ s.ts_ = t.ts_ /\ s.index_ = t.index_
        /\ \A l \in DOMAIN t.index_ : l # k => Worth(s, l) = Worth(t, l)
        /\ Worth(s, k) = Worth(t, k) + v
    <3> HIDE DEF s, i
    <3> QED BY <2>0, <2>7, <2>8, HeapRaise
  <2> HIDE DEF s, i
  <2>10. Added(h, s, k, v)
    <3>1. DOMAIN s.index_ = DOMAIN h.index_ \cup {k}
      BY <1>2, <2>3, <2>6, <2>9
    <3>2. s.ts_ = h.ts_ + 1
      BY <2>3, <2>7, <2>9
    <3>3. \A l \in DOMAIN h.index_ : l # k => Worth(s, l) = Worth(h, l) \div 2
      BY <2>3, <2>6, <2>7, <2>9
    <3>4. Worth(s, k) = Worth(h, k) \div 2 + v
      BY <1>2, <2>3, <2>7, <2>9
    <3> QED BY <1>2, <2>9, <3>1, <3>2, <3>3, <3>4 DEF Added
  <2>11. Same(s, heapify_down(s, i))
    BY <2>2, <2>9, heapify_downSame
  <2> QED BY <2>1, <2>10, <2>11, AddedSame
<1> QED BY <1>1, <1>2

\* t is h without one of its pages.
Popped(h, t, k) ==
  /\ k \in DOMAIN h.index_
  /\ HeapOK(t) /\ DOMAIN t.index_ = DOMAIN h.index_ \ {k}
  /\ \A l \in DOMAIN t.index_ : Worth(t, l) = Worth(h, l)

LEMMA HeapParts ==
  ASSUME NEW q, NEW x, NEW n, NEW r, NEW y,
         NEW t, t = [heap_ |-> q, index_ |-> x, ts_ |-> n],
         NEW u, u = [t EXCEPT !.heap_ = r, !.index_ = y]
  PROVE  u = [heap_ |-> r, index_ |-> y, ts_ |-> n]
OBVIOUS

LEMMA HeapPop ==
  ASSUME NEW h, HeapOK(h), Len(h.heap_) > 0
  PROVE  \E k : Popped(h, Pop(h), k)
<1> DEFINE N == Len(h.heap_)
           t == exchange(h, 0, N - 1)
           q == t.heap_
           x == t.index_
           n == t.ts_
           k == Last(q).key
           r == Front(q)
           y == Drop(x, k)
           u == [t EXCEPT !.heap_ = r, !.index_ = y]
<1>1. N \in Nat /\ N - 1 \in Nat /\ N - 1 < N /\ 0 < N /\ N > 0
  <2>1. N \in Nat
    BY HeapFacts
  <2> QED BY <2>1
<1>2. Pop(h) = heapify_down(u, 0)
  BY DEF Pop, Size
<1>3. Same(h, t)
  BY <1>1, ExchangeSame
<1> HIDE DEF t
<1>4. HeapOK(t) /\ Len(q) = N
  BY <1>3 DEF Same
<1>5. /\ t = [heap_ |-> q, index_ |-> x, ts_ |-> n]
      /\ q \in Seq(HeapEntries) /\ n \in Nat /\ x \in Places
      /\ DOMAIN q = 1 .. N
  BY <1>4, HeapFacts
<1>6. \A l \in DOMAIN x :
        /\ x[l] \in Nat /\ x[l] + 1 \in 1 .. N /\ q[x[l] + 1].key = l
  BY <1>4, HeapFacts
<1>7. \A j \in 1 .. N :
        /\ q[j] \in HeapEntries /\ q[j].key \in DOMAIN x
        /\ x[q[j].key] + 1 = j /\ q[j].ts_last_update <= n
  BY <1>4, HeapFacts
<1>8. k = q[N].key
  BY <1>4 DEF Last
<1> HIDE DEF q, x, n, N, k
<1>9. N \in 1 .. N /\ k \in DOMAIN x /\ x[k] + 1 = N
  BY <1>1, <1>7, <1>8
<1>10. /\ r \in Seq(HeapEntries) /\ Len(r) = N - 1
       /\ \A j \in 1 .. N - 1 : r[j] = q[j]
  <2>1. r = SubSeq(q, 1, N - 1)
    BY <1>4 DEF Front
  <2> QED BY <1>1, <1>4, <1>5, <2>1
<1>11. DOMAIN y = DOMAIN x \ {k} /\ \A l \in DOMAIN y : y[l] = x[l]
  BY DEF Drop
<1>12. y \in Places
  <2>1. PICK S \in SUBSET Keys : x \in [S -> Nat]
    BY <1>5 DEF Places
  <2>2. y \in [S \ {k} -> Nat]
    BY <2>1 DEF Drop
  <2>3. S \ {k} \in SUBSET Keys
    OBVIOUS
  <2> QED BY <2>2, <2>3 DEF Places
<1> HIDE DEF r, y
<1>13. u = [heap_ |-> r, index_ |-> y, ts_ |-> n]
  <2>1. t = [heap_ |-> q, index_ |-> x, ts_ |-> n]
    BY <1>5
  <2>2. u = [t EXCEPT !.heap_ = r, !.index_ = y]
    OBVIOUS
  <2> HIDE DEF u
  <2> QED BY <2>1, <2>2, HeapParts
<1>14. \A l \in DOMAIN y : x[l] + 1 \in 1 .. N - 1
  <2>1. ASSUME NEW l \in DOMAIN y PROVE x[l] + 1 \in 1 .. N - 1
    <3>1. x[l] \in Nat /\ x[l] + 1 \in 1 .. N /\ q[x[l] + 1].key = l /\ l # k
      BY <1>6, <1>11
    <3>2. x[l] + 1 # N
      BY <1>8, <3>1
    <3> QED BY <1>1, <3>1, <3>2
  <2> QED BY <2>1
<1>15. Filed(r, y, n)
  <2>1. ASSUME NEW j \in 1 .. Len(r)
        PROVE  /\ r[j].ts_last_update <= n
               /\ r[j].key \in DOMAIN y /\ y[r[j].key] + 1 = j
    <3>1. j \in 1 .. N /\ r[j] = q[j] /\ j # N
      BY <1>1, <1>10
    <3>2. q[j].key \in DOMAIN x /\ x[q[j].key] + 1 = j /\ q[j].ts_last_update <= n
      BY <1>7, <3>1
    <3>3. q[j].key # k
      BY <1>9, <3>1, <3>2
    <3> QED BY <1>11, <3>1, <3>2, <3>3
  <2>2. ASSUME NEW l \in DOMAIN y
        PROVE  y[l] + 1 \in 1 .. Len(r) /\ r[y[l] + 1].key = l
    BY <1>6, <1>10, <1>11, <1>14
  <2> QED BY <2>1, <2>2 DEF Filed
<1> HIDE DEF u
<1>16. HeapOK(u) /\ u.heap_ = r /\ u.index_ = y /\ u.ts_ = n
  BY <1>5, <1>10, <1>12, <1>13, <1>15, HeapIs
<1>17. Popped(h, u, k)
  <2>1. DOMAIN x = DOMAIN h.index_ /\ n = h.ts_
    BY <1>3 DEF Same, x, n
  <2>2. ASSUME NEW l \in DOMAIN y PROVE Worth(u, l) = Worth(h, l)
    <3>1. Worth(u, l) = Worth(t, l)
      BY <1>10, <1>11, <1>14, <1>16 DEF Worth, q, x, n
    <3>2. l \in DOMAIN h.index_
      BY <1>11, <2>1
    <3> QED BY <1>3, <3>1, <3>2 DEF Same
  <2> QED BY <1>9, <1>11, <1>16, <2>1, <2>2 DEF Popped
<1>18. Same(u, heapify_down(u, 0))
  BY <1>16, heapify_downSame
<1>19. Popped(h, heapify_down(u, 0), k)
  BY <1>17, <1>18 DEF Popped, Same
<1> QED BY <1>2, <1>19

LEMMA HeapReads ==
  ASSUME NEW h, HeapOK(h), IsFiniteSet(Keys)
  PROVE  /\ Indexed(h) /\ Cardinality(DOMAIN h.index_) = Size(h)
         /\ \A k \in DOMAIN h.index_ : GetValue(h, k) = Worth(h, k)
         /\ \A k \in DOMAIN h.index_ : Same(h, Looked(h, k))
<1>1. Cardinality(DOMAIN h.index_) = Size(h)
  BY HeapSize DEF Size
<1>2. /\ Size(h) \in Nat
      /\ \A k \in DOMAIN h.index_ :
           /\ h.index_[k] \in Nat /\ h.index_[k] + 1 \in 1 .. Size(h)
           /\ Entry(h, h.index_[k]).key = k
  BY HeapFacts DEF Size, Entry
<1>3. \A k \in DOMAIN h.index_ : h.index_[k] \in 0 .. Size(h) - 1
  BY <1>2
<1>4. Indexed(h)
  BY <1>1, <1>2, <1>3 DEF Indexed
<1>5. \A k \in DOMAIN h.index_ : GetValue(h, k) = Worth(h, k)
  BY DEF GetValue, ValueNow, Entry, Worth, Halved
<1>6. \A k \in DOMAIN h.index_ : Same(h, Looked(h, k))
  BY <1>2, UpdateSame DEF Looked
<1> QED BY <1>1, <1>4, <1>5, <1>6

LEMMA UniqueKeysFinite ==
  ASSUME NEW file \in Seq(Runs)
  PROVE  IsFiniteSet(UniqueKeys(file))
<1> DEFINE B == [i \in 1 .. Len(file) |-> ToSet(Blocks(file[i]))]
           S == { B[i] : i \in 1 .. Len(file) }
<1>1. Len(file) \in Nat /\ DOMAIN file = 1 .. Len(file)
  OBVIOUS
<1>2. IsFiniteSet(1 .. Len(file))
  BY <1>1, FS_Interval
<1>3. B \in Surjection(1 .. Len(file), S)
  BY DEF Surjection
<1>4. IsFiniteSet(S)
  BY <1>2, <1>3, FS_Surjection
<1>5. ASSUME NEW i \in 1 .. Len(file) PROVE IsFiniteSet(B[i])
  <2>1. Blocks(file[i]) \in Seq(Int)
    <3>1. file[i] = <<file[i][1], file[i][2]>> /\ file[i][1] \in Int /\ file[i][2] \in Nat
      BY <1>1 DEF Runs
    <3> QED BY <3>1, BlocksAre
  <2> DEFINE s == Blocks(file[i])
  <2>2. ToSet(s) = { s[j] : j \in 1 .. Len(s) } /\ s \in [1 .. Len(s) -> Int] /\ Len(s) \in Nat
    BY <2>1 DEF ToSet
  <2> HIDE DEF s
  <2>3. s \in Surjection(1 .. Len(s), ToSet(s))
    BY <2>2 DEF Surjection
  <2>4. IsFiniteSet(1 .. Len(s))
    BY <2>2, FS_Interval
  <2> QED BY <2>3, <2>4, FS_Surjection DEF s
<1>6. \A T \in S : IsFiniteSet(T)
  BY <1>5
<1>7. UniqueKeys(file) = UNION S
  BY <1>1 DEF UniqueKeys
<1> HIDE DEF S
<1> QED BY <1>4, <1>6, <1>7, FS_UNION

LEMMA MaxOfOne ==
  ASSUME NEW a \in Nat
  PROVE  Max({1, a}) = IF a < 1 THEN 1 ELSE a
<1>1. Max({1, a}) = CHOOSE x \in {1, a} : \A y \in {1, a} : x >= y
  BY DEF Max
<1> QED BY <1>1

-----------------------------------------------------------------------------
(* What an access does to the pages that are resident *)

\* From the pages R to the pages S by an access of k
Demand(R, S, k) ==
  \/ k \in R /\ S = R
  \/ k \notin R /\ Cardinality(R) < buffer_size_ /\ S = R \cup {k}
  \/ /\ k \notin R /\ Cardinality(R) = buffer_size_
     /\ \E v \in R : S = (R \ {v}) \cup {k}

Fits(R) == R \subseteq Keys /\ Cardinality(R) <= buffer_size_

Counts(hit) ==
  /\ hit_count_' = IF hit THEN hit_count_ + 1 ELSE hit_count_
  /\ miss_count_' = IF hit THEN miss_count_ ELSE miss_count_ + 1

LEMMA KeysFinite ==
  ASSUME IsFiniteSet(Keys), NEW R \in SUBSET Keys
  PROVE  IsFiniteSet(R) /\ Cardinality(R) \in Nat
BY FS_Subset, FS_CardinalityType

LEMMA DemandFits ==
  ASSUME IsFiniteSet(Keys),
         NEW R, NEW S, NEW k \in Keys, buffer_size_ \in Nat, Fits(R),
         Demand(R, S, k)
  PROVE  S \subseteq Keys /\ Cardinality(S) <= buffer_size_
<1>1. IsFiniteSet(R) /\ Cardinality(R) \in Nat /\ R \subseteq Keys
      /\ Cardinality(R) <= buffer_size_
  BY KeysFinite DEF Fits
<1>2. CASE k \in R /\ S = R
  BY <1>1, <1>2
<1>3. CASE k \notin R /\ Cardinality(R) < buffer_size_ /\ S = R \cup {k}
  <2>1. Cardinality(S) = Cardinality(R) + 1
    BY <1>1, <1>3, FS_AddElement
  <2> QED BY <1>1, <1>3, <2>1
<1>4. ASSUME k \notin R, NEW v \in R, S = (R \ {v}) \cup {k}
      PROVE  S \subseteq Keys /\ Cardinality(S) <= buffer_size_
  <2>1. IsFiniteSet(R \ {v}) /\ Cardinality(R \ {v}) = Cardinality(R) - 1
    BY <1>1, <1>4, FS_RemoveElement
  <2>2. Cardinality(S) = Cardinality(R \ {v}) + 1
    BY <1>4, <2>1, FS_AddElement
  <2> QED BY <1>1, <1>4, <2>1, <2>2
<1> QED BY <1>2, <1>3, <1>4 DEF Demand

-----------------------------------------------------------------------------
(* The entries of a page *)

\* u maps pages to their entries; b is the set of them.
LFUItems == [freq : Nat, timestamp : Nat, key : Keys]

LFUOK(s) ==
  /\ s = [buffer_set_ |-> s.buffer_set_, u_map_ |-> s.u_map_]
  /\ s.u_map_ = [k \in DOMAIN s.u_map_ |-> s.u_map_[k]]
  /\ DOMAIN s.u_map_ \subseteq Keys
  /\ s.buffer_set_ = { s.u_map_[k] : k \in DOMAIN s.u_map_ }
  /\ \A k \in DOMAIN s.u_map_ :
       s.u_map_[k] \in LFUItems /\ s.u_map_[k].key = k
  /\ \A k, l \in DOMAIN s.u_map_ :
       s.u_map_[k].timestamp = s.u_map_[l].timestamp => k = l

\* The pages and the entries are as many.
LEMMA LFUCount ==
  ASSUME IsFiniteSet(Keys),
         NEW s, LFUOK(s)
  PROVE  Cardinality(s.buffer_set_) = Cardinality(DOMAIN s.u_map_)
<1> DEFINE D == DOMAIN s.u_map_
<1>1. s.u_map_ \in Injection(D, s.buffer_set_)
  <2>1. s.u_map_ \in [D -> s.buffer_set_]
    BY DEF LFUOK
  <2>2. \A k, l \in D : s.u_map_[k] = s.u_map_[l] => k = l
    BY DEF LFUOK
  <2> QED BY <2>1, <2>2 DEF Injection, IsInjective
<1>2. s.u_map_ \in Surjection(D, s.buffer_set_)
  BY DEF Surjection, LFUOK
<1>3. IsFiniteSet(D)
  BY KeysFinite DEF LFUOK
<1> QED BY <1>1, <1>2, <1>3, FS_Surjection

\* A finite set of integers has a least element.
LEMMA MinOfFinite ==
  ASSUME NEW S \in SUBSET Int, IsFiniteSet(S), S # {}
  PROVE  Min(S) \in S /\ \A y \in S : Min(S) <= y
<1>1. PICK N \in Nat : ExistsSurjection(1 .. N, S)
  BY FS_NatSurjection
<1>2. PICK f \in [1 .. N -> S] : \A y \in S : \E i \in 1 .. N : f[i] = y
  BY <1>1 DEF ExistsSurjection, Surjection
<1>0. \A i \in 1 .. N : f[i] \in Int
  <2>1. \A i \in 1 .. N : f[i] \in S
    BY <1>2
  <2> QED BY <2>1
<1> DEFINE Least(n) == \E i \in 1 .. n + 1 : \A j \in 1 .. n + 1 : f[i] <= f[j]
           T == { n \in Nat : n + 1 <= N => Least(n) }
<1>3. 0 \in T
  <2>1. ASSUME 1 <= N PROVE Least(0)
    <3>1. 1 .. 0 + 1 = {1} /\ f[1] \in Int
      BY <2>1, <1>0
    <3> QED BY <3>1
  <2> HIDE DEF Least
  <2> QED BY <2>1
<1>4. ASSUME NEW n \in Nat, n \in T PROVE n + 1 \in T
  <2>1. ASSUME (n + 1) + 1 <= N PROVE Least(n + 1)
    <3>1. PICK i \in 1 .. n + 1 : \A j \in 1 .. n + 1 : f[i] <= f[j]
      BY <1>4, <2>1
    <3>2. /\ (n + 1) + 1 \in 1 .. N /\ i \in 1 .. N
          /\ 1 .. (n + 1) + 1 = (1 .. n + 1) \cup {(n + 1) + 1}
      BY <2>1, <3>1
    <3>3. f[i] \in Int /\ f[(n + 1) + 1] \in Int
          /\ \A j \in 1 .. n + 1 : f[j] \in Int
      BY <1>0, <2>1, <3>2
    <3>4. CASE f[i] <= f[(n + 1) + 1]
      BY <3>1, <3>2, <3>4
    <3>5. CASE ~(f[i] <= f[(n + 1) + 1])
      <4>1. \A j \in 1 .. n + 1 : f[(n + 1) + 1] <= f[j]
        BY <3>1, <3>3, <3>5
      <4> QED BY <3>2, <3>3, <4>1
    <3> QED BY <3>4, <3>5
  <2> HIDE DEF Least
  <2> QED BY <2>1
<1>5. Nat \subseteq T
  <2> HIDE DEF T
  <2> QED BY <1>3, <1>4, AllNaturals
<1>6. N # 0
  <2>1. PICK y \in S : TRUE
    OBVIOUS
  <2>2. PICK i \in 1 .. N : f[i] = y
    BY <1>2
  <2> QED BY <2>2
<1>7. Least(N - 1)
  <2> HIDE DEF Least
  <2>1. N - 1 \in Nat /\ (N - 1) + 1 <= N
    BY <1>6
  <2> QED BY <1>5, <2>1
<1>8. PICK i \in 1 .. N : \A j \in 1 .. N : f[i] <= f[j]
  BY <1>6, <1>7
<1>9. f[i] \in S /\ \A y \in S : f[i] <= y
  BY <1>2, <1>8
<1> QED BY <1>9 DEF Min

-----------------------------------------------------------------------------
(* LinkList with its table *)

\* The list l has the nodes ns with the keys q, and its table finds them.
Tabled(l, ns, q) ==
  /\ Chain(l, ns)
  /\ q \in Seq(Keys) /\ Len(q) = Len(ns)
  /\ \A i \in 1 .. Len(q) : l.node[ns[i]].key = q[i]
  /\ \A i, j \in 1 .. Len(q) : q[i] = q[j] => i = j
  /\ DOMAIN l.u_map = ToSet(q)
  /\ \A i \in 1 .. Len(q) : l.u_map[q[i]] = ns[i]

LEMMA KeyTableFacts ==
  /\ \A f \in KeyTables, k \in Int, n \in Nat : Put(f, k, n) \in KeyTables
  /\ \A f \in KeyTables, k \in Int : Drop(f, k) \in KeyTables
<1>1. ASSUME NEW f \in KeyTables, NEW k \in Int, NEW n \in Nat
      PROVE  Put(f, k, n) \in KeyTables
  <2>1. PICK S \in SUBSET Int : f \in [S -> Nat]
    BY DEF KeyTables
  <2>2. Put(f, k, n) \in [S \cup {k} -> Nat]
    BY <2>1 DEF Put
  <2>3. S \cup {k} \in SUBSET Int
    OBVIOUS
  <2> QED BY <2>2, <2>3 DEF KeyTables
<1>2. ASSUME NEW f \in KeyTables, NEW k \in Int PROVE Drop(f, k) \in KeyTables
  <2>1. PICK S \in SUBSET Int : f \in [S -> Nat]
    BY DEF KeyTables
  <2>2. Drop(f, k) \in [S \ {k} -> Nat]
    BY <2>1 DEF Drop
  <2>3. S \ {k} \in SUBSET Int
    OBVIOUS
  <2> QED BY <2>2, <2>3 DEF KeyTables
<1> QED BY <1>1, <1>2

LEMMA TabledNew == Tabled(NewList, <<>>, <<>>)
<1>1. <<>> \in Seq(Keys) /\ Len(<<>>) = 0 /\ ToSet(<<>>) = {}
  BY DEF ToSet
<1>2. DOMAIN NewList.u_map = {}
  BY DEF NewList, NoEntries
<1> QED BY <1>1, <1>2, NewChain DEF Tabled

LEMMA TabledLinked ==
  ASSUME NEW l, NEW ns, NEW q, Tabled(l, ns, q)
  PROVE  Linked(l) /\ Sequence(l) = q /\ l.size = Len(q) /\ ~l.ub
<1>1. Chain(l, ns) /\ Len(q) = Len(ns) /\ q \in Seq(Keys) /\ Len(q) \in Nat
      /\ l.u_map \in KeyTables
  BY DEF Tabled, Chain, Ends, ListStates
<1>2. Chained(l) /\ Sequence(l) = KeysOf(l, ns)
  BY <1>1, ChainIs
<1>3. KeysOf(l, ns) = q
  <2>1. q = [i \in 1 .. Len(q) |-> q[i]]
    BY <1>1
  <2> QED BY <1>1, <2>1 DEF KeysOf, Tabled
<1>4. \A k \in ToSet(q) :
        l.u_map[k] = CHOOSE n \in DOMAIN l.node : l.node[n].key = k
  <2> SUFFICES ASSUME NEW k \in ToSet(q)
               PROVE  l.u_map[k] = CHOOSE n \in DOMAIN l.node : l.node[n].key = k
    OBVIOUS
  <2>1. PICK i \in 1 .. Len(q) : k = q[i]
    BY <1>1 DEF ToSet
  <2>2. ns[i] \in DOMAIN l.node /\ l.node[ns[i]].key = k /\ l.u_map[k] = ns[i]
    BY <1>1, <2>1, ChainNodes DEF Tabled
  <2>3. ASSUME NEW n \in DOMAIN l.node, l.node[n].key = k PROVE n = ns[i]
    <3>1. PICK j \in 1 .. Len(q) : n = ns[j]
      BY <1>1 DEF Chain, Elements
    <3>2. q[j] = q[i]
      BY <2>1, <2>3, <3>1 DEF Tabled
    <3> QED BY <3>1, <3>2 DEF Tabled
  <2> QED BY <2>2, <2>3
<1>5. l.u_map = [k \in ToSet(q) |->
                   CHOOSE n \in DOMAIN l.node : l.node[n].key = k]
  <2>1. l.u_map = [k \in ToSet(q) |-> l.u_map[k]]
    BY <1>1 DEF KeyTables, Tabled
  <2>2. [k \in ToSet(q) |-> l.u_map[k]]
          = [k \in ToSet(q) |-> CHOOSE n \in DOMAIN l.node : l.node[n].key = k]
    BY <1>4
  <2> QED BY <2>1, <2>2
<1>6. IsInjective(q)
  BY <1>1 DEF Tabled, IsInjective
<1> QED BY <1>1, <1>2, <1>3, <1>5, <1>6 DEF Linked, Chain, Ends

-----------------------------------------------------------------------------
(* LinkList with places, as OPT keeps them *)

\* The greatest of the places of a page
LEMMA MaxOfPlaces ==
  ASSUME NEW N \in Nat, NEW S \in SUBSET (0 .. N), S # {}
  PROVE  Max(S) \in S /\ Max(S) \in Nat /\ \A y \in S : y <= Max(S)
<1> DEFINE T == { N - y : y \in S }
<1>0. \A y \in S : y \in 0 .. N /\ N - y \in Nat /\ y \in Nat
  OBVIOUS
<1>1. T \subseteq Nat /\ T # {}
  BY <1>0
<1>2. PICK t \in T : \A u \in T : t <= u
  BY <1>1, LeastNatural
<1>3. PICK x \in S : t = N - x
  BY <1>2
<1>4. \A y \in S : y <= x
  <2> SUFFICES ASSUME NEW y \in S PROVE y <= x
    OBVIOUS
  <2>1. N - x <= N - y /\ x \in Int /\ y \in Int
    BY <1>2, <1>3
  <2> QED BY <2>1
<1>5. \E z \in S : \A y \in S : z >= y
  BY <1>3, <1>4
<1>6. Max(S) \in S /\ \A y \in S : Max(S) >= y
  BY <1>5 DEF Max
<1>7. Max(S) \in Nat /\ \A y \in S : y <= Max(S)
  <2> DEFINE z == Max(S)
  <2>1. z \in Nat
    BY <1>0, <1>6
  <2> HIDE DEF z
  <2>2. \A y \in S : z >= y /\ y \in Nat
    BY <1>0, <1>6 DEF z
  <2>3. \A y \in S : y <= z
    BY <2>1, <2>2
  <2> QED BY <2>1, <2>3 DEF z
<1> QED BY <1>6, <1>7

\* The list l has the places of S in their order.
ComingBy(l, S, ns) ==
  /\ Chain(l, ns)
  /\ \A i, j \in 1 .. Len(ns) : i < j => l.node[ns[i]].key < l.node[ns[j]].key
  /\ S = { l.node[ns[i]].key : i \in 1 .. Len(ns) }

Coming(l, S) == \E ns : ComingBy(l, S, ns)

LEMMA ComingNew == Coming(NewList, {})
<1>1. Chain(NewList, <<>>) /\ Len(<<>>) = 0
  BY NewChain
<1>2. ComingBy(NewList, {}, <<>>)
  BY <1>1 DEF ComingBy
<1> QED BY <1>2 DEF Coming

LEMMA ComingBack ==
  ASSUME NEW l, NEW S, Coming(l, S), NEW p \in Int, \A s \in S : s < p
  PROVE  Coming(push_back(l, p), S \cup {p})
<1> DEFINE n == l.made + 1
           t == push_back(l, p)
<1>1. PICK ns : ComingBy(l, S, ns)
  BY DEF Coming
<1> DEFINE ms == Append(ns, n)
<1>2. Chain(l, ns) /\ Len(ns) \in Nat /\ ns \in Seq(Nat)
      /\ \A i \in 1 .. Len(ns) : ns[i] \in DOMAIN l.node
  BY <1>1, ChainNodes DEF ComingBy, Chain
<1>3. /\ Chain(t, ms) /\ t.node[n].key = p
      /\ \A x \in DOMAIN l.node : t.node[x].key = l.node[x].key
  BY <1>2, ChainBack
<1> HIDE DEF n, t
<1>4. /\ Len(ms) = Len(ns) + 1 /\ ms[Len(ns) + 1] = n
      /\ \A i \in 1 .. Len(ns) : ms[i] = ns[i]
  BY <1>2
<1> HIDE DEF ms
<1>5. /\ \A i \in 1 .. Len(ns) : t.node[ms[i]].key = l.node[ns[i]].key
      /\ t.node[ms[Len(ns) + 1]].key = p
  BY <1>2, <1>3, <1>4
<1>6. \A i \in 1 .. Len(ms) : i \in 1 .. Len(ns) \/ i = Len(ns) + 1
  BY <1>2, <1>4
<1>7. S \cup {p} = { t.node[ms[i]].key : i \in 1 .. Len(ms) }
  <2> DEFINE T == { t.node[ms[i]].key : i \in 1 .. Len(ms) }
  <2>1. ASSUME NEW s \in S PROVE s \in T
    <3>1. PICK i \in 1 .. Len(ns) : s = l.node[ns[i]].key
      BY <1>1 DEF ComingBy
    <3>2. i \in 1 .. Len(ms)
      BY <1>2, <1>4
    <3> QED BY <1>5, <3>1, <3>2
  <2>2. p \in T
    <3>1. Len(ns) + 1 \in 1 .. Len(ms)
      BY <1>2, <1>4
    <3> QED BY <1>5, <3>1
  <2>3. ASSUME NEW s \in T PROVE s \in S \cup {p}
    <3>1. PICK i \in 1 .. Len(ms) : s = t.node[ms[i]].key
      OBVIOUS
    <3> QED BY <1>1, <1>5, <1>6, <3>1 DEF ComingBy
  <2> QED BY <2>1, <2>2, <2>3
<1>8. ASSUME NEW i \in 1 .. Len(ms), NEW j \in 1 .. Len(ms), i < j
      PROVE  t.node[ms[i]].key < t.node[ms[j]].key
  <2>1. i \in 1 .. Len(ns)
    BY <1>2, <1>4, <1>8
  <2>2. CASE j \in 1 .. Len(ns)
    BY <1>1, <1>5, <1>8, <2>1, <2>2 DEF ComingBy
  <2>3. CASE j = Len(ns) + 1
    <3>1. l.node[ns[i]].key \in S
      BY <1>1, <2>1 DEF ComingBy
    <3> QED BY <1>5, <2>1, <2>3, <3>1
  <2> QED BY <1>6, <2>2, <2>3
<1>9. ComingBy(t, S \cup {p}, ms)
  BY <1>3, <1>7, <1>8 DEF ComingBy
<1> QED BY <1>9 DEF Coming, t

\* The first of them
LEMMA ComingFirst ==
  ASSUME NEW l, NEW S, Coming(l, S)
  PROVE  /\ S \subseteq Int
         /\ l.size = 0 <=> S = {}
         /\ l.size # 0 => /\ l.node[l.head].key \in S
                          /\ \A s \in S : l.node[l.head].key <= s
<1>1. PICK ns : ComingBy(l, S, ns)
  BY DEF Coming
<1>2. Chain(l, ns) /\ Len(ns) \in Nat /\ l.size = Len(ns)
  BY <1>1, ChainNodes DEF ComingBy, Chain, Ends
<1>3. S \subseteq Int
  <2>1. \A i \in 1 .. Len(ns) : l.node[ns[i]].key \in Int
    BY <1>2 DEF Chain, NodeIs, ListNodes
  <2> QED BY <1>1, <2>1 DEF ComingBy
<1>4. ASSUME l.size # 0
      PROVE  /\ l.node[l.head].key \in S
             /\ \A s \in S : l.node[l.head].key <= s
  <2>1. l.head = ns[1] /\ 1 \in 1 .. Len(ns)
    BY <1>2, <1>4, ChainEnds
  <2>2. l.node[l.head].key \in S
    BY <1>1, <2>1 DEF ComingBy
  <2>3. ASSUME NEW s \in S PROVE l.node[l.head].key <= s
    <3>1. PICK i \in 1 .. Len(ns) : s = l.node[ns[i]].key
      BY <1>1 DEF ComingBy
    <3>2. CASE i = 1
      BY <1>3, <2>1, <2>2, <3>1, <3>2
    <3>3. CASE i # 1
      <4>1. 1 < i
        BY <1>2, <3>3
      <4>2. l.node[l.head].key < s
        BY <1>1, <2>1, <3>1, <4>1 DEF ComingBy
      <4>3. l.node[l.head].key \in Int /\ s \in Int
        BY <1>3, <2>2
      <4> QED BY <4>2, <4>3
    <3> QED BY <3>2, <3>3
  <2> QED BY <2>2, <2>3
<1>5. l.size = 0 <=> S = {}
  <2>1. ASSUME l.size = 0 PROVE S = {}
    <3>1. 1 .. Len(ns) = {}
      BY <1>2, <2>1
    <3> QED BY <1>1, <3>1 DEF ComingBy
  <2> QED BY <1>4, <2>1
<1> QED BY <1>3, <1>4, <1>5

LEMMA ComingPop ==
  ASSUME NEW l, NEW S, Coming(l, S), S # {}
  PROVE  Coming(pop_front(l), S \ {l.node[l.head].key})
<1> DEFINE t == pop_front(l)
           p == l.node[l.head].key
<1>1. PICK ns : ComingBy(l, S, ns)
  BY DEF Coming
<1> DEFINE ms == RemoveAt(ns, 1)
<1>2. Chain(l, ns) /\ Len(ns) \in Nat /\ ns \in Seq(Nat) /\ l.size = Len(ns)
  BY <1>1, ChainNodes DEF ComingBy, Chain, Ends
<1>3. l.head = ns[1] /\ 1 \in 1 .. Len(ns)
  BY <1>2, ComingFirst, ChainEnds
<1>4. /\ Chain(t, ms)
      /\ \A x \in DOMAIN t.node : t.node[x].key = l.node[x].key
  BY <1>2, <1>3, ChainRemove DEF pop_front
<1>5. /\ Len(ms) = Len(ns) - 1
      /\ \A i \in 1 .. Len(ns) - 1 : ms[i] = ns[i + 1]
  <2>1. /\ Len(ms) = Len(ns) - 1
        /\ \A i \in 1 .. Len(ns) - 1 : ms[i] = IF i < 1 THEN ns[i] ELSE ns[i + 1]
    BY <1>2, <1>3, RemoveAtElements
  <2> QED BY <1>2, <2>1
<1> HIDE DEF t, ms
<1>6. \A i \in 1 .. Len(ms) : /\ i + 1 \in 1 .. Len(ns) /\ 1 < i + 1
                              /\ t.node[ms[i]].key = l.node[ns[i + 1]].key
  <2>1. \A i \in 1 .. Len(ms) : i + 1 \in 1 .. Len(ns) /\ 1 < i + 1 /\ ms[i] = ns[i + 1]
    BY <1>2, <1>5
  <2>2. \A i \in 1 .. Len(ms) : ms[i] \in DOMAIN t.node
    BY <1>4, ChainNodes
  <2> QED BY <1>4, <2>1, <2>2
<1>7. S \ {p} = { t.node[ms[i]].key : i \in 1 .. Len(ms) }
  <2> DEFINE T == { t.node[ms[i]].key : i \in 1 .. Len(ms) }
  <2>0. S \subseteq Int /\ p \in Int
    BY <1>1, <1>3, ComingFirst DEF ComingBy
  <2>1. ASSUME NEW s \in S \ {p} PROVE s \in T
    <3>1. PICK i \in 1 .. Len(ns) : s = l.node[ns[i]].key
      BY <1>1 DEF ComingBy
    <3>2. i # 1
      BY <1>3, <3>1
    <3>3. i - 1 \in 1 .. Len(ms) /\ (i - 1) + 1 = i
      BY <1>2, <1>5, <3>2
    <3> QED BY <1>6, <3>1, <3>3
  <2>2. ASSUME NEW s \in T PROVE s \in S \ {p}
    <3>1. PICK i \in 1 .. Len(ms) : s = l.node[ns[i + 1]].key
      BY <1>6
    <3>2. s \in S
      BY <1>1, <1>6, <3>1 DEF ComingBy
    <3>3. p < s
      BY <1>1, <1>3, <1>6, <3>1 DEF ComingBy
    <3> QED BY <2>0, <3>2, <3>3
  <2> QED BY <2>1, <2>2
<1>8. ASSUME NEW i \in 1 .. Len(ms), NEW j \in 1 .. Len(ms), i < j
      PROVE  t.node[ms[i]].key < t.node[ms[j]].key
  <2>1. i + 1 < j + 1
    BY <1>2, <1>5, <1>8
  <2> QED BY <1>1, <1>6, <2>1 DEF ComingBy
<1>9. ComingBy(t, S \ {p}, ms)
  BY <1>4, <1>7, <1>8 DEF ComingBy
<1> QED BY <1>9 DEF Coming, t

-----------------------------------------------------------------------------
(* The trace ahead *)

\* The accesses of a page from place t on, in the trace al
PlacesIn(al, k, t) == { i \in t .. Len(al) - 1 : al[i + 1] = k }

LeastOf(f, S) == f \in S /\ \A p \in S : f <= p

\* Every page of D that is accessed again has an entry of its own.
Entered(al, s, t, D) ==
  \A k \in D : PlacesIn(al, k, t) # {} => /\ s.u_map_[k] \in s.buffer_set_
                                          /\ s.u_map_[k].key = k

EnteredBut(al, s, t, k) == Entered(al, s, t, DOMAIN s.u_map_ \ {k})

\* Two entries of the same access are of the same page.
LEMMA SamePlace ==
  ASSUME NEW al, NEW k, NEW l, NEW t, NEW f,
         f \in PlacesIn(al, k, t), f \in PlacesIn(al, l, t)
  PROVE  k = l
BY DEF PlacesIn

\* An access takes its place off the list of its page, and no other.
LEMMA PlacesNext ==
  ASSUME NEW al \in Seq(Keys), NEW t \in Nat, t < Len(al), NEW k, k = al[t + 1]
  PROVE  /\ t \in PlacesIn(al, k, t)
         /\ PlacesIn(al, k, t + 1) = PlacesIn(al, k, t) \ {t}
         /\ LeastOf(t, PlacesIn(al, k, t))
         /\ \A l : l # k => PlacesIn(al, l, t + 1) = PlacesIn(al, l, t)
<1>1. Len(al) \in Nat /\ t .. Len(al) - 1 = {t} \cup (t + 1 .. Len(al) - 1)
      /\ t \notin t + 1 .. Len(al) - 1 /\ \A i \in t + 1 .. Len(al) - 1 : t <= i
  OBVIOUS
<1>2. t \in PlacesIn(al, k, t) /\ PlacesIn(al, k, t + 1) = PlacesIn(al, k, t) \ {t}
  BY <1>1 DEF PlacesIn
<1>3. LeastOf(t, PlacesIn(al, k, t))
  BY <1>1, <1>2 DEF LeastOf, PlacesIn
<1>4. ASSUME NEW l, l # k PROVE PlacesIn(al, l, t + 1) = PlacesIn(al, l, t)
  BY <1>1, <1>4 DEF PlacesIn
<1> QED BY <1>2, <1>3, <1>4

\* The pages accessed at the places from s to t
Reached(al, s, t) == { p \in Keys : \E i \in PlacesIn(al, p, s) : i <= t }

LEMMA SizeAtMost ==
  ASSUME IsFiniteSet(Keys),
         NEW X, NEW Y \in SUBSET Keys, X \subseteq Y
  PROVE  Cardinality(X) <= Cardinality(Y) /\ Cardinality(X) \in Nat
         /\ Cardinality(Y) \in Nat
<1>1. IsFiniteSet(Y) /\ Cardinality(Y) \in Nat
  BY KeysFinite
<1> QED BY <1>1, FS_Subset, FS_CardinalityType

LEMMA SizeWith ==
  ASSUME IsFiniteSet(Keys),
         NEW X \in SUBSET Keys, NEW k \in Keys
  PROVE  /\ Cardinality(X \cup {k})
              = IF k \in X THEN Cardinality(X) ELSE Cardinality(X) + 1
         /\ Cardinality(X \ {k})
              = IF k \in X THEN Cardinality(X) - 1 ELSE Cardinality(X)
         /\ Cardinality(X \cap {k}) = IF k \in X THEN 1 ELSE 0
         /\ Cardinality(X) \in Nat
<1>1. IsFiniteSet(X) /\ Cardinality(X) \in Nat
  BY KeysFinite
<1>2. Cardinality(X \cup {k})
        = IF k \in X THEN Cardinality(X) ELSE Cardinality(X) + 1
  BY <1>1, FS_AddElement
<1>3. Cardinality(X \ {k})
        = IF k \in X THEN Cardinality(X) - 1 ELSE Cardinality(X)
  BY <1>1, FS_RemoveElement
<1>4. Cardinality(X \cap {k}) = IF k \in X THEN 1 ELSE 0
  <2>1. CASE k \in X
    <3>1. X \cap {k} = {k} /\ Cardinality({k}) = 1
      BY <2>1, FS_Singleton
    <3> QED BY <2>1, <3>1
  <2>2. CASE k \notin X
    <3>1. X \cap {k} = {} /\ Cardinality({}) = 0
      BY <2>2, FS_EmptySet
    <3> QED BY <2>2, <3>1
  <2> QED BY <2>1, <2>2
<1> QED BY <1>1, <1>2, <1>3, <1>4

One0(b) == IF b THEN 1 ELSE 0

\* What an access of k takes from the pages R of a cache that are in V or k,
\* but for the access itself, is at least what it leaves.
LEMMA DemandLeaves ==
  ASSUME IsFiniteSet(Keys),
         NEW R, NEW S, NEW k \in Keys, NEW V \in SUBSET Keys,
         buffer_size_ \in Nat, Fits(R), Demand(R, S, k)
  PROVE  One0(k \in R) + Cardinality(S \cap V)
           <= Cardinality(R \cap (V \cup {k})) + One0(k \in V)
<1> DEFINE U == V \cup {k}
           x == Cardinality(S \cap V)
           y == Cardinality(R \cap U)
<1>1. R \subseteq Keys /\ S \subseteq Keys /\ U \subseteq Keys
  BY DemandFits DEF Fits
<1>2. x \in Nat /\ y \in Nat
  BY <1>1, SizeAtMost
<1> SUFFICES One0(k \in R) + x <= y + One0(k \in V)
  OBVIOUS
<1>3. CASE k \in R
  <2>1. S = R /\ R \cap U = (R \cap V) \cup {k} /\ R \cap V \subseteq Keys
    BY <1>1, <1>3 DEF Demand
  <2> DEFINE X == R \cap V
  <2>2. Cardinality(X \cup {k}) = IF k \in X THEN Cardinality(X) ELSE Cardinality(X) + 1
    BY <2>1, SizeWith
  <2>3. k \in X <=> k \in V
    BY <1>3
  <2>4. x = Cardinality(X) /\ y = Cardinality(X \cup {k})
    BY <2>1
  <2> HIDE DEF x, y
  <2> HIDE DEF X
  <2> QED BY <1>2, <1>3, <2>2, <2>3, <2>4 DEF One0
<1>4. CASE k \notin R
  <2>1. S \subseteq R \cup {k}
    BY <1>4 DEF Demand
  <2>2. CASE k \in V
    <3>1. S \cap V \subseteq (R \cap U) \cup {k} /\ (R \cap U) \cup {k} \subseteq Keys
      BY <1>1, <2>1
    <3>2. x <= Cardinality((R \cap U) \cup {k})
      BY <3>1, SizeAtMost
    <3>3. Cardinality((R \cap U) \cup {k}) = y + 1
      BY <1>1, <1>4, SizeWith
    <3> HIDE DEF x, y
    <3> QED BY <1>2, <1>4, <2>2, <3>2, <3>3 DEF One0
  <2>3. CASE k \notin V
    <3>1. S \cap V \subseteq R \cap U /\ R \cap U \subseteq Keys
      BY <1>1, <2>1, <2>3
    <3>2. x <= y
      BY <3>1, SizeAtMost
    <3> HIDE DEF x, y
    <3> QED BY <1>2, <1>4, <2>3, <3>2 DEF One0
  <2> QED BY <2>2, <2>3
<1> QED BY <1>3, <1>4

\* OPT takes no less from its pages D than it leaves, as long as the page that
\* leaves is not in V.
LEMMA MoveLeaves ==
  ASSUME IsFiniteSet(Keys),
         NEW D \in SUBSET Keys, NEW E \in SUBSET Keys, NEW k \in Keys,
         NEW V \in SUBSET Keys,
         k \in D => E = D,
         (D \cap V) \cup {k} \subseteq E
  PROVE  Cardinality(D \cap (V \cup {k})) + One0(k \in V)
           <= One0(k \in D) + Cardinality(E \cap V)
<1> DEFINE U == V \cup {k}
           x == Cardinality(E \cap V)
           y == Cardinality(D \cap U)
<1>2. x \in Nat /\ y \in Nat
  BY SizeAtMost
<1> SUFFICES y + One0(k \in V) <= One0(k \in D) + x
  OBVIOUS
<1>3. CASE k \in D
  <2>1. E = D /\ D \cap U = (D \cap V) \cup {k}
    BY <1>3
  <2> DEFINE X == D \cap V
  <2>2. Cardinality(X \cup {k}) = IF k \in X THEN Cardinality(X) ELSE Cardinality(X) + 1
    BY <2>1, SizeWith
  <2>3. k \in X <=> k \in V
    BY <1>3
  <2>4. x = Cardinality(X) /\ y = Cardinality(X \cup {k})
    BY <2>1
  <2> HIDE DEF x, y
  <2> HIDE DEF X
  <2> QED BY <1>2, <1>3, <2>2, <2>3, <2>4 DEF One0
<1>4. CASE k \notin D
  <2>1. D \cap U = D \cap V
    BY <1>4
  <2>2. CASE k \in V
    <3>1. (D \cap V) \cup {k} \subseteq E \cap V
      BY <2>2
    <3>2. Cardinality((D \cap V) \cup {k}) <= x
      BY <3>1, SizeAtMost
    <3>3. Cardinality((D \cap V) \cup {k}) = y + 1
      BY <1>4, <2>1, SizeWith
    <3> HIDE DEF x, y
    <3> QED BY <1>2, <1>4, <2>2, <3>2, <3>3 DEF One0
  <2>3. CASE k \notin V
    <3>1. D \cap U \subseteq E \cap V
      BY <2>1
    <3>2. y <= x
      BY <3>1, SizeAtMost
    <3> HIDE DEF x, y
    <3> QED BY <1>2, <1>4, <2>3, <3>2 DEF One0
  <2> QED BY <2>2, <2>3
<1> QED BY <1>3, <1>4

\* If a full buffer's worth of OPT's pages is in V, what one of them leaves
\* is as much as another cache of that size can have there.
LEMMA FullLeaves ==
  ASSUME IsFiniteSet(Keys),
         NEW D \in SUBSET Keys, NEW E, NEW S \in SUBSET Keys, NEW k \in Keys,
         NEW x \in Keys, NEW V \in SUBSET Keys, NEW size \in Nat,
         k \notin D, E = (D \ {x}) \cup {k}, x # k,
         size <= Cardinality(D \cap V),
         k \in S, Cardinality(S) <= size
  PROVE  Cardinality(S \cap V) <= Cardinality(E \cap V)
<1> DEFINE W == (D \cap V) \ {x}
           d == Cardinality(D \cap V)
           w == Cardinality(W)
           a == Cardinality(S \cap V)
           b == Cardinality(E \cap V)
           s == Cardinality(S)
<1>1. d \in Nat /\ w \in Nat /\ a \in Nat /\ b \in Nat /\ s \in Nat
  BY SizeAtMost
<1> SUFFICES a <= b
  OBVIOUS
<1>2. d - 1 <= w
  <2>1. w = IF x \in D \cap V THEN d - 1 ELSE d
    BY SizeWith
  <2> HIDE DEF w, d
  <2> QED BY <1>1, <2>1
<1>3. CASE k \in V
  <2>1. W \cup {k} \subseteq E \cap V /\ k \notin W /\ W \subseteq Keys /\ E \cap V \subseteq Keys
    BY <1>3
  <2> HIDE DEF W
  <2>2. Cardinality(W \cup {k}) = w + 1 /\ Cardinality(W \cup {k}) <= b
    BY <2>1, SizeWith, SizeAtMost
  <2>3. a <= s
    BY SizeAtMost
  <2> HIDE DEF w, d, a, b, s
  <2>4. s <= size /\ size <= d
    BY DEF s, d
  <2> QED BY <1>1, <1>2, <2>2, <2>3, <2>4
<1>4. CASE k \notin V
  <2>1. W \subseteq E \cap V /\ E \cap V \subseteq Keys /\ S \cap V \subseteq S \ {k}
    BY <1>4
  <2>2. w <= b
    BY <2>1, SizeAtMost
  <2>3. a <= Cardinality(S \ {k}) /\ Cardinality(S \ {k}) = s - 1
    BY <2>1, SizeAtMost, SizeWith
  <2> HIDE DEF w, d, a, b, s
  <2>4. s <= size /\ size <= d
    BY DEF s, d
  <2> QED BY <1>1, <1>2, <2>2, <2>3, <2>4
<1> QED BY <1>3, <1>4

\* The places of this access on are those of the next one on, and its own.
LEMMA ReachedNext ==
  ASSUME NEW al \in Seq(Keys), NEW s \in Nat, s < Len(al), NEW k, k = al[s + 1],
         NEW t \in Nat
  PROVE  /\ t >= s => Reached(al, s, t) = Reached(al, s + 1, t) \cup {k}
         /\ t < s + 1 => Reached(al, s + 1, t) = {}
         /\ Reached(al, s, s) = {k}
<1>1. /\ s \in PlacesIn(al, k, s)
      /\ PlacesIn(al, k, s + 1) = PlacesIn(al, k, s) \ {s}
      /\ \A l : l # k => PlacesIn(al, l, s + 1) = PlacesIn(al, l, s)
  BY PlacesNext
<1>2. k \in Keys /\ Len(al) \in Nat
  OBVIOUS
<1>3. ASSUME NEW p \in Keys, NEW i \in PlacesIn(al, p, s + 1)
      PROVE  i \in Nat /\ i >= s + 1
  BY <1>2 DEF PlacesIn
<1>4. ASSUME NEW u \in Nat, u < s + 1 PROVE Reached(al, s + 1, u) = {}
  <2>1. ASSUME NEW p \in Reached(al, s + 1, u) PROVE FALSE
    <3>1. PICK i \in PlacesIn(al, p, s + 1) : i <= u
      BY <2>1 DEF Reached
    <3>2. p \in Keys
      BY <2>1 DEF Reached
    <3>3. i \in Nat /\ i >= s + 1
      BY <1>3, <3>2
    <3> QED BY <1>4, <3>1, <3>3
  <2> QED BY <2>1
<1>5. ASSUME NEW u \in Nat, u >= s
      PROVE  Reached(al, s, u) = Reached(al, s + 1, u) \cup {k}
  <2>1. k \in Reached(al, s, u)
    BY <1>1, <1>2, <1>5 DEF Reached
  <2>2. ASSUME NEW p \in Keys, p # k
        PROVE  p \in Reached(al, s, u) <=> p \in Reached(al, s + 1, u)
    BY <1>1, <2>2 DEF Reached
  <2>3. Reached(al, s, u) \subseteq Keys /\ Reached(al, s + 1, u) \subseteq Keys
    BY DEF Reached
  <2> QED BY <1>2, <2>1, <2>2, <2>3
<1>6. Reached(al, s, s) = {k}
  <2>1. s >= s /\ s < s + 1
    OBVIOUS
  <2> QED BY <1>4, <1>5, <2>1
<1> QED BY <1>4, <1>5, <1>6

-----------------------------------------------------------------------------
(* What scores become *)

LEMMA PowersHalved ==
  ASSUME NEW M \in Nat, NEW d \in Nat, d + 1 <= M
  PROVE  Halved(2^M, d) = Halved(2^M, d + 1) + Halved(2^M, d + 1)
<1> DEFINE v == 2^M
           T == { i \in Nat : i <= M => Halved(v, i) = 2^(M - i) }
<1>1. v \in Nat
  BY PowersOfTwo
<1>2. \A i \in Nat : i + 1 <= M =>
        2^(M - i) = 2^(M - (i + 1)) + 2^(M - (i + 1)) /\ 2^(M - (i + 1)) \in Nat
  <2>1. ASSUME NEW i \in Nat, i + 1 <= M
        PROVE  2^(M - i) = 2^(M - (i + 1)) + 2^(M - (i + 1)) /\ 2^(M - (i + 1)) \in Nat
    <3> DEFINE n == M - (i + 1)
    <3>1. n \in Nat /\ M - i = n + 1
      BY <2>1
    <3>2. 2^n \in Nat /\ 2^(n + 1) = 2^n + 2^n
      BY <3>1, PowersOfTwo
    <3> QED BY <3>1, <3>2
  <2> QED BY <2>1
<1>3. 0 \in T
  <2>1. Halved(v, 0) = v /\ M - 0 = M
    BY <1>1, HalvedIs
  <2> QED BY <2>1
<1>4. ASSUME NEW i \in Nat, i \in T PROVE i + 1 \in T
  <2> SUFFICES ASSUME i + 1 <= M PROVE Halved(v, i + 1) = 2^(M - (i + 1))
    OBVIOUS
  <2> DEFINE p == 2^(M - (i + 1))
  <2>1. Halved(v, i) = p + p /\ p \in Nat
    <3>1. i <= M
      OBVIOUS
    <3> QED BY <1>2, <1>4, <3>1
  <2>2. Halved(v, i + 1) = Halved(v, i) \div 2
    BY <1>1, HalvedIs
  <2> HIDE DEF v, p
  <2>3. (p + p) \div 2 = p
    BY <2>1
  <2>4. Halved(v, i + 1) = p
    BY <2>1, <2>2, <2>3
  <2> QED BY <2>4 DEF p
<1> HIDE DEF T
<1>5. Nat \subseteq T
  BY <1>3, <1>4, AllNaturals
<1>6. d <= M /\ d + 1 \in Nat
  OBVIOUS
<1>7. Halved(v, d) = 2^(M - d) /\ Halved(v, d + 1) = 2^(M - (d + 1))
  BY <1>5, <1>6 DEF T
<1> QED BY <1>2, <1>7

\* A score and what it becomes
ScoresNext(h, t, k, v) ==
  /\ HeapOK(t)
  /\ \A l \in DOMAIN t.index_ :
       l # k => l \in DOMAIN h.index_ /\ Worth(t, l) = Worth(h, l) \div 2
  /\ Worth(t, k) = v

LEMMA AddedScores ==
  ASSUME NEW h, NEW t, NEW k, NEW v \in Nat, Added(h, t, k, v)
  PROVE  /\ ScoresNext(h, t, k, (IF k \in DOMAIN h.index_ THEN Worth(h, k) \div 2
                                 ELSE 0) + v)
         /\ DOMAIN t.index_ = DOMAIN h.index_ \cup {k}
BY DEF Added, ScoresNext

=============================================================================
