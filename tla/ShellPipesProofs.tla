-------------------------- MODULE ShellPipesProofs --------------------------
(***************************************************************************)
(* Proofs about ShellPipes, for pipelines of any length, files and pipes   *)
(* of every size.                                                          *)
(***************************************************************************)
EXTENDS ShellPipes, TLAPS, WellFoundedInduction, FiniteSetTheorems

-----------------------------------------------------------------------------
(* What the files hold. *)

\* The least number of a set: an induction is a search for the least counterexample.
LEMMA LeastNumber ==
    ASSUME NEW T, T \subseteq Nat, T # {}
    PROVE  \E n \in T : \A m \in T : n <= m
<1>1. PICK n \in T : \A m \in T : <<m, n>> \notin OpToRel(<, Nat)
  BY WFMin, NatLessThanWellFounded, Zenon
<1>2. \A m \in T : ~(m < n)
  BY <1>1, Zenon DEF OpToRel
<1> QED BY <1>2

\* The recursion of Sums has a solution.
LEMMA SumsUnfold ==
    ASSUME NEW s, Len(s) \in Nat
    PROVE  Sums(s) = [k \in 0 .. Len(s) |-> IF k = 0 THEN 0 ELSE Sums(s)[k - 1] + s[k]]
<1> DEFINE Adds(f, n) == f = [k \in 0 .. n |-> IF k = 0 THEN 0 ELSE f[k - 1] + s[k]]
           Bad == {n \in Nat : ~ \E f : Adds(f, n)}
<1>1. Bad = {}
  <2> SUFFICES ASSUME Bad # {} PROVE FALSE
    OBVIOUS
  <2>1. PICK n \in Nat : n \in Bad /\ \A m \in Bad : n <= m
    BY LeastNumber
  <2>2. CASE n = 0
    <3> DEFINE f == [k \in 0 .. 0 |-> 0]
    <3>1. Adds(f, 0)
      OBVIOUS
    <3> QED BY <3>1, <2>1, <2>2
  <2>3. CASE n # 0
    <3>1. PICK f : Adds(f, n - 1)
      <4> HIDE DEF Adds
      <4>1. n - 1 \in Nat
        BY <2>3
      <4> HIDE DEF Bad
      <4>2. n - 1 \notin Bad
        BY <2>1, <4>1
      <4> QED BY <4>1, <4>2 DEF Bad
    <3> DEFINE g == [k \in 0 .. n |-> IF k = n THEN f[n - 1] + s[n] ELSE f[k]]
    <3>2. \A k \in 0 .. n : g[k] = IF k = 0 THEN 0 ELSE g[k - 1] + s[k]
      BY <3>1, <2>3
    <3>3. Adds(g, n)
      BY <3>2
    <3> QED BY <3>3, <2>1
  <2> QED BY <2>2, <2>3
<1>2. \E f : Adds(f, Len(s))
  BY <1>1
<1>3. Sums(s) = CHOOSE f : Adds(f, Len(s))
  BY DEF Sums
<1> HIDE DEF Adds
<1>4. Adds(Sums(s), Len(s))
  BY <1>2, <1>3
<1> QED BY <1>4 DEF Adds

\* A sum of sizes is a size.
LEMMA TotalIsNat ==
    ASSUME NEW s \in Seq(Nat)
    PROVE  Total(s) \in Nat
<1> DEFINE f == Sums(s)
           Bad == {k \in 0 .. Len(s) : f[k] \notin Nat}
<1>0. Len(s) \in Nat
  OBVIOUS
<1>1. f = [k \in 0 .. Len(s) |-> IF k = 0 THEN 0 ELSE f[k - 1] + s[k]]
  BY <1>0, SumsUnfold
<1> HIDE DEF f
<1>2. Bad = {}
  <2> SUFFICES ASSUME Bad # {} PROVE FALSE
    OBVIOUS
  <2>1. PICK k \in Bad : \A m \in Bad : k <= m
    <3>1. Bad \subseteq Nat
      OBVIOUS
    <3> HIDE DEF Bad
    <3> QED BY <3>1, LeastNumber
  <2>2. k # 0 /\ f[k] = f[k - 1] + s[k] /\ s[k] \in Nat
    BY <1>1, <2>1, SMTT(20)
  <2>3. k - 1 \in 0 .. Len(s) /\ k - 1 \notin Bad
    BY <2>1, <2>2
  <2> QED BY <2>1, <2>2, <2>3
<1> QED BY <1>0, <1>2 DEF Total, f

\* What the writer of a has to copy; all its files if none is missing.
LEMMA ContentsFacts ==
    ASSUME atoms \in Pipelines, NEW a \in Programs
    PROVE  /\ Contents(a) \in Nat
           /\ Found(a, Len(atoms[a].in)) => Contents(a) = Total(atoms[a].in)
<1>1. atoms[a].in \in Seq(Nat \cup {Missing})
  BY PipesAssumption DEF Programs, N
<1>2. Sizes(a) \in Seq(Nat)
  <2>1. \A k \in DOMAIN atoms[a].in : (IF Found(a, k) THEN atoms[a].in[k] ELSE 0) \in Nat
    BY <1>1 DEF Found
  <2>2. DOMAIN atoms[a].in = 1 .. Len(atoms[a].in) /\ Len(atoms[a].in) \in Nat
    BY <1>1
  <2> QED BY <2>1, <2>2 DEF Sizes
<1>3. ASSUME Found(a, Len(atoms[a].in))
      PROVE  Sizes(a) = atoms[a].in
  <2>1. \A k \in DOMAIN atoms[a].in : Found(a, k)
    BY <1>1, <1>3 DEF Found
  <2>2. Sizes(a) = [k \in DOMAIN atoms[a].in |-> atoms[a].in[k]]
    BY <2>1 DEF Sizes
  <2> QED BY <1>1, <2>2
<1> QED BY <1>2, <1>3, TotalIsNat DEF Contents

-----------------------------------------------------------------------------
(* Processes and ends. *)

PipeEnds == [pipe : Pipes, mode : {"r", "w"}, slot : {"pipes", "std"}]

\* The programs, the pipes and who holds their ends.
LEMMA ProgramFacts ==
    ASSUME atoms \in Pipelines
    PROVE  /\ N \in Nat \ {0} /\ Programs = 1 .. N /\ Between \subseteq Programs
           /\ \A a \in Programs : atoms[a].out \in Seq({">", ">>", "missing"}) /\ Len(atoms[a].out) \in Nat
           /\ Shell \in Holders /\ \A a \in Programs : Child(a) \in Holders /\ Writer(a) \in Holders
           /\ \A a, b \in Programs : /\ Child(a) = Child(b) <=> a = b
                                     /\ Writer(a) = Writer(b) <=> a = b
                                     /\ Child(a) # Writer(b)
           /\ \A a \in Programs : Child(a) # Shell /\ Writer(a) # Shell
           /\ Capacity \in Nat \ {0} /\ MaxUnits \in Nat \ {0}
<1>1. N \in Nat \ {0} /\ Programs = 1 .. N /\ Between \subseteq Programs
  BY PipesAssumption DEF N, Programs, Between
<1>2. \A a \in Programs : atoms[a].out \in Seq({">", ">>", "missing"}) /\ Len(atoms[a].out) \in Nat
  BY PipesAssumption DEF Programs, N
<1>3. /\ Shell \in Holders /\ \A a \in Programs : Child(a) \in Holders /\ Writer(a) \in Holders
      /\ \A a, b \in Programs : /\ Child(a) = Child(b) <=> a = b
                                /\ Writer(a) = Writer(b) <=> a = b
                                /\ Child(a) # Writer(b)
      /\ \A a \in Programs : Child(a) # Shell /\ Writer(a) # Shell
  BY DEF Holders, Shell, Child, Writer
<1> QED BY <1>1, <1>2, <1>3, PipesAssumption

\* What opening and closing does to the ends on standard input and output.
LEMMA EndFacts ==
    ASSUME atoms \in Pipelines, NEW X \in SUBSET PipeEnds
    PROVE  /\ InVariables \in SUBSET PipeEnds /\ Drop(X, "pipes") \in SUBSET PipeEnds
           /\ \A p \in Pipes, m \in {"r", "w"} :
                /\ End(p, m, "std") \in PipeEnds /\ End(p, m, "std") \notin InVariables
                /\ End(p, m, "std") \in Drop(X, "pipes") <=> End(p, m, "std") \in X
                /\ \A n \in {"r", "w"} :
                     End(p, m, "std") \in Without(X, n) <=> End(p, m, "std") \in X /\ m # n
           /\ \A n \in {"r", "w"} : /\ Without(X, n) \in SUBSET PipeEnds
                                    /\ InVariables \subseteq X => InVariables \subseteq Without(X, n)
<1>1. \A p \in Pipes, m \in {"r", "w"} : End(p, m, "std") \in PipeEnds
  BY DEF PipeEnds, End
<1>2. \A p, m, s : End(p, m, s).pipe = p /\ End(p, m, s).mode = m /\ End(p, m, s).slot = s
  BY DEF End
<1>3. \A x \in InVariables : x \in PipeEnds /\ x.slot = "pipes"
  BY DEF InVariables, PipeEnds, End, Pipes
<1>4. Drop(X, "pipes") = {x \in X : x.slot # "pipes"}
  BY DEF Drop
<1>5. \A n : Without(X, n) = {x \in X : ~(x.slot = "std" /\ x.mode = n)}
  BY DEF Without
<1>6. \A p \in Pipes, m \in {"r", "w"} : End(p, m, "std") \notin InVariables
  BY <1>2, <1>3
<1>7. \A p \in Pipes, m \in {"r", "w"} : \A n \in {"r", "w"} :
         End(p, m, "std") \in Without(X, n) <=> End(p, m, "std") \in X /\ m # n
  BY <1>2, <1>5
<1>8. \A n \in {"r", "w"} : /\ Without(X, n) \in SUBSET PipeEnds
                            /\ InVariables \subseteq X => InVariables \subseteq Without(X, n)
  BY <1>3, <1>5
<1>9. \A p \in Pipes, m \in {"r", "w"} : End(p, m, "std") \in Drop(X, "pipes") <=> End(p, m, "std") \in X
  BY <1>2, <1>4
<1>10. InVariables \in SUBSET PipeEnds /\ Drop(X, "pipes") \in SUBSET PipeEnds
  BY <1>3, <1>4
<1> QED BY <1>1, <1>6, <1>7, <1>8, <1>9, <1>10

\* The two dup2.
LEMMA ConnectionFacts ==
    ASSUME atoms \in Pipelines, NEW a \in Programs
    PROVE  /\ Connections(a) \in SUBSET PipeEnds /\ FilePipe(a) \in Pipes /\ {a, a - 1} \cap Between \subseteq Pipes
           /\ \A p \in Pipes : /\ End(p, "r", "std") \in Connections(a) <=> p \in {a - 1} \cap Between
                               /\ End(p, "w", "std") \in Connections(a) <=> p \in {a} \cap Between
           /\ \A p \in Pipes : \A m \in {"r", "w"} :
                End(p, m, "std") \in {End(FilePipe(a), "r", "std")} <=> p = FilePipe(a) /\ m = "r"
           /\ {End(FilePipe(a), "r", "std"), End(FilePipe(a), "w", "std")} \in SUBSET PipeEnds
<1>1. \A p \in Pipes, m \in {"r", "w"} : End(p, m, "std") \in PipeEnds
  BY DEF PipeEnds, End
<1>2. \A p, m, s : End(p, m, s).pipe = p /\ End(p, m, s).mode = m /\ End(p, m, s).slot = s
  BY DEF End
<1>3. FilePipe(a) \in Pipes /\ {a, a - 1} \cap Between \subseteq Pipes
  BY DEF Pipes, FilePipe
<1>4. \A p \in Pipes : /\ End(p, "r", "std") \in Connections(a) <=> p \in {a - 1} \cap Between
                       /\ End(p, "w", "std") \in Connections(a) <=> p \in {a} \cap Between
  BY <1>2 DEF Connections
<1>5. Connections(a) \in SUBSET PipeEnds
  BY <1>1, <1>3 DEF Connections
<1>6. \A p \in Pipes : \A m \in {"r", "w"} :
         End(p, m, "std") \in {End(FilePipe(a), "r", "std")} <=> p = FilePipe(a) /\ m = "r"
  BY <1>2
<1> QED BY <1>1, <1>3, <1>4, <1>5, <1>6

\* Input and Output are the pipes with an end there.
LEMMA InputFacts ==
    ASSUME NEW a, held[Child(a)] \in SUBSET PipeEnds
    PROVE  /\ Input(a) = {p \in Pipes : End(p, "r", "std") \in held[Child(a)]}
           /\ Output(a) = {p \in Pipes : End(p, "w", "std") \in held[Child(a)]}
           /\ (\E x \in held[Child(a)] : x.slot = "std" /\ x.mode = "r") <=> Input(a) # {}
<1>1. \A x \in PipeEnds : x = End(x.pipe, x.mode, x.slot) /\ x.pipe \in Pipes
  BY DEF PipeEnds, End
<1>2. \A p, m, s : End(p, m, s).pipe = p /\ End(p, m, s).mode = m /\ End(p, m, s).slot = s
  BY DEF End
<1>3. Input(a) = {p \in Pipes : End(p, "r", "std") \in held[Child(a)]}
  BY <1>1, <1>2 DEF Input
<1>4. Output(a) = {p \in Pipes : End(p, "w", "std") \in held[Child(a)]}
  BY <1>1, <1>2 DEF Output
<1>5. (\E x \in held[Child(a)] : x.slot = "std" /\ x.mode = "r") <=> Input(a) # {}
  BY DEF Input
<1> QED BY <1>3, <1>4, <1>5

-----------------------------------------------------------------------------
(* The inductive invariant. *)

Phases == {"none", "connect", "infiles", "wait", "outfiles", "close", "run", "ended", "reaped"}
NotYet == {"none", "connect", "infiles"}
Starting == {"connect", "infiles", "wait", "outfiles", "close"}
Done == {"ended", "reaped"}

\* The values the variables take.
Values ==
    /\ atoms \in Pipelines
    /\ shell \in {"pipe", "fork", "wait", "prompt"} /\ forked \in 0 .. N
    /\ pc \in [Programs -> Phases] /\ writer \in [Programs -> {"none", "write", "ended"}]
    /\ left \in [Programs -> Nat] /\ held \in [Holders -> SUBSET PipeEnds]
    /\ buffer \in [Pipes -> 0 .. Capacity]
    /\ owed \in [Programs -> 0 .. MaxUnits] /\ got \in [Programs -> Nat] /\ sent \in [Programs -> Nat]
    /\ eof \in [Programs -> BOOLEAN] /\ output \in [Programs -> Nat]
    /\ DOMAIN files = Programs /\ short \subseteq Programs

\* The shell forks with every pipe open, one program after the other.
ShellOK ==
    /\ held[Shell] = IF shell = "fork" THEN InVariables ELSE {}
    /\ shell = "pipe" => forked = 0
    /\ shell \in {"wait", "prompt"} => forked = N
    /\ \A a \in Programs : /\ pc[a] = "none" <=> a > forked
                           /\ shell = "prompt" => pc[a] = "reaped"

\* The pipes on standard input and standard output of program a.
HasFiles(a) == atoms[a].in # <<>>
Source(a) == IF HasFiles(a) THEN FilePipe(a) ELSE a - 1
Feeds(a) == IF pc[a] \in {"none", "connect"} \cup Done THEN {}
            ELSE IF pc[a] # "infiles" /\ HasFiles(a) THEN {FilePipe(a)} ELSE {a - 1} \cap Between
Takes(a) == IF pc[a] \in {"none", "connect"} \cup Done \/ output[a] > 0 THEN {} ELSE {a} \cap Between

\* What it holds: until it becomes the program, every pipe of the pipeline.
HeldOK(a) ==
    /\ \A p \in Pipes : /\ End(p, "r", "std") \in held[Child(a)] <=> p \in Feeds(a)
                        /\ End(p, "w", "std") \in held[Child(a)] <=> p \in Takes(a)
    /\ pc[a] \in Starting => InVariables \subseteq held[Child(a)]
    /\ pc[a] = "connect" => held[Child(a)] = InVariables
    /\ pc[a] \in {"none"} \cup Done => held[Child(a)] = {}

\* Its writer, which it waits for.
WriterOK(a) ==
    /\ writer[a] = "none" <=> pc[a] \in NotYet \/ ~HasFiles(a)
    /\ writer[a] = "write" => pc[a] = "wait"
    /\ writer[a] = "ended" => left[a] = 0
    /\ writer[a] # "write" => held[Writer(a)] = {}

\* How far it has come.
FlowOK(a) ==
    /\ a > 1 \/ HasFiles(a) => sent[a] + owed[a] = got[a]
    /\ a = 1 /\ ~HasFiles(a) /\ (pc[a] = "run" \/ (pc[a] \in Done /\ a \notin short)) =>
          sent[a] + owed[a] = MaxUnits
    /\ pc[a] \in Done /\ a \notin short => owed[a] = 0 /\ (eof[a] \/ (a = 1 /\ ~HasFiles(a)))
    /\ a \in short => pc[a] \in Done
    /\ pc[a] \in {"none"} \cup Starting => sent[a] = 0 /\ owed[a] = 0 /\ got[a] = 0 /\ ~eof[a]

\* What is in the pipe that it reads was written and not yet read; at its end
\* there is nothing more to come.
PipeOK(a) ==
    /\ HasFiles(a) => IF writer[a] = "none" THEN buffer[Source(a)] = 0
                      ELSE got[a] + buffer[Source(a)] + left[a] = Contents(a)
    /\ ~HasFiles(a) /\ a > 1 =>
          got[a] + buffer[Source(a)] = IF output[a - 1] > 0 THEN 0 ELSE sent[a - 1]
    /\ eof[a] => /\ a > 1 \/ HasFiles(a)
                 /\ buffer[Source(a)] = 0
                 /\ IF HasFiles(a) THEN writer[a] = "ended" ELSE Finished(a - 1) \/ output[a - 1] > 0

\* Where its output went: to the last of its files.
FilesOK(a) ==
    /\ DOMAIN files[a] = DOMAIN atoms[a].out
    /\ \A k \in DOMAIN files[a] : /\ files[a][k] \in [old : BOOLEAN, new : Nat]
                                  /\ files[a][k].new = IF k = output[a] THEN sent[a] ELSE 0
    /\ output[a] \in {0, Len(atoms[a].out)}
    /\ pc[a] \in NotYet \cup {"wait", "outfiles"} => output[a] = 0
    /\ pc[a] \in {"close", "run"} \/ (pc[a] \in Done /\ a \notin short) => output[a] = Len(atoms[a].out)

ProgramOK(a) == HeldOK(a) /\ WriterOK(a) /\ FlowOK(a) /\ PipeOK(a) /\ FilesOK(a)
PipeInv == Values /\ ShellOK /\ \A a \in Programs : ProgramOK(a)

-----------------------------------------------------------------------------
(* What a step of one program does to the others. *)

\* Nothing of program b changes.
Same(b) == /\ pc'[b] = pc[b] /\ writer'[b] = writer[b] /\ left'[b] = left[b]
           /\ held'[Child(b)] = held[Child(b)] /\ held'[Writer(b)] = held[Writer(b)]
           /\ owed'[b] = owed[b] /\ got'[b] = got[b] /\ sent'[b] = sent[b] /\ eof'[b] = eof[b]
           /\ output'[b] = output[b] /\ files'[b] = files[b] /\ (b \in short' <=> b \in short)
SameBuffer(p) == buffer'[p] = buffer[p]

\* A step of program a touches its own state and the pipes it reads and writes.
StepOf(a) ==
    /\ UNCHANGED <<atoms, shell, forked>> /\ held'[Shell] = held[Shell]
    /\ pc[a] # "none" /\ pc'[a] # "none" /\ pc[a] # "reaped"
    /\ \A b \in Programs \ {a} : Same(b)
    /\ \A p \in Pipes \ {a, Source(a)} : SameBuffer(p)

\* Names that depend on the pipeline only.
LEMMA SamePipeline ==
    ASSUME atoms' = atoms
    PROVE  /\ N' = N /\ Programs' = Programs /\ Between' = Between /\ Pipes' = Pipes
           /\ Holders' = Holders /\ PipeEnds' = PipeEnds /\ InVariables' = InVariables
           /\ \A a : /\ HasFiles(a)' = HasFiles(a) /\ Source(a)' = Source(a)
                     /\ FilePipe(a)' = FilePipe(a) /\ Contents(a)' = Contents(a)
BY DEF N, Programs, Between, Pipes, Holders, PipeEnds, InVariables, HasFiles, Source, FilePipe,
       Contents, Sizes, Found, Missing, Shell, Child, Writer, End

\* Which pipes programs read.
LEMMA Sources ==
    ASSUME atoms \in Pipelines, NEW a \in Programs, NEW b \in Programs, a # b, b > 1 \/ HasFiles(b)
    PROVE  /\ Source(b) \in Pipes /\ Source(b) # Source(a)
           /\ Source(b) = a => b = a + 1 /\ ~HasFiles(b) /\ a \in Between
<1>1. N \in Nat \ {0} /\ a \in 1 .. N /\ b \in 1 .. N
  BY ProgramFacts
<1>2. a \in Int /\ b \in Int
  BY <1>1
<1> QED BY <1>1, <1>2 DEF Source, Pipes, Between, FilePipe, Programs

\* The others are as they were, but for the one that reads what a writes.
LEMMA OthersOK ==
    ASSUME PipeInv, Values', NEW a \in Programs, StepOf(a), ProgramOK(a)',
           a + 1 \in Programs /\ ~HasFiles(a + 1) => PipeOK(a + 1)'
    PROVE  PipeInv'
<1>0. /\ N \in Nat \ {0} /\ N' = N /\ Programs = 1 .. N /\ Programs' = Programs /\ Pipes' = Pipes /\ Between' = Between
      /\ atoms \in Pipelines /\ atoms' = atoms /\ InVariables' = InVariables
  BY ProgramFacts, SamePipeline DEF PipeInv, Values, StepOf
<1>1. ShellOK'
  <2>1. \A b \in Programs : pc'[b] = "none" <=> pc[b] = "none"
    BY DEF StepOf, Same
  <2>2. \A b \in Programs : pc[b] = "reaped" => pc'[b] = "reaped"
    BY DEF StepOf, Same
  <2>3. (held[Shell])' = held[Shell]
    BY DEF StepOf, Shell
  <2>4. UNCHANGED <<shell, forked>> /\ ShellOK /\ Shell' = Shell
    BY DEF PipeInv, StepOf, Shell
  <2>5. held'[Shell'] = IF shell' = "fork" THEN InVariables' ELSE {}
    BY <1>0, <2>3, <2>4 DEF ShellOK
  <2>6. /\ shell' = "pipe" => forked' = 0
        /\ shell' \in {"wait", "prompt"} => forked' = N'
    BY <1>0, <2>4 DEF ShellOK
  <2>7. \A b \in Programs' : /\ pc'[b] = "none" <=> b > forked'
                             /\ shell' = "prompt" => pc'[b] = "reaped"
    BY <1>0, <2>1, <2>2, <2>4 DEF ShellOK
  <2> QED BY <2>5, <2>6, <2>7 DEF ShellOK
<1>2. ASSUME NEW b \in Programs, b # a
      PROVE  ProgramOK(b)'
  <2>1. Same(b) /\ ProgramOK(b)
    BY <1>2 DEF StepOf, PipeInv
  <2>2. (held[Child(b)])' = held[Child(b)] /\ (held[Writer(b)])' = held[Writer(b)]
    BY <2>1 DEF Same, Child, Writer
  <2>3. Feeds(b)' = Feeds(b) /\ Takes(b)' = Takes(b) /\ HasFiles(b)' = HasFiles(b)
    BY <1>0, <2>1, SamePipeline DEF Feeds, Takes, Same
  <2>4. HeldOK(b)'
    <3>1. \A p, m : End(p, m, "std")' = End(p, m, "std")
      BY DEF End
    <3> QED BY <1>0, <2>1, <2>2, <2>3, <3>1 DEF ProgramOK, HeldOK, Same, End
  <2>5. WriterOK(b)'
    BY <2>1, <2>2, <2>3 DEF ProgramOK, WriterOK, Same
  <2>6. FlowOK(b)'
    BY <2>1, <2>3 DEF ProgramOK, FlowOK, Same
  <2>7. FilesOK(b)'
    BY <1>0, <2>1 DEF ProgramOK, FilesOK, Same
  <2>8. PipeOK(b)'
    <3>1. CASE b = a + 1 /\ ~HasFiles(b)
      BY <3>1, <1>2
    <3>2. CASE b = 1 /\ ~HasFiles(b)
      BY <2>1, <2>3, <3>2 DEF ProgramOK, PipeOK, Same
    <3>3. CASE ~(b = a + 1 /\ ~HasFiles(b)) /\ (b > 1 \/ HasFiles(b))
      <4>1. Source(b) \in Pipes /\ Source(b) # a /\ Source(b) # Source(a)
        BY <1>0, <1>2, <3>3, Sources
      <4>2. buffer'[Source(b)] = buffer[Source(b)] /\ Source(b)' = Source(b) /\ Contents(b)' = Contents(b)
        BY <1>0, <4>1, SamePipeline DEF StepOf, SameBuffer
      <4>3. CASE HasFiles(b)
        BY <2>1, <2>3, <4>2, <4>3 DEF ProgramOK, PipeOK, Same
      <4>4. CASE ~HasFiles(b)
        <5>1. b - 1 \in Programs \ {a} /\ b > 1
          BY <1>0, <1>2, <3>3, <4>4
        <5>2. Same(b - 1)
          BY <5>1 DEF StepOf
        <5> QED BY <2>1, <2>3, <4>2, <4>4, <5>1, <5>2 DEF ProgramOK, PipeOK, Same, Finished
      <4> QED BY <4>3, <4>4
    <3> QED BY <1>0, <1>2, <3>1, <3>2, <3>3
  <2> QED BY <2>4, <2>5, <2>6, <2>7, <2>8 DEF ProgramOK
<1> QED BY <1>0, <1>1, <1>2 DEF PipeInv

\* What program a writes is untouched: so is its reader.
LEMMA ReaderOK ==
    ASSUME PipeInv, Values', NEW a \in Programs, StepOf(a), a \in Pipes => SameBuffer(a),
           IF output'[a] > 0 THEN output[a] > 0 \/ (sent[a] = 0 /\ pc[a] \in Starting)
                             ELSE output'[a] = output[a],
           sent'[a] = sent[a], Finished(a) => Finished(a)'
    PROVE  a + 1 \in Programs /\ ~HasFiles(a + 1) => PipeOK(a + 1)'
<1> SUFFICES ASSUME a + 1 \in Programs, ~HasFiles(a + 1) PROVE PipeOK(a + 1)'
  OBVIOUS
<1>a. N \in Nat \ {0} /\ Programs = 1 .. N /\ atoms \in Pipelines /\ atoms' = atoms /\ Programs' = Programs
  BY ProgramFacts, SamePipeline DEF PipeInv, Values, StepOf
<1>b. a \in Nat /\ a >= 1
  BY <1>a
<1>0. a + 1 # a /\ (a + 1) - 1 = a /\ a + 1 > 1 /\ a \in Nat /\ a + 1 \in Programs \ {a}
  BY <1>b
<1>1. Same(a + 1) /\ ProgramOK(a + 1) /\ ProgramOK(a)
  BY <1>0 DEF StepOf, PipeInv
<1>2. Source(a + 1) = a /\ Source(a + 1)' = a /\ ~HasFiles(a + 1)' /\ a \in Pipes
  BY <1>0, <1>a, SamePipeline DEF Source, Pipes, Between
<1>3. buffer'[a] = buffer[a] /\ buffer[a] \in Nat /\ got[a + 1] \in Nat /\ sent[a] \in Nat
      /\ output[a] \in Nat /\ output'[a] \in Nat
  BY <1>0, <1>a, <1>2, ProgramFacts DEF SameBuffer, PipeInv, Values
<1>4. got[a + 1] + buffer[a] = IF output'[a] > 0 THEN 0 ELSE sent'[a]
  BY <1>0, <1>1, <1>2, <1>3 DEF ProgramOK, PipeOK, Finished
<1>5. eof[a + 1] => buffer[a] = 0 /\ (Finished(a)' \/ output'[a] > 0)
  BY <1>0, <1>1, <1>2, <1>3 DEF ProgramOK, PipeOK
<1> QED BY <1>0, <1>1, <1>2, <1>3, <1>4, <1>5 DEF PipeOK, Same

-----------------------------------------------------------------------------
(* The steps of the shell. *)

\* The facts about program a that every step begins with.
LEMMA Known ==
    ASSUME PipeInv, NEW a \in Programs
    PROVE  /\ atoms \in Pipelines /\ HeldOK(a) /\ WriterOK(a) /\ FlowOK(a) /\ PipeOK(a) /\ FilesOK(a)
           /\ held[Child(a)] \in SUBSET PipeEnds /\ held[Writer(a)] \in SUBSET PipeEnds
           /\ pc[a] \in Phases /\ left[a] \in Nat /\ owed[a] \in 0 .. MaxUnits /\ got[a] \in Nat
           /\ sent[a] \in Nat /\ eof[a] \in BOOLEAN /\ output[a] \in Nat
           /\ FilePipe(a) \in Pipes /\ buffer[FilePipe(a)] \in 0 .. Capacity
           /\ a > 1 \/ HasFiles(a) => Source(a) \in Pipes /\ buffer[Source(a)] \in 0 .. Capacity
<1>1. N \in Nat \ {0} /\ Programs = 1 .. N /\ Child(a) \in Holders /\ Writer(a) \in Holders
  BY ProgramFacts DEF PipeInv, Values
<1>2. FilePipe(a) \in Pipes /\ (a > 1 \/ HasFiles(a) => Source(a) \in Pipes)
  <2>1. a \in Int
    BY <1>1
  <2> QED BY <1>1, <2>1 DEF Source, Pipes, Between, FilePipe
<1> QED BY <1>1, <1>2 DEF PipeInv, Values, ProgramOK

\* A step of the shell that leaves the programs alone.
LEMMA ShellAlone ==
    ASSUME PipeInv, UNCHANGED <<atoms, forked, pc, writer, left, buffer, programVars, fileVars>>, Values',
           \A a \in Programs : held'[Child(a)] = held[Child(a)] /\ held'[Writer(a)] = held[Writer(a)],
           ShellOK'
    PROVE  PipeInv'
<1>1. Programs' = Programs /\ Pipes' = Pipes /\ InVariables' = InVariables /\ Between' = Between
  BY SamePipeline
<1>2. ASSUME NEW a \in Programs
      PROVE  ProgramOK(a)'
  <2>1. ProgramOK(a) /\ (held[Child(a)])' = held[Child(a)] /\ (held[Writer(a)])' = held[Writer(a)]
    BY DEF PipeInv, Child, Writer
  <2>2. /\ HasFiles(a)' = HasFiles(a) /\ Source(a)' = Source(a) /\ Contents(a)' = Contents(a)
        /\ Feeds(a)' = Feeds(a) /\ Takes(a)' = Takes(a)
    BY <1>1, SamePipeline DEF Feeds, Takes, fileVars
  <2>3. HeldOK(a)'
    BY <1>1, <2>1, <2>2 DEF ProgramOK, HeldOK, End
  <2>4. WriterOK(a)' /\ FlowOK(a)'
    BY <2>1, <2>2 DEF ProgramOK, WriterOK, FlowOK, programVars
  <2>5. PipeOK(a)'
    BY <2>1, <2>2 DEF ProgramOK, PipeOK, programVars, fileVars, Finished
  <2>6. FilesOK(a)'
    BY <2>1, <2>2 DEF ProgramOK, FilesOK, programVars, fileVars
  <2> QED BY <2>3, <2>4, <2>5, <2>6 DEF ProgramOK
<1> QED BY <1>1, <1>2 DEF PipeInv

\* The shell makes the pipes, and closes them when every program has its own.
LEMMA OpenAndClose ==
    ASSUME PipeInv, Pipe \/ Close
    PROVE  PipeInv'
<1>0. /\ \A a \in Programs : Child(a) # Shell /\ Writer(a) # Shell
      /\ Shell \in Holders /\ held \in [Holders -> SUBSET PipeEnds] /\ N \in Nat \ {0}
      /\ held[Shell] \in SUBSET PipeEnds
  BY ProgramFacts DEF PipeInv, Values
<1>1. PICK ends \in SUBSET PipeEnds :
         /\ held' = [held EXCEPT ![Shell] = ends]
         /\ ends = IF shell' = "fork" THEN InVariables ELSE {}
         /\ UNCHANGED <<atoms, forked, pc, writer, left, buffer, programVars, fileVars>>
         /\ shell' \in {"fork", "wait"} /\ (shell' = "wait" => forked = N)
  <2>1. CASE Pipe
    BY <1>0, <2>1, EndFacts DEF Pipe, PipeInv, Values
  <2>2. CASE Close
    <3>1. held[Shell] = InVariables /\ ClosePipes(held[Shell]) = {}
      BY <2>2 DEF Close, PipeInv, ShellOK, ClosePipes, Drop, InVariables, End
    <3> QED BY <1>0, <2>2, <3>1 DEF Close
  <2> QED BY <2>1, <2>2
<1>2. N' = N /\ Programs' = Programs /\ Pipes' = Pipes /\ Holders' = Holders /\ PipeEnds' = PipeEnds
      /\ InVariables' = InVariables
  BY <1>1, SamePipeline
<1>3. Values'
  BY <1>0, <1>1, <1>2 DEF PipeInv, Values, programVars, fileVars
<1>4. \A a \in Programs : held'[Child(a)] = held[Child(a)] /\ held'[Writer(a)] = held[Writer(a)]
  BY <1>0, <1>1
<1>5. ShellOK'
  <2>1. (held[Shell])' = IF shell' = "fork" THEN InVariables' ELSE {}
    BY <1>0, <1>1, <1>2 DEF Shell
  <2>2. \A a \in Programs : pc[a] = "none" <=> a > forked
    BY DEF PipeInv, ShellOK
  <2> QED BY <1>1, <1>2, <2>1, <2>2 DEF ShellOK
<1> QED BY <1>1, <1>3, <1>4, <1>5, ShellAlone

\* At the prompt each of the N waits has found another program.
LEMMA AllWaitedFor ==
    ASSUME PipeInv, Over
    PROVE  PipeInv'
<1>0. N \in Nat \ {0} /\ Programs = 1 .. N
  BY ProgramFacts DEF PipeInv, Values
<1>1. /\ shell' = "prompt" /\ UNCHANGED <<atoms, forked, pc, writer, left, held, buffer, programVars, fileVars>>
      /\ shell = "wait" /\ Cardinality({a \in Programs : pc[a] = "reaped"}) = N
  BY DEF Over, EnoughWaits
<1>2. {a \in Programs : pc[a] = "reaped"} = Programs
  <2> DEFINE R == {a \in Programs : pc[a] = "reaped"}
  <2>1. IsFiniteSet(Programs) /\ Cardinality(Programs) = N
    BY <1>0, FS_Interval
  <2>2. R \subseteq Programs /\ Cardinality(R) = Cardinality(Programs)
    BY <1>1, <2>1
  <2> HIDE DEF R
  <2>3. R = Programs
    BY <2>1, <2>2, FS_Subset
  <2> QED BY <2>3 DEF R
<1>3. N' = N /\ Programs' = Programs /\ Pipes' = Pipes /\ Holders' = Holders /\ PipeEnds' = PipeEnds
      /\ InVariables' = InVariables /\ Shell' = Shell
  BY <1>1, SamePipeline DEF Shell
<1>4. Values'
  BY <1>1, <1>3 DEF PipeInv, Values, programVars, fileVars
<1>5. ShellOK'
  BY <1>1, <1>2, <1>3 DEF PipeInv, ShellOK
<1> QED BY <1>1, <1>4, <1>5, ShellAlone

\* A fork: the child holds what the shell holds.
LEMMA ForkOK ==
    ASSUME PipeInv, Fork
    PROVE  PipeInv'
<1> DEFINE a == forked + 1
<1>0. /\ N \in Nat \ {0} /\ Programs = 1 .. N /\ forked \in Nat /\ atoms \in Pipelines
  BY ProgramFacts DEF PipeInv, Values
<1>1. /\ shell = "fork" /\ forked < N /\ forked' = a /\ pc' = [pc EXCEPT ![a] = "connect"]
      /\ held' = [held EXCEPT ![Child(a)] = held[Shell]]
      /\ UNCHANGED <<atoms, shell, writer, left, buffer, programVars, fileVars>>
  BY DEF Fork
<1>2. a \in Programs /\ a \in Nat
  BY <1>0, <1>1
<1> HIDE DEF a
<1>3. /\ Child(a) \in Holders /\ Shell \in Holders /\ Child(a) # Shell
      /\ \A b \in Programs : /\ Child(b) \in Holders /\ Writer(b) \in Holders
                             /\ Writer(b) # Child(a) /\ (Child(b) = Child(a) <=> b = a)
  BY <1>0, <1>2, ProgramFacts
<1>4. held[Shell] = InVariables /\ held \in [Holders -> SUBSET PipeEnds] /\ pc \in [Programs -> Phases]
  BY <1>1 DEF PipeInv, Values, ShellOK
<1>5. /\ held'[Child(a)] = InVariables /\ held'[Shell] = InVariables /\ pc'[a] = "connect"
      /\ \A b \in Programs \ {a} : pc'[b] = pc[b] /\ held'[Child(b)] = held[Child(b)]
      /\ \A b \in Programs : held'[Writer(b)] = held[Writer(b)]
  BY <1>1, <1>2, <1>3, <1>4
<1>6. /\ N' = N /\ Programs' = Programs /\ Pipes' = Pipes /\ Holders' = Holders /\ PipeEnds' = PipeEnds
      /\ InVariables' = InVariables /\ Shell' = Shell /\ Between' = Between
  BY <1>1, SamePipeline DEF Shell
<1>7. Values'
  <2>1. /\ pc' \in [Programs' -> Phases] /\ held' \in [Holders' -> SUBSET PipeEnds'] /\ forked' \in 0 .. N'
    BY <1>0, <1>1, <1>2, <1>3, <1>4, <1>6 DEF Phases
  <2> QED BY <1>1, <1>6, <2>1 DEF PipeInv, Values, programVars, fileVars
<1>8. pc[a] = "none" /\ ProgramOK(a)
  BY <1>0, <1>1, <1>2 DEF PipeInv, ShellOK, a
<1>9. ShellOK'
  <2>1. \A b \in Programs : pc[b] = "none" <=> b > forked
    BY DEF PipeInv, ShellOK
  <2>2. \A b \in Programs : pc'[b] = "none" <=> b > a
    BY <1>0, <1>5, <2>1 DEF a
  <2>3. (held[Shell])' = InVariables'
    BY <1>5, <1>6
  <2> QED BY <1>1, <1>6, <2>2, <2>3 DEF ShellOK
<1>10. ASSUME NEW b \in Programs
       PROVE  ProgramOK(b)'
  <2>0. ProgramOK(b) /\ atoms' = atoms
    BY <1>1 DEF PipeInv
  <2>1. /\ HasFiles(b)' = HasFiles(b) /\ Source(b)' = Source(b) /\ Contents(b)' = Contents(b)
    BY <2>0, SamePipeline
  <2>2. HeldOK(b)'
    <3>1. CASE b = a
      <4>1. (held[Child(b)])' = InVariables /\ (pc[b])' = "connect"
        BY <1>5, <3>1 DEF Child
      <4>2. Feeds(b)' = {} /\ Takes(b)' = {}
        BY <4>1 DEF Feeds, Takes
      <4>3. \A p \in Pipes : End(p, "r", "std") \notin InVariables /\ End(p, "w", "std") \notin InVariables
        BY <1>0, EndFacts
      <4> QED BY <1>6, <4>1, <4>2, <4>3 DEF HeldOK, End, Done
    <3>2. CASE b # a
      <4>1. (held[Child(b)])' = held[Child(b)] /\ (pc[b])' = pc[b] /\ output' = output
        BY <1>1, <1>5, <3>2 DEF Child, fileVars
      <4>2. Feeds(b)' = Feeds(b) /\ Takes(b)' = Takes(b)
        BY <1>6, <2>0, <2>1, <4>1, SamePipeline DEF Feeds, Takes
      <4> QED BY <1>6, <2>0, <4>1, <4>2 DEF ProgramOK, HeldOK, End
    <3> QED BY <3>1, <3>2
  <2>3. WriterOK(b)'
    <3>1. (held[Writer(b)])' = held[Writer(b)]
      BY <1>5 DEF Writer
    <3> QED BY <1>1, <1>5, <1>8, <2>0, <2>1, <3>1 DEF ProgramOK, WriterOK, NotYet
  <2>4. FlowOK(b)'
    BY <1>1, <1>5, <1>8, <2>0, <2>1 DEF ProgramOK, FlowOK, Starting, Done, programVars
  <2>5. PipeOK(b)'
    <3>1. \A c \in Programs : Finished(c) <=> Finished(c)'
      BY <1>5, <1>8 DEF Finished
    <3>2. b > 1 => b - 1 \in Programs
      BY <1>0
    <3> QED BY <1>1, <2>0, <2>1, <3>1, <3>2 DEF ProgramOK, PipeOK, programVars, fileVars
  <2>6. FilesOK(b)'
    BY <1>1, <1>5, <1>8, <2>0 DEF ProgramOK, FilesOK, NotYet, Done, programVars, fileVars
  <2> QED BY <2>2, <2>3, <2>4, <2>5, <2>6 DEF ProgramOK
<1> QED BY <1>6, <1>7, <1>9, <1>10 DEF PipeInv

\* A program that has ended is waited for.
LEMMA WaitOK ==
    ASSUME PipeInv, NEW a \in Programs, Wait(a)
    PROVE  PipeInv'
<1>1. /\ shell = "wait" /\ pc[a] = "ended" /\ pc' = [pc EXCEPT ![a] = "reaped"]
      /\ UNCHANGED <<atoms, shell, forked, writer, left, held, buffer, programVars, fileVars>>
  BY DEF Wait, shellVars
<1>2. pc \in [Programs -> Phases] /\ Programs' = Programs /\ N' = N /\ Pipes' = Pipes /\ Holders' = Holders
      /\ PipeEnds' = PipeEnds
  BY <1>1, SamePipeline DEF PipeInv, Values
<1>3. pc'[a] = "reaped" /\ \A b \in Programs \ {a} : pc'[b] = pc[b]
  BY <1>1, <1>2
<1>4. Values'
  <2>1. pc' \in [Programs' -> Phases]
    BY <1>1, <1>2 DEF Phases
  <2> QED BY <1>1, <1>2, <2>1 DEF PipeInv, Values, programVars, fileVars
<1>5. StepOf(a)
  BY <1>1, <1>3 DEF StepOf, Same, SameBuffer, programVars, fileVars, Shell
<1>6. ProgramOK(a)'
  <2>0. ProgramOK(a) /\ Child(a)' = Child(a) /\ Writer(a)' = Writer(a)
    BY DEF PipeInv, Child, Writer
  <2>1. /\ HasFiles(a)' = HasFiles(a) /\ Source(a)' = Source(a) /\ Contents(a)' = Contents(a)
        /\ Feeds(a)' = Feeds(a) /\ Takes(a)' = Takes(a) /\ InVariables' = InVariables
    BY <1>1, <1>2, <1>3, SamePipeline DEF Feeds, Takes, Done, fileVars
  <2>2. HeldOK(a)'
    BY <1>1, <1>2, <1>3, <2>0, <2>1 DEF ProgramOK, HeldOK, End, Done, Starting
  <2>3. WriterOK(a)' /\ FlowOK(a)'
    BY <1>1, <1>3, <2>0, <2>1 DEF ProgramOK, WriterOK, FlowOK, Done, NotYet, Starting, programVars
  <2>4. PipeOK(a)'
    <3>1. a > 1 => a - 1 \in Programs \ {a}
      BY ProgramFacts DEF PipeInv, Values
    <3> QED BY <1>1, <1>3, <2>0, <2>1, <3>1 DEF ProgramOK, PipeOK, Finished, programVars, fileVars
  <2>5. FilesOK(a)'
    BY <1>1, <1>3, <2>0 DEF ProgramOK, FilesOK, Done, NotYet, programVars, fileVars
  <2> QED BY <2>2, <2>3, <2>4, <2>5 DEF ProgramOK
<1>7. a + 1 \in Programs /\ ~HasFiles(a + 1) => PipeOK(a + 1)'
  BY <1>1, <1>3, <1>4, <1>5, ReaderOK DEF SameBuffer, Finished, programVars, fileVars, PipeInv, Values
<1> QED BY <1>4, <1>5, <1>6, <1>7, OthersOK

-----------------------------------------------------------------------------
(* The steps of a child. *)

\* A step of child a that moves no data: it goes from one place to the next,
\* and holds other ends.
LEMMA ChildMoves ==
    ASSUME PipeInv, NEW a \in Programs, NEW to \in Phases, NEW ends \in SUBSET PipeEnds,
           pc[a] \in Starting \/ (pc[a] = "run" /\ to = "ended"), pc' = [pc EXCEPT ![a] = to], to # "none",
           to # "reaped", held' = [held EXCEPT ![Child(a)] = ends],
           UNCHANGED <<atoms, shell, forked, writer, left, buffer>>
    PROVE  /\ N' = N /\ Programs' = Programs /\ Pipes' = Pipes /\ Holders' = Holders
           /\ PipeEnds' = PipeEnds /\ InVariables' = InVariables /\ Between' = Between
           /\ Child(a)' = Child(a) /\ Writer(a)' = Writer(a) /\ HasFiles(a)' = HasFiles(a)
           /\ Source(a)' = Source(a) /\ Contents(a)' = Contents(a) /\ FilePipe(a)' = FilePipe(a)
           /\ pc'[a] = to /\ held'[Child(a)] = ends /\ held'[Writer(a)] = held[Writer(a)]
           /\ \A b \in Programs \ {a} :
                pc'[b] = pc[b] /\ held'[Child(b)] = held[Child(b)] /\ held'[Writer(b)] = held[Writer(b)]
           /\ UNCHANGED <<programVars, fileVars>> => Values' /\ StepOf(a)
<1>1. /\ N' = N /\ Programs' = Programs /\ Pipes' = Pipes /\ Holders' = Holders
      /\ PipeEnds' = PipeEnds /\ InVariables' = InVariables /\ Between' = Between
      /\ Child(a)' = Child(a) /\ Writer(a)' = Writer(a) /\ HasFiles(a)' = HasFiles(a)
      /\ Source(a)' = Source(a) /\ Contents(a)' = Contents(a) /\ FilePipe(a)' = FilePipe(a)
  BY SamePipeline DEF Child, Writer
<1>2. /\ Child(a) \in Holders /\ Shell \in Holders /\ Child(a) # Shell
      /\ \A b \in Programs : /\ Child(b) \in Holders /\ Writer(b) \in Holders
                             /\ Writer(b) # Child(a) /\ (Child(b) = Child(a) <=> b = a)
  BY ProgramFacts DEF PipeInv, Values
<1>3. pc \in [Programs -> Phases] /\ held \in [Holders -> SUBSET PipeEnds]
  BY DEF PipeInv, Values
<1>4. pc' \in [Programs -> Phases] /\ held' \in [Holders -> SUBSET PipeEnds]
  BY <1>2, <1>3
<1>5. /\ pc'[a] = to /\ held'[Child(a)] = ends /\ held'[Writer(a)] = held[Writer(a)]
      /\ \A b \in Programs \ {a} :
           pc'[b] = pc[b] /\ held'[Child(b)] = held[Child(b)] /\ held'[Writer(b)] = held[Writer(b)]
      /\ held'[Shell] = held[Shell]
  BY <1>2, <1>3
<1>6. ASSUME UNCHANGED <<programVars, fileVars>>
      PROVE  Values' /\ StepOf(a)
  <2>1. Values'
    BY <1>1, <1>4, <1>6 DEF PipeInv, Values, programVars, fileVars
  <2>2. StepOf(a)
    BY <1>5, <1>6 DEF StepOf, Same, SameBuffer, programVars, fileVars, Starting
  <2> QED BY <2>1, <2>2
<1> QED BY <1>1, <1>5, <1>6

\* Such a step, before the program starts.
LEMMA ChildPrepares ==
    ASSUME PipeInv, NEW a \in Programs, NEW to \in Starting, NEW ends \in SUBSET PipeEnds,
           pc[a] \in Starting, pc' = [pc EXCEPT ![a] = to], to # "connect", to # "close",
           held' = [held EXCEPT ![Child(a)] = ends], InVariables \subseteq ends,
           UNCHANGED <<atoms, shell, forked, writer, left, buffer, programVars, fileVars>>,
           writer[a] = "write" => to = "wait",
           writer[a] = "none" <=> to = "infiles" \/ ~HasFiles(a),
           output[a] = 0,
           \A p \in Pipes : /\ End(p, "r", "std") \in ends <=>
                                 p \in (IF to # "infiles" /\ HasFiles(a) THEN {FilePipe(a)} ELSE {a - 1} \cap Between)
                            /\ End(p, "w", "std") \in ends <=> p \in {a} \cap Between
    PROVE  PipeInv'
<1>1. to \in Phases /\ to # "none" /\ to # "reaped" /\ to \notin Done
  BY DEF Phases, Starting, Done
<1>2. /\ Programs' = Programs /\ Pipes' = Pipes /\ InVariables' = InVariables /\ Between' = Between
      /\ Child(a)' = Child(a) /\ Writer(a)' = Writer(a) /\ HasFiles(a)' = HasFiles(a)
      /\ Source(a)' = Source(a) /\ Contents(a)' = Contents(a) /\ FilePipe(a)' = FilePipe(a)
      /\ pc'[a] = to /\ held'[Child(a)] = ends /\ held'[Writer(a)] = held[Writer(a)]
      /\ \A b \in Programs \ {a} : pc'[b] = pc[b]
      /\ Values' /\ StepOf(a)
  <2>1. UNCHANGED <<atoms, shell, forked, writer, left, buffer>> /\ UNCHANGED <<programVars, fileVars>>
    OBVIOUS
  <2>2. pc[a] \in Starting \/ (pc[a] = "run" /\ to = "ended")
    OBVIOUS
  <2>3. Values' /\ StepOf(a)
    BY <1>1, <2>1, <2>2, ChildMoves
  <2>4. /\ Programs' = Programs /\ Pipes' = Pipes /\ InVariables' = InVariables /\ Between' = Between
        /\ Child(a)' = Child(a) /\ Writer(a)' = Writer(a) /\ HasFiles(a)' = HasFiles(a)
        /\ Source(a)' = Source(a) /\ Contents(a)' = Contents(a) /\ FilePipe(a)' = FilePipe(a)
    BY SamePipeline DEF Child, Writer
  <2>5. pc'[a] = to
    BY <1>1, <2>1, <2>2, ChildMoves
  <2>6. held'[Child(a)] = ends
    BY ProgramFacts DEF PipeInv, Values
  <2>7. held'[Writer(a)] = held[Writer(a)]
    BY <1>1, <2>1, <2>2, ChildMoves
  <2>8. \A b \in Programs \ {a} : pc'[b] = pc[b]
    BY <1>1, <2>1, <2>2, ChildMoves
  <2> QED BY <2>3, <2>4, <2>5, <2>6, <2>7, <2>8
<1>3. ProgramOK(a)
  BY DEF PipeInv
<1>4. HeldOK(a)'
  <2>1. Feeds(a)' = (IF to # "infiles" /\ HasFiles(a) THEN {FilePipe(a)} ELSE {a - 1} \cap Between)
    BY <1>1, <1>2 DEF Feeds
  <2>2. Takes(a)' = {a} \cap Between
    BY <1>1, <1>2 DEF Takes, fileVars
  <2> QED BY <1>1, <1>2, <2>1, <2>2 DEF HeldOK, End
<1>5. WriterOK(a)'
  BY <1>1, <1>2, <1>3 DEF ProgramOK, WriterOK, NotYet
<1>6. FlowOK(a)'
  BY <1>1, <1>2, <1>3 DEF ProgramOK, FlowOK, programVars, Starting, Done
<1>7. PipeOK(a)'
  <2>1. a > 1 => a - 1 \in Programs \ {a}
    <3>1. N \in Nat \ {0} /\ Programs = 1 .. N
      BY ProgramFacts DEF PipeInv, Values
    <3> QED BY <3>1
  <2> QED BY <1>2, <1>3, <2>1 DEF ProgramOK, PipeOK, Finished, programVars, fileVars
<1>8. FilesOK(a)'
  BY <1>1, <1>2, <1>3 DEF ProgramOK, FilesOK, programVars, fileVars, Starting, Done, NotYet
<1>9. a + 1 \in Programs /\ ~HasFiles(a + 1) => PipeOK(a + 1)'
  <2>1. Finished(a) => Finished(a)'
    BY DEF Finished, Starting
  <2> QED BY <1>2, <2>1, ReaderOK DEF SameBuffer, programVars, fileVars
<1> QED BY <1>2, <1>4, <1>5, <1>6, <1>7, <1>8, <1>9, OthersOK DEF ProgramOK

\* The two dup2, and going on without input files or after the writer.
LEMMA ConnectOK ==
    ASSUME PipeInv, NEW a \in Programs, Connect(a) \/ NoInput(a) \/ WriterOver(a)
    PROVE  PipeInv'
<1>0. /\ atoms \in Pipelines /\ HeldOK(a) /\ WriterOK(a) /\ FilesOK(a) /\ held[Child(a)] \in SUBSET PipeEnds
      /\ held = [held EXCEPT ![Child(a)] = held[Child(a)]]
  BY Known DEF PipeInv, Values
<1>1. CASE Connect(a)
  <2> DEFINE ends == held[Child(a)] \cup Connections(a)
  <2>1. /\ pc[a] = "connect" /\ pc' = [pc EXCEPT ![a] = "infiles"] /\ held' = [held EXCEPT ![Child(a)] = ends]
        /\ UNCHANGED <<atoms, shell, forked, writer, left, buffer, programVars, fileVars>>
    BY <1>1 DEF Connect, shellVars
  <2>2. held[Child(a)] = InVariables /\ writer[a] = "none" /\ output[a] = 0
    BY <1>0, <2>1 DEF HeldOK, WriterOK, FilesOK, NotYet
  <2>3. /\ InVariables \subseteq ends /\ ends \in SUBSET PipeEnds
        /\ \A p \in Pipes : /\ End(p, "r", "std") \in ends <=> p \in {a - 1} \cap Between
                            /\ End(p, "w", "std") \in ends <=> p \in {a} \cap Between
    <3>1. \A p \in Pipes : End(p, "r", "std") \notin InVariables /\ End(p, "w", "std") \notin InVariables
      BY <1>0, EndFacts
    <3> QED BY <1>0, <2>2, <3>1, ConnectionFacts
  <2>4. "infiles" \in Starting /\ pc[a] \in Starting
    BY <2>1 DEF Starting
  <2> HIDE DEF ends
  <2> QED BY <2>1, <2>2, <2>3, <2>4, ChildPrepares
<1>2. CASE NoInput(a) \/ WriterOver(a)
  <2>1. /\ pc[a] \in {"infiles", "wait"} /\ pc' = [pc EXCEPT ![a] = "outfiles"]
        /\ held' = [held EXCEPT ![Child(a)] = held[Child(a)]]
        /\ UNCHANGED <<atoms, shell, forked, writer, left, buffer, programVars, fileVars>>
        /\ IF pc[a] = "infiles" THEN ~HasFiles(a) ELSE writer[a] = "ended"
    BY <1>0, <1>2 DEF NoInput, WriterOver, shellVars, HasFiles
  <2>2. /\ InVariables \subseteq held[Child(a)] /\ output[a] = 0
        /\ (writer[a] = "none" <=> ~HasFiles(a)) /\ writer[a] # "write"
    BY <1>0, <2>1 DEF HeldOK, WriterOK, FilesOK, NotYet, Starting
  <2>3. \A p \in Pipes :
           /\ End(p, "r", "std") \in held[Child(a)] <=>
                 p \in (IF "outfiles" # "infiles" /\ HasFiles(a) THEN {FilePipe(a)} ELSE {a - 1} \cap Between)
           /\ End(p, "w", "std") \in held[Child(a)] <=> p \in {a} \cap Between
    <3>1. /\ Feeds(a) = (IF HasFiles(a) THEN {FilePipe(a)} ELSE {a - 1} \cap Between)
          /\ Takes(a) = {a} \cap Between
      BY <2>1, <2>2 DEF Feeds, Takes, Done
    <3> QED BY <1>0, <3>1 DEF HeldOK
  <2>4. "outfiles" \in Starting /\ pc[a] \in Starting
    BY <2>1 DEF Starting
  <2> QED BY <1>0, <2>1, <2>2, <2>3, <2>4, ChildPrepares
<1> QED BY <1>1, <1>2

\* A fork of the writer: it gets the write end, the child the read end.
LEMMA ForkWriterOK ==
    ASSUME PipeInv, NEW a \in Programs, ForkWriter(a)
    PROVE  PipeInv'
<1>0. /\ atoms \in Pipelines /\ HeldOK(a) /\ WriterOK(a) /\ FlowOK(a) /\ PipeOK(a) /\ FilesOK(a)
      /\ held[Child(a)] \in SUBSET PipeEnds /\ Contents(a) \in Nat /\ FilePipe(a) \in Pipes
      /\ buffer[FilePipe(a)] \in 0 .. Capacity /\ got[a] \in Nat
  BY Known, ContentsFacts
<1>1. PICK ends \in SUBSET PipeEnds, copies \in SUBSET PipeEnds :
         /\ ends = Without(held[Child(a)], "r") \cup {End(FilePipe(a), "r", "std")}
         /\ held' = [held EXCEPT ![Writer(a)] = copies, ![Child(a)] = ends]
  <2>1. held' = [held EXCEPT ![Writer(a)] = held[Child(a)] \cup {End(FilePipe(a), "w", "std")},
                             ![Child(a)] = Without(@, "r") \cup {End(FilePipe(a), "r", "std")}]
    BY DEF ForkWriter
  <2>2. /\ held[Child(a)] \cup {End(FilePipe(a), "w", "std")} \in SUBSET PipeEnds
        /\ Without(held[Child(a)], "r") \cup {End(FilePipe(a), "r", "std")} \in SUBSET PipeEnds
    BY <1>0, EndFacts, ConnectionFacts
  <2>3. Writer(a) # Child(a) /\ Child(a) \in Holders /\ Writer(a) \in Holders
        /\ held \in [Holders -> SUBSET PipeEnds]
    BY ProgramFacts DEF PipeInv, Values
  <2>4. held' = [held EXCEPT ![Writer(a)] = held[Child(a)] \cup {End(FilePipe(a), "w", "std")},
                             ![Child(a)] = Without(held[Child(a)], "r") \cup {End(FilePipe(a), "r", "std")}]
    BY <2>1, <2>3
  <2> QED BY <2>2, <2>4
<1>2. /\ pc[a] = "infiles" /\ HasFiles(a) /\ pc' = [pc EXCEPT ![a] = "wait"]
      /\ writer' = [writer EXCEPT ![a] = "write"] /\ left' = [left EXCEPT ![a] = Contents(a)]
      /\ UNCHANGED <<atoms, shell, forked, buffer, programVars, fileVars>>
  BY DEF ForkWriter, shellVars, HasFiles
<1>3. /\ N' = N /\ Programs' = Programs /\ Pipes' = Pipes /\ Holders' = Holders
      /\ PipeEnds' = PipeEnds /\ InVariables' = InVariables /\ Between' = Between
      /\ Child(a)' = Child(a) /\ Writer(a)' = Writer(a) /\ HasFiles(a)' = HasFiles(a)
      /\ Source(a)' = Source(a) /\ Contents(a)' = Contents(a) /\ FilePipe(a)' = FilePipe(a)
  BY <1>2, SamePipeline DEF Child, Writer
<1>4. /\ Child(a) \in Holders /\ Writer(a) \in Holders /\ Shell \in Holders /\ Child(a) # Shell /\ Writer(a) # Shell
      /\ \A b \in Programs : /\ Child(b) \in Holders /\ Writer(b) \in Holders
                             /\ (Writer(b) = Writer(a) <=> b = a) /\ (Child(b) = Child(a) <=> b = a)
                             /\ Writer(b) # Child(a) /\ Writer(a) # Child(b)
  BY ProgramFacts DEF PipeInv, Values
<1>5. pc \in [Programs -> Phases] /\ held \in [Holders -> SUBSET PipeEnds]
      /\ writer \in [Programs -> {"none", "write", "ended"}] /\ left \in [Programs -> Nat]
  BY DEF PipeInv, Values
<1>6. /\ pc' \in [Programs -> Phases] /\ held' \in [Holders -> SUBSET PipeEnds]
      /\ writer' \in [Programs -> {"none", "write", "ended"}] /\ left' \in [Programs -> Nat]
  BY <1>0, <1>1, <1>2, <1>4, <1>5 DEF Phases
<1>7. Values'
  BY <1>2, <1>3, <1>6 DEF PipeInv, Values, programVars, fileVars
<1>8. /\ pc'[a] = "wait" /\ writer'[a] = "write" /\ left'[a] = Contents(a) /\ held'[Child(a)] = ends
      /\ held'[Shell] = held[Shell]
      /\ \A b \in Programs \ {a} :
           /\ pc'[b] = pc[b] /\ writer'[b] = writer[b] /\ left'[b] = left[b]
           /\ held'[Child(b)] = held[Child(b)] /\ held'[Writer(b)] = held[Writer(b)]
  BY <1>1, <1>2, <1>4, <1>5
<1>9. StepOf(a)
  BY <1>2, <1>8 DEF StepOf, Same, SameBuffer, programVars, fileVars
<1>10. HeldOK(a)'
  <2>1. Feeds(a) = {a - 1} \cap Between /\ Takes(a) = {a} \cap Between /\ output[a] = 0
    BY <1>0, <1>2 DEF Feeds, Takes, Done, FilesOK, NotYet
  <2>2. Feeds(a)' = {FilePipe(a)} /\ Takes(a)' = {a} \cap Between
    BY <1>2, <1>3, <1>8, <2>1 DEF Feeds, Takes, Done, fileVars
  <2>3. InVariables \subseteq held[Child(a)]
    BY <1>0, <1>2 DEF HeldOK, Starting
  <2>4. /\ InVariables \subseteq ends
        /\ \A p \in Pipes : /\ End(p, "r", "std") \in ends <=> p = FilePipe(a)
                            /\ End(p, "w", "std") \in ends <=> End(p, "w", "std") \in held[Child(a)]
    BY <1>0, <1>1, <2>3, EndFacts, ConnectionFacts
  <2>5. \A p \in Pipes : End(p, "w", "std") \in held[Child(a)] <=> p \in Takes(a)
    BY <1>0 DEF HeldOK
  <2> QED BY <1>3, <1>8, <2>1, <2>2, <2>4, <2>5 DEF HeldOK, End, Done
<1>11. WriterOK(a)'
  BY <1>3, <1>8, <1>2 DEF WriterOK, NotYet
<1>12. FlowOK(a)'
  BY <1>0, <1>2, <1>3, <1>8 DEF FlowOK, Starting, Done, programVars
<1>13. PipeOK(a)'
  <2>1. writer[a] = "none" /\ got[a] = 0 /\ ~eof[a] /\ Source(a) = FilePipe(a)
    BY <1>0, <1>2 DEF WriterOK, FlowOK, NotYet, Starting, Source
  <2>2. buffer[Source(a)] = 0
    BY <1>0, <1>2, <2>1 DEF PipeOK
  <2> QED BY <1>0, <1>2, <1>3, <1>8, <2>1, <2>2 DEF PipeOK, programVars
<1>14. FilesOK(a)'
  BY <1>0, <1>2, <1>8 DEF FilesOK, NotYet, Done, programVars, fileVars
<1>15. a + 1 \in Programs /\ ~HasFiles(a + 1) => PipeOK(a + 1)'
  BY <1>2, <1>7, <1>9, ReaderOK DEF SameBuffer, Finished, programVars, fileVars
<1> QED BY <1>7, <1>9, <1>10, <1>11, <1>12, <1>13, <1>14, <1>15, OthersOK DEF ProgramOK

\* A child that ends, or a program: what it held is closed.
LEMMA EndsOK ==
    ASSUME PipeInv, NEW a \in Programs, pc[a] \in {"outfiles", "run"}, Ends(a),
           UNCHANGED <<atoms, shell, forked, writer, left, buffer, owed, got, sent, eof, output>>,
           Values', \A b \in Programs \ {a} : files'[b] = files[b] /\ (b \in short' <=> b \in short),
           pc[a] = "outfiles" => a \in short',
           a \notin short' => owed[a] = 0 /\ (eof[a] \/ (a = 1 /\ ~HasFiles(a))),
           DOMAIN files'[a] = DOMAIN files[a],
           \A k \in DOMAIN files[a] : /\ files'[a][k] \in [old : BOOLEAN, new : Nat]
                                      /\ files'[a][k].new = files[a][k].new
    PROVE  PipeInv'
<1>0. /\ atoms \in Pipelines /\ HeldOK(a) /\ WriterOK(a) /\ FlowOK(a) /\ PipeOK(a) /\ FilesOK(a)
  BY Known
<1>1. pc' = [pc EXCEPT ![a] = "ended"] /\ held' = [held EXCEPT ![Child(a)] = {}]
  BY DEF Ends
<1>2. "ended" \in Phases /\ {} \in SUBSET PipeEnds
  BY DEF Phases
<1>3. /\ Programs' = Programs /\ Pipes' = Pipes /\ Child(a)' = Child(a) /\ Writer(a)' = Writer(a)
      /\ HasFiles(a)' = HasFiles(a) /\ Source(a)' = Source(a) /\ Contents(a)' = Contents(a)
  BY SamePipeline DEF Child, Writer
<1>4. /\ Child(a) \in Holders /\ Shell \in Holders /\ Child(a) # Shell
      /\ \A b \in Programs : /\ Child(b) \in Holders /\ Writer(b) \in Holders
                             /\ Writer(b) # Child(a) /\ (Child(b) = Child(a) <=> b = a)
      /\ pc \in [Programs -> Phases] /\ held \in [Holders -> SUBSET PipeEnds]
  BY ProgramFacts DEF PipeInv, Values
<1>5. /\ pc'[a] = "ended" /\ held'[Child(a)] = {} /\ held'[Shell] = held[Shell]
      /\ held'[Writer(a)] = held[Writer(a)]
      /\ \A b \in Programs \ {a} :
           pc'[b] = pc[b] /\ held'[Child(b)] = held[Child(b)] /\ held'[Writer(b)] = held[Writer(b)]
  BY <1>1, <1>4
<1>6. StepOf(a)
  BY <1>5 DEF StepOf, Same, SameBuffer
<1>7. HeldOK(a)'
  <2>1. Feeds(a)' = {} /\ Takes(a)' = {}
    BY <1>5 DEF Feeds, Takes, Done
  <2> QED BY <1>3, <1>5, <2>1 DEF HeldOK, Done, Starting
<1>8. WriterOK(a)'
  BY <1>0, <1>3, <1>5 DEF WriterOK, NotYet
<1>9. FlowOK(a)'
  <2>1. a = 1 /\ ~HasFiles(a) /\ a \notin short' => sent[a] + owed[a] = MaxUnits
    BY <1>0 DEF FlowOK
  <2> QED BY <1>0, <1>3, <1>5, <2>1 DEF FlowOK, Done, Starting
<1>10. PipeOK(a)'
  <2>1. a > 1 => a - 1 \in Programs \ {a}
    <3>1. N \in Nat \ {0} /\ Programs = 1 .. N
      BY ProgramFacts DEF PipeInv, Values
    <3> QED BY <3>1
  <2> QED BY <1>0, <1>3, <1>5, <2>1 DEF PipeOK, Finished
<1>11. FilesOK(a)'
  <2>1. a \notin short' => pc[a] = "run"
    OBVIOUS
  <2>2. (DOMAIN atoms[a].out)' = DOMAIN atoms[a].out /\ (output[a])' = output[a]
        /\ (pc[a])' = "ended" /\ (sent[a])' = sent[a] /\ (files[a])' = files'[a]
        /\ (Len(atoms[a].out))' = Len(atoms[a].out)
    BY <1>5
  <2> QED BY <1>0, <2>1, <2>2 DEF FilesOK, NotYet, Done
<1>12. a + 1 \in Programs /\ ~HasFiles(a + 1) => PipeOK(a + 1)'
  <2>1. Finished(a)'
    BY <1>5 DEF Finished
  <2> QED BY <1>6, <2>1, ReaderOK DEF SameBuffer
<1> QED BY <1>6, <1>7, <1>8, <1>9, <1>10, <1>11, <1>12, OthersOK DEF ProgramOK

\* A program ends: at the end of its input, or before.
LEMMA ExitOK ==
    ASSUME PipeInv, NEW a \in Programs, Exit(a) \/ EndsEarly(a)
    PROVE  PipeInv'
<1>0. /\ atoms \in Pipelines /\ HeldOK(a) /\ FilesOK(a) /\ held[Child(a)] \in SUBSET PipeEnds
      /\ output[a] \in Nat /\ FilePipe(a) \in Pipes
      /\ a > 1 \/ HasFiles(a) => Source(a) \in Pipes
  BY Known
<1>1. /\ pc[a] = "run" /\ Ends(a)
      /\ UNCHANGED <<atoms, shell, forked, writer, left, buffer, owed, got, sent, eof, output, files>>
      /\ \/ owed[a] = 0 /\ (eof[a] \/ Input(a) = {}) /\ short' = short
         \/ short' = short \cup {a}
  BY DEF Exit, EndsEarly, shellVars, programVars, fileVars
<1>2. Input(a) = {} => a = 1 /\ ~HasFiles(a)
  <2>1. \A p \in Pipes : p \in Feeds(a) => p \in Input(a)
    BY <1>0, InputFacts DEF HeldOK
  <2>2. a > 1 \/ HasFiles(a) => Source(a) \in Feeds(a)
    <3>1. N \in Nat \ {0} /\ Programs = 1 .. N
      BY ProgramFacts DEF PipeInv, Values
    <3> QED BY <1>1, <3>1 DEF Feeds, Source, Done, Between
  <2>3. a > 1 \/ a = 1
    BY ProgramFacts DEF PipeInv, Values
  <2> QED BY <1>0, <2>1, <2>2, <2>3
<1>3. Values'
  <2>1. /\ Programs' = Programs /\ N' = N /\ Pipes' = Pipes /\ Holders' = Holders /\ PipeEnds' = PipeEnds
    BY <1>1, SamePipeline
  <2>2. pc' \in [Programs -> Phases] /\ held' \in [Holders -> SUBSET PipeEnds]
    BY <1>1 DEF Ends, PipeInv, Values, Phases
  <2> QED BY <1>1, <2>1, <2>2 DEF PipeInv, Values
<1>4. \A k \in DOMAIN files[a] : files[a][k] \in [old : BOOLEAN, new : Nat]
  BY <1>0 DEF FilesOK
<1> QED BY <1>1, <1>2, <1>3, <1>4, EndsOK

\* Opening the output files: the last one is standard output, or the child fails.
LEMMA OpenOutputOK ==
    ASSUME PipeInv, NEW a \in Programs, OpenOutput(a)
    PROVE  PipeInv'
<1>0. /\ atoms \in Pipelines /\ HeldOK(a) /\ WriterOK(a) /\ FlowOK(a) /\ PipeOK(a) /\ FilesOK(a)
      /\ held[Child(a)] \in SUBSET PipeEnds /\ held[Writer(a)] \in SUBSET PipeEnds
  BY Known
<1>1. /\ pc[a] = "outfiles" /\ files' = [files EXCEPT ![a] = Opened(a)]
      /\ UNCHANGED <<atoms, shell, forked, writer, left, buffer, owed, got, sent, eof>>
      /\ DOMAIN files = Programs
  BY DEF OpenOutput, shellVars, PipeInv, Values
<1>2. /\ Len(atoms[a].out) \in Nat /\ DOMAIN atoms[a].out = 1 .. Len(atoms[a].out)
      /\ (atoms[a].out = <<>> <=> Len(atoms[a].out) = 0)
  BY <1>0, ProgramFacts
<1>3. /\ files'[a] = Opened(a) /\ \A b \in Programs \ {a} : files'[b] = files[b]
      /\ DOMAIN files' = Programs
  BY <1>1
<1>4. /\ DOMAIN Opened(a) = DOMAIN files[a] /\ output[a] = 0 /\ sent[a] = 0
      /\ \A k \in DOMAIN files[a] : /\ Opened(a)[k] \in [old : BOOLEAN, new : Nat]
                                    /\ Opened(a)[k].new = 0 /\ files[a][k].new = 0
  <2>1. output[a] = 0 /\ sent[a] = 0
    BY <1>0, <1>1 DEF FilesOK, FlowOK, Starting
  <2>2. \A k \in DOMAIN files[a] : files[a][k] \in [old : BOOLEAN, new : Nat] /\ files[a][k].new = 0
    BY <1>0, <2>1 DEF FilesOK
  <2> QED BY <2>1, <2>2 DEF Opened
<1>5. /\ N' = N /\ Programs' = Programs /\ Pipes' = Pipes /\ Holders' = Holders
      /\ PipeEnds' = PipeEnds /\ InVariables' = InVariables /\ Between' = Between
      /\ Child(a)' = Child(a) /\ Writer(a)' = Writer(a) /\ HasFiles(a)' = HasFiles(a)
      /\ Source(a)' = Source(a) /\ Contents(a)' = Contents(a) /\ FilePipe(a)' = FilePipe(a)
  BY <1>1, SamePipeline DEF Child, Writer
<1>6. CASE CanOpen(a, Len(atoms[a].out))
  <2>1. PICK ends \in SUBSET PipeEnds :
           /\ held' = [held EXCEPT ![Child(a)] = ends]
           /\ ends = IF atoms[a].out = <<>> THEN held[Child(a)] ELSE Without(held[Child(a)], "w")
    <3>1. (IF atoms[a].out = <<>> THEN held[Child(a)] ELSE Without(held[Child(a)], "w")) \in SUBSET PipeEnds
      BY <1>0, EndFacts
    <3>2. Child(a) \in Holders /\ DOMAIN held = Holders
      BY ProgramFacts DEF PipeInv, Values
    <3>3. held' = [held EXCEPT ![Child(a)] =
                     IF atoms[a].out = <<>> THEN held[Child(a)] ELSE Without(held[Child(a)], "w")]
      BY <1>6, <3>2 DEF OpenOutput
    <3> QED BY <3>1, <3>3
  <2>2. /\ pc' = [pc EXCEPT ![a] = "close"] /\ output' = [output EXCEPT ![a] = Len(atoms[a].out)]
        /\ short' = short
    BY <1>6 DEF OpenOutput
  <2>3. /\ "close" \in Phases /\ pc[a] \in Starting
    BY <1>1 DEF Phases, Starting
  <2>4. /\ Child(a) \in Holders /\ Shell \in Holders /\ Child(a) # Shell
        /\ \A b \in Programs : /\ Child(b) \in Holders /\ Writer(b) \in Holders
                               /\ Writer(b) # Child(a) /\ (Child(b) = Child(a) <=> b = a)
        /\ pc \in [Programs -> Phases] /\ held \in [Holders -> SUBSET PipeEnds]
        /\ output \in [Programs -> Nat]
    BY ProgramFacts DEF PipeInv, Values
  <2>5. /\ pc'[a] = "close" /\ held'[Child(a)] = ends /\ held'[Shell] = held[Shell]
        /\ held'[Writer(a)] = held[Writer(a)] /\ output'[a] = Len(atoms[a].out)
        /\ \A b \in Programs \ {a} :
             /\ pc'[b] = pc[b] /\ held'[Child(b)] = held[Child(b)] /\ held'[Writer(b)] = held[Writer(b)]
             /\ output'[b] = output[b]
    BY <2>1, <2>2, <2>4
  <2>6. Values'
    <3>1. /\ pc' \in [Programs -> Phases] /\ held' \in [Holders -> SUBSET PipeEnds]
          /\ output' \in [Programs -> Nat]
      BY <1>2, <2>1, <2>2, <2>3, <2>4
    <3> QED BY <1>1, <1>3, <1>5, <2>2, <3>1 DEF PipeInv, Values
  <2>7. StepOf(a)
    BY <1>1, <1>3, <2>2, <2>5 DEF StepOf, Same, SameBuffer
  <2>8. HeldOK(a)'
    <3>1. /\ Feeds(a) = (IF HasFiles(a) THEN {FilePipe(a)} ELSE {a - 1} \cap Between)
          /\ Takes(a) = {a} \cap Between
      BY <1>1, <1>4 DEF Feeds, Takes, Done
    <3>2. /\ Feeds(a)' = Feeds(a)
          /\ Takes(a)' = IF atoms[a].out = <<>> THEN Takes(a) ELSE {}
      <4>1. Feeds(a)' = Feeds(a)
        BY <1>5, <2>5, <3>1 DEF Feeds, Done
      <4>2. output'[a] > 0 <=> atoms[a].out # <<>>
        BY <1>2, <2>5
      <4>3. Takes(a)' = IF output'[a] > 0 THEN {} ELSE {a} \cap Between
        BY <1>5, <2>5 DEF Takes, Done
      <4> QED BY <3>1, <4>1, <4>2, <4>3
    <3>3. InVariables \subseteq held[Child(a)]
      BY <1>0, <1>1 DEF HeldOK, Starting
    <3>4. /\ InVariables \subseteq ends
          /\ \A p \in Pipes : /\ End(p, "r", "std") \in ends <=> End(p, "r", "std") \in held[Child(a)]
                              /\ End(p, "w", "std") \in ends <=>
                                    atoms[a].out = <<>> /\ End(p, "w", "std") \in held[Child(a)]
      BY <1>0, <2>1, <3>3, EndFacts
    <3> QED BY <1>0, <1>5, <2>5, <3>2, <3>4 DEF HeldOK, End, Done
  <2>9. WriterOK(a)' /\ FlowOK(a)'
    BY <1>0, <1>1, <1>5, <2>2, <2>5 DEF WriterOK, FlowOK, NotYet, Starting, Done
  <2>10. PipeOK(a)'
    <3>1. a > 1 => a - 1 \in Programs \ {a}
      <4>1. N \in Nat \ {0} /\ Programs = 1 .. N
        BY ProgramFacts DEF PipeInv, Values
      <4> QED BY <4>1
    <3> QED BY <1>0, <1>1, <1>5, <2>5, <3>1 DEF PipeOK, Finished
  <2>11. FilesOK(a)'
    <3>1. (DOMAIN atoms[a].out)' = DOMAIN atoms[a].out /\ (output[a])' = Len(atoms[a].out)
          /\ (pc[a])' = "close" /\ (sent[a])' = 0 /\ (files[a])' = Opened(a)
          /\ (Len(atoms[a].out))' = Len(atoms[a].out)
      BY <1>1, <1>3, <1>4, <2>5
    <3> QED BY <1>0, <1>2, <1>4, <3>1 DEF FilesOK, NotYet, Done
  <2>12. a + 1 \in Programs /\ ~HasFiles(a + 1) => PipeOK(a + 1)'
    BY <1>1, <1>2, <1>4, <2>3, <2>5, <2>6, <2>7, ReaderOK DEF SameBuffer, Finished
  <2> QED BY <2>6, <2>7, <2>8, <2>9, <2>10, <2>11, <2>12, OthersOK DEF ProgramOK
<1>7. CASE ~CanOpen(a, Len(atoms[a].out))
  <2>1. Ends(a) /\ short' = short \cup {a} /\ output' = output
    BY <1>7 DEF OpenOutput
  <2>2. Values'
    <3>1. pc' \in [Programs -> Phases] /\ held' \in [Holders -> SUBSET PipeEnds]
      BY <2>1 DEF Ends, PipeInv, Values, Phases
    <3> QED BY <1>1, <1>3, <1>5, <2>1, <3>1 DEF PipeInv, Values
  <2> QED BY <1>1, <1>3, <1>4, <2>1, <2>2, EndsOK
<1> QED BY <1>6, <1>7

\* Becoming the program, which holds the two ends it reads and writes.
LEMMA ExecOK ==
    ASSUME PipeInv, NEW a \in Programs, Exec(a)
    PROVE  PipeInv'
<1>0. /\ atoms \in Pipelines /\ HeldOK(a) /\ WriterOK(a) /\ FlowOK(a) /\ PipeOK(a) /\ FilesOK(a)
      /\ held[Child(a)] \in SUBSET PipeEnds /\ owed[a] \in 0 .. MaxUnits
      /\ a > 1 \/ HasFiles(a) => Source(a) \in Pipes
      /\ N \in Nat \ {0} /\ Programs = 1 .. N /\ MaxUnits \in Nat \ {0}
  BY Known, ProgramFacts
<1>1. /\ pc[a] = "close" /\ pc' = [pc EXCEPT ![a] = "run"]
      /\ UNCHANGED <<atoms, shell, forked, writer, left, buffer, got, sent, eof, short, output, files>>
  BY DEF Exec, shellVars, fileVars
<1>2. PICK ends \in SUBSET PipeEnds :
         ends = Drop(held[Child(a)], "pipes") /\ held' = [held EXCEPT ![Child(a)] = ends]
  <2>1. Child(a) \in Holders /\ DOMAIN held = Holders
    BY ProgramFacts DEF PipeInv, Values
  <2>2. held' = [held EXCEPT ![Child(a)] = Drop(held[Child(a)], "pipes")]
    BY <2>1 DEF Exec, ClosePipes
  <2>3. Drop(held[Child(a)], "pipes") \in SUBSET PipeEnds
    BY <1>0, EndFacts
  <2> QED BY <2>2, <2>3
<1>3. Input(a) # {} <=> a > 1 \/ HasFiles(a)
  <2>1. Input(a) = {p \in Pipes : p \in Feeds(a)}
    BY <1>0, InputFacts DEF HeldOK
  <2>2. Feeds(a) = IF HasFiles(a) THEN {FilePipe(a)} ELSE {a - 1} \cap Between
    BY <1>1 DEF Feeds, Done
  <2>3. a > 1 \/ HasFiles(a) => Source(a) \in Feeds(a)
    BY <1>0, <2>2 DEF Source, Between
  <2>4. a = 1 /\ ~HasFiles(a) => Feeds(a) = {}
    BY <2>2 DEF Between
  <2>5. a > 1 \/ a = 1
    BY <1>0
  <2> QED BY <1>0, <2>1, <2>3, <2>4, <2>5
<1>4. owed' = [owed EXCEPT ![a] = IF a > 1 \/ HasFiles(a) THEN 0 ELSE MaxUnits]
  BY <1>0, <1>3, InputFacts DEF Exec
<1>5. "run" \in Phases /\ pc[a] \in Starting
  BY <1>1 DEF Phases, Starting
<1>6. /\ N' = N /\ Programs' = Programs /\ Pipes' = Pipes /\ Holders' = Holders
      /\ PipeEnds' = PipeEnds /\ InVariables' = InVariables /\ Between' = Between
      /\ Child(a)' = Child(a) /\ Writer(a)' = Writer(a) /\ HasFiles(a)' = HasFiles(a)
      /\ Source(a)' = Source(a) /\ Contents(a)' = Contents(a) /\ FilePipe(a)' = FilePipe(a)
  BY <1>1, SamePipeline DEF Child, Writer
<1>7. /\ Child(a) \in Holders /\ Shell \in Holders /\ Child(a) # Shell
      /\ \A b \in Programs : /\ Child(b) \in Holders /\ Writer(b) \in Holders
                             /\ Writer(b) # Child(a) /\ (Child(b) = Child(a) <=> b = a)
      /\ pc \in [Programs -> Phases] /\ held \in [Holders -> SUBSET PipeEnds]
      /\ owed \in [Programs -> 0 .. MaxUnits]
  BY ProgramFacts DEF PipeInv, Values
<1>8. /\ pc'[a] = "run" /\ held'[Child(a)] = ends /\ held'[Shell] = held[Shell]
      /\ held'[Writer(a)] = held[Writer(a)] /\ owed'[a] = IF a > 1 \/ HasFiles(a) THEN 0 ELSE MaxUnits
      /\ \A b \in Programs \ {a} :
           /\ pc'[b] = pc[b] /\ held'[Child(b)] = held[Child(b)] /\ held'[Writer(b)] = held[Writer(b)]
           /\ owed'[b] = owed[b]
  BY <1>1, <1>2, <1>4, <1>7
<1>9. Values'
  <2>1. /\ pc' \in [Programs -> Phases] /\ held' \in [Holders -> SUBSET PipeEnds]
        /\ owed' \in [Programs -> 0 .. MaxUnits]
    BY <1>0, <1>1, <1>2, <1>4, <1>5, <1>7
  <2> QED BY <1>1, <1>6, <2>1 DEF PipeInv, Values
<1>10. StepOf(a)
  BY <1>1, <1>8 DEF StepOf, Same, SameBuffer
<1>11. HeldOK(a)'
  <2>1. Feeds(a)' = Feeds(a) /\ Takes(a)' = Takes(a)
    BY <1>1, <1>6, <1>8 DEF Feeds, Takes, Done
  <2>2. \A p \in Pipes : /\ End(p, "r", "std") \in ends <=> End(p, "r", "std") \in held[Child(a)]
                         /\ End(p, "w", "std") \in ends <=> End(p, "w", "std") \in held[Child(a)]
    BY <1>0, <1>2, EndFacts
  <2> QED BY <1>0, <1>6, <1>8, <2>1, <2>2 DEF HeldOK, End, Done, Starting
<1>12. WriterOK(a)'
  BY <1>0, <1>1, <1>6, <1>8 DEF WriterOK, NotYet
<1>13. FlowOK(a)'
  BY <1>0, <1>1, <1>6, <1>8 DEF FlowOK, Starting, Done
<1>14. PipeOK(a)'
  <2>1. a > 1 => a - 1 \in Programs \ {a}
    BY <1>0
  <2> QED BY <1>0, <1>1, <1>6, <1>8, <2>1 DEF PipeOK, Finished
<1>15. FilesOK(a)'
  BY <1>0, <1>1, <1>8 DEF FilesOK, NotYet, Done
<1>16. a + 1 \in Programs /\ ~HasFiles(a + 1) => PipeOK(a + 1)'
  BY <1>1, <1>9, <1>10, ReaderOK DEF SameBuffer, Finished
<1> QED BY <1>9, <1>10, <1>11, <1>12, <1>13, <1>14, <1>15, <1>16, OthersOK DEF ProgramOK

-----------------------------------------------------------------------------
(* Data. *)

\* The writer copies, and ends.
LEMMA WriterStepOK ==
    ASSUME PipeInv, NEW a \in Programs, WriterStep(a)
    PROVE  PipeInv'
<1>0. /\ atoms \in Pipelines /\ HeldOK(a) /\ WriterOK(a) /\ FlowOK(a) /\ PipeOK(a) /\ FilesOK(a)
      /\ left[a] \in Nat /\ got[a] \in Nat /\ FilePipe(a) \in Pipes /\ buffer[FilePipe(a)] \in 0 .. Capacity
      /\ Contents(a) \in Nat /\ Capacity \in Nat /\ N \in Nat \ {0} /\ Programs = 1 .. N
      /\ held[Writer(a)] \in SUBSET PipeEnds
  BY Known, ContentsFacts, ProgramFacts
<1>1. /\ writer[a] = "write" /\ pc[a] = "wait" /\ HasFiles(a) /\ Source(a) = FilePipe(a)
      /\ UNCHANGED <<atoms, shell, forked, pc, programVars, fileVars>>
      /\ \/ /\ left[a] > 0 /\ buffer[FilePipe(a)] < Capacity
            /\ left' = [left EXCEPT ![a] = @ - 1] /\ buffer' = [buffer EXCEPT ![FilePipe(a)] = @ + 1]
            /\ UNCHANGED <<writer, held>>
         \/ /\ left[a] = 0 /\ writer' = [writer EXCEPT ![a] = "ended"]
            /\ held' = [held EXCEPT ![Writer(a)] = {}] /\ UNCHANGED <<left, buffer>>
  BY <1>0 DEF WriterStep, Copy, Copied, shellVars, WriterOK, Source, NotYet
<1>2. /\ N' = N /\ Programs' = Programs /\ Pipes' = Pipes /\ Holders' = Holders
      /\ PipeEnds' = PipeEnds /\ InVariables' = InVariables /\ Between' = Between
      /\ Child(a)' = Child(a) /\ Writer(a)' = Writer(a) /\ HasFiles(a)' = HasFiles(a)
      /\ Source(a)' = Source(a) /\ Contents(a)' = Contents(a) /\ FilePipe(a)' = FilePipe(a)
  BY <1>1, SamePipeline DEF Child, Writer
<1>3. /\ Writer(a) \in Holders /\ Shell \in Holders /\ Writer(a) # Shell
      /\ \A b \in Programs : /\ Child(b) \in Holders /\ Writer(b) \in Holders
                             /\ Child(b) # Writer(a) /\ (Writer(b) = Writer(a) <=> b = a)
      /\ held \in [Holders -> SUBSET PipeEnds] /\ left \in [Programs -> Nat]
      /\ writer \in [Programs -> {"none", "write", "ended"}] /\ buffer \in [Pipes -> 0 .. Capacity]
  BY ProgramFacts, SMTT(20) DEF PipeInv, Values
<1>4. /\ \A b \in Programs \ {a} :
           /\ writer'[b] = writer[b] /\ left'[b] = left[b]
           /\ held'[Child(b)] = held[Child(b)] /\ held'[Writer(b)] = held[Writer(b)]
      /\ held'[Shell] = held[Shell] /\ held'[Child(a)] = held[Child(a)]
      /\ \A p \in Pipes \ {FilePipe(a)} : buffer'[p] = buffer[p]
  BY <1>1, <1>3
<1>5. /\ writer'[a] \in {"write", "ended"} /\ (writer'[a] = "ended" => left'[a] = 0)
      /\ (writer'[a] # "write" => held'[Writer(a)] = {})
      /\ buffer'[FilePipe(a)] + left'[a] = buffer[FilePipe(a)] + left[a]
  BY <1>0, <1>1, <1>3, SMTT(20)
<1>6. Values'
  <2>1. /\ writer' \in [Programs -> {"none", "write", "ended"}] /\ buffer' \in [Pipes -> 0 .. Capacity]
        /\ left' \in [Programs -> Nat] /\ held' \in [Holders -> SUBSET PipeEnds]
    <3>1. left[a] > 0 => left[a] - 1 \in Nat
      BY <1>0
    <3>2. buffer[FilePipe(a)] < Capacity => buffer[FilePipe(a)] + 1 \in 0 .. Capacity
      BY <1>0
    <3> QED BY <1>0, <1>1, <1>3, <3>1, <3>2
  <2> QED BY <1>1, <1>2, <2>1 DEF PipeInv, Values, programVars, fileVars
<1>7. StepOf(a)
  BY <1>1, <1>4 DEF StepOf, Same, SameBuffer, programVars, fileVars
<1>8. HeldOK(a)'
  <2>1. Feeds(a)' = Feeds(a) /\ Takes(a)' = Takes(a)
    BY <1>1, <1>2 DEF Feeds, Takes, fileVars
  <2> QED BY <1>0, <1>1, <1>2, <1>4, <2>1 DEF HeldOK, End
<1>9. WriterOK(a)'
  BY <1>0, <1>1, <1>2, <1>5 DEF WriterOK, NotYet
<1>10. FlowOK(a)'
  BY <1>0, <1>1, <1>2 DEF FlowOK, programVars
<1>11. PipeOK(a)'
  <2>1. ~eof[a] /\ got[a] + buffer[FilePipe(a)] + left[a] = Contents(a)
    BY <1>0, <1>1 DEF FlowOK, PipeOK, Starting
  <2>2. got[a] + buffer'[FilePipe(a)] + left'[a] = Contents(a)
    <3>1. buffer'[FilePipe(a)] \in Nat /\ left'[a] \in Nat
      BY <1>0, <1>2, <1>6 DEF Values
    <3> QED BY <1>0, <1>5, <2>1, <3>1, SMTT(20)
  <2> QED BY <1>1, <1>2, <1>5, <2>1, <2>2 DEF PipeOK, programVars
<1>12. FilesOK(a)'
  BY <1>0, <1>1 DEF FilesOK, programVars, fileVars
<1>13. a + 1 \in Programs /\ ~HasFiles(a + 1) => PipeOK(a + 1)'
  <2>1. a # FilePipe(a)
    BY <1>0 DEF FilePipe
  <2> QED BY <1>1, <1>4, <1>6, <1>7, <2>1, ReaderOK DEF SameBuffer, Finished, programVars, fileVars
<1> QED BY <1>6, <1>7, <1>8, <1>9, <1>10, <1>11, <1>12, <1>13, OthersOK DEF ProgramOK

\* A pipe that a program reads, and its writers: without a write end open,
\* what feeds the program has ended or writes to a file.
LEMMA NobodyWrites ==
    ASSUME PipeInv, NEW a \in Programs, pc[a] = "run", a > 1 \/ HasFiles(a), ~Open(Source(a), "w")
    PROVE  IF HasFiles(a) THEN writer[a] = "ended" ELSE Finished(a - 1) \/ output[a - 1] > 0
<1>0. /\ atoms \in Pipelines /\ WriterOK(a) /\ N \in Nat \ {0} /\ Programs = 1 .. N
  BY Known, ProgramFacts
<1>1. CASE HasFiles(a)
  BY <1>0, <1>1 DEF WriterOK, NotYet, PipeInv, Values
<1>2. CASE ~HasFiles(a)
  <2> DEFINE b == a - 1
  <2>1. b \in Programs /\ b \in Between /\ Source(a) = b /\ Child(b) \in Holders /\ b \in Pipes
    <3>1. a \in Int /\ a > 1
      BY <1>0, <1>2
    <3>2. b \in Programs /\ b \in Between /\ Source(a) = b
      BY <1>0, <1>2, <3>1 DEF Source, Between
    <3> QED BY <1>0, <3>2, ProgramFacts DEF Pipes
  <2> HIDE DEF b
  <2>2. HeldOK(b) /\ pc[b] \in Phases /\ pc[b] # "none"
    <3>1. pc[a] # "none" /\ pc[b] \in Phases /\ HeldOK(b)
      BY <2>1, Known
    <3>2. (pc[b] = "none" <=> b > forked) /\ (pc[a] = "none" <=> a > forked) /\ forked \in Int /\ a \in Int
      BY <1>0, <2>1 DEF PipeInv, ShellOK, Values
    <3> QED BY <3>1, <3>2 DEF b
  <2>3. \A slot : End(b, "w", slot) \notin held[Child(b)]
    BY <2>1 DEF Open, End
  <2>4. pc[b] \notin Starting
    BY <2>1, <2>2, <2>3 DEF HeldOK, InVariables
  <2>5. b \notin Takes(b)
    BY <2>1, <2>2, <2>3 DEF HeldOK
  <2>6. Finished(b) \/ output[b] > 0
    BY <2>1, <2>2, <2>4, <2>5 DEF Takes, Finished, Phases, Starting, Done
  <2> QED BY <1>2, <2>6 DEF b
<1> QED BY <1>1, <1>2

\* A read: a unit out of the pipe, or the end of the input.
LEMMA ReadOK ==
    ASSUME PipeInv, NEW a \in Programs, Read(a)
    PROVE  PipeInv'
<1>0. /\ atoms \in Pipelines /\ HeldOK(a) /\ WriterOK(a) /\ FlowOK(a) /\ PipeOK(a) /\ FilesOK(a)
      /\ held[Child(a)] \in SUBSET PipeEnds /\ owed[a] \in 0 .. MaxUnits /\ got[a] \in Nat /\ sent[a] \in Nat
      /\ left[a] \in Nat /\ FilePipe(a) \in Pipes
      /\ a > 1 \/ HasFiles(a) => Source(a) \in Pipes /\ buffer[Source(a)] \in 0 .. Capacity
      /\ N \in Nat \ {0} /\ Programs = 1 .. N /\ Capacity \in Nat /\ MaxUnits \in Nat \ {0}
      /\ Contents(a) \in Nat
  BY Known, ContentsFacts, ProgramFacts
<1>1. /\ pc[a] = "run" /\ owed[a] = 0 /\ ~eof[a]
      /\ UNCHANGED <<atoms, shell, forked, pc, writer, left, held, sent, short, output, files>>
      /\ \E p \in Input(a) :
           \/ /\ buffer[p] > 0 /\ buffer' = [buffer EXCEPT ![p] = @ - 1]
              /\ got' = [got EXCEPT ![a] = @ + 1] /\ owed' = [owed EXCEPT ![a] = 1]
              /\ eof' = eof
           \/ /\ buffer[p] = 0 /\ ~Open(p, "w")
              /\ eof' = [eof EXCEPT ![a] = TRUE] /\ UNCHANGED <<buffer, got, owed>>
  BY DEF Read, shellVars, fileVars
<1>2. (a > 1 \/ HasFiles(a)) /\ \A p \in Input(a) : p = Source(a)
  <2>1. Input(a) = {p \in Pipes : p \in Feeds(a)}
    BY <1>0, InputFacts DEF HeldOK
  <2>2. Feeds(a) = IF HasFiles(a) THEN {FilePipe(a)} ELSE {a - 1} \cap Between
    BY <1>1 DEF Feeds, Done
  <2>3. a = 1 /\ ~HasFiles(a) => Feeds(a) = {}
    BY <2>2 DEF Between
  <2>4. a > 1 \/ a = 1
    BY <1>0
  <2>5. \A p \in Input(a) : p = Source(a)
    BY <2>1, <2>2 DEF Source
  <2> QED BY <1>1, <2>1, <2>3, <2>4, <2>5
<1>3. \/ /\ buffer[Source(a)] > 0 /\ buffer' = [buffer EXCEPT ![Source(a)] = @ - 1]
         /\ got' = [got EXCEPT ![a] = @ + 1] /\ owed' = [owed EXCEPT ![a] = 1] /\ eof' = eof
      \/ /\ buffer[Source(a)] = 0 /\ ~Open(Source(a), "w")
         /\ eof' = [eof EXCEPT ![a] = TRUE] /\ UNCHANGED <<buffer, got, owed>>
  BY <1>1, <1>2
<1>4. /\ N' = N /\ Programs' = Programs /\ Pipes' = Pipes /\ Holders' = Holders
      /\ PipeEnds' = PipeEnds /\ InVariables' = InVariables /\ Between' = Between
      /\ Child(a)' = Child(a) /\ Writer(a)' = Writer(a) /\ HasFiles(a)' = HasFiles(a)
      /\ Source(a)' = Source(a) /\ Contents(a)' = Contents(a) /\ FilePipe(a)' = FilePipe(a)
  BY <1>1, SamePipeline DEF Child, Writer
<1>5. /\ got \in [Programs -> Nat] /\ owed \in [Programs -> 0 .. MaxUnits] /\ eof \in [Programs -> BOOLEAN]
      /\ buffer \in [Pipes -> 0 .. Capacity]
  BY DEF PipeInv, Values
<1>6. /\ got' \in [Programs -> Nat] /\ owed' \in [Programs -> 0 .. MaxUnits] /\ eof' \in [Programs -> BOOLEAN]
      /\ buffer' \in [Pipes -> 0 .. Capacity]
  <2>1. buffer[Source(a)] > 0 => buffer[Source(a)] - 1 \in 0 .. Capacity
    BY <1>0, <1>2
  <2>2. got[a] + 1 \in Nat /\ 1 \in 0 .. MaxUnits
    BY <1>0
  <2> QED BY <1>3, <1>5, <2>1, <2>2
<1>7. Values'
  BY <1>1, <1>4, <1>6 DEF PipeInv, Values
<1>8. /\ \A b \in Programs \ {a} : got'[b] = got[b] /\ owed'[b] = owed[b] /\ eof'[b] = eof[b]
      /\ \A p \in Pipes \ {Source(a)} : buffer'[p] = buffer[p]
  BY <1>3, <1>5
<1>9. /\ got'[a] - owed'[a] = got[a] - owed[a] /\ got'[a] + buffer'[Source(a)] = got[a] + buffer[Source(a)]
      /\ got'[a] \in Nat /\ owed'[a] \in Nat
  <2>1. Source(a) \in Pipes /\ buffer[Source(a)] \in Nat
    BY <1>0, <1>2
  <2>2. CASE /\ buffer' = [buffer EXCEPT ![Source(a)] = @ - 1]
             /\ got' = [got EXCEPT ![a] = @ + 1] /\ owed' = [owed EXCEPT ![a] = 1]
    <3>1. buffer'[Source(a)] = buffer[Source(a)] - 1 /\ got'[a] = got[a] + 1 /\ owed'[a] = 1
      BY <1>5, <2>1, <2>2
    <3>2. \A x, y \in Nat : (x + 1) + (y - 1) = x + y /\ (x + 1) - 1 = x - 0 /\ x + 1 \in Nat
      OBVIOUS
    <3> QED BY <1>0, <1>1, <2>1, <3>1, <3>2, SMTT(20)
  <2>3. CASE UNCHANGED <<buffer, got, owed>>
    BY <1>0, <2>3
  <2> QED BY <1>3, <2>2, <2>3
<1>10. StepOf(a)
  BY <1>1, <1>8 DEF StepOf, Same, SameBuffer, Shell
<1>11. HeldOK(a)' /\ WriterOK(a)' /\ FilesOK(a)'
  <2>1. Feeds(a)' = Feeds(a) /\ Takes(a)' = Takes(a)
    BY <1>1, <1>4 DEF Feeds, Takes
  <2>2. HeldOK(a)'
    BY <1>0, <1>1, <1>4, <2>1 DEF HeldOK, End
  <2>3. WriterOK(a)' /\ FilesOK(a)'
    BY <1>0, <1>1, <1>4 DEF WriterOK, FilesOK
  <2> QED BY <2>2, <2>3
<1>12. FlowOK(a)'
  <2>1. sent[a] + owed[a] = got[a]
    BY <1>0, <1>2 DEF FlowOK
  <2>2. sent[a] + owed'[a] = got'[a]
    BY <1>0, <1>9, <2>1, SMTT(20)
  <2>3. a \notin short
    BY <1>0, <1>1 DEF FlowOK, Done
  <2>4. ~(a = 1 /\ ~HasFiles(a))
    BY <1>0, <1>2
  <2> QED BY <1>1, <1>4, <2>2, <2>3, <2>4 DEF FlowOK, Done, Starting
<1>13. PipeOK(a)'
  <2>1. /\ HasFiles(a) => writer[a] # "none" /\ got[a] + buffer[Source(a)] + left[a] = Contents(a)
        /\ ~HasFiles(a) => got[a] + buffer[Source(a)] = IF output[a - 1] > 0 THEN 0 ELSE sent[a - 1]
    BY <1>0, <1>1, <1>2 DEF PipeOK, WriterOK, NotYet
  <2>2. buffer[Source(a)] \in Nat /\ buffer'[Source(a)] \in Nat
    BY <1>0, <1>2, <1>6
  <2>3. /\ HasFiles(a) => got'[a] + buffer'[Source(a)] + left[a] = Contents(a)
        /\ ~HasFiles(a) => got'[a] + buffer'[Source(a)] = IF output[a - 1] > 0 THEN 0 ELSE sent[a - 1]
    BY <1>0, <1>9, <2>1, <2>2
  <2>4. eof'[a] => /\ buffer'[Source(a)] = 0
                   /\ IF HasFiles(a) THEN writer[a] = "ended" ELSE Finished(a - 1) \/ output[a - 1] > 0
    BY <1>1, <1>2, <1>3, <1>5, NobodyWrites
  <2> QED BY <1>1, <1>2, <1>4, <2>1, <2>3, <2>4 DEF PipeOK, Finished
<1>14. a + 1 \in Programs /\ ~HasFiles(a + 1) => PipeOK(a + 1)'
  <2>1. a # Source(a)
    BY <1>0 DEF Source, FilePipe
  <2> QED BY <1>1, <1>7, <1>8, <1>10, <2>1, ReaderOK DEF SameBuffer, Finished
<1> QED BY <1>7, <1>10, <1>11, <1>12, <1>13, <1>14, OthersOK DEF ProgramOK

\* A write: into the pipe, into the file or to the terminal; or the end of the program.
LEMMA WriteOK ==
    ASSUME PipeInv, NEW a \in Programs, Write(a)
    PROVE  PipeInv'
<1>0. /\ atoms \in Pipelines /\ HeldOK(a) /\ WriterOK(a) /\ FlowOK(a) /\ PipeOK(a) /\ FilesOK(a)
      /\ held[Child(a)] \in SUBSET PipeEnds /\ owed[a] \in 0 .. MaxUnits /\ got[a] \in Nat /\ sent[a] \in Nat
      /\ output[a] \in Nat /\ pc[a] \in Phases
      /\ N \in Nat \ {0} /\ Programs = 1 .. N /\ Capacity \in Nat /\ MaxUnits \in Nat \ {0}
  BY Known, ProgramFacts
<1>1. /\ pc[a] = "run" /\ owed[a] > 0
      /\ UNCHANGED <<atoms, shell, forked, writer, left, got, eof, output>>
  BY DEF Write, shellVars
<1>2. \A p \in Output(a) : p = a /\ a \in Between /\ output[a] = 0
  <2>1. Output(a) = {p \in Pipes : p \in Takes(a)}
    BY <1>0, InputFacts DEF HeldOK
  <2> QED BY <1>0, <1>1, <2>1 DEF Takes
<1>3. ASSUME Written(a), UNCHANGED <<pc, held, short>>, NEW wrote \in BOOLEAN,
             wrote => a \in Between /\ output[a] = 0 /\ buffer[a] < Capacity,
             buffer' = IF wrote THEN [buffer EXCEPT ![a] = @ + 1] ELSE buffer,
             ~wrote => output[a] > 0 \/ a \notin Between,
             files' = IF wrote \/ output[a] = 0 THEN files ELSE [files EXCEPT ![a][output[a]].new = @ + 1]
      PROVE  PipeInv'
  <2>1. /\ N' = N /\ Programs' = Programs /\ Pipes' = Pipes /\ Holders' = Holders
        /\ PipeEnds' = PipeEnds /\ InVariables' = InVariables /\ Between' = Between
        /\ Child(a)' = Child(a) /\ Writer(a)' = Writer(a) /\ HasFiles(a)' = HasFiles(a)
        /\ Source(a)' = Source(a) /\ Contents(a)' = Contents(a) /\ FilePipe(a)' = FilePipe(a)
    BY <1>1, SamePipeline DEF Child, Writer
  <2>2. /\ sent \in [Programs -> Nat] /\ owed \in [Programs -> 0 .. MaxUnits]
        /\ buffer \in [Pipes -> 0 .. Capacity] /\ DOMAIN files = Programs /\ (a \in Between => a \in Pipes)
    BY DEF PipeInv, Values, Pipes
  <2>3. /\ sent' = [sent EXCEPT ![a] = sent[a] + 1] /\ owed' = [owed EXCEPT ![a] = owed[a] - 1]
    BY <1>3, <2>2 DEF Written
  <2>4. /\ sent' \in [Programs -> Nat] /\ owed' \in [Programs -> 0 .. MaxUnits]
        /\ buffer' \in [Pipes -> 0 .. Capacity] /\ DOMAIN files' = Programs
    <3>1. sent[a] + 1 \in Nat /\ owed[a] - 1 \in 0 .. MaxUnits
      BY <1>0, <1>1
    <3>2. wrote => buffer[a] + 1 \in 0 .. Capacity
      BY <1>0, <1>3, <2>2
    <3> QED BY <1>3, <2>2, <2>3, <3>1, <3>2
  <2>5. Values'
    BY <1>1, <1>3, <2>1, <2>4 DEF PipeInv, Values
  <2>6. /\ sent'[a] = sent[a] + 1 /\ owed'[a] = owed[a] - 1
        /\ \A b \in Programs \ {a} : sent'[b] = sent[b] /\ owed'[b] = owed[b] /\ files'[b] = files[b]
        /\ \A p \in Pipes \ {a} : buffer'[p] = buffer[p]
    BY <1>3, <2>2, <2>3
  <2>7. StepOf(a)
    BY <1>1, <1>3, <2>6 DEF StepOf, Same, SameBuffer, Shell
  <2>8. HeldOK(a)' /\ WriterOK(a)'
    <3>1. Feeds(a)' = Feeds(a) /\ Takes(a)' = Takes(a)
      BY <1>1, <1>3, <2>1 DEF Feeds, Takes
    <3>2. HeldOK(a)'
      BY <1>0, <1>3, <2>1, <3>1 DEF HeldOK, End
    <3>3. WriterOK(a)'
      BY <1>0, <1>1, <1>3, <2>1 DEF WriterOK
    <3> QED BY <3>2, <3>3
  <2>9. FlowOK(a)'
    <3>1. sent'[a] + owed'[a] = sent[a] + owed[a]
      BY <1>0, <2>6
    <3>2. a \notin short
      BY <1>0, <1>1 DEF FlowOK, Done
    <3> QED BY <1>0, <1>1, <1>3, <2>1, <3>1, <3>2 DEF FlowOK, Done, Starting
  <2>10. PipeOK(a)'
    <3>1. a > 1 => a - 1 \in Programs \ {a}
      BY <1>0
    <3>2. a > 1 \/ HasFiles(a) => Source(a) \in Pipes \ {a}
      <4>1. a # Source(a)
        BY <1>0 DEF Source, FilePipe
      <4> QED BY <4>1, Known
    <3>3. a > 1 \/ HasFiles(a) => buffer'[Source(a)] = buffer[Source(a)]
      BY <2>6, <3>2
    <3> QED BY <1>0, <1>1, <1>3, <2>1, <2>6, <3>1, <3>3 DEF PipeOK, Finished
  <2>11. FilesOK(a)'
    <3>1. /\ DOMAIN files[a] = DOMAIN atoms[a].out /\ output[a] = Len(atoms[a].out)
          /\ \A k \in DOMAIN files[a] : /\ files[a][k] \in [old : BOOLEAN, new : Nat]
                                        /\ files[a][k].new = IF k = output[a] THEN sent[a] ELSE 0
      BY <1>0, <1>1 DEF FilesOK
    <3>2. DOMAIN atoms[a].out = 1 .. Len(atoms[a].out) /\ Len(atoms[a].out) \in Nat
      BY <1>0, ProgramFacts
    <3>3. DOMAIN files'[a] = DOMAIN files[a]
      BY <1>3, <2>2
    <3>4. \A k \in DOMAIN files[a] : /\ files'[a][k] \in [old : BOOLEAN, new : Nat]
                                     /\ files'[a][k].new = IF k = output[a] THEN sent[a] + 1 ELSE 0
      <4>1. CASE output[a] = 0
        BY <1>3, <3>1, <3>2, <4>1
      <4>2. CASE output[a] > 0
        <5>1. files' = [files EXCEPT ![a][output[a]].new = @ + 1]
          BY <1>3, <4>2
        <5>2. files'[a] = [files[a] EXCEPT ![output[a]].new = @ + 1]
          BY <2>2, <5>1
        <5>3. \A k \in DOMAIN files[a] :
                 files'[a][k] = IF k = output[a] THEN [files[a][k] EXCEPT !.new = @ + 1] ELSE files[a][k]
          BY <5>2
        <5>4. \A r \in [old : BOOLEAN, new : Nat] :
                 /\ [r EXCEPT !.new = @ + 1] \in [old : BOOLEAN, new : Nat]
                 /\ [r EXCEPT !.new = @ + 1].new = r.new + 1
          OBVIOUS
        <5> SUFFICES ASSUME NEW k \in DOMAIN files[a]
                     PROVE  /\ files'[a][k] \in [old : BOOLEAN, new : Nat]
                            /\ files'[a][k].new = IF k = output[a] THEN sent[a] + 1 ELSE 0
          OBVIOUS
        <5>5. CASE k = output[a]
          <6>1. files[a][k] \in [old : BOOLEAN, new : Nat] /\ files[a][k].new = sent[a]
            BY <3>1, <5>5
          <6>2. files'[a][k] = [files[a][k] EXCEPT !.new = @ + 1]
            BY <5>3, <5>5
          <6> QED BY <5>4, <5>5, <6>1, <6>2
        <5>6. CASE k # output[a]
          BY <3>1, <5>3, <5>6
        <5> QED BY <5>5, <5>6
      <4> QED BY <1>0, <4>1, <4>2
    <3>5. /\ (DOMAIN atoms[a].out)' = DOMAIN atoms[a].out /\ (Len(atoms[a].out))' = Len(atoms[a].out)
          /\ (output[a])' = output[a] /\ (pc[a])' = "run" /\ (sent[a])' = sent[a] + 1 /\ (files[a])' = files'[a]
      BY <1>1, <1>3, <2>6
    <3> QED BY <3>1, <3>3, <3>4, <3>5 DEF FilesOK, NotYet
  <2>12. a + 1 \in Programs /\ ~HasFiles(a + 1) => PipeOK(a + 1)'
    <3> SUFFICES ASSUME a + 1 \in Programs, ~HasFiles(a + 1) PROVE PipeOK(a + 1)'
      OBVIOUS
    <3>1. /\ a \in Nat /\ (a + 1) - 1 = a /\ a + 1 > 1 /\ a + 1 # a /\ a \in Between /\ a \in Pipes
      <4>1. a \in Nat /\ a + 1 \in 1 .. N
        BY <1>0
      <4> QED BY <4>1, <1>0 DEF Between, Pipes
    <3>2. Source(a + 1) = a /\ Source(a + 1)' = a /\ ~HasFiles(a + 1)'
      BY <1>1, <3>1, SamePipeline DEF Source
    <3>3. PipeOK(a + 1) /\ got[a + 1] \in Nat /\ buffer[a] \in Nat /\ buffer'[a] \in Nat
      <4>1. PipeOK(a + 1) /\ got[a + 1] \in Nat
        BY Known
      <4>2. buffer[a] \in 0 .. Capacity /\ buffer'[a] \in 0 .. Capacity
        BY <2>2, <2>4, <3>1
      <4> QED BY <1>0, <4>1, <4>2
    <3>4. ~Finished(a)
      BY <1>1 DEF Finished
    <3>5. CASE wrote
      <4>1. output[a] = 0 /\ buffer'[a] = buffer[a] + 1
        BY <1>3, <2>2, <3>1, <3>5
      <4>2. ~eof[a + 1] /\ got[a + 1] + buffer[a] = sent[a]
        BY <3>1, <3>2, <3>3, <3>4, <4>1 DEF PipeOK
      <4>3. got[a + 1] + buffer'[a] = sent'[a]
        <5>1. \A x, y, z \in Nat : x + y = z => x + (y + 1) = z + 1
          OBVIOUS
        <5> QED BY <1>0, <2>6, <3>3, <4>1, <4>2, <5>1
      <4> QED BY <1>1, <3>1, <3>2, <4>1, <4>2, <4>3 DEF PipeOK
    <3>6. CASE ~wrote
      <4>1. output[a] > 0 /\ buffer'[a] = buffer[a]
        BY <1>0, <1>3, <3>1, <3>6
      <4> QED BY <1>1, <3>1, <3>2, <3>3, <4>1 DEF PipeOK
    <3> QED BY <1>3, <3>5, <3>6
  <2> QED BY <2>5, <2>7, <2>8, <2>9, <2>10, <2>11, <2>12, OthersOK DEF ProgramOK
<1>4. CASE Output(a) = {} /\ Written(a) /\ UNCHANGED <<pc, held, buffer, short>>
           /\ files' = IF output[a] = 0 THEN files ELSE [files EXCEPT ![a][output[a]].new = @ + 1]
  <2>1. output[a] > 0 \/ a \notin Between
    <3>1. \A p \in Pipes : p \notin Takes(a)
      BY <1>0, <1>4, InputFacts DEF HeldOK
    <3>2. a \in Between => a \in Pipes
      BY DEF Pipes
    <3> QED BY <1>0, <1>1, <3>1, <3>2 DEF Takes, Done
  <2> QED BY <1>3, <1>4, <2>1
<1>5. ASSUME NEW p \in Output(a), buffer[p] < Capacity, Written(a),
             buffer' = [buffer EXCEPT ![p] = @ + 1], UNCHANGED <<pc, held, short, files>>
      PROVE  PipeInv'
  <2>1. p = a /\ a \in Between /\ output[a] = 0
    BY <1>2, <1>5
  <2> QED BY <1>3, <1>5, <2>1
<1>6. CASE Ends(a) /\ short' = short \cup {a} /\ UNCHANGED <<buffer, owed, sent, files>>
  <2>1. Values'
    <3>1. /\ Programs' = Programs /\ N' = N /\ Pipes' = Pipes /\ Holders' = Holders /\ PipeEnds' = PipeEnds
      BY <1>1, SamePipeline
    <3>2. pc' \in [Programs -> Phases] /\ held' \in [Holders -> SUBSET PipeEnds]
      BY <1>6 DEF Ends, PipeInv, Values, Phases
    <3> QED BY <1>1, <1>6, <3>1, <3>2 DEF PipeInv, Values
  <2>2. \A k \in DOMAIN files[a] : files[a][k] \in [old : BOOLEAN, new : Nat]
    BY <1>0 DEF FilesOK
  <2> QED BY <1>1, <1>6, <2>1, <2>2, EndsOK
<1> QED BY <1>4, <1>5, <1>6 DEF Write

-----------------------------------------------------------------------------
(* The theorems. *)

\* Nothing has happened yet.
LEMMA InitOK == Init => PipeInv
<1> SUFFICES ASSUME Init PROVE PipeInv
  OBVIOUS
<1>0. /\ atoms \in Pipelines /\ N \in Nat \ {0} /\ Programs = 1 .. N /\ Capacity \in Nat /\ MaxUnits \in Nat
      /\ Shell \in Holders /\ \A a \in Programs : Child(a) \in Holders /\ Writer(a) \in Holders
      /\ \A a \in Programs : Len(atoms[a].out) \in Nat
      /\ \A a \in Programs : DOMAIN atoms[a].out = 1 .. Len(atoms[a].out)
  BY ProgramFacts DEF Init
<1>1. Values
  BY <1>0 DEF Init, Values, Phases
<1>2. ShellOK
  BY <1>0 DEF Init, ShellOK
<1>3. ASSUME NEW a \in Programs
      PROVE  ProgramOK(a)
  <2>1. /\ pc[a] = "none" /\ writer[a] = "none" /\ left[a] = 0 /\ owed[a] = 0 /\ got[a] = 0 /\ sent[a] = 0
        /\ eof[a] = FALSE /\ output[a] = 0 /\ a \notin short
        /\ files[a] = [k \in DOMAIN atoms[a].out |-> [old |-> TRUE, new |-> 0]]
        /\ held[Child(a)] = {} /\ held[Writer(a)] = {}
    BY <1>0 DEF Init
  <2>2. HeldOK(a) /\ WriterOK(a)
    BY <2>1 DEF HeldOK, WriterOK, Feeds, Takes, Starting, NotYet
  <2>3. FlowOK(a)
    BY <2>1 DEF FlowOK, Starting, Done
  <2>4. PipeOK(a)
    <3>1. a > 1 \/ HasFiles(a) => Source(a) \in Pipes
      <4>1. a \in Int
        BY <1>0
      <4> QED BY <1>0, <4>1 DEF Source, Pipes, Between, FilePipe
    <3>2. a > 1 => a - 1 \in Programs
      BY <1>0
    <3> QED BY <2>1, <3>1, <3>2 DEF Init, PipeOK
  <2>5. FilesOK(a)
    BY <1>0, <2>1 DEF FilesOK, NotYet, Done
  <2> QED BY <2>2, <2>3, <2>4, <2>5 DEF ProgramOK
<1> QED BY <1>1, <1>2, <1>3 DEF PipeInv

\* Every step of every process keeps the invariant.
LEMMA NextOK == PipeInv /\ [Next]_vars => PipeInv'
<1> SUFFICES ASSUME PipeInv, [Next]_vars PROVE PipeInv'
  OBVIOUS
<1>1. CASE ShellStep
  BY <1>1, OpenAndClose, ForkOK, WaitOK, AllWaitedFor DEF ShellStep
<1>2. ASSUME NEW a \in Programs, ChildStep(a)
      PROVE  PipeInv'
  BY <1>2, ConnectOK, ForkWriterOK, OpenOutputOK, ExecOK, ReadOK, WriteOK, ExitOK DEF ChildStep
<1>3. ASSUME NEW a \in Programs, WriterStep(a)
      PROVE  PipeInv'
  BY <1>3, WriterStepOK
<1>4. ASSUME NEW a \in Programs, EndsEarly(a)
      PROVE  PipeInv'
  BY <1>4, ExitOK
<1>5. CASE UNCHANGED vars
  <2>1. /\ UNCHANGED <<atoms, forked, pc, writer, left, buffer, programVars, fileVars>> /\ held' = held
        /\ UNCHANGED <<shell, owed, got, sent, eof, short, output, files>>
    BY <1>5 DEF vars, shellVars, programVars, fileVars
  <2>2. /\ N' = N /\ Programs' = Programs /\ Pipes' = Pipes /\ Holders' = Holders /\ PipeEnds' = PipeEnds
        /\ InVariables' = InVariables /\ Shell' = Shell
    BY <2>1, SamePipeline DEF Shell
  <2>3. Values'
    BY <2>1, <2>2 DEF PipeInv, Values
  <2>4. ShellOK'
    BY <2>1, <2>2 DEF PipeInv, ShellOK
  <2> QED BY <2>1, <2>3, <2>4, ShellAlone
<1> QED BY <1>1, <1>2, <1>3, <1>4, <1>5 DEF Next

\* The variables take these values only, who has ended holds no descriptor, and
\* at the prompt every program was waited for, however the processes interleave.
THEOREM TypeCorrect == Spec => []TypeOK
<1>1. PipeInv => TypeOK
  <2> SUFFICES ASSUME PipeInv PROVE TypeOK
    OBVIOUS
  <2>1. /\ shell \in {"pipe", "fork", "wait", "prompt"} /\ forked \in 0 .. N
        /\ \A p \in Pipes : buffer[p] \in 0 .. Capacity
    BY DEF PipeInv, Values
  <2>2. ASSUME NEW a \in Programs
        PROVE  /\ pc[a] \in Phases /\ (pc[a] = "none" <=> a > forked)
               /\ pc[a] \in {"none", "ended", "reaped"} => held[Child(a)] = {}
               /\ writer[a] # "write" => held[Writer(a)] = {}
               /\ owed[a] \in 0 .. MaxUnits /\ output[a] \in 0 .. Len(atoms[a].out)
               /\ shell = "prompt" => pc[a] = "reaped"
    <3>1. /\ HeldOK(a) /\ WriterOK(a) /\ FilesOK(a) /\ pc[a] \in Phases /\ owed[a] \in 0 .. MaxUnits
      BY Known
    <3>2. output[a] \in 0 .. Len(atoms[a].out)
      <4>1. Len(atoms[a].out) \in Nat
        BY Known, ProgramFacts
      <4> QED BY <3>1, <4>1 DEF FilesOK
    <3> QED BY <3>1, <3>2 DEF PipeInv, ShellOK, HeldOK, WriterOK, Done
  <2> QED BY <2>1, <2>2 DEF TypeOK, Phases
<1> QED BY InitOK, NextOK, <1>1, PTL DEF Spec

\* However the processes interleave and whichever ends early, a program is told
\* of the end of its input only after what feeds it has ended.
THEOREM EndIsTheEnd == Spec => []EndOfFileIsEnd
<1>1. PipeInv => EndOfFileIsEnd
  BY DEF PipeInv, ProgramOK, PipeOK, HasFiles, EndOfFileIsEnd
<1> QED BY InitOK, NextOK, <1>1, PTL DEF Spec

\* At the prompt everything has arrived, through pipelines of any length, with
\* files and pipes of any size.
THEOREM EverythingArrives == Spec => []Delivered
<1>1. PipeInv => Delivered
  <2> SUFFICES ASSUME PipeInv, shell = "prompt",
                      NEW a \in Programs, a \notin short, Found(a, Len(atoms[a].in))
               PROVE  /\ sent[a] = Fed(a)
                      /\ \A k \in DOMAIN files[a] : files[a][k].new = IF k = Len(files[a]) THEN Fed(a) ELSE 0
    BY DEF Delivered
  <2>0. /\ atoms \in Pipelines /\ WriterOK(a) /\ FlowOK(a) /\ PipeOK(a) /\ FilesOK(a)
        /\ owed[a] \in 0 .. MaxUnits /\ got[a] \in Nat /\ sent[a] \in Nat /\ left[a] \in Nat
        /\ a > 1 \/ HasFiles(a) => buffer[Source(a)] \in 0 .. Capacity
        /\ N \in Nat \ {0} /\ Programs = 1 .. N /\ Capacity \in Nat
    BY Known, ProgramFacts
  <2>1. pc[a] = "reaped" /\ owed[a] = 0 /\ (eof[a] \/ (a = 1 /\ ~HasFiles(a)))
    BY <2>0 DEF PipeInv, ShellOK, FlowOK, Done
  <2>2. sent[a] = Fed(a)
    <3>1. CASE HasFiles(a)
      <4>1. sent[a] + owed[a] = got[a] /\ buffer[Source(a)] = 0 /\ writer[a] = "ended" /\ left[a] = 0
        BY <2>0, <2>1, <3>1 DEF FlowOK, PipeOK, WriterOK
      <4>2. got[a] + buffer[Source(a)] + left[a] = Contents(a)
        BY <2>0, <3>1, <4>1 DEF PipeOK
      <4>3. Fed(a) = Contents(a)
        BY <2>0, <3>1, ContentsFacts DEF Fed, HasFiles
      <4> QED BY <2>0, <2>1, <4>1, <4>2, <4>3
    <3>2. CASE ~HasFiles(a) /\ a = 1
      <4>1. sent[a] + owed[a] = MaxUnits
        BY <2>0, <2>1, <3>2 DEF FlowOK, Done
      <4>2. Fed(a) = MaxUnits
        BY <3>2 DEF Fed, HasFiles
      <4> QED BY <2>0, <2>1, <4>1, <4>2
    <3>3. CASE ~HasFiles(a) /\ a > 1
      <4>1. sent[a] + owed[a] = got[a] /\ buffer[Source(a)] = 0
            /\ got[a] + buffer[Source(a)] = IF output[a - 1] > 0 THEN 0 ELSE sent[a - 1]
        BY <2>0, <2>1, <3>3 DEF FlowOK, PipeOK
      <4>2. Fed(a) = IF output[a - 1] > 0 THEN 0 ELSE sent[a - 1]
        BY <2>0, <3>3 DEF Fed, HasFiles
      <4> QED BY <2>0, <2>1, <4>1, <4>2
    <3>4. a = 1 \/ a > 1
      BY <2>0
    <3> QED BY <3>1, <3>2, <3>3, <3>4
  <2>3. ASSUME NEW k \in DOMAIN files[a]
        PROVE  files[a][k].new = IF k = Len(files[a]) THEN Fed(a) ELSE 0
    <3>1. DOMAIN files[a] = 1 .. Len(atoms[a].out) /\ Len(atoms[a].out) \in Nat
      BY <2>0, ProgramFacts DEF FilesOK
    <3>2. Len(files[a]) = Len(atoms[a].out)
      BY <3>1
    <3>3. files[a][k].new = IF k = Len(atoms[a].out) THEN sent[a] ELSE 0
      BY <2>0, <2>1 DEF FilesOK, Done
    <3> QED BY <2>2, <3>2, <3>3
  <2> QED BY <2>2, <2>3
<1> QED BY InitOK, NextOK, <1>1, PTL DEF Spec
=============
