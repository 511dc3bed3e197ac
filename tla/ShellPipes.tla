----------------------------- MODULE ShellPipes -----------------------------
(***************************************************************************)
(* The pipes and redirections of shell/src: execute_pipeline of pipe.c,    *)
(* and execute_command of atomic.c, which is the case of one program.      *)
(*                                                                         *)
(* The processes are the shell, the children 1 .. N that become the        *)
(* programs, and the writer that a child with input files forks to copy    *)
(* them into a pipe, and waits for before it becomes the program.  fork    *)
(* copies the descriptors: an end of a pipe is closed when nobody holds    *)
(* it any more.  Pipe a leads from program a to program a + 1, pipe N + a  *)
(* from the writer of a to a.                                              *)
(*                                                                         *)
(* Kernel and programs are external.  A write into a full pipe blocks, one *)
(* into a pipe nobody can read kills the program; a read of an empty one   *)
(* blocks until the last write end is closed.  A program copies its input  *)
(* to its output, what comes from the terminal being MaxUnits units, and   *)
(* may end before its input does.                                          *)
(***************************************************************************)
EXTENDS Integers, Sequences, FiniteSets, SequencesExt

CONSTANTS Pipelines,      \* the groups typed: for each program its files
          Capacity,       \* of a pipe
          MaxPrograms,    \* how many programs they have at most
          MaxUnits        \* bound on what the first program makes of the terminal

Missing == -1             \* a file that cannot be opened

\* in: the sizes of the input files; out: of the output files, whether each was
\* given by >>, or that it cannot be opened.
ASSUME PipesAssumption ==
    /\ {Capacity, MaxUnits} \subseteq Nat \ {0}
    /\ \A cmd \in Pipelines : Len(cmd) \in 1 .. MaxPrograms
    /\ \A cmd \in Pipelines : \A a \in DOMAIN cmd :
         /\ cmd[a].in \in Seq(Nat \cup {Missing})
         /\ cmd[a].out \in Seq({">", ">>", "missing"})

VARIABLES
    atoms,                \* the pipeline
    shell, forked,        \* where the shell is, and how many it forked
    pc,                   \* where child a is
    writer, left,         \* where the writer of a is, and what it has to write
    held,                 \* of each process, the ends it holds
    buffer,               \* how full each pipe is
    owed, got, sent,      \* of program a: to be written, read, written so far
    eof,                  \* it has seen the end of its input
    output,               \* where its output goes: 0 is standard output, else a file
    files,                \* output files: what they held before, and what was written
    short                 \* history: programs that failed, were killed or ended early

shellVars == <<shell, forked>>
programVars == <<owed, got, sent, eof, short>>
fileVars == <<output, files>>
vars == <<atoms, shellVars, pc, writer, left, held, buffer, programVars, fileVars>>

N == Len(atoms)
Programs == 1 .. N
Between == 1 .. N - 1
FilePipe(a) == N + a
Pipes == Between \cup {FilePipe(a) : a \in Programs}

Shell == <<"shell", 0>>
Child(a) == <<"child", a>>
Writer(a) == <<"writer", a>>
Holders == {Shell} \cup {Child(a) : a \in Programs} \cup {Writer(a) : a \in Programs}

\* An end, in a variable of the code or as standard input or output.
End(pipe, mode, slot) == [pipe |-> pipe, mode |-> mode, slot |-> slot]
InVariables == {End(p, m, "pipes") : p \in Between, m \in {"r", "w"}}
Drop(ends, slot) == {x \in ends : x.slot # slot}
Without(ends, mode) == {x \in ends : ~(x.slot = "std" /\ x.mode = mode)}
Open(pipe, mode) == \E h \in Holders : \E x \in held[h] : x.pipe = pipe /\ x.mode = mode

-----------------------------------------------------------------------------
(* The shell. *)

Pipe == /\ shell = "pipe" /\ shell' = "fork"
        /\ held' = [held EXCEPT ![Shell] = InVariables]
        /\ UNCHANGED <<atoms, forked, pc, writer, left, buffer, programVars, fileVars>>

Fork == /\ shell = "fork" /\ forked < N
        /\ forked' = forked + 1
        /\ pc' = [pc EXCEPT ![forked + 1] = "connect"]
        /\ held' = [held EXCEPT ![Child(forked + 1)] = held[Shell]]
        /\ UNCHANGED <<atoms, shell, writer, left, buffer, programVars, fileVars>>

KeepAll(ends) == ends                                                      \* bug
ClosePipes(ends) == Drop(ends, "pipes")

Close == /\ shell = "fork" /\ forked = N /\ shell' = "wait"
         /\ held' = [held EXCEPT ![Shell] = ClosePipes(@)]
         /\ UNCHANGED <<atoms, forked, pc, writer, left, buffer, programVars, fileVars>>

Wait(a) == /\ shell = "wait" /\ pc[a] = "ended"
           /\ pc' = [pc EXCEPT ![a] = "reaped"]
           /\ UNCHANGED <<atoms, shellVars, writer, left, held, buffer, programVars, fileVars>>

EnoughWaits(n) == n = N

Over == /\ shell = "wait" /\ EnoughWaits(Cardinality({a \in Programs : pc[a] = "reaped"}))
        /\ shell' = "prompt"
        /\ UNCHANGED <<atoms, forked, pc, writer, left, held, buffer, programVars, fileVars>>

-----------------------------------------------------------------------------
(* A child, until it becomes the program. *)

BackToFront(a) == {End(p, "r", "std") : p \in {a - 1} \cap Between}        \* bug
                  \cup {End(p, "w", "std") : p \in {a - 1} \cap Between}
Connections(a) == {End(p, "r", "std") : p \in {a - 1} \cap Between}
                  \cup {End(p, "w", "std") : p \in {a} \cap Between}

\* The two dup2.
Connect(a) == /\ pc[a] = "connect" /\ pc' = [pc EXCEPT ![a] = "infiles"]
              /\ held' = [held EXCEPT ![Child(a)] = @ \cup Connections(a)]
              /\ UNCHANGED <<atoms, shellVars, writer, left, buffer, programVars, fileVars>>

\* What the writer copies: the files up to one that is missing.
Sums(sizes) == LET sum[k \in 0 .. Len(sizes)] == IF k = 0 THEN 0 ELSE sum[k - 1] + sizes[k] IN sum
Total(sizes) == Sums(sizes)[Len(sizes)]
Found(a, k) == \A j \in 1 .. k : atoms[a].in[j] # Missing
Sizes(a) == [k \in DOMAIN atoms[a].in |-> IF Found(a, k) THEN atoms[a].in[k] ELSE 0]
LastOnly(a) == IF Sizes(a) = <<>> THEN 0 ELSE Last(Sizes(a))               \* bug
Contents(a) == Total(Sizes(a))

ForkWriter(a) ==
    /\ pc[a] = "infiles" /\ atoms[a].in # <<>>
    /\ pc' = [pc EXCEPT ![a] = "wait"]
    /\ writer' = [writer EXCEPT ![a] = "write"]
    /\ left' = [left EXCEPT ![a] = Contents(a)]
    /\ held' = [held EXCEPT
         ![Writer(a)] = held[Child(a)] \cup {End(FilePipe(a), "w", "std")},
         ![Child(a)] = Without(@, "r") \cup {End(FilePipe(a), "r", "std")}]
    /\ UNCHANGED <<atoms, shellVars, buffer, programVars, fileVars>>

NoInput(a) == /\ pc[a] = "infiles" /\ atoms[a].in = <<>>
              /\ pc' = [pc EXCEPT ![a] = "outfiles"]
              /\ UNCHANGED <<atoms, shellVars, writer, left, held, buffer, programVars, fileVars>>

WriterOver(a) == /\ pc[a] = "wait" /\ writer[a] = "ended"
                 /\ pc' = [pc EXCEPT ![a] = "outfiles"]
                 /\ UNCHANGED <<atoms, shellVars, writer, left, held, buffer, programVars, fileVars>>

\* A child ends: its descriptors are closed.
Ends(a) == pc' = [pc EXCEPT ![a] = "ended"] /\ held' = [held EXCEPT ![Child(a)] = {}]

\* Each is opened as the last one was given (Atomic.append), up to one that cannot be.
Appends(a) == atoms[a].out # <<>> /\ Last(atoms[a].out) = ">>"
CanOpen(a, k) == \A j \in 1 .. k : atoms[a].out[j] # "missing"
Opened(a) == [k \in DOMAIN files[a] |->
                IF CanOpen(a, k) /\ ~Appends(a) THEN [old |-> FALSE, new |-> 0] ELSE files[a][k]]

OpenOutput(a) ==
    /\ pc[a] = "outfiles" /\ files' = [files EXCEPT ![a] = Opened(a)]
    /\ IF CanOpen(a, Len(atoms[a].out))
       THEN /\ pc' = [pc EXCEPT ![a] = "close"]
            /\ output' = [output EXCEPT ![a] = Len(atoms[a].out)]
            /\ held' = [held EXCEPT ![Child(a)] = IF atoms[a].out = <<>> THEN @ ELSE Without(@, "w")]
            /\ UNCHANGED short
       ELSE Ends(a) /\ short' = short \cup {a} /\ UNCHANGED output
    /\ UNCHANGED <<atoms, shellVars, writer, left, buffer, owed, got, sent, eof>>

\* Closes the pipes and becomes the program.
Exec(a) == /\ pc[a] = "close" /\ pc' = [pc EXCEPT ![a] = "run"]
           /\ held' = [held EXCEPT ![Child(a)] = ClosePipes(@)]
           /\ owed' = [owed EXCEPT ![a] = IF \E x \in held[Child(a)] : x.slot = "std" /\ x.mode = "r"
                                          THEN 0 ELSE MaxUnits]
           /\ UNCHANGED <<atoms, shellVars, writer, left, buffer, got, sent, eof, short, fileVars>>

-----------------------------------------------------------------------------
(* A writer. *)

Copy(a) == /\ writer[a] = "write" /\ left[a] > 0 /\ buffer[FilePipe(a)] < Capacity
           /\ left' = [left EXCEPT ![a] = @ - 1]
           /\ buffer' = [buffer EXCEPT ![FilePipe(a)] = @ + 1]
           /\ UNCHANGED <<atoms, shellVars, pc, writer, held, programVars, fileVars>>

Copied(a) == /\ writer[a] = "write" /\ left[a] = 0
             /\ writer' = [writer EXCEPT ![a] = "ended"]
             /\ held' = [held EXCEPT ![Writer(a)] = {}]
             /\ UNCHANGED <<atoms, shellVars, pc, left, buffer, programVars, fileVars>>

-----------------------------------------------------------------------------
(* A program. *)

Input(a) == {x.pipe : x \in {y \in held[Child(a)] : y.slot = "std" /\ y.mode = "r"}}
Output(a) == {x.pipe : x \in {y \in held[Child(a)] : y.slot = "std" /\ y.mode = "w"}}

Read(a) ==
    /\ pc[a] = "run" /\ owed[a] = 0 /\ ~eof[a]
    /\ \E p \in Input(a) :
         \/ /\ buffer[p] > 0 /\ buffer' = [buffer EXCEPT ![p] = @ - 1]
            /\ got' = [got EXCEPT ![a] = @ + 1] /\ owed' = [owed EXCEPT ![a] = 1]
            /\ UNCHANGED eof
         \/ /\ buffer[p] = 0 /\ ~Open(p, "w")
            /\ eof' = [eof EXCEPT ![a] = TRUE] /\ UNCHANGED <<buffer, got, owed>>
    /\ UNCHANGED <<atoms, shellVars, pc, writer, left, held, sent, short, fileVars>>

Written(a) == sent' = [sent EXCEPT ![a] = @ + 1] /\ owed' = [owed EXCEPT ![a] = @ - 1]

Write(a) ==
    /\ pc[a] = "run" /\ owed[a] > 0
    /\ \/ /\ Output(a) = {} /\ Written(a)
          /\ files' = IF output[a] = 0 THEN files ELSE [files EXCEPT ![a][output[a]].new = @ + 1]
          /\ UNCHANGED <<pc, held, buffer, short>>
       \/ \E p \in Output(a) :
            \/ /\ Open(p, "r") /\ buffer[p] < Capacity /\ Written(a)
               /\ buffer' = [buffer EXCEPT ![p] = @ + 1]
               /\ UNCHANGED <<pc, held, short, files>>
            \/ /\ ~Open(p, "r") /\ Ends(a) /\ short' = short \cup {a}      \* SIGPIPE
               /\ UNCHANGED <<buffer, owed, sent, files>>
    /\ UNCHANGED <<atoms, shellVars, writer, left, got, eof, output>>

Exit(a) == /\ pc[a] = "run" /\ owed[a] = 0 /\ (eof[a] \/ Input(a) = {}) /\ Ends(a)
           /\ UNCHANGED <<atoms, shellVars, writer, left, buffer, programVars, fileVars>>

EndsEarly(a) == /\ pc[a] = "run" /\ Ends(a) /\ short' = short \cup {a}
                /\ UNCHANGED <<atoms, shellVars, writer, left, buffer, owed, got, sent, eof, fileVars>>

-----------------------------------------------------------------------------

Init == /\ atoms \in Pipelines
        /\ shell = "pipe" /\ forked = 0
        /\ pc = [a \in Programs |-> "none"] /\ writer = [a \in Programs |-> "none"]
        /\ left = [a \in Programs |-> 0] /\ held = [h \in Holders |-> {}]
        /\ buffer = [p \in Pipes |-> 0]
        /\ owed = [a \in Programs |-> 0] /\ got = owed /\ sent = owed
        /\ eof = [a \in Programs |-> FALSE]
        /\ output = [a \in Programs |-> 0]
        /\ files = [a \in Programs |-> [k \in DOMAIN atoms[a].out |-> [old |-> TRUE, new |-> 0]]]
        /\ short = {}

ShellStep == Pipe \/ Fork \/ Close \/ (\E a \in Programs : Wait(a)) \/ Over
ChildStep(a) == \/ Connect(a) \/ ForkWriter(a) \/ NoInput(a) \/ WriterOver(a) \/ OpenOutput(a)
                \/ Exec(a) \/ Read(a) \/ Write(a) \/ Exit(a)
WriterStep(a) == Copy(a) \/ Copied(a)

Next == \/ ShellStep
        \/ \E a \in Programs : ChildStep(a) \/ WriterStep(a) \/ EndsEarly(a)

Spec == Init /\ [][Next]_vars

\* Every process goes on when it can; no program need end early.
LiveSpec == /\ Spec /\ WF_vars(ShellStep)
            /\ \A a \in 1 .. MaxPrograms :
                 /\ WF_vars(a \in Programs /\ ChildStep(a))
                 /\ WF_vars(a \in Programs /\ WriterStep(a))

-----------------------------------------------------------------------------
(* Properties. *)

\* The values the variables take; whoever has ended holds nothing, and at the
\* prompt every program has ended and was waited for.
TypeOK ==
    /\ shell \in {"pipe", "fork", "wait", "prompt"} /\ forked \in 0 .. N
    /\ \A a \in Programs :
         /\ pc[a] \in {"none", "connect", "infiles", "wait", "outfiles", "close", "run", "ended", "reaped"}
         /\ pc[a] = "none" <=> a > forked
         /\ pc[a] \in {"none", "ended", "reaped"} => held[Child(a)] = {}
         /\ writer[a] # "write" => held[Writer(a)] = {}
         /\ owed[a] \in 0 .. MaxUnits /\ output[a] \in 0 .. Len(atoms[a].out)
         /\ shell = "prompt" => pc[a] = "reaped"
    /\ \A p \in Pipes : buffer[p] \in 0 .. Capacity

Finished(a) == pc[a] \in {"ended", "reaped"}

\* A program sees the end of its input only after what feeds it has ended: its
\* writer, or the program before it, unless that writes to a file of its own.
EndOfFileIsEnd ==
    \A a \in Programs : eof[a] =>
        IF atoms[a].in # <<>> THEN writer[a] = "ended"
        ELSE Finished(a - 1) \/ output[a - 1] > 0

\* What goes into program a when all its files are found.
Fed(a) == IF atoms[a].in # <<>> THEN Total(atoms[a].in)
          ELSE IF a = 1 THEN MaxUnits ELSE IF output[a - 1] > 0 THEN 0 ELSE sent[a - 1]

\* At the prompt every program that was not cut short has written all that it
\* was given, by the program before or by all its files in a row, and the last
\* of its output files has all of it.
Delivered ==
    shell = "prompt" => \A a \in Programs : a \notin short /\ Found(a, Len(atoms[a].in)) =>
        /\ sent[a] = Fed(a)
        /\ \A k \in DOMAIN files[a] : files[a][k].new = IF k = Len(files[a]) THEN Fed(a) ELSE 0

FilesFit == \A a \in Programs : Contents(a) <= Capacity

\* The prompt comes back from every pipeline, whatever its programs leave
\* unread, if the input files of each fit into a pipe.
PipelineEnds == FilesFit ~> shell = "prompt"

(* What the code does not keep. *)

\* However large the files are (pipe.c:62).
EveryPipelineEnds == <>(shell = "prompt")

\* "use append mode for >> only for the last file" (atomic.c:52)
OnlyLastAppended == \A a \in Programs : pc[a] = "run" =>
                        \A k \in 1 .. Len(files[a]) - 1 : ~files[a][k].old
=============================================================================
