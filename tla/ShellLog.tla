------------------------------ MODULE ShellLog ------------------------------
(***************************************************************************)
(* The command history of shell/src: the ring logs[] of log.c, the file    *)
(* logs.txt it is kept in, and the replay of one of its entries by         *)
(* "log execute n".  A line is a sequence of commands, which main() of     *)
(* shell.c runs one by one; they are records of a name and an argument:    *)
(* a program, "hop" and "reveal" with paths, "log", "purge" or "execute"   *)
(* n.  logs.txt is written in shell_home, and read in the directory the    *)
(* shell is in (ShellHop).                                                 *)
(*                                                                         *)
(* The shell may be killed at any time.  logs.txt is written through the   *)
(* buffer of stdio, so that the last line a killed shell leaves may be the *)
(* beginning of an entry only.  What is in logs.txt is loaded when it is   *)
(* started again, in the directory it was started in before.               *)
(***************************************************************************)
EXTENDS ShellHop

CONSTANTS LogSize,        \* 15
          Programs,       \* the commands that are none of the shell's own
          Lines,          \* the lines that are typed
          Beginnings,     \* for each of them what its proper beginnings read as
          MaxDeaths       \* bound: how often the shell ends or is killed

ASSUME LogAssumption == LogSize \in Nat \ {0} /\ MaxDeaths \in Nat

Commands == [name : {"hop", "reveal"}, arg : Seq(Seq(STRING))]
            \cup [name : {"log", "purge", "execute"}, arg : Nat]
            \cup [name : {"program"}, arg : Programs]

\* A line that is empty or does not parse is kept too, as a program that does nothing.
\* The beginning of a line is one that could have been typed.
ASSUME LinesAssumption == /\ Lines \subseteq Seq(Commands) \ {<<>>}
                          /\ Beginnings \in [Lines -> SUBSET Lines]

VARIABLES
    logs, start, count,   \* the ring: entries start, start+1, ... modulo LogSize
    file,                 \* logs.txt in shell_home
    place,                \* where the shell is
    phase,                \* "prompt", "run", "save", "ended"
    todo,                 \* what is left to run of the line, or the next line to save
    fresh,                \* no command of the line has run yet
    inner,                \* how many of them are of a line that is replayed
    ran,                  \* the last replay: the number asked for and the line found
    seen,                 \* history: the directory listed last, and that it was listed in
    deaths

ring == <<logs, start, count>>
vars == <<ring, file, place, phase, todo, fresh, inner, ran, seen, deaths>>

Slots == 0 .. LogSize - 1
NoLine == <<>>
NoReplay == [num |-> 0, line |-> NoLine]
Nothing == [in |-> NoPath, of |-> NoPath]

Cmd(name, arg) == [name |-> name, arg |-> arg]

Entry(k) == logs[(start + k) % LogSize]
Entries == [k \in 1 .. count |-> Entry(k - 1)]

-----------------------------------------------------------------------------
(* add_log *)

if_log(line) == \E k \in DOMAIN line : line[k].name \in {"log", "purge", "execute"}

last_index == (start + count - 1) % LogSize
Repeated(line) == count > 0 /\ logs[last_index] = line

StayAtOldest == start                                                      \* bug
AfterOldest == (start + 1) % LogSize

add_log(line) ==
    IF if_log(line) \/ Repeated(line) THEN UNCHANGED ring
    ELSE IF count < LogSize
    THEN /\ logs' = [logs EXCEPT ![(start + count) % LogSize] = line]
         /\ count' = count + 1
         /\ UNCHANGED start
    ELSE /\ logs' = [logs EXCEPT ![start] = line]
         /\ start' = AfterOldest
         /\ UNCHANGED count

ReadLine == /\ phase = "prompt"
            /\ \E line \in Lines : add_log(line) /\ todo' = line
            /\ phase' = "run" /\ fresh' = TRUE
            /\ UNCHANGED <<file, place, inner, ran, seen, deaths>>

-----------------------------------------------------------------------------
(* The commands of a line. *)

First == phase = "run" /\ todo # <<>>
Command(name) == First /\ Head(todo).name = name
Done == /\ todo' = Tail(todo) /\ fresh' = FALSE /\ inner' = IF inner > 0 THEN inner - 1 ELSE 0
        /\ UNCHANGED <<phase, deaths>>

\* A program, or "log" without argument.
RunProgram == /\ Command("program") \/ Command("log")
              /\ Done /\ UNCHANGED <<ring, file, place, ran, seen>>

\* main shows the home directory as ~, execute_fn does not.
Shown(there) == IF inner = 0 /\ there.dir_name = shell_home
                THEN [there EXCEPT !.dir_name = Tilde] ELSE there

Hop == /\ Command("hop")
       /\ place' = Shown(handle_hop(place, Head(todo).arg))
       /\ Done /\ UNCHANGED <<ring, file, ran, seen>>

Reveal == /\ Command("reveal")
          /\ LET here == ThereAndBack(place, Head(todo).arg)
                 path == assign_pathname(place, Head(todo).arg)
                 dir == Leads(here.dir, path)
             IN  /\ place' = Keep(here, path)
                 /\ seen' = IF dir = NoPath THEN seen ELSE [in |-> here.dir, of |-> dir]
          /\ Done /\ UNCHANGED <<ring, file, ran>>

PurgeLog == /\ Command("purge") /\ start' = 0 /\ count' = 0
            /\ Done /\ UNCHANGED <<logs, file, place, ran, seen>>

\* The line of logs.txt that is replayed, counted from 0.
OneTooOld(num) == (count - start) - num - 1                                \* bug
ReplayIndex(num) == (count - start) - (num - 1) - 1

\* get_in: the file is the one in the current directory; elsewhere there is none.
get_in(idx) == IF place.dir = shell_home /\ idx + 1 \in DOMAIN file THEN file[idx + 1] ELSE NoLine

Die == /\ phase' = "ended" /\ deaths' = deaths + 1 /\ ran' = NoReplay
       /\ todo' = NoLine /\ fresh' = FALSE /\ inner' = 0
       /\ UNCHANGED <<ring, place, seen>>

\* execute_fn: the commands of the line found are run in place; if none is found
\* a null pointer is tokenized, and the shell dies of it.
Replay == /\ Command("execute")
          /\ LET num == Head(todo).arg
                 line == get_in(ReplayIndex(num))
             IN  IF num > LogSize
                 THEN Done /\ UNCHANGED <<ring, file, place, ran, seen>>
                 ELSE IF line = NoLine THEN deaths < MaxDeaths /\ Die /\ UNCHANGED file
                 ELSE /\ ran' = [num |-> num, line |-> line]
                      /\ todo' = line \o Tail(todo) /\ fresh' = FALSE /\ inner' = Len(line)
                      /\ UNCHANGED <<ring, file, place, phase, seen, deaths>>

-----------------------------------------------------------------------------
(* update_logs, after every line and at the end of the session. *)

Truncate == /\ phase = "run" /\ todo = <<>>
            /\ phase' = "save" /\ file' = <<>> /\ todo' = Entries
            /\ fresh' = FALSE /\ ran' = NoReplay
            /\ UNCHANGED <<ring, place, inner, seen, deaths>>

WriteEntry == /\ phase = "save" /\ todo # <<>>
              /\ file' = Append(file, Head(todo)) /\ todo' = Tail(todo)
              /\ UNCHANGED <<ring, place, phase, fresh, inner, ran, seen, deaths>>

Saved == /\ phase = "save" /\ todo = <<>> /\ phase' = "prompt"
         /\ UNCHANGED <<ring, file, place, todo, fresh, inner, ran, seen, deaths>>

\* End of input, the file being as it is, or the shell is killed, at any time.
End == phase # "ended" /\ deaths < MaxDeaths /\ Die /\ UNCHANGED file

\* It is killed when a block of the buffer is written and the next one is not:
\* the beginning of one more entry is in the file.
CutShort == /\ phase = "save" /\ todo # <<>> /\ deaths < MaxDeaths /\ Die
            /\ \E text \in Beginnings[Head(todo)] : file' = Append(file, text)

\* main(): the first LogSize lines of logs.txt.
StartShell ==
    /\ phase = "ended" /\ phase' = "prompt"
    /\ count' = IF Len(file) < LogSize THEN Len(file) ELSE LogSize
    /\ start' = 0
    /\ logs' = [k \in Slots |-> IF k + 1 \in DOMAIN file THEN file[k + 1] ELSE NoLine]
    /\ place' = Start /\ seen' = Nothing
    /\ UNCHANGED <<file, todo, fresh, inner, ran, deaths>>

Init == /\ logs = [k \in Slots |-> NoLine] /\ start = 0 /\ count = 0 /\ file = <<>>
        /\ place = Start /\ seen = Nothing /\ inner = 0 /\ phase = "prompt" /\ todo = NoLine /\ fresh = FALSE
        /\ ran = NoReplay /\ deaths = 0

Next == \/ ReadLine \/ RunProgram \/ Hop \/ Reveal \/ PurgeLog \/ Replay
        \/ Truncate \/ WriteEntry \/ Saved \/ End \/ CutShort \/ StartShell

Spec == Init /\ [][Next]_vars

-----------------------------------------------------------------------------
(* Properties. *)

\* The values the variables take; every slot in use holds a line.
TypeOK == /\ logs \in [Slots -> Lines \cup {NoLine}]
          /\ start \in Slots /\ count \in 0 .. LogSize
          /\ \A k \in 0 .. count - 1 : Entry(k) # NoLine
          /\ file \in Seq(Lines) /\ Len(file) <= LogSize
          /\ place.dir \in Dirs /\ fresh \in BOOLEAN /\ inner <= Len(todo)
          /\ phase \in {"prompt", "run", "save", "ended"}
          /\ deaths \in 0 .. MaxDeaths

\* No line of the history is that before it, whatever was dropped from a full
\* ring, purged or lost with the end of logs.txt.
NoRepetition == \A k \in 1 .. count - 1 : Entry(k) # Entry(k - 1)

\* "log execute" looks in logs.txt with an index made from the ring in memory:
\* they agree when it comes first in its line, because such a line is not logged.
FileMatchesRing == fresh /\ Command("execute") => file = Entries

\* The prompt shows the directory the shell is in, and "hop -" leads to the one
\* before, across hops that fail, several in a command, and replayed ones.
PromptTellsDirectory == /\ Meant(place.dir_name) = place.dir
                        /\ Meant(place.last_dir) = place.left

\* "reveal -" lists again what the last reveal listed, as long as the directory
\* is the same or that path was absolute.
RevealsAgain ==
    seen # Nothing /\ (place.dir = seen.in \/ IsAbsolute(place.prev_dir_reveal)) =>
        Leads(place.dir, assign_pathname(place, <<Dash>>)) = seen.of

\* As long as the ring has not wrapped, what is replayed is the num-th line
\* counted from the latest, if the line did not purge the history before.
ReplaysTheOneAsked ==
    [][Replay /\ fresh /\ start = 0 /\ place.dir = shell_home /\ Head(todo).arg \in 1 .. count =>
         ran'.line = Entries[count + 1 - Head(todo).arg]]_vars

(* The refinement. *)

History == INSTANCE BoundedHistory WITH
             Size <- LogSize, hist <- IF phase = "ended" THEN file ELSE Entries, saved <- file

\* The ring and the file are a bounded history, across the ends of the shell:
\* what add_log drops, update_logs leaves in the file and main() reads back.  A
\* save that is cut costs the entries it has not reached and the rest of one line.
ImplementsHistory == History!Spec

(* What the code does not keep. *)

\* The same once the ring has wrapped: the index is that of an older line
\* (shell.c:185), or of none.
AskedLineReplayed ==
    [][Replay /\ fresh /\ place.dir = shell_home /\ Head(todo).arg \in 1 .. count =>
         ran'.line = Entries[count + 1 - Head(todo).arg]]_vars

\* "hop to previous" (hop.c:26): "-" after another argument leads back too.
DashLeadsBack ==
    [][LET args == Head(todo).arg
       IN  Hop /\ Len(args) = 2 /\ args[2] = Dash /\ Leads(place.dir, args[1]) # NoPath
             => place'.dir = place.dir]_vars

\* "Save this path for reveal -" (reveal.c:73): from wherever it is asked.
RevealsSame == seen # Nothing => Leads(place.dir, assign_pathname(place, <<Dash>>)) = seen.of
=============================================================================
