--------------------------- MODULE ShellDispatch ---------------------------
(***************************************************************************)
(* Which commands of a line are run, how often, in which process, and in   *)
(* which order: main of shell.c, do_in_bg of bg.c, execute_sequential of   *)
(* sequential.c, and execute_fn and execute_string of log.c, which run a   *)
(* line of the history again.                                              *)
(*                                                                         *)
(* Process 0 is the shell, the others are the children that do_in_bg forks *)
(* to run the groups before an &.  Each walks through the groups of a      *)
(* line, and through those of a replayed line inside of that; a group that *)
(* is run has ended, or was waited for (ShellJobs), when the next begins.  *)
(* A process may crash in the middle of it, and the others go on.          *)
(***************************************************************************)
EXTENDS ShellParse, SequencesExt

CONSTANTS Lines,           \* what may be typed
          LaterLines,      \* bound: what may be typed after the first line
          MaxDispatches,   \* bound on the lines accepted and replayed
          MaxChildren      \* bound on the children forked

ASSUME DispatchAssumption == /\ Lines \subseteq Seq(TokenKinds)
                             /\ LaterLines \subseteq Lines
                             /\ {MaxDispatches, MaxChildren} \subseteq Nat

VARIABLES
    line, accepted,        \* the last line typed, and whether it was accepted
    dispatched,            \* the lines accepted and replayed, as they were parsed
    stack,                 \* of each process, the lines it is in
    children,              \* how many were forked
    listed,                \* of each child, the line and the groups that its job entry names
    broken,                \* the processes that crashed, or damaged their memory
    ran                    \* history: the groups run

vars == <<line, accepted, dispatched, stack, children, listed, broken, ran>>

Main == 0
Processes == 0 .. MaxChildren

\* Where a process is: g is the next group, counted from 0, of those before upto;
\* again how often execute_sequential has run it.
Frame(d, g, upto) == [d |-> d, g |-> g, upto |-> upto, again |-> 0]

Text(frame) == dispatched[frame.d].line
Cmd(frame) == dispatched[frame.d].cmd

Top(p) == Last(stack[p])
AllButLast(p) == stack[p] # <<>> /\ Top(p).g + 1 < Top(p).upto            \* bug
Working(p) == stack[p] # <<>> /\ Top(p).g < Top(p).upto
Group(frame) == Cmd(frame).groups[frame.g + 1]

-----------------------------------------------------------------------------
(* A line is typed or replayed. *)

AfterOneMore(cmd) == IF cmd.trailing_amp THEN cmd.bg_until + 1 ELSE 0      \* bug
ForegroundFrom(cmd) == IF cmd.trailing_amp THEN cmd.bg_until ELSE 0        \* main

FromSecond(cmd) == 1                                                       \* bug
ReplayFrom(cmd) == cmd.bg_until + 1                                        \* execute_fn

ngroups(cmd) == Len(cmd.groups)

AllGroups(cmd) == 1 .. ngroups(cmd)                                        \* bug
NamedBy(cmd) == 1 .. cmd.bg_until                                          \* cmdline

\* What p is to do, and the child that do_in_bg forks for the groups before an &.
Dispatch(p, text, cmd, replay, below, from) ==
    LET d == Len(dispatched) + 1
        mine == Append(below, Frame(d, from, ngroups(cmd)))
    IN  /\ d <= MaxDispatches
        /\ dispatched' = Append(dispatched, [line |-> text, cmd |-> cmd, replay |-> replay])
        /\ \/ /\ ~cmd.trailing_amp
              /\ stack' = [stack EXCEPT ![p] = mine]
              /\ UNCHANGED <<children, listed>>
           \/ /\ cmd.trailing_amp /\ children < MaxChildren
              /\ children' = children + 1
              /\ stack' = [stack EXCEPT ![p] = mine,
                                        ![children + 1] = <<Frame(d, 0, cmd.bg_until)>>]
              /\ listed' = [listed EXCEPT ![children + 1] = [d |-> d, groups |-> NamedBy(cmd)]]

Typed == IF line = <<>> THEN Lines ELSE LaterLines
AtPrompt == stack[Main] = <<>> /\ Main \notin broken

\* main: tokenize, parse_shell_cmd, and on to the groups or back to the prompt.
ReadLine ==
    /\ AtPrompt
    /\ \E text \in {l \in Typed : Fits(l)} :
         LET cmd == parse_shell_cmd(text)
         IN  /\ line' = text /\ accepted' = cmd.accepted
             /\ IF cmd.accepted THEN Dispatch(Main, text, cmd, FALSE, <<>>, ForegroundFrom(cmd))
                ELSE UNCHANGED <<dispatched, stack, children, listed>>
    /\ UNCHANGED <<broken, ran>>

\* parse.c writes behind the end of an array: of what the shell does then, nothing
\* is said, but its children go on.
Overrun ==
    /\ AtPrompt /\ \E text \in Typed : ~Fits(text)
    /\ broken' = broken \cup {Main}
    /\ UNCHANGED <<line, accepted, dispatched, stack, children, listed, ran>>

-----------------------------------------------------------------------------
(* A group is run. *)

\* execute_sequential runs a pipeline once for every group of the line.
Times(frame) == IF Len(Group(frame)) > 1 /\ Cmd(frame).types[1] = "semi"
                THEN ngroups(Cmd(frame)) ELSE 1

Passed(frame) == IF frame.again + 1 < Times(frame) THEN [frame EXCEPT !.again = @ + 1]
                 ELSE [frame EXCEPT !.g = @ + 1, !.again = 0]

Record(p) == ran' = Append(ran, [proc |-> p, d |-> Top(p).d, group |-> Top(p).g + 1])

Replaces(p) == Append(Front(stack[p]), Passed(Top(p)))

Replays(frame) == \E k \in DOMAIN Group(frame) : Text(frame)[Group(frame)[k]] = "execute"

\* A single command without a redirection: what the shell does itself is not done in a child.
Alone(frame) ==
    LET start == Group(frame)[1]
    IN  /\ Len(Group(frame)) = 1
        /\ \A q \in start .. parse_atomic(Text(frame), start) - 1 : Text(frame)[q] # "redir"

\* The single command (main, execute_command) or the pipeline (execute_pipeline).
\* A replay of a number that main refuses, or of a line that is not accepted, ends here
\* too, and one in a child that finds no line.
RunGroup(p) == /\ p \notin broken /\ Working(p) /\ Record(p)
               /\ stack' = [stack EXCEPT ![p] = Replaces(p)]
               /\ UNCHANGED <<line, accepted, dispatched, children, listed, broken>>

\* execute_fn has get_in's NULL tokenized, in a file that is shorter or is not there.
Crash(p) == /\ p \notin broken /\ Working(p) /\ Replays(Top(p)) /\ Alone(Top(p))
            /\ broken' = broken \cup {p}
            /\ UNCHANGED <<line, accepted, dispatched, stack, children, listed, ran>>

\* "log execute": of the lines typed, those without "log" are in the history.
\* In a pipeline or under a redirection it is a child that runs the line, and
\* it is waited for.
Replay(p) ==
    /\ p \notin broken /\ Working(p) /\ Replays(Top(p)) /\ Record(p)
    /\ \E k \in DOMAIN dispatched :
         LET text == dispatched[k].line  cmd == dispatched[k].cmd
         IN  /\ ~dispatched[k].replay /\ \A j \in DOMAIN text : text[j] # "execute"
             /\ Dispatch(p, text, cmd, TRUE, Replaces(p), ReplayFrom(cmd))
    /\ UNCHANGED <<line, accepted, broken>>

\* The end of the loop: to the prompt, out of the replay, or exit of the child.
Return(p) == /\ p \notin broken /\ stack[p] # <<>> /\ ~Working(p)
             /\ stack' = [stack EXCEPT ![p] = Front(@)]
             /\ UNCHANGED <<line, accepted, dispatched, children, listed, broken, ran>>

Step(p) == RunGroup(p) \/ Replay(p) \/ Crash(p) \/ Return(p)

Init == /\ line = <<>> /\ accepted = TRUE /\ dispatched = <<>>
        /\ stack = [p \in Processes |-> <<>>] /\ children = 0
        /\ listed = [p \in Processes |-> [d |-> 0, groups |-> {}]] /\ broken = {} /\ ran = <<>>

Next == ReadLine \/ Overrun \/ \E p \in Processes : Step(p)

Spec == Init /\ [][Next]_vars

-----------------------------------------------------------------------------
(* Properties. *)

\* The values the variables take; no process leaves the groups of its line.
TypeOK ==
    /\ line \in Lines \cup {<<>>} /\ accepted \in BOOLEAN
    /\ Len(dispatched) <= MaxDispatches /\ children \in 0 .. MaxChildren /\ broken \subseteq Processes
    /\ \A p \in Processes :
         /\ p > children => stack[p] = <<>>
         /\ \A k \in DOMAIN stack[p] :
              LET frame == stack[p][k]
              IN  frame.d \in DOMAIN dispatched /\ frame.upto <= Len(Cmd(frame).groups)

\* Of the lines that stay within its arrays, the parser accepts those of the grammar
\* and no others, and finds their groups.
ParsesGrammar ==
    /\ accepted <=> Grammatical(line)
    /\ \A d \in DOMAIN dispatched : SameGroups(dispatched[d].line, dispatched[d].cmd.groups)

\* What main is to run for the lines typed: of each the groups after the first &,
\* or all.
Due(d, g) == /\ ~dispatched[d].replay
             /\ g \in BackgroundCount(dispatched[d].line) + 1 .. GroupCount(dispatched[d].line)

ByMain == {k \in DOMAIN ran : ran[k].proc = Main /\ ~dispatched[ran[k].d].replay}
RanByMain(d, g, k) == \E j \in ByMain : j < k /\ ran[j].d = d /\ ran[j].group = g
Earlier(d, g, r) == d < r.d \/ (d = r.d /\ g < r.group)

\* The shell runs the commands of the foreground in the order they were typed,
\* across lines, replays and background jobs, and is back at the prompt only
\* when it has run them all.
InTheOrderTyped ==
    /\ \A k \in ByMain :
         /\ Due(ran[k].d, ran[k].group)
         /\ \A d \in DOMAIN dispatched : \A g \in 1 .. GroupCount(dispatched[d].line) :
              Due(d, g) /\ Earlier(d, g, ran[k]) => RanByMain(d, g, k)
         /\ \A j \in ByMain : j < k => ~Earlier(ran[k].d, ran[k].group, ran[j])
    /\ stack[Main] = <<>> =>
         \A d \in DOMAIN dispatched : \A g \in 1 .. GroupCount(dispatched[d].line) :
           Due(d, g) => RanByMain(d, g, Len(ran) + 1)

\* What the job entry of a child names is what the child runs (bg.c:178).
JobNamesWhatRuns ==
    \A c \in 1 .. children :
        LET groups == {ran[k].group : k \in {j \in DOMAIN ran : ran[j].proc = c /\ ran[j].d = listed[c].d}}
        IN  groups \subseteq listed[c].groups /\ (stack[c] = <<>> => groups = listed[c].groups)

Runs(d, g) == Cardinality({k \in DOMAIN ran : ran[k].d = d /\ ran[k].group = g})
Repeated(d) == /\ dispatched[d].cmd.types[1] = "semi"
               /\ \E p \in DOMAIN dispatched[d].line : dispatched[d].line[p] = "pipe"
Idle == \A p \in Processes : stack[p] = <<>>

\* Every command of a line typed runs once, in the foreground or in the
\* background, and every command of a line replayed, if there is no & in that;
\* but for pipelines in a line whose first separator is a semicolon.
EachOnce ==
    Idle => \A d \in DOMAIN dispatched :
        LET text == dispatched[d].line
        IN  text # <<>> /\ ~Repeated(d) /\ (dispatched[d].replay => BackgroundCount(text) = 0)
              => \A g \in 1 .. GroupCount(text) : Runs(d, g) = 1

\* What a replay runs itself: all groups, or those behind the one after the first &.
Replayed(d) == LET back == BackgroundCount(dispatched[d].line)
               IN  (IF back = 0 THEN 1 ELSE back + 2) .. GroupCount(dispatched[d].line)

\* A replay is run where it was asked for: when its process goes on with the line that
\* asked, it has run the replayed line to the end, and does not come back to it
\* (execute_fn returns into the loop over the groups of another line).
ReplaysEndFirst ==
    \A j, k \in DOMAIN ran :
        LET by == ran[k].proc  d == ran[j].d
        IN  j < k /\ ran[j].proc = by /\ ran[k].d < d =>
              /\ \A g \in Replayed(d) : \E i \in 1 .. k - 1 : ran[i] = [proc |-> by, d |-> d, group |-> g]
              /\ \A i \in DOMAIN ran : i > k /\ ran[i].proc = by => ran[i].d # d

(* What the code does not keep. *)

\* Pipelines run once wherever they are in the line (sequential.c:4).
PipelinesOnce == Idle => \A d \in DOMAIN dispatched : ~dispatched[d].replay =>
                           \A g \in 1 .. GroupCount(dispatched[d].line) : Runs(d, g) = 1

\* A line replayed runs all that it ran when it was typed (log.c:110).
ReplayedWhole == Idle => \A d \in DOMAIN dispatched : dispatched[d].replay =>
                           \A g \in 1 .. GroupCount(dispatched[d].line) : Runs(d, g) >= 1

\* What follows & after a semicolon is read in the foreground (parse.c:137).
AmpSemicolonGoesOn == line # <<"name", "amp", "semi", "name">> \/ accepted
=============================================================================
