----------------------------- MODULE ShellJobs ------------------------------
(***************************************************************************)
(* The jobs of shell/src: the table jobs[], the main loop with check_jobs, *)
(* fg, bg, ping, activities, pipelines and the handlers of Ctrl-C, Ctrl-Z  *)
(* and Ctrl-D, against the processes the shell starts and the statuses the *)
(* kernel keeps for it.                                                    *)
(*                                                                         *)
(* signal() is that of a strict POSIX compilation: a handler is removed    *)
(* when it is called, and the system call it interrupts fails with EINTR.  *)
(* The shell keeps the terminal, so keys reach it and nobody else.  A job  *)
(* started with "&" is a subshell with its command in a process group of   *)
(* its own.  A pid is given to one process only.                           *)
(***************************************************************************)
EXTENDS Integers, Sequences, FiniteSets, SequencesExt

CONSTANTS MaxPids,        \* bound: how many processes the shell starts
          NoPid, ShellPid,
          JobsMax,        \* 64
          Names,          \* command lines, in their order; 0 is the empty one
          Commands,       \* what the user types
          MayStop,        \* who may stop at the terminal: "program", "pipeline"
          MaxLines, MaxKeys   \* bounds on lines and keys typed

Pids == 1 .. MaxPids     \* pids grow: the order of the fork calls

ASSUME JobsAssumption ==
    /\ MaxPids \in Nat
    /\ NoPid \notin Pids /\ ShellPid \notin Pids /\ NoPid # ShellPid
    /\ JobsMax \in Nat \ {0} /\ Names \subseteq Nat
    /\ Commands \subseteq {"start", "run", "pipe", "fg", "fg_last", "bg", "ping", "activities", "eof"}
    /\ MayStop \subseteq {"program", "pipeline"} /\ {MaxLines, MaxKeys} \subseteq Nat

VARIABLES
    jobs, next_job_id, fg_pid,
    on_int, on_tstp,      \* dispositions: "ignore", "handler", "default"
    shell,                \* where the shell is
    target, at, i,        \* the pid waited for, do_fg's job pointer and its i
    members, waits,       \* the pipeline's processes and the waits left
    proc, report, inner,  \* processes, unread statuses, subshells with a command
    started,              \* pids started with "&"
    spoiled,              \* why the table cannot be trusted any more
    lines, keys

table == <<jobs, next_job_id>>
signals == <<fg_pid, on_int, on_tstp>>
waiting == <<target, at, i, members, waits>>
world == <<proc, report, inner, started>>
bounds == <<lines, keys>>
vars == <<table, signals, shell, waiting, world, spoiled, bounds>>

Job(pid, name, state) == [pid |-> pid, job_id |-> next_job_id, name |-> name, state |-> state]
Listed(p) == {k \in DOMAIN jobs : jobs[k].pid = p}
Child(p) == proc[p] \in {"running", "stopped", "dead"}
NextPid == {p \in Pids : proc[p] = "unused" /\ \A q \in 1 .. p - 1 : proc[q] # "unused"}

-----------------------------------------------------------------------------
(* Processes and the kernel. *)

\* A status replaces the one before that was not read.
Becomes(p, state, status) ==
    /\ proc' = [proc EXCEPT ![p] = state] /\ report' = [report EXCEPT ![p] = status]

Dies(p) == Becomes(p, "dead", "dead")

\* kill(pid, sig) on the process itself.
Signalled(p, sig) ==
    IF sig = "KILL" /\ proc[p] \in {"running", "stopped"} THEN Dies(p)
    ELSE IF sig = "STOP" /\ proc[p] = "running" THEN Becomes(p, "stopped", "stopped")
    ELSE IF sig = "CONT" /\ proc[p] = "stopped" THEN Becomes(p, "running", "continued")
    ELSE UNCHANGED <<proc, report>>

Reap(p) == Becomes(p, "reaped", "none")
ReadStatus(p) == report' = [report EXCEPT ![p] = "none"] /\ UNCHANGED proc

Rest == UNCHANGED <<table, signals, shell, waiting, spoiled, bounds>>

Exits(p) == /\ proc[p] = "running" /\ p \notin inner /\ Dies(p)
            /\ UNCHANGED <<inner, started>> /\ Rest

InnerExits(p) == /\ p \in inner /\ inner' = inner \ {p}
                 /\ UNCHANGED <<proc, report, started>> /\ Rest

\* A program of the shell reads the terminal, which is not its own.
StopsAtTerminal(p) ==
    /\ proc[p] = "running" /\ p \notin started
    /\ (IF p \in members THEN "pipeline" ELSE "program") \in MayStop
    /\ Becomes(p, "stopped", "stopped")
    /\ UNCHANGED <<inner, started>> /\ Rest

-----------------------------------------------------------------------------
(* The main loop: check_jobs, the prompt and the lines. *)

AlwaysRunning(status) == "RUNNING"                                         \* bug
StateFor(status) == IF status = "continued" THEN "RUNNING" ELSE "STOPPED"

KeepAll(p) == jobs                                                         \* bug
Kept(p) == LET kept[n \in 0 .. Len(jobs)] ==
                 IF n = 0 THEN <<>>
                 ELSE IF jobs[n].pid = p THEN kept[n - 1] ELSE Append(kept[n - 1], jobs[n])
           IN  kept
Without(p) == Kept(p)[Len(jobs)]

\* One status of the loop in check_jobs.
CheckJob(p) ==
    /\ shell = "check" /\ report[p] # "none"
    /\ IF report[p] = "dead"
       THEN /\ jobs' = Without(p) /\ Reap(p)
       ELSE /\ jobs' = [k \in DOMAIN jobs |-> IF jobs[k].pid = p
                          THEN [jobs[k] EXCEPT !.state = StateFor(report[p])] ELSE jobs[k]]
            /\ ReadStatus(p)
    /\ UNCHANGED <<next_job_id, signals, shell, waiting, inner, started, spoiled, bounds>>

NoneLeft == \A p \in Pids : report[p] = "none"

Checked == /\ shell = "check" /\ NoneLeft /\ shell' = "prompt"
           /\ UNCHANGED <<table, signals, waiting, world, spoiled, bounds>>

Line(command) == /\ shell = "prompt" /\ command \in Commands
                 /\ lines < MaxLines /\ lines' = lines + 1 /\ UNCHANGED keys

\* An empty or wrong line, a job that does not exist or runs already.
OtherLine == /\ shell = "prompt" /\ shell' = "check"
             /\ UNCHANGED <<table, signals, waiting, world, spoiled, bounds>>

\* do_in_bg; nothing keeps it from writing behind the table.
StartInBackground ==
    /\ Line("start")
    /\ \E p \in NextPid, n \in Names :
         /\ proc' = [proc EXCEPT ![p] = "running"]
         /\ inner' = inner \cup {p} /\ started' = started \cup {p}
         /\ IF Len(jobs) < JobsMax
            THEN jobs' = Append(jobs, Job(p, n, "RUNNING")) /\ shell' = "check"
            ELSE UNCHANGED jobs /\ shell' = "overrun"
    /\ next_job_id' = next_job_id + 1
    /\ UNCHANGED <<signals, waiting, report, spoiled>>

InstallHandlers == on_int' = "handler" /\ on_tstp' = "handler"

RunProgram ==
    /\ Line("run")
    /\ \E p \in NextPid : /\ proc' = [proc EXCEPT ![p] = "running"]
                          /\ fg_pid' = p /\ target' = p
    /\ InstallHandlers /\ shell' = "wait"
    /\ UNCHANGED <<table, at, i, members, waits, report, inner, started, spoiled>>

\* waitpid with WUNTRACED; the status is not looked at.
WaitOver == /\ shell = "wait"
            /\ \/ report[target] = "dead" /\ Reap(target)
               \/ report[target] = "stopped" /\ ReadStatus(target)
            /\ shell' = "restore"
            /\ UNCHANGED <<table, signals, waiting, inner, started, spoiled, bounds>>

IgnoreAgain == /\ shell = "restore" /\ shell' = "check"
               /\ on_int' = "ignore" /\ on_tstp' = "ignore" /\ fg_pid' = NoPid
               /\ UNCHANGED <<table, waiting, world, spoiled, bounds>>

Pipeline ==
    /\ Line("pipe")
    /\ \E p \in NextPid : /\ p + 1 \in Pids /\ members' = {p, p + 1}
                          /\ proc' = [proc EXCEPT ![p] = "running", ![p + 1] = "running"]
    /\ waits' = 2 /\ shell' = "pipe"
    /\ UNCHANGED <<table, signals, target, at, i, report, inner, started, spoiled>>

\* One wait(NULL) is over, by the end of any child or by EINTR.
OneWaitLess == waits' = waits - 1 /\ shell' = IF waits' = 0 THEN "check" ELSE "pipe"

PipeWait == /\ shell = "pipe" /\ OneWaitLess
            /\ \E p \in Pids :
                 /\ report[p] = "dead" /\ Reap(p)
                 /\ spoiled' = IF p \in members THEN spoiled ELSE spoiled \cup {"theft"}
            /\ UNCHANGED <<table, signals, target, at, i, members, inner, started, bounds>>

-----------------------------------------------------------------------------
(* fg, bg, ping, activities, end of input. *)

\* The job of a given id, or the last one; then i stays uninitialized.
ById(id) == {k \in DOMAIN jobs : jobs[k].job_id = id}
Chosen(command) ==
    IF command = "fg_last" THEN {<<Len(jobs), n>> : n \in 1 .. JobsMax}
    ELSE {<<k, k>> : k \in UNION {ById(id) : id \in 1 .. next_job_id - 1}}

NoSignal(p) == UNCHANGED <<proc, report>>                                  \* bug
Resume(p) == Signalled(p, "CONT")

\* do_fg up to the point where the shell takes the place of the job in fg_pid.
BringToForeground(command) ==
    /\ command \in {"fg", "fg_last"} /\ Line(command) /\ jobs # <<>>
    /\ \E c \in Chosen(command) :
         /\ at' = c[1] /\ i' = c[2] /\ target' = jobs[c[1]].pid
         /\ IF jobs[c[1]].state = "STOPPED"
            THEN /\ fg_pid' = target' /\ InstallHandlers /\ Resume(target')
                 /\ jobs' = [jobs EXCEPT ![c[1]].state = "RUNNING"]
            ELSE UNCHANGED <<signals, proc, report, jobs>>
    /\ shell' = "resume"
    /\ UNCHANGED <<next_job_id, members, waits, inner, started, spoiled>>

WaitForJob == /\ shell = "resume" /\ shell' = "fg_wait"
              /\ fg_pid' = ShellPid /\ InstallHandlers
              /\ UNCHANGED <<table, waiting, world, spoiled, bounds>>

remove_job(k) == IF k \in DOMAIN jobs THEN RemoveAt(jobs, k) ELSE Front(jobs)

\* do_fg after waitpid; the handlers stay.
AfterStop == jobs' = [jobs EXCEPT ![at].state = "STOPPED"] /\ UNCHANGED spoiled
AfterEnd == /\ jobs' = remove_job(i)
            /\ spoiled' = IF i = at THEN spoiled ELSE spoiled \cup {"index"}
GarbageStatus == /\ jobs' \in {[jobs EXCEPT ![at].state = "STOPPED"], remove_job(i)}
                 /\ spoiled' = spoiled \cup {"status"}
LeaveFg == shell' = "check" /\ fg_pid' = NoPid

FgOver == /\ shell = "fg_wait" /\ LeaveFg
          /\ \/ report[target] = "stopped" /\ ReadStatus(target) /\ AfterStop
             \/ report[target] = "dead" /\ Reap(target) /\ AfterEnd
             \/ ~Child(target) /\ UNCHANGED <<proc, report>> /\ GarbageStatus
          /\ UNCHANGED <<next_job_id, on_int, on_tstp, waiting, inner, started, bounds>>

do_bg == /\ Line("bg") /\ shell' = "check"
         /\ \E k \in DOMAIN jobs :
              /\ jobs[k].state = "STOPPED" /\ Resume(jobs[k].pid)
              /\ jobs' = [jobs EXCEPT ![k].state = "RUNNING"]
         /\ UNCHANGED <<next_job_id, signals, waiting, inner, started, spoiled>>

\* Any process may be named, those of another line included.
Ping == /\ Line("ping") /\ shell' = "check"
        /\ \E p \in Pids, sig \in {"KILL", "STOP", "CONT"} : Signalled(p, sig)
        /\ UNCHANGED <<table, signals, waiting, inner, started, spoiled>>

\* activities sorts the table itself, by command line.
Activities ==
    /\ Line("activities") /\ shell' = "check"
    /\ jobs' \in {[k \in DOMAIN jobs |-> jobs[f[k]]] : f \in Bijection(DOMAIN jobs, DOMAIN jobs)}
    /\ \A k \in 1 .. Len(jobs) - 1 : jobs'[k].name <= jobs'[k + 1].name
    /\ UNCHANGED <<next_job_id, signals, waiting, world, spoiled>>

\* handle_eof: SIGKILL to the group of every job.
LogOut == /\ shell' = "exited"
          /\ LET killed == {p \in Pids : Listed(p) # {} /\ proc[p] \in {"running", "stopped"}}
             IN  /\ proc' = [p \in Pids |-> IF p \in killed THEN "dead" ELSE proc[p]]
                 /\ report' = [p \in Pids |-> IF p \in killed THEN "dead" ELSE report[p]]
          /\ UNCHANGED <<inner, started>>

EndOfInput == /\ Line("eof") /\ LogOut
              /\ UNCHANGED <<table, signals, waiting, spoiled>>

-----------------------------------------------------------------------------
(* Keys. *)

Key == keys < MaxKeys /\ keys' = keys + 1 /\ UNCHANGED lines

\* What an interrupted system call does to the shell, jobs and fg_pid apart.
Interrupted ==
    \/ shell = "wait" /\ shell' = "restore" /\ UNCHANGED waits
    \/ shell = "pipe" /\ OneWaitLess
    \/ shell \notin {"wait", "pipe", "prompt", "fg_wait"} /\ UNCHANGED <<shell, waits>>

Alive == shell \notin {"exited", "killed", "suspended", "overrun"}

CtrlCIgnored == /\ Alive /\ Key /\ on_int = "ignore"
                /\ UNCHANGED <<table, signals, shell, waiting, world, spoiled>>

\* SIGINT to the group of the foreground process, which may survive it.
CtrlC == /\ Alive /\ Key /\ on_int = "handler" /\ on_int' = "default"
         /\ \/ UNCHANGED <<proc, report>>
            \/ fg_pid \in Pids /\ proc[fg_pid] = "running" /\ Dies(fg_pid)
         /\ Interrupted
         /\ UNCHANGED <<table, fg_pid, on_tstp, target, at, i, members, inner, started, spoiled>>

RoomForOne == Len(jobs) < JobsMax

\* The handler lists the process as stopped and leaves it as it is.
ListForeground ==
    IF fg_pid \in Pids
    THEN /\ fg_pid' = NoPid
         /\ IF RoomForOne
            THEN jobs' = Append(jobs, Job(fg_pid, 0, "STOPPED")) /\ next_job_id' = next_job_id + 1
            ELSE UNCHANGED table
         /\ spoiled' = spoiled \cup (IF shell = "restore" THEN {"late"} ELSE {})
                               \cup (IF shell = "resume" THEN {"twice"} ELSE {})
    ELSE UNCHANGED <<table, fg_pid, spoiled>>

CtrlZ == /\ Alive /\ Key /\ on_tstp = "handler" /\ on_tstp' = "default"
         /\ ListForeground /\ Interrupted
         /\ UNCHANGED <<on_int, target, at, i, members, world>>

\* At the prompt fgets fails, which main() takes for the end of input.
KeyAtPrompt == /\ shell = "prompt" /\ Key
               /\ \/ on_int = "handler" /\ on_int' = "default" /\ UNCHANGED on_tstp
                  \/ on_tstp = "handler" /\ on_tstp' = "default" /\ UNCHANGED on_int
               /\ LogOut /\ UNCHANGED <<table, fg_pid, waiting, spoiled>>

\* In do_fg waitpid fails and its status is what was on the stack.
KeyInFg == /\ shell = "fg_wait" /\ Key
           /\ \/ on_int = "handler" /\ on_int' = "default" /\ UNCHANGED on_tstp
              \/ on_tstp = "handler" /\ on_tstp' = "default" /\ UNCHANGED on_int
           /\ GarbageStatus /\ LeaveFg
           /\ UNCHANGED <<next_job_id, waiting, world>>

\* Once the handler is gone the signal has its default action.  A shell that is
\* suspended waits for whoever started it; if it is continued it goes on as if the
\* key had not been typed.
CtrlCKills == /\ Alive /\ Key /\ on_int = "default" /\ shell' = "killed"
              /\ UNCHANGED <<table, signals, waiting, world, spoiled>>
CtrlZSuspends == /\ Alive /\ Key /\ on_tstp = "default" /\ shell' = "suspended"
                 /\ UNCHANGED <<table, signals, waiting, world, spoiled>>

-----------------------------------------------------------------------------
Init == /\ jobs = <<>> /\ next_job_id = 1 /\ fg_pid = NoPid
        /\ on_int = "ignore" /\ on_tstp = "ignore" /\ shell = "check"
        /\ target = NoPid /\ at = 0 /\ i = 0 /\ members = {} /\ waits = 0
        /\ proc = [p \in Pids |-> "unused"] /\ report = [p \in Pids |-> "none"]
        /\ inner = {} /\ started = {} /\ spoiled = {} /\ lines = 0 /\ keys = 0

\* What the shell does without the user.
Proceeds == \/ (\E p \in Pids : CheckJob(p)) \/ Checked \/ WaitOver \/ IgnoreAgain
            \/ PipeWait \/ WaitForJob \/ FgOver
Types == \/ OtherLine \/ StartInBackground \/ RunProgram \/ Pipeline
         \/ BringToForeground("fg") \/ BringToForeground("fg_last")
         \/ do_bg \/ Ping \/ Activities \/ EndOfInput
Keys == CtrlCIgnored \/ CtrlC \/ CtrlZ \/ KeyAtPrompt \/ KeyInFg \/ CtrlCKills \/ CtrlZSuspends
Processes == \E p \in Pids : Exits(p) \/ InnerExits(p) \/ StopsAtTerminal(p)

Next == Proceeds \/ Types \/ Keys \/ Processes
Spec == Init /\ [][Next]_vars

\* The shell goes on, and a program that is not stopped ends.
LiveSpec == /\ Spec /\ WF_vars(Proceeds)
            /\ \A p \in Pids : WF_vars(Exits(p)) /\ WF_vars(InnerExits(p))

-----------------------------------------------------------------------------
(* Properties. *)

\* The values the variables take; the table stays within its array.
TypeOK ==
    /\ jobs \in Seq([pid : Pids, job_id : Nat, name : Names \cup {0}, state : {"RUNNING", "STOPPED"}])
    /\ Len(jobs) <= JobsMax /\ next_job_id \in Nat
    /\ fg_pid \in Pids \cup {NoPid, ShellPid} /\ target \in Pids \cup {NoPid}
    /\ {on_int, on_tstp} \subseteq {"ignore", "handler", "default"}
    /\ shell \in {"check", "prompt", "wait", "restore", "pipe", "resume", "fg_wait",
                  "exited", "killed", "suspended", "overrun"}
    /\ at \in 0 .. JobsMax /\ i \in 0 .. JobsMax /\ waits \in 0 .. 2 /\ members \subseteq Pids
    /\ proc \in [Pids -> {"unused", "running", "stopped", "dead", "reaped"}]
    /\ report \in [Pids -> {"none", "stopped", "continued", "dead"}]
    /\ inner \subseteq started /\ started \subseteq Pids
    /\ spoiled \subseteq {"theft", "index", "status", "late", "twice"}

\* Until one of the five reasons in "spoiled", the table has one entry for each
\* child started with "&", and none for a process the kernel forgot or twice.
TableExact ==
    spoiled = {} /\ shell \in {"check", "prompt"} =>
      \A p \in Pids : /\ Cardinality(Listed(p)) <= 1
                      /\ Listed(p) # {} => Child(p)
                      /\ p \in started /\ Child(p) => Listed(p) # {}

\* Until then, a job listed as running runs, unless the kernel has news of it.
RunningJobsRun ==
    spoiled = {} => \A k \in DOMAIN jobs :
      jobs[k].state = "RUNNING" => proc[jobs[k].pid] = "running" \/ report[jobs[k].pid] # "none"

\* The shell always comes back to the prompt, or a key or a full table ends or stops
\* it, whatever is stopped, resumed, interrupted or taken by the wrong wait; programs
\* of a pipeline that stop excepted.
PromptAgain == shell # "prompt" ~> shell = "prompt" \/ ~Alive

(* What the comments promise and the code does not keep. *)

\* "Shell itself should not exit" (signal.c:15) on Ctrl-C, nor stop on Ctrl-Z.
ShellSurvives == shell \notin {"killed", "suspended"}

\* "Kill all background jobs" (signal.c:72) at the end of input.
JobsEndAtLogout == shell = "exited" => inner = {}

\* "wait for all children" (pipe.c:212).
PipelineOver == [][shell = "pipe" /\ shell' = "check" => \A p \in members : proc'[p] = "reaped"]_vars

\* "pick the most recent background/stopped job" (bg.c:201).
MostRecentChosen ==
    [][BringToForeground("fg_last") => \A k \in DOMAIN jobs : jobs[k].job_id <= jobs[at'].job_id]_vars

\* "Stop the foreground process group" (signal.c:27) on Ctrl-Z: what is listed as
\* stopped does not run.
StoppedJobsStand ==
    spoiled = {} => \A k \in DOMAIN jobs :
      jobs[k].state = "STOPPED" => proc[jobs[k].pid] # "running" \/ report[jobs[k].pid] # "none"

\* "Job finished, remove from job list" (bg.c:251).
FinishedRemoved == shell = "prompt" => \A k \in DOMAIN jobs : proc[jobs[k].pid] # "reaped"
=============================================================================
