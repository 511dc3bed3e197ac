----------------------------- MODULE MCShellLog -----------------------------
(* An instance of ShellLog for TLC.                                        *)
EXTENDS ShellLog

CONSTANTS ls      \* any program; also a name of which there is none

MCHome == <<"/", "h">>
MCDirs == {Root, MCHome, <<"/", "h", "h">>}

\* Lines with "log" are not kept, so that these do not lengthen the history.
Unlogged(name, args) == <<Cmd(name, args), Cmd("log", 0)>>
MCPrograms == {ls}
Program(p) == Cmd("program", p)
HopHome == <<Cmd("hop", <<Tilde>>)>>
MCLines == { <<Program(ls)>>, HopHome, HopHome \o <<Program(ls)>>,
             <<Cmd("log", 0)>>, <<Cmd("purge", 0)>>,
             <<Cmd("execute", 0)>>, <<Cmd("execute", 1)>>, <<Cmd("execute", 2)>>, <<Cmd("execute", 4)>>,
             <<Cmd("hop", <<MCHome>>), Cmd("execute", 2)>>, <<Cmd("purge", 0), Cmd("execute", 1)>>,
             Unlogged("hop", <<Up>>), Unlogged("hop", <<<<"h">>, Dash>>), Unlogged("hop", <<Dash>>),
             Unlogged("reveal", <<<<"h">>>>), Unlogged("reveal", <<Dash>>), Unlogged("reveal", <<Up>>) }

\* "l" and "h" are names of no programs; "hop ~" begins "hop ~ ; ls".
MCBeginnings == [line \in MCLines |-> {<<Program(ls)>>} \cup
                                     IF line = HopHome \o <<Program(ls)>> THEN {HopHome} ELSE {}]
=============================================================================
