------------------------------ MODULE ShellHop ------------------------------
(***************************************************************************)
(* The current directory of shell/src: handle_hop of hop.c, and what       *)
(* reveal.c lists.  A path is a sequence of names, an absolute one begins  *)
(* with "/"; the empty one stands for a variable that holds no path yet.   *)
(*                                                                         *)
(* A place is where the shell is: dir, the directory of the process;       *)
(* dir_name, which the prompt shows; last_dir, for "hop -"; and            *)
(* prev_dir_reveal, for "reveal -"; left, of which last_dir is the name,   *)
(* is history.                                                             *)
(***************************************************************************)
EXTENDS Integers, Sequences, SequencesExt

CONSTANTS Dirs,           \* the directories there are
          shell_home      \* the one the shell was started in

NoPath == <<>>
Root == <<"/">>
Tilde == <<"~">>
Dash == <<"-">>
Here == <<".">>
Up == <<"..">>
IsAbsolute(path) == path # NoPath /\ path[1] = "/"

ASSUME HopAssumption == /\ {Root, shell_home} \subseteq Dirs
                        /\ \A d \in Dirs : d \in Seq(STRING) /\ IsAbsolute(d)

Parent(dir) == IF dir = Root THEN Root ELSE Front(dir)

\* chdir and opendir in dir: the directory a path leads to, or NoPath.
Leads(dir, path) ==
    LET to == IF path = NoPath \/ IsAbsolute(path) THEN path
              ELSE IF path = Here THEN dir
              ELSE IF path = Up THEN Parent(dir)
              ELSE dir \o path
    IN  IF to \in Dirs THEN to ELSE NoPath

Start == [dir |-> shell_home, dir_name |-> Tilde, last_dir |-> NoPath, prev_dir_reveal |-> NoPath,
          left |-> NoPath]

\* What a name in a variable stands for.
Meant(name) == IF name = Tilde THEN shell_home ELSE name

-----------------------------------------------------------------------------
(* hop *)

IsHome(arg) == arg \in {Tilde, shell_home}

\* An argument of hop: last_dir and dir_name change if the directory does.
HopEagerly(place, arg) ==                                                  \* bug
    LET to == Leads(place.dir, IF IsHome(arg) THEN shell_home
                               ELSE IF arg = Dash THEN place.last_dir ELSE arg)
        hopped == [place EXCEPT !.last_dir = place.dir_name]
    IN  IF to = NoPath THEN hopped
        ELSE [hopped EXCEPT !.dir = to, !.left = place.dir, !.dir_name = to]
HopTo(place, arg) ==
    LET to == Leads(place.dir, IF IsHome(arg) THEN shell_home
                               ELSE IF arg = Dash THEN place.last_dir ELSE arg)
    IN  IF to = NoPath THEN place
        ELSE [place EXCEPT !.dir = to, !.last_dir = place.dir_name, !.left = place.dir,
                           !.dir_name = IF to = shell_home /\ ~IsHome(arg) THEN Tilde ELSE to]

\* The places a hop passes, one after each argument.
Hops(place, args) ==
    LET passed[n \in 0 .. Len(args)] ==
            IF n = 0 THEN [place EXCEPT !.last_dir = Meant(@)] ELSE HopTo(passed[n - 1], args[n])
    IN  passed
handle_hop(place, args) == Hops(place, args)[Len(args)]

-----------------------------------------------------------------------------
(* reveal *)

\* A path is expected at most once; if there are more the first one counts.
assign_pathname(place, args) ==
    LET current == Meant(place.dir_name)
        previous == place.prev_dir_reveal
    IN  IF args = <<>> \/ args[1] = Here \/ (args[1] = Dash /\ previous = NoPath) THEN current
        ELSE IF args[1] = Dash THEN previous
        ELSE IF args[1] = Tilde THEN shell_home
        ELSE IF args[1] = Up THEN Parent(current)
        ELSE args[1]

\* ".." is looked up by going there, and back to where dir_name says.
ThereAndBack(place, args) ==
    IF args # <<>> /\ args[1] = Up THEN [place EXCEPT !.dir = Meant(place.dir_name)] ELSE place

\* The path is kept for "reveal -" if it could be opened.
KeepAlways(place, path) == [place EXCEPT !.prev_dir_reveal = path]         \* bug
Keep(place, path) == IF Leads(place.dir, path) = NoPath THEN place
                     ELSE [place EXCEPT !.prev_dir_reveal = path]
=============================================================================
