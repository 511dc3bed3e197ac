----------------------------- MODULE MCShamChat -----------------------------
(* An instance of ShamChat for TLC. *)
EXTENDS ShamChat

Typings(n) == UNION {[1 .. k -> {"text", "quit"}] : k \in 0 .. n}
Ended(lines) == {Append(line, "eof") : line \in lines}
\* The server's /quit must find lines of the client that it takes for its answer.
MCScripts == [Sides -> {<<>>}] \cup
    {[client |-> c, server |-> v] : c \in Typings(2) \cup Ended(Typings(1)),
                                    v \in Typings(2) \cup Ended(Typings(1))}
=============================================================================
