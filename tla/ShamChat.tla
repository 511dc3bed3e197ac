------------------------------ MODULE ShamChat ------------------------------
(***************************************************************************)
(* The chat mode of src/networking, from the end of the handshake on: the  *)
(* select loops of client.c and server.c, and the receiver of a file that  *)
(* the server goes on to when its loop is over.                            *)
(*                                                                         *)
(* A turn of a loop asks select once, then looks at the terminal, then at  *)
(* the socket.  The packets are told apart by kind: text is known by its   *)
(* position in what its sender types, and an ACK of text from that of a    *)
(* FIN by nothing, as in the code.  Lines fit into a packet.               *)
(***************************************************************************)
EXTENDS Integers, Sequences, FiniteSets, SequencesExt

CONSTANTS Scripts,        \* what is typed: for each side its lines, then perhaps "eof"
          FilesOpen,      \* whether fopen of the name received succeeds
          Piped,          \* one read of the terminal may bring several lines
          MaxLost,        \* bound: packets the network loses
          MaxLate         \* bound: packets it brings twice, or lets the next one overtake

Sides == {"client", "server"}

ASSUME ChatAssumption == /\ \A script \in Scripts : script \in [Sides -> Seq({"text", "quit", "eof"})]
                         /\ {FilesOpen, Piped} \subseteq BOOLEAN /\ {MaxLost, MaxLate} \subseteq Nat

VARIABLES
    script,
    fetched, taken,          \* of each side, how much stdio read and fgets returned
    at,                      \* where the program is
    ready,                   \* the socket is in the set of its last select
    net,                     \* packets under way to it
    printed,                 \* the other side's lines that it printed
    lost, late,              \* how often the network lost a packet, and how often it
                             \* doubled or delayed one
    fins                     \* history: at each FIN of the server, what it had taken

terminal == <<fetched, taken>>
faults == <<lost, late>>
vars == <<script, terminal, at, ready, net, printed, faults, fins>>

Other(s) == CHOOSE o \in Sides : o # s
Packet(kind, line) == [kind |-> kind, line |-> line]
Text(n) == Packet("text", n)
Ack == Packet("ack", 0)
Fin == Packet("fin", 0)

Left == {"eof", "exit", "failed"}
Chatting(s) == at[s] \in {"select", "stdin", "sock", "finack", "finlast"}

\* sendto from s; a socket that was closed receives nothing.
Sent(channels, s, pkts) ==
    IF at[Other(s)] \in Left THEN channels ELSE [channels EXCEPT ![Other(s)] = @ \o pkts]
Send(s, pkts) == net' = Sent(net, s, pkts)
\* recvfrom of s, with what it answers; it waits while there is no packet.
Receive(s, pkts) == net[s] # <<>> /\ net' = Sent([net EXCEPT ![s] = Tail(@)], s, pkts)
Goto(s, phase) == at' = [at EXCEPT ![s] = phase]

-----------------------------------------------------------------------------
(* The terminals. *)

\* Whether something may be typed that select then sees: not what stdio has read.
MayType(s) == fetched[s] < Len(script[s])

\* fgets: from the buffer of stdio, or after one read.
Line(s) == script[s][taken[s] + 1]
LinesFrom(s, n) == {m \in n .. Len(script[s]) : \A k \in n .. m : script[s][k] # "eof"}
Gets(s, what) ==
    /\ taken[s] < Len(script[s]) /\ Line(s) = what
    /\ taken' = [taken EXCEPT ![s] = @ + 1]
    /\ \E n \in IF taken[s] < fetched[s] THEN {fetched[s]}
                ELSE IF Piped /\ what # "eof" THEN LinesFrom(s, taken[s] + 1) ELSE {taken[s] + 1} :
         fetched' = [fetched EXCEPT ![s] = n]

-----------------------------------------------------------------------------
(* The loop, common to both. *)

AfterStdin(s, heard) == IF heard THEN "sock" ELSE "select"

Select(s, phase) ==
    /\ at[s] = "select" /\ Goto(s, phase)
    /\ IF phase = "stdin" THEN MayType(s) ELSE phase = "sock" /\ net[s] # <<>>
    /\ ready' = [ready EXCEPT ![s] = net[s] # <<>>]
    /\ UNCHANGED <<script, terminal, net, printed, faults, fins>>

SendLine(s) ==
    /\ at[s] = "stdin" /\ Gets(s, "text")
    /\ Send(s, <<Text(taken[s] + 1)>>)
    /\ Goto(s, AfterStdin(s, ready[s]))
    /\ UNCHANGED <<script, ready, printed, faults, fins>>

\* Data is printed and acknowledged, anything else but a FIN passed over.
IsData(p) == p.kind = "text"

Hear(s) ==
    /\ at[s] = "sock" /\ net[s] # <<>> /\ Head(net[s]).kind # "fin"
    /\ LET p == Head(net[s]) IN
         /\ Receive(s, IF IsData(p) THEN <<Ack>> ELSE <<>>)
         /\ printed' = IF IsData(p) THEN [printed EXCEPT ![s] = Append(@, p.line)] ELSE printed
    /\ Goto(s, "select")
    /\ UNCHANGED <<script, terminal, ready, faults, fins>>

-----------------------------------------------------------------------------
(* The client. *)

LeaveAtOnce(phase) == "exit"                                               \* bug
GoOn(phase) == phase

\* /quit sends a FIN, and the loop goes on until that of the server.
ClientQuits ==
    /\ at["client"] = "stdin" /\ Gets("client", "quit")
    /\ Send("client", <<Fin>>)
    /\ Goto("client", GoOn(AfterStdin("client", ready["client"])))
    /\ UNCHANGED <<script, ready, printed, faults, fins>>

\* The end of the terminal is the end of the client, and the server is not told.
ClientGivesUp ==
    /\ at["client"] = "stdin" /\ Gets("client", "eof")
    /\ Goto("client", "eof") /\ net' = [net EXCEPT !["client"] = <<>>]
    /\ UNCHANGED <<script, ready, printed, faults, fins>>

NoAnswer == <<>>                                                           \* bug
AnswerToFin == <<Ack>>

ClientLeaves ==
    /\ at["client"] = "sock" /\ net["client"] # <<>> /\ Head(net["client"]).kind = "fin"
    /\ net' = [Sent(net, "client", AnswerToFin) EXCEPT !["client"] = <<>>]
    /\ Goto("client", "exit")
    /\ UNCHANGED <<script, terminal, ready, printed, faults, fins>>

-----------------------------------------------------------------------------
(* The server. *)

SaysFin == fins' = Append(fins, taken["server"])

\* /quit sends a FIN and waits for one packet, whichever: with the flag ACK it
\* is the end of the loop, otherwise it is gone.
ServerQuits ==
    /\ at["server"] = "stdin" /\ Gets("server", "quit")
    /\ Send("server", <<Fin>>) /\ SaysFin /\ Goto("server", "finack")
    /\ UNCHANGED <<script, ready, printed, faults>>

WaitForAck(p) == IF p.kind = "ack" THEN "name" ELSE "finack"               \* bug
AfterWait(p) == IF p.kind = "ack" THEN "name" ELSE AfterStdin("server", ready["server"])

FinAnswered ==
    /\ at["server"] = "finack" /\ Receive("server", <<>>)
    /\ Goto("server", AfterWait(Head(net["server"])))
    /\ UNCHANGED <<script, terminal, ready, printed, faults, fins>>

ServerGivesUp ==
    /\ at["server"] = "stdin" /\ Gets("server", "eof") /\ Goto("server", "name")
    /\ UNCHANGED <<script, ready, net, printed, faults, fins>>

\* A FIN is answered with an ACK and a FIN, one packet, whichever, is waited
\* for, and the loop goes on.
AckOnly == <<Ack>>                                                         \* bug
Answer == <<Ack, Fin>>

ServerAnswersFin ==
    /\ at["server"] = "sock" /\ net["server"] # <<>> /\ Head(net["server"]).kind = "fin"
    /\ Receive("server", Answer) /\ SaysFin /\ Goto("server", "finlast")
    /\ UNCHANGED <<script, terminal, ready, printed, faults>>

LastAck == /\ at["server"] = "finlast" /\ Receive("server", <<>>) /\ Goto("server", "select")
           /\ UNCHANGED <<script, terminal, ready, printed, faults, fins>>

\* After the loop: the first packet must be the name of a file.
ReceiveName ==
    /\ at["server"] = "name" /\ net["server"] # <<>>
    /\ \E phase \in IF ~IsData(Head(net["server"])) THEN {"failed"}
                    ELSE IF FilesOpen THEN {"data"} ELSE {"data", "failed"} :
         /\ Goto("server", phase)
         /\ net' = [net EXCEPT !["server"] = IF phase = "failed" THEN <<>> ELSE Tail(@)]
    /\ UNCHANGED <<script, terminal, ready, printed, faults, fins>>

ReceiveData ==
    /\ at["server"] = "data" /\ net["server"] # <<>>
    /\ IF Head(net["server"]).kind = "fin"
       THEN Receive("server", Answer) /\ SaysFin /\ Goto("server", "last")
       ELSE Receive("server", <<Ack>>) /\ UNCHANGED <<at, fins>>
    /\ UNCHANGED <<script, terminal, ready, printed, faults>>

ReceiveLast == /\ at["server"] = "last" /\ net["server"] # <<>> /\ Goto("server", "exit")
               /\ net' = [net EXCEPT !["server"] = <<>>]
               /\ UNCHANGED <<script, terminal, ready, printed, faults, fins>>

-----------------------------------------------------------------------------

(* The network: datagrams, as in the transfer of files. *)

Altered(s, packets) == net' = [net EXCEPT ![s] = packets]

Lose(s) == /\ lost < MaxLost /\ lost' = lost + 1
           /\ \E k \in DOMAIN net[s] : Altered(s, RemoveAt(net[s], k))
           /\ UNCHANGED <<script, terminal, at, ready, printed, late, fins>>

\* A packet overtakes the one before it; or comes once more, after all that are under way.
Swapped(q, k) == [q EXCEPT ![k] = q[k + 1], ![k + 1] = q[k]]
Delay(s) == /\ late < MaxLate /\ late' = late + 1
            /\ \E k \in DOMAIN net[s] : \/ k < Len(net[s]) /\ Altered(s, Swapped(net[s], k))
                                        \/ Altered(s, Append(net[s], net[s][k]))
            /\ UNCHANGED <<script, terminal, at, ready, printed, lost, fins>>

Network == \E s \in Sides : Lose(s) \/ Delay(s)

-----------------------------------------------------------------------------

Init == /\ script \in Scripts
        /\ fetched = [s \in Sides |-> 0] /\ taken = fetched
        /\ at = [s \in Sides |-> "select"] /\ ready = [s \in Sides |-> FALSE]
        /\ net = [s \in Sides |-> <<>>] /\ printed = net
        /\ lost = 0 /\ late = 0 /\ fins = <<>>

Turn(s) == SendLine(s) \/ Hear(s)
Client == Turn("client") \/ ClientQuits \/ ClientGivesUp \/ ClientLeaves
Server == \/ Turn("server") \/ ServerQuits \/ FinAnswered \/ ServerGivesUp \/ ServerAnswersFin
          \/ LastAck \/ ReceiveName \/ ReceiveData \/ ReceiveLast
Next == (\E s \in Sides : \E phase \in {"stdin", "sock"} : Select(s, phase)) \/ Client \/ Server \/ Network

Spec == Init /\ [][Next]_vars

\* Both programs go on when they can: select returns once a packet has come.
\* Nobody need type anything.
LiveSpec == /\ Spec /\ WF_vars(Client) /\ WF_vars(Server)
            /\ WF_vars(Select("client", "sock")) /\ WF_vars(Select("server", "sock"))

-----------------------------------------------------------------------------
(* Properties. *)

\* The values the variables take; who has left has no packets.
TypeOK ==
    /\ at["client"] \in {"select", "stdin", "sock", "eof", "exit"}
    /\ at["server"] \in {"select", "stdin", "sock", "finack", "finlast",
                         "name", "data", "last", "failed", "exit"}
    /\ \A s \in Sides :
         /\ taken[s] <= fetched[s] /\ fetched[s] <= Len(script[s])
         /\ net[s] \in Seq([kind : {"text", "ack", "fin"}, line : 0 .. Len(script[Other(s)])])
         /\ at[s] \in Left => net[s] = <<>>
    /\ lost \in 0 .. MaxLost /\ late \in 0 .. MaxLate /\ fins \in Seq(0 .. Len(script["server"]))

\* The lines of text of s among its first n lines, and those under way to s.
Said(s, n) == {k \in 1 .. n : script[s][k] = "text"}
Lines(packets) == {packets[k].line : k \in {j \in DOMAIN packets : IsData(packets[j])}}
Ascending(lines) == \A k, l \in DOMAIN lines : k < l => lines[k] < lines[l]

\* A client that leaves because of a FIN has printed nothing but lines of the
\* server, in order unless a packet was late, and of those that the server said
\* before its first FIN it missed at most one for each packet lost or late.
LastWords ==
    at["client"] = "exit" =>
        /\ fins # <<>> /\ (late = 0 => Ascending(printed["client"]))
        /\ ToSet(printed["client"]) \subseteq Said("server", taken["server"])
        /\ Cardinality(Said("server", fins[1]) \ ToSet(printed["client"])) <= lost + late

\* The server prints nothing but lines of the client, in order unless a packet was
\* late, and of those that are not under way it missed at most one for each packet
\* lost and one for each FIN it sent: the one its blind receive took.
Missed == Said("client", taken["client"]) \ (ToSet(printed["server"]) \cup Lines(net["server"]))
OneLinePerFin ==
    /\ late = 0 => Ascending(printed["server"])
    /\ ToSet(printed["server"]) \subseteq Said("client", taken["client"])
    /\ Chatting("server") => Cardinality(Missed) <= Len(fins) + lost

Typed(s, what) == \E n \in 1 .. taken[s] : script[s][n] = what

\* /quit of either side ends the client, however the two cross and whatever comes
\* late or twice, unless a packet was lost or the server's terminal ended.
QuitEndsClient ==
    (\E s \in Sides : Typed(s, "quit")) ~> at["client"] \in Left \/ lost > 0 \/ Typed("server", "eof")

\* A receive of the server that waits does not wait for ever as long as there is
\* a client, whatever comes late or twice, unless a packet was lost or the
\* client's terminal ended.
Blocked == at["server"] \in {"finack", "finlast", "sock"}
WaitsAreAnswered ==
    (Blocked /\ Chatting("client")) ~> ~Blocked \/ lost > 0 \/ at["client"] = "eof"

(* What the code does not keep. *)

\* "The connection is always terminated when either types /quit" (server.c:158)
QuitEndsServer == (\E s \in Sides : Typed(s, "quit")) ~> ~Chatting("server") \/ lost > 0

\* "either chat or file-transfer" (server.c:157)
EitherChatOrFile == at["server"] # "data"

\* A line that was read is taken from the buffer, as long as the loop goes on.
LineTaken == \A s \in Sides : (taken[s] < fetched[s]) ~> taken[s] = fetched[s] \/ ~Chatting(s)
=============================================================================
