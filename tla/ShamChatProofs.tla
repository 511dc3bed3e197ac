--------------------------- MODULE ShamChatProofs ---------------------------
(***************************************************************************)
(* Proofs about ShamChat, for conversations of every length and a network  *)
(* that loses, doubles and reorders any number of packets.                 *)
(***************************************************************************)
EXTENDS ShamChat, TLAPS, FiniteSetTheorems

Typings == {"text", "quit", "eof"}
Packets == [kind : {"text", "ack", "fin"}, line : Nat]
PacketsTo(s) == [kind : {"text", "ack", "fin"}, line : 0 .. Len(script[Other(s)])]

ClientPhases == {"select", "stdin", "sock", "eof", "exit"}
ServerPhases == {"select", "stdin", "sock", "finack", "finlast", "name", "data", "last", "failed", "exit"}

\* TypeOK, and what the variables are as functions and sequences, part by part.
TerminalsOK ==
    /\ script \in [Sides -> Seq(Typings)]
    /\ fetched \in [Sides -> Nat] /\ taken \in [Sides -> Nat]
    /\ \A s \in Sides : taken[s] <= fetched[s] /\ fetched[s] <= Len(script[s])
PhasesOK == /\ at \in [Sides -> ClientPhases \cup ServerPhases] /\ ready \in [Sides -> BOOLEAN]
            /\ at["client"] \in ClientPhases /\ at["server"] \in ServerPhases
ChannelsOK ==
    /\ net \in [Sides -> Seq(Packets)]
    /\ \A s \in Sides : net[s] \in Seq(PacketsTo(s)) /\ (at[s] \in Left => net[s] = <<>>)
RecordsOK == /\ printed \in [Sides -> Seq(Nat)] /\ lost \in 0 .. MaxLost /\ late \in 0 .. MaxLate
             /\ fins \in Seq(0 .. Len(script["server"]))
Values == TerminalsOK /\ PhasesOK /\ ChannelsOK /\ RecordsOK

-----------------------------------------------------------------------------
(* The sides. *)

\* Each side is the other of the other.
LEMMA Others ==
    /\ Sides = {"client", "server"}
    /\ Other("client") = "server" /\ Other("server") = "client"
<1>1. Other("client") \in Sides /\ Other("client") # "client"
      BY DEF Other, Sides
<1>2. Other("server") \in Sides /\ Other("server") # "server"
      BY DEF Other, Sides
<1>   QED BY <1>1, <1>2 DEF Sides

\* What sendto does to the two channels.
LEMMA SentTo ==
    ASSUME NEW channels \in [Sides -> Seq(Packets)], NEW s \in Sides, NEW pkts \in Seq(Packets)
    PROVE  /\ Sent(channels, s, pkts) \in [Sides -> Seq(Packets)]
           /\ Sent(channels, s, pkts)[s] = channels[s]
           /\ at[Other(s)] \in Left => Sent(channels, s, pkts)[Other(s)] = channels[Other(s)]
           /\ at[Other(s)] \notin Left =>
                Sent(channels, s, pkts)[Other(s)] = channels[Other(s)] \o pkts
<1>1. Other(s) \in Sides /\ Other(s) # s
      BY Others
<1>2. CASE at[Other(s)] \in Left
      BY <1>1, <1>2 DEF Sent
<1>3. CASE at[Other(s)] \notin Left
  <2>1. channels[Other(s)] \o pkts \in Seq(Packets)
        BY <1>1
  <2>2. Sent(channels, s, pkts) = [channels EXCEPT ![Other(s)] = channels[Other(s)] \o pkts]
        BY <1>3 DEF Sent
  <2>   QED BY <1>1, <1>3, <2>1, <2>2
<1>   QED BY <1>2, <1>3

\* Packets as the programs make them.
LEMMA PacketKinds ==
    /\ Ack \in Packets /\ Fin \in Packets /\ ~IsData(Ack) /\ ~IsData(Fin)
    /\ Ack.kind = "ack" /\ Fin.kind = "fin" /\ Ack.line = 0 /\ Fin.line = 0
    /\ \A n \in Nat : Text(n) \in Packets /\ IsData(Text(n)) /\ Text(n).line = n /\ Text(n).kind = "text"
BY DEF Ack, Fin, Text, Packet, Packets, IsData

-----------------------------------------------------------------------------
(* Types. *)

\* What fgets returns, and what stdio has read by then.
LEMMA GetsOne ==
    ASSUME NEW s \in Sides, NEW what, Values, Gets(s, what)
    PROVE  /\ taken[s] + 1 \in 1 .. Len(script[s]) /\ script[s][taken[s] + 1] = what
           /\ taken' = [taken EXCEPT ![s] = taken[s] + 1]
           /\ taken' \in [Sides -> Nat] /\ fetched' \in [Sides -> Nat]
           /\ \A t \in Sides : taken'[t] <= fetched'[t] /\ fetched'[t] <= Len(script[t])
<1>1. /\ taken[s] \in Nat /\ fetched[s] \in Nat /\ Len(script[s]) \in Nat
      /\ taken[s] <= fetched[s] /\ fetched[s] <= Len(script[s]) /\ taken[s] < Len(script[s])
  <2>1. taken[s] < Len(script[s])
        BY Zenon DEF Gets
  <2>2. taken[s] <= fetched[s] /\ fetched[s] <= Len(script[s])
        BY Zenon DEF Values, TerminalsOK
  <2>3. taken[s] \in Nat /\ fetched[s] \in Nat /\ Len(script[s]) \in Nat
        BY DEF Values, TerminalsOK
  <2>   QED BY <2>1, <2>2, <2>3
<1>2. PICK n \in IF taken[s] < fetched[s] THEN {fetched[s]}
                 ELSE IF Piped /\ what # "eof" THEN LinesFrom(s, taken[s] + 1) ELSE {taken[s] + 1} :
        fetched' = [fetched EXCEPT ![s] = n]
      BY DEF Gets
<1>3. n \in Nat /\ taken[s] + 1 <= n /\ n <= Len(script[s])
      BY <1>1, <1>2 DEF LinesFrom
<1>4. taken' = [taken EXCEPT ![s] = taken[s] + 1]
      BY DEF Gets
<1>5. taken' \in [Sides -> Nat] /\ fetched' \in [Sides -> Nat]
      BY <1>1, <1>2, <1>3, <1>4 DEF Values, TerminalsOK
<1>6. \A t \in Sides : taken'[t] <= fetched'[t] /\ fetched'[t] <= Len(script[t])
      BY <1>1, <1>2, <1>3, <1>4 DEF Values, TerminalsOK
<1>7. script[s][taken[s] + 1] = what
      BY DEF Gets, Line
<1>   QED BY <1>1, <1>4, <1>5, <1>6, <1>7

\* A packet to s in the channel to s, and what follows from a send.
LEMMA ChannelTypes ==
    ASSUME Values, NEW s \in Sides, NEW pkts \in Seq(PacketsTo(Other(s))),
           NEW channels \in [Sides -> Seq(Packets)],
           \A t \in Sides : channels[t] \in Seq(PacketsTo(t)) /\ (at[t] \in Left => channels[t] = <<>>)
    PROVE  /\ Sent(channels, s, pkts) \in [Sides -> Seq(Packets)]
           /\ \A t \in Sides : /\ Sent(channels, s, pkts)[t] \in Seq(PacketsTo(t))
                               /\ at[t] \in Left => Sent(channels, s, pkts)[t] = <<>>
<1>1. Other(s) \in Sides /\ Other(s) # s /\ Other(Other(s)) = s /\ Sides = {s, Other(s)}
      BY Others
<1>2. Len(script[s]) \in Nat
      BY DEF Values, TerminalsOK
<1>3. PacketsTo(Other(s)) \subseteq Packets
      BY <1>1, <1>2 DEF PacketsTo, Packets
<1>4. pkts \in Seq(Packets)
      BY <1>3
<1>5. channels[Other(s)] \o pkts \in Seq(PacketsTo(Other(s)))
      BY <1>1
<1> DEFINE sent == Sent(channels, s, pkts)
<1>6. /\ sent \in [Sides -> Seq(Packets)] /\ sent[s] = channels[s]
      /\ at[Other(s)] \in Left => sent[Other(s)] = channels[Other(s)]
      /\ at[Other(s)] \notin Left => sent[Other(s)] = channels[Other(s)] \o pkts
      BY <1>4, SentTo, ZenonT(30)
<1> HIDE DEF sent
<1>7. sent[Other(s)] \in Seq(PacketsTo(Other(s))) /\ (at[Other(s)] \in Left => sent[Other(s)] = <<>>)
      BY <1>1, <1>5, <1>6
<1>8. sent[s] \in Seq(PacketsTo(s)) /\ (at[s] \in Left => sent[s] = <<>>)
      BY <1>6
<1>9. \A t \in Sides : sent[t] \in Seq(PacketsTo(t)) /\ (at[t] \in Left => sent[t] = <<>>)
      BY <1>1, <1>7, <1>8
<1>   QED BY <1>6, <1>9 DEF sent

\* The answers are packets that fit any channel.
LEMMA AnswerTypes ==
    ASSUME Values, NEW s \in Sides
    PROVE  /\ <<>> \in Seq(PacketsTo(s)) /\ <<Ack>> \in Seq(PacketsTo(s))
           /\ <<Fin>> \in Seq(PacketsTo(s)) /\ <<Ack, Fin>> \in Seq(PacketsTo(s))
           /\ net[s] # <<>> => Tail(net[s]) \in Seq(PacketsTo(s)) /\ Head(net[s]) \in PacketsTo(s)
           /\ net[s] \in Seq(PacketsTo(s)) /\ PacketsTo(s) \subseteq Packets
<1>1. Other(s) \in Sides /\ Len(script[Other(s)]) \in Nat
      BY Others DEF Values, TerminalsOK
<1>2. Ack \in PacketsTo(s) /\ Fin \in PacketsTo(s)
      BY <1>1 DEF PacketsTo, Ack, Fin, Packet
<1>3. net[s] \in Seq(PacketsTo(s))
      BY DEF Values, ChannelsOK
<1>4. PacketsTo(s) \subseteq Packets
      BY <1>1 DEF PacketsTo, Packets
<1>   QED BY <1>2, <1>3, <1>4

\* A receive with its answer leaves packets of the right kind in both channels.
LEMMA ReceiveTypes ==
    ASSUME Values, NEW s \in Sides, NEW pkts \in Seq(PacketsTo(Other(s))), Receive(s, pkts)
    PROVE  /\ net' \in [Sides -> Seq(Packets)]
           /\ \A t \in Sides : net'[t] \in Seq(PacketsTo(t)) /\ (at[t] \in Left => net'[t] = <<>>)
<1> DEFINE channels == [net EXCEPT ![s] = Tail(@)]
<1>1. net[s] # <<>> /\ net' = Sent(channels, s, pkts)
      BY DEF Receive
<1>2. /\ net \in [Sides -> Seq(Packets)]
      /\ \A t \in Sides : net[t] \in Seq(PacketsTo(t)) /\ (at[t] \in Left => net[t] = <<>>)
      BY DEF Values, ChannelsOK
<1>3. Tail(net[s]) \in Seq(PacketsTo(s)) /\ Tail(net[s]) \in Seq(Packets)
      BY <1>1, <1>2
<1>4. channels \in [Sides -> Seq(Packets)]
      BY <1>2, <1>3
<1>5. \A t \in Sides : channels[t] \in Seq(PacketsTo(t)) /\ (at[t] \in Left => channels[t] = <<>>)
      BY <1>1, <1>2, <1>3
<1> HIDE DEF channels
<1>   QED BY <1>1, <1>4, <1>5, ChannelTypes

\* The parts say all that TypeOK says.
LEMMA ValuesAreTyped == Values => TypeOK
<1> SUFFICES ASSUME Values PROVE TypeOK
    OBVIOUS
<1>1. /\ at["client"] \in {"select", "stdin", "sock", "eof", "exit"}
      /\ at["server"] \in {"select", "stdin", "sock", "finack", "finlast",
                           "name", "data", "last", "failed", "exit"}
      BY DEF Values, PhasesOK, ClientPhases, ServerPhases
<1>2. \A s \in Sides :
        /\ taken[s] <= fetched[s] /\ fetched[s] <= Len(script[s])
        /\ net[s] \in Seq([kind : {"text", "ack", "fin"}, line : 0 .. Len(script[Other(s)])])
        /\ at[s] \in Left => net[s] = <<>>
      BY DEF Values, TerminalsOK, ChannelsOK, PacketsTo
<1>   QED BY <1>1, <1>2, Zenon DEF TypeOK, Values, RecordsOK

-----------------------------------------------------------------------------

\* Where nobody goes out of the loop, and where somebody does.
LEMMA PhaseTypes ==
    ASSUME Values, NEW s \in Sides, NEW phase, Goto(s, phase),
           phase \in IF s = "client" THEN ClientPhases ELSE ServerPhases
    PROVE  /\ at' \in [Sides -> ClientPhases \cup ServerPhases]
           /\ at'["client"] \in ClientPhases /\ at'["server"] \in ServerPhases
           /\ at'[s] = phase /\ \A t \in Sides \ {s} : at'[t] = at[t]
BY Others DEF Values, PhasesOK, Goto

\* The start.
LEMMA ValuesInit == Init => Values
<1> SUFFICES ASSUME Init PROVE Values
    OBVIOUS
<1>1. TerminalsOK
      BY ChatAssumption DEF Init, TerminalsOK, Typings
<1>2. PhasesOK
      BY Others DEF Init, PhasesOK, ClientPhases, ServerPhases
<1>3. ChannelsOK
  <2>1. net = [s \in Sides |-> <<>>]
        BY DEF Init
  <2>   QED BY <2>1 DEF ChannelsOK
<1>4. RecordsOK
      BY ChatAssumption DEF Init, RecordsOK
<1>   QED BY <1>1, <1>2, <1>3, <1>4 DEF Values

\* A step in which nobody leaves keeps the channels in order when it sends or receives.
LEMMA ChannelsStay ==
    ASSUME Values, UNCHANGED script, \A t \in Sides : at'[t] \in Left => at[t] \in Left
    PROVE  /\ UNCHANGED net => ChannelsOK'
           /\ \A s \in Sides, pkts \in Seq(Packets) :
                pkts \in Seq(PacketsTo(Other(s))) /\ (Send(s, pkts) \/ Receive(s, pkts)) => ChannelsOK'
<1>1. \A t \in Sides : PacketsTo(t)' = PacketsTo(t)
      BY DEF PacketsTo
<1>2. /\ net \in [Sides -> Seq(Packets)]
      /\ \A t \in Sides : net[t] \in Seq(PacketsTo(t)) /\ (at[t] \in Left => net[t] = <<>>)
      BY DEF Values, ChannelsOK
<1>3. ASSUME /\ net' \in [Sides -> Seq(Packets)]
             /\ \A t \in Sides : net'[t] \in Seq(PacketsTo(t)) /\ (at[t] \in Left => net'[t] = <<>>)
      PROVE  ChannelsOK'
      BY <1>1, <1>3 DEF ChannelsOK
<1>4. UNCHANGED net => ChannelsOK'
      BY <1>2, <1>3
<1>5. ASSUME NEW s \in Sides, NEW pkts \in Seq(PacketsTo(Other(s))), Send(s, pkts)
      PROVE  ChannelsOK'
  <2>1. net' = Sent(net, s, pkts)
        BY <1>5 DEF Send
  <2>   QED BY <1>2, <1>3, <2>1, ChannelTypes
<1>6. ASSUME NEW s \in Sides, NEW pkts \in Seq(PacketsTo(Other(s))), Receive(s, pkts)
      PROVE  ChannelsOK'
      BY <1>3, <1>6, ReceiveTypes
<1>   QED BY <1>4, <1>5, <1>6

\* A step in which side s leaves closes its socket.
LEMMA ChannelsClosed ==
    ASSUME Values, UNCHANGED script, NEW s \in Sides, NEW phase, Goto(s, phase),
           NEW channels \in [Sides -> Seq(Packets)], net' = [channels EXCEPT ![s] = <<>>],
           \A t \in Sides : channels[t] \in Seq(PacketsTo(t)) /\ (at[t] \in Left => channels[t] = <<>>)
    PROVE  ChannelsOK'
<1>1. \A t \in Sides : PacketsTo(t)' = PacketsTo(t)
      BY DEF PacketsTo
<1>2. net' \in [Sides -> Seq(Packets)] /\ \A t \in Sides : net'[t] \in Seq(PacketsTo(t))
      BY Others
<1>3. \A t \in Sides : at'[t] \in Left => net'[t] = <<>>
      BY DEF Goto, Values, PhasesOK
<1>   QED BY <1>1, <1>2, <1>3 DEF ChannelsOK

\* A read of the terminal that does not end the program.
LEMMA ValuesLine ==
    ASSUME Values, NEW s \in Sides, NEW what, Gets(s, what), NEW phase, Goto(s, phase),
           NEW pkts \in Seq(PacketsTo(Other(s))), Send(s, pkts),
           phase \in {"select", "sock"} \/ (s = "server" /\ phase = "finack"),
           UNCHANGED <<script, ready, printed, faults>>, fins' \in Seq(0 .. Len(script["server"]))
    PROVE  Values'
<1>1. phase \in IF s = "client" THEN ClientPhases ELSE ServerPhases
      BY Others DEF ClientPhases, ServerPhases
<1>2. TerminalsOK'
      BY GetsOne DEF TerminalsOK, Values
<1>3. PhasesOK'
      BY <1>1, PhaseTypes DEF PhasesOK, Values
<1>4. \A t \in Sides : at'[t] \in Left => at[t] \in Left
      BY <1>1, PhaseTypes DEF Left
<1>5. pkts \in Seq(Packets)
      BY Others, AnswerTypes
<1>6. ChannelsOK'
      BY <1>4, <1>5, ChannelsStay
<1>7. RecordsOK'
      BY DEF Values, RecordsOK, faults
<1>   QED BY <1>2, <1>3, <1>6, <1>7 DEF Values

\* A packet received that does not end the program.
LEMMA ValuesPacket ==
    ASSUME Values, NEW s \in Sides, NEW pkts \in Seq(PacketsTo(Other(s))), Receive(s, pkts),
           NEW phase, Goto(s, phase) \/ UNCHANGED at,
           phase \in {"select", "sock"} \/ (s = "server" /\ phase \in ServerPhases \ Left),
           UNCHANGED <<script, terminal, ready, faults>>, printed' \in [Sides -> Seq(Nat)],
           fins' \in Seq(0 .. Len(script["server"]))
    PROVE  Values'
<1>1. phase \in IF s = "client" THEN ClientPhases ELSE ServerPhases
      BY Others DEF ClientPhases, ServerPhases
<1>2. TerminalsOK'
      BY DEF TerminalsOK, Values, terminal
<1>3. PhasesOK'
      BY <1>1, PhaseTypes DEF PhasesOK, Values
<1>4. \A t \in Sides : at'[t] \in Left => at[t] \in Left
      BY <1>1, PhaseTypes DEF Left
<1>5. pkts \in Seq(Packets)
      BY Others, AnswerTypes
<1>6. ChannelsOK'
      BY <1>4, <1>5, ChannelsStay
<1>7. RecordsOK'
      BY DEF Values, RecordsOK, faults
<1>   QED BY <1>2, <1>3, <1>6, <1>7 DEF Values

\* What fgets returned fits into a packet to the other side.
LEMMA TextTypes ==
    ASSUME Values, NEW s \in Sides, taken[s] + 1 \in 1 .. Len(script[s])
    PROVE  <<Text(taken[s] + 1)>> \in Seq(PacketsTo(Other(s)))
<1>1. Other(Other(s)) = s /\ Len(script[s]) \in Nat
      BY Others DEF Values, TerminalsOK
<1>2. Text(taken[s] + 1) \in PacketsTo(Other(s))
      BY <1>1 DEF PacketsTo, Text, Packet
<1>   QED BY <1>2

\* A FIN of the server is noted with what the server had taken.
LEMMA FinsTypes ==
    ASSUME Values
    PROVE  /\ SaysFin => fins' \in Seq(0 .. Len(script["server"]))
           /\ UNCHANGED fins => fins' \in Seq(0 .. Len(script["server"]))
<1>1. taken["server"] \in 0 .. Len(script["server"])
  <2>1. /\ taken["server"] \in Nat /\ fetched["server"] \in Nat /\ Len(script["server"]) \in Nat
        /\ taken["server"] <= fetched["server"] /\ fetched["server"] <= Len(script["server"])
        BY Others DEF Values, TerminalsOK
  <2>   QED BY <2>1
<1>2. fins \in Seq(0 .. Len(script["server"]))
      BY DEF Values, RecordsOK, faults
<1> DEFINE S == 0 .. Len(script["server"])
<1> HIDE DEF S
<1>3. Append(fins, taken["server"]) \in Seq(S)
      BY <1>1, <1>2 DEF S
<1>   QED BY <1>2, <1>3, Zenon DEF SaysFin, S

\* The line that a side hears is a number.
LEMMA HeadTypes ==
    ASSUME Values, NEW s \in Sides, net[s] # <<>>
    PROVE  Head(net[s]) \in Packets /\ Head(net[s]).line \in Nat /\ Head(net[s]).kind \in {"text", "ack", "fin"}
<1>1. Head(net[s]) \in Packets
      BY AnswerTypes
<1>   QED BY <1>1 DEF Packets

\* A step of either program, of the network, and a return of select.
LEMMA ValuesTurn ==
    ASSUME Values, NEW s \in Sides, Turn(s)
    PROVE  Values'
<1>1. CASE SendLine(s)
  <2>1. Gets(s, "text") /\ Send(s, <<Text(taken[s] + 1)>>) /\ Goto(s, AfterStdin(s, ready[s]))
        BY <1>1 DEF SendLine
  <2>2. UNCHANGED <<script, ready, printed, faults>> /\ UNCHANGED fins
        BY <1>1 DEF SendLine
  <2>3. taken[s] + 1 \in 1 .. Len(script[s])
        BY <2>1, GetsOne
  <2>4. AfterStdin(s, ready[s]) \in {"select", "sock"}
        BY DEF AfterStdin
  <2>   QED BY <2>1, <2>2, <2>3, <2>4, ValuesLine, TextTypes, FinsTypes
<1>2. CASE Hear(s)
  <2> DEFINE pkts == IF IsData(Head(net[s])) THEN <<Ack>> ELSE <<>>
  <2>1. Receive(s, pkts) /\ Goto(s, "select") /\ UNCHANGED <<script, terminal, ready, faults>> /\ UNCHANGED fins
        BY <1>2 DEF Hear
  <2>2. printed' = IF IsData(Head(net[s])) THEN [printed EXCEPT ![s] = Append(@, Head(net[s]).line)] ELSE printed
        BY <1>2 DEF Hear
  <2>3. net[s] # <<>>
        BY <1>2 DEF Hear
  <2>4. printed' \in [Sides -> Seq(Nat)]
        BY <2>2, <2>3, HeadTypes DEF Values, RecordsOK, faults
  <2>5. pkts \in Seq(PacketsTo(Other(s)))
        BY Others, AnswerTypes
  <2> HIDE DEF pkts
  <2>   QED BY <2>1, <2>4, <2>5, ValuesPacket, FinsTypes
<1>   QED BY <1>1, <1>2 DEF Turn

\* The steps of the client keep the types.
LEMMA ValuesClient ==
    ASSUME Values, Client
    PROVE  Values'
<1>0. "client" \in Sides /\ Other("client") = "server" /\ "server" \in Sides
      BY Others
<1>1. CASE Turn("client")
      BY <1>0, <1>1, ValuesTurn
<1>2. CASE ClientQuits
  <2>1. /\ Gets("client", "quit") /\ Send("client", <<Fin>>)
        /\ Goto("client", AfterStdin("client", ready["client"]))
        /\ UNCHANGED <<script, ready, printed, faults>> /\ UNCHANGED fins
        BY <1>2 DEF ClientQuits, GoOn
  <2>2. AfterStdin("client", ready["client"]) \in {"select", "sock"}
        BY DEF AfterStdin
  <2>3. <<Fin>> \in Seq(PacketsTo(Other("client")))
        BY <1>0, AnswerTypes
  <2>   QED BY <1>0, <2>1, <2>2, <2>3, ValuesLine, FinsTypes
<1>3. CASE ClientGivesUp
  <2>1. /\ Gets("client", "eof") /\ Goto("client", "eof") /\ net' = [net EXCEPT !["client"] = <<>>]
        /\ UNCHANGED script /\ UNCHANGED <<ready, printed, faults, fins>>
        BY <1>3 DEF ClientGivesUp
  <2>2. TerminalsOK'
        BY <1>0, <2>1, GetsOne DEF TerminalsOK, Values
  <2>3. PhasesOK'
        BY <1>0, <2>1, PhaseTypes DEF PhasesOK, Values, ClientPhases
  <2>4. ChannelsOK'
    <3>1. /\ net \in [Sides -> Seq(Packets)]
          /\ \A t \in Sides : net[t] \in Seq(PacketsTo(t)) /\ (at[t] \in Left => net[t] = <<>>)
          BY DEF Values, ChannelsOK
    <3>   QED BY <1>0, <2>1, <3>1, ChannelsClosed
  <2>5. RecordsOK'
        BY <2>1 DEF Values, RecordsOK, faults
  <2>   QED BY <2>2, <2>3, <2>4, <2>5 DEF Values
<1>4. CASE ClientLeaves
  <2>1. /\ Goto("client", "exit") /\ net' = [Sent(net, "client", <<Ack>>) EXCEPT !["client"] = <<>>]
        /\ UNCHANGED script /\ UNCHANGED <<terminal, ready, printed, faults, fins>>
        BY <1>4 DEF ClientLeaves, AnswerToFin
  <2>2. TerminalsOK'
        BY <2>1 DEF TerminalsOK, Values, terminal
  <2>3. PhasesOK'
        BY <1>0, <2>1, PhaseTypes DEF PhasesOK, Values, ClientPhases
  <2>4. ChannelsOK'
    <3>1. /\ net \in [Sides -> Seq(Packets)]
          /\ \A t \in Sides : net[t] \in Seq(PacketsTo(t)) /\ (at[t] \in Left => net[t] = <<>>)
          BY DEF Values, ChannelsOK
    <3>2. <<Ack>> \in Seq(PacketsTo(Other("client")))
          BY <1>0, AnswerTypes
    <3>3. /\ Sent(net, "client", <<Ack>>) \in [Sides -> Seq(Packets)]
          /\ \A t \in Sides : /\ Sent(net, "client", <<Ack>>)[t] \in Seq(PacketsTo(t))
                              /\ at[t] \in Left => Sent(net, "client", <<Ack>>)[t] = <<>>
          BY <1>0, <3>1, <3>2, ChannelTypes
    <3>   QED BY <1>0, <2>1, <3>3, ChannelsClosed
  <2>5. RecordsOK'
        BY <2>1 DEF Values, RecordsOK, faults
  <2>   QED BY <2>2, <2>3, <2>4, <2>5 DEF Values
<1>   QED BY <1>1, <1>2, <1>3, <1>4 DEF Client

\* The steps of the server keep the types.
LEMMA ValuesServer ==
    ASSUME Values, Server
    PROVE  Values'
<1>0. "client" \in Sides /\ Other("server") = "client" /\ "server" \in Sides
      BY Others
<1>1. CASE Turn("server")
      BY <1>0, <1>1, ValuesTurn
<1>2. CASE ServerQuits
  <2>1. /\ Gets("server", "quit") /\ Send("server", <<Fin>>) /\ Goto("server", "finack")
        /\ UNCHANGED <<script, ready, printed, faults>> /\ SaysFin
        BY <1>2 DEF ServerQuits
  <2>2. <<Fin>> \in Seq(PacketsTo(Other("server")))
        BY <1>0, AnswerTypes
  <2>   QED BY <1>0, <2>1, <2>2, ValuesLine, FinsTypes
<1>3. CASE ServerGivesUp
  <2>1. /\ Gets("server", "eof") /\ Goto("server", "name")
        /\ UNCHANGED script /\ UNCHANGED <<ready, net, printed, faults, fins>>
        BY <1>3 DEF ServerGivesUp
  <2>2. TerminalsOK'
        BY <1>0, <2>1, GetsOne DEF TerminalsOK, Values
  <2>3. PhasesOK'
        BY <1>0, <2>1, PhaseTypes DEF PhasesOK, Values, ServerPhases
  <2>4. \A t \in Sides : at'[t] \in Left => at[t] \in Left
        BY <1>0, <2>1, PhaseTypes DEF Left, ServerPhases
  <2>5. ChannelsOK'
        BY <2>1, <2>4, ChannelsStay
  <2>6. RecordsOK'
        BY <2>1 DEF Values, RecordsOK, faults
  <2>   QED BY <2>2, <2>3, <2>5, <2>6 DEF Values
<1>4. CASE FinAnswered \/ ServerAnswersFin \/ LastAck \/ ReceiveData
  <2>1. printed' \in [Sides -> Seq(Nat)] /\ UNCHANGED <<script, terminal, ready, faults>>
        BY <1>4 DEF FinAnswered, ServerAnswersFin, LastAck, ReceiveData, Values, RecordsOK
  <2>2. fins' \in Seq(0 .. Len(script["server"]))
        BY <1>4, FinsTypes DEF FinAnswered, ServerAnswersFin, LastAck, ReceiveData
  <2>3. <<>> \in Seq(PacketsTo("client")) /\ <<Ack>> \in Seq(PacketsTo("client")) /\ Answer \in Seq(PacketsTo("client"))
        BY <1>0, AnswerTypes DEF Answer
  <2>4. PICK pkts \in {<<>>, <<Ack>>, Answer} : Receive("server", pkts)
        BY <1>4 DEF FinAnswered, ServerAnswersFin, LastAck, ReceiveData
  <2>5. PICK phase \in {"select", "sock", "finlast", "name", "last"} :
          Goto("server", phase) \/ UNCHANGED at
    <3>1. \A p : AfterWait(p) \in {"name", "select", "sock"}
          BY DEF AfterWait, AfterStdin
    <3>   QED BY <1>4, <3>1 DEF FinAnswered, ServerAnswersFin, LastAck, ReceiveData
  <2>6. phase \in ServerPhases \ Left
        BY DEF ServerPhases, Left
  <2>7. pkts \in Seq(PacketsTo("client"))
        BY <2>3
  <2>   QED BY <1>0, <2>1, <2>2, <2>4, <2>5, <2>6, <2>7, ValuesPacket
<1>5. CASE ReceiveName \/ ReceiveLast
  <2>1. UNCHANGED script /\ UNCHANGED <<terminal, ready, printed, faults, fins>> /\ net["server"] # <<>>
        BY <1>5 DEF ReceiveName, ReceiveLast
  <2>2. PICK phase \in {"failed", "data", "exit"} :
          /\ Goto("server", phase)
          /\ net' = [net EXCEPT !["server"] = IF phase = "data" THEN Tail(@) ELSE <<>>]
        BY <1>5 DEF ReceiveName, ReceiveLast
  <2>3. phase \in ServerPhases
        BY DEF ServerPhases
  <2>4. TerminalsOK'
        BY <2>1 DEF TerminalsOK, Values, terminal
  <2>5. PhasesOK'
        BY <1>0, <2>1, <2>2, <2>3, PhaseTypes DEF PhasesOK, Values
  <2>6. ChannelsOK'
    <3>1. /\ net \in [Sides -> Seq(Packets)]
          /\ \A t \in Sides : net[t] \in Seq(PacketsTo(t)) /\ (at[t] \in Left => net[t] = <<>>)
          BY DEF Values, ChannelsOK
    <3>2. CASE phase # "data"
          BY <1>0, <2>1, <2>2, <3>1, <3>2, ChannelsClosed
    <3>3. CASE phase = "data"
      <4>1. Tail(net["server"]) \in Seq(PacketsTo("server")) /\ Tail(net["server"]) \in Seq(Packets)
            BY <1>0, <2>1, <3>1
      <4>2. net' \in [Sides -> Seq(Packets)] /\ \A t \in Sides : net'[t] \in Seq(PacketsTo(t))
            BY <1>0, <2>2, <3>1, <3>3, <4>1
      <4>3. \A t \in Sides : PacketsTo(t)' = PacketsTo(t)
            BY <2>1 DEF PacketsTo
      <4>4. \A t \in Sides : at'[t] \in Left => t # "server" /\ at[t] \in Left
            BY <1>0, <2>2, <2>3, <3>3, PhaseTypes DEF Left
      <4>5. \A t \in Sides : at'[t] \in Left => net'[t] = <<>>
            BY <2>2, <3>1, <4>4
      <4>   QED BY <4>2, <4>3, <4>5 DEF ChannelsOK
    <3>   QED BY <3>2, <3>3
  <2>7. RecordsOK'
        BY <2>1 DEF Values, RecordsOK, faults
  <2>   QED BY <2>4, <2>5, <2>6, <2>7 DEF Values
<1>   QED BY <1>1, <1>2, <1>3, <1>4, <1>5 DEF Server

\* What the network makes of a channel at its packet k.
Altering(q, k) == {RemoveAt(q, k), Append(q, q[k])} \cup {Swapped(q, m) : m \in {k} \cap 1 .. Len(q) - 1}

\* The packets are those that there were.
LEMMA AlteredTypes ==
    ASSUME NEW S, NEW q \in Seq(S), NEW k \in DOMAIN q, NEW r \in Altering(q, k)
    PROVE  r \in Seq(S)
<1>1. k \in 1 .. Len(q) /\ q[k] \in S /\ Len(q) \in Nat
      OBVIOUS
<1>2. CASE r = RemoveAt(q, k)
      BY <1>1, <1>2 DEF RemoveAt
<1>3. CASE r = Append(q, q[k])
      BY <1>1, <1>3
<1>4. CASE k < Len(q) /\ r = Swapped(q, k)
  <2>1. k + 1 \in 1 .. Len(q) /\ q[k + 1] \in S
        BY <1>1, <1>4
  <2>2. DOMAIN q = 1 .. Len(q) /\ q \in [1 .. Len(q) -> S]
        OBVIOUS
  <2>3. r \in [1 .. Len(q) -> S]
        BY <1>1, <1>4, <2>1, <2>2 DEF Swapped
  <2>   QED BY <1>1, <2>3
<1>   QED BY <1>1, <1>2, <1>3, <1>4 DEF Altering

\* A fault is one packet of one channel lost, doubled or overtaken.
LEMMA Disturbs ==
    ASSUME Values, Network
    PROVE  /\ \E s \in Sides : \E k \in DOMAIN net[s] : \E r \in Altering(net[s], k) :
                /\ net' = [net EXCEPT ![s] = r] /\ r \in Seq(PacketsTo(s))
                /\ \/ lost' = lost + 1 /\ late' = late /\ r = RemoveAt(net[s], k)
                   \/ lost' = lost /\ late' = late + 1 /\ r # RemoveAt(net[s], k)
           /\ lost \in Nat /\ late \in Nat /\ lost' \in 0 .. MaxLost /\ late' \in 0 .. MaxLate
           /\ UNCHANGED script /\ UNCHANGED <<terminal, at, ready, printed, fins>>
<1>1. \A s \in Sides : net[s] \in Seq(PacketsTo(s))
      BY DEF Values, ChannelsOK
<1>2. /\ lost \in Nat /\ late \in Nat /\ MaxLost \in Nat /\ MaxLate \in Nat
      /\ lost \in 0 .. MaxLost /\ late \in 0 .. MaxLate
      BY ChatAssumption DEF Values, RecordsOK
<1>3. PICK s \in Sides : Lose(s) \/ Delay(s)
      BY DEF Network
<1>4. CASE Lose(s)
  <2>1. PICK k \in DOMAIN net[s] : net' = [net EXCEPT ![s] = RemoveAt(net[s], k)]
        BY <1>4 DEF Lose, Altered
  <2>2. RemoveAt(net[s], k) \in Altering(net[s], k)
        BY DEF Altering
  <2>3. RemoveAt(net[s], k) \in Seq(PacketsTo(s))
        BY <1>1, <2>2, AlteredTypes
  <2>4. /\ lost' = lost + 1 /\ late' = late /\ lost' \in 0 .. MaxLost /\ late' \in 0 .. MaxLate
        /\ UNCHANGED script /\ UNCHANGED <<terminal, at, ready, printed, fins>>
        BY <1>2, <1>4 DEF Lose
  <2>   QED BY <1>2, <2>1, <2>2, <2>3, <2>4
<1>5. CASE Delay(s)
  <2>1. PICK k \in DOMAIN net[s] :
          \/ k < Len(net[s]) /\ net' = [net EXCEPT ![s] = Swapped(net[s], k)]
          \/ net' = [net EXCEPT ![s] = Append(net[s], net[s][k])]
        BY <1>5 DEF Delay, Altered
  <2>2. k \in 1 .. Len(net[s]) /\ Len(net[s]) \in Nat
        BY <1>1
  <2>3. PICK r : /\ (r = Append(net[s], net[s][k]) \/ (k < Len(net[s]) /\ r = Swapped(net[s], k)))
                 /\ net' = [net EXCEPT ![s] = r]
        BY <2>1
  <2>4. r \in Altering(net[s], k)
        BY <2>2, <2>3 DEF Altering
  <2>5. r \in Seq(PacketsTo(s))
        BY <1>1, <2>4, AlteredTypes
  <2>6. r # RemoveAt(net[s], k)
    <3>1. Len(RemoveAt(net[s], k)) = Len(net[s]) - 1
      <4> DEFINE a == SubSeq(net[s], 1, k - 1)
                 b == SubSeq(net[s], k + 1, Len(net[s]))
      <4>1. net[s] \in Seq(PacketsTo(s))
            BY <1>1
      <4>2. a \in Seq(PacketsTo(s)) /\ Len(a) = k - 1
            BY <2>2, <4>1
      <4>3. b \in Seq(PacketsTo(s)) /\ Len(b) = Len(net[s]) - k
            BY <2>2, <4>1
      <4>4. RemoveAt(net[s], k) = a \o b
            BY DEF RemoveAt
      <4> HIDE DEF a, b
      <4>5. Len(a \o b) = Len(a) + Len(b)
            BY <4>2, <4>3
      <4>   QED BY <2>2, <4>2, <4>3, <4>4, <4>5
    <3>2. Len(r) >= Len(net[s])
      <4>1. CASE r = Append(net[s], net[s][k])
            BY <1>1, <2>2, <4>1
      <4>2. CASE k < Len(net[s]) /\ r = Swapped(net[s], k)
            BY <1>1, <2>2, <4>2 DEF Swapped
      <4>   QED BY <2>3, <4>1, <4>2
    <3>   QED BY <2>2, <3>1, <3>2
  <2>7. /\ lost' = lost /\ late' = late + 1 /\ lost' \in 0 .. MaxLost /\ late' \in 0 .. MaxLate
        /\ UNCHANGED script /\ UNCHANGED <<terminal, at, ready, printed, fins>>
        BY <1>2, <1>5 DEF Delay
  <2>   QED BY <1>2, <2>3, <2>4, <2>5, <2>6, <2>7
<1>   QED BY <1>3, <1>4, <1>5

\* Every step keeps the types.
LEMMA ValuesNext ==
    ASSUME Values, [Next]_vars
    PROVE  Values'
<1>1. ASSUME NEW s \in Sides, NEW phase \in {"stdin", "sock"}, Select(s, phase)
      PROVE  Values'
  <2>1. Goto(s, phase) /\ UNCHANGED script /\ UNCHANGED net /\ UNCHANGED <<terminal, printed, faults, fins>>
        BY <1>1 DEF Select
  <2>2. ready' \in [Sides -> BOOLEAN]
        BY <1>1 DEF Select, Values, PhasesOK
  <2>3. phase \in IF s = "client" THEN ClientPhases ELSE ServerPhases
        BY DEF ClientPhases, ServerPhases
  <2>4. PhasesOK'
        BY <2>1, <2>2, <2>3, PhaseTypes DEF PhasesOK
  <2>5. \A t \in Sides : at'[t] \in Left => at[t] \in Left
        BY <2>1, <2>3, PhaseTypes DEF Left
  <2>6. ChannelsOK'
        BY <2>1, <2>5, ChannelsStay
  <2>7. TerminalsOK'
        BY <2>1 DEF TerminalsOK, Values, terminal
  <2>8. RecordsOK'
        BY <2>1 DEF Values, RecordsOK, faults
  <2>   QED BY <2>4, <2>6, <2>7, <2>8 DEF Values
<1>2. CASE Network
  <2>1. PICK s, r : /\ s \in Sides /\ DOMAIN net[s] # {}
                   /\ net' = [net EXCEPT ![s] = r] /\ r \in Seq(PacketsTo(s))
        BY <1>2, Disturbs, Zenon
  <2>2. PacketsTo(s) \subseteq Packets
        BY <2>1, AnswerTypes
  <2>3. /\ UNCHANGED script /\ UNCHANGED <<terminal, at, ready, printed, fins>>
        /\ lost' \in 0 .. MaxLost /\ late' \in 0 .. MaxLate
        BY <1>2, Disturbs
  <2>4. ChannelsOK'
    <3>1. /\ net \in [Sides -> Seq(Packets)]
          /\ \A t \in Sides : net[t] \in Seq(PacketsTo(t)) /\ (at[t] \in Left => net[t] = <<>>)
          BY DEF Values, ChannelsOK
    <3>2. \A t \in Sides : PacketsTo(t)' = PacketsTo(t)
          BY <2>3 DEF PacketsTo
    <3>3. net[s] # <<>> /\ r \in Seq(Packets)
          BY <2>1, <2>2, <3>1
    <3>4. net' \in [Sides -> Seq(Packets)] /\ \A t \in Sides : net'[t] \in Seq(PacketsTo(t))
          BY <2>1, <3>1, <3>3
    <3>5. \A t \in Sides : at'[t] \in Left => net'[t] = <<>>
          BY <2>1, <2>3, <3>1, <3>3
    <3>   QED BY <3>2, <3>4, <3>5 DEF ChannelsOK
  <2>5. TerminalsOK' /\ PhasesOK' /\ RecordsOK'
        BY <2>3 DEF Values, TerminalsOK, PhasesOK, RecordsOK, terminal
  <2>   QED BY <2>4, <2>5 DEF Values
<1>3. CASE UNCHANGED vars
      BY <1>3 DEF vars, terminal, faults, Values, TerminalsOK, PhasesOK, ChannelsOK, RecordsOK, PacketsTo
<1>   QED BY <1>1, <1>2, <1>3, ValuesClient, ValuesServer DEF Next

-----------------------------------------------------------------------------
(* The packets of a channel. *)

\* The texts of a channel are in the order in which they were typed.
Rising(q) == \A i, j \in DOMAIN q : i < j /\ IsData(q[i]) /\ IsData(q[j]) => q[i].line < q[j].line

\* What was printed, and what is under way, are lines that were said, and in their
\* order as long as no packet was late.
Orderly(p, q, S) ==
    /\ ToSet(p) \subseteq S /\ Lines(q) \subseteq S
    /\ late = 0 => Ascending(p) /\ Rising(q) /\ \A x \in ToSet(p), y \in Lines(q) : x < y

\* Whether a FIN is under way, and the texts that arrive before it.
HasFin(q) == \E k \in DOMAIN q : q[k].kind = "fin"
Heard(q) == {q[k].line : k \in {j \in DOMAIN q : IsData(q[j]) /\ \A i \in 1 .. j : q[i].kind # "fin"}}

\* No packets.
LEMMA NoPackets ==
    /\ Lines(<<>>) = {} /\ Rising(<<>>) /\ ~HasFin(<<>>) /\ Heard(<<>>) = {}
    /\ ToSet(<<>>) = {} /\ Ascending(<<>>)
BY DEF Lines, Rising, HasFin, Heard, ToSet, Ascending

\* One packet more at the end, text or not.
LEMMA OneMore ==
    ASSUME NEW q \in Seq(Packets), NEW x \in Packets
    PROVE  /\ Lines(Append(q, x)) = IF IsData(x) THEN Lines(q) \cup {x.line} ELSE Lines(q)
           /\ (IsData(x) => \A y \in Lines(q) : y < x.line) /\ Rising(q) => Rising(Append(q, x))
           /\ HasFin(Append(q, x)) <=> (HasFin(q) \/ x.kind = "fin")
           /\ Heard(Append(q, x)) = IF IsData(x) /\ ~HasFin(q) THEN Heard(q) \cup {x.line} ELSE Heard(q)
<1> DEFINE r == Append(q, x)
<1>1. /\ r \in Seq(Packets) /\ DOMAIN q = 1 .. Len(q) /\ DOMAIN r = 1 .. Len(q) + 1 /\ Len(q) \in Nat
      /\ r[Len(q) + 1] = x /\ \A k \in 1 .. Len(q) : r[k] = q[k]
      OBVIOUS
<1> HIDE DEF r
<1>2. Lines(r) = IF IsData(x) THEN Lines(q) \cup {x.line} ELSE Lines(q)
      BY <1>1 DEF Lines
<1>3. ASSUME IsData(x) => \A y \in Lines(q) : y < x.line, Rising(q) PROVE Rising(r)
      BY <1>1, <1>3 DEF Rising, Lines
<1>4. HasFin(r) <=> (HasFin(q) \/ x.kind = "fin")
      BY <1>1 DEF HasFin
<1>5. Heard(r) = IF IsData(x) /\ ~HasFin(q) THEN Heard(q) \cup {x.line} ELSE Heard(q)
  <2>1. \A j \in 1 .. Len(q) : (\A i \in 1 .. j : r[i].kind # "fin") <=> \A i \in 1 .. j : q[i].kind # "fin"
        BY <1>1
  <2>2. IsData(x) => ((\A i \in 1 .. Len(q) + 1 : r[i].kind # "fin") <=> ~HasFin(q))
        BY <1>1 DEF HasFin, IsData
  <2>   QED BY <1>1, <2>1, <2>2 DEF Heard
<1>   QED BY <1>2, <1>3, <1>4, <1>5 DEF r

\* The first packet gone.
LEMMA OneLess ==
    ASSUME NEW q \in Seq(Packets), q # <<>>
    PROVE  /\ Lines(q) = IF IsData(Head(q)) THEN Lines(Tail(q)) \cup {Head(q).line} ELSE Lines(Tail(q))
           /\ Rising(q) => Rising(Tail(q)) /\ (IsData(Head(q)) => \A y \in Lines(Tail(q)) : Head(q).line < y)
           /\ Head(q).kind # "fin" =>
                /\ HasFin(q) <=> HasFin(Tail(q))
                /\ Heard(q) = IF IsData(Head(q)) THEN Heard(Tail(q)) \cup {Head(q).line} ELSE Heard(Tail(q))
           /\ Head(q).kind = "fin" => HasFin(q) /\ Heard(q) = {}
<1> DEFINE x == Head(q)
           r == Tail(q)
<1>1. /\ Len(q) \in Nat /\ Len(q) >= 1 /\ DOMAIN q = 1 .. Len(q) /\ DOMAIN r = 1 .. Len(q) - 1
      /\ q[1] = x /\ \A k \in 1 .. Len(q) - 1 : r[k] = q[k + 1]
      OBVIOUS
<1>2. \A k \in 2 .. Len(q) : k - 1 \in 1 .. Len(q) - 1 /\ r[k - 1] = q[k]
      BY <1>1
<1> HIDE DEF r, x
<1>21. \A k \in 1 .. Len(q) - 1 : k + 1 \in DOMAIN q /\ k + 1 # 1 /\ r[k] = q[k + 1]
      BY <1>1
<1>22. 1 \in DOMAIN q /\ \A k \in DOMAIN q : k = 1 \/ (k \in 2 .. Len(q) /\ k - 1 \in DOMAIN r /\ r[k - 1] = q[k])
      BY <1>1, <1>2
<1>3. Lines(q) = IF IsData(x) THEN Lines(r) \cup {x.line} ELSE Lines(r)
  <2>1. \A y \in Lines(q) : y \in IF IsData(x) THEN Lines(r) \cup {x.line} ELSE Lines(r)
    <3> SUFFICES ASSUME NEW k \in DOMAIN q, IsData(q[k])
                 PROVE  q[k].line \in IF IsData(x) THEN Lines(r) \cup {x.line} ELSE Lines(r)
        BY Zenon DEF Lines
    <3>1. CASE k = 1
          BY <3>1, <1>1
    <3>2. CASE k # 1
      <4>1. k - 1 \in DOMAIN r /\ r[k - 1] = q[k]
            BY <3>2, <1>22
      <4>2. q[k].line \in Lines(r)
            BY <4>1, Zenon DEF Lines
      <4>   QED BY <4>2
    <3>   QED BY <3>1, <3>2
  <2>2. \A y \in Lines(r) : y \in Lines(q)
        BY <1>1, <1>21, ZenonT(30) DEF Lines
  <2>3. IsData(x) => x.line \in Lines(q)
        BY <1>1, <1>22, Zenon DEF Lines
  <2>   QED BY <2>1, <2>2, <2>3
<1>4. ASSUME Rising(q) PROVE Rising(r) /\ (IsData(x) => \A y \in Lines(r) : x.line < y)
  <2>1. ASSUME NEW i \in DOMAIN r, NEW j \in DOMAIN r, i < j, IsData(r[i]), IsData(r[j])
        PROVE  r[i].line < r[j].line
    <3>1. i + 1 \in DOMAIN q /\ j + 1 \in DOMAIN q /\ i + 1 < j + 1 /\ r[i] = q[i + 1] /\ r[j] = q[j + 1]
          BY <1>1, <1>21, <2>1
    <3>   QED BY <3>1, <2>1, <1>4 DEF Rising
  <2>2. ASSUME IsData(x), NEW j \in DOMAIN r, IsData(r[j])
        PROVE  x.line < r[j].line
    <3>1. j + 1 \in DOMAIN q /\ 1 < j + 1 /\ r[j] = q[j + 1] /\ q[1] = x
          BY <1>1, <1>21
    <3>   QED BY <3>1, <2>2, <1>4, <1>22 DEF Rising
  <2>3. Rising(r)
        BY <2>1 DEF Rising
  <2>4. IsData(x) => \A y \in Lines(r) : x.line < y
        BY <2>2, Zenon DEF Lines
  <2>   QED BY <2>3, <2>4
<1>5. ASSUME x.kind # "fin"
      PROVE  /\ HasFin(q) <=> HasFin(r)
             /\ Heard(q) = IF IsData(x) THEN Heard(r) \cup {x.line} ELSE Heard(r)
  <2>1. HasFin(q) <=> HasFin(r)
    <3>1. ASSUME NEW k \in DOMAIN q, q[k].kind = "fin" PROVE HasFin(r)
          BY <1>1, <1>22, <1>5, <3>1 DEF HasFin
    <3>2. ASSUME NEW k \in DOMAIN r, r[k].kind = "fin" PROVE HasFin(q)
          BY <1>1, <1>21, <3>2 DEF HasFin
    <3>   QED BY <3>1, <3>2 DEF HasFin
  <2>2. \A j \in 1 .. Len(q) - 1 :
          (\A i \in 1 .. j + 1 : q[i].kind # "fin") <=> \A i \in 1 .. j : r[i].kind # "fin"
    <3>1. ASSUME NEW j \in 1 .. Len(q) - 1, \A i \in 1 .. j + 1 : q[i].kind # "fin"
          PROVE  \A i \in 1 .. j : r[i].kind # "fin"
          BY <1>1, <3>1
    <3>2. ASSUME NEW j \in 1 .. Len(q) - 1, \A i \in 1 .. j : r[i].kind # "fin"
          PROVE  \A i \in 1 .. j + 1 : q[i].kind # "fin"
      <4>1. ASSUME NEW i \in 1 .. j + 1 PROVE q[i].kind # "fin"
        <5>1. CASE i = 1
              BY <5>1, <1>1, <1>5
        <5>2. CASE i # 1
          <6>1. i \in 2 .. Len(q) /\ i - 1 \in 1 .. j
                BY <5>2, <1>1
          <6>   QED BY <6>1, <3>2, <1>2
        <5>   QED BY <5>1, <5>2
      <4>   QED BY <4>1
    <3>   QED BY <3>1, <3>2
  <2>3. \A i \in 1 .. 1 : q[i].kind # "fin"
        BY <1>1, <1>5
  <2>4. Heard(q) \subseteq IF IsData(x) THEN Heard(r) \cup {x.line} ELSE Heard(r)
    <3> SUFFICES ASSUME NEW j \in 1 .. Len(q), IsData(q[j]), \A i \in 1 .. j : q[i].kind # "fin"
                 PROVE  q[j].line \in IF IsData(x) THEN Heard(r) \cup {x.line} ELSE Heard(r)
        BY <1>1 DEF Heard
    <3>1. CASE j = 1
          BY <3>1, <1>1
    <3>2. CASE j # 1
      <4>1. j - 1 \in 1 .. Len(q) - 1 /\ r[j - 1] = q[j]
            BY <3>2, <1>2, <1>1
      <4>2. \A i \in 1 .. j - 1 : r[i].kind # "fin"
            BY <1>1, <4>1
      <4>   QED BY <1>1, <4>1, <4>2 DEF Heard
    <3>   QED BY <3>1, <3>2
  <2>5. Heard(r) \subseteq Heard(q)
    <3> SUFFICES ASSUME NEW j \in 1 .. Len(q) - 1, IsData(r[j]), \A i \in 1 .. j : r[i].kind # "fin"
                 PROVE  r[j].line \in Heard(q)
        BY <1>1 DEF Heard
    <3>1. j + 1 \in DOMAIN q /\ q[j + 1] = r[j] /\ \A i \in 1 .. j + 1 : q[i].kind # "fin"
          BY <1>1, <2>2, SMTT(30)
    <3>   QED BY <3>1, SMTT(30) DEF Heard
  <2>6. IsData(x) => x.line \in Heard(q)
        BY <1>1, <2>3 DEF Heard
  <2>   QED BY <2>1, <2>4, <2>5, <2>6
<1>6. ASSUME x.kind = "fin" PROVE HasFin(q) /\ Heard(q) = {}
      BY <1>1, <1>6 DEF HasFin, Heard
<1>   QED BY <1>3, <1>4, <1>5, <1>6 DEF r, x

\* Any packet gone.
LEMMA OneLost ==
    ASSUME NEW q \in Seq(Packets), NEW k \in DOMAIN q
    PROVE  /\ Rising(q) => Rising(RemoveAt(q, k)) /\ RemoveAt(q, k) \in Seq(Packets)
           /\ \A i \in DOMAIN RemoveAt(q, k) : \E j \in DOMAIN q : RemoveAt(q, k)[i] = q[j]
           /\ \A j \in DOMAIN q \ {k} : \E m \in DOMAIN RemoveAt(q, k) :
                /\ RemoveAt(q, k)[m] = q[j]
                /\ \A i \in 1 .. m : \E h \in 1 .. j : RemoveAt(q, k)[i] = q[h]
<1> DEFINE r == RemoveAt(q, k)
           Was(j) == IF j < k THEN j ELSE j + 1
<1>1. k \in 1 .. Len(q) /\ Len(q) \in Nat
      OBVIOUS
<1>2. DOMAIN r = 1 .. Len(q) - 1 /\ \A j \in 1 .. Len(q) - 1 : r[j] = q[Was(j)]
  <2> DEFINE a == SubSeq(q, 1, k - 1)
             b == SubSeq(q, k + 1, Len(q))
  <2>1. /\ a \in Seq(Packets) /\ Len(a) = k - 1
        /\ \A j \in 1 .. k - 1 : a[j] = q[j]
        BY <1>1
  <2>2. /\ b \in Seq(Packets) /\ Len(b) = Len(q) - k
        /\ \A j \in 1 .. Len(q) - k : b[j] = q[k + j]
        BY <1>1
  <2>3. r = a \o b
        BY DEF RemoveAt
  <2> HIDE DEF a, b
  <2>4. /\ DOMAIN (a \o b) = 1 .. Len(q) - 1
        /\ \A j \in 1 .. Len(q) - 1 : (a \o b)[j] = IF j <= k - 1 THEN a[j] ELSE b[j - (k - 1)]
        BY <1>1, <2>1, <2>2
  <2>5. \A j \in 1 .. Len(q) - 1 : (a \o b)[j] = q[Was(j)]
    <3> SUFFICES ASSUME NEW j \in 1 .. Len(q) - 1 PROVE (a \o b)[j] = q[Was(j)]
        OBVIOUS
    <3>1. CASE j < k
          BY <3>1, <1>1, <2>1, <2>4
    <3>2. CASE ~(j < k)
      <4>1. j - (k - 1) \in 1 .. Len(q) - k /\ k + (j - (k - 1)) = j + 1
            BY <3>2, <1>1
      <4>2. b[j - (k - 1)] = q[j + 1]
            BY <4>1, <2>2
      <4>   QED BY <3>2, <4>2, <1>1, <2>4
    <3>   QED BY <3>1, <3>2
  <2> HIDE DEF r
  <2>   QED BY <2>3, <2>4, <2>5
<1>3. \A j \in DOMAIN r : Was(j) \in DOMAIN q /\ r[j] = q[Was(j)]
      BY <1>1, <1>2
<1>4. \A i, j \in DOMAIN r : i < j => Was(i) < Was(j)
      BY <1>1, <1>2
<1> HIDE DEF r, Was
<1>5. r \in Seq(Packets)
  <2>1. RemoveAt(q, k) \in Altering(q, k)
        BY DEF Altering
  <2>   QED BY <2>1, AlteredTypes DEF r
<1>6. ASSUME Rising(q) PROVE Rising(r)
      BY <1>3, <1>4, <1>6, Zenon DEF Rising
<1>7. ASSUME NEW j \in DOMAIN q \ {k}
      PROVE  \E m \in DOMAIN r : r[m] = q[j] /\ \A i \in 1 .. m : \E h \in 1 .. j : r[i] = q[h]
  <2> DEFINE m == IF j < k THEN j ELSE j - 1
  <2>1. m \in DOMAIN r /\ Was(m) = j /\ \A i \in 1 .. m : i \in DOMAIN r /\ Was(i) \in 1 .. j
        BY <1>1, <1>2 DEF Was
  <2> HIDE DEF m
  <2>   QED BY <1>3, <2>1
<1>   QED BY <1>3, <1>5, <1>6, <1>7, Zenon DEF r

\* A channel whose packets were there before, each but one of them behind none
\* that was behind it.
LEMMA Rearranged ==
    ASSUME NEW q \in Seq(Packets), NEW r \in Seq(Packets), NEW k \in DOMAIN q,
           \A i \in DOMAIN r : \E j \in DOMAIN q : r[i] = q[j],
           \A j \in DOMAIN q \ {k} : \E m \in DOMAIN r :
             r[m] = q[j] /\ \A i \in 1 .. m : \E h \in 1 .. j : r[i] = q[h]
    PROVE  /\ Lines(r) \subseteq Lines(q) /\ Lines(q) \subseteq Lines(r) \cup {q[k].line}
           /\ (HasFin(r) => HasFin(q)) /\ Heard(q) \subseteq Heard(r) \cup {q[k].line}
<1>1. \A y \in Lines(r) : y \in Lines(q)
  <2>1. ASSUME NEW i \in DOMAIN r, IsData(r[i]) PROVE r[i].line \in Lines(q)
    <3>1. PICK j \in DOMAIN q : r[i] = q[j]
          OBVIOUS
    <3>   QED BY <2>1, <3>1 DEF Lines
  <2>   QED BY <2>1 DEF Lines
<1>2. ASSUME NEW j \in DOMAIN q, IsData(q[j]) PROVE q[j].line \in Lines(r) \cup {q[k].line}
      BY <1>2, Zenon DEF Lines
<1>3. HasFin(r) => HasFin(q)
      BY DEF HasFin
<1>4. ASSUME NEW j \in DOMAIN q, IsData(q[j]), \A i \in 1 .. j : q[i].kind # "fin"
      PROVE  q[j].line \in Heard(r) \cup {q[k].line}
  <2>1. CASE j = k
        BY <2>1
  <2>2. CASE j # k
    <3>1. PICK m \in DOMAIN r : r[m] = q[j] /\ \A i \in 1 .. m : \E h \in 1 .. j : r[i] = q[h]
          BY <2>2
    <3>2. IsData(r[m]) /\ \A i \in 1 .. m : r[i].kind # "fin"
          BY <1>4, <3>1
    <3>   QED BY <3>1, <3>2 DEF Heard
  <2>   QED BY <2>1, <2>2
<1>5. Lines(q) \subseteq Lines(r) \cup {q[k].line}
      BY <1>2, Zenon DEF Lines
<1>6. Heard(q) \subseteq Heard(r) \cup {q[k].line}
      BY <1>4, Zenon DEF Heard
<1>   QED BY <1>1, <1>3, <1>5, <1>6

\* What a fault of the network does to the lines of a channel.
LEMMA OneAltered ==
    ASSUME NEW q \in Seq(Packets), NEW k \in DOMAIN q, NEW r \in Altering(q, k)
    PROVE  /\ Lines(r) \subseteq Lines(q) /\ Lines(q) \subseteq Lines(r) \cup {q[k].line}
           /\ (HasFin(r) => HasFin(q)) /\ Heard(q) \subseteq Heard(r) \cup {q[k].line}
           /\ r # RemoveAt(q, k) => Lines(q) \subseteq Lines(r)
           /\ r = RemoveAt(q, k) /\ Rising(q) => Rising(r)
<1>1. /\ r \in Seq(Packets) /\ k \in 1 .. Len(q) /\ Len(q) \in Nat /\ DOMAIN q = 1 .. Len(q)
      /\ q[k] \in Packets
      BY AlteredTypes
<1> DEFINE There == \A i \in DOMAIN r : \E j \in DOMAIN q : r[i] = q[j]
           Behind == \A j \in DOMAIN q \ {k} : \E m \in DOMAIN r :
                        r[m] = q[j] /\ \A i \in 1 .. m : \E h \in 1 .. j : r[i] = q[h]
           Whole == \A j \in DOMAIN q : \E m \in DOMAIN r : r[m] = q[j]
<1>2. CASE r = RemoveAt(q, k)
  <2>1. There /\ Behind /\ (Rising(q) => Rising(r))
    <3>1. There
          BY <1>2, OneLost
    <3>2. Behind
          BY <1>2, OneLost
    <3>3. Rising(q) => Rising(r)
          BY <1>2, OneLost
    <3>   QED BY <3>1, <3>2, <3>3
  <2>2. /\ Lines(r) \subseteq Lines(q) /\ Lines(q) \subseteq Lines(r) \cup {q[k].line}
        /\ (HasFin(r) => HasFin(q)) /\ Heard(q) \subseteq Heard(r) \cup {q[k].line}
        BY <1>1, <2>1, Rearranged
  <2>   QED BY <1>2, <2>1, <2>2
<1>3. CASE r # RemoveAt(q, k)
  <2>1. There /\ Behind /\ Whole
    <3>1. CASE r = Append(q, q[k])
      <4>1. DOMAIN r = 1 .. Len(q) + 1 /\ r[Len(q) + 1] = q[k] /\ \A i \in 1 .. Len(q) : r[i] = q[i]
            BY <1>1, <3>1
      <4>2. There
            BY <1>1, <4>1
      <4>3. \A j \in DOMAIN q : j \in DOMAIN r /\ r[j] = q[j] /\ \A i \in 1 .. j : i \in 1 .. j /\ r[i] = q[i]
            BY <1>1, <4>1
      <4>   QED BY <4>2, <4>3, Zenon
    <3>2. CASE k < Len(q) /\ r = Swapped(q, k)
      <4> DEFINE Was(j) == IF j = k THEN k + 1 ELSE IF j = k + 1 THEN k ELSE j
      <4>1. DOMAIN r = 1 .. Len(q) /\ \A i \in 1 .. Len(q) : r[i] = q[Was(i)]
            BY <1>1, <3>2 DEF Swapped
      <4>2. \A i \in 1 .. Len(q) : Was(i) \in 1 .. Len(q) /\ Was(Was(i)) = i
            BY <1>1, <3>2
      <4>3. \A j \in 1 .. Len(q) : j # k => \A i \in 1 .. Was(j) : i \in 1 .. Len(q) /\ Was(i) \in 1 .. j
            BY <1>1, <3>2
      <4> HIDE DEF Was
      <4>4. There
            BY <1>1, <4>1, <4>2
      <4>5. \A j \in DOMAIN q : Was(j) \in DOMAIN r /\ r[Was(j)] = q[j]
            BY <1>1, <4>1, <4>2
      <4>6. \A j \in DOMAIN q \ {k} : \A i \in 1 .. Was(j) : Was(i) \in 1 .. j /\ r[i] = q[Was(i)]
            BY <1>1, <4>1, <4>3
      <4>   QED BY <4>4, <4>5, <4>6, Zenon
    <3>   QED BY <1>1, <1>3, <3>1, <3>2 DEF Altering
  <2>2. /\ Lines(r) \subseteq Lines(q) /\ Lines(q) \subseteq Lines(r) \cup {q[k].line}
        /\ (HasFin(r) => HasFin(q)) /\ Heard(q) \subseteq Heard(r) \cup {q[k].line}
        BY <1>1, <2>1, Rearranged
  <2>3. Lines(q) \subseteq Lines(r)
    <3>1. ASSUME NEW j \in DOMAIN q, IsData(q[j]) PROVE q[j].line \in Lines(r)
          BY <2>1, <3>1, Zenon DEF Lines
    <3>   QED BY <3>1, Zenon DEF Lines
  <2>   QED BY <1>3, <2>2, <2>3
<1>   QED BY <1>2, <1>3

\* What the programs send besides text.
Answers == {<<>>, <<Ack>>, <<Fin>>, Answer}

\* The answers are packets; only two of them hold a FIN.
LEMMA AnswerKinds ==
    /\ <<>> \in Answers /\ <<Ack>> \in Answers /\ <<Fin>> \in Answers /\ Answer \in Answers
    /\ <<>> \in Seq(Packets) /\ <<Ack>> \in Seq(Packets) /\ <<Fin>> \in Seq(Packets) /\ Answer \in Seq(Packets)
    /\ <<>> \notin {<<Fin>>, Answer} /\ <<Ack>> \notin {<<Fin>>, Answer}
<1>1. Ack \in Packets /\ Fin \in Packets /\ Ack.kind # Fin.kind
      BY PacketKinds
<1>2. Ack # Fin
      BY <1>1
<1>3. /\ <<>> # <<Fin>> /\ <<>> # <<Ack, Fin>> /\ <<Ack>> # <<Ack, Fin>> /\ <<Ack>> # <<Fin>>
      BY <1>2
<1>   QED BY <1>1, <1>3 DEF Answers, Answer

\* An answer adds no text to a channel, and a FIN only if it holds one.
LEMMA NoText ==
    ASSUME NEW q \in Seq(Packets), NEW pkts \in Answers
    PROVE  /\ pkts \in Seq(Packets)
           /\ Lines(q \o pkts) = Lines(q) /\ (Rising(q) => Rising(q \o pkts))
           /\ Heard(q \o pkts) = Heard(q)
           /\ HasFin(q \o pkts) <=> (HasFin(q) \/ pkts \in {<<Fin>>, Answer})
<1>1. Ack \in Packets /\ Fin \in Packets /\ ~IsData(Ack) /\ ~IsData(Fin) /\ Ack.kind # "fin" /\ Fin.kind = "fin"
      BY PacketKinds
<1>2. ASSUME NEW r \in Seq(Packets)
      PROVE  /\ Append(r, Ack) \in Seq(Packets) /\ Append(r, Fin) \in Seq(Packets)
             /\ Lines(Append(r, Ack)) = Lines(r) /\ Heard(Append(r, Ack)) = Heard(r)
             /\ Lines(Append(r, Fin)) = Lines(r) /\ Heard(Append(r, Fin)) = Heard(r)
             /\ Rising(r) => Rising(Append(r, Ack)) /\ Rising(Append(r, Fin))
             /\ (HasFin(Append(r, Ack)) <=> HasFin(r)) /\ HasFin(Append(r, Fin))
      BY <1>1, OneMore
<1>3. /\ q \o <<>> = q /\ q \o <<Ack>> = Append(q, Ack) /\ q \o <<Fin>> = Append(q, Fin)
      /\ q \o Answer = Append(Append(q, Ack), Fin)
      BY <1>1 DEF Answer
<1>4. <<>> \in Seq(Packets) /\ <<Ack>> \in Seq(Packets) /\ <<Fin>> \in Seq(Packets) /\ Answer \in Seq(Packets)
      BY <1>1 DEF Answer
<1>5. <<>> # <<Fin>> /\ <<Ack>> # <<Fin>> /\ <<>> # Answer /\ <<Ack>> # Answer
      BY <1>1 DEF Answer
<1>6. CASE pkts = <<>>
      BY <1>3, <1>4, <1>5, <1>6
<1>7. CASE pkts = <<Ack>>
  <2>1. /\ Lines(Append(q, Ack)) = Lines(q) /\ Heard(Append(q, Ack)) = Heard(q)
        /\ (Rising(q) => Rising(Append(q, Ack))) /\ (HasFin(Append(q, Ack)) <=> HasFin(q))
        BY <1>2
  <2>2. q \o pkts = Append(q, Ack) /\ pkts \in Seq(Packets) /\ pkts \notin {<<Fin>>, Answer}
        BY <1>3, <1>4, <1>5, <1>7
  <2>   QED BY <2>1, <2>2, Zenon
<1>8. CASE pkts = <<Fin>>
      BY <1>2, <1>3, <1>4, <1>8
<1>9. CASE pkts = Answer
      BY <1>2, <1>3, <1>4, <1>9
<1>   QED BY <1>6, <1>7, <1>8, <1>9 DEF Answers

\* What a send and a receive do to the two channels.
LEMMA SendDoes ==
    ASSUME Values, NEW s \in Sides, NEW pkts \in Seq(Packets), Send(s, pkts)
    PROVE  /\ net' \in [Sides -> Seq(Packets)] /\ net'[s] = net[s]
           /\ net'[Other(s)] = IF at[Other(s)] \in Left THEN net[Other(s)] ELSE net[Other(s)] \o pkts
<1>1. net \in [Sides -> Seq(Packets)] /\ net' = Sent(net, s, pkts)
      BY DEF Values, ChannelsOK, Send
<1>   QED BY <1>1, SentTo

\* What a receive with its answer does to the two channels.
LEMMA ReceiveDoes ==
    ASSUME Values, NEW s \in Sides, NEW pkts \in Seq(Packets), Receive(s, pkts)
    PROVE  /\ net' \in [Sides -> Seq(Packets)] /\ net[s] # <<>> /\ net'[s] = Tail(net[s])
           /\ net'[Other(s)] = IF at[Other(s)] \in Left THEN net[Other(s)] ELSE net[Other(s)] \o pkts
<1> DEFINE channels == [net EXCEPT ![s] = Tail(@)]
<1>1. net \in [Sides -> Seq(Packets)] /\ net[s] # <<>> /\ net' = Sent(channels, s, pkts)
      BY DEF Values, ChannelsOK, Receive
<1>2. Other(s) \in Sides /\ Other(s) # s
      BY Others
<1>3. /\ channels \in [Sides -> Seq(Packets)] /\ channels[s] = Tail(net[s])
      /\ channels[Other(s)] = net[Other(s)]
      BY <1>1, <1>2
<1> HIDE DEF channels
<1>   QED BY <1>1, <1>3, SentTo, ZenonT(30)

-----------------------------------------------------------------------------
(* The lines that are said and printed. *)

\* One line more.
LEMMA SaidMore ==
    ASSUME NEW s \in Sides, NEW n \in Nat
    PROVE  /\ Said(s, n) \subseteq 1 .. n
           /\ Said(s, n + 1) = IF script[s][n + 1] = "text" THEN Said(s, n) \cup {n + 1} ELSE Said(s, n)
BY DEF Said

\* A line printed after all that were.
LEMMA PrintsMore ==
    ASSUME NEW p \in Seq(Nat), NEW n \in Nat
    PROVE  /\ ToSet(Append(p, n)) = ToSet(p) \cup {n}
           /\ Ascending(p) /\ (\A x \in ToSet(p) : x < n) => Ascending(Append(p, n))
<1> DEFINE r == Append(p, n)
<1>1. /\ Len(p) \in Nat /\ DOMAIN p = 1 .. Len(p) /\ DOMAIN r = 1 .. Len(p) + 1
      /\ r[Len(p) + 1] = n /\ \A k \in 1 .. Len(p) : r[k] = p[k]
      OBVIOUS
<1> HIDE DEF r
<1>2. ToSet(r) = ToSet(p) \cup {n}
      BY <1>1 DEF ToSet
<1>3. ASSUME Ascending(p), \A x \in ToSet(p) : x < n PROVE Ascending(r)
      BY <1>1, <1>3 DEF Ascending, ToSet
<1>   QED BY <1>2, <1>3 DEF r

\* What each side printed and what is under way to it is in the order of typing.
OrderOK == \A s \in Sides : Orderly(printed[s], net[s], Said(Other(s), taken[Other(s)]))

\* The order after a step, in terms of what the step wrote.
LEMMA OrderNext ==
    ASSUME UNCHANGED script, UNCHANGED late,
           \A s \in Sides : Orderly(printed'[s], net'[s], Said(Other(s), taken'[Other(s)]))
    PROVE  OrderOK'
<1> SUFFICES ASSUME NEW s \in Sides
             PROVE  Orderly(printed[s], net[s], Said(Other(s), taken[Other(s)]))'
    BY DEF OrderOK
<1>1. Orderly(printed'[s], net'[s], Said(Other(s), taken'[Other(s)]))
      OBVIOUS
<1>   QED BY <1>1 DEF Orderly, Rising, Ascending, Lines, Said, ToSet

\* A step that adds no text and prints nothing.
LEMMA OrderQuiet ==
    ASSUME OrderOK, UNCHANGED script, UNCHANGED late, UNCHANGED printed,
           \A s \in Sides : /\ Lines(net'[s]) \subseteq Lines(net[s])
                            /\ Rising(net[s]) => Rising(net'[s])
                            /\ Said(s, taken[s]) \subseteq Said(s, taken'[s])
    PROVE  OrderOK'
<1>1. \A s \in Sides : Other(s) \in Sides
      BY Others
<1>2. ASSUME NEW s \in Sides PROVE Orderly(printed[s], net'[s], Said(Other(s), taken'[Other(s)]))
  <2>1. Orderly(printed[s], net[s], Said(Other(s), taken[Other(s)]))
        BY DEF OrderOK
  <2>   QED BY <1>1, <2>1 DEF Orderly
<1>   QED BY <1>2, OrderNext

\* What the terminals' turns add to what was said.
LEMMA SaidGrows ==
    ASSUME Values
    PROVE  /\ \A s \in Sides : \A what : Gets(s, what) =>
                /\ taken'[s] = taken[s] + 1 /\ script[s][taken[s] + 1] = what
                /\ \A t \in Sides \ {s} : taken'[t] = taken[t]
                /\ Said(s, taken[s] + 1) =
                     IF what = "text" THEN Said(s, taken[s]) \cup {taken[s] + 1} ELSE Said(s, taken[s])
           /\ \A s \in Sides : taken[s] \in Nat /\ Said(s, taken[s]) \subseteq 1 .. taken[s]
<1>1. \A s \in Sides : taken[s] \in Nat
      BY DEF Values, TerminalsOK
<1>2. ASSUME NEW s \in Sides, NEW what, Gets(s, what)
      PROVE  /\ taken'[s] = taken[s] + 1 /\ script[s][taken[s] + 1] = what
             /\ \A t \in Sides \ {s} : taken'[t] = taken[t]
             /\ Said(s, taken[s] + 1) =
                  IF what = "text" THEN Said(s, taken[s]) \cup {taken[s] + 1} ELSE Said(s, taken[s])
  <2>1. script[s][taken[s] + 1] = what /\ taken' = [taken EXCEPT ![s] = taken[s] + 1]
        BY <1>2, GetsOne
  <2>2. taken \in [Sides -> Nat]
        BY DEF Values, TerminalsOK
  <2>3. taken'[s] = taken[s] + 1 /\ \A t \in Sides \ {s} : taken'[t] = taken[t]
        BY <2>1, <2>2
  <2>   QED BY <1>1, <2>1, <2>3, SaidMore
<1>   QED BY <1>1, <1>2, SaidMore

\* A line that is typed and sent.
LEMMA OrderSend ==
    ASSUME Values, OrderOK, NEW s \in Sides, SendLine(s)
    PROVE  OrderOK'
<1> DEFINE o == Other(s)
           n == taken[s] + 1
<1>1. /\ Gets(s, "text") /\ Send(s, <<Text(n)>>) /\ UNCHANGED script /\ UNCHANGED printed
      BY DEF SendLine
<1>2. o \in Sides /\ o # s /\ Other(o) = s /\ Sides = {s, o}
      BY Others
<1>3. /\ taken'[s] = n /\ taken'[o] = taken[o] /\ n \in Nat
      /\ Said(s, n) = Said(s, taken[s]) \cup {n} /\ \A y \in Said(s, taken[s]) : y < n
      BY <1>1, <1>2, SaidGrows
<1>4. Text(n) \in Packets /\ IsData(Text(n)) /\ Text(n).line = n
      BY <1>3, PacketKinds
<1>5. net[o] \in Seq(Packets) /\ net[s] \in Seq(Packets)
      BY <1>2 DEF Values, ChannelsOK
<1>6. /\ net'[s] = net[s]
      /\ net'[o] = IF at[o] \in Left THEN net[o] ELSE Append(net[o], Text(n))
  <2>1. <<Text(n)>> \in Seq(Packets) /\ net[o] \o <<Text(n)>> = Append(net[o], Text(n))
        BY <1>4, <1>5
  <2>   QED BY <1>1, <2>1, SendDoes
<1>7. Orderly(printed[o], net[o], Said(s, taken[s])) /\ Orderly(printed[s], net[s], Said(o, taken[o]))
      BY <1>2 DEF OrderOK
<1> HIDE DEF o, n
<1>8. \A y \in Lines(net[o]) : y < n
      BY <1>3, <1>7 DEF Orderly
<1>9. /\ Lines(Append(net[o], Text(n))) = Lines(net[o]) \cup {n}
      /\ Rising(net[o]) => Rising(Append(net[o], Text(n)))
      BY <1>4, <1>5, <1>8, OneMore
<1>10. Orderly(printed[o], net'[o], Said(s, n))
  <2>1. /\ late = 0 => Ascending(printed[o])
        /\ ToSet(printed[o]) \subseteq Said(s, n) /\ \A y \in ToSet(printed[o]) : y < n
        BY <1>3, <1>7 DEF Orderly
  <2>2. (late = 0 => Rising(net'[o])) /\ Lines(net'[o]) \subseteq Lines(net[o]) \cup {n}
        BY <1>6, <1>7, <1>9 DEF Orderly
  <2>3. /\ Lines(net[o]) \subseteq Said(s, taken[s])
        /\ late = 0 => \A x \in ToSet(printed[o]), y \in Lines(net[o]) : x < y
        BY <1>7 DEF Orderly
  <2>   QED BY <1>3, <2>1, <2>2, <2>3 DEF Orderly
<1>11. Orderly(printed[s], net'[s], Said(o, taken[o]))
      BY <1>6, <1>7
<1>12. \A t \in Sides : Orderly(printed[t], net'[t], Said(Other(t), taken'[Other(t)]))
      BY <1>2, <1>3, <1>10, <1>11 DEF o
<1>13. UNCHANGED late
      BY DEF SendLine, faults
<1>   QED BY <1>1, <1>12, <1>13, OrderNext

\* A packet that is heard.
LEMMA OrderHear ==
    ASSUME Values, OrderOK, NEW s \in Sides, Hear(s)
    PROVE  OrderOK'
<1> DEFINE o == Other(s)
           x == Head(net[s])
           pkts == IF IsData(x) THEN <<Ack>> ELSE <<>>
<1>1. /\ net[s] # <<>> /\ Receive(s, pkts) /\ UNCHANGED script /\ UNCHANGED taken
      /\ printed' = IF IsData(x) THEN [printed EXCEPT ![s] = Append(@, x.line)] ELSE printed
      BY DEF Hear, terminal
<1>2. o \in Sides /\ o # s /\ Other(o) = s /\ Sides = {s, o}
      BY Others
<1>3. /\ net[s] \in Seq(Packets) /\ net[o] \in Seq(Packets) /\ printed \in [Sides -> Seq(Nat)]
      /\ x \in Packets /\ x.line \in Nat
      BY <1>1, <1>2, HeadTypes DEF Values, ChannelsOK, RecordsOK
<1>4. pkts \in Answers
      BY DEF Answers
<1>5. /\ net'[s] = Tail(net[s])
      /\ net'[o] = IF at[o] \in Left THEN net[o] ELSE net[o] \o pkts
  <2> HIDE DEF pkts
  <2>1. pkts \in Seq(Packets)
        BY <1>3, <1>4, NoText
  <2>   QED BY <1>1, <2>1, ReceiveDoes
<1>6. Orderly(printed[o], net[o], Said(s, taken[s])) /\ Orderly(printed[s], net[s], Said(o, taken[o]))
      BY <1>2 DEF OrderOK
<1>7. printed'[o] = printed[o] /\ printed'[s] = IF IsData(x) THEN Append(printed[s], x.line) ELSE printed[s]
      BY <1>1, <1>2, <1>3
<1> HIDE DEF o, x, pkts
<1>8. Orderly(printed'[o], net'[o], Said(s, taken[s]))
      BY <1>3, <1>4, <1>5, <1>6, <1>7, NoText DEF Orderly
<1>9. /\ Lines(net[s]) = IF IsData(x) THEN Lines(Tail(net[s])) \cup {x.line} ELSE Lines(Tail(net[s]))
      /\ Rising(net[s]) => Rising(Tail(net[s])) /\ (IsData(x) => \A y \in Lines(Tail(net[s])) : x.line < y)
      BY <1>1, <1>3, OneLess DEF x
<1>10. /\ ToSet(Append(printed[s], x.line)) = ToSet(printed[s]) \cup {x.line}
       /\ Ascending(printed[s]) /\ (\A y \in ToSet(printed[s]) : y < x.line) => Ascending(Append(printed[s], x.line))
      BY <1>3, PrintsMore
<1>11. Orderly(printed'[s], net'[s], Said(o, taken[o]))
  <2>1. CASE IsData(x)
    <3>1. x.line \in Lines(net[s])
          BY <2>1, <1>9
    <3>2. late = 0 => \A y \in ToSet(printed[s]) : y < x.line
          BY <3>1, <1>6 DEF Orderly
    <3>3. (late = 0 => Ascending(printed'[s])) /\ ToSet(printed'[s]) = ToSet(printed[s]) \cup {x.line}
          BY <2>1, <3>2, <1>6, <1>7, <1>10 DEF Orderly
    <3>   QED BY <2>1, <3>1, <3>3, <1>5, <1>6, <1>9 DEF Orderly
  <2>2. CASE ~IsData(x)
        BY <2>2, <1>5, <1>6, <1>7, <1>9 DEF Orderly
  <2>   QED BY <2>1, <2>2
<1>12. \A t \in Sides : Orderly(printed'[t], net'[t], Said(Other(t), taken[Other(t)]))
      BY <1>2, <1>8, <1>11 DEF o
<1>13. UNCHANGED late
      BY DEF Hear, faults
<1>   QED BY <1>1, <1>12, <1>13, OrderNext

\* A packet without text adds no lines, whoever sends it or has it in answer.
LEMMA QuietChannels ==
    ASSUME Values, NEW s \in Sides, NEW pkts \in Answers, Send(s, pkts) \/ Receive(s, pkts)
    PROVE  \A t \in Sides : Lines(net'[t]) \subseteq Lines(net[t]) /\ (Rising(net[t]) => Rising(net'[t]))
<1>1. Other(s) \in Sides /\ Sides = {s, Other(s)}
      BY Others
<1>2. net[s] \in Seq(Packets) /\ net[Other(s)] \in Seq(Packets)
      BY <1>1 DEF Values, ChannelsOK
<1>3. pkts \in Seq(Packets)
      BY <1>2, NoText
<1>4. /\ net'[s] = net[s] \/ (net[s] # <<>> /\ net'[s] = Tail(net[s]))
      /\ net'[Other(s)] = IF at[Other(s)] \in Left THEN net[Other(s)] ELSE net[Other(s)] \o pkts
      BY <1>3, SendDoes, ReceiveDoes
<1>5. Lines(net'[s]) \subseteq Lines(net[s]) /\ (Rising(net[s]) => Rising(net'[s]))
  <2>1. net[s] # <<>> => Lines(Tail(net[s])) \subseteq Lines(net[s]) /\ (Rising(net[s]) => Rising(Tail(net[s])))
        BY <1>2, OneLess
  <2>   QED BY <1>4, <2>1
<1>6. Lines(net'[Other(s)]) \subseteq Lines(net[Other(s)]) /\ (Rising(net[Other(s)]) => Rising(net'[Other(s)]))
      BY <1>2, <1>4, NoText
<1>   QED BY <1>1, <1>5, <1>6

\* The client that leaves closes its socket and may leave an ACK for the server.
LEMMA LeavingDoes ==
    ASSUME Values, ClientLeaves
    PROVE  /\ net'["client"] = <<>>
           /\ net'["server"] = IF at["server"] \in Left THEN net["server"] ELSE net["server"] \o <<Ack>>
<1> DEFINE sent == Sent(net, "client", <<Ack>>)
<1>1. net' = [sent EXCEPT !["client"] = <<>>]
      BY DEF ClientLeaves, AnswerToFin
<1>2. <<Ack>> \in Seq(Packets) /\ net \in [Sides -> Seq(Packets)]
      BY PacketKinds DEF Values, ChannelsOK
<1>3. "client" \in Sides /\ "server" \in Sides /\ Other("client") = "server"
      BY Others
<1>4. /\ sent \in [Sides -> Seq(Packets)]
      /\ at["server"] \in Left => sent["server"] = net["server"]
      /\ at["server"] \notin Left => sent["server"] = net["server"] \o <<Ack>>
  <2>1. /\ sent \in [Sides -> Seq(Packets)]
        /\ at[Other("client")] \in Left => sent[Other("client")] = net[Other("client")]
        /\ at[Other("client")] \notin Left => sent[Other("client")] = net[Other("client")] \o <<Ack>>
        BY <1>2, <1>3, SentTo
  <2> HIDE DEF sent
  <2>   QED BY <1>3, <2>1
<1> HIDE DEF sent
<1>   QED BY <1>1, <1>3, <1>4

\* The network leaves the lines what they are, and their order too if nothing is late.
LEMMA OrderDisturbed ==
    ASSUME Values, OrderOK, Network
    PROVE  OrderOK'
<1>1. PICK s, k, r :
        /\ s \in Sides /\ k \in DOMAIN net[s] /\ r \in Altering(net[s], k) /\ net' = [net EXCEPT ![s] = r]
        /\ \/ lost' = lost + 1 /\ late' = late /\ r = RemoveAt(net[s], k)
           \/ lost' = lost /\ late' = late + 1 /\ r # RemoveAt(net[s], k)
      BY Disturbs, Zenon
<1>2. UNCHANGED script /\ UNCHANGED printed /\ UNCHANGED taken /\ late \in Nat
      BY Disturbs DEF terminal
<1>3. net \in [Sides -> Seq(Packets)]
      BY DEF Values, ChannelsOK
<1>4. Lines(r) \subseteq Lines(net[s]) /\ (r = RemoveAt(net[s], k) /\ Rising(net[s]) => Rising(r))
  <2>1. net[s] \in Seq(Packets)
        BY <1>1, <1>3
  <2>   QED BY <1>1, <2>1, OneAltered, Zenon
<1>5. CASE late' = late
  <2>1. r = RemoveAt(net[s], k)
        BY <1>1, <1>2, <1>5
  <2>2. \A t \in Sides : Lines(net'[t]) \subseteq Lines(net[t]) /\ (Rising(net[t]) => Rising(net'[t]))
        BY <1>1, <1>3, <1>4, <2>1
  <2>   QED BY <1>2, <1>5, <2>2, OrderQuiet
<1>6. CASE late' # 0
  <2>1. \A t \in Sides : Lines(net'[t]) \subseteq Lines(net[t])
        BY <1>1, <1>3, <1>4
  <2>2. ASSUME NEW t \in Sides PROVE Orderly(printed[t], net[t], Said(Other(t), taken[Other(t)]))'
    <3>1. Orderly(printed[t], net[t], Said(Other(t), taken[Other(t)]))
          BY DEF OrderOK
    <3>2. /\ ToSet(printed[t])' = ToSet(printed[t]) /\ Lines(net[t])' = Lines(net'[t])
          /\ Said(Other(t), taken[Other(t)])' = Said(Other(t), taken[Other(t)])
          BY <1>2 DEF ToSet, Lines, Said
    <3>   QED BY <1>6, <2>1, <3>1, <3>2 DEF Orderly
  <2>   QED BY <2>2 DEF OrderOK
<1>7. late' = late \/ late' # 0
      BY <1>1, <1>2
<1>   QED BY <1>5, <1>6, <1>7

\* Nothing is printed or under way but in the order of typing, after any step.
LEMMA OrderNextStep ==
    ASSUME Values, OrderOK, [Next]_vars
    PROVE  OrderOK'
<1>0. /\ Sides = {"client", "server"} /\ Other("client") = "server" /\ Other("server") = "client"
      /\ net \in [Sides -> Seq(Packets)]
      BY Others DEF Values, ChannelsOK
<1>1. ASSUME NEW s \in Sides, NEW phase \in {"stdin", "sock"}, Select(s, phase)
      PROVE  OrderOK'
      BY <1>1, OrderQuiet DEF Select, terminal, faults
<1>2. ASSUME NEW s \in Sides, Turn(s)
      PROVE  OrderOK'
      BY <1>2, OrderSend, OrderHear DEF Turn
<1>3. CASE ClientQuits \/ ServerQuits
  <2>1. PICK s \in Sides : Gets(s, "quit") /\ Send(s, <<Fin>>)
        BY <1>0, <1>3 DEF ClientQuits, ServerQuits
  <2>2. UNCHANGED script /\ UNCHANGED late /\ UNCHANGED printed /\ <<Fin>> \in Answers
        BY <1>3 DEF ClientQuits, ServerQuits, Answers, faults
  <2>3. \A t \in Sides : Lines(net'[t]) \subseteq Lines(net[t]) /\ (Rising(net[t]) => Rising(net'[t]))
        BY <2>1, <2>2, QuietChannels
  <2>4. \A t \in Sides : Said(t, taken[t]) \subseteq Said(t, taken'[t])
        BY <2>1, SaidGrows
  <2>   QED BY <2>2, <2>3, <2>4, OrderQuiet
<1>4. CASE ClientGivesUp \/ ServerGivesUp
  <2>1. PICK s \in Sides : Gets(s, "eof") /\ (UNCHANGED net \/ net' = [net EXCEPT ![s] = <<>>])
        BY <1>0, <1>4 DEF ClientGivesUp, ServerGivesUp
  <2>2. UNCHANGED script /\ UNCHANGED late /\ UNCHANGED printed
        BY <1>4 DEF ClientGivesUp, ServerGivesUp, faults
  <2>3. \A t \in Sides : Lines(net'[t]) \subseteq Lines(net[t]) /\ (Rising(net[t]) => Rising(net'[t]))
        BY <1>0, <2>1, NoPackets
  <2>4. \A t \in Sides : Said(t, taken[t]) \subseteq Said(t, taken'[t])
        BY <2>1, SaidGrows
  <2>   QED BY <2>2, <2>3, <2>4, OrderQuiet
<1>5. CASE ClientLeaves
  <2>1. /\ net' = [Sent(net, "client", <<Ack>>) EXCEPT !["client"] = <<>>]
        /\ UNCHANGED script /\ UNCHANGED late /\ UNCHANGED printed /\ UNCHANGED taken
        BY <1>5 DEF ClientLeaves, AnswerToFin, terminal, faults
  <2>2. <<Ack>> \in Answers /\ <<Ack>> \in Seq(Packets)
        BY PacketKinds DEF Answers
  <2>3. net'["client"] = <<>> /\ net'["server"] \in {net["server"], net["server"] \o <<Ack>>}
        BY <1>5, LeavingDoes
  <2>4. /\ Lines(net["server"] \o <<Ack>>) = Lines(net["server"])
        /\ Rising(net["server"]) => Rising(net["server"] \o <<Ack>>)
        BY <1>0, <2>2, NoText
  <2>5. \A t \in Sides : Lines(net'[t]) \subseteq Lines(net[t]) /\ (Rising(net[t]) => Rising(net'[t]))
        BY <1>0, <2>3, <2>4, NoPackets
  <2>   QED BY <2>1, <2>5, OrderQuiet
<1>6. CASE FinAnswered \/ ServerAnswersFin \/ LastAck \/ ReceiveData
  <2>1. PICK pkts \in {<<>>, <<Ack>>, Answer} : Receive("server", pkts)
        BY <1>6 DEF FinAnswered, ServerAnswersFin, LastAck, ReceiveData
  <2>2. UNCHANGED script /\ UNCHANGED late /\ UNCHANGED printed /\ UNCHANGED taken /\ pkts \in Answers
        BY <1>6 DEF FinAnswered, ServerAnswersFin, LastAck, ReceiveData, terminal, faults, Answers
  <2>3. \A t \in Sides : Lines(net'[t]) \subseteq Lines(net[t]) /\ (Rising(net[t]) => Rising(net'[t]))
        BY <1>0, <2>1, <2>2, QuietChannels
  <2>   QED BY <2>2, <2>3, OrderQuiet
<1>7. CASE ReceiveName \/ ReceiveLast
  <2>1. /\ UNCHANGED script /\ UNCHANGED late /\ UNCHANGED printed /\ UNCHANGED taken /\ net["server"] # <<>>
        /\ \E q \in {<<>>, Tail(net["server"])} : net' = [net EXCEPT !["server"] = q]
        BY <1>7 DEF ReceiveName, ReceiveLast, terminal, faults
  <2>2. \A t \in Sides : net'[t] = net[t] \/ net'[t] = <<>> \/ (net[t] # <<>> /\ net'[t] = Tail(net[t]))
        BY <1>0, <2>1
  <2>3. \A t \in Sides : Lines(net'[t]) \subseteq Lines(net[t]) /\ (Rising(net[t]) => Rising(net'[t]))
        BY <1>0, <2>2, NoPackets, OneLess
  <2>   QED BY <2>1, <2>3, OrderQuiet
<1>8. CASE Network
      BY <1>8, OrderDisturbed
<1>9. CASE UNCHANGED vars
  <2>1. UNCHANGED script /\ UNCHANGED late /\ UNCHANGED printed /\ UNCHANGED taken /\ UNCHANGED net
        BY <1>9 DEF vars, terminal, faults
  <2>   QED BY <2>1, OrderQuiet
<1>   QED BY <1>0, <1>1, <1>2, <1>3, <1>4, <1>5, <1>6, <1>7, <1>8, <1>9 DEF Next, Client, Server

-----------------------------------------------------------------------------
(* What the client hears of the server. *)

\* A finite set of at most n elements.
Few(U, n) == IsFiniteSet(U) /\ Cardinality(U) <= n

\* What is part of a small set is small, and one element more is one more.
LEMMA Fewer ==
    ASSUME NEW M, NEW N, NEW n \in Int, NEW m \in Int, Few(M, n)
    PROVE  /\ N \subseteq M /\ n <= m => Few(N, m)
           /\ (\E x : N \subseteq M \cup {x}) /\ n + 1 <= m => Few(N, m)
<1>1. IsFiniteSet(M) /\ Cardinality(M) \in Nat /\ Cardinality(M) <= n
      BY FS_CardinalityType DEF Few
<1>2. ASSUME N \subseteq M, n <= m PROVE Few(N, m)
  <2>1. IsFiniteSet(N) /\ Cardinality(N) <= Cardinality(M) /\ Cardinality(N) \in Nat
        BY <1>1, <1>2, FS_Subset, FS_CardinalityType
  <2>   QED BY <1>1, <1>2, <2>1 DEF Few
<1>3. ASSUME NEW x, N \subseteq M \cup {x}, n + 1 <= m PROVE Few(N, m)
  <2> DEFINE U == M \cup {x}
  <2>1. IsFiniteSet(U) /\ Cardinality(U) = IF x \in M THEN Cardinality(M) ELSE Cardinality(M) + 1
        BY <1>1, FS_AddElement, Zenon
  <2>2. IsFiniteSet(N) /\ Cardinality(N) <= Cardinality(U) /\ Cardinality(N) \in Nat
        BY <1>3, <2>1, FS_Subset, FS_CardinalityType
  <2> HIDE DEF U
  <2>3. Cardinality(U) <= Cardinality(M) + 1 /\ Cardinality(U) \in Nat
        BY <1>1, <2>1
  <2>   QED BY <1>1, <1>3, <2>2, <2>3 DEF Few
<1>   QED BY <1>2, <1>3

\* What the server said up to its first FIN, if it sent one, and that the client
\* did not print and will not before a FIN: at most a line for each fault.
Unheard(p, q, f, n) == Said("server", IF f = <<>> THEN n ELSE f[1]) \ (ToSet(p) \cup Heard(q))
HearsAll(p, q, f, n) == (HasFin(q) => f # <<>>) /\ Few(Unheard(p, q, f, n), lost + late)
HeardOK == Chatting("client") => HearsAll(printed["client"], net["client"], fins, taken["server"])
LeftOK == at["client"] = "exit" =>
              fins # <<>> /\ Few(Said("server", fins[1]) \ ToSet(printed["client"]), lost + late)

Listening == {"select", "stdin", "sock", "finack", "finlast"}

\* The faults are numbers.
LEMMA FaultTypes == Values => lost \in Nat /\ late \in Nat
BY ChatAssumption DEF Values, RecordsOK

\* What the client hears after a step, in terms of what the step wrote.
LEMMA HeardNext ==
    ASSUME UNCHANGED script, UNCHANGED faults,
           at'["client"] \in Listening =>
               HearsAll(printed'["client"], net'["client"], fins', taken'["server"])
    PROVE  HeardOK'
<1> SUFFICES ASSUME Chatting("client")'
             PROVE  HearsAll(printed["client"], net["client"], fins, taken["server"])'
    BY DEF HeardOK
<1>1. HearsAll(printed'["client"], net'["client"], fins', taken'["server"])
      BY DEF Chatting, Listening
<1>2. HasFin(net["client"])' <=> HasFin(net'["client"])
      BY DEF HasFin
<1>3. Unheard(printed["client"], net["client"], fins, taken["server"])' =
        Unheard(printed'["client"], net'["client"], fins', taken'["server"])
      BY DEF Unheard, ToSet, Heard, Said
<1>4. (lost + late)' = lost + late
      BY DEF faults
<1>   QED BY <1>1, <1>2, <1>3, <1>4, Zenon DEF HearsAll

\* The client goes on to hear all, if no less is left to be heard.
LEMMA HearsOn ==
    ASSUME Values, NEW p, NEW q, NEW f, NEW n, NEW pp, NEW qq, NEW ff, NEW nn, HearsAll(p, q, f, n),
           HasFin(qq) => ff # <<>>, Unheard(pp, qq, ff, nn) \subseteq Unheard(p, q, f, n)
    PROVE  HearsAll(pp, qq, ff, nn)
<1>1. lost + late \in Int /\ lost + late <= lost + late
      BY FaultTypes
<1>   QED BY <1>1, Fewer DEF HearsAll

\* Packets without text, to the client; with a FIN, the server notes what it had said.
LEMMA HearsAnswer ==
    ASSUME Values, NEW p, NEW q \in Seq(Packets), NEW f \in Seq(Nat), NEW n \in Nat, NEW pkts \in Answers,
           HearsAll(p, q, f, n)
    PROVE  /\ pkts \notin {<<Fin>>, Answer} => HearsAll(p, q \o pkts, f, n)
           /\ pkts \in {<<Fin>>, Answer} => \A m \in Nat : HearsAll(p, q \o pkts, Append(f, n), m)
<1>1. Heard(q \o pkts) = Heard(q) /\ (HasFin(q \o pkts) <=> (HasFin(q) \/ pkts \in {<<Fin>>, Answer}))
      BY NoText
<1>2. Append(f, n) # <<>> /\ Append(f, n)[1] = IF f = <<>> THEN n ELSE f[1]
  <2>1. CASE f = <<>>
        BY <2>1
  <2>2. CASE f # <<>>
        BY <2>2
  <2>   QED BY <2>1, <2>2
<1>3. ASSUME pkts \notin {<<Fin>>, Answer} PROVE HearsAll(p, q \o pkts, f, n)
  <2>1. Unheard(p, q \o pkts, f, n) = Unheard(p, q, f, n)
        BY <1>1 DEF Unheard
  <2>   QED BY <1>1, <1>3, <2>1, Zenon DEF HearsAll
<1>4. ASSUME NEW m \in Nat PROVE HearsAll(p, q \o pkts, Append(f, n), m)
  <2>1. Unheard(p, q \o pkts, Append(f, n), m) = Unheard(p, q, f, n)
        BY <1>1, <1>2, Zenon DEF Unheard
  <2>   QED BY <1>2, <2>1, Zenon DEF HearsAll
<1>   QED BY <1>3, <1>4

\* The steps of the client.
LEMMA HeardClient ==
    ASSUME Values, HeardOK, Client
    PROVE  HeardOK'
<1>0. /\ Sides = {"client", "server"} /\ Other("client") = "server" /\ Other("server") = "client"
      /\ net["client"] \in Seq(Packets) /\ taken["server"] \in Nat
      BY Others DEF Values, ChannelsOK, TerminalsOK
<1>1. CASE SendLine("client") \/ ClientQuits
  <2> DEFINE Kept == net'["client"] = net["client"] /\ taken'["server"] = taken["server"]
  <2>1. ASSUME SendLine("client") PROVE Kept
    <3>1. taken["client"] + 1 \in Nat
          BY <1>0 DEF Values, TerminalsOK
    <3>2. <<Text(taken["client"] + 1)>> \in Seq(Packets)
          BY <3>1, PacketKinds
    <3>3. Gets("client", "text") /\ Send("client", <<Text(taken["client"] + 1)>>)
          BY <2>1 DEF SendLine
    <3>   QED BY <1>0, <3>2, <3>3, SendDoes, SaidGrows
  <2>2. ASSUME ClientQuits PROVE Kept
    <3>1. <<Fin>> \in Seq(Packets)
          BY PacketKinds
    <3>2. Gets("client", "quit") /\ Send("client", <<Fin>>)
          BY <2>2 DEF ClientQuits
    <3>   QED BY <1>0, <3>1, <3>2, SendDoes, SaidGrows
  <2>3. UNCHANGED script /\ UNCHANGED printed /\ UNCHANGED fins /\ UNCHANGED faults /\ at["client"] = "stdin"
        BY <1>1 DEF SendLine, ClientQuits
  <2>4. Kept
        BY <1>1, <2>1, <2>2
  <2>   QED BY <2>3, <2>4, HeardNext DEF HeardOK, Chatting
<1>2. CASE Hear("client")
  <2> DEFINE q == net["client"]
             x == Head(net["client"])
             pkts == IF IsData(x) THEN <<Ack>> ELSE <<>>
  <2>1. /\ q # <<>> /\ x.kind # "fin" /\ Receive("client", pkts) /\ at["client"] = "sock"
        /\ UNCHANGED script /\ UNCHANGED taken /\ UNCHANGED fins /\ UNCHANGED faults
        /\ printed' = IF IsData(x) THEN [printed EXCEPT !["client"] = Append(@, x.line)] ELSE printed
        BY <1>2 DEF Hear, terminal
  <2>2. x \in Packets /\ x.line \in Nat /\ printed \in [Sides -> Seq(Nat)]
        BY <1>0, <2>1, HeadTypes DEF Values, RecordsOK, faults
  <2>3. pkts \in Seq(Packets)
        BY PacketKinds
  <2> HIDE DEF pkts
  <2>4. net'["client"] = Tail(q)
        BY <1>0, <2>1, <2>3, ReceiveDoes
  <2>5. /\ HasFin(q) <=> HasFin(Tail(q))
        /\ Heard(q) = IF IsData(x) THEN Heard(Tail(q)) \cup {x.line} ELSE Heard(Tail(q))
        BY <1>0, <2>1, OneLess
  <2>6. ToSet(printed'["client"]) = IF IsData(x) THEN ToSet(printed["client"]) \cup {x.line}
                                    ELSE ToSet(printed["client"])
        BY <1>0, <2>1, <2>2, PrintsMore
  <2> HIDE DEF q, x
  <2>7. HearsAll(printed["client"], q, fins, taken["server"])
        BY <2>1 DEF HeardOK, Chatting, q
  <2>8. HearsAll(printed'["client"], net'["client"], fins', taken'["server"])
    <3>1. ToSet(printed'["client"]) \cup Heard(Tail(q)) = ToSet(printed["client"]) \cup Heard(q)
          BY <2>5, <2>6
    <3>2. Unheard(printed'["client"], Tail(q), fins, taken["server"]) =
            Unheard(printed["client"], q, fins, taken["server"])
          BY <3>1 DEF Unheard
    <3>3. HearsAll(printed'["client"], Tail(q), fins, taken["server"])
          BY <2>5, <2>7, <3>2, Zenon DEF HearsAll
    <3>   QED BY <3>3, <2>1, <2>4
  <2>   QED BY <2>1, <2>8, HeardNext
<1>3. CASE ClientGivesUp \/ ClientLeaves
  <2>1. UNCHANGED script /\ \E phase \in {"eof", "exit"} : Goto("client", phase)
        BY <1>3 DEF ClientGivesUp, ClientLeaves
  <2>2. at'["client"] \in {"eof", "exit"}
        BY <1>0, <2>1 DEF Goto, Values, PhasesOK
  <2>3. UNCHANGED faults /\ at'["client"] \notin Listening
        BY <1>3, <2>2 DEF ClientGivesUp, ClientLeaves, Listening
  <2>   QED BY <2>1, <2>3, HeardNext
<1>   QED BY <1>1, <1>2, <1>3 DEF Client, Turn

\* What the server sends to a client that is there.
LEMMA ToClient ==
    ASSUME Values, NEW pkts \in Seq(Packets), Send("server", pkts) \/ Receive("server", pkts),
           at["client"] \in {"select", "stdin", "sock", "finack", "finlast"}
    PROVE  net'["client"] = net["client"] \o pkts
<1>1. "server" \in Sides /\ Other("server") = "client" /\ at["client"] \notin Left
      BY Others DEF Left
<1>   QED BY <1>1, SendDoes, ReceiveDoes

\* A step of the server leaves the client where it is.
LEMMA ServerElsewhere == ASSUME Values, Server PROVE at'["client"] = at["client"] /\ UNCHANGED script /\ UNCHANGED faults
<1>1. "server" \in Sides /\ "client" \in Sides /\ at \in [Sides -> ClientPhases \cup ServerPhases]
      BY Others DEF Values, PhasesOK
<1>2. UNCHANGED script /\ UNCHANGED faults /\ (UNCHANGED at \/ \E phase : Goto("server", phase))
      BY DEF Server, Turn, SendLine, Hear, ServerQuits, FinAnswered, ServerGivesUp, ServerAnswersFin,
             LastAck, ReceiveName, ReceiveData, ReceiveLast
<1>   QED BY <1>1, <1>2 DEF Goto

\* The steps of the server.
LEMMA HeardServer ==
    ASSUME Values, HeardOK, Server
    PROVE  HeardOK'
<1> DEFINE Listens == at["client"] \in Listening
           p == printed["client"]
           q == net["client"]
           n == taken["server"]
<1>0. /\ Sides = {"client", "server"} /\ Other("client") = "server" /\ Other("server") = "client"
      /\ q \in Seq(Packets) /\ n \in Nat /\ fins \in Seq(Nat) /\ net \in [Sides -> Seq(Packets)]
  <2>1. Len(script["server"]) \in Nat /\ fins \in Seq(0 .. Len(script["server"]))
        BY Others DEF Values, TerminalsOK, RecordsOK
  <2>2. fins \in Seq(Nat)
        BY <2>1
  <2>   QED BY <2>2, Others DEF Values, ChannelsOK, TerminalsOK
<1>1. SUFFICES ASSUME Listens PROVE HearsAll(printed'["client"], net'["client"], fins', taken'["server"])
      BY ServerElsewhere, HeardNext DEF Listening
<1>2. HearsAll(p, q, fins, n)
      BY <1>1 DEF HeardOK, Chatting, Listening
<1>3. \A pkts \in Seq(Packets) : Send("server", pkts) \/ Receive("server", pkts) => net'["client"] = q \o pkts
      BY <1>1, ToClient DEF Listening
<1> HIDE DEF p, q, n
<1>4. CASE SendLine("server")
  <2>1. Gets("server", "text") /\ Send("server", <<Text(n + 1)>>) /\ UNCHANGED printed /\ UNCHANGED fins
        BY <1>4 DEF SendLine, n
  <2>2. Text(n + 1) \in Packets /\ IsData(Text(n + 1)) /\ Text(n + 1).line = n + 1 /\ Text(n + 1).kind # "fin"
        BY <1>0, PacketKinds
  <2>3. <<Text(n + 1)>> \in Seq(Packets) /\ q \o <<Text(n + 1)>> = Append(q, Text(n + 1))
        BY <1>0, <2>2
  <2>4. net'["client"] = Append(q, Text(n + 1))
        BY <1>3, <2>1, <2>3
  <2>5. taken'["server"] = n + 1 /\ Said("server", n + 1) = Said("server", n) \cup {n + 1}
        BY <1>0, <2>1, SaidGrows DEF n
  <2>6. /\ HasFin(Append(q, Text(n + 1))) <=> HasFin(q)
        /\ Heard(Append(q, Text(n + 1))) = IF HasFin(q) THEN Heard(q) ELSE Heard(q) \cup {n + 1}
        BY <1>0, <2>2, OneMore
  <2>7. HearsAll(p, Append(q, Text(n + 1)), fins, n + 1)
    <3>1. CASE HasFin(q)
      <4>1. fins # <<>>
            BY <3>1, <1>2 DEF HearsAll
      <4>2. Unheard(p, Append(q, Text(n + 1)), fins, n + 1) = Unheard(p, q, fins, n)
            BY <3>1, <4>1, <2>6 DEF Unheard
      <4>   QED BY <1>2, <4>1, <4>2, Zenon DEF HearsAll
    <3>2. CASE ~HasFin(q)
      <4>1. Unheard(p, Append(q, Text(n + 1)), fins, n + 1) \subseteq Unheard(p, q, fins, n)
            BY <3>2, <2>5, <2>6 DEF Unheard
      <4>2. ~HasFin(Append(q, Text(n + 1)))
            BY <2>6, <3>2
      <4>   QED BY <1>2, <4>1, <4>2, HearsOn
    <3>   QED BY <3>1, <3>2
  <2>   QED BY <2>1, <2>4, <2>5, <2>7 DEF p
<1>5. CASE Hear("server") \/ FinAnswered \/ LastAck
  <2>1. PICK pkts \in {<<>>, <<Ack>>} : Receive("server", pkts)
        BY <1>5 DEF Hear, FinAnswered, LastAck
  <2>2. printed'["client"] = p /\ UNCHANGED fins /\ taken'["server"] = n
    <3>1. UNCHANGED fins /\ UNCHANGED taken
          BY <1>5 DEF Hear, FinAnswered, LastAck, terminal
    <3>2. printed'["client"] = printed["client"]
          BY <1>0, <1>5 DEF Hear, FinAnswered, LastAck, Values, RecordsOK
    <3>   QED BY <3>1, <3>2 DEF p, n
  <2>3. pkts \in Answers /\ pkts \in Seq(Packets) /\ pkts \notin {<<Fin>>, Answer}
        BY AnswerKinds
  <2>4. net'["client"] = q \o pkts
        BY <1>3, <2>1, <2>3
  <2>5. HearsAll(p, q \o pkts, fins, n)
        BY <1>0, <1>2, <2>3, HearsAnswer
  <2>   QED BY <2>2, <2>4, <2>5
<1>6. CASE ServerQuits
  <2>1. Gets("server", "quit") /\ Send("server", <<Fin>>) /\ UNCHANGED printed /\ fins' = Append(fins, n)
        BY <1>6 DEF ServerQuits, SaysFin, n
  <2>2. <<Fin>> \in Answers /\ <<Fin>> \in Seq(Packets)
        BY AnswerKinds
  <2>3. net'["client"] = q \o <<Fin>>
        BY <1>3, <2>1, <2>2
  <2>4. taken'["server"] \in Nat
        BY <1>0, <2>1, SaidGrows DEF n
  <2>5. HearsAll(p, q \o <<Fin>>, Append(fins, n), taken'["server"])
        BY <1>0, <1>2, <2>2, <2>4, HearsAnswer
  <2>   QED BY <2>1, <2>3, <2>5 DEF p
<1>7. CASE ServerGivesUp
  <2>1. Gets("server", "eof") /\ UNCHANGED printed /\ UNCHANGED fins /\ UNCHANGED net
        BY <1>7 DEF ServerGivesUp
  <2>2. taken'["server"] = n + 1 /\ Said("server", n + 1) = Said("server", n)
        BY <1>0, <2>1, SaidGrows DEF n
  <2>3. HearsAll(p, q, fins, n + 1)
    <3>1. Unheard(p, q, fins, n + 1) = Unheard(p, q, fins, n)
          BY <2>2 DEF Unheard
    <3>   QED BY <1>2, <3>1, Zenon DEF HearsAll
  <2>   QED BY <2>1, <2>2, <2>3 DEF p, q
<1>8. CASE ServerAnswersFin \/ ReceiveData
  <2>1. /\ UNCHANGED printed /\ UNCHANGED taken
        /\ \/ Receive("server", Answer) /\ fins' = Append(fins, n)
           \/ Receive("server", <<Ack>>) /\ UNCHANGED fins
        BY <1>8 DEF ServerAnswersFin, ReceiveData, SaysFin, terminal, n
  <2>2. <<Ack>> \in Answers /\ Answer \in Answers /\ <<Ack>> \notin {<<Fin>>, Answer}
        BY AnswerKinds
  <2>3. <<Ack>> \in Seq(Packets) /\ Answer \in Seq(Packets)
        BY AnswerKinds
  <2>4. CASE Receive("server", Answer) /\ fins' = Append(fins, n)
    <3>1. net'["client"] = q \o Answer
          BY <1>3, <2>3, <2>4
    <3>   QED BY <1>0, <1>2, <2>1, <2>2, <2>4, <3>1, HearsAnswer DEF p, n
  <2>5. CASE Receive("server", <<Ack>>) /\ UNCHANGED fins
    <3>1. net'["client"] = q \o <<Ack>>
          BY <1>3, <2>3, <2>5
    <3>   QED BY <1>0, <1>2, <2>1, <2>2, <2>5, <3>1, HearsAnswer DEF p, n
  <2>   QED BY <2>1, <2>4, <2>5
<1>9. CASE ReceiveName \/ ReceiveLast
  <2>1. /\ UNCHANGED printed /\ UNCHANGED taken /\ UNCHANGED fins
        /\ net'["client"] = net["client"]
        BY <1>0, <1>9 DEF ReceiveName, ReceiveLast, terminal
  <2>   QED BY <1>2, <2>1 DEF p, q, n
<1>   QED BY <1>4, <1>5, <1>6, <1>7, <1>8, <1>9 DEF Server, Turn

\* Every step leaves the client to hear what the server said before its first FIN.
LEMMA HeardNextStep ==
    ASSUME Values, HeardOK, [Next]_vars
    PROVE  HeardOK'
<1>1. ASSUME NEW s \in Sides, NEW phase \in {"stdin", "sock"}, Select(s, phase)
      PROVE  HeardOK'
  <2>1. /\ UNCHANGED script /\ UNCHANGED printed /\ UNCHANGED fins /\ UNCHANGED faults /\ UNCHANGED net
        /\ UNCHANGED taken
        BY <1>1 DEF Select, terminal
  <2>2. at'["client"] = at["client"] \/ at["client"] = "select"
        BY <1>1, Others DEF Select, Goto, Values, PhasesOK
  <2>   QED BY <2>1, <2>2, HeardNext DEF HeardOK, Chatting
<1>2. CASE Network
  <2> DEFINE p == printed["client"]
             q == net["client"]
             n == taken["server"]
  <2>1. PICK s, k, r :
          /\ s \in Sides /\ k \in DOMAIN net[s] /\ r \in Altering(net[s], k) /\ net' = [net EXCEPT ![s] = r]
          /\ lost' + late' = lost + late + 1
    <3>1. PICK s, k, r :
            /\ s \in Sides /\ k \in DOMAIN net[s] /\ r \in Altering(net[s], k) /\ net' = [net EXCEPT ![s] = r]
            /\ (lost' = lost + 1 /\ late' = late) \/ (lost' = lost /\ late' = late + 1)
          BY <1>2, Disturbs, Zenon
    <3>2. lost' + late' = lost + late + 1
          BY <3>1, FaultTypes
    <3>   QED BY <3>1, <3>2, Zenon
  <2>2. /\ UNCHANGED script /\ UNCHANGED printed /\ UNCHANGED fins /\ UNCHANGED taken /\ UNCHANGED at
        /\ lost \in Nat /\ late \in Nat
        BY <1>2, Disturbs DEF terminal
  <2>3. net \in [Sides -> Seq(Packets)] /\ q \in Seq(Packets)
        BY Others DEF Values, ChannelsOK
  <2>4. (HasFin(net'["client"]) => HasFin(q)) /\ \E x : Heard(q) \subseteq Heard(net'["client"]) \cup {x}
    <3>1. CASE s = "client"
      <4>1. net'["client"] = r /\ k \in DOMAIN q /\ r \in Altering(q, k)
            BY <2>1, <2>3, <3>1, Others
      <4>   QED BY <2>3, <4>1, OneAltered, Zenon
    <3>2. CASE s # "client"
          BY <2>1, <2>3, <3>2, Others
    <3>   QED BY <3>1, <3>2
  <2>5. SUFFICES ASSUME Chatting("client") PROVE HearsAll(p, q, fins, n)'
        BY <2>2 DEF HeardOK, Chatting
  <2>6. HearsAll(p, q, fins, n)
        BY <2>5 DEF HeardOK
  <2>7. \E x : Unheard(p, net'["client"], fins, n) \subseteq Unheard(p, q, fins, n) \cup {x}
        BY <2>4 DEF Unheard
  <2>8. Few(Unheard(p, net'["client"], fins, n), lost + late + 1)
    <3>1. lost + late \in Int /\ lost + late + 1 \in Int
          BY <2>2
    <3>2. Few(Unheard(p, q, fins, n), lost + late)
          BY <2>6 DEF HearsAll
    <3>   QED BY <2>7, <3>1, <3>2, Fewer
  <2>9. Unheard(p, q, fins, n)' = Unheard(p, net'["client"], fins, n) /\ HasFin(q)' = HasFin(net'["client"])
        BY <2>2 DEF Unheard, ToSet, Heard, Said, HasFin
  <2>10. (lost + late)' = lost + late + 1
        BY <2>1
  <2>   QED BY <2>2, <2>4, <2>6, <2>8, <2>9, <2>10, Zenon DEF HearsAll
<1>3. CASE UNCHANGED vars
  <2>1. /\ UNCHANGED script /\ UNCHANGED printed /\ UNCHANGED fins /\ UNCHANGED faults /\ UNCHANGED net
        /\ UNCHANGED taken /\ UNCHANGED at
        BY <1>3 DEF vars, terminal
  <2>   QED BY <2>1, HeardNext DEF HeardOK, Chatting
<1>   QED BY <1>1, <1>2, <1>3, HeardClient, HeardServer DEF Next

\* A client that has left because of a FIN had heard all before the first.
LEMMA LeftNextStep ==
    ASSUME Values, HeardOK, LeftOK, [Next]_vars
    PROVE  LeftOK'
<1>0. /\ Sides = {"client", "server"} /\ net["client"] \in Seq(Packets)
      /\ at \in [Sides -> ClientPhases \cup ServerPhases] /\ lost \in Nat /\ late \in Nat
      /\ fins \in Seq(Nat) /\ taken["server"] \in Nat /\ (UNCHANGED faults => lost' + late' = lost + late)
  <2>1. Len(script["server"]) \in Nat /\ fins \in Seq(0 .. Len(script["server"]))
        BY Others DEF Values, TerminalsOK, RecordsOK
  <2>2. fins \in Seq(Nat)
        BY <2>1
  <2>   QED BY <2>2, Others, FaultTypes DEF Values, ChannelsOK, PhasesOK, RecordsOK, TerminalsOK, faults
<1>1. ASSUME UNCHANGED script, lost' \in Nat, late' \in Nat, lost + late <= lost' + late',
             at'["client"] = "exit" =>
               /\ at["client"] = "exit" /\ printed'["client"] = printed["client"]
               /\ fins' = fins \/ fins' = Append(fins, taken["server"])
      PROVE  LeftOK'
  <2> DEFINE U == Said("server", fins[1]) \ ToSet(printed["client"])
  <2> SUFFICES ASSUME at'["client"] = "exit"
               PROVE  fins' # <<>> /\ Few(U, lost + late)'
      BY DEF LeftOK
  <2>1. fins # <<>> /\ Few(U, lost + late)
        BY <1>1 DEF LeftOK
  <2>2. fins' # <<>> /\ fins'[1] = fins[1]
        BY <1>0, <1>1, <2>1
  <2>3. U' = U
        BY <1>1, <2>2 DEF ToSet, Said
  <2> HIDE DEF U
  <2>4. Few(U, lost' + late')
    <3>1. lost + late \in Int /\ lost' + late' \in Int
          BY <1>0, <1>1
    <3>   QED BY <1>1, <2>1, <3>1, Fewer
  <2>   QED BY <2>2, <2>3, <2>4 DEF Few
<1>2. CASE ClientLeaves
  <2>1. /\ at["client"] = "sock" /\ net["client"] # <<>> /\ Head(net["client"]).kind = "fin"
        /\ UNCHANGED script /\ UNCHANGED printed /\ UNCHANGED fins /\ UNCHANGED faults
        BY <1>2 DEF ClientLeaves
  <2>2. HasFin(net["client"]) /\ Heard(net["client"]) = {}
        BY <1>0, <2>1, OneLess
  <2>3. HearsAll(printed["client"], net["client"], fins, taken["server"])
        BY <2>1 DEF HeardOK, Chatting
  <2>4. /\ fins # <<>>
        /\ Unheard(printed["client"], net["client"], fins, taken["server"]) =
             Said("server", fins[1]) \ ToSet(printed["client"])
        BY <2>2, <2>3 DEF HearsAll, Unheard
  <2>5. fins # <<>> /\ Few(Said("server", fins[1]) \ ToSet(printed["client"]), lost + late)
        BY <2>3, <2>4, Zenon DEF HearsAll
  <2>   QED BY <2>1, <2>5 DEF LeftOK, ToSet, Said, Few, faults
<1>3. CASE Turn("client") \/ ClientQuits \/ ClientGivesUp
  <2>1. PICK phase \in {"select", "sock", "eof"} : Goto("client", phase)
        BY <1>3 DEF Turn, SendLine, Hear, ClientQuits, ClientGivesUp, GoOn, AfterStdin
  <2>2. at'["client"] # "exit" /\ UNCHANGED script /\ UNCHANGED faults
        BY <1>0, <1>3, <2>1 DEF Goto, Turn, SendLine, Hear, ClientQuits, ClientGivesUp
  <2>   QED BY <1>0, <1>1, <2>2 DEF faults
<1>4. ASSUME NEW s \in Sides, NEW phase \in {"stdin", "sock"}, Select(s, phase)
      PROVE  LeftOK'
  <2>1. /\ UNCHANGED script /\ UNCHANGED printed /\ UNCHANGED fins /\ UNCHANGED faults
        BY <1>4 DEF Select
  <2>2. at'["client"] = "exit" => at["client"] = "exit"
        BY <1>0, <1>4 DEF Select, Goto
  <2>   QED BY <1>0, <1>1, <2>1, <2>2 DEF faults
<1>5. CASE Server
  <2>1. at'["client"] = at["client"] /\ UNCHANGED script /\ UNCHANGED faults
        BY <1>5, ServerElsewhere
  <2>2. fins' = fins \/ fins' = Append(fins, taken["server"])
        BY <1>5 DEF Server, Turn, SendLine, Hear, ServerQuits, FinAnswered, ServerGivesUp, ServerAnswersFin,
                    LastAck, ReceiveName, ReceiveData, ReceiveLast, SaysFin
  <2>3. printed'["client"] = printed["client"]
    <3>1. UNCHANGED printed \/ Hear("server")
          BY <1>5 DEF Server, Turn, SendLine, ServerQuits, FinAnswered, ServerGivesUp, ServerAnswersFin,
                      LastAck, ReceiveName, ReceiveData, ReceiveLast
    <3>2. Hear("server") => printed'["client"] = printed["client"]
          BY <1>0 DEF Hear, Values, RecordsOK
    <3>   QED BY <3>1, <3>2
  <2>   QED BY <1>0, <1>1, <2>1, <2>2, <2>3 DEF faults
<1>6. CASE Network
  <2>1. lost' \in Nat /\ late' \in Nat /\ lost + late <= lost' + late'
        BY <1>0, <1>6, Disturbs
  <2>2. UNCHANGED script /\ UNCHANGED at /\ UNCHANGED printed /\ UNCHANGED fins
        BY <1>6, Disturbs
  <2>   QED BY <1>1, <2>1, <2>2
<1>7. CASE UNCHANGED vars
      BY <1>0, <1>1, <1>7 DEF vars, faults
<1>   QED BY <1>2, <1>3, <1>4, <1>5, <1>6, <1>7 DEF Next, Client

-----------------------------------------------------------------------------
(* What the server misses of the client. *)

\* A receive that waits for an answer may take one line, and is counted before it does.
Waiting(phase) == IF phase \in {"finack", "finlast"} THEN 1 ELSE 0
MissedOK == Chatting("server") => Few(Missed, Len(fins) + lost - Waiting(at["server"]))

Talking == {"select", "stdin", "sock", "finack", "finlast"}

\* The lines missed after a step.
Misses(n, p, q) == Said("client", n) \ (ToSet(p) \cup Lines(q))

\* A step misses nothing more than it has FINs for, or the one line that a waiting
\* receive took or the network lost.
LEMMA MissedNext ==
    ASSUME MissedOK, UNCHANGED script, lost \in Nat, lost' \in Nat, Len(fins) \in Nat, Len(fins') \in Nat,
           at'["server"] \in Talking =>
             /\ at["server"] \in Talking
             /\ \/ /\ Misses(taken'["client"], printed'["server"], net'["server"]) \subseteq Missed
                   /\ Waiting(at'["server"]) - Waiting(at["server"]) <= Len(fins') - Len(fins) /\ lost <= lost'
                \/ /\ \E x : Misses(taken'["client"], printed'["server"], net'["server"]) \subseteq Missed \cup {x}
                   /\ fins' = fins
                   /\ Waiting(at'["server"]) + 1 + lost <= Waiting(at["server"]) + lost'
    PROVE  MissedOK'
<1> DEFINE N == Misses(taken'["client"], printed'["server"], net'["server"])
           n == Len(fins) + lost - Waiting(at["server"])
           m == Len(fins') + lost' - Waiting(at'["server"])
<1>1. Missed' = N
      BY DEF Missed, Misses, Said, ToSet, Lines
<1>2. SUFFICES ASSUME at'["server"] \in Talking PROVE Few(N, m)
  <2>1. (Len(fins) + lost - Waiting(at["server"]))' = m
        BY DEF Waiting
  <2>   QED BY <1>1, <2>1, Zenon DEF MissedOK, Chatting, Talking
<1>3. Few(Missed, n)
      BY <1>2 DEF MissedOK, Chatting, Talking
<1>4. Waiting(at["server"]) \in Int /\ Waiting(at'["server"]) \in Int
      BY DEF Waiting
<1>5. n \in Int /\ m \in Int
      BY <1>4
<1>6. (N \subseteq Missed /\ n <= m) \/ ((\E x : N \subseteq Missed \cup {x}) /\ n + 1 <= m)
  <2>1. CASE /\ N \subseteq Missed
             /\ Waiting(at'["server"]) - Waiting(at["server"]) <= Len(fins') - Len(fins) /\ lost <= lost'
    <3>1. n <= m
          BY <1>4, <2>1
    <3>   QED BY <2>1, <3>1
  <2>2. CASE /\ \E x : N \subseteq Missed \cup {x}
             /\ fins' = fins
             /\ Waiting(at'["server"]) + 1 + lost <= Waiting(at["server"]) + lost'
    <3>1. n + 1 <= m
          BY <1>4, <2>2
    <3>   QED BY <2>2, <3>1
  <2>   QED BY <1>2, <2>1, <2>2
<1> DEFINE M == Missed
<1> HIDE DEF N, n, m, M
<1>7. Few(M, n) /\ ((N \subseteq M /\ n <= m) \/ ((\E x : N \subseteq M \cup {x}) /\ n + 1 <= m))
      BY <1>3, <1>6, Zenon DEF M
<1>   QED BY <1>5, <1>7, Fewer

\* A packet without text that is sent to the server.
LEMMA MissedSent ==
    ASSUME Values, NEW pkts \in Answers, Send("client", pkts) \/ Receive("client", pkts)
    PROVE  Lines(net'["server"]) = Lines(net["server"])
<1>1. /\ "client" \in Sides /\ "server" \in Sides /\ Other("client") = "server"
      /\ net["server"] \in Seq(Packets)
      BY Others DEF Values, ChannelsOK
<1>2. pkts \in Seq(Packets) /\ Lines(net["server"] \o pkts) = Lines(net["server"])
      BY <1>1, NoText
<1>3. net'["server"] = IF at["server"] \in Left THEN net["server"] ELSE net["server"] \o pkts
      BY <1>1, <1>2, SendDoes, ReceiveDoes
<1>   QED BY <1>2, <1>3

\* The steps of the client.
LEMMA MissedClient ==
    ASSUME Values, MissedOK, Client
    PROVE  MissedOK'
<1>0. /\ Sides = {"client", "server"} /\ Other("client") = "server"
      /\ net["server"] \in Seq(Packets) /\ taken["client"] \in Nat /\ lost \in Nat /\ Len(fins) \in Nat
      /\ at \in [Sides -> ClientPhases \cup ServerPhases] /\ printed \in [Sides -> Seq(Nat)]
      BY Others, ChatAssumption DEF Values, ChannelsOK, TerminalsOK, RecordsOK, PhasesOK
<1>1. /\ at'["server"] = at["server"] /\ UNCHANGED fins /\ UNCHANGED lost /\ UNCHANGED script
      /\ printed'["server"] = printed["server"]
  <2>1. /\ UNCHANGED fins /\ UNCHANGED lost /\ UNCHANGED script
        /\ \E phase : Goto("client", phase)
        BY DEF Client, Turn, SendLine, Hear, ClientQuits, ClientGivesUp, ClientLeaves, faults
  <2>2. UNCHANGED printed \/ Hear("client")
        BY DEF Client, Turn, SendLine, ClientQuits, ClientGivesUp, ClientLeaves
  <2>3. Hear("client") => printed'["server"] = printed["server"]
        BY <1>0 DEF Hear
  <2>   QED BY <1>0, <2>1, <2>2, <2>3 DEF Goto
<1>2. SUFFICES ASSUME at["server"] \in Talking
               PROVE  Misses(taken'["client"], printed["server"], net'["server"]) \subseteq Missed
  <2>1. Waiting(at["server"]) \in Nat /\ Waiting(at'["server"]) = Waiting(at["server"])
        BY <1>1 DEF Waiting
  <2>2. Waiting(at'["server"]) - Waiting(at["server"]) <= Len(fins') - Len(fins)
        BY <1>0, <1>1, <2>1
  <2>   QED BY <1>0, <1>1, <2>2, MissedNext
<1>3. CASE SendLine("client")
  <2> DEFINE n == taken["client"] + 1
  <2>1. Gets("client", "text") /\ Send("client", <<Text(n)>>)
        BY <1>3 DEF SendLine
  <2>2. n \in Nat /\ taken'["client"] = n /\ Said("client", n) = Said("client", taken["client"]) \cup {n}
        BY <1>0, <2>1, SaidGrows
  <2> HIDE DEF n
  <2>3. Text(n) \in Packets /\ IsData(Text(n)) /\ Text(n).line = n
        BY <2>2, PacketKinds
  <2>4. <<Text(n)>> \in Seq(Packets) /\ net["server"] \o <<Text(n)>> = Append(net["server"], Text(n))
        BY <1>0, <2>3
  <2>5. net'["server"] = net["server"] \o <<Text(n)>>
    <3>1. at["server"] \notin Left
          BY <1>2 DEF Talking, Left
    <3>   QED BY <1>0, <2>1, <2>4, <3>1, SendDoes
  <2>6. Lines(net'["server"]) = Lines(net["server"]) \cup {n}
    <3>1. Lines(Append(net["server"], Text(n))) = Lines(net["server"]) \cup {Text(n).line}
          BY <1>0, <2>3, OneMore
    <3>   QED BY <2>3, <2>4, <2>5, <3>1
  <2>   QED BY <2>2, <2>6 DEF Misses, Missed
<1>4. CASE Hear("client")
  <2> DEFINE pkts == IF IsData(Head(net["client"])) THEN <<Ack>> ELSE <<>>
  <2>1. Receive("client", pkts) /\ UNCHANGED taken
        BY <1>4 DEF Hear, terminal
  <2>2. pkts \in Answers
        BY AnswerKinds
  <2> HIDE DEF pkts
  <2>3. Lines(net'["server"]) = Lines(net["server"])
        BY <2>1, <2>2, MissedSent
  <2>   QED BY <2>1, <2>3 DEF Misses, Missed
<1>5. CASE ClientQuits \/ ClientGivesUp
  <2>1. PICK what \in {"quit", "eof"} : Gets("client", what)
        BY <1>5 DEF ClientQuits, ClientGivesUp
  <2>2. taken'["client"] = taken["client"] + 1 /\ Said("client", taken["client"] + 1) = Said("client", taken["client"])
        BY <1>0, <2>1, SaidGrows
  <2>3. Lines(net'["server"]) = Lines(net["server"])
    <3>1. ClientQuits => Lines(net'["server"]) = Lines(net["server"])
          BY AnswerKinds, MissedSent DEF ClientQuits
    <3>2. ClientGivesUp => net'["server"] = net["server"]
          BY <1>0 DEF ClientGivesUp, Values, ChannelsOK
    <3>   QED BY <1>5, <3>1, <3>2
  <2>   QED BY <2>2, <2>3 DEF Misses, Missed
<1>6. CASE ClientLeaves
  <2>1. UNCHANGED taken
        BY <1>6 DEF ClientLeaves, terminal
  <2>2. net'["server"] \in {net["server"], net["server"] \o <<Ack>>}
        BY <1>6, LeavingDoes
  <2>3. Lines(net["server"] \o <<Ack>>) = Lines(net["server"])
        BY <1>0, AnswerKinds, NoText
  <2>4. Lines(net'["server"]) = Lines(net["server"])
        BY <2>2, <2>3
  <2>   QED BY <2>1, <2>4 DEF Misses, Missed
<1>   QED BY <1>3, <1>4, <1>5, <1>6 DEF Client, Turn

\* The steps of the server.
LEMMA MissedServer ==
    ASSUME Values, MissedOK, Server
    PROVE  MissedOK'
<1> DEFINE q == net["server"]
           p == printed["server"]
           n == taken["client"]
<1>0. /\ Sides = {"client", "server"} /\ Other("server") = "client"
      /\ q \in Seq(Packets) /\ lost \in Nat /\ at \in [Sides -> ClientPhases \cup ServerPhases]
      /\ printed \in [Sides -> Seq(Nat)] /\ p \in Seq(Nat)
      BY Others, ChatAssumption DEF Values, ChannelsOK, RecordsOK, PhasesOK
<1>1. Len(fins) \in Nat /\ Len(fins') \in Nat /\ (SaysFin => Len(fins') = Len(fins) + 1)
  <2>1. fins \in Seq(0 .. Len(script["server"])) /\ (UNCHANGED fins \/ SaysFin)
        BY DEF Values, RecordsOK, Server, Turn, SendLine, Hear, ServerQuits, FinAnswered, ServerGivesUp,
               ServerAnswersFin, LastAck, ReceiveName, ReceiveData, ReceiveLast
  <2>   QED BY <2>1 DEF SaysFin
<1>2. UNCHANGED script /\ UNCHANGED lost
      BY ServerElsewhere DEF faults
<1>3. Missed = Misses(n, p, q)
      BY DEF Missed, Misses
<1>4. taken'["client"] = n
  <2>1. UNCHANGED taken \/ \E what : Gets("server", what)
        BY DEF Server, Turn, SendLine, Hear, ServerQuits, FinAnswered, ServerGivesUp, ServerAnswersFin,
               LastAck, ReceiveName, ReceiveData, ReceiveLast, terminal
  <2>   QED BY <1>0, <2>1, SaidGrows
<1>5. \A phase : Goto("server", phase) => at'["server"] = phase
      BY <1>0 DEF Goto
<1>6. Waiting("select") = 0 /\ Waiting("stdin") = 0 /\ Waiting("sock") = 0 /\ Waiting("finack") = 1 /\ Waiting("finlast") = 1
      BY DEF Waiting
<1>7. AfterStdin("server", ready["server"]) \in {"select", "sock"}
      BY DEF AfterStdin
<1>8. q # <<>> => Lines(q) = IF IsData(Head(q)) THEN Lines(Tail(q)) \cup {Head(q).line} ELSE Lines(Tail(q))
      BY <1>0, OneLess
<1>9. \A pkts \in Seq(Packets) : (Send("server", pkts) => net'["server"] = q)
                              /\ (Receive("server", pkts) => q # <<>> /\ net'["server"] = Tail(q))
      BY <1>0, SendDoes, ReceiveDoes
<1> HIDE DEF p, q, n
<1>10. CASE SendLine("server")
  <2>1. /\ at["server"] = "stdin" /\ at'["server"] \in {"select", "sock"} /\ UNCHANGED fins /\ UNCHANGED printed
        /\ Gets("server", "text") /\ Send("server", <<Text(taken["server"] + 1)>>)
        BY <1>5, <1>7, <1>10 DEF SendLine
  <2>2. <<Text(taken["server"] + 1)>> \in Seq(Packets)
    <3>1. taken["server"] + 1 \in Nat
          BY Others DEF Values, TerminalsOK
    <3>   QED BY <3>1, PacketKinds
  <2>3. net'["server"] = q
        BY <1>9, <2>1, <2>2
  <2>4. Misses(taken'["client"], printed'["server"], net'["server"]) = Missed
        BY <1>3, <1>4, <2>1, <2>3 DEF p
  <2>   QED BY <1>0, <1>1, <1>2, <1>6, <2>1, <2>4, MissedNext DEF Talking
<1>11. CASE Hear("server")
  <2> DEFINE x == Head(q)
             pkts == IF IsData(x) THEN <<Ack>> ELSE <<>>
  <2>1. /\ at["server"] = "sock" /\ at'["server"] = "select" /\ UNCHANGED fins /\ q # <<>>
        /\ Receive("server", pkts)
        /\ printed' = IF IsData(x) THEN [printed EXCEPT !["server"] = Append(@, x.line)] ELSE printed
        BY <1>5, <1>11 DEF Hear, q
  <2>2. pkts \in Seq(Packets)
        BY AnswerKinds
  <2> HIDE DEF pkts
  <2>3. net'["server"] = Tail(q)
        BY <1>9, <2>1, <2>2
  <2>4. x.line \in Nat
        BY <1>0, <2>1, HeadTypes DEF q
  <2> HIDE DEF x
  <2>5. ToSet(printed'["server"]) = IF IsData(x) THEN ToSet(p) \cup {x.line} ELSE ToSet(p)
        BY <1>0, <2>1, <2>4, PrintsMore DEF p
  <2>6. Misses(taken'["client"], printed'["server"], net'["server"]) = Missed
        BY <1>3, <1>4, <1>8, <2>1, <2>3, <2>5 DEF Misses, x
  <2>   QED BY <1>0, <1>1, <1>2, <1>6, <2>1, <2>6, MissedNext DEF Talking
<1>12. CASE ServerQuits
  <2>1. /\ at["server"] = "stdin" /\ at'["server"] = "finack" /\ SaysFin /\ UNCHANGED printed
        /\ Send("server", <<Fin>>)
        BY <1>5, <1>12 DEF ServerQuits
  <2>2. net'["server"] = q
        BY <1>9, <2>1, AnswerKinds
  <2>3. Misses(taken'["client"], printed'["server"], net'["server"]) = Missed
        BY <1>3, <1>4, <2>1, <2>2 DEF p
  <2>   QED BY <1>0, <1>1, <1>2, <1>6, <2>1, <2>3, MissedNext DEF Talking
<1>13. CASE FinAnswered \/ LastAck
  <2>1. /\ at["server"] \in {"finack", "finlast"} /\ at'["server"] \in {"name", "select", "sock"}
        /\ UNCHANGED fins /\ UNCHANGED printed /\ Receive("server", <<>>)
        BY <1>5, <1>7, <1>13 DEF FinAnswered, LastAck, AfterWait
  <2>2. q # <<>> /\ net'["server"] = Tail(q)
        BY <1>9, <2>1, AnswerKinds
  <2>3. Lines(q) \subseteq Lines(Tail(q)) \cup {Head(q).line}
        BY <1>8, <2>2
  <2>4. Misses(taken'["client"], printed'["server"], net'["server"]) \subseteq Missed \cup {Head(q).line}
        BY <1>3, <1>4, <2>1, <2>2, <2>3 DEF Misses, p
  <2>5. Waiting(at'["server"]) + 1 + lost <= Waiting(at["server"]) + lost' /\ lost' \in Nat
        BY <1>0, <1>2, <2>1 DEF Waiting
  <2>6. at["server"] \in Talking
        BY <2>1 DEF Talking
  <2>   QED BY <1>0, <1>1, <1>2, <2>1, <2>4, <2>5, <2>6, MissedNext, Zenon
<1>14. CASE ServerAnswersFin
  <2>1. /\ at["server"] = "sock" /\ at'["server"] = "finlast" /\ SaysFin /\ UNCHANGED printed
        /\ Receive("server", Answer) /\ Head(q).kind = "fin"
        BY <1>5, <1>14 DEF ServerAnswersFin, q
  <2>2. q # <<>> /\ net'["server"] = Tail(q)
        BY <1>9, <2>1, AnswerKinds
  <2>3. Misses(taken'["client"], printed'["server"], net'["server"]) = Missed
        BY <1>3, <1>4, <1>8, <2>1, <2>2 DEF Misses, p, IsData
  <2>   QED BY <1>0, <1>1, <1>2, <1>6, <2>1, <2>3, MissedNext DEF Talking
<1>15. CASE ServerGivesUp \/ ReceiveName \/ ReceiveData \/ ReceiveLast
  <2>1. at'["server"] \notin Talking
        BY <1>0, <1>5, <1>15 DEF ServerGivesUp, ReceiveName, ReceiveData, ReceiveLast, Talking
  <2>   QED BY <1>0, <1>1, <1>2, <2>1, MissedNext
<1>   QED BY <1>10, <1>11, <1>12, <1>13, <1>14, <1>15 DEF Server, Turn

\* Every step misses at most one line for each FIN and each loss.
LEMMA MissedNextStep ==
    ASSUME Values, MissedOK, [Next]_vars
    PROVE  MissedOK'
<1>0. lost \in Nat /\ Len(fins) \in Nat
      BY ChatAssumption DEF Values, RecordsOK, faults
<1>1. ASSUME NEW s \in Sides, NEW phase \in {"stdin", "sock"}, Select(s, phase)
      PROVE  MissedOK'
  <2>1. /\ UNCHANGED script /\ UNCHANGED printed /\ UNCHANGED fins /\ UNCHANGED lost /\ UNCHANGED net
        /\ UNCHANGED taken
        BY <1>1 DEF Select, terminal, faults
  <2>2. at'["server"] = at["server"] \/ (at["server"] = "select" /\ at'["server"] \in {"stdin", "sock"})
        BY <1>1, Others DEF Select, Goto, Values, PhasesOK
  <2>3. Waiting(at'["server"]) <= Waiting(at["server"]) /\ (at'["server"] \in Talking => at["server"] \in Talking)
        BY <2>2 DEF Waiting, Talking
  <2>4. Waiting(at["server"]) \in Nat /\ Waiting(at'["server"]) \in Nat
        BY DEF Waiting
  <2>5. Misses(taken'["client"], printed'["server"], net'["server"]) = Missed
        BY <2>1 DEF Misses, Missed
  <2>   QED BY <1>0, <2>1, <2>3, <2>4, <2>5, MissedNext
<1>2. CASE Network
  <2>1. PICK s, k, r :
          /\ s \in Sides /\ k \in DOMAIN net[s] /\ r \in Altering(net[s], k) /\ net' = [net EXCEPT ![s] = r]
          /\ \/ lost' = lost + 1 /\ r = RemoveAt(net[s], k)
             \/ lost' = lost /\ r # RemoveAt(net[s], k)
        BY <1>2, Disturbs, Zenon
  <2>2. /\ UNCHANGED script /\ UNCHANGED printed /\ UNCHANGED fins /\ UNCHANGED taken /\ UNCHANGED at
        /\ lost' \in Nat
        BY <1>0, <1>2, Disturbs DEF terminal
  <2>3. net \in [Sides -> Seq(Packets)]
        BY DEF Values, ChannelsOK
  <2> DEFINE q == net["server"]
             N == Misses(taken'["client"], printed'["server"], net'["server"])
  <2>4. Missed = Misses(taken["client"], printed["server"], q)
        BY DEF Missed, Misses
  <2>5. \/ Lines(q) \subseteq Lines(net'["server"]) /\ lost <= lost'
        \/ (\E x : Lines(q) \subseteq Lines(net'["server"]) \cup {x}) /\ lost' = lost + 1
    <3>1. CASE s = "server"
      <4>1. net'["server"] = r /\ k \in DOMAIN q /\ r \in Altering(q, k) /\ q \in Seq(Packets)
            BY <2>1, <2>3, <3>1, Others
      <4>2. Lines(q) \subseteq Lines(r) \cup {q[k].line} /\ (r # RemoveAt(q, k) => Lines(q) \subseteq Lines(r))
            BY <4>1, OneAltered, Zenon
      <4>3. lost' = lost => lost <= lost'
            BY <1>0
      <4>4. \E x : Lines(q) \subseteq Lines(r) \cup {x}
            BY <4>2, Zenon
      <4>5. lost' = lost + 1 \/ (lost' = lost /\ r # RemoveAt(q, k))
            BY <2>1, <3>1
      <4>   QED BY <4>1, <4>2, <4>3, <4>4, <4>5, Zenon
    <3>2. CASE s # "server"
      <4>1. net'["server"] = q
            BY <2>1, <2>3, <3>2, Others
      <4>   QED BY <1>0, <2>1, <4>1
    <3>   QED BY <3>1, <3>2
  <2>6. \/ N \subseteq Missed /\ lost <= lost'
        \/ (\E x : N \subseteq Missed \cup {x}) /\ lost' = lost + 1
        BY <2>2, <2>4, <2>5 DEF Misses
  <2>7. Waiting(at'["server"]) = Waiting(at["server"]) /\ Waiting(at["server"]) \in Int
        BY <2>2 DEF Waiting
  <2> HIDE DEF N
  <2>8. \/ /\ N \subseteq Missed
           /\ Waiting(at'["server"]) - Waiting(at["server"]) <= Len(fins') - Len(fins) /\ lost <= lost'
        \/ /\ \E x : N \subseteq Missed \cup {x}
           /\ fins' = fins
           /\ Waiting(at'["server"]) + 1 + lost <= Waiting(at["server"]) + lost'
    <3>1. Waiting(at'["server"]) - Waiting(at["server"]) <= Len(fins') - Len(fins) /\ fins' = fins
          BY <1>0, <2>2, <2>7
    <3>2. lost' = lost + 1 => Waiting(at'["server"]) + 1 + lost <= Waiting(at["server"]) + lost'
          BY <1>0, <2>7
    <3>   QED BY <2>6, <3>1, <3>2, Zenon
  <2>9. Len(fins') \in Nat /\ at'["server"] = at["server"]
        BY <1>0, <2>2
  <2>   QED BY <1>0, <2>2, <2>8, <2>9, MissedNext, Zenon DEF N
<1>3. CASE UNCHANGED vars
      BY <1>3 DEF vars, terminal, faults, MissedOK, Chatting, Missed, Said, ToSet, Lines, Waiting, Few
<1>   QED BY <1>1, <1>2, <1>3, MissedClient, MissedServer DEF Next

-----------------------------------------------------------------------------
(* The theorems. *)

ChatInv == Values /\ OrderOK /\ HeardOK /\ LeftOK /\ MissedOK

\* When the chat begins nothing has been said.
LEMMA ChatInvInit == Init => ChatInv
<1> SUFFICES ASSUME Init PROVE ChatInv
    OBVIOUS
<1>1. /\ \A s \in Sides : net[s] = <<>> /\ printed[s] = <<>> /\ taken[s] = 0 /\ at[s] = "select"
      /\ fins = <<>> /\ Sides = {"client", "server"}
      BY Others DEF Init
<1>2. Values
      BY ValuesInit
<1>3. \A s \in Sides : Said(s, 0) = {}
      BY DEF Said
<1>4. OrderOK
      BY <1>1, <1>3, NoPackets DEF OrderOK, Orderly
<1>5. HeardOK
  <2>1. Unheard(printed["client"], net["client"], fins, taken["server"]) = {}
        BY <1>1, <1>3 DEF Unheard
  <2>2. ~HasFin(net["client"]) /\ lost + late = 0
        BY <1>1, NoPackets DEF Init
  <2>   QED BY <2>1, <2>2, FS_EmptySet DEF HeardOK, HearsAll, Few
<1>6. LeftOK
      BY <1>1 DEF LeftOK
<1>7. MissedOK
  <2>1. Missed = {}
        BY <1>1, <1>3 DEF Missed
  <2>2. Waiting(at["server"]) = 0 /\ Len(fins) = 0 /\ lost = 0
        BY <1>1 DEF Waiting, Init
  <2>   QED BY <2>1, <2>2, FS_EmptySet DEF MissedOK, Few
<1>   QED BY <1>2, <1>4, <1>5, <1>6, <1>7 DEF ChatInv

\* Every step of either program and of the network keeps the invariant.
LEMMA ChatInvNext == ChatInv /\ [Next]_vars => ChatInv'
BY ValuesNext, OrderNextStep, HeardNextStep, LeftNextStep, MissedNextStep DEF ChatInv

\* The invariant of the chat mode, the two loops of client.c and server.c crossing.
THEOREM ChatInvariant == Spec => []ChatInv
BY ChatInvInit, ChatInvNext, PTL DEF Spec

\* The types, for the values the variables take in select loops of any length.
THEOREM TypeCorrect == Spec => []TypeOK
<1>1. ChatInv => TypeOK
      BY ValuesAreTyped DEF ChatInv
<1>   QED BY <1>1, ChatInvariant, PTL

\* A client that leaves because of a FIN has printed nothing but lines of the server,
\* in order unless a packet was late, and missed at most one line for each packet lost
\* or late of those that the server said before its first FIN.
THEOREM LastWordsHeard == Spec => []LastWords
<1>1. ChatInv => LastWords
      BY Others DEF ChatInv, LastWords, LeftOK, OrderOK, Orderly, Few
<1>   QED BY <1>1, ChatInvariant, PTL

\* The server prints nothing but lines of the client, in order unless a packet was late,
\* and misses at most one for each packet lost and one for each FIN it sent.
THEOREM OneLineLostPerFin == Spec => []OneLinePerFin
<1>1. ASSUME ChatInv PROVE OneLinePerFin
  <2>1. /\ late = 0 => Ascending(printed["server"])
        /\ ToSet(printed["server"]) \subseteq Said("client", taken["client"])
        BY <1>1, Others DEF ChatInv, OrderOK, Orderly
  <2>2. ASSUME Chatting("server") PROVE Cardinality(Missed) <= Len(fins) + lost
    <3>1. IsFiniteSet(Missed) /\ Cardinality(Missed) <= Len(fins) + lost - Waiting(at["server"])
          BY <1>1, <2>2 DEF ChatInv, MissedOK, Few
    <3>2. Cardinality(Missed) \in Nat /\ Waiting(at["server"]) \in Nat /\ Len(fins) \in Nat /\ lost \in Nat
          BY <1>1, <3>1, FS_CardinalityType, FaultTypes DEF Waiting, ChatInv, Values, RecordsOK
    <3>   QED BY <3>1, <3>2
  <2>   QED BY <2>1, <2>2 DEF OneLinePerFin
<1>   QED BY <1>1, ChatInvariant, PTL

=============================================================================
