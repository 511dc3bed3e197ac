---------------------------- MODULE ShamTransfer ----------------------------
(***************************************************************************)
(* The file transfer of src/networking: client.c and server.c from the     *)
(* handshake to the exchange of FINs, over a datagram network that may     *)
(* lose, duplicate and reorder packets.                                    *)
(*                                                                         *)
(* Sequence numbers are offsets from the client's initial one, so the file *)
(* name has number 1 and the file is cut in chunks that follow it; neither *)
(* side ever sends part of a chunk.  Wrap-around at 2^32 is out of reach   *)
(* of the files considered.  Times (200 ms, 500 ms, 1 s) are choices: a    *)
(* timer may expire whenever it runs.                                      *)
(***************************************************************************)
EXTENDS Integers, Sequences, FiniteSets, FiniteSetsExt, SequencesExt

CONSTANTS MTU, FileLen, NameLen,
          NameMax,        \* sizeof(outname) - 1: what the server keeps of the name
          MAX_INFLIGHT, MAX_BUF_PKTS, DEFAULT_WIN,
          WinMax,         \* UINT16_MAX
          ChannelCap,     \* packets a socket buffers; more are lost
          Faults,         \* what the network does: "lose", "duplicate", "reorder"
          MaxFaults,      \* bound: how often
          MaxRetx,        \* bound: expiries of the retransmission timer
          FilesOpen       \* whether fopen succeeds, on either side

ASSUME ShamAssumption ==
    /\ {FileLen, MaxFaults, MaxRetx, DEFAULT_WIN, WinMax} \subseteq Nat
    /\ {MTU, NameLen, NameMax, MAX_INFLIGHT, MAX_BUF_PKTS, ChannelCap} \subseteq Nat \ {0}
    /\ NameMax < MTU /\ FilesOpen \in BOOLEAN
    /\ Faults \subseteq {"lose", "duplicate", "reorder"}

NChunks == (FileLen + MTU - 1) \div MTU
Chunks == 1 .. NChunks
Seqno(j) == 1 + NameLen + (j - 1) * MTU
Size(j) == IF j * MTU <= FileLen THEN MTU ELSE FileLen % MTU
End(j) == Seqno(j) + Size(j)
FileEnd == 1 + NameLen + FileLen
Least(a, b) == IF a < b THEN a ELSE b

\* f[1] + ... + f[n]
Sums(f, n) == LET sum[k \in 0 .. n] == IF k = 0 THEN 0 ELSE sum[k - 1] + f[k] IN sum
Sum(f, n) == Sums(f, n)[n]

VARIABLES
    client, sent, slot, i, in_flight_bytes, remote_win, got_ack, got_fin,
    server, server_isn, expected, bufs, out,
    c2s, s2c,         \* packets under way
    faults, retx

(* client: its phase; sent: chunks read from the file and sent; slot: the    *)
(* chunk in each entry of inflight[], 0 if not in_use; i: the entry the loop *)
(* is at; in_flight_bytes: as computed at the start of the pass over them.   *)
(* server: its phase; server_isn: how often it chose one; bufs: how many     *)
(* copies of each chunk bufs[] holds; out: the chunks written to the file.   *)
cvars == <<client, sent, slot, i, in_flight_bytes, remote_win, got_ack, got_fin>>
svars == <<server, server_isn, expected, bufs, out>>
vars == <<cvars, svars, c2s, s2c, faults, retx>>

Pkt(kind, seq, ack, len, win) == [kind |-> kind, seq |-> seq, ack |-> ack, len |-> len, win |-> win]
Syn == Pkt("SYN", 0, 0, 0, 0)
Name == Pkt("DATA", 1, 0, NameLen, 0)
Data(j) == Pkt("DATA", Seqno(j), 0, Size(j), 0)
Fin(seq) == Pkt("FIN", seq, 0, 0, 0)
Ack(seq, ack, win) == Pkt("ACK", seq, ack, 0, win)

\* sendto: what does not fit in the receiver's socket buffer is lost.
Sent(channel, pkts) == SubSeq(channel \o pkts, 1, Least(Len(channel) + Len(pkts), ChannelCap))
ToServer(pkts) == c2s' = IF server \in {"exit", "failed"} THEN <<>> ELSE Sent(c2s, pkts)
ToClient(pkts) == s2c' = Sent(s2c, pkts)

-----------------------------------------------------------------------------
(* The client. *)

Opened(phase) == IF FilesOpen THEN {phase} ELSE {phase, "failed"}

Connect == /\ client = "start" /\ client' = "synack"
           /\ ToServer(<<Syn>>)
           /\ UNCHANGED <<sent, slot, i, in_flight_bytes, remote_win, got_ack, got_fin,
                          svars, s2c, faults, retx>>

\* The blocking recvfrom for the SYN-ACK; the name is sent once and kept nowhere.
Connected ==
    /\ client = "synack" /\ s2c # <<>>
    /\ LET p == Head(s2c) IN
         IF p.kind = "SYNACK"
         THEN remote_win' = p.win /\ ToServer(<<Ack(1, p.seq + 1, 0), Name>>)
         ELSE UNCHANGED remote_win /\ ToServer(<<Name>>)
    /\ s2c' = Tail(s2c)
    /\ client' \in Opened("fill")     \* infile
    /\ UNCHANGED <<sent, slot, i, in_flight_bytes, got_ack, got_fin, svars, faults, retx>>

Load(s) == [k \in 1 .. MAX_INFLIGHT |-> IF s[k] = 0 THEN 0 ELSE Size(s[k])]
InFlight(s) == Sum(Load(s), MAX_INFLIGHT)

\* The end of the file shows after a short last chunk, or else in an empty read.
AllRead == sent = NChunks
ShortReadDropped == sent + 1 >= NChunks                         \* bug
EndSeen == \/ AllRead /\ FileLen % MTU # 0
           \/ AllRead /\ in_flight_bytes < remote_win

\* in_flight_bytes is that of the start of the pass plus what it sent since.
FitsAlone == Size(sent + 1) <= remote_win                                  \* bug
Fits == in_flight_bytes + Size(sent + 1) <= remote_win

SkipUsed == /\ client = "fill" /\ slot[i] # 0 /\ client' = "poll"
            /\ UNCHANGED <<sent, slot, i, in_flight_bytes, remote_win, got_ack, got_fin,
                           svars, c2s, s2c, faults, retx>>

SendChunk == /\ client = "fill" /\ slot[i] = 0 /\ ~EndSeen /\ ~AllRead
             /\ Fits
             /\ slot' = [slot EXCEPT ![i] = sent + 1]
             /\ sent' = sent + 1
             /\ in_flight_bytes' = in_flight_bytes + Size(sent + 1)
             /\ ToServer(<<Data(sent + 1)>>)
             /\ client' = "poll"
             /\ UNCHANGED <<i, remote_win, got_ack, got_fin, svars, s2c, faults, retx>>

\* The window is full: start the pass again, without looking at the socket.
WindowFull == /\ client = "fill" /\ slot[i] = 0 /\ ~EndSeen
              /\ AllRead \/ ~Fits
              /\ i' = 1 /\ in_flight_bytes' = InFlight(slot)
              /\ UNCHANGED <<client, sent, slot, remote_win, got_ack, got_fin,
                             svars, c2s, s2c, faults, retx>>

\* done = 1, whatever is still unacknowledged; FIN goes out before and in the loop.
Finish == /\ client = "fill" /\ slot[i] = 0 /\ EndSeen
          /\ client' = "closing"
          /\ ToServer(<<Fin(FileEnd), Fin(FileEnd)>>)
          /\ UNCHANGED <<sent, slot, i, in_flight_bytes, remote_win, got_ack, got_fin,
                         svars, s2c, faults, retx>>

\* Slots of chunks below a cumulative acknowledgement are free.
FreedByStart(ack) ==                                                       \* bug
    [k \in 1 .. MAX_INFLIGHT |-> IF slot[k] # 0 /\ Seqno(slot[k]) <= ack THEN 0 ELSE slot[k]]
Freed(ack) == [k \in 1 .. MAX_INFLIGHT |-> IF slot[k] # 0 /\ End(slot[k]) <= ack THEN 0 ELSE slot[k]]

\* The chunks in these slots, slot by slot.
Resends(slots, due) ==
    LET upto[k \in 0 .. MAX_INFLIGHT] ==
            IF k = 0 THEN <<>>
            ELSE IF k \in due THEN Append(upto[k - 1], Data(slots[k])) ELSE upto[k - 1]
    IN  upto
Resent(slots, due) == Resends(slots, due)[MAX_INFLIGHT]

\* retransmit_due for those slots whose timer has expired, then the next slot.
RetransmitAndNext(slots) ==
    /\ \E due \in SUBSET {k \in 1 .. MAX_INFLIGHT : slots[k] # 0} :
         /\ retx + Cardinality(due) <= MaxRetx
         /\ retx' = retx + Cardinality(due)
         /\ ToServer(Resent(slots, due))
    /\ i' = IF i < MAX_INFLIGHT THEN i + 1 ELSE 1
    /\ in_flight_bytes' = IF i < MAX_INFLIGHT THEN in_flight_bytes ELSE InFlight(slots)
    /\ client' = "fill"
    /\ UNCHANGED <<sent, got_ack, got_fin, svars, faults>>

PollTimeout == /\ client = "poll" /\ RetransmitAndNext(slot)
               /\ UNCHANGED <<slot, remote_win, s2c>>

PollReceive ==
    /\ client = "poll" /\ s2c # <<>> /\ s2c' = Tail(s2c)
    /\ LET p == Head(s2c) IN
         IF p.kind \in {"ACK", "SYNACK"}
         THEN remote_win' = p.win /\ slot' = Freed(p.ack)
         ELSE UNCHANGED <<remote_win, slot>>
    /\ RetransmitAndNext(slot')

\* After a packet or a timeout: FIN again as long as it was not acknowledged.
AcksFile(p) == p.kind \in {"ACK", "SYNACK"} /\ p.ack = FileEnd             \* bug
AcksFin(p) == p.kind \in {"ACK", "SYNACK"} /\ p.ack = FileEnd + 1
FinUnless(acked) == IF acked THEN <<>> ELSE <<Fin(FileEnd)>>

ClosingTimeout == /\ client = "closing" /\ ~(got_ack /\ got_fin)
                  /\ ToServer(FinUnless(got_ack))
                  /\ UNCHANGED <<cvars, svars, s2c, faults, retx>>

ClosingReceive ==
    /\ client = "closing" /\ s2c # <<>> /\ s2c' = Tail(s2c)
    /\ LET p == Head(s2c)
           acks == AcksFin(p)
           fins == ~acks /\ p.kind = "FIN"
           last == <<Ack(0, p.seq + 1, 0)>>
       IN  /\ got_ack' = (got_ack \/ acks)
           /\ got_fin' = (got_fin \/ fins)
           /\ client' = IF got_ack' /\ got_fin' THEN "exit" ELSE "closing"
           /\ ToServer((IF fins THEN last ELSE <<>>) \o
                       (IF client' = "exit" THEN last ELSE FinUnless(got_ack')))
    /\ UNCHANGED <<sent, slot, i, in_flight_bytes, remote_win, svars, faults, retx>>

Client == \/ Connect \/ Connected \/ SkipUsed \/ SendChunk \/ WindowFull \/ Finish
          \/ PollTimeout \/ PollReceive \/ ClosingTimeout \/ ClosingReceive

-----------------------------------------------------------------------------
(* The server. *)

Take == c2s # <<>> /\ c2s' = Tail(c2s)
Others == UNCHANGED <<cvars, faults, retx>>

\* Any packet but a SYN is dropped.
Listen == /\ server = "listen" /\ Take /\ Others
          /\ IF Head(c2s).kind = "SYN"
             THEN /\ server' = "await_ack"
                  /\ server_isn' = server_isn + 1
                  /\ ToClient(<<Pkt("SYNACK", server_isn', 1, 0, DEFAULT_WIN)>>)
             ELSE UNCHANGED <<server, server_isn, s2c>>
          /\ UNCHANGED <<expected, bufs, out>>

\* One packet is read; if it is not the ACK it is gone and the server listens again.
AwaitAck == /\ server = "await_ack" /\ Take /\ Others
            /\ LET p == Head(c2s) IN
                 server' = IF p.kind = "ACK" /\ p.ack = server_isn + 1 THEN "name" ELSE "listen"
            /\ UNCHANGED <<server_isn, expected, bufs, out, s2c>>

\* What of the payload counts as the name.
NameUnclamped(len) == len                                                  \* bug
NameKept(len) == Least(len, NameMax)

\* Whatever packet with a payload comes first is taken for the name.
ReceiveName == /\ server = "name" /\ Take /\ Others
               /\ LET p == Head(c2s) IN
                    IF p.len = 0
                    THEN server' = "failed" /\ UNCHANGED expected
                    ELSE /\ server' \in Opened("data")    \* outname
                         /\ expected' = p.seq + NameKept(p.len)
               /\ UNCHANGED <<server_isn, bufs, out, s2c>>

\* The loop over bufs[] after a chunk arrived in order: the chunks that follow
\* without a gap, one copy of each.
Following(b, e) ==
    IF \E j \in Chunks : Seqno(j) = e
    THEN {j \in Chunks : \A k \in Chunks : (e <= Seqno(k) /\ k <= j) => b[k] > 0} \cap
         {j \in Chunks : e <= Seqno(j)}
    ELSE {}

\* Chunks without a gap between them, in the order of the file.
InARow(chunks) == IF chunks = {} THEN <<>>
                  ELSE [n \in 1 .. Max(chunks) + 1 - Min(chunks) |-> Min(chunks) + n - 1]

Bytes(b) == [j \in Chunks |-> b[j] * Size(j)]
Buffered(b) == Sum(Bytes(b), NChunks)
Copies(b) == Sum(b, NChunks)
AlwaysRoom(b) == TRUE                                                      \* bug
HasRoom(b) == Copies(b) < MAX_BUF_PKTS
Available(b) == Least(MAX_BUF_PKTS * MTU - Buffered(b), WinMax)

ReceiveData ==
    /\ server = "data" /\ Take /\ Others /\ Head(c2s).kind # "FIN"
    /\ LET p == Head(c2s)
           here == {j \in Chunks : Seqno(j) = p.seq}
           run == Following(bufs, p.seq + p.len)
       IN  \/ /\ p.seq = expected
              /\ out' = out \o InARow(here \cup run)
              /\ bufs' = [j \in Chunks |-> IF j \in run THEN bufs[j] - 1 ELSE bufs[j]]
              /\ expected' = IF run = {} THEN p.seq + p.len ELSE End(Max(run))
           \/ /\ p.seq > expected
              /\ bufs' = [j \in Chunks |-> IF j \in here /\ HasRoom(bufs)
                                           THEN bufs[j] + 1 ELSE bufs[j]]
              /\ UNCHANGED <<out, expected>>
           \/ p.seq < expected /\ UNCHANGED <<out, expected, bufs>>
    /\ ToClient(<<Ack(0, expected', Available(bufs'))>>)
    /\ UNCHANGED <<server, server_isn>>

\* FIN is answered at once, whatever is still missing.
ReceiveFin == /\ server = "data" /\ Take /\ Others /\ Head(c2s).kind = "FIN"
              /\ ToClient(<<Ack(0, Head(c2s).seq + 1, 0), Fin(server_isn)>>)
              /\ server' = "last"
              /\ UNCHANGED <<server_isn, expected, bufs, out>>

\* Any packet ends the server; what comes later is lost.
ReceiveLast == /\ server = "last" /\ c2s # <<>> /\ c2s' = <<>> /\ Others
               /\ server' = "exit"
               /\ UNCHANGED <<server_isn, expected, bufs, out, s2c>>

Server == Listen \/ AwaitAck \/ ReceiveName \/ ReceiveData \/ ReceiveFin \/ ReceiveLast

-----------------------------------------------------------------------------
(* The network; should_drop() is a loss. *)

Swapped(ch, k) == [ch EXCEPT ![k] = ch[k + 1], ![k + 1] = ch[k]]

Lost(ch) == {d \in {RemoveAt(ch, k) : k \in DOMAIN ch} : "lose" \in Faults}

Disturbed(ch) ==
    Lost(ch) \cup
    {d \in {Sent(ch, <<ch[k]>>) : k \in DOMAIN ch} : "duplicate" \in Faults} \cup
    {d \in {Swapped(ch, k) : k \in 1 .. Len(ch) - 1} : "reorder" \in Faults}

Network == /\ faults < MaxFaults /\ faults' = faults + 1
           /\ \/ c2s' \in Disturbed(c2s) /\ UNCHANGED s2c
              \/ s2c' \in Disturbed(s2c) /\ UNCHANGED c2s
           /\ UNCHANGED <<cvars, svars, retx>>

Init == /\ client = "start" /\ sent = 0 /\ slot = [k \in 1 .. MAX_INFLIGHT |-> 0]
        /\ i = 1 /\ in_flight_bytes = 0 /\ remote_win = DEFAULT_WIN
        /\ got_ack = FALSE /\ got_fin = FALSE
        /\ server = "listen" /\ server_isn = 0 /\ expected = 0
        /\ bufs = [j \in Chunks |-> 0] /\ out = <<>>
        /\ c2s = <<>> /\ s2c = <<>> /\ faults = 0 /\ retx = 0

Next == Client \/ Server \/ Network
Spec == Init /\ [][Next]_vars

\* Both programs go on as long as they can.  A packet that stays in the
\* client's socket buffer is found by select in some pass of the send loop.
LiveSpec == /\ Spec /\ WF_vars(Server)
            /\ WF_vars(Client /\ ~ClosingTimeout)
            /\ SF_vars(PollReceive) /\ WF_vars(ClosingReceive)

-----------------------------------------------------------------------------
(* Properties. *)

Kinds == {"SYN", "SYNACK", "ACK", "FIN", "DATA"}
Packets == [kind : Kinds, seq : Nat, ack : Nat, len : Nat, win : Nat]

\* The values the variables take; a window never goes below zero.
TypeOK ==
    /\ client \in {"start", "synack", "fill", "poll", "closing", "exit", "failed"}
    /\ server \in {"listen", "await_ack", "name", "data", "last", "exit", "failed"}
    /\ slot \in [1 .. MAX_INFLIGHT -> Chunks \cup {0}]
    /\ i \in 1 .. MAX_INFLIGHT /\ sent \in 0 .. NChunks
    /\ {in_flight_bytes, remote_win, server_isn, expected} \subseteq Nat
    /\ {got_ack, got_fin} \subseteq BOOLEAN
    /\ bufs \in [Chunks -> 0 .. MAX_BUF_PKTS] /\ out \in Seq(Chunks)
    /\ c2s \in Seq(Packets) /\ s2c \in Seq(Packets)
    /\ Len(c2s) <= ChannelCap /\ Len(s2c) <= ChannelCap
    /\ faults \in 0 .. MaxFaults /\ retx \in 0 .. MaxRetx

\* A chunk that is no longer in inflight[] was written to the received file,
\* whatever the network did to the acknowledgements.  The exception is a server
\* that took a chunk for the name: it never writes anything, and acknowledges
\* what is below the number it expects.
NothingForgotten ==
    \A j \in 1 .. sent : (\A k \in 1 .. MAX_INFLIGHT : slot[k] # j)
        => j <= Len(out) \/ (out = <<>> /\ End(j) <= expected)

\* The received file is a prefix of the file sent, up to the acknowledged number,
\* whatever was lost, duplicated, reordered, left behind in bufs[] or taken for
\* the name: a chunk taken for the name is longer than a name, so that no other
\* chunk is ever the expected one.
WrittenInOrder == /\ \A n \in 1 .. Len(out) : out[n] = n
                  /\ out # <<>> => End(Len(out)) = expected

\* A new chunk is sent only if all that is unacknowledged fits in the window,
\* although the count of bytes in flight is that of the start of the pass.
WindowRespected == [][sent' > sent => InFlight(slot') <= remote_win]_vars

\* On a network without faults both programs end.
BothEnd == <>(client = "exit" /\ server = "exit")

(* What the comments promise and the code does not keep. *)

\* "retransmits the ones that have not been acknowledged" (client.c:64): the
\* server's file is complete when it stops.
FileComplete == server = "exit" => Len(out) = NChunks

\* "Receive the filename packet" (server.c:302): what the server takes for the
\* name is the name, and the bytes after it are those it expects.
FilenameReceived == server = "data" => expected >= Seqno(1) /\ (out = <<>> => expected = Seqno(1))

\* "Send a request to close the connection gracefully" (client.c:405).
CloseCompletes == client = "closing" ~> client = "exit"

\* "Wait for a response from the socket for about 200ms" (client.c:364): the
\* send loop always comes back to the socket, or ends.
SocketPolled == client = "fill" ~> client \in {"poll", "closing"}
=============================================================================
