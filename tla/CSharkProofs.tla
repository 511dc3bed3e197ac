---------------------------- MODULE CSharkProofs ----------------------------
(***************************************************************************)
(* Theorems about CSharkSession, for any packets, any size of the store    *)
(* and any number of Ctrl-C.                                               *)
(***************************************************************************)
EXTENDS CSharkSession, TLAPS

(***************************************************************************)
(* The two decoders.                                                       *)
(***************************************************************************)

\* A whole packet with sound headers is shown alike by both decoders.
LEMMA DecodersAgree ==
    ASSUME NEW p \in PacketType, WellFormed(p), Complete(p)
    PROVE  Agree(Live(p), layer_by_layer(p), p)
<1> USE DEF EthLen, IPv4Min, IPv6Len, ArpLen, TcpMin, UdpLen
<1>0. /\ p.cap \in Nat /\ p.hlen \in Nat /\ p.total \in Nat /\ p.doff \in Nat /\ p.cap >= 14
      /\ p.ether \in {"IPv4", "IPv6", "ARP", "other"} /\ p.proto \in {"TCP", "UDP", "other"}
  BY DEF PacketType
<1>1. CASE p.ether = "IPv4"
  <2>1. p.hlen >= 20 /\ p.cap >= 14 + p.total /\ p.hlen + Transport(p) <= p.total
    BY <1>0, <1>1 DEF WellFormed, Complete, Stated, Headers
  <2>2. Transport(p) \in Nat
    BY <1>0 DEF Transport
  <2>3. /\ Live(p) = LiveTransport(p, p.total - p.hlen)
        /\ layer_by_layer(p) = InspectTransport(p, 14 + p.hlen)
        /\ Padding(p) = p.cap - (14 + p.total)
    BY <1>0, <1>1, <2>1, <2>2
       DEF Live, decode_ipv4, layer_by_layer, InspectIPv4, AfterIPv4, Padding, Stated
  <2>4. CASE p.proto = "TCP"
    <3>1. p.doff >= 20 /\ p.hlen + p.doff <= p.total
      BY <2>1, <2>4 DEF WellFormed, Transport
    <3>2. /\ LiveTransport(p, p.total - p.hlen) = View("IPv4", "TCP", p.total - p.hlen - p.doff)
          /\ InspectTransport(p, 14 + p.hlen) = View("IPv4", "TCP", Rest(p.cap, 14 + p.hlen + p.doff))
      BY <1>0, <1>1, <2>1, <2>4, <3>1
         DEF LiveTransport, decode_tcp, InspectTransport, InspectTcp
    <3>3. Rest(p.cap, 14 + p.hlen + p.doff) = p.cap - (14 + p.hlen + p.doff)
      BY <1>0, <2>1, <3>1 DEF Rest
    <3> QED BY <1>0, <2>3, <3>2, <3>3 DEF Agree, View
  <2>5. CASE p.proto = "UDP"
    <3>1. p.hlen + 8 <= p.total
      BY <2>1, <2>5 DEF Transport
    <3>2. /\ LiveTransport(p, p.total - p.hlen) = View("IPv4", "UDP", p.total - p.hlen - 8)
          /\ InspectTransport(p, 14 + p.hlen) = View("IPv4", "UDP", Rest(p.cap, 14 + p.hlen + 8))
      BY <1>0, <1>1, <2>1, <2>5, <3>1
         DEF LiveTransport, decode_udp, InspectTransport, InspectUdp
    <3>3. Rest(p.cap, 14 + p.hlen + 8) = p.cap - (14 + p.hlen + 8)
      BY <1>0, <2>1, <3>1 DEF Rest
    <3> QED BY <1>0, <2>3, <3>2, <3>3 DEF Agree, View
  <2>6. CASE p.proto = "other"
    BY <2>3, <2>6 DEF LiveTransport, InspectTransport, Agree, View
  <2> QED BY <1>0, <2>4, <2>5, <2>6
<1>2. CASE p.ether = "IPv6"
  <2>1. p.cap >= 54 + p.total /\ Transport(p) <= p.total
    <3>1. Transport(p) \in Nat
      BY <1>0 DEF Transport
    <3> QED BY <1>0, <1>2, <3>1 DEF WellFormed, Complete, Stated, Headers
  <2>3. /\ Live(p) = LiveTransport(p, p.total)
        /\ layer_by_layer(p) = InspectTransport(p, 54)
        /\ Padding(p) = p.cap - (54 + p.total)
    BY <1>0, <1>2, <2>1 DEF Live, decode_ipv6, layer_by_layer, InspectIPv6, Padding, Stated
  <2>4. CASE p.proto = "TCP"
    <3>1. p.doff >= 20 /\ p.doff <= p.total
      BY <2>1, <2>4 DEF WellFormed, Transport
    <3>2. /\ LiveTransport(p, p.total) = View("IPv6", "TCP", p.total - p.doff)
          /\ InspectTransport(p, 54) = View("IPv6", "TCP", Rest(p.cap, 54 + p.doff))
      BY <1>0, <1>2, <2>1, <2>4, <3>1
         DEF LiveTransport, decode_tcp, InspectTransport, InspectTcp
    <3>3. Rest(p.cap, 54 + p.doff) = p.cap - (54 + p.doff)
      BY <1>0, <2>1, <3>1 DEF Rest
    <3> QED BY <1>0, <2>3, <3>2, <3>3 DEF Agree, View
  <2>5. CASE p.proto = "UDP"
    <3>1. 8 <= p.total
      BY <2>1, <2>5 DEF Transport
    <3>2. /\ LiveTransport(p, p.total) = View("IPv6", "UDP", p.total - 8)
          /\ InspectTransport(p, 54) = View("IPv6", "UDP", Rest(p.cap, 54 + 8))
      BY <1>0, <1>2, <2>1, <2>5, <3>1
         DEF LiveTransport, decode_udp, InspectTransport, InspectUdp
    <3>3. Rest(p.cap, 54 + 8) = p.cap - (54 + 8)
      BY <1>0, <2>1, <3>1 DEF Rest
    <3> QED BY <1>0, <2>3, <3>2, <3>3 DEF Agree, View
  <2>6. CASE p.proto = "other"
    BY <2>3, <2>6 DEF LiveTransport, InspectTransport, Agree, View
  <2> QED BY <1>0, <2>4, <2>5, <2>6
<1>3. CASE p.ether = "ARP"
  BY <1>0, <1>3 DEF Complete, Stated, Live, layer_by_layer, InspectArp, Agree, View
<1>4. CASE p.ether = "other"
  BY <1>0, <1>4 DEF Live, layer_by_layer, Agree, View
<1> QED BY <1>0, <1>1, <1>2, <1>3, <1>4

(***************************************************************************)
(* The inductive invariant.                                                *)
(***************************************************************************)

Record == [number : Nat, packet : Packets, shown : {Live(p) : p \in Packets}]

InSession == {"filter", "message", "set_handle", "set_capturing", "loop"}

\* Where the two globals are set, and where the handle is.
GlobalsInv ==
    /\ g_handle => \/ pc \in {"set_capturing", "loop", "close", "clear_handle", "crashed"}
                   \/ pc = "message" /\ mode = "all"
    /\ g_capturing => \/ pc \in {"loop", "close", "clear_handle", "clear_capturing", "crashed"}
                      \/ pc = "message" /\ mode = "all"
    /\ g_handle /\ handle = "closed" => pc \in {"clear_handle", "crashed"}
    /\ pc \in {"close", "clear_handle"} => marked \/ failed
    /\ marked => presses >= 1
    /\ pc \in InSession => handle = "open"

\* The store while a session lasts, and what was printed.
StoreInv ==
    /\ pc \in InSession => g_packets # NULL
    /\ printed \in Seq(Record)
    /\ \A k \in 1 .. Len(printed) : printed[k].shown = Live(printed[k].packet)
    /\ pc \in InSession /\ mode = "all" => g_packet_count = Len(printed)
    /\ pc \in {"ask_id", "detail"} => \A k \in 1 .. g_stored_count : g_packets[k] # NoData
    /\ pc = "detail" => /\ view.id \in 1 .. g_stored_count
                        /\ view.seen = layer_by_layer(g_packets[view.id])

IInv == TypeOK /\ GlobalsInv /\ StoreInv /\ StoreIsSession /\ NumberIsId /\ OneCtrlCIsSafe

(***************************************************************************)
(* Every step keeps it.                                                    *)
(***************************************************************************)

\* The types, by the kind of step.
LEMMA TypeStep ==
    ASSUME TypeOK, GlobalsInv, [Next]_vars
    PROVE  TypeOK'
<1> USE CSharkAssumption DEF TypeOK, GlobalsInv, InSession, Places, At, Jumps, store, capture, history, Empty, NULL
<1>1. CASE SelectDevice
  BY <1>1 DEF SelectDevice
<1>2. CASE LeaveMenu
  BY <1>2 DEF LeaveMenu
<1>3. CASE StartSession
  <2>1. UNCHANGED <<g_handle, g_capturing>> /\ marked' = FALSE /\ presses' = 0
        /\ asked' = FALSE /\ failed' = FALSE /\ pc = "menu"
    BY <1>3 DEF StartSession
  <2>2. mode' \in {"all", "filtered"} /\ handle' \in {"open", "none"}
        /\ pc' \in {"set_handle", "filter", "menu", "failed"}
    BY <1>3 DEF StartSession
  <2>3. g_packets' \in {Empty, NULL} /\ g_stored_count' = 0
    BY <1>3 DEF StartSession, Refill, free_stored_packets
  <2>4. g_packet_count' \in {0, g_packet_count}
    BY <1>3 DEF StartSession, CountAtStart
  <2>5. g_packets' \in {NULL} \cup [1 .. MAX_PACKETS -> Packets \cup {NoPacket, NoData}]
    BY <2>3
  <2>6. g_stored_count' \in 0 .. MAX_PACKETS /\ g_packet_count' \in 0 .. MaxCount
    BY <2>3, <2>4
  <2>7. ~g_handle' /\ ~g_capturing'
    BY <2>1
  <2>8. {marked', g_handle', g_capturing', asked', failed'} \subseteq BOOLEAN
    BY <2>1, <2>7
  <2>9. pc' \in Places /\ presses' \in 0 .. MaxPresses /\ handle' \in {"none", "open", "closed"}
        /\ mode' \in {"none", "all", "filtered"}
    BY <2>1, <2>2
  <2> QED BY <2>5, <2>6, <2>7, <2>8, <2>9
<1>4. CASE ChooseFilter
  BY <1>4 DEF ChooseFilter
<1>5. CASE Message
  BY <1>5 DEF Message
<1>6. CASE SetHandle
  BY <1>6 DEF SetHandle
<1>7. CASE SetCapturing
  BY <1>7 DEF SetCapturing
<1>8. CASE LoopBroken
  BY <1>8 DEF LoopBroken
<1>9. CASE Close
  BY <1>9 DEF Close
<1>10. CASE ClearHandle
  BY <1>10 DEF ClearHandle
<1>11. CASE ClearCapturing
  BY <1>11 DEF ClearCapturing
<1>12. CASE NoFilter
  BY <1>12 DEF NoFilter
<1>13. CASE Deliver
  BY <1>13 DEF Deliver
<1>14. CASE DeviceFails
  BY <1>14 DEF DeviceFails
<1>15. CASE CtrlC
  <2>1. marked' \in {marked, TRUE} /\ asked' \in BOOLEAN
    BY <1>15 DEF CtrlC
  <2>2. pc' \in {pc, "crashed"} /\ presses' \in 0 .. MaxPresses
    BY <1>15 DEF CtrlC
  <2>3. UNCHANGED <<mode, handle, g_handle, g_capturing, store, g_packet_count, failed>>
    BY <1>15 DEF CtrlC
  <2> QED BY <2>1, <2>2, <2>3, ZenonT(30)
<1>16. CASE Inspect
  BY <1>16 DEF Inspect
<1>17. CASE NoId
  BY <1>17 DEF NoId
<1>18. CASE ShowPacket
  BY <1>18 DEF ShowPacket
<1>19. CASE BackToMenu
  BY <1>19 DEF BackToMenu
<1>20. CASE UNCHANGED vars
  BY <1>20 DEF vars
<1> QED
  BY <1>1, <1>2, <1>3, <1>4, <1>5, <1>6, <1>7, <1>8, <1>9, <1>10, <1>11, <1>12, <1>13, <1>14, <1>15, <1>16, <1>17, <1>18, <1>19, <1>20 DEF Next, Session

\* The globals and the handle.
LEMMA GlobalsStep ==
    ASSUME TypeOK, GlobalsInv, [Next]_vars
    PROVE  GlobalsInv'
<1> USE CSharkAssumption DEF TypeOK, GlobalsInv, InSession, At, Jumps, store, capture, history
<1>1. CASE SelectDevice
  BY <1>1 DEF SelectDevice
<1>2. CASE LeaveMenu
  BY <1>2 DEF LeaveMenu
<1>3. CASE StartSession
  BY <1>3 DEF StartSession, Refill, free_stored_packets, CountAtStart
<1>4. CASE ChooseFilter
  BY <1>4 DEF ChooseFilter
<1>5. CASE Message
  BY <1>5 DEF Message
<1>6. CASE SetHandle
  BY <1>6 DEF SetHandle
<1>7. CASE SetCapturing
  BY <1>7 DEF SetCapturing
<1>8. CASE LoopBroken
  BY <1>8 DEF LoopBroken
<1>9. CASE Close
  BY <1>9 DEF Close
<1>10. CASE ClearHandle
  BY <1>10 DEF ClearHandle
<1>11. CASE ClearCapturing
  BY <1>11 DEF ClearCapturing
<1>12. CASE NoFilter
  BY <1>12 DEF NoFilter
<1>13. CASE Deliver
  BY <1>13 DEF Deliver
<1>14. CASE DeviceFails
  BY <1>14 DEF DeviceFails
<1>15. CASE CtrlC
  BY <1>15 DEF CtrlC, Heard, Said
<1>16. CASE Inspect
  BY <1>16 DEF Inspect
<1>17. CASE NoId
  BY <1>17 DEF NoId
<1>18. CASE ShowPacket
  BY <1>18 DEF ShowPacket
<1>19. CASE BackToMenu
  BY <1>19 DEF BackToMenu
<1>20. CASE UNCHANGED vars
  BY <1>20 DEF vars
<1> QED
  BY <1>1, <1>2, <1>3, <1>4, <1>5, <1>6, <1>7, <1>8, <1>9, <1>10, <1>11, <1>12, <1>13, <1>14, <1>15, <1>16, <1>17, <1>18, <1>19, <1>20 DEF Next, Session

\* A crash has its reason.
LEMMA SafeStep ==
    ASSUME TypeOK, GlobalsInv, OneCtrlCIsSafe, [Next]_vars
    PROVE  OneCtrlCIsSafe'
<1> USE CSharkAssumption DEF TypeOK, GlobalsInv, OneCtrlCIsSafe, InSession, At, Jumps, store, capture, history
<1>1. CASE SelectDevice
  BY <1>1 DEF SelectDevice
<1>2. CASE LeaveMenu
  BY <1>2 DEF LeaveMenu
<1>3. CASE StartSession
  BY <1>3 DEF StartSession, Refill, free_stored_packets, CountAtStart
<1>4. CASE ChooseFilter
  BY <1>4 DEF ChooseFilter
<1>5. CASE Message
  BY <1>5 DEF Message
<1>6. CASE SetHandle
  BY <1>6 DEF SetHandle
<1>7. CASE SetCapturing
  BY <1>7 DEF SetCapturing
<1>8. CASE LoopBroken
  BY <1>8 DEF LoopBroken
<1>9. CASE Close
  BY <1>9 DEF Close
<1>10. CASE ClearHandle
  BY <1>10 DEF ClearHandle
<1>11. CASE ClearCapturing
  BY <1>11 DEF ClearCapturing
<1>12. CASE NoFilter
  BY <1>12 DEF NoFilter
<1>13. CASE Deliver
  BY <1>13 DEF Deliver
<1>14. CASE DeviceFails
  BY <1>14 DEF DeviceFails
<1>15. CASE CtrlC
  BY <1>15 DEF CtrlC, Heard, Said
<1>16. CASE Inspect
  BY <1>16 DEF Inspect
<1>17. CASE NoId
  BY <1>17 DEF NoId
<1>18. CASE ShowPacket
  BY <1>18 DEF ShowPacket
<1>19. CASE BackToMenu
  BY <1>19 DEF BackToMenu
<1>20. CASE UNCHANGED vars
  BY <1>20 DEF vars
<1> QED
  BY <1>1, <1>2, <1>3, <1>4, <1>5, <1>6, <1>7, <1>8, <1>9, <1>10, <1>11, <1>12, <1>13, <1>14, <1>15, <1>16, <1>17, <1>18, <1>19, <1>20 DEF Next, Session

\* The store and what was printed.
LEMMA StoreStep ==
    ASSUME TypeOK, StoreInv, StoreIsSession, NumberIsId, [Next]_vars
    PROVE  StoreInv' /\ StoreIsSession' /\ NumberIsId'
<1> USE CSharkAssumption DEF TypeOK, StoreInv, StoreIsSession, NumberIsId, Smaller, InSession, At, Jumps, store, capture, history
<1>1. CASE SelectDevice
  BY <1>1 DEF SelectDevice
<1>2. CASE LeaveMenu
  BY <1>2 DEF LeaveMenu
<1>3. CASE StartSession
  <2>1. printed' = <<>> /\ UNCHANGED view /\ pc = "menu" /\ g_stored_count' = 0
    BY <1>3 DEF StartSession, Refill, free_stored_packets
  <2>2. CASE pc' \in {"menu", "failed"}
    BY <2>1, <2>2
  <2>3. CASE pc' \notin {"menu", "failed"}
    <3>1. PICK m \in {"all", "filtered"} :
            mode' = m /\ pc' = (IF m = "all" THEN "set_handle" ELSE "filter")
            /\ g_packets' = Empty /\ g_packet_count' = CountAtStart(m)
      BY <1>3, <2>3 DEF StartSession, Refill
    <3>2. Empty # NULL
      BY DEF Empty, NULL
    <3> QED BY <2>1, <3>1, <3>2 DEF CountAtStart
  <2> QED BY <2>2, <2>3
<1>4. CASE ChooseFilter
  BY <1>4 DEF ChooseFilter
<1>5. CASE Message
  BY <1>5 DEF Message
<1>6. CASE SetHandle
  BY <1>6 DEF SetHandle
<1>7. CASE SetCapturing
  BY <1>7 DEF SetCapturing
<1>8. CASE LoopBroken
  BY <1>8 DEF LoopBroken
<1>9. CASE Close
  BY <1>9 DEF Close
<1>10. CASE ClearHandle
  BY <1>10 DEF ClearHandle
<1>11. CASE ClearCapturing
  BY <1>11 DEF ClearCapturing
<1>12. CASE NoFilter
  BY <1>12 DEF NoFilter
<1>13. CASE Deliver
  <2>1. PICK p \in Packets, kept \in {TRUE, ~MallocFails} :
          /\ printed' = Append(printed, [number |-> g_packet_count + 1, packet |-> p, shown |-> Live(p)])
          /\ IF g_stored_count < MAX_PACKETS
             THEN /\ g_packets' = [g_packets EXCEPT ![NextEntry] = IF kept THEN p ELSE NoData]
                  /\ g_stored_count' = g_stored_count + 1
             ELSE UNCHANGED store
    BY <1>13 DEF Deliver
  <2>2. pc = "loop" /\ pc' = "loop" /\ UNCHANGED <<mode, view>> /\ g_packet_count' = g_packet_count + 1
    BY <1>13 DEF Deliver
  <2> DEFINE r == [number |-> g_packet_count + 1, packet |-> p, shown |-> Live(p)]
  <2>3. r \in Record /\ r.number = g_packet_count + 1 /\ r.packet = p /\ r.shown = Live(p)
    BY DEF Record
  <2>4. /\ printed' \in Seq(Record) /\ Len(printed') = Len(printed) + 1
        /\ \A k \in 1 .. Len(printed) : printed'[k] = printed[k]
        /\ printed'[Len(printed) + 1] = r
    <3> HIDE DEF r
    <3>1. printed' = Append(printed, r)
      BY <2>1 DEF r
    <3> QED BY <2>3, <3>1
  <2> HIDE DEF r
  <2>9. printed \in Seq(Record) /\ Len(printed) \in Nat
    OBVIOUS
  <2>10. \A k \in 1 .. Len(printed') : k \in 1 .. Len(printed) \/ k = Len(printed) + 1
    BY <2>4, <2>9
  <2>5. /\ \A k \in 1 .. Len(printed') : printed'[k].shown = Live(printed'[k].packet)
        /\ mode' = "all" => g_packet_count' = Len(printed')
        /\ NumberIsId'
    <3>1. mode = "all" => g_packet_count = Len(printed)
      BY <2>2
    <3>2. \A k \in 1 .. Len(printed') : printed'[k].shown = Live(printed'[k].packet)
      BY <2>3, <2>4, <2>10, SMTT(20)
    <3>3. mode' = "all" => \A k \in 1 .. Len(printed') : printed'[k].number = k
      BY <2>2, <2>3, <2>4, <2>10, <3>1
    <3> QED BY <2>2, <2>4, <3>1, <3>2, <3>3
  <2>6. g_packets \in [1 .. MAX_PACKETS -> Packets \cup {NoPacket, NoData}]
    BY <2>2
  <2>7. g_packets' # NULL
    BY <2>1, <2>2, <2>6 DEF NULL
  <2>8. StoreIsSession'
    <3>1. CASE g_stored_count < MAX_PACKETS
      <4>1. g_stored_count = Len(printed) /\ g_stored_count' = g_stored_count + 1
        BY <2>1, <2>4, <3>1
      <4>2. /\ \A k \in 1 .. g_stored_count : g_packets'[k] = g_packets[k]
            /\ g_packets'[g_stored_count + 1] \in {p, NoData}
        <5>1. PICK entry \in {p, NoData} : g_packets' = [g_packets EXCEPT ![g_stored_count + 1] = entry]
          BY <2>1, <3>1 DEF NextEntry
        <5>2. g_stored_count + 1 \in 1 .. MAX_PACKETS /\ g_stored_count \in Nat
          BY <3>1
        <5> QED BY <2>6, <5>1, <5>2
      <4> QED BY <2>3, <2>4, <3>1, <4>1, <4>2, SMTT(20)
    <3>2. CASE ~(g_stored_count < MAX_PACKETS)
      BY <2>1, <2>4, <3>2
    <3> QED BY <3>1, <3>2
  <2> QED BY <2>2, <2>4, <2>5, <2>7, <2>8
<1>14. CASE DeviceFails
  BY <1>14 DEF DeviceFails
<1>15. CASE CtrlC
  BY <1>15 DEF CtrlC, Heard, Said
<1>16. CASE Inspect
  BY <1>16 DEF Inspect
<1>17. CASE NoId
  BY <1>17 DEF NoId
<1>18. CASE ShowPacket
  <2>1. pc = "ask_id" /\ pc' = "detail" /\ UNCHANGED <<mode, store, g_packet_count, printed>>
    BY <1>18 DEF ShowPacket
  <2>2. PICK id \in 1 .. g_stored_count :
          view' = [id |-> id, seen |-> layer_by_layer(g_packets[EntryOf(id)])]
    BY <1>18 DEF ShowPacket
  <2>3. view'.id = id /\ view'.seen = layer_by_layer(g_packets[id])
    BY <2>2 DEF EntryOf
  <2> QED BY <2>1, <2>3
<1>19. CASE BackToMenu
  BY <1>19 DEF BackToMenu
<1>20. CASE UNCHANGED vars
  BY <1>20 DEF vars
<1> QED
  BY <1>1, <1>2, <1>3, <1>4, <1>5, <1>6, <1>7, <1>8, <1>9, <1>10, <1>11, <1>12, <1>13, <1>14, <1>15, <1>16, <1>17, <1>18, <1>19, <1>20 DEF Next, Session

(***************************************************************************)
(* The theorems.                                                           *)
(***************************************************************************)

\* The capture starts with nothing stored.
LEMMA Initially == Init => IInv
<1> SUFFICES ASSUME Init PROVE IInv
  OBVIOUS
<1> USE CSharkAssumption DEF Init
<1>1. TypeOK
  <2>1. pc \in Places /\ mode \in {"none", "all", "filtered"} /\ handle \in {"none", "open", "closed"}
    BY DEF Places
  <2>2. {marked, g_handle, g_capturing, asked, failed} \subseteq BOOLEAN /\ ~g_handle /\ ~g_capturing
    OBVIOUS
  <2>3. /\ g_stored_count \in 0 .. MAX_PACKETS /\ g_packet_count \in 0 .. MaxCount
        /\ presses \in 0 .. MaxPresses /\ g_packets = NULL
    BY DEF CSharkAssumption
  <2> HIDE DEF Init
  <2> QED BY <2>1, <2>2, <2>3 DEF TypeOK
<1>2. GlobalsInv
  BY DEF GlobalsInv, InSession
<1>3. StoreInv /\ StoreIsSession /\ NumberIsId
  BY DEF StoreInv, StoreIsSession, NumberIsId, Smaller, InSession
<1>4. OneCtrlCIsSafe
  BY DEF OneCtrlCIsSafe
<1> QED BY <1>1, <1>2, <1>3, <1>4 DEF IInv

\* Every step of the capture keeps the invariant.
LEMMA Inductive == IInv /\ [Next]_vars => IInv'
BY TypeStep, GlobalsStep, SafeStep, StoreStep DEF IInv

\* The invariant holds in every reachable state.
LEMMA Invariance == Spec => []IInv
<1> QED BY Initially, Inductive, PTL DEF Spec

\* Every variable of a session keeps its type, and nothing is captured outside of
\* one, whenever SIGINT comes.
THEOREM TypeCorrect == Spec => []TypeOK
<1>1. IInv => TypeOK
  BY DEF IInv
<1> QED BY <1>1, Invariance, PTL

\* The store is the beginning of the last session, for any size of the store, and
\* whichever calls to malloc and pcap_open_live fail.
THEOREM StoreHoldsSession == Spec => []StoreIsSession
<1>1. IInv => StoreIsSession
  BY DEF IInv
<1> QED BY <1>1, Invariance, PTL

\* The packets of a plain capture are numbered from 1, as the inspector counts.
THEOREM PacketsNumbered == Spec => []NumberIsId
<1>1. IInv => NumberIsId
  BY DEF IInv
<1> QED BY <1>1, Invariance, PTL

\* A freed handle is reached by a second Ctrl-C only, or after the device failed.
THEOREM FirstCtrlCSafe == Spec => []OneCtrlCIsSafe
<1>1. IInv => OneCtrlCIsSafe
  BY DEF IInv
<1> QED BY <1>1, Invariance, PTL

\* Whatever packets arrive, the inspector shows a whole, sound packet as the live
\* view did, layer by layer, and its payload but for the padding.
THEOREM InspectorShowsWhatArrived == Spec => []InspectorAgrees
<1>1. ASSUME IInv PROVE InspectorAgrees
  <2> SUFFICES ASSUME pc = "detail",
                      WellFormed(printed[view.id].packet), Complete(printed[view.id].packet)
               PROVE  Agree(printed[view.id].shown, view.seen, printed[view.id].packet)
    BY DEF InspectorAgrees
  <2> DEFINE p == printed[view.id].packet
  <2>1. /\ view.id \in 1 .. g_stored_count /\ view.seen = layer_by_layer(g_packets[view.id])
        /\ g_packets[view.id] # NoData
    BY <1>1 DEF IInv, StoreInv
  <2>2. g_packets[view.id] = p
    BY <1>1, <2>1 DEF IInv, StoreIsSession
  <2>3. view.id \in 1 .. Len(printed)
    BY <1>1, <2>1, CSharkAssumption DEF IInv, StoreIsSession, StoreInv, Smaller
  <2>4. p \in PacketType /\ printed[view.id].shown = Live(p)
    <3>1. printed[view.id] \in Record /\ printed[view.id].shown = Live(printed[view.id].packet)
      <4>1. printed \in Seq(Record) /\ \A k \in 1 .. Len(printed) : printed[k].shown = Live(printed[k].packet)
        BY <1>1 DEF IInv, StoreInv
      <4> QED BY <2>3, <4>1
    <3>2. p \in Packets
      BY <3>1 DEF Record
    <3> QED BY <3>1, <3>2, CSharkAssumption DEF CSharkAssumption
  <2> HIDE DEF p
  <2>5. Agree(Live(p), layer_by_layer(p), p)
    BY <2>4, DecodersAgree DEF p
  <2> QED BY <2>1, <2>2, <2>4, <2>5 DEF p
<1> QED BY <1>1, Invariance, PTL
=============================================================================
