---------------------------- MODULE CSharkDecode ----------------------------
(***************************************************************************)
(* What src/cshark says of a packet: once when it arrives (packet_handler  *)
(* of menu.c with L3.c and L4.c) and once when it is looked up afterwards  *)
(* (layer_by_layer of inspect.c).  The two are separate decoders: one goes *)
(* by the lengths in the headers, the other by the number of bytes kept.   *)
(*                                                                         *)
(* A packet is what they branch on: the bytes captured (cap), the protocol *)
(* names, and the lengths its headers state (hlen: ip_hl * 4, total:       *)
(* ip_len or ip6_plen, doff: th_off * 4).  A view is the layers shown and  *)
(* the number of payload bytes announced.                                  *)
(***************************************************************************)
EXTENDS Integers

EthLen == 14
IPv4Min == 20
IPv6Len == 40
ArpLen == 28
TcpMin == 20
UdpLen == 8

Packet(cap, ether, hlen, total, proto, doff) ==
    [cap |-> cap, ether |-> ether, hlen |-> hlen, total |-> total, proto |-> proto, doff |-> doff]

\* An interface hands over the Ethernet header at least.
PacketType ==
    { p \in [cap : Nat, ether : {"IPv4", "IPv6", "ARP", "other"}, hlen : Nat, total : Nat,
             proto : {"TCP", "UDP", "other"}, doff : Nat] : p.cap >= EthLen }

View(l3, l4, payload) == [l3 |-> l3, l4 |-> l4, payload |-> payload]
Truncated == View("truncated", "none", 0)

-----------------------------------------------------------------------------
(* When the packet arrives. *)

decode_tcp(p, payload_len) == View(p.ether, "TCP", payload_len)
decode_udp(p, payload_len) == View(p.ether, "UDP", IF payload_len > 0 THEN payload_len ELSE 0)

\* The end of decode_ipv4 and of decode_ipv6; len is what follows the IP header.
LiveTransport(p, len) ==
    IF p.proto = "TCP" /\ len >= TcpMin THEN decode_tcp(p, len - p.doff)
    ELSE IF p.proto = "UDP" /\ len >= UdpLen THEN decode_udp(p, len - UdpLen)
    ELSE View(p.ether, "none", 0)

decode_ipv4(p, len) ==
    IF len < IPv4Min THEN Truncated ELSE LiveTransport(p, p.total - p.hlen)

decode_ipv6(p, len) ==
    IF len < IPv6Len THEN Truncated ELSE LiveTransport(p, p.total)

Live(p) ==
    IF p.ether = "IPv4" THEN decode_ipv4(p, p.cap - EthLen)
    ELSE IF p.ether = "IPv6" THEN decode_ipv6(p, p.cap - EthLen)
    ELSE View(p.ether, "none", 0)

-----------------------------------------------------------------------------
(* When it is inspected. *)

Rest(plen, off) == IF off < plen THEN plen - off ELSE 0

InspectTcp(p, l4_off) ==
    IF l4_off + TcpMin <= p.cap THEN View(p.ether, "TCP", Rest(p.cap, l4_off + p.doff))
    ELSE View(p.ether, "none", 0)
InspectUdp(p, l4_off) ==
    IF l4_off + UdpLen <= p.cap THEN View(p.ether, "UDP", Rest(p.cap, l4_off + UdpLen))
    ELSE View(p.ether, "none", 0)

InspectTransport(p, l4_off) ==
    IF p.proto = "TCP" THEN InspectTcp(p, l4_off)
    ELSE IF p.proto = "UDP" THEN InspectUdp(p, l4_off)
    ELSE View(p.ether, "none", 0)

NoOptions(p) == EthLen + IPv4Min                                           \* bug
AfterIPv4(p) == EthLen + p.hlen

InspectIPv4(p) == IF EthLen + IPv4Min > p.cap THEN Truncated ELSE InspectTransport(p, AfterIPv4(p))
InspectIPv6(p) == IF EthLen + IPv6Len > p.cap THEN Truncated ELSE InspectTransport(p, EthLen + IPv6Len)
InspectArp(p) == IF EthLen + ArpLen > p.cap THEN Truncated ELSE View("ARP", "none", 0)

layer_by_layer(p) ==
    IF p.cap < EthLen THEN View("none", "none", 0)
    ELSE IF p.ether = "IPv4" THEN InspectIPv4(p)
    ELSE IF p.ether = "IPv6" THEN InspectIPv6(p)
    ELSE IF p.ether = "ARP" THEN InspectArp(p)
    ELSE View("other", "none", 0)

-----------------------------------------------------------------------------
(* Packets as they should be. *)

\* The bytes of the frame its headers account for.
Stated(p) == IF p.ether = "IPv4" THEN EthLen + p.total
             ELSE IF p.ether = "IPv6" THEN EthLen + IPv6Len + p.total
             ELSE IF p.ether = "ARP" THEN EthLen + ArpLen ELSE p.cap

Headers(p) == IF p.ether = "IPv4" THEN p.hlen ELSE 0
Transport(p) == IF p.proto = "TCP" THEN p.doff ELSE IF p.proto = "UDP" THEN UdpLen ELSE 0

WellFormed(p) == /\ p.ether = "IPv4" => p.hlen >= IPv4Min
                 /\ p.proto = "TCP" => p.doff >= TcpMin
                 /\ p.ether \in {"IPv4", "IPv6"} => Headers(p) + Transport(p) <= p.total
Complete(p) == p.cap >= Stated(p)

\* What Ethernet adds to a frame that is too short.
Padding(p) == p.cap - Stated(p)

\* The views show the same layers, and the same payload but for the padding,
\* which the inspector takes for payload.
Agree(live, view, p) ==
    /\ live.l3 = view.l3 /\ live.l4 = view.l4
    /\ view.payload = live.payload + (IF live.l4 = "none" THEN 0 ELSE Padding(p))
=============================================================================
