-------------------------- MODULE MCCSharkSession --------------------------
(* An instance of CSharkSession for TLC. *)
EXTENDS CSharkSession

\* An acknowledgement padded to the least Ethernet frame, a datagram after IP
\* options, TCP over IPv6, and a frame that was cut off while it was captured.
MCPackets == { Packet(60, "IPv4", 20, 40, "TCP", 20),
               Packet(14 + 24 + 18, "IPv4", 24, 42, "UDP", 0),
               Packet(14 + 40 + 37, "IPv6", 0, 37, "TCP", 32),
               Packet(50, "IPv4", 20, 1400, "TCP", 20) }
=============================================================================
