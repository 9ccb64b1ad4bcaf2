----------------------------- MODULE MCMutation -----------------------------
(***************************************************************************)
(* Instances of PacketMutation for TLC.  The headers are a byte or two     *)
(* long, the storage holds the shortest packet of every kind with a byte   *)
(* of payload, a byte of padding and a byte of room.                       *)
(***************************************************************************)
EXTENDS PacketMutation

MCHeaderLen == [ethernet |-> 1, ipv4 |-> 1, ipv6 |-> 2, tcp |-> 2, udp |-> 1,
                icmp |-> 1]

Datagram(network, netLen, udpLen, l4Sum) ==
  [network |-> network, netLen |-> netLen, fragment |-> "whole",
   transport |-> "udp", udpLen |-> udpLen, ipSum |-> TRUE, l4Sum |-> l4Sum]

Segment == [Datagram("ipv4", 4, 0, "right") EXCEPT !.transport = "tcp"]
Echo == [Datagram("ipv4", 3, 0, "right") EXCEPT !.transport = "icmp"]
FirstFragment == [Datagram("ipv4", 3, 3, "right") EXCEPT !.fragment = "first"]
LaterFragment == [FirstFragment EXCEPT !.fragment = "later"]
Arp == [Datagram("ipv4", 0, 0, "right") EXCEPT !.network = "none"]

MCFixtures == {Datagram("ipv4", 2, 1, "right"), Datagram("ipv4", 3, 2, "zero"),
               Datagram("ipv6", 4, 2, "zero"), Datagram("ipv6", 5, 3, "right"),
               Segment, Echo, FirstFragment, LaterFragment, Arp}

MCCallerHeaders == {Datagram("ipv4", 3, 2, "wrong"), Datagram("ipv4", 4, 2, "right"),
                    Datagram("ipv6", 4, 2, "zero"), Arp}
=============================================================================
