--------------------------- MODULE MCHysteria2Udp ---------------------------
(* Packets for small instances of Hysteria2Udp. *)
EXTENDS Hysteria2Udp, TLC

CONSTANTS s1, l1, l2

Packet(s, i, l, n) == [session |-> s, id |-> i, loc |-> l, count |-> n]

(* Fragmented packets to two locations, two of them with the same id and different   *)
(* counts, a single one and an empty one.                                            *)
SomePackets == {Packet(s1, 0, l1, 2), Packet(s1, 1, l2, 2), Packet(s1, 0, l1, 3),
                Packet(s1, 2, l2, 1), Packet(s1, 3, l1, 0)}
=============================================================================
