-------------------------------- MODULE MCUdp --------------------------------
(* The parts that serve UDP over TCP on an AnyTLS stream: the copy to one destination  *)
(* or the routing to many (handle_uot_v2 runs one of them), the streams that frame     *)
(* their messages, and the resolver.  Each is used through what it promises, so a      *)
(* behaviour is one of one part.                                                       *)
EXTENDS UdpRouting, MessageCopy, PacketAddrStream, VlessMessageStream, Resolver

VARIABLE part

udpVars == <<part, routingVars, copyVars, pktVars, msgVars, resolverVars>>

(* Packets of 2, 3, 4 and 6 bytes, and one whose address is malformed. *)
MCPackets ==
    {[dest |-> "a", head |-> 1, size |-> n, bad |-> 0] : n \in {1, 2, 3, 5}}
        \cup {[dest |-> "b", head |-> 2, size |-> 1, bad |-> 2]}

Init ==
    /\ part \in {"routing", "copy", "packets", "messages", "resolver"}
    /\ RoutingInit /\ CopyInit /\ PacketInit /\ MessageInit /\ ResolverInit

Routing(A) ==
    part = "routing" /\ A /\ UNCHANGED <<part, copyVars, pktVars, msgVars, resolverVars>>
Copy(A) ==
    part = "copy" /\ A /\ UNCHANGED <<part, routingVars, pktVars, msgVars, resolverVars>>
PacketStream(A) ==
    part = "packets" /\ A /\ UNCHANGED <<part, routingVars, copyVars, msgVars, resolverVars>>
MessageStream(A) ==
    part = "messages" /\ A /\ UNCHANGED <<part, routingVars, copyVars, pktVars, resolverVars>>
Resolving(A) ==
    part = "resolver" /\ A /\ UNCHANGED <<part, routingVars, copyVars, pktVars, msgVars>>

Next ==
    \/ Routing(RoutingNext) \/ Copy(CopyNext)
    \/ PacketStream(PacketNext) \/ MessageStream(MessageNext) \/ Resolving(ResolverNext)

(* RoutingFair and CopyFair, of the one that runs; time need not pass. *)
Fair ==
    /\ WF_udpVars(Routing(RoutingStep))
    /\ \A k \in 1 .. MaxSent : WF_udpVars(Routing(k \in DOMAIN sockets /\ RecvTask(k)))
    /\ WF_udpVars(Copy(CopyTask)) /\ WF_udpVars(Copy(TimerFires))
    /\ \A s \in Sides : WF_udpVars(Copy(RoomBack(s)))

Spec == Init /\ [][Next]_udpVars /\ Fair
=============================================================================
