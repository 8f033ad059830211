--------------------------- MODULE Hysteria2Server ---------------------------
(***************************************************************************)
(* The Hysteria2 server: the accept loop with its permits, the task of each   *)
(* connection (process_connection: QUIC and HTTP/3 setup, authentication,     *)
(* then three loops under try_join!), and the tasks of its TCP streams        *)
(* (src/src/hysteria2.rs).  The UDP loop is Hysteria2Udp, a relay             *)
(* CopyBidirectional; here they run until they end.                           *)
(***************************************************************************)
EXTENDS Naturals, FiniteSets

CONSTANTS Conns,            \* the connections clients open
          Streams,          \* the bidirectional streams of a connection
          MaxConnections

Loops == {"udp", "uni", "tcp"}

VARIABLES udpEnabled, \* the configuration's udp_enabled
          permits,
          phase,     \* each connection, and its task once there is one
          quic,      \* its QUIC connection: "up", "closed" by the peer, or "lost"
          loop,      \* what the three loops of a connection have returned
          stream     \* the tasks of its TCP streams

vars == <<udpEnabled, permits, phase, quic, loop, stream>>

Setup == {"handshake", "h3", "auth"}
NoneReturned == [l \in Loops |-> "running"]
Tasks == {c \in Conns : phase[c] \in Setup \cup {"run"}}

Init ==
    /\ udpEnabled \in BOOLEAN /\ permits = MaxConnections
    /\ phase = [c \in Conns |-> "away"] /\ quic = [c \in Conns |-> "up"]
    /\ loop = [c \in Conns |-> NoneReturned]
    /\ stream = [c \in Conns |-> [s \in Streams |-> "none"]]

(***************************************************************************)
(* The accept loop: it accepts first, and then waits for a permit.            *)
(***************************************************************************)
Arrive(c) ==
    /\ phase[c] = "away" /\ phase' = [phase EXCEPT ![c] = "incoming"]
    /\ UNCHANGED <<udpEnabled, permits, quic, loop, stream>>

Accept(c) ==
    /\ phase[c] = "incoming" /\ \A d \in Conns : phase[d] # "accepted"
    /\ phase' = [phase EXCEPT ![c] = "accepted"]
    /\ UNCHANGED <<udpEnabled, permits, quic, loop, stream>>

(* Mutant: the permit is taken without waiting for one. *)
SpawnNoWait(c) ==
    /\ phase[c] = "accepted"
    /\ permits' = permits - 1
    /\ phase' = [phase EXCEPT ![c] = "handshake"]
    /\ UNCHANGED <<udpEnabled, quic, loop, stream>>

Spawn(c) ==
    /\ phase[c] = "accepted" /\ permits > 0
    /\ permits' = permits - 1
    /\ phase' = [phase EXCEPT ![c] = "handshake"]
    /\ UNCHANGED <<udpEnabled, quic, loop, stream>>

(***************************************************************************)
(* process_connection.  Its end drops the HTTP/3 connection, which closes     *)
(* the QUIC connection, the permit, and what the loops have returned.         *)
(***************************************************************************)
Gone(c) == quic[c] # "up"

End(c) ==
    /\ phase' = [phase EXCEPT ![c] = "ended"]
    /\ quic' = [quic EXCEPT ![c] = IF @ = "up" THEN "closed" ELSE @]
    /\ permits' = permits + 1
    /\ loop' = [loop EXCEPT ![c] = NoneReturned]
    /\ UNCHANGED <<udpEnabled, stream>>

SetupGoesOn(c) ==
    /\ phase[c] \in Setup
    /\ phase' = [phase EXCEPT ![c] = CASE @ = "handshake" -> "h3"
                                       [] @ = "h3" -> "auth"
                                       [] @ = "auth" -> "run"]
    /\ UNCHANGED <<udpEnabled, permits, quic, loop, stream>>

SetupFails(c) == phase[c] \in Setup /\ End(c)

(* Mutant: authentication is not timed. *)
AuthTimeoutNever(c) == FALSE /\ End(c)
AuthTimeout(c) == phase[c] = "auth" /\ End(c)

(* Mutant: the UDP loop waits for ever when UDP is disabled. *)
LoopReturnsNoUdp(c, l) ==
    /\ phase[c] = "run" /\ loop[c][l] = "running"
    /\ IF l = "udp" THEN udpEnabled ELSE Gone(c)
    /\ loop' = [loop EXCEPT ![c][l] = IF quic[c] = "closed" /\ l # "udp" THEN "ok" ELSE "err"]
    /\ UNCHANGED <<udpEnabled, permits, phase, quic, stream>>

(* The UDP loop fails with the connection, or when it cannot open a socket; it is done  *)
(* at once when UDP is disabled.  The others are done when the peer closes and fail     *)
(* when the connection is lost.                                                         *)
LoopReturns(c, l) ==
    /\ phase[c] = "run" /\ loop[c][l] = "running"
    /\ l # "udp" => Gone(c)
    /\ loop' = [loop EXCEPT ![c][l] =
                   IF IF l = "udp" THEN ~udpEnabled ELSE quic[c] = "closed" THEN "ok" ELSE "err"]
    /\ UNCHANGED <<udpEnabled, permits, phase, quic, stream>>

(* A datagram it cannot slice or index makes the UDP loop panic, and the task with it. *)
UdpPanics(c) ==
    /\ phase[c] = "run" /\ udpEnabled /\ loop[c]["udp"] = "running"
    /\ End(c)

(* try_join! ends with the first error or when all are done; the token is cancelled. *)
Join(c) ==
    /\ phase[c] = "run"
    /\ (\E l \in Loops : loop[c][l] = "err") \/ (\A l \in Loops : loop[c][l] = "ok")
    /\ End(c)

(***************************************************************************)
(* process_tcp_stream.                                                     *)
(***************************************************************************)
StreamTo(c, s, p) ==
    /\ stream' = [stream EXCEPT ![c][s] = p]
    /\ UNCHANGED <<udpEnabled, permits, phase, quic, loop>>

AcceptBi(c, s) ==
    /\ phase[c] = "run" /\ loop[c]["tcp"] = "running" /\ ~Gone(c) /\ stream[c][s] = "none"
    /\ StreamTo(c, s, "header")

(* The request was read and answered, and then the destination is dialled. *)
HeaderRead(c, s) == stream[c][s] = "header" /\ ~Gone(c) /\ StreamTo(c, s, "dial")
HeaderFails(c, s) == stream[c][s] = "header" /\ StreamTo(c, s, "done")
Dialled(c, s) == stream[c][s] = "dial" /\ StreamTo(c, s, "relay")
DialFails(c, s) == stream[c][s] = "dial" /\ StreamTo(c, s, "done")

DialTimeout(c, s) == stream[c][s] = "dial" /\ StreamTo(c, s, "done")

(* The client has sent EOF, or the destination does not take what it sent: the relay    *)
(* waits for the destination alone, until the destination moves.                        *)
RelayWaits(c, s) == stream[c][s] = "relay" /\ ~Gone(c) /\ StreamTo(c, s, "waiting")
RelayGoesOn(c, s) == stream[c][s] = "waiting" /\ StreamTo(c, s, "relay")

(* The relay ends, and both of its streams are shut down. *)
RelayEnds(c, s) == stream[c][s] \in {"relay", "waiting"} /\ StreamTo(c, s, "done")

(* Every read of the client's stream fails once the connection is gone. *)
StreamSeesEnd(c, s) ==
    Gone(c) /\ stream[c][s] # "waiting" /\ (HeaderFails(c, s) \/ RelayEnds(c, s))

PeerCloses(c) ==
    /\ phase[c] \in Setup \cup {"run"} /\ ~Gone(c)
    /\ \E q \in {"closed", "lost"} : quic' = [quic EXCEPT ![c] = q]
    /\ UNCHANGED <<udpEnabled, permits, phase, loop, stream>>

StreamStep(c, s) ==
    \/ AcceptBi(c, s) \/ HeaderRead(c, s) \/ HeaderFails(c, s) \/ Dialled(c, s)
    \/ DialFails(c, s) \/ DialTimeout(c, s) \/ RelayWaits(c, s) \/ RelayGoesOn(c, s)
    \/ RelayEnds(c, s)

Next == \E c \in Conns :
    \/ Arrive(c) \/ Accept(c) \/ Spawn(c) \/ SetupGoesOn(c) \/ SetupFails(c) \/ AuthTimeout(c)
    \/ UdpPanics(c) \/ Join(c) \/ PeerCloses(c) \/ (\E l \in Loops : LoopReturns(c, l))
    \/ \E s \in Streams : StreamStep(c, s)

Spec == Init /\ [][Next]_vars

(* Tasks are polled and timers fire; a call on a connection that is gone returns, and   *)
(* connections are accepted in turn.  Nothing is assumed of the client.                *)
FairSpec ==
    /\ Spec
    /\ \A c \in Conns :
          /\ SF_vars(Accept(c)) /\ WF_vars(Spawn(c))
          /\ WF_vars(AuthTimeout(c)) /\ WF_vars(Gone(c) /\ SetupFails(c)) /\ WF_vars(Join(c))
          /\ \A l \in Loops : WF_vars(Gone(c) /\ LoopReturns(c, l))
          /\ \A s \in Streams : WF_vars(StreamSeesEnd(c, s)) /\ WF_vars(DialTimeout(c, s))

(***************************************************************************)
(* Properties.                                                             *)
(***************************************************************************)
(* "Acquire a connection permit before spawning, so we never exceed the configured     *)
(* limit" (hysteria2.rs:933-945): every permit is free or with one connection's task.   *)
PermitsConserved == permits \in Nat /\ permits + Cardinality(Tasks) = MaxConnections

(* When the QUIC connection is gone its task ends and the permit is free again, whether *)
(* it was closed or lost, in every phase, also when there is no UDP loop to notice      *)
(* (hysteria2.rs:85-127).                                                              *)
GoneConnectionEnds ==
    \A c \in Conns : (phase[c] \in Setup \cup {"run"} /\ Gone(c)) ~> (phase[c] = "ended")

(* No task of a TCP stream outlives its connection for ever, whatever it was doing,     *)
(* except a relay that waits for its destination alone (hysteria2.rs:630-654, 720-790). *)
StreamsEnd ==
    \A c \in Conns : (phase[c] = "ended") ~>
          (\A s \in Streams : stream[c][s] \in {"none", "waiting", "done"})

(* A connection that waits, to be accepted or for a permit, is served, unless from some *)
(* moment on every permit is with a client that is connected and in a phase that has no *)
(* timer: the QUIC handshake, the set-up of HTTP/3, or the loops after authentication   *)
(* (hysteria2.rs:46-77, 933-945).  Clients that are gone or do not authenticate free    *)
(* their permits for others.                                                            *)
Untimed == {"handshake", "h3", "run"}
Taken == Cardinality({c \in Conns : phase[c] \in Untimed /\ ~Gone(c)}) = MaxConnections
WaitingIsServed ==
    \A c \in Conns :
        (phase[c] \in {"incoming", "accepted"})
            ~> (phase[c] \notin {"incoming", "accepted"} \/ []Taken)
=============================================================================
