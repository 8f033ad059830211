----------------------------- MODULE MCServers -----------------------------
(* The servers of a configuration.  main starts each in a task of its own and they     *)
(* share no state that matters here, so a behaviour is one of one of them: the AnyTLS   *)
(* server, the reader through which both take what a client sends first, and the       *)
(* Hysteria2 server.                                                                   *)
EXTENDS AnyTlsServer, StreamReader

CONSTANTS Conns, Streams, H2MaxConnections
CONSTANTS c1, c2, c3, k1, k2, t1

ASSUME H2Assumption == IsFiniteSet(Conns) /\ H2MaxConnections \in Nat

VARIABLES server, udpEnabled, h2Permits, h2Phase, quic, loop, stream

H2 == INSTANCE Hysteria2Server
          WITH MaxConnections <- H2MaxConnections, permits <- h2Permits, phase <- h2Phase

h2Vars == <<udpEnabled, h2Permits, h2Phase, quic, loop, stream>>
allVars == <<server, vars, readerVars, h2Vars>>

AllInit ==
    /\ server \in {"anytls", "reader", "hysteria2"}
    /\ Init /\ ReaderInit /\ H2!Init

AnyTls(A) == server = "anytls" /\ A /\ UNCHANGED <<server, readerVars, h2Vars>>
Reader(A) == server = "reader" /\ A /\ UNCHANGED <<server, vars, h2Vars>>
Hysteria2(A) == server = "hysteria2" /\ A /\ UNCHANGED <<server, vars, readerVars>>

AllNext == AnyTls(Next) \/ Reader(ReaderNext) \/ Hysteria2(H2!Next)

(* What BusySpec and Hysteria2Server's FairSpec assume, of the server that runs. *)
AnyTlsFair ==
    /\ WF_allVars(AnyTls(Acquire))
    /\ \A c \in Clients :
          /\ WF_allVars(AnyTls(HandshakeTimeout(c))) /\ SF_allVars(AnyTls(Accept(c)))
          /\ WF_allVars(AnyTls(phase[c] # "handshake" /\ ClientStep(c)))
Hysteria2Fair ==
    \A c \in Conns :
        /\ SF_allVars(Hysteria2(H2!Accept(c))) /\ WF_allVars(Hysteria2(H2!Spawn(c)))
        /\ WF_allVars(Hysteria2(H2!AuthTimeout(c)))
        /\ WF_allVars(Hysteria2(H2!Gone(c) /\ H2!SetupFails(c)))
        /\ WF_allVars(Hysteria2(H2!Join(c)))
        /\ \A l \in H2!Loops : WF_allVars(Hysteria2(H2!Gone(c) /\ H2!LoopReturns(c, l)))
        /\ \A s \in Streams : /\ WF_allVars(Hysteria2(H2!StreamSeesEnd(c, s)))
                              /\ WF_allVars(Hysteria2(H2!DialTimeout(c, s)))

AllSpec == AllInit /\ [][AllNext]_allVars /\ AnyTlsFair /\ Hysteria2Fair

(***************************************************************************)
(* The properties of the Hysteria2 server.                                 *)
(***************************************************************************)
(* Every permit of the Hysteria2 server is free or with one connection's task          *)
(* (hysteria2.rs:933-945).                                                             *)
H2PermitsConserved == H2!PermitsConserved

(* When a QUIC connection is gone its task ends and its permit is free again            *)
(* (hysteria2.rs:85-127), and none of the detached tasks of its TCP streams outlives    *)
(* it for ever, except a relay that waits for its destination alone (630-654, 720-790). *)
H2GoneConnectionEnds == H2!GoneConnectionEnds /\ H2!StreamsEnd

(* A connection that waits is served, unless from some moment on every permit is with   *)
(* a client that is connected and in a phase without a timer (hysteria2.rs:46-77,       *)
(* 933-945).                                                                           *)
H2WaitingIsServed == H2!WaitingIsServed
=============================================================================
