---------------------------- MODULE AnyTlsServer ----------------------------
(***************************************************************************)
(* The AnyTLS server: the accept loop with its connection permits, and the    *)
(* task of each connection from the TLS handshake over authentication to the  *)
(* session or the fallback (src/src/anytls/server.rs).  The session itself is *)
(* AnyTlsSession; here it lasts until it ends.                                *)
(*                                                                         *)
(* What a client sends first is abstracted to whether the first 8 bytes and   *)
(* the first 32 bytes are those of a user's password hash.                    *)
(***************************************************************************)
EXTENDS Naturals, FiniteSets

CONSTANTS Clients,
          PrefixKnown,    \* clients whose first 8 bytes are a user's
          Users,          \* clients whose first 32 bytes are a user's
          Fallback,       \* a fallback destination is configured
          MaxConnections

ASSUME ClientsAssumption == Users \subseteq PrefixKnown /\ PrefixKnown \subseteq Clients
ASSUME LimitAssumption == MaxConnections \in Nat \ {0} /\ Fallback \in BOOLEAN
ASSUME FiniteAssumption == IsFiniteSet(Clients)

VARIABLES acceptor,   \* what the accept loop does next
          permits,    \* the semaphore
          phase       \* each client, then the task of its connection

vars == <<acceptor, permits, phase>>

Unserved == {"away", "queued"}
Phases == Unserved \cup {"handshake", "prefix", "auth", "padding", "session", "dial", "fallback"}
Active == {c \in Clients : phase[c] \notin Unserved}

Init == acceptor = "acquire" /\ permits = MaxConnections /\ phase = [c \in Clients |-> "away"]

To(c, p) == phase' = [phase EXCEPT ![c] = p] /\ UNCHANGED <<acceptor, permits>>

(***************************************************************************)
(* The accept loop.                                                        *)
(***************************************************************************)
ClientConnects(c) == phase[c] = "away" /\ To(c, "queued")

Acquire ==
    /\ acceptor = "acquire" /\ permits > 0
    /\ acceptor' = "accept" /\ permits' = permits - 1
    /\ UNCHANGED phase

(* The permit goes to the task of the connection. *)
Accept(c) ==
    /\ acceptor = "accept" /\ phase[c] = "queued"
    /\ acceptor' = "acquire" /\ phase' = [phase EXCEPT ![c] = "handshake"]
    /\ UNCHANGED permits

(* Mutant: the permit is not given back when accept fails. *)
AcceptFailsLeaks == acceptor = "accept" /\ acceptor' = "acquire" /\ UNCHANGED <<permits, phase>>

AcceptFails ==
    /\ acceptor = "accept"
    /\ acceptor' = "acquire" /\ permits' = permits + 1
    /\ UNCHANGED phase

(***************************************************************************)
(* The task of a connection.  When it ends its stream is closed and its       *)
(* permit is given back; the client may come again.                           *)
(***************************************************************************)
End(c) ==
    /\ phase' = [phase EXCEPT ![c] = "away"]
    /\ permits' = permits + 1
    /\ UNCHANGED acceptor

HandshakeOk(c) == phase[c] = "handshake" /\ To(c, "prefix")
HandshakeFails(c) == phase[c] = "handshake" /\ End(c)

(* Mutant: the handshake is not timed. *)
HandshakeTimeoutNever(c) == FALSE /\ End(c)
HandshakeTimeout(c) == phase[c] = "handshake" /\ End(c)

Reject(c) == IF Fallback THEN To(c, "dial") ELSE End(c)

PeekPrefix(c) ==
    /\ phase[c] = "prefix"
    /\ IF c \in PrefixKnown THEN To(c, "auth") ELSE Reject(c)

(* Mutant: the quick check of the prefix is taken for authentication. *)
PeekAuthPrefix(c) == phase[c] = "auth" /\ To(c, "padding")

PeekAuth(c) ==
    /\ phase[c] = "auth"
    /\ IF c \in Users THEN To(c, "padding") ELSE Reject(c)

ReadPadding(c) == phase[c] = "padding" /\ To(c, "session")

(* The client goes away, or sends more padding than the reader can hold. *)
ReadFails(c) == phase[c] \in {"prefix", "auth", "padding"} /\ End(c)

FallbackConnects(c) == phase[c] = "dial" /\ To(c, "fallback")
FallbackFails(c) == phase[c] = "dial" /\ End(c)

RelayEnds(c) == phase[c] = "fallback" /\ End(c)
SessionEnds(c) == phase[c] = "session" /\ End(c)

ClientStep(c) ==
    \/ HandshakeOk(c) \/ HandshakeFails(c) \/ PeekPrefix(c) \/ PeekAuth(c) \/ ReadPadding(c)
    \/ ReadFails(c) \/ FallbackConnects(c) \/ FallbackFails(c) \/ RelayEnds(c) \/ SessionEnds(c)

Next ==
    \/ Acquire \/ AcceptFails
    \/ \E c \in Clients :
          ClientConnects(c) \/ Accept(c) \/ HandshakeTimeout(c) \/ ClientStep(c)

Spec == Init /\ [][Next]_vars

(* The accept loop runs and its timers fire.  Nothing is assumed of a client during its  *)
(* handshake; later on it goes on or goes away, and accept does not forever fail or       *)
(* forever pass over one that is queued.                                                 *)
BusySpec ==
    /\ Spec /\ WF_vars(Acquire)
    /\ \A c \in Clients :
          /\ WF_vars(HandshakeTimeout(c)) /\ SF_vars(Accept(c))
          /\ WF_vars(phase[c] # "handshake" /\ ClientStep(c))

(***************************************************************************)
(* Properties.                                                             *)
(***************************************************************************)
(* The accept loop, the semaphore and every connection are in a state of the code; in    *)
(* particular permits never go below zero (server.rs:283-287).                          *)
TypeOK == acceptor \in {"acquire", "accept"} /\ permits \in Nat /\ phase \in [Clients -> Phases]

(* No permit is lost or made: each is free, with the accept loop, or with one         *)
(* connection, on every way a connection or an accept can end, "so we never accept    *)
(* more connections than we can handle" (server.rs:280-296, 312-342).                          *)
PermitsConserved ==
    /\ permits \in Nat
    /\ permits + Cardinality(Active) + (IF acceptor = "accept" THEN 1 ELSE 0) = MaxConnections

(* Only a client that sent the whole hash of a user gets as far as a session          *)
(* (server.rs:106-135); matching the prefix is not enough.                            *)
SessionsAreUsers == \A c \in Clients : phase[c] \in {"padding", "session"} => c \in Users

(* A client that waits for the limit is served when others have gone: backpressure,   *)
(* not refusal (server.rs:261-263).                                                   *)
QueuedIsServed == \A c \in Clients : (phase[c] = "queued") ~> (phase[c] # "queued")
=============================================================================
