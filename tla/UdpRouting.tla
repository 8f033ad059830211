----------------------------- MODULE UdpRouting -----------------------------
(* run_udp_routing (udp_relay.rs): UDP over an AnyTLS stream to many destinations.     *)
(* One task reads the client's packets, keeps one session (a UDP socket) for each      *)
(* destination and writes the answers back; each session has a task of its own that    *)
(* receives from its socket and queues what it gets for the first.  A packet is a      *)
(* number in the order of the client's stream, an answer is named by its socket and    *)
(* its place in the order in which the socket got them.  Time is counted in ticks.     *)
EXTENDS Integers, Sequences, Folds

CONSTANTS
    Dests,            \* destinations a packet may carry
    CleanupInterval,  \* 10 seconds
    AssocTimeout,     \* ASSOCIATION_TIMEOUT
    MaxSent,          \* bound: packets of the client
    MaxAnswers,       \* bound: answers the sockets get
    MaxTraffic,       \* bound: packets and answers together
    MaxNow,           \* bound: ticks
    NoSession

ASSUME RoutingAssumption ==
    /\ CleanupInterval \in Nat /\ AssocTimeout \in Nat
    /\ MaxSent \in Nat /\ MaxAnswers \in Nat /\ MaxTraffic \in Nat /\ MaxNow \in Nat
    /\ NoSession \notin [sock : Nat, last : Nat]

VARIABLES
    fromClient,   \* packets and the end of the stream, not read yet
    clientSent,   \* packets the client has sent, and MaxSent + 1 more once it has closed
    task,         \* the routing task: where it is, and what it has in hand
    sessions,     \* HashMap<NetLocation, Session>
    sockets,      \* the sessions' sockets and receive tasks, in the order of their creation
    responses,    \* the channel of response_tx and response_rx
    answered,     \* answers written to the client, in order
    forwarded,    \* packets sent to destinations, in order
    now, lastCleanup

udpClock == <<now, lastCleanup>>
routingVars == <<fromClient, clientSent, task, sessions, sockets, responses, answered,
                 forwarded, udpClock>>

Closed == [dest |-> NoSession, n |-> 0]
At(pc) == [pc |-> pc]

RoutingInit ==
    /\ fromClient = <<>> /\ clientSent = 0
    /\ task = At("top")
    /\ sessions = [d \in Dests |-> NoSession] /\ sockets = <<>>
    /\ responses = <<>> /\ answered = <<>> /\ forwarded = <<>>
    /\ now = 0 /\ lastCleanup = 0

(***************************************************************************)
(* The client, the destinations and the clock.                             *)
(***************************************************************************)
Answers ==
    MapThenFoldSet(LAMBDA n, sum : n + sum, 0, LAMBDA k : sockets[k].got,
                   LAMBDA S : CHOOSE k \in S : TRUE, DOMAIN sockets)
Quiet == (clientSent % (MaxSent + 1)) + Answers < MaxTraffic

ClientSends(d) ==
    /\ clientSent < MaxSent /\ Quiet
    /\ clientSent' = clientSent + 1
    /\ fromClient' = Append(fromClient, [dest |-> d, n |-> clientSent + 1])
    /\ UNCHANGED <<task, sessions, sockets, responses, answered, forwarded, udpClock>>

(* The stream ends, fails, or carries a packet to the unspecified address. *)
ClientCloses ==
    /\ clientSent <= MaxSent
    /\ clientSent' = clientSent + (MaxSent + 1)
    /\ fromClient' = Append(fromClient, Closed)
    /\ UNCHANGED <<task, sessions, sockets, responses, answered, forwarded, udpClock>>

AnswerArrives(k) ==
    /\ Answers < MaxAnswers /\ Quiet
    /\ sockets' = [sockets EXCEPT ![k].got = @ + 1]
    /\ UNCHANGED <<fromClient, clientSent, task, sessions, responses, answered, forwarded,
                   udpClock>>

UdpTick ==
    /\ now < MaxNow
    /\ now' = now + 1
    /\ UNCHANGED <<fromClient, clientSent, task, sessions, sockets, responses, answered,
                   forwarded, lastCleanup>>

(***************************************************************************)
(* recv_loop, the task of socket k.                                        *)
(***************************************************************************)
Live == {d \in Dests : sessions[d] # NoSession}
Over == task.pc \in {"ended", "aborted"}

(* Mutant: a full response queue drops the answer. *)
RecvMisses(k) ==
    /\ sockets[k].running /\ sockets[k].taken < sockets[k].got
    /\ sockets' = [sockets EXCEPT ![k].taken = @ + 1, ![k].running = ~Over]
    /\ responses' = IF Over \/ Live = {} THEN responses
                    ELSE Append(responses, [sock |-> k, n |-> sockets[k].taken + 1])
    /\ UNCHANGED <<fromClient, clientSent, task, sessions, answered, forwarded, udpClock>>

(* A datagram is queued; when the routing task has dropped the channel, send fails.   *)
(* select! may prefer the socket to a token that is cancelled.                        *)
Recv(k) ==
    /\ sockets[k].running /\ sockets[k].taken < sockets[k].got
    /\ sockets' = [sockets EXCEPT ![k].taken = @ + 1, ![k].running = ~Over]
    /\ responses' = IF Over THEN responses
                    ELSE Append(responses, [sock |-> k, n |-> sockets[k].taken + 1])
    /\ UNCHANGED <<fromClient, clientSent, task, sessions, answered, forwarded, udpClock>>

(* Mutant: the token is only looked at when there is a datagram. *)
RecvCancelledLate(k) ==
    /\ sockets[k].running /\ sockets[k].cancelled /\ sockets[k].taken < sockets[k].got
    /\ sockets' = [sockets EXCEPT ![k].running = FALSE]
    /\ UNCHANGED <<fromClient, clientSent, task, sessions, responses, answered, forwarded,
                   udpClock>>

RecvCancelled(k) ==
    /\ sockets[k].running /\ sockets[k].cancelled
    /\ sockets' = [sockets EXCEPT ![k].running = FALSE]
    /\ UNCHANGED <<fromClient, clientSent, task, sessions, responses, answered, forwarded,
                   udpClock>>

(* recv_from fails: the task ends, its session stays in the table. *)
RecvFails(k) ==
    /\ sockets[k].running
    /\ sockets' = [sockets EXCEPT ![k].running = FALSE]
    /\ UNCHANGED <<fromClient, clientSent, task, sessions, responses, answered, forwarded,
                   udpClock>>

(***************************************************************************)
(* The routing task.                                                       *)
(***************************************************************************)
CleanupDue == now - lastCleanup >= CleanupInterval
IdleDests == {d \in Live : CleanupDue /\ now - sessions[d].last > AssocTimeout}
CancelSockets(ds) ==
    [k \in DOMAIN sockets |->
        [sockets[k] EXCEPT !.cancelled = @ \/ \E d \in ds : sessions[d].sock = k]]
Without(ds) == [d \in Dests |-> IF d \in ds THEN NoSession ELSE sessions[d]]

(* Mutant: the idle session is removed, its token not cancelled. *)
CleanupForgets ==
    /\ task.pc = "top" /\ task' = At("select")
    /\ sessions' = Without(IdleDests)
    /\ lastCleanup' = IF CleanupDue THEN now ELSE lastCleanup
    /\ UNCHANGED <<fromClient, clientSent, sockets, responses, answered, forwarded, now>>

Cleanup ==
    /\ task.pc = "top" /\ task' = At("select")
    /\ sessions' = Without(IdleDests) /\ sockets' = CancelSockets(IdleDests)
    /\ lastCleanup' = IF CleanupDue THEN now ELSE lastCleanup
    /\ UNCHANGED <<fromClient, clientSent, responses, answered, forwarded, now>>

(* The first branch of select!: an answer, but only if there is a session. *)
HasAnswer == Live # {} /\ responses # <<>>

TakeAnswer ==
    /\ task.pc = "select" /\ HasAnswer
    /\ task' = [pc |-> "write", answer |-> Head(responses)]
    /\ responses' = Tail(responses)
    /\ UNCHANGED <<fromClient, clientSent, sessions, sockets, answered, forwarded, udpClock>>

(* write_sourced_message has written and flushed the answer. *)
WriteAnswer ==
    /\ task.pc = "write" /\ task' = At("top")
    /\ answered' = Append(answered, task.answer)
    /\ UNCHANGED <<fromClient, clientSent, sessions, sockets, responses, forwarded, udpClock>>

WriteFails ==
    /\ task.pc = "write" /\ task' = At("drain")
    /\ UNCHANGED <<fromClient, clientSent, sessions, sockets, responses, answered, forwarded,
                   udpClock>>

(* The second branch: a packet of the client, or its end. *)
ReadPacket ==
    /\ task.pc = "select" /\ ~HasAnswer /\ fromClient # <<>>
    /\ fromClient' = Tail(fromClient)
    /\ task' = IF Head(fromClient) = Closed THEN At("drain")
               ELSE [pc |-> "resolve", packet |-> Head(fromClient)]
    /\ UNCHANGED <<clientSent, sessions, sockets, responses, answered, forwarded, udpClock>>

ResolveFails ==
    /\ task.pc = "resolve" /\ task' = At("top")
    /\ UNCHANGED <<fromClient, clientSent, sessions, sockets, responses, answered, forwarded,
                   udpClock>>

NewSocket == [cancelled |-> FALSE, running |-> TRUE, got |-> 0, taken |-> 0]

(* Mutant: an existing session is used without touching it. *)
FindSessionStale(fits) ==
    /\ task.pc = "resolve" /\ (fits \/ task.packet.dest \in Live)
    /\ LET d == task.packet.dest
           k == IF d \in Live THEN sessions[d].sock ELSE Len(sockets) + 1
       IN  /\ sockets' = IF d \in Live THEN sockets ELSE Append(sockets, NewSocket)
           /\ sessions' = IF d \in Live THEN sessions
                          ELSE [sessions EXCEPT ![d] = [sock |-> k, last |-> now]]
    /\ task' = [pc |-> "send", packet |-> task.packet, fits |-> fits, at |-> now]
    /\ UNCHANGED <<fromClient, clientSent, responses, answered, forwarded, udpClock>>

(* The destination has a session, or gets one; fits: the address it resolved to is of  *)
(* the family of the session's socket.                                                 *)
FindSession(fits) ==
    /\ task.pc = "resolve" /\ (fits \/ task.packet.dest \in Live)
    /\ LET d == task.packet.dest
           k == IF d \in Live THEN sessions[d].sock ELSE Len(sockets) + 1
       IN  /\ sockets' = IF d \in Live THEN sockets ELSE Append(sockets, NewSocket)
           /\ sessions' = [sessions EXCEPT ![d] = [sock |-> k, last |-> now]]
    /\ task' = [pc |-> "send", packet |-> task.packet, fits |-> fits, at |-> now]
    /\ UNCHANGED <<fromClient, clientSent, responses, answered, forwarded, udpClock>>

(* create_session fails. *)
NoSocket ==
    /\ task.pc = "resolve" /\ task.packet.dest \notin Live
    /\ task' = At("top")
    /\ UNCHANGED <<fromClient, clientSent, sessions, sockets, responses, answered, forwarded,
                   udpClock>>

(* Mutant: the packet is sent from the socket created last. *)
SendPacketLast ==
    /\ task.pc = "send" /\ task' = At("top")
    /\ forwarded' = IF ~task.fits THEN forwarded
                    ELSE Append(forwarded, [sock |-> Len(sockets), packet |-> task.packet,
                                            at |-> task.at])
    /\ UNCHANGED <<fromClient, clientSent, sessions, sockets, responses, answered, udpClock>>

(* send_to, whose error is ignored: a socket sends only to addresses of its family. *)
SendPacket ==
    /\ task.pc = "send" /\ task' = At("top")
    /\ LET k == sessions[task.packet.dest].sock
       IN  forwarded' = IF ~task.fits THEN forwarded
                        ELSE Append(forwarded, [sock |-> k, packet |-> task.packet, at |-> task.at])
    /\ UNCHANGED <<fromClient, clientSent, sessions, sockets, responses, answered, udpClock>>

Drain ==
    /\ task.pc = "drain" /\ task' = At("shutdown")
    /\ sessions' = Without(Live) /\ sockets' = CancelSockets(Live)
    /\ UNCHANGED <<fromClient, clientSent, responses, answered, forwarded, udpClock>>

(* shutdown_message is done, or has failed; the channel is dropped. *)
RoutingEnds ==
    /\ task.pc = "shutdown" /\ task' = At("ended")
    /\ responses' = <<>>
    /\ UNCHANGED <<fromClient, clientSent, sessions, sockets, answered, forwarded, udpClock>>

(* The AnyTLS session closes and aborts the task, at an await: the table and the       *)
(* channel are dropped, and the tokens with them, which does not cancel them.          *)
RoutingAborted ==
    /\ task.pc \in {"select", "write", "resolve", "send", "shutdown"}
    /\ task' = At("aborted")
    /\ sessions' = Without(Live) /\ responses' = <<>>
    /\ UNCHANGED <<fromClient, clientSent, sockets, answered, forwarded, udpClock>>

RecvTask(k) == Recv(k) \/ RecvCancelled(k)

RoutingStep ==
    \/ Cleanup \/ TakeAnswer \/ WriteAnswer \/ ReadPacket
    \/ \E fits \in BOOLEAN : FindSession(fits)
    \/ SendPacket \/ Drain \/ RoutingEnds

RoutingNext ==
    \/ \E d \in Dests : ClientSends(d)
    \/ ClientCloses \/ UdpTick \/ RoutingStep
    \/ WriteFails \/ ResolveFails \/ NoSocket \/ RoutingAborted
    \/ \E k \in DOMAIN sockets : AnswerArrives(k) \/ RecvTask(k) \/ RecvFails(k)

(* The tasks run when they can; the client reads what is written to it. *)
RoutingFair ==
    /\ WF_routingVars(RoutingStep)
    /\ \A k \in 1 .. MaxSent : WF_routingVars(k \in DOMAIN sockets /\ RecvTask(k))

RoutingSpec == RoutingInit /\ [][RoutingNext]_routingVars /\ RoutingFair

(***************************************************************************)
(* Properties.                                                             *)
(***************************************************************************)

(* The packets that reach destinations are sent in the client's order, each at most    *)
(* once, from the socket of its own destination: the socket that later packets to it   *)
(* use, as long as its session lives.                                                  *)
ForwardedInOrder ==
    \A i, j \in DOMAIN forwarded :
        i < j => /\ forwarded[i].packet.n < forwarded[j].packet.n
                 /\ forwarded[i].sock = forwarded[j].sock =>
                        forwarded[i].packet.dest = forwarded[j].packet.dest

(* The answers of a socket reach the client in the order in which it got them, none    *)
(* missing and none twice: through its task, the channel and the client's stream,      *)
(* also when its session was removed, or the table was empty, meanwhile.               *)
InHand == IF task.pc = "write" THEN <<task.answer>> ELSE <<>>
InTurn(seq) ==
    \A i \in DOMAIN seq :
        /\ \A j \in 1 .. i - 1 : seq[j] # seq[i]
        /\ \A m \in 1 .. seq[i].n - 1 :
               \E j \in 1 .. i - 1 : seq[j] = [sock |-> seq[i].sock, n |-> m]
AnswersInOrder ==
    /\ InTurn(answered)
    /\ task.pc \in {"top", "select", "write", "resolve", "send"} =>
           LET given == answered \o InHand \o responses
           IN  /\ InTurn(given)
               /\ \A k \in DOMAIN sockets :
                      {a \in {given[i] : i \in DOMAIN given} : a.sock = k}
                          = {[sock |-> k, n |-> m] : m \in 1 .. sockets[k].taken}

(* A socket whose token is not cancelled belongs to a session in the table, as long as *)
(* the task was not aborted: no cleanup and no end of the loop leaves one behind.  A   *)
(* session in the table has a token that is not cancelled.                             *)
SocketsAreOwned ==
    \A k \in DOMAIN sockets :
        LET owned == \E d \in Live : sessions[d].sock = k
        IN  /\ owned => ~sockets[k].cancelled
            /\ task.pc # "aborted" /\ ~sockets[k].cancelled => owned

(* A session keeps its socket, and is removed only when the task ends or when no       *)
(* packet was forwarded to its destination for more than ASSOCIATION_TIMEOUT.          *)
SentRecently(d) ==
    \E i \in DOMAIN forwarded :
        forwarded[i].packet.dest = d /\ now - forwarded[i].at <= AssocTimeout
OnlyIdleRemoved ==
    [][\A d \in Live :
           \/ task'.pc \in {"shutdown", "aborted"}
           \/ sessions'[d] # NoSession /\ sessions'[d].sock = sessions[d].sock
           \/ sessions'[d] = NoSession /\ ~SentRecently(d)]_routingVars

(* When the routing task has returned, every receive task ends, whatever arrives; when *)
(* it was aborted, one ends with the next datagram of its socket.                      *)
RecvTasksEnd ==
    /\ (task.pc = "ended") ~> (\A k \in DOMAIN sockets : ~sockets[k].running)
    /\ \A k \in 1 .. MaxSent :
           (task.pc = "aborted" /\ k \in DOMAIN sockets /\ sockets[k].taken < sockets[k].got)
               ~> (k \in DOMAIN sockets /\ ~sockets[k].running)
=============================================================================
