-------------------------- MODULE Forwarding_proofs --------------------------
(***************************************************************************)
(* What is forwarded: packets, by the routing of UDP to many destinations   *)
(* (UdpRouting), and bytes, by one direction of the relay (CopyBuffer),     *)
(* which is a bounded byte pipe for every buffer size.                      *)
(***************************************************************************)
EXTENDS UdpRouting, CopyBuffer, TLAPS

(***************************************************************************)
(* Types of the routing task's state.                                      *)
(***************************************************************************)
PacketType == [dest : Dests, n : Nat]
AnswerType == [sock : Nat, n : Nat]
SocketType == [cancelled : BOOLEAN, running : BOOLEAN, got : Nat, taken : Nat]
SessionType == [sock : Nat, last : Nat]
ForwardType == [sock : Nat, packet : PacketType, at : Nat]
TaskType ==
    [pc : {"top", "select", "drain", "shutdown", "ended", "aborted"}]
        \cup [pc : {"write"}, answer : AnswerType]
        \cup [pc : {"resolve"}, packet : PacketType]
        \cup [pc : {"send"}, packet : PacketType, fits : BOOLEAN, at : Nat]

RoutingTypeOK ==
    /\ fromClient \in Seq(PacketType \cup {Closed}) /\ clientSent \in Nat
    /\ task \in TaskType
    /\ sessions \in [Dests -> SessionType \cup {NoSession}]
    /\ sockets \in Seq(SocketType)
    /\ responses \in Seq(AnswerType) /\ answered \in Seq(AnswerType)
    /\ forwarded \in Seq(ForwardType)
    /\ now \in Nat /\ lastCleanup \in Nat
    /\ task.pc = "send" => task.packet.dest \in Live

(* The packets of the client's stream are numbered upwards: those forwarded, the one in *)
(* hand, those not read yet.                                                            *)
HasPacket == task.pc \in {"resolve", "send"}
PacketsInOrder ==
    /\ \A i, j \in DOMAIN forwarded : i < j => forwarded[i].packet.n < forwarded[j].packet.n
    /\ HasPacket => \A i \in DOMAIN forwarded : forwarded[i].packet.n < task.packet.n
    /\ \A i, j \in DOMAIN fromClient :
          i < j /\ fromClient[j] # Closed => fromClient[i].n < fromClient[j].n
    /\ \A j \in DOMAIN fromClient : fromClient[j] # Closed =>
          /\ \A i \in DOMAIN forwarded : forwarded[i].packet.n < fromClient[j].n
          /\ HasPacket => task.packet.n < fromClient[j].n
    /\ clientSent <= MaxSent =>
          /\ \A i \in DOMAIN forwarded : forwarded[i].packet.n <= clientSent
          /\ HasPacket => task.packet.n <= clientSent
          /\ \A j \in DOMAIN fromClient : fromClient[j].n <= clientSent

(* Each session has a socket of its own, and used no other. *)
OwnSockets ==
    /\ \A i \in DOMAIN forwarded : forwarded[i].sock \in DOMAIN sockets
    /\ \A i, j \in DOMAIN forwarded :
          forwarded[i].sock = forwarded[j].sock => forwarded[i].packet.dest = forwarded[j].packet.dest
    /\ \A d \in Live :
          /\ sessions[d].sock \in DOMAIN sockets
          /\ \A e \in Live : sessions[d].sock = sessions[e].sock => d = e
          /\ \A i \in DOMAIN forwarded :
                sessions[d].sock = forwarded[i].sock => d = forwarded[i].packet.dest

(* A session's last activity is no earlier than the packets sent to its destination. *)
LastIsLatest ==
    /\ \A i \in DOMAIN forwarded : forwarded[i].at <= now
    /\ \A d \in Live : \A i \in DOMAIN forwarded :
          forwarded[i].packet.dest = d => forwarded[i].at <= sessions[d].last
    /\ task.pc = "send" => task.at <= now /\ task.at <= sessions[task.packet.dest].last

(* Every answer that the receive tasks took is written, in hand or queued, once and in turn. *)
Serving == task.pc \in {"top", "select", "write", "resolve", "send"}
Given == (answered \o InHand) \o responses
AllGiven ==
    Serving =>
        /\ InTurn(Given)
        /\ \A i \in DOMAIN Given :
              /\ Given[i].sock \in DOMAIN sockets
              /\ Given[i].n \in 1 .. sockets[Given[i].sock].taken
        /\ \A k \in DOMAIN sockets : \A m \in 1 .. sockets[k].taken :
              \E i \in DOMAIN Given : Given[i] = [sock |-> k, n |-> m]

RoutingInv ==
    /\ RoutingTypeOK /\ PacketsInOrder /\ OwnSockets /\ SocketsAreOwned /\ LastIsLatest
    /\ InTurn(answered) /\ AllGiven

LEMMA RoutingInvInit == RoutingInit => RoutingInv
  BY RoutingAssumption DEF RoutingInit, RoutingInv, RoutingTypeOK, PacketsInOrder, OwnSockets,
     SocketsAreOwned, LastIsLatest, AllGiven, InTurn, Given, InHand, At, TaskType, Live,
     HasPacket

(* A change of sockets in place keeps their sequence. *)
LEMMA SocketsInPlace ==
  ASSUME sockets \in Seq(SocketType), NEW f, f = [k \in DOMAIN sockets |-> f[k]],
         \A k \in DOMAIN sockets : f[k] \in SocketType
  PROVE  f \in Seq(SocketType) /\ Len(f) = Len(sockets) /\ DOMAIN f = DOMAIN sockets
  <1>1. DOMAIN sockets = 1 .. Len(sockets) /\ Len(sockets) \in Nat
    OBVIOUS
  <1>2. f \in [1 .. Len(sockets) -> SocketType]
    BY <1>1, Zenon
  <1> QED
    BY <1>1, <1>2

LEMMA CancelSocketsType ==
  ASSUME RoutingTypeOK, NEW ds
  PROVE  /\ CancelSockets(ds) \in Seq(SocketType)
         /\ DOMAIN CancelSockets(ds) = DOMAIN sockets
         /\ \A k \in DOMAIN sockets :
               /\ CancelSockets(ds)[k].taken = sockets[k].taken
               /\ CancelSockets(ds)[k].cancelled
                      = (sockets[k].cancelled \/ \E d \in ds : sessions[d].sock = k)
  <1> DEFINE f == CancelSockets(ds)
  <1>1. \A k \in DOMAIN sockets : sockets[k] \in SocketType
    BY DEF RoutingTypeOK
  <1>2. ASSUME NEW k \in DOMAIN sockets
        PROVE  /\ f[k] \in SocketType /\ f[k].taken = sockets[k].taken
               /\ f[k].cancelled = (sockets[k].cancelled \/ \E d \in ds : sessions[d].sock = k)
    <2>1. PICK b \in BOOLEAN : b = (sockets[k].cancelled \/ \E d \in ds : sessions[d].sock = k)
      BY Zenon
    <2>2. f[k] = [sockets[k] EXCEPT !.cancelled = b]
      BY <2>1, Zenon DEF CancelSockets
    <2> HIDE DEF f
    <2>3. f[k] \in SocketType /\ f[k].taken = sockets[k].taken /\ f[k].cancelled = b
      BY <1>1, <2>2, Zenon DEF SocketType
    <2> QED
      BY <2>1, <2>3, Zenon
  <1>3. f = [k \in DOMAIN sockets |-> f[k]]
    BY Zenon DEF CancelSockets
  <1>4. f \in Seq(SocketType) /\ DOMAIN f = DOMAIN sockets
    <2> HIDE DEF f
    <2> QED
      BY <1>2, <1>3, SocketsInPlace, Zenon DEF RoutingTypeOK
  <1> QED
    BY <1>2, <1>4, Zenon

LEMMA RecvType ==
  ASSUME RoutingTypeOK, NEW k \in DOMAIN sockets, AnswerArrives(k) \/ RecvTask(k) \/ RecvFails(k)
  PROVE  /\ RoutingTypeOK'
         /\ DOMAIN sockets' = DOMAIN sockets
         /\ \A j \in DOMAIN sockets : sockets'[j].cancelled = sockets[j].cancelled
         /\ \A j \in DOMAIN sockets : j # k => sockets'[j] = sockets[j]
  <1>1. sockets[k] \in SocketType /\ k \in Nat
    BY DEF RoutingTypeOK
  <1> DEFINE a == [sock |-> k, n |-> sockets[k].taken + 1]
  <1>2. a \in AnswerType
    BY <1>1 DEF SocketType, AnswerType
  <1>3. responses' = responses \/ responses' = Append(responses, a)
    BY Zenon DEF AnswerArrives, RecvTask, Recv, RecvCancelled, RecvFails
  <1> HIDE DEF a
  <1>4. responses' \in Seq(AnswerType)
    <2>1. responses \in Seq(AnswerType)
      BY Zenon DEF RoutingTypeOK
    <2>2. Append(responses, a) \in Seq(AnswerType)
      BY <1>2, <2>1
    <2> QED
      BY <1>3, <2>1, <2>2, Zenon
  <1>5. UNCHANGED <<fromClient, clientSent, task, sessions, answered, forwarded, udpClock>>
    BY Zenon DEF AnswerArrives, RecvTask, Recv, RecvCancelled, RecvFails
  <1>6. PICK b \in BOOLEAN : b = ~Over
    BY Zenon
  <1>7. \/ sockets' = [sockets EXCEPT ![k].got = @ + 1]
        \/ sockets' = [sockets EXCEPT ![k].taken = @ + 1, ![k].running = b]
        \/ sockets' = [sockets EXCEPT ![k].running = FALSE]
    BY <1>6, Zenon DEF AnswerArrives, RecvTask, Recv, RecvCancelled, RecvFails
  <1>8. PICK x \in SocketType : sockets' = [sockets EXCEPT ![k] = x] /\ x.cancelled = sockets[k].cancelled
    <2>1. CASE sockets' = [sockets EXCEPT ![k].got = @ + 1]
      <3> DEFINE x == [sockets[k] EXCEPT !.got = @ + 1]
      <3>1. x \in SocketType /\ x.cancelled = sockets[k].cancelled
        BY <1>1 DEF SocketType
      <3>2. sockets' = [sockets EXCEPT ![k] = x]
        BY <2>1, Zenon
      <3> QED
        BY <3>1, <3>2, Zenon
    <2>2. CASE sockets' = [sockets EXCEPT ![k].taken = @ + 1, ![k].running = b]
      <3> DEFINE y == [sockets[k] EXCEPT !.taken = @ + 1]
                 x == [y EXCEPT !.running = b]
      <3>a. y \in SocketType /\ y.cancelled = sockets[k].cancelled
        BY <1>1 DEF SocketType
      <3>1. x \in SocketType /\ x.cancelled = sockets[k].cancelled
        <4> HIDE DEF y
        <4> QED
          BY <3>a, Zenon DEF SocketType
      <3>2. sockets' = [sockets EXCEPT ![k] = x]
        BY <2>2, Zenon
      <3> QED
        BY <3>1, <3>2, Zenon
    <2>3. CASE sockets' = [sockets EXCEPT ![k].running = FALSE]
      <3> DEFINE x == [sockets[k] EXCEPT !.running = FALSE]
      <3>1. x \in SocketType /\ x.cancelled = sockets[k].cancelled
        BY <1>1, Zenon DEF SocketType
      <3>2. sockets' = [sockets EXCEPT ![k] = x]
        BY <2>3, Zenon
      <3> QED
        BY <3>1, <3>2, Zenon
    <2> QED
      BY <1>7, <2>1, <2>2, <2>3, Zenon
  <1>9. sockets' \in Seq(SocketType)
    BY <1>8 DEF RoutingTypeOK
  <1>10. RoutingTypeOK'
    BY <1>4, <1>5, <1>9, Zenon DEF RoutingTypeOK, udpClock, Live
  <1> QED
    BY <1>8, <1>10, Zenon DEF RoutingTypeOK

LEMMA RoutingTypeNext == RoutingTypeOK /\ [RoutingNext]_routingVars => RoutingTypeOK'
  <1> SUFFICES ASSUME RoutingTypeOK, [RoutingNext]_routingVars PROVE RoutingTypeOK'
    BY Zenon
  <1> USE DEF RoutingTypeOK, TaskType, At, udpClock, Live
  <1>1. ASSUME NEW d \in Dests, ClientSends(d) PROVE RoutingTypeOK'
    BY <1>1 DEF ClientSends, PacketType
  <1>2. CASE ClientCloses
    BY <1>2, RoutingAssumption DEF ClientCloses
  <1>3. CASE UdpTick
    BY <1>3 DEF UdpTick
  <1>4. CASE Cleanup
    BY <1>4, CancelSocketsType, Zenon DEF Cleanup, Without
  <1>5. CASE TakeAnswer
    BY <1>5 DEF TakeAnswer, HasAnswer
  <1>6. CASE WriteAnswer
    BY <1>6 DEF WriteAnswer
  <1>7. CASE WriteFails \/ ResolveFails \/ NoSocket
    BY <1>7, SMTT(30) DEF WriteFails, ResolveFails, NoSocket
  <1>8. CASE ReadPacket
    BY <1>8 DEF ReadPacket
  <1>9. ASSUME NEW fits \in BOOLEAN, FindSession(fits) PROVE RoutingTypeOK'
    <2>1. task.packet \in PacketType /\ task.packet.dest \in Dests
      BY <1>9, Zenon DEF FindSession, PacketType
    <2>2. task' \in TaskType
      BY <1>9, <2>1, Zenon DEF FindSession
    <2>3. NewSocket \in SocketType
      BY Zenon DEF NewSocket, SocketType
    <2>4. sockets' \in Seq(SocketType)
      BY <1>9, <2>3 DEF FindSession
    <2>5. Len(sockets) + 1 \in Nat
      OBVIOUS
    <2>6. task.packet.dest \in Live => sessions[task.packet.dest].sock \in Nat
      BY <2>1, Zenon DEF SessionType
    <2> DEFINE k == IF task.packet.dest \in Live THEN sessions[task.packet.dest].sock
                    ELSE Len(sockets) + 1
    <2>7. PICK x \in SessionType : sessions' = [sessions EXCEPT ![task.packet.dest] = x]
      <3>1. [sock |-> k, last |-> now] \in SessionType
        BY <2>5, <2>6, Zenon DEF SessionType
      <3>2. sessions' = [sessions EXCEPT ![task.packet.dest] = [sock |-> k, last |-> now]]
        BY <1>9, Zenon DEF FindSession
      <3> QED
        BY <3>1, <3>2, Zenon
    <2> HIDE DEF k
    <2>8. sessions' \in [Dests -> SessionType \cup {NoSession}]
      BY <2>1, <2>7, Zenon
    <2>9. x # NoSession
      BY RoutingAssumption, Zenon DEF SessionType
    <2>10. task'.packet.dest \in Live'
      BY <1>9, <2>1, <2>7, <2>9, Zenon DEF FindSession
    <2> QED
      BY <1>9, <2>2, <2>4, <2>8, <2>10, Zenon DEF FindSession
  <1>10. CASE SendPacket
    <2>1. task.packet \in PacketType /\ task.packet.dest \in Dests
      BY <1>10, Zenon DEF SendPacket, PacketType
    <2>2. sessions[task.packet.dest] \in SessionType /\ task.at \in Nat
      BY <1>10, <2>1, Zenon DEF SendPacket
    <2>3. [sock |-> sessions[task.packet.dest].sock, packet |-> task.packet, at |-> task.at]
              \in ForwardType
      BY <2>1, <2>2, Zenon DEF SessionType, ForwardType
    <2>4. forwarded' \in Seq(ForwardType)
      BY <1>10, <2>3 DEF SendPacket
    <2> QED
      BY <1>10, <2>4, Zenon DEF SendPacket
  <1>11. CASE Drain \/ RoutingEnds \/ RoutingAborted
    <2>1. CASE Drain
      BY <2>1, CancelSocketsType, Zenon DEF Drain, Without
    <2>2. CASE RoutingEnds
      <3>1. responses' \in Seq(AnswerType)
        BY <2>2 DEF RoutingEnds
      <3> QED
        BY <2>2, <3>1, Zenon DEF RoutingEnds
    <2>3. CASE RoutingAborted
      <3>1. responses' \in Seq(AnswerType)
        BY <2>3 DEF RoutingAborted
      <3> QED
        BY <2>3, <3>1, Zenon DEF RoutingAborted, Without
    <2> QED
      BY <1>11, <2>1, <2>2, <2>3, Zenon
  <1>12. CASE UNCHANGED routingVars
    BY <1>12, Zenon DEF routingVars
  <1> QED
    BY <1>1, <1>2, <1>3, <1>4, <1>5, <1>6, <1>7, <1>8, <1>9, <1>10, <1>11, <1>12, RecvType,
       Zenon
    DEF RoutingNext, RoutingStep

(* The actions that neither read nor send a packet. *)
LEMMA OtherActions ==
  ASSUME RoutingTypeOK, [RoutingNext]_routingVars,
         ~\E d \in Dests : ClientSends(d), ~ClientCloses, ~ReadPacket,
         ~\E fits \in BOOLEAN : FindSession(fits), ~SendPacket
  PROVE  /\ UNCHANGED <<fromClient, clientSent, forwarded>>
         /\ task' = task \/ ~HasPacket'
  <1>1. CASE UdpTick \/ \E k \in DOMAIN sockets : AnswerArrives(k) \/ RecvTask(k) \/ RecvFails(k)
    BY <1>1, Zenon DEF UdpTick, AnswerArrives, RecvTask, Recv, RecvCancelled, RecvFails
  <1>2. CASE Cleanup \/ TakeAnswer \/ WriteAnswer \/ WriteFails \/ ResolveFails \/ NoSocket
    BY <1>2 DEF Cleanup, TakeAnswer, WriteAnswer, WriteFails, ResolveFails, NoSocket, At,
       HasPacket
  <1>3. CASE Drain \/ RoutingEnds \/ RoutingAborted
    BY <1>3 DEF Drain, RoutingEnds, RoutingAborted, At, HasPacket
  <1>4. CASE UNCHANGED routingVars
    BY <1>4, Zenon DEF routingVars
  <1> QED
    BY <1>1, <1>2, <1>3, <1>4, Zenon DEF RoutingNext, RoutingStep

LEMMA PacketsInOrderNext ==
  ASSUME RoutingTypeOK, PacketsInOrder, [RoutingNext]_routingVars
  PROVE  PacketsInOrder'
  <1> USE DEF PacketsInOrder, HasPacket
  <1>1. /\ fromClient \in Seq(PacketType \cup {Closed}) /\ clientSent \in Nat
        /\ forwarded \in Seq(ForwardType)
        /\ \A j \in DOMAIN fromClient : fromClient[j].n \in Nat
        /\ \A i \in DOMAIN forwarded : forwarded[i].packet.n \in Nat
        /\ HasPacket => task.packet.n \in Nat
    <2>1. \A q \in PacketType \cup {Closed} : q.n \in Nat
      <3>1. \A q \in PacketType : q.n \in Nat
        BY Zenon DEF PacketType
      <3>2. Closed.n \in Nat
        BY Zenon DEF Closed
      <3> QED
        BY <3>1, <3>2, Zenon
    <2>2. \A f \in ForwardType : f.packet \in PacketType
      BY Zenon DEF ForwardType
    <2>3. HasPacket => task.packet \in PacketType
      BY Zenon DEF RoutingTypeOK, TaskType
    <2> QED
      BY <2>1, <2>2, <2>3 DEF RoutingTypeOK
  <1>2. ASSUME NEW d \in Dests, ClientSends(d) PROVE PacketsInOrder'
    <2> DEFINE p == [dest |-> d, n |-> clientSent + 1]
    <2>1. p.n = clientSent + 1 /\ clientSent < MaxSent
      BY <1>2, Zenon DEF ClientSends
    <2>2. /\ fromClient' = Append(fromClient, p) /\ clientSent' = clientSent + 1
          /\ UNCHANGED <<task, forwarded>>
      BY <1>2, Zenon DEF ClientSends
    <2> HIDE DEF p
    <2>3. /\ DOMAIN fromClient' = DOMAIN fromClient \cup {Len(fromClient) + 1}
          /\ \A j \in DOMAIN fromClient : fromClient'[j] = fromClient[j] /\ j < Len(fromClient) + 1
          /\ fromClient'[Len(fromClient) + 1] = p
      BY <1>1, <2>2
    <2>4. /\ clientSent <= MaxSent
          /\ \A i \in DOMAIN forwarded : forwarded[i].packet.n < p.n
          /\ HasPacket => task.packet.n < p.n
          /\ \A j \in DOMAIN fromClient : fromClient[j].n < p.n
      BY <1>1, <2>1, RoutingAssumption
    <2>5. \A i, j \in DOMAIN fromClient' :
             i < j /\ fromClient'[j] # Closed => fromClient'[i].n < fromClient'[j].n
      BY <1>1, <2>3, <2>4
    <2>6. \A j \in DOMAIN fromClient' : fromClient'[j] # Closed =>
             /\ \A i \in DOMAIN forwarded : forwarded[i].packet.n < fromClient'[j].n
             /\ HasPacket => task.packet.n < fromClient'[j].n
      BY <2>3, <2>4, Zenon
    <2>7. /\ \A i \in DOMAIN forwarded : forwarded[i].packet.n <= clientSent'
          /\ HasPacket => task.packet.n <= clientSent'
          /\ \A j \in DOMAIN fromClient' : fromClient'[j].n <= clientSent'
      BY <1>1, <2>1, <2>2, <2>3, <2>4
    <2> QED
      BY <2>2, <2>5, <2>6, <2>7, Zenon
  <1>3. CASE ClientCloses
    <2>1. /\ fromClient' = Append(fromClient, Closed) /\ clientSent' > MaxSent
          /\ clientSent' \in Nat /\ UNCHANGED <<task, forwarded>>
      BY <1>1, <1>3, RoutingAssumption DEF ClientCloses
    <2>2. /\ DOMAIN fromClient' = DOMAIN fromClient \cup {Len(fromClient) + 1}
          /\ \A j \in DOMAIN fromClient : fromClient'[j] = fromClient[j] /\ j < Len(fromClient) + 1
          /\ fromClient'[Len(fromClient) + 1] = Closed
      BY <1>1, <2>1
    <2> QED
      BY <1>1, <2>1, <2>2, RoutingAssumption
  <1>4. CASE ReadPacket
    <2>1. /\ fromClient # <<>> /\ fromClient' = Tail(fromClient)
          /\ UNCHANGED <<clientSent, forwarded>>
      BY <1>4, Zenon DEF ReadPacket
    <2>2. /\ 1 \in DOMAIN fromClient
          /\ \A j \in DOMAIN fromClient' :
                j + 1 \in DOMAIN fromClient /\ fromClient'[j] = fromClient[j + 1] /\ 1 < j + 1
      BY <1>1, <2>1
    <2>3. \A i, j \in DOMAIN fromClient' : i < j => i + 1 < j + 1
      BY <1>1, <2>1
    <2>4. HasPacket' => fromClient[1] # Closed /\ task'.packet = fromClient[1]
      BY <1>4 DEF ReadPacket, At
    <2> QED
      BY <1>1, <2>1, <2>2, <2>3, <2>4
  <1>5. ASSUME NEW fits \in BOOLEAN, FindSession(fits) PROVE PacketsInOrder'
    BY <1>5, Zenon DEF FindSession
  <1>6. CASE SendPacket
    <2>1. task.pc = "send" /\ ~HasPacket' /\ UNCHANGED <<fromClient, clientSent>>
      BY <1>6, Zenon DEF SendPacket, At
    <2>2. CASE forwarded' = forwarded
      BY <2>1, <2>2, Zenon
    <2>3. CASE forwarded' # forwarded
      <3>1. PICK f : forwarded' = Append(forwarded, f) /\ f.packet = task.packet
        BY <1>6, <2>3 DEF SendPacket
      <3>2. /\ DOMAIN forwarded' = DOMAIN forwarded \cup {Len(forwarded) + 1}
            /\ \A j \in DOMAIN forwarded : forwarded'[j] = forwarded[j] /\ j < Len(forwarded) + 1
            /\ forwarded'[Len(forwarded) + 1].packet = task.packet
        BY <1>1, <3>1
      <3> QED
        BY <1>1, <2>1, <3>2, SMTT(30)
    <2> QED
      BY <2>2, <2>3, Zenon
  <1> QED
    BY <1>2, <1>3, <1>4, <1>5, <1>6, OtherActions, Zenon

(* What happens to the table and the sockets, action by action. *)
LEMMA TableSteps ==
  ASSUME RoutingTypeOK, [RoutingNext]_routingVars
  PROVE  \/ \E fits \in BOOLEAN : FindSession(fits)
         \/ SendPacket
         \/ /\ UNCHANGED forwarded
            /\ task'.pc = "send" => task' = task
            /\ task.pc = "aborted" => task'.pc = "aborted"
            /\ \/ UNCHANGED sessions /\ (task'.pc = "aborted" => task.pc = "aborted")
               \/ Cleanup \/ Drain \/ RoutingAborted
            /\ \/ Cleanup \/ Drain
               \/ /\ DOMAIN sockets' = DOMAIN sockets
                  /\ \A k \in DOMAIN sockets : sockets'[k].cancelled = sockets[k].cancelled
  <1>1. ASSUME NEW k \in DOMAIN sockets, AnswerArrives(k) \/ RecvTask(k) \/ RecvFails(k)
        PROVE  /\ UNCHANGED <<sessions, forwarded, task>>
               /\ DOMAIN sockets' = DOMAIN sockets
               /\ \A j \in DOMAIN sockets : sockets'[j].cancelled = sockets[j].cancelled
    <2>1. UNCHANGED <<sessions, forwarded, task>>
      BY <1>1, Zenon DEF AnswerArrives, RecvTask, Recv, RecvCancelled, RecvFails
    <2> QED
      BY <1>1, <2>1, RecvType, Zenon
  <1>2. CASE (\E d \in Dests : ClientSends(d)) \/ ClientCloses \/ UdpTick
    BY <1>2, Zenon DEF ClientSends, ClientCloses, UdpTick
  <1>3. CASE TakeAnswer \/ WriteAnswer \/ WriteFails \/ ResolveFails \/ NoSocket
    BY <1>3 DEF TakeAnswer, WriteAnswer, WriteFails, ResolveFails, NoSocket, At
  <1>4. CASE ReadPacket
    BY <1>4, Zenon DEF ReadPacket, At
  <1>5. CASE Cleanup \/ Drain \/ RoutingAborted
    BY <1>5 DEF Cleanup, Drain, RoutingAborted, At
  <1>6. CASE RoutingEnds
    BY <1>6, Zenon DEF RoutingEnds, At
  <1>7. CASE UNCHANGED routingVars
    BY <1>7, Zenon DEF routingVars
  <1> QED
    BY <1>1, <1>2, <1>3, <1>4, <1>5, <1>6, <1>7, Zenon DEF RoutingNext, RoutingStep

(* The sessions that stay in the table keep what they had. *)
LEMMA TableShrinks ==
  ASSUME RoutingTypeOK, Cleanup \/ Drain \/ RoutingAborted
  PROVE  /\ DOMAIN sockets' = DOMAIN sockets /\ UNCHANGED forwarded
         /\ Live' \subseteq Live
         /\ \A d \in Live' : sessions'[d] = sessions[d]
  BY CancelSocketsType, Zenon DEF Cleanup, Drain, RoutingAborted, Without, Live, RoutingTypeOK

(* FindSession gives the destination its session's socket, or a new one. *)
LEMMA SessionFound ==
  ASSUME RoutingTypeOK, NEW fits, FindSession(fits), NEW d, d = task.packet.dest
  PROVE  /\ d \in Dests /\ Live' = Live \cup {d}
         /\ \A e \in Live : e # d => sessions'[e] = sessions[e]
         /\ sessions'[d].last = now /\ sessions'[d] \in SessionType
         /\ \/ /\ d \in Live /\ UNCHANGED sockets
               /\ sessions'[d].sock = sessions[d].sock
            \/ /\ d \notin Live /\ sockets' = Append(sockets, NewSocket)
               /\ sessions'[d].sock = Len(sockets) + 1
  <1>1. task.packet \in PacketType /\ d \in Dests
    BY Zenon DEF RoutingTypeOK, TaskType, FindSession, PacketType
  <1> DEFINE k == IF d \in Live THEN sessions[d].sock ELSE Len(sockets) + 1
  <1>2. k \in Nat
    BY <1>1 DEF RoutingTypeOK, Live, SessionType
  <1>3. /\ sessions' = [sessions EXCEPT ![d] = [sock |-> k, last |-> now]]
        /\ sockets' = IF d \in Live THEN sockets ELSE Append(sockets, NewSocket)
    BY Zenon DEF FindSession
  <1>4. [sock |-> k, last |-> now] \in SessionType /\ [sock |-> k, last |-> now] # NoSession
    BY <1>2, RoutingAssumption DEF SessionType, RoutingTypeOK
  <1>5. sessions'[d] = [sock |-> k, last |-> now] /\ \A e \in Dests : e # d => sessions'[e] = sessions[e]
    BY <1>1, <1>3, Zenon DEF RoutingTypeOK
  <1>6. Live' = Live \cup {d}
    BY <1>1, <1>4, <1>5, Zenon DEF Live
  <1>7. sessions'[d].last = now /\ sessions'[d].sock = k
    BY <1>5
  <1> QED
    BY <1>1, <1>3, <1>4, <1>5, <1>6, <1>7, Zenon DEF Live

(* SendPacket sends from the socket of the destination's session. *)
LEMMA PacketSent ==
  ASSUME RoutingTypeOK, SendPacket
  PROVE  /\ task.packet.dest \in Live
         /\ UNCHANGED <<sessions, sockets, now>> /\ task'.pc = "top"
         /\ \/ UNCHANGED forwarded
            \/ /\ DOMAIN forwarded' = DOMAIN forwarded \cup {Len(forwarded) + 1}
               /\ \A i \in DOMAIN forwarded : forwarded'[i] = forwarded[i]
               /\ forwarded'[Len(forwarded) + 1].packet = task.packet
               /\ forwarded'[Len(forwarded) + 1].sock = sessions[task.packet.dest].sock
               /\ forwarded'[Len(forwarded) + 1].at = task.at
  <1>1. /\ task.packet.dest \in Live /\ forwarded \in Seq(ForwardType)
        /\ UNCHANGED <<sessions, sockets, now>> /\ task'.pc = "top"
    BY Zenon DEF RoutingTypeOK, SendPacket, At, udpClock
  <1> DEFINE f == [sock |-> sessions[task.packet.dest].sock, packet |-> task.packet, at |-> task.at]
  <1>2. forwarded' = forwarded \/ forwarded' = Append(forwarded, f)
    BY Zenon DEF SendPacket
  <1>3. f.sock = sessions[task.packet.dest].sock /\ f.packet = task.packet /\ f.at = task.at
    BY Zenon
  <1> HIDE DEF f
  <1>4. ASSUME forwarded' = Append(forwarded, f)
        PROVE  /\ DOMAIN forwarded' = DOMAIN forwarded \cup {Len(forwarded) + 1}
               /\ \A i \in DOMAIN forwarded : forwarded'[i] = forwarded[i]
               /\ forwarded'[Len(forwarded) + 1] = f
    BY <1>1, <1>4
  <1> QED
    BY <1>1, <1>2, <1>3, <1>4, Zenon

LEMMA OwnSocketsNext ==
  ASSUME RoutingTypeOK, OwnSockets, [RoutingNext]_routingVars
  PROVE  OwnSockets'
  <1> USE DEF OwnSockets
  <1>1. ASSUME NEW fits, FindSession(fits) PROVE OwnSockets'
    <2>1. PICK d : d = task.packet.dest
      BY Zenon
    <2>2. UNCHANGED forwarded /\ sockets \in Seq(SocketType)
      BY <1>1, Zenon DEF FindSession, RoutingTypeOK
    <2>a. /\ Live' = Live \cup {d} /\ \A e \in Live : e # d => sessions'[e] = sessions[e]
          /\ \/ /\ d \in Live /\ UNCHANGED sockets
                /\ sessions'[d].sock = sessions[d].sock
             \/ /\ d \notin Live /\ sockets' = Append(sockets, NewSocket)
                /\ sessions'[d].sock = Len(sockets) + 1
      BY <1>1, <2>1, SessionFound
    <2>3. CASE d \in Live /\ UNCHANGED sockets /\ sessions'[d].sock = sessions[d].sock
      BY <2>2, <2>3, <2>a
    <2>4. CASE /\ d \notin Live /\ sockets' = Append(sockets, NewSocket)
               /\ sessions'[d].sock = Len(sockets) + 1
      <3>1. Len(sockets) + 1 \notin DOMAIN sockets /\ DOMAIN sockets' = DOMAIN sockets \cup {Len(sockets) + 1}
        BY <2>2, <2>4
      <3> QED
        BY <2>2, <2>4, <2>a, <3>1
    <2> QED
      BY <2>3, <2>4, <2>a, Zenon
  <1>2. CASE SendPacket
    BY <1>2, PacketSent DEF Live
  <1>3. CASE Cleanup \/ Drain \/ RoutingAborted
    BY <1>3, TableShrinks
  <1>4. CASE UNCHANGED <<sessions, forwarded>> /\ DOMAIN sockets' = DOMAIN sockets
    BY <1>4 DEF Live
  <1> QED
    BY <1>1, <1>2, <1>3, <1>4, TableSteps, Zenon

LEMMA SocketsAreOwnedNext ==
  ASSUME RoutingTypeOK, OwnSockets, SocketsAreOwned, [RoutingNext]_routingVars
  PROVE  SocketsAreOwned'
  <1> USE DEF SocketsAreOwned
  <1>1. ASSUME NEW fits, FindSession(fits) PROVE SocketsAreOwned'
    <2>1. PICK d : d = task.packet.dest
      BY Zenon
    <2>2. sockets \in Seq(SocketType) /\ task.pc = "resolve" /\ task'.pc = "send"
      BY <1>1, Zenon DEF FindSession, RoutingTypeOK
    <2>3. CASE d \in Live /\ UNCHANGED sockets /\ sessions'[d].sock = sessions[d].sock
      BY <1>1, <2>1, <2>2, <2>3, SessionFound
    <2>4. CASE /\ d \notin Live /\ sockets' = Append(sockets, NewSocket)
               /\ sessions'[d].sock = Len(sockets) + 1
      <3>1. /\ Len(sockets) + 1 \notin DOMAIN sockets
            /\ DOMAIN sockets' = DOMAIN sockets \cup {Len(sockets) + 1}
            /\ \A k \in DOMAIN sockets : sockets'[k] = sockets[k]
            /\ sockets'[Len(sockets) + 1] = NewSocket
        BY <2>2, <2>4
      <3>2. ~NewSocket.cancelled
        BY Zenon DEF NewSocket
      <3>3. \A k \in DOMAIN sockets :
               (\E e \in Live' : sessions'[e].sock = k) <=> \E e \in Live : sessions[e].sock = k
        BY <1>1, <2>1, <2>4, <3>1, SessionFound
      <3>4. \E e \in Live' : sessions'[e].sock = Len(sockets) + 1
        BY <1>1, <2>1, <2>4, SessionFound
      <3> QED
        BY <2>2, <3>1, <3>2, <3>3, <3>4, Zenon
    <2> QED
      BY <1>1, <2>1, <2>3, <2>4, SessionFound
  <1>2. CASE SendPacket
    <2>1. task.pc = "send" /\ task'.pc = "top" /\ UNCHANGED <<sessions, sockets>>
      BY <1>2, Zenon DEF SendPacket, At
    <2> QED
      BY <2>1, Zenon DEF Live
  <1>3. ASSUME NEW ds \in SUBSET Live, sessions' = Without(ds), sockets' = CancelSockets(ds),
               task.pc # "aborted"
        PROVE  SocketsAreOwned'
    <2>1. Live' = Live \ ds /\ \A d \in Live' : sessions'[d] = sessions[d]
      BY <1>3, Zenon DEF Without, Live
    <2>2. \A k \in DOMAIN sockets : (\E d \in ds : sessions[d].sock = k)
                                        => ~\E d \in Live' : sessions'[d].sock = k
      BY <2>1 DEF OwnSockets
    <2>3. DOMAIN sockets' = DOMAIN sockets /\ \A k \in DOMAIN sockets :
              sockets'[k].cancelled = (sockets[k].cancelled \/ \E d \in ds : sessions[d].sock = k)
      BY <1>3, CancelSocketsType
    <2>4. \A k \in DOMAIN sockets :
              /\ (\E d \in Live' : sessions'[d].sock = k) => ~sockets'[k].cancelled
              /\ ~sockets'[k].cancelled => \E d \in Live' : sessions'[d].sock = k
      <3> SUFFICES ASSUME NEW k \in DOMAIN sockets
                   PROVE  /\ (\E d \in Live' : sessions'[d].sock = k) => ~sockets'[k].cancelled
                          /\ ~sockets'[k].cancelled => \E d \in Live' : sessions'[d].sock = k
        BY Zenon
      <3>1. ~sockets'[k].cancelled <=> ~sockets[k].cancelled /\ ~\E d \in ds : sessions[d].sock = k
        BY <2>3, Zenon
      <3>2. ~sockets[k].cancelled <=> \E d \in Live : sessions[d].sock = k
        BY <1>3, Zenon
      <3>3. (\E d \in Live' : sessions'[d].sock = k) => \E d \in Live : sessions[d].sock = k
        BY <2>1, Zenon
      <3>4. (\E d \in Live : sessions[d].sock = k) /\ ~(\E d \in ds : sessions[d].sock = k)
                => \E d \in Live' : sessions'[d].sock = k
        BY <2>1, Zenon
      <3> QED
        BY <2>2, <3>1, <3>2, <3>3, <3>4, Zenon
    <2> QED
      BY <2>3, <2>4, Zenon
  <1>4. CASE Cleanup
    BY <1>3, <1>4, Zenon DEF Cleanup, IdleDests
  <1>5. CASE Drain
    BY <1>3, <1>5, Zenon DEF Drain
  <1>6. CASE RoutingAborted
    <2>1. Live' = {} /\ task'.pc = "aborted" /\ UNCHANGED sockets
      BY <1>6, Zenon DEF RoutingAborted, Without, Live, At
    <2> QED
      BY <2>1, Zenon
  <1>7. CASE /\ UNCHANGED sessions /\ (task.pc = "aborted" => task'.pc = "aborted")
             /\ DOMAIN sockets' = DOMAIN sockets
             /\ \A k \in DOMAIN sockets : sockets'[k].cancelled = sockets[k].cancelled
    BY <1>7, Zenon DEF Live
  <1> QED
    BY <1>1, <1>2, <1>4, <1>5, <1>6, <1>7, TableSteps, Zenon

LEMMA LastIsLatestNext ==
  ASSUME RoutingTypeOK, LastIsLatest, [RoutingNext]_routingVars
  PROVE  LastIsLatest'
  <1>1. /\ now \in Nat /\ now' \in Nat /\ now <= now'
        /\ \A i \in DOMAIN forwarded : forwarded[i].at \in Nat
        /\ \A d \in Live : sessions[d].last \in Nat
        /\ task.pc = "send" => task.at \in Nat /\ task.packet.dest \in Live
    <2>1. now \in Nat /\ now' \in Nat /\ now <= now'
      <3>1. RoutingTypeOK'
        BY RoutingTypeNext, Zenon
      <3>2. now' = now \/ now' = now + 1
        BY Zenon DEF RoutingNext, RoutingStep, ClientSends, ClientCloses, UdpTick, Cleanup,
           TakeAnswer,
               WriteAnswer, ReadPacket, FindSession, SendPacket, Drain, RoutingEnds, WriteFails,
               ResolveFails, NoSocket, RoutingAborted, AnswerArrives, RecvTask, Recv,
               RecvCancelled, RecvFails, udpClock, routingVars
      <3> QED
        BY <3>1, <3>2 DEF RoutingTypeOK
    <2>2. \A i \in DOMAIN forwarded : forwarded[i].at \in Nat
      <3>1. \A f \in ForwardType : f.at \in Nat
        BY Zenon DEF ForwardType
      <3> QED
        BY <3>1 DEF RoutingTypeOK
    <2>3. \A d \in Live : sessions[d].last \in Nat
      BY Zenon DEF RoutingTypeOK, SessionType, Live
    <2>4. task.pc = "send" => task.at \in Nat
      BY Zenon DEF RoutingTypeOK, TaskType
    <2> QED
      BY <2>1, <2>2, <2>3, <2>4, Zenon DEF RoutingTypeOK
  <1>2. ASSUME NEW fits, FindSession(fits) PROVE LastIsLatest'
    <2>1. PICK d : d = task.packet.dest
      BY Zenon
    <2>2. UNCHANGED <<forwarded, now>> /\ task'.at = now /\ task'.packet.dest = d
      BY <1>2, <2>1, Zenon DEF FindSession, udpClock
    <2>3. /\ d \in Dests /\ Live' = Live \cup {d}
          /\ \A e \in Live : e # d => sessions'[e] = sessions[e]
          /\ sessions'[d].last = now
      BY <1>2, <2>1, SessionFound, Zenon
    <2>4. \A e \in Live' : \A i \in DOMAIN forwarded' :
              forwarded'[i].packet.dest = e => forwarded'[i].at <= sessions'[e].last
      BY <1>1, <2>2, <2>3, ZenonT(30) DEF LastIsLatest
    <2>5. task'.at <= now' /\ task'.at <= sessions'[task'.packet.dest].last
      BY <1>1, <2>2, <2>3, Zenon
    <2> QED
      BY <1>1, <2>2, <2>4, <2>5, Zenon DEF LastIsLatest
  <1>3. CASE SendPacket
    <2>1. task.pc = "send"
      BY <1>3, Zenon DEF SendPacket
    <2> QED
      BY <1>1, <1>3, <2>1, PacketSent DEF Live, LastIsLatest
  <1>4. ASSUME Live' \subseteq Live, \A d \in Live' : sessions'[d] = sessions[d], UNCHANGED forwarded,
               task'.pc = "send" => UNCHANGED <<sessions, task>>
        PROVE  LastIsLatest'
    BY <1>1, <1>4 DEF LastIsLatest
  <1>5. CASE Cleanup \/ Drain \/ RoutingAborted
    <2>1. task'.pc # "send"
      BY <1>5 DEF Cleanup, Drain, RoutingAborted, At
    <2> QED
      BY <1>4, <1>5, <2>1, TableShrinks, Zenon
  <1>6. CASE UNCHANGED <<sessions, forwarded>> /\ (task'.pc = "send" => task' = task)
    BY <1>4, <1>6, Zenon DEF Live
  <1> QED
    BY <1>2, <1>3, <1>5, <1>6, TableSteps, Zenon

(***************************************************************************)
(* The answers.                                                            *)
(***************************************************************************)

(* A sequence in turn is extended by the answer that follows those of its socket. *)
LEMMA InTurnAppend ==
  ASSUME NEW seq \in Seq(AnswerType), InTurn(seq), NEW a \in AnswerType,
         \A i \in DOMAIN seq : seq[i] # a,
         \A m \in 1 .. a.n - 1 : \E i \in DOMAIN seq : seq[i] = [sock |-> a.sock, n |-> m]
  PROVE  InTurn(Append(seq, a))
  <1> DEFINE long == Append(seq, a)
  <1>1. /\ DOMAIN long = DOMAIN seq \cup {Len(seq) + 1} /\ Len(seq) \in Nat
        /\ DOMAIN seq = 1 .. Len(seq)
        /\ long[Len(seq) + 1] = a
        /\ \A i \in DOMAIN seq : long[i] = seq[i] /\ 1 .. i - 1 \subseteq DOMAIN seq
        /\ (Len(seq) + 1) - 1 = Len(seq)
    OBVIOUS
  <1> HIDE DEF long
  <1>2. ASSUME NEW i \in DOMAIN seq
        PROVE  /\ \A j \in 1 .. i - 1 : long[j] # long[i]
               /\ \A m \in 1 .. long[i].n - 1 :
                     \E j \in 1 .. i - 1 : long[j] = [sock |-> long[i].sock, n |-> m]
    <2>1. /\ \A j \in 1 .. i - 1 : seq[j] # seq[i]
          /\ \A m \in 1 .. seq[i].n - 1 :
                \E j \in 1 .. i - 1 : seq[j] = [sock |-> seq[i].sock, n |-> m]
      BY Zenon DEF InTurn
    <2>2. long[i] = seq[i] /\ \A j \in 1 .. i - 1 : long[j] = seq[j]
      BY <1>1, Zenon
    <2> QED
      BY <2>1, <2>2, Zenon
  <1>3. /\ \A j \in 1 .. (Len(seq) + 1) - 1 : long[j] # a
        /\ \A m \in 1 .. a.n - 1 :
               \E j \in 1 .. (Len(seq) + 1) - 1 : long[j] = [sock |-> a.sock, n |-> m]
    BY <1>1
  <1>4. InTurn(long)
    <2>1. \A i \in DOMAIN long : i \in DOMAIN seq \/ i = Len(seq) + 1
      BY <1>1, Zenon
    <2>2. ASSUME NEW i \in DOMAIN long
          PROVE  /\ \A j \in 1 .. i - 1 : long[j] # long[i]
                 /\ \A m \in 1 .. long[i].n - 1 :
                       \E j \in 1 .. i - 1 : long[j] = [sock |-> long[i].sock, n |-> m]
      <3>1. CASE i \in DOMAIN seq
        BY <1>2, <3>1, Zenon
      <3>2. CASE i = Len(seq) + 1
        BY <1>1, <1>3, <3>2, Zenon
      <3> QED
        BY <2>1, <3>1, <3>2, Zenon
    <2> QED
      BY <2>2, Zenon DEF InTurn
  <1> QED
    BY <1>4, Zenon DEF long

LEMMA InTurnPrefix ==
  ASSUME NEW s \in Seq(AnswerType), NEW t \in Seq(AnswerType), InTurn(s \o t)
  PROVE  InTurn(s)
  <1>1. \A i \in DOMAIN s : /\ i \in DOMAIN (s \o t) /\ (s \o t)[i] = s[i]
                            /\ 1 .. i - 1 \subseteq DOMAIN s
    OBVIOUS
  <1>2. ASSUME NEW i \in DOMAIN s
        PROVE  /\ \A j \in 1 .. i - 1 : s[j] # s[i]
               /\ \A m \in 1 .. s[i].n - 1 :
                      \E j \in 1 .. i - 1 : s[j] = [sock |-> s[i].sock, n |-> m]
    <2> DEFINE long == s \o t
    <2>1. \A j \in 1 .. i - 1 : long[j] = s[j]
      BY <1>1, Zenon
    <2>2. i \in DOMAIN long /\ long[i] = s[i]
      BY <1>1, Zenon
    <2>3. InTurn(long)
      BY Zenon
    <2> HIDE DEF long
    <2>4. \A j \in 1 .. i - 1 : long[j] # long[i]
      BY <2>2, <2>3, Zenon DEF InTurn
    <2>5. \A m \in 1 .. long[i].n - 1 :
             \E j \in 1 .. i - 1 : long[j] = [sock |-> long[i].sock, n |-> m]
      BY <2>2, <2>3, Zenon DEF InTurn
    <2>6. \A j \in 1 .. i - 1 : s[j] # s[i]
      BY <2>1, <2>2, <2>4, Zenon
    <2>7. ASSUME NEW m \in 1 .. s[i].n - 1
          PROVE  \E j \in 1 .. i - 1 : s[j] = [sock |-> s[i].sock, n |-> m]
      <3>1. PICK j \in 1 .. i - 1 : long[j] = [sock |-> long[i].sock, n |-> m]
        BY <2>2, <2>5, Zenon
      <3> QED
        BY <2>1, <2>2, <3>1, Zenon
    <2> QED
      BY <2>6, <2>7, Zenon
  <1> QED
    BY <1>2, Zenon DEF InTurn

LEMMA InHandType ==
  ASSUME RoutingTypeOK
  PROVE  InHand \in Seq(AnswerType) /\ Given \in Seq(AnswerType)
  <1>1. InHand \in Seq(AnswerType)
    BY DEF RoutingTypeOK, TaskType, InHand
  <1> QED
    BY <1>1 DEF RoutingTypeOK, Given

(* While it is served, nothing of what was given is lost or written out of turn. *)
LEMMA WrittenInTurn ==
  ASSUME RoutingTypeOK, InTurn(answered), AllGiven, [RoutingNext]_routingVars
  PROVE  InTurn(answered)'
  <1>1. CASE WriteAnswer
    <2>1. Serving /\ InHand = <<task.answer>> /\ task.answer \in AnswerType
      BY <1>1, Zenon DEF WriteAnswer, Serving, InHand, RoutingTypeOK, TaskType
    <2>2. InTurn((answered \o <<task.answer>>) \o responses)
      BY <2>1, Zenon DEF AllGiven, Given
    <2>3. answered' = answered \o <<task.answer>> /\ answered' \in Seq(AnswerType)
      BY <1>1, <2>1 DEF WriteAnswer, RoutingTypeOK
    <2>4. InTurn(answered')
      BY <2>2, <2>3, InTurnPrefix, Zenon DEF RoutingTypeOK
    <2> QED
      BY <2>4, Zenon DEF InTurn
  <1>2. CASE UNCHANGED answered
    BY <1>2 DEF InTurn
  <1>3. WriteAnswer \/ UNCHANGED answered
    BY Zenon DEF RoutingNext, RoutingStep, ClientSends, ClientCloses, UdpTick, Cleanup,
       TakeAnswer,
           ReadPacket, FindSession, SendPacket, Drain, RoutingEnds, WriteFails, ResolveFails,
           NoSocket, RoutingAborted, AnswerArrives, RecvTask, Recv, RecvCancelled, RecvFails,
           routingVars
  <1> QED
    BY <1>1, <1>2, <1>3, Zenon

(* The routing task leaves what was given alone, or it no longer serves. *)
LEMMA GivenStays ==
  ASSUME RoutingTypeOK, [RoutingNext]_routingVars, Serving',
         ~\E k \in DOMAIN sockets : Recv(k)
  PROVE  /\ Serving /\ Given' = Given
         /\ \A k \in DOMAIN sockets : k \in DOMAIN sockets' /\ sockets'[k].taken = sockets[k].taken
         /\ \A k \in DOMAIN sockets' \ DOMAIN sockets : sockets'[k].taken = 0
  <1> USE DEF Serving, Given
  <1>1. CASE TakeAnswer
    <2>1. InHand = <<>> /\ InHand' = <<Head(responses)>> /\ UNCHANGED <<answered, sockets>>
      BY <1>1, Zenon DEF TakeAnswer, InHand
    <2>2. (answered \o <<Head(responses)>>) \o Tail(responses) = (answered \o <<>>) \o responses
      <3>1. answered \in Seq(AnswerType) /\ responses \in Seq(AnswerType) /\ responses # <<>>
        BY <1>1, Zenon DEF TakeAnswer, HasAnswer, RoutingTypeOK
      <3> QED
        BY <3>1
    <2> QED
      BY <1>1, <2>1, <2>2, Zenon DEF TakeAnswer
  <1>2. CASE WriteAnswer
    <2>1. /\ InHand = <<task.answer>> /\ InHand' = <<>> /\ task.answer \in AnswerType
          /\ UNCHANGED <<responses, sockets>> /\ answered' = Append(answered, task.answer)
      BY <1>2, Zenon DEF WriteAnswer, InHand, At, RoutingTypeOK, TaskType
    <2>2. answered \in Seq(AnswerType)
      BY Zenon DEF RoutingTypeOK
    <2>3. Append(answered, task.answer) \o <<>> = answered \o <<task.answer>>
      BY <2>1, <2>2
    <2>4. Given' = Given
      BY <2>1, <2>3, Zenon
    <2> QED
      BY <1>2, <2>1, <2>4, Zenon DEF WriteAnswer
  <1>3. CASE (\E d \in Dests : ClientSends(d)) \/ ClientCloses \/ UdpTick \/ UNCHANGED routingVars
    BY <1>3, Zenon DEF ClientSends, ClientCloses, UdpTick, routingVars, InHand
  <1>4. CASE ReadPacket \/ ResolveFails \/ NoSocket \/ SendPacket
    <2>1. CASE ReadPacket
      <3>1. task.pc = "select" /\ task'.pc \in {"drain", "resolve"} /\ UNCHANGED <<responses, answered, sockets>>
        BY <2>1, Zenon DEF ReadPacket, At
      <3> QED
        BY <3>1, Zenon DEF InHand
    <2>2. CASE ResolveFails \/ NoSocket \/ SendPacket
      <3>1. /\ task.pc \in {"resolve", "send"} /\ task'.pc = "top"
            /\ UNCHANGED <<responses, answered, sockets>>
        BY <2>2 DEF ResolveFails, NoSocket, SendPacket, At
      <3> QED
        BY <3>1, Zenon DEF InHand
    <2> QED
      BY <1>4, <2>1, <2>2, Zenon
  <1>5. CASE Cleanup
    <2>1. UNCHANGED <<answered, responses>> /\ Serving /\ InHand' = InHand
      BY <1>5, ZenonT(30) DEF Cleanup, At, InHand
    <2>2. /\ DOMAIN sockets' = DOMAIN sockets
          /\ \A k \in DOMAIN sockets : sockets'[k].taken = sockets[k].taken
      BY <1>5, CancelSocketsType DEF Cleanup
    <2> QED
      BY <2>1, <2>2, Zenon
  <1>6. ASSUME NEW fits, FindSession(fits)
        PROVE  /\ Serving /\ Given' = Given
               /\ \A k \in DOMAIN sockets : k \in DOMAIN sockets' /\ sockets'[k].taken = sockets[k].taken
               /\ \A k \in DOMAIN sockets' \ DOMAIN sockets : sockets'[k].taken = 0
    <2>1. UNCHANGED <<answered, responses>> /\ Serving /\ InHand' = InHand
      BY <1>6, Zenon DEF FindSession, InHand
    <2>2. sockets' = sockets \/ sockets' = Append(sockets, NewSocket)
      BY <1>6, Zenon DEF FindSession
    <2>3. NewSocket.taken = 0
      BY Zenon DEF NewSocket
    <2>4. ASSUME sockets' = Append(sockets, NewSocket)
          PROVE  /\ \A k \in DOMAIN sockets : k \in DOMAIN sockets' /\ sockets'[k] = sockets[k]
                 /\ \A k \in DOMAIN sockets' \ DOMAIN sockets : sockets'[k] = NewSocket
      BY <2>4 DEF RoutingTypeOK
    <2> QED
      BY <2>1, <2>2, <2>3, <2>4, Zenon
  <1>7. CASE WriteFails \/ Drain \/ RoutingEnds \/ RoutingAborted
    BY <1>7 DEF WriteFails, Drain, RoutingEnds, RoutingAborted, At
  <1>8. ASSUME NEW k \in DOMAIN sockets, AnswerArrives(k) \/ RecvCancelled(k) \/ RecvFails(k)
        PROVE  /\ UNCHANGED <<answered, responses, task>>
               /\ DOMAIN sockets' = DOMAIN sockets
               /\ \A j \in DOMAIN sockets : sockets'[j].taken = sockets[j].taken
    <2>1. sockets[k] \in SocketType /\ sockets \in Seq(SocketType)
      BY DEF RoutingTypeOK
    <2>2. \/ sockets' = [sockets EXCEPT ![k].got = @ + 1]
          \/ sockets' = [sockets EXCEPT ![k].running = FALSE]
      BY <1>8, Zenon DEF AnswerArrives, RecvCancelled, RecvFails
    <2>3. DOMAIN sockets' = DOMAIN sockets /\ \A j \in DOMAIN sockets : sockets'[j].taken = sockets[j].taken
      <3>1. DOMAIN sockets' = DOMAIN sockets /\ \A j \in DOMAIN sockets : j # k => sockets'[j] = sockets[j]
        BY <2>1, <2>2, Zenon
      <3>2. \/ sockets'[k] = [sockets[k] EXCEPT !.got = @ + 1]
            \/ sockets'[k] = [sockets[k] EXCEPT !.running = FALSE]
        BY <2>1, <2>2, Zenon
      <3>3. sockets'[k].taken = sockets[k].taken
        BY <2>1, <3>2, Zenon DEF SocketType
      <3> QED
        BY <3>1, <3>3, Zenon
    <2> QED
      BY <1>8, <2>3, Zenon DEF AnswerArrives, RecvCancelled, RecvFails
  <1> QED
    BY <1>1, <1>2, <1>3, <1>4, <1>5, <1>6, <1>7, <1>8, Zenon DEF RoutingNext, RoutingStep,
       RecvTask, InHand

(* A datagram that a receive task takes is given, the next of its socket. *)
LEMMA AnswerTaken ==
  ASSUME RoutingTypeOK, AllGiven, Serving, NEW k \in DOMAIN sockets, Recv(k)
  PROVE  AllGiven'
  <1> DEFINE m == sockets[k].taken
             a == [sock |-> k, n |-> m + 1]
  <1>1. /\ sockets \in Seq(SocketType) /\ sockets[k] \in SocketType /\ k \in Nat /\ m \in Nat
        /\ Given \in Seq(AnswerType) /\ answered \o InHand \in Seq(AnswerType)
        /\ responses \in Seq(AnswerType)
    <2>1. sockets \in Seq(SocketType) /\ answered \in Seq(AnswerType) /\ responses \in Seq(AnswerType)
      BY Zenon DEF RoutingTypeOK
    <2>2. sockets[k] \in SocketType /\ k \in Nat
      BY <2>1
    <2> QED
      BY <2>1, <2>2, InHandType DEF SocketType
  <1>2. a \in AnswerType /\ a.sock = k /\ a.n = m + 1
    BY <1>1 DEF AnswerType
  <1>3. DOMAIN sockets' = DOMAIN sockets /\ \A j \in DOMAIN sockets : j # k => sockets'[j] = sockets[j]
    BY RecvType, Zenon DEF RecvTask
  <1>4. sockets'[k].taken = m + 1
    <2>1. sockets' = [sockets EXCEPT ![k].taken = @ + 1, ![k].running = ~Over]
      BY Zenon DEF Recv
    <2>2. sockets'[k] = [sockets[k] EXCEPT !.taken = @ + 1, !.running = ~Over]
      BY <1>1, <2>1, Zenon
    <2> QED
      BY <1>1, <2>2, Zenon DEF SocketType
  <1>5. Given' = Append(Given, a)
    <2>1. responses' = Append(responses, a) /\ UNCHANGED <<answered, InHand>>
      BY Zenon DEF Recv, Over, Serving, InHand
    <2>2. ASSUME NEW t \in Seq(AnswerType), NEW r \in Seq(AnswerType), NEW x \in AnswerType
          PROVE  t \o Append(r, x) = Append(t \o r, x)
      OBVIOUS
    <2> QED
      BY <1>1, <1>2, <2>1, <2>2, Zenon DEF Given
  <1> HIDE DEF m, a
  <1>6. /\ DOMAIN Given' = DOMAIN Given \cup {Len(Given) + 1}
        /\ \A i \in DOMAIN Given : Given'[i] = Given[i]
        /\ Given'[Len(Given) + 1] = a
    BY <1>1, <1>5
  <1>7. InTurn(Given)'
    <2>1. \A i \in DOMAIN Given : Given[i] # a
      BY <1>1, <1>2 DEF AllGiven, m
    <2>2. \A j \in 1 .. a.n - 1 : \E i \in DOMAIN Given : Given[i] = [sock |-> a.sock, n |-> j]
      BY <1>1, <1>2 DEF AllGiven, m
    <2>3. InTurn(Append(Given, a))
      BY <1>1, <1>2, <2>1, <2>2, InTurnAppend, Zenon DEF AllGiven
    <2> QED
      BY <1>5, <2>3 DEF InTurn
  <1>8. ASSUME NEW i \in DOMAIN Given'
        PROVE  Given'[i].sock \in DOMAIN sockets' /\ Given'[i].n \in 1 .. sockets'[Given'[i].sock].taken
    <2>1. CASE i \in DOMAIN Given
      <3>1. Given'[i] = Given[i] /\ Given[i].sock \in DOMAIN sockets
               /\ Given[i].n \in 1 .. sockets[Given[i].sock].taken
        BY <1>6, <2>1, Zenon DEF AllGiven
      <3>2. CASE Given[i].sock = k
        <4>1. Given'[i].sock = k /\ Given'[i].n \in 1 .. m
          BY <3>1, <3>2, Zenon DEF m
        <4>2. Given'[i].n \in 1 .. m + 1
          BY <1>1, <4>1
        <4> QED
          BY <1>3, <1>4, <4>1, <4>2, Zenon
      <3>3. CASE Given[i].sock # k
        BY <1>3, <3>1, <3>3, Zenon
      <3> QED
        BY <3>2, <3>3, Zenon
    <2>2. CASE i = Len(Given) + 1
      BY <1>1, <1>2, <1>3, <1>4, <1>6, <2>2, SMTT(30)
    <2> QED
      BY <1>6, <2>1, <2>2, Zenon
  <1>9. ASSUME NEW j \in DOMAIN sockets', NEW x \in 1 .. sockets'[j].taken
        PROVE  \E i \in DOMAIN Given' : Given'[i] = [sock |-> j, n |-> x]
    <2>1. CASE j = k /\ x = m + 1
      BY <1>6, <2>1, Zenon DEF a
    <2>2. CASE ~(j = k /\ x = m + 1)
      <3>1. x \in 1 .. sockets[j].taken
        <4>1. CASE j = k
          <5>1. x \in 1 .. m + 1 /\ x # m + 1
            BY <1>4, <2>2, <4>1, Zenon
          <5>2. x \in 1 .. m
            BY <1>1, <5>1
          <5> QED
            BY <4>1, <5>2, Zenon DEF m
        <4>2. CASE j # k
          BY <1>3, <4>2, Zenon
        <4> QED
          BY <4>1, <4>2, Zenon
      <3> QED
        BY <1>3, <1>6, <3>1 DEF AllGiven
    <2> QED
      BY <2>1, <2>2, Zenon
  <1> QED
    BY <1>7, <1>8, <1>9, Zenon DEF AllGiven

LEMMA AllGivenNext ==
  ASSUME RoutingTypeOK, AllGiven, [RoutingNext]_routingVars
  PROVE  AllGiven'
  <1> SUFFICES ASSUME Serving' PROVE AllGiven'
    BY Zenon DEF AllGiven
  <1>1. CASE \E k \in DOMAIN sockets : Recv(k)
    <2>1. Serving
      BY <1>1, Zenon DEF Serving, Recv
    <2> QED
      BY <1>1, <2>1, AnswerTaken, Zenon
  <1>2. CASE ~\E k \in DOMAIN sockets : Recv(k)
    <2>1. /\ Serving /\ Given' = Given
          /\ \A k \in DOMAIN sockets : k \in DOMAIN sockets' /\ sockets'[k].taken = sockets[k].taken
          /\ \A k \in DOMAIN sockets' \ DOMAIN sockets : sockets'[k].taken = 0
      BY <1>2, GivenStays, Zenon
    <2>2. InTurn(Given)'
      BY <2>1 DEF AllGiven, InTurn
    <2>3. \A i \in DOMAIN Given' :
             Given'[i].sock \in DOMAIN sockets' /\ Given'[i].n \in 1 .. sockets'[Given'[i].sock].taken
      BY <2>1, Zenon DEF AllGiven
    <2>4. ASSUME NEW k \in DOMAIN sockets', NEW m \in 1 .. sockets'[k].taken
          PROVE  \E i \in DOMAIN Given' : Given'[i] = [sock |-> k, n |-> m]
      <3>1. k \in DOMAIN sockets
        BY <2>1, <2>4
      <3> QED
        BY <2>1, <2>4, <3>1, Zenon DEF AllGiven
    <2> QED
      BY <2>2, <2>3, <2>4, Zenon DEF AllGiven
  <1> QED
    BY <1>1, <1>2, Zenon

LEMMA RoutingInvNext == RoutingInv /\ [RoutingNext]_routingVars => RoutingInv'
  BY RoutingTypeNext, PacketsInOrderNext, OwnSocketsNext, SocketsAreOwnedNext, LastIsLatestNext,
     WrittenInTurn, AllGivenNext, Zenon DEF RoutingInv

LEMMA RoutingInvImplies == RoutingInv => ForwardedInOrder /\ AnswersInOrder /\ SocketsAreOwned
  <1> SUFFICES ASSUME RoutingInv PROVE ForwardedInOrder /\ AnswersInOrder /\ SocketsAreOwned
    BY Zenon
  <1>1. ForwardedInOrder
    BY Zenon DEF RoutingInv, ForwardedInOrder, PacketsInOrder, OwnSockets
  <1>2. ASSUME Serving, NEW k \in DOMAIN sockets
        PROVE  {a \in {Given[i] : i \in DOMAIN Given} : a.sock = k}
                   = {[sock |-> k, n |-> m] : m \in 1 .. sockets[k].taken}
    <2>1. AllGiven /\ Given \in Seq(AnswerType)
      BY InHandType, Zenon DEF RoutingInv
    <2>2. ASSUME NEW i \in DOMAIN Given, Given[i].sock = k
          PROVE  \E m \in 1 .. sockets[k].taken : Given[i] = [sock |-> k, n |-> m]
      <3>1. Given[i] \in AnswerType
        BY <2>1
      <3>2. Given[i] = [sock |-> k, n |-> Given[i].n]
        BY <2>2, <3>1, Zenon DEF AnswerType
      <3> QED
        BY <1>2, <2>1, <2>2, <3>2, Zenon DEF AllGiven
    <2>3. ASSUME NEW m \in 1 .. sockets[k].taken
          PROVE  \E i \in DOMAIN Given : Given[i] = [sock |-> k, n |-> m]
      BY <1>2, <2>1, Zenon DEF AllGiven
    <2> QED
      BY <2>1, <2>2, <2>3
  <1>3. AnswersInOrder
    <2>1. answered \o InHand \o responses = Given
      BY Zenon DEF Given
    <2> QED
      BY <1>2, <2>1 DEF AnswersInOrder, RoutingInv, AllGiven, Serving
  <1> QED
    BY <1>1, <1>3, Zenon DEF RoutingInv

(* A packet of the client is forwarded at most once, in the client's order and from the *)
(* socket of its destination's session (run_udp_routing, udp_relay.rs), for any         *)
(* destinations, timeouts and numbers of packets and answers.                           *)
THEOREM PacketsAreForwardedInOrder == RoutingSpec => []ForwardedInOrder
  BY RoutingInvInit, RoutingInvNext, RoutingInvImplies, PTL DEF RoutingSpec

(* What a socket receives reaches the client once, in turn and complete up to what is   *)
(* in hand or queued, however cleanups, new sessions and receive tasks interleave.      *)
THEOREM AnswersComeInOrder == RoutingSpec => []AnswersInOrder
  BY RoutingInvInit, RoutingInvNext, RoutingInvImplies, PTL DEF RoutingSpec

(* No cleanup and no end of the routing loop leaves a socket whose token nobody will    *)
(* cancel, and no session in the table has a cancelled one.                             *)
THEOREM SocketsHaveOwners == RoutingSpec => []SocketsAreOwned
  BY RoutingInvInit, RoutingInvNext, RoutingInvImplies, PTL DEF RoutingSpec

LEMMA OnlyIdleStep ==
  ASSUME RoutingInv, [RoutingNext]_routingVars, NEW d \in Live
  PROVE  \/ task'.pc \in {"shutdown", "aborted"}
         \/ sessions'[d] # NoSession /\ sessions'[d].sock = sessions[d].sock
         \/ sessions'[d] = NoSession /\ ~SentRecently(d)
  <1> USE DEF RoutingInv
  <1>1. CASE Cleanup
    <2>1. CASE d \in IdleDests
      <3>1. sessions'[d] = NoSession /\ now - sessions[d].last > AssocTimeout
        BY <1>1, <2>1, Zenon DEF Cleanup, Without, IdleDests, Live
      <3>2. ASSUME NEW i \in DOMAIN forwarded, forwarded[i].packet.dest = d
            PROVE  ~(now - forwarded[i].at <= AssocTimeout)
        <4>1. forwarded[i] \in ForwardType
          BY DEF RoutingTypeOK
        <4>2. forwarded[i].at \in Nat /\ sessions[d].last \in Nat /\ now \in Nat
          BY <4>1, Zenon DEF RoutingTypeOK, ForwardType, SessionType, Live
        <4>3. forwarded[i].at <= sessions[d].last
          BY <3>2, Zenon DEF LastIsLatest
        <4> QED
          BY <3>1, <4>2, <4>3, RoutingAssumption
      <3> QED
        BY <3>1, <3>2, Zenon DEF SentRecently
    <2>2. CASE d \notin IdleDests
      BY <1>1, <2>2, Zenon DEF Cleanup, Without, Live
    <2> QED
      BY <2>1, <2>2, Zenon
  <1>2. CASE Drain \/ RoutingAborted
    BY <1>2 DEF Drain, RoutingAborted, At
  <1>3. ASSUME NEW fits, FindSession(fits)
        PROVE  sessions'[d] # NoSession /\ sessions'[d].sock = sessions[d].sock
    <2>1. sessions'[d] # NoSession
      BY <1>3, SessionFound, ZenonT(30) DEF Live
    <2>2. sessions'[d].sock = sessions[d].sock
      BY <1>3, SessionFound, Zenon
    <2> QED
      BY <2>1, <2>2, Zenon
  <1>4. CASE UNCHANGED sessions
    BY <1>4, Zenon DEF Live
  <1>5. SendPacket => UNCHANGED sessions
    BY Zenon DEF SendPacket
  <1> QED
    BY <1>1, <1>2, <1>3, <1>4, <1>5, TableSteps, Zenon

(* A session keeps its socket until it is removed, and it is removed only when the task *)
(* ends or nothing was forwarded to its destination for ASSOCIATION_TIMEOUT.            *)
THEOREM SessionsLast == RoutingSpec => OnlyIdleRemoved
  <1>1. RoutingInv /\ [RoutingNext]_routingVars =>
          [\A d \in Live :
              \/ task'.pc \in {"shutdown", "aborted"}
              \/ sessions'[d] # NoSession /\ sessions'[d].sock = sessions[d].sock
              \/ sessions'[d] = NoSession /\ ~SentRecently(d)]_routingVars
    BY OnlyIdleStep, Zenon
  <1> QED
    BY <1>1, RoutingInvInit, RoutingInvNext, PTL DEF RoutingSpec, OnlyIdleRemoved

(* Where the byte k places after the start is kept. *)
Slot(k) == (startIndex + k) % Size

(* The ring holds, from the start index on and wrapping, the bytes that were read *)
(* and not yet written.                                                          *)
RingHolds ==
    /\ taken = Len(delivered) + cacheLength
    /\ \A k \in 0 .. cacheLength - 1 : buf[Slot(k)] = Len(delivered) + k + 1

(* read_done means that the peer closed and nothing is left to read, and the copy *)
(* is done only with an empty ring.                                              *)
EofIsReal ==
    /\ readDone => ended /\ avail = 0
    /\ pc = "done" => readDone /\ cacheLength = 0

CopyInv == TypeOK /\ RingHolds /\ EofIsReal

(* Remainders of the indices the code computes, which are below twice the size. *)
LEMMA Wrap ==
  ASSUME NEW x \in Nat, x < 2 * Size
  PROVE  /\ x % Size = IF x < Size THEN x ELSE x - Size
         /\ x % Size \in 0 .. Size - 1
  <1>1. CASE x < Size
    BY <1>1, SizeAssumption
  <1>2. CASE x >= Size
    <2>1. x % Size = x - Size
      BY <1>2, SizeAssumption
    <2> QED
      BY <1>2, <2>1, SizeAssumption
  <1> QED
    BY <1>1, <1>2, SizeAssumption

LEMMA WrapSum ==
  ASSUME NEW a \in Nat, NEW b \in Nat, a < Size, b <= Size
  PROVE  (a + b) % Size = IF a + b < Size THEN a + b ELSE (a + b) - Size
  <1>1. a + b \in Nat /\ a + b < 2 * Size
    BY SizeAssumption
  <1>2. \A x \in Nat : x < 2 * Size => x % Size = IF x < Size THEN x ELSE x - Size
    BY Wrap, Zenon
  <1> QED
    BY <1>1, <1>2, Zenon

LEMMA SlotValue ==
  ASSUME startIndex \in 0 .. Size - 1, NEW k \in Nat, k < Size
  PROVE  Slot(k) = IF startIndex + k < Size THEN startIndex + k ELSE (startIndex + k) - Size
  <1>1. startIndex \in Nat /\ startIndex < Size /\ k <= Size
    BY SizeAssumption
  <1> QED
    BY <1>1, WrapSum, Zenon DEF Slot

LEMMA CopyInvInit == Init => CopyInv
  <1> SUFFICES ASSUME Init PROVE CopyInv
    BY Zenon
  <1>1. TypeOK
    BY SizeAssumption, BoundsAssumption DEF Init, TypeOK
  <1>2. RingHolds /\ EofIsReal
    BY SizeAssumption DEF Init, RingHolds, EofIsReal
  <1> QED
    BY <1>1, <1>2, Zenon DEF CopyInv

(* The free slice never reaches into the bytes that wait to be written, and it is *)
(* empty only when the ring is full.                                             *)
LEMMA FreeSlice ==
  ASSUME CopyInv, cacheLength < Size
  PROVE  /\ UnusedStart \in 0 .. Size - 1 /\ UnusedEnd \in 1 .. Size
         /\ UnusedStart < UnusedEnd /\ cacheLength + (UnusedEnd - UnusedStart) <= Size
         /\ \A k \in 0 .. cacheLength - 1 :
               Slot(k) \in 0 .. Size - 1 /\ ~(UnusedStart <= Slot(k) /\ Slot(k) < UnusedEnd)
         /\ \A j \in 0 .. UnusedEnd - UnusedStart - 1 : Slot(cacheLength + j) = UnusedStart + j
  <1>1. /\ startIndex \in Nat /\ startIndex < Size /\ cacheLength \in Nat
        /\ startIndex + cacheLength \in Nat /\ startIndex + cacheLength < 2 * Size
        /\ Size \in Nat
    BY SizeAssumption DEF CopyInv, TypeOK
  <1>2. \A k \in Nat : k < Size => Slot(k) = IF startIndex + k < Size THEN startIndex + k
                                             ELSE (startIndex + k) - Size
    BY SlotValue, Zenon DEF CopyInv, TypeOK
  <1>3. UnusedStart = IF startIndex + cacheLength < Size THEN startIndex + cacheLength
                      ELSE startIndex + cacheLength - Size
    BY <1>1, WrapSum DEF UnusedStart
  <1>4. CASE startIndex + cacheLength < Size
    <2>1. UnusedStart = startIndex + cacheLength /\ UnusedEnd = Size
      BY <1>1, <1>3, <1>4 DEF UnusedEnd
    <2> QED
      BY <1>1, <1>2, <1>4, <2>1
  <1>5. CASE startIndex + cacheLength >= Size
    <2>1. UnusedStart = startIndex + cacheLength - Size /\ UnusedEnd = startIndex
      BY <1>1, <1>3, <1>5 DEF UnusedEnd
    <2> QED
      BY <1>1, <1>2, <1>5, <2>1
  <1> QED
    BY <1>1, <1>4, <1>5

(* A read appends to what the ring holds. *)
LEMMA ReadKeepsRing ==
  ASSUME CopyInv, NEW n \in 0 .. Size, ReadSome(n)
  PROVE  /\ TypeOK' /\ RingHolds' /\ n # 0 /\ cacheLength + n <= Size
         /\ taken' = taken + n /\ taken + n <= Len(delivered) + Size
  <1> DEFINE u == UnusedStart
             e == UnusedEnd
  <1>1. /\ cacheLength < Size /\ n <= e - u /\ n <= avail /\ (n = 0 => e = u)
        /\ cacheLength' = cacheLength + n /\ taken' = taken + n /\ avail' = avail - n
        /\ buf' = [i \in 0 .. Size - 1 |->
                      IF i \in u .. u + n - 1 THEN taken + 1 + (i - u) ELSE buf[i]]
        /\ UNCHANGED <<startIndex, delivered, needFlush, poll, wakers, ended, room, unflushed>>
        /\ readDone' = (n = 0)
    <2>1. u \in Nat /\ e \in Nat /\ u < e /\ avail \in Nat
      BY FreeSlice DEF ReadSome, Reading, CopyInv, TypeOK
    <2> HIDE DEF u, e
    <2>2. n <= Least(avail, e - u)
      BY Zenon DEF ReadSome, u, e
    <2>3. n <= e - u /\ n <= avail
      BY <2>1, <2>2 DEF Least
    <2> QED
      BY <2>3, Zenon DEF ReadSome, Reading, u, e
  <1>2. /\ u \in 0 .. Size - 1 /\ e \in 1 .. Size /\ u < e /\ cacheLength + (e - u) <= Size
        /\ \A k \in 0 .. cacheLength - 1 :
              Slot(k) \in 0 .. Size - 1 /\ ~(u <= Slot(k) /\ Slot(k) < e)
        /\ \A j \in 0 .. e - u - 1 : Slot(cacheLength + j) = u + j
    BY <1>1, FreeSlice, Zenon
  <1> HIDE DEF u, e
  <1>3. /\ Size \in Nat \ {0} /\ cacheLength \in Nat /\ taken \in Nat /\ avail \in Nat
        /\ Len(delivered) \in Nat /\ buf \in [0 .. Size - 1 -> Nat]
        /\ taken = Len(delivered) + cacheLength
    BY SizeAssumption DEF CopyInv, TypeOK, RingHolds
  <1>4. n # 0 /\ cacheLength + n <= Size /\ taken + n <= Len(delivered) + Size
    BY <1>1, <1>2, <1>3
  <1>5. buf' \in [0 .. Size - 1 -> Nat]
    BY <1>1, <1>2, <1>3, SMTT(30)
  <1>6. readDone' \in BOOLEAN
    BY <1>1, Zenon
  <1>7. TypeOK'
    BY <1>1, <1>3, <1>4, <1>5, <1>6 DEF CopyInv, TypeOK, poll, wakers
  <1>8. ASSUME NEW k \in 0 .. cacheLength' - 1
        PROVE  buf'[Slot(k)] = Len(delivered) + k + 1
    <2>1. CASE k < cacheLength
      <3>1. k \in 0 .. cacheLength - 1 /\ u + n <= e
        BY <1>1, <1>2, <1>3, <1>8, <2>1
      <3>2. Slot(k) \in 0 .. Size - 1 /\ ~(u <= Slot(k) /\ Slot(k) < e)
        BY <1>2, <3>1, Zenon
      <3>3. ~(Slot(k) \in u .. u + n - 1)
        BY <1>1, <1>2, <1>3, <3>1, <3>2
      <3>4. buf'[Slot(k)] = buf[Slot(k)]
        BY <1>1, <3>2, <3>3, Zenon
      <3> QED
        BY <3>1, <3>4, Zenon DEF CopyInv, RingHolds
    <2>2. CASE k >= cacheLength
      <3>1. k - cacheLength \in 0 .. e - u - 1 /\ cacheLength + (k - cacheLength) = k
        BY <1>1, <1>2, <1>3, <1>8, <2>2
      <3>2. Slot(k) = u + (k - cacheLength)
        BY <1>2, <3>1, Zenon
      <3>3. Slot(k) \in 0 .. Size - 1 /\ Slot(k) \in u .. u + n - 1
        BY <1>1, <1>2, <1>3, <1>8, <2>2, <3>2
      <3> QED
        BY <1>1, <1>2, <1>3, <1>8, <3>2, <3>3
    <2> QED
      BY <1>1, <1>3, <1>8, <2>1, <2>2
  <1>9. RingHolds'
    BY <1>1, <1>3, <1>8, SMTT(30) DEF RingHolds, Slot
  <1> QED
    BY <1>1, <1>4, <1>7, <1>9, Zenon

(* A write hands over the oldest bytes and keeps the rest. *)
LEMMA WriteKeepsRing ==
  ASSUME CopyInv, NEW n \in 1 .. Size, WriteSome(n)
  PROVE  /\ TypeOK' /\ RingHolds' /\ Len(delivered) + n <= taken
         /\ delivered' = delivered \o [j \in 1 .. n |-> Len(delivered) + j]
  <1>1. /\ Size \in Nat \ {0} /\ startIndex \in Nat /\ startIndex < Size
        /\ cacheLength \in Nat /\ cacheLength <= Size /\ cacheLength > 0
        /\ taken \in Nat /\ room \in Nat /\ Len(delivered) \in Nat
        /\ buf \in [0 .. Size - 1 -> Nat] /\ delivered \in Seq(Nat)
        /\ taken = Len(delivered) + cacheLength
    BY SizeAssumption DEF CopyInv, TypeOK, RingHolds, WriteSome
  <1>2. n <= room /\ n <= cacheLength /\ startIndex + n <= Size
    BY <1>1 DEF WriteSome, Least, UsedEnd
  <1>3. \A j \in 1 .. n : buf[startIndex + j - 1] = Len(delivered) + j
    <2> SUFFICES ASSUME NEW j \in 1 .. n PROVE buf[startIndex + j - 1] = Len(delivered) + j
      BY Zenon
    <2>1. j - 1 \in 0 .. cacheLength - 1 /\ j - 1 \in Nat /\ j - 1 < Size
      BY <1>1, <1>2
    <2>2. Slot(j - 1) = startIndex + (j - 1)
      BY <1>1, <1>2, <2>1, SlotValue
    <2>3. buf[Slot(j - 1)] = Len(delivered) + (j - 1) + 1
      BY <2>1, Zenon DEF CopyInv, RingHolds
    <2>4. startIndex + (j - 1) = startIndex + j - 1 /\ (j - 1) + 1 = j
      BY <1>1
    <2> QED
      BY <1>1, <2>2, <2>3, <2>4
  <1>4. delivered' = delivered \o [j \in 1 .. n |-> Len(delivered) + j]
    <2>1. [j \in 1 .. n |-> buf[startIndex + j - 1]] = [j \in 1 .. n |-> Len(delivered) + j]
      BY <1>3, Zenon
    <2> QED
      BY <2>1, Zenon DEF WriteSome
  <1>5. delivered' \in Seq(Nat) /\ Len(delivered') = Len(delivered) + n
    <2> DEFINE more == [j \in 1 .. n |-> Len(delivered) + j]
    <2>1. more \in Seq(Nat) /\ Len(more) = n
      BY <1>1
    <2> QED
      BY <1>1, <1>4, <2>1
  <1>6. startIndex' \in 0 .. Size - 1 /\
        (cacheLength # n => startIndex' = IF startIndex + n < Size THEN startIndex + n ELSE 0)
    <2>1. (startIndex + n) % Size = IF startIndex + n < Size THEN startIndex + n
                                    ELSE (startIndex + n) - Size
      BY <1>1, <1>2, WrapSum
    <2>2. (startIndex + n) % Size = IF startIndex + n < Size THEN startIndex + n ELSE 0
      BY <1>1, <1>2, <2>1
    <2> HIDE DEF Advance
    <2>3. startIndex' = Advance(n)
      BY Zenon DEF WriteSome
    <2>4. Advance(n) = IF cacheLength = n THEN 0
                       ELSE IF startIndex + n < Size THEN startIndex + n ELSE 0
      BY <2>2, Zenon DEF Advance
    <2> QED
      BY <1>1, <1>2, <2>3, <2>4
  <1>7. TypeOK'
    <2>1. cacheLength' \in 0 .. Size /\ room' \in Nat
      BY <1>1, <1>2 DEF WriteSome
    <2>2. needFlush' \in BOOLEAN /\ unflushed' \in BOOLEAN
      BY Zenon DEF WriteSome
    <2>3. UNCHANGED <<buf, taken, readDone, poll, wakers, avail, ended>>
      BY Zenon DEF WriteSome
    <2> QED
      BY <1>5, <1>6, <2>1, <2>2, <2>3, Zenon DEF CopyInv, TypeOK, poll, wakers
  <1>8. ASSUME NEW k \in 0 .. cacheLength' - 1
        PROVE  buf'[(startIndex' + k) % Size] = Len(delivered') + k + 1
    <2>1. /\ cacheLength' = cacheLength - n /\ buf' = buf /\ cacheLength # n
          /\ k \in Nat /\ n + k \in 0 .. cacheLength - 1 /\ n + k < Size
      BY <1>1, <1>2, <1>8 DEF WriteSome
    <2>2. startIndex' \in Nat /\ startIndex' < Size /\ k <= Size
      BY <1>1, <1>6, <2>1
    <2>3. (startIndex' + k) % Size = IF startIndex' + k < Size THEN startIndex' + k
                                     ELSE (startIndex' + k) - Size
      BY <2>1, <2>2, WrapSum, Zenon
    <2>4. Slot(n + k) = IF startIndex + (n + k) < Size THEN startIndex + (n + k)
                        ELSE (startIndex + (n + k)) - Size
      BY <1>1, <2>1, SlotValue
    <2>5. (startIndex' + k) % Size = Slot(n + k)
      <3>1. CASE startIndex + n < Size
        <4>1. startIndex' = startIndex + n /\ startIndex' + k = startIndex + (n + k)
          BY <1>1, <1>6, <2>1, <3>1
        <4> QED
          BY <1>1, <2>1, <2>2, <2>3, <2>4, <4>1, Zenon
      <3>2. CASE startIndex + n >= Size
        <4>1. startIndex' = 0 /\ startIndex + n = Size /\ k < Size
          BY <1>1, <1>2, <1>6, <2>1, <3>2
        <4>2. startIndex' + k = k /\ startIndex + (n + k) = Size + k
          BY <1>1, <2>1, <4>1
        <4>3. (startIndex' + k) % Size = k
          BY <1>1, <2>1, <2>3, <4>1, <4>2, Zenon
        <4>4. Slot(n + k) = k
          <5>1. Slot(n + k) = (startIndex + (n + k)) - Size
            <6>1. ~(startIndex + (n + k) < Size)
              BY <1>1, <2>1, <4>1, <4>2
            <6> QED
              BY <2>4, <6>1, Zenon
          <5>2. (startIndex + (n + k)) - Size = k
            BY <1>1, <2>1, <4>1, <4>2
          <5> QED
            BY <5>1, <5>2, Zenon
        <4> QED
          BY <4>3, <4>4, Zenon
      <3> QED
        BY <1>1, <3>1, <3>2
    <2>6. buf[Slot(n + k)] = Len(delivered) + (n + k) + 1
      BY <2>1, Zenon DEF CopyInv, RingHolds
    <2> QED
      BY <1>1, <1>5, <2>1, <2>5, <2>6
  <1>9. RingHolds'
    <2>1. taken' = Len(delivered') + cacheLength'
      BY <1>1, <1>2, <1>5 DEF WriteSome
    <2> QED
      BY <1>8, <2>1, Zenon DEF RingHolds, Slot
  <1> QED
    BY <1>1, <1>2, <1>4, <1>7, <1>9

(* Every other step leaves the ring alone. *)
LEMMA RingAlone ==
  ASSUME CopyInv, UNCHANGED ring
  PROVE  RingHolds'
  BY Zenon DEF CopyInv, RingHolds, Slot, ring

LEMMA CopyInvNext == CopyInv /\ [Next]_vars => CopyInv'
  <1> SUFFICES ASSUME CopyInv, [Next]_vars PROVE CopyInv'
    BY Zenon
  <1> USE SizeAssumption, BoundsAssumption
  <1>1. ASSUME NEW n \in 0 .. Size, ReadSome(n) PROVE CopyInv'
    <2>1. TypeOK' /\ RingHolds' /\ n # 0
      BY <1>1, ReadKeepsRing, Zenon
    <2>2. ~readDone' /\ pc' # "done"
      BY <1>1, <2>1, Zenon DEF ReadSome, Reading, poll
    <2> QED
      BY <2>1, <2>2, Zenon DEF CopyInv, EofIsReal
  <1>2. ASSUME NEW n \in 1 .. Size, WriteSome(n) PROVE CopyInv'
    <2>1. TypeOK' /\ RingHolds'
      BY <1>2, WriteKeepsRing, Zenon
    <2>2. EofIsReal'
      BY <1>2, Zenon DEF CopyInv, EofIsReal, WriteSome, poll
    <2> QED
      BY <2>1, <2>2, Zenon DEF CopyInv
  <1>3. ASSUME NEW n \in 1 .. MaxBytes, PeerSends(n) PROVE CopyInv'
    <2>1. RingHolds'
      BY <1>3, RingAlone, Zenon DEF PeerSends
    <2>2. TypeOK'
      BY <1>3 DEF CopyInv, TypeOK, PeerSends, Wake, ring, flags, poll
    <2>3. EofIsReal'
      BY <1>3, Zenon DEF CopyInv, EofIsReal, PeerSends, ring, flags, poll
    <2> QED
      BY <2>1, <2>2, <2>3, Zenon DEF CopyInv
  <1>4. CASE Poll
    <2>1. RingHolds'
      BY <1>4, RingAlone, Zenon DEF Poll
    <2>2. TypeOK'
      BY <1>4, Zenon DEF CopyInv, TypeOK, Poll, ring, flags, poll, peers, wakers
    <2>3. EofIsReal'
      BY <1>4, Zenon DEF CopyInv, EofIsReal, Poll, ring, flags, poll, peers
    <2> QED
      BY <2>1, <2>2, <2>3, Zenon DEF CopyInv
  <1>5. CASE ReadEof
    <2>1. RingHolds'
      BY <1>5, RingAlone, Zenon DEF ReadEof
    <2>2. TypeOK'
      BY <1>5, Zenon DEF CopyInv, TypeOK, ReadEof, Reading, ring, flags, poll, peers, wakers
    <2>3. EofIsReal'
      BY <1>5, Zenon DEF CopyInv, EofIsReal, ReadEof, Reading, ring, flags, poll, peers
    <2> QED
      BY <2>1, <2>2, <2>3, Zenon DEF CopyInv
  <1>6. CASE ReadPending
    <2>1. RingHolds'
      BY <1>6, RingAlone, Zenon DEF ReadPending
    <2>2. TypeOK'
      BY <1>6, Zenon DEF CopyInv, TypeOK, ReadPending, Reading, ring, flags, poll, peers, wakers
    <2>3. EofIsReal'
      BY <1>6, Zenon DEF CopyInv, EofIsReal, ReadPending, Reading, ring, flags, poll, peers
    <2> QED
      BY <2>1, <2>2, <2>3, Zenon DEF CopyInv
  <1>7. CASE ReadStops
    <2>1. RingHolds'
      BY <1>7, RingAlone, Zenon DEF ReadStops
    <2>2. TypeOK'
      BY <1>7, Zenon DEF CopyInv, TypeOK, ReadStops, ring, flags, poll, peers, wakers
    <2>3. EofIsReal'
      BY <1>7, Zenon DEF CopyInv, EofIsReal, ReadStops, ring, flags, poll, peers
    <2> QED
      BY <2>1, <2>2, <2>3, Zenon DEF CopyInv
  <1>8. CASE WritePending
    <2>1. RingHolds'
      BY <1>8, RingAlone, Zenon DEF WritePending
    <2>2. TypeOK'
      BY <1>8, Zenon DEF CopyInv, TypeOK, WritePending, ring, flags, poll, peers, wakers
    <2>3. EofIsReal'
      BY <1>8, Zenon DEF CopyInv, EofIsReal, WritePending, ring, flags, poll, peers
    <2> QED
      BY <2>1, <2>2, <2>3, Zenon DEF CopyInv
  <1>9. CASE WriteStops
    <2>1. RingHolds'
      BY <1>9, RingAlone, Zenon DEF WriteStops
    <2>2. TypeOK'
      BY <1>9, Zenon DEF CopyInv, TypeOK, WriteStops, ring, flags, poll, peers, wakers
    <2>3. EofIsReal'
      BY <1>9, Zenon DEF CopyInv, EofIsReal, WriteStops, ring, flags, poll, peers
    <2> QED
      BY <2>1, <2>2, <2>3, Zenon DEF CopyInv
  <1>10. CASE Flush
    <2>1. RingHolds'
      BY <1>10, RingAlone, Zenon DEF Flush
    <2>2. TypeOK'
      BY <1>10, Zenon DEF CopyInv, TypeOK, Flush, ring, flags, poll, peers, wakers
    <2>3. EofIsReal'
      BY <1>10, Zenon DEF CopyInv, EofIsReal, Flush, ring, flags, poll, peers
    <2> QED
      BY <2>1, <2>2, <2>3, Zenon DEF CopyInv
  <1>11. CASE Check
    <2>1. RingHolds'
      BY <1>11, RingAlone, Zenon DEF Check
    <2>2. TypeOK'
      BY <1>11, Zenon DEF CopyInv, TypeOK, Check, ring, flags, poll, peers, wakers
    <2>3. EofIsReal'
      BY <1>11, Zenon DEF CopyInv, EofIsReal, Check, ring, flags, poll, peers
    <2> QED
      BY <2>1, <2>2, <2>3, Zenon DEF CopyInv
  <1>12. CASE Fail
    <2>1. RingHolds'
      BY <1>12, RingAlone, Zenon DEF Fail
    <2>2. TypeOK'
      BY <1>12, Zenon DEF CopyInv, TypeOK, Fail, Reading, ring, flags, poll, peers, wakers
    <2>3. EofIsReal'
      BY <1>12, Zenon DEF CopyInv, EofIsReal, Fail, Reading, ring, flags, poll, peers
    <2> QED
      BY <2>1, <2>2, <2>3, Zenon DEF CopyInv
  <1>13. CASE PeerCloses
    <2>1. RingHolds'
      BY <1>13, RingAlone, Zenon DEF PeerCloses
    <2>2. TypeOK'
      BY <1>13, Zenon DEF CopyInv, TypeOK, PeerCloses, Wake, ring, flags, poll, peers, wakers
    <2>3. EofIsReal'
      BY <1>13, Zenon DEF CopyInv, EofIsReal, PeerCloses, Wake, ring, flags, poll, peers
    <2> QED
      BY <2>1, <2>2, <2>3, Zenon DEF CopyInv
  <1>14. CASE WriterDrains
    <2>1. RingHolds'
      BY <1>14, RingAlone, Zenon DEF WriterDrains
    <2>2. TypeOK'
      BY <1>14 DEF CopyInv, TypeOK, WriterDrains, Wake, ring, flags, poll, peers, wakers
    <2>3. EofIsReal'
      BY <1>14, Zenon DEF CopyInv, EofIsReal, WriterDrains, Wake, ring, flags, poll, peers
    <2> QED
      BY <2>1, <2>2, <2>3, Zenon DEF CopyInv
  <1>15. CASE WriterFlushes
    <2>1. RingHolds'
      BY <1>15, RingAlone, Zenon DEF WriterFlushes
    <2>2. TypeOK'
      BY <1>15, Zenon DEF CopyInv, TypeOK, WriterFlushes, Wake, ring, flags, poll, peers, wakers
    <2>3. EofIsReal'
      BY <1>15, Zenon DEF CopyInv, EofIsReal, WriterFlushes, Wake, ring, flags, poll, peers
    <2> QED
      BY <2>1, <2>2, <2>3, Zenon DEF CopyInv
  <1>16. CASE UNCHANGED vars
    <2>1. RingHolds'
      BY <1>16, RingAlone, Zenon DEF vars
    <2>2. TypeOK' /\ EofIsReal'
      BY <1>16 DEF CopyInv, TypeOK, EofIsReal, vars, ring, flags, poll, peers, wakers
    <2> QED
      BY <2>1, <2>2, Zenon DEF CopyInv
  <1> QED
    BY <1>1, <1>2, <1>3, <1>4, <1>5, <1>6, <1>7, <1>8, <1>9, <1>10, <1>11, <1>12, <1>13, <1>14,
       <1>15, <1>16, ZenonT(30) DEF Next, CopyStep

(* Type correctness: the two indices stay inside the buffer (copy_bidirectional.rs:59-68, *)
(* 109-127), for every buffer size.                                                    *)
THEOREM TypeCorrect == Spec => []TypeOK
  <1>1. CopyInv => TypeOK
    BY Zenon DEF CopyInv
  <1> QED
    BY <1>1, CopyInvInit, CopyInvNext, PTL DEF Spec

(* A direction ends with success only when the reader's peer has closed and every byte *)
(* it sent was written (copy_bidirectional.rs:148), for every buffer size.             *)
THEOREM DoneIsComplete == Spec => []DoneMeansAll
  <1>1. CopyInv => DoneMeansAll
    BY DEF CopyInv, TypeOK, RingHolds, EofIsReal, DoneMeansAll, Produced
  <1> QED
    BY <1>1, CopyInvInit, CopyInvNext, PTL DEF Spec

(* Each step takes bytes, gives bytes, finishes, or is invisible to the abstract pipe. *)
LEMMA StepRefines ==
  ASSUME CopyInv, [Next]_vars
  PROVE  \/ Channel!Take \/ Channel!Give \/ Channel!Finish
         \/ UNCHANGED <<taken, delivered, pc = "done">>
  <1> USE SizeAssumption, BoundsAssumption
  <1>1. ASSUME NEW n \in 0 .. Size, ReadSome(n) PROVE Channel!Take
    <2>1. n \in 1 .. Size /\ taken' = taken + n /\ taken + n <= Len(delivered) + Size
      BY <1>1, ReadKeepsRing
    <2>2. pc # "done" /\ pc' # "done" /\ delivered' = delivered
      BY <1>1, Zenon DEF ReadSome, Reading, poll
    <2> QED
      BY <2>1, <2>2, Zenon DEF Channel!Take
  <1>2. ASSUME NEW n \in 1 .. Size, WriteSome(n) PROVE Channel!Give
    <2>1. Len(delivered) + n <= taken
          /\ delivered' = delivered \o [j \in 1 .. n |-> Len(delivered) + j]
      BY <1>2, WriteKeepsRing, Zenon
    <2>2. pc # "done" /\ pc' # "done" /\ taken' = taken
      BY <1>2, Zenon DEF WriteSome, poll
    <2> QED
      BY <2>1, <2>2, Zenon DEF Channel!Give
  <1>3. CASE Check
    <2>1. taken' = taken /\ delivered' = delivered /\ pc # "done"
      BY <1>3, Zenon DEF Check, ring
    <2>2. CASE pc' = "done"
      <3>1. cacheLength = 0 /\ Len(delivered) = taken
        BY <1>3, <2>2 DEF Check, CopyInv, TypeOK, RingHolds
      <3> QED
        BY <2>1, <2>2, <3>1, Zenon DEF Channel!Finish
    <2>3. CASE pc' # "done"
      BY <2>1, <2>3, Zenon
    <2> QED
      BY <2>2, <2>3, Zenon
  <1>4. CASE Poll \/ ReadEof \/ ReadPending \/ ReadStops \/ WritePending \/ WriteStops \/ Flush
    BY <1>4, Zenon DEF Poll, ReadEof, ReadPending, ReadStops, WritePending, WriteStops, Flush,
                Reading, ring, poll
  <1>5. CASE Fail \/ (\E n \in 1 .. MaxBytes : PeerSends(n)) \/ PeerCloses
             \/ WriterDrains \/ WriterFlushes
    BY <1>5, Zenon DEF Fail, PeerSends, PeerCloses, WriterDrains, WriterFlushes, Reading, ring,
       poll
  <1>6. CASE UNCHANGED vars
    BY <1>6, Zenon DEF vars, ring, poll
  <1> QED
    BY <1>1, <1>2, <1>3, <1>4, <1>5, <1>6, Zenon DEF Next, CopyStep

(* One direction of the relay implements the bounded byte pipe: nothing is lost,      *)
(* repeated or reordered, whatever the buffer size and however the two sides move     *)
(* (copy_bidirectional.rs:42-157).                                                    *)
THEOREM Refinement == Spec => ImplementsChannel
  <1>1. Init => Channel!Init
    BY Zenon DEF Init, Channel!Init
  <1>2. CopyInv /\ [Next]_vars =>
          [Channel!Take \/ Channel!Give \/ Channel!Finish]_<<taken, delivered, pc = "done">>
    BY StepRefines, Zenon
  <1> QED
    BY <1>1, <1>2, CopyInvInit, CopyInvNext, PTL DEF Spec, ImplementsChannel, Channel!Spec
==============================================================================
