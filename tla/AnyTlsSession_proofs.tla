------------------------ MODULE AnyTlsSession_proofs ------------------------
(***************************************************************************)
(* Proofs about AnyTlsSession for every set of stream ids, every number of  *)
(* tasks, all capacities and every client: types, dead entries of streams,  *)
(* close(), frames that are cut short, and the frames of a stream on the    *)
(* wire.                                                                    *)
(***************************************************************************)
EXTENDS AnyTlsSession, TLAPS

(***************************************************************************)
(* Type correctness, with the capacity bounds of the two kinds of channel.   *)
(***************************************************************************)
(* What the client has sent before run() starts is counted right. *)
LEMMA CountIsRight ==
  ASSUME NEW d \in InitialData, NEW cmd \in {"Syn", "Psh"}, NEW i \in StreamIds
  PROVE  Count(d, cmd, i) \in Nat /\ Numbers(d, cmd, i) = 1 .. Count(d, cmd, i)
  <1>1. \E c \in 0 .. Len(d) : Numbers(d, cmd, i) = 1 .. c
    BY NumberedAssumption, ZenonT(30)
  <1>2. Count(d, cmd, i) \in 0 .. Len(d) /\ Numbers(d, cmd, i) = 1 .. Count(d, cmd, i)
    BY <1>1, Zenon DEF Count
  <1>3. d \in Seq(Frame)
    BY FramesAssumption
  <1> QED
    BY <1>2, <1>3

LEMMA TypeInit == Init => TypeOK
  <1> SUFFICES ASSUME Init PROVE TypeOK
    OBVIOUS
  <1>1. TypeClient
    <2>1. /\ net = <<>> /\ hungup = FALSE /\ sent = Len(buf) /\ buf \in Seq(Frame)
          /\ opened = [i \in StreamIds |-> Count(buf, "Syn", i)]
          /\ pushed = [i \in StreamIds |-> Count(buf, "Psh", i)]
      BY FramesAssumption DEF Init
    <2>2. hungup \in BOOLEAN
      BY <2>1, Zenon
    <2>4. net \in Seq(Frame) /\ sent \in Nat
      BY <2>1
    <2>5. \A i \in StreamIds : Count(buf, "Syn", i) \in Nat /\ Count(buf, "Psh", i) \in Nat
      BY CountIsRight, Zenon DEF Init
    <2>3. opened \in [StreamIds -> Nat] /\ pushed \in [StreamIds -> Nat]
      BY <2>1, <2>5
    <2> QED
      BY <2>2, <2>3, <2>4 DEF TypeClient
  <1>2. TypeRecv
    BY FramesAssumption DEF Init, TypeRecv, At, RecvPcs
  <1>3. TypeMaps /\ TypeNego
    BY Zenon DEF Init, TypeMaps, TypeNego
  <1>4. TypeClosing
    BY Zenon DEF Init, TypeClosing, CloseSteps
  <1>5. TypeTask
    BY Capacities DEF Init, TypeTask, TaskPcs
  <1>6. TypeOut
    BY Capacities DEF Init, TypeOut, Fin
  <1>7. TypeConn
    <2>1. /\ wst = [a \in Actors |-> "idle"] /\ link = "open"
          /\ wire = [t \in Tasks |-> <<>>] /\ cut = FALSE
      BY DEF Init
    <2>2. wst \in [Actors -> WriteStates] /\ link \in {"open", "shut", "down"}
      BY <2>1 DEF WriteStates
    <2>3. wire \in [Tasks -> Seq({"SynAck", "Psh", "Fin"})]
      BY <2>1
    <2>4. cut \in BOOLEAN
      BY <2>1, Zenon
    <2> QED
      BY <2>2, <2>3, <2>4 DEF TypeConn
  <1> QED
    BY <1>1, <1>2, <1>3, <1>4, <1>5, <1>6, <1>7 DEF TypeOK


(* The frame being decoded, and the rest of the buffer. *)
LEMMA DecodeTypes ==
  ASSUME TypeOK, buf # <<>>, NextFrame
  PROVE  /\ Head(buf).id \in StreamIds /\ Head(buf).arg \in Nat
         /\ buf' \in Seq(Frame)
  <1>1. Head(buf) \in Frame /\ Tail(buf) \in Seq(Frame)
    BY DEF TypeOK, TypeRecv
  <1> QED
    BY <1>1 DEF Frame, NextFrame

LEMMA TypeNext ==
  TypeOK /\ [Next]_vars => TypeOK'
  (* Appending within the capacity keeps a channel's type and bound. *)
  <1>AppendBound.
    ASSUME NEW S, NEW s \in Seq(S), NEW e \in S, NEW n \in Nat, Len(s) < n
    PROVE  Append(s, e) \in Seq(S) /\ Len(Append(s, e)) <= n
    BY <1>AppendBound
  (* Writing a stream frame keeps the type of the wire. *)
  <1>WireAppend.
    ASSUME TypeConn, NEW t, NEW f \in {"SynAck", "Psh", "Fin"}
    PROVE  [wire EXCEPT ![t] = Append(@, f)] \in [Tasks -> Seq({"SynAck", "Psh", "Fin"})]
    <2> USE <1>WireAppend
    <2> DEFINE S == {"SynAck", "Psh", "Fin"}
    <2>1. wire \in [Tasks -> Seq(S)] /\ f \in S
      BY DEF TypeConn
    <2> HIDE DEF S
    <2>2. \A u \in Tasks : wire[u] \in Seq(S) /\ Append(wire[u], f) \in Seq(S)
      BY <2>1
    <2>3. [wire EXCEPT ![t] = Append(@, f)] \in [Tasks -> Seq(S)]
      BY <2>1, <2>2, Zenon
    <2> QED
      BY <2>3 DEF S
  (* Taking from a channel keeps its type and bound. *)
  <1>TailBound.
    ASSUME NEW S, NEW s \in Seq(S), s # <<>>, NEW n \in Nat, Len(s) <= n
    PROVE  /\ Head(s) \in S /\ Tail(s) \in Seq(S) /\ Len(Tail(s)) <= n
    BY <1>TailBound
  (* A group of variables that a step leaves alone keeps its type. *)
  <1>TypeUnchanged.
    ASSUME TypeOK
    PROVE  /\ UNCHANGED client => TypeClient'
           /\ UNCHANGED recvs => TypeRecv'
           /\ UNCHANGED maps => TypeMaps'
           /\ UNCHANGED nego => TypeNego'
           /\ UNCHANGED closing => TypeClosing'
           /\ UNCHANGED task => TypeTask'
           /\ UNCHANGED outq => TypeOut'
           /\ UNCHANGED conn => TypeConn'
    <2> USE <1>TypeUnchanged
    <2> USE DEF TypeOK
    <2>1. UNCHANGED client => TypeClient'
      BY DEF client, TypeClient
    <2>2. UNCHANGED recvs => TypeRecv'
      BY DEF recvs, TypeRecv
    <2>3. UNCHANGED maps => TypeMaps'
      BY DEF maps, TypeMaps
    <2>4. UNCHANGED nego => TypeNego'
      BY DEF nego, TypeNego
    <2>5. UNCHANGED closing => TypeClosing'
      BY DEF closing, TypeClosing
    <2>6. UNCHANGED task => TypeTask'
      BY DEF task, TypeTask
    <2>7. UNCHANGED outq => TypeOut'
      BY DEF outq, TypeOut
    <2>8. UNCHANGED conn => TypeConn'
      BY DEF conn, TypeConn
    <2> QED
      BY <2>1, <2>2, <2>3, <2>4, <2>5, <2>6, <2>7, <2>8
  (* Reading from, emptying or dropping the stream of t keeps the task state typed. *)
  <1>ReadDataType.
    ASSUME TypeOK, NEW t \in Tasks, ReadData(t)
    PROVE  /\ got' \in [Tasks -> Nat] /\ chan' \in [Tasks -> Seq(Nat)]
           /\ \A u \in Tasks : Len(chan'[u]) <= ChanCap
    <2> USE <1>ReadDataType
    <2>1. /\ Head(chan[t]) \in Nat /\ Tail(chan[t]) \in Seq(Nat)
          /\ Len(Tail(chan[t])) <= ChanCap
      BY <1>TailBound, Capacities, Zenon DEF ReadData, TypeOK, TypeTask
    <2> QED
      BY <2>1 DEF ReadData, TypeOK, TypeTask
  <1>EmptyChanType.
    ASSUME TypeOK, NEW t \in Tasks, chan' = [chan EXCEPT ![t] = <<>>]
    PROVE  /\ chan' \in [Tasks -> Seq(Nat)]
           /\ \A u \in Tasks : Len(chan'[u]) <= ChanCap
    BY <1>EmptyChanType, Capacities DEF TypeOK, TypeTask
  <1>QueueType.
    ASSUME TypeOK, NEW t \in Tasks, Len(out) < OutCap
    PROVE  /\ Append(out, Fin(t)) \in Seq(Item) /\ Len(Append(out, Fin(t))) <= OutCap
           /\ Append(out, Data(t)) \in Seq(Item) /\ Len(Append(out, Data(t))) <= OutCap
    <2> USE <1>QueueType
    <2>1. Fin(t) \in Item /\ Data(t) \in Item
      BY DEF Fin, Data, Item
    <2> QED
      BY <2>1, <1>AppendBound, Capacities DEF TypeOK, TypeOut
  <1>DropStreamType.
    ASSUME TypeOK, NEW t \in Tasks, DropStream(t)
    PROVE  /\ shut' \in [Tasks -> BOOLEAN] /\ lostFin' \subseteq Tasks
           /\ chan' \in [Tasks -> Seq(Nat)]
           /\ \A u \in Tasks : Len(chan'[u]) <= ChanCap
           /\ out' \in Seq(Item) /\ Len(out') <= OutCap
    <2> USE <1>DropStreamType
    <2>1. out' \in Seq(Item) /\ Len(out') <= OutCap
      BY <1>QueueType DEF DropStream, TypeOK, TypeOut
    <2>2. shut' \in [Tasks -> BOOLEAN] /\ lostFin' \subseteq Tasks
      BY DEF DropStream, TypeOK, TypeTask
    <2> QED
      BY <2>1, <2>2, <1>EmptyChanType, Zenon DEF DropStream
  <1>AfterSynAckType.
    ASSUME TypeOK, NEW t \in Tasks, NEW ok \in BOOLEAN, AfterSynAck(t, ok),
           UNCHANGED <<sid, got, eof, replies, opc, cur>>
    PROVE  TypeTask' /\ TypeOut'
    <2> USE <1>AfterSynAckType
    <2>1. CASE ok /\ Goto(t, "copy") /\ UNCHANGED <<shut, chan, out, lostFin>>
      BY <2>1, Zenon DEF Goto, TypeOK, TypeTask, TypeOut, TaskPcs
    <2>2. CASE ~ok /\ DropStream(t) /\ Goto(t, "exit")
      BY <2>2, <1>DropStreamType, Zenon DEF Goto, TypeOK, TypeTask, TypeOut, TaskPcs
    <2> QED
      BY <2>1, <2>2 DEF AfterSynAck, Leave
  <1> SUFFICES ASSUME TypeOK, [Next]_vars PROVE TypeOK'
    OBVIOUS
  <1>1. ASSUME NEW f \in ClientFrames, ClientSend(f) PROVE TypeOK'
    <2>1. Stamp(f) \in Frame /\ f.id \in StreamIds
      <3>1. f \in Frame /\ f.id \in StreamIds
        BY FramesAssumption DEF Frame
      <3>2. pushed[f.id] + 1 \in Nat /\ opened[f.id] + 1 \in Nat
        BY <3>1 DEF TypeOK, TypeClient
      <3>3. /\ [f EXCEPT !.arg = pushed[f.id] + 1] \in Frame
            /\ [f EXCEPT !.arg = opened[f.id] + 1] \in Frame
        BY <3>1, <3>2 DEF Frame
      <3> QED
        BY <3>1, <3>3 DEF Stamp
    <2>2. TypeClient'
      BY <1>1, <2>1, SMTT(30) DEF ClientSend, TypeOK, TypeClient
    <2> QED
      BY <1>1, <2>2, <1>TypeUnchanged DEF ClientSend, TypeOK
  <1>2. CASE ClientHangup
    <2>1. TypeClient'
      BY <1>2 DEF ClientHangup, client, TypeClient, TypeOK
    <2> QED
      BY <1>2, <2>1, <1>TypeUnchanged DEF ClientHangup, TypeOK
  <1>3. CASE LinkDown
    <2>1. TypeConn'
      BY <1>3 DEF LinkDown, conn, TypeConn, WriteStates, TypeOK
    <2> QED
      BY <1>3, <2>1, <1>TypeUnchanged DEF LinkDown, TypeOK
  <1>4. ASSUME NEW k \in 1 .. Len(net), RecvRead(k) PROVE TypeOK'
    <2>1. SubSeq(net, 1, k) \in Seq(Frame) /\ SubSeq(net, k + 1, Len(net)) \in Seq(Frame)
      BY DEF TypeOK, TypeClient
    <2>2. TypeClient'
      BY <1>4, <2>1 DEF RecvRead, TypeOK, TypeClient
    <2>3. TypeRecv'
      BY <1>4, <2>1, Zenon DEF RecvRead, TypeOK, TypeRecv, At, RecvPcs
    <2> QED
      BY <1>4, <2>2, <2>3, <1>TypeUnchanged DEF RecvRead, TypeOK
  <1>5. ASSUME NEW t \in Tasks, RecvSynOpen(t) PROVE TypeOK'
    <2>1. TypeRecv'
      BY <1>5, DecodeTypes, Zenon DEF RecvSynOpen, Decoding, TypeOK, TypeRecv, RecvPcs
    <2>2. TypeMaps'
      BY <1>5, DecodeTypes, Zenon DEF RecvSynOpen, Decoding, TypeOK, TypeMaps
    <2>3. TypeTask'
      BY <1>5, DecodeTypes, Zenon DEF RecvSynOpen, Decoding, TypeOK, TypeTask, TaskPcs
    <2> QED
      BY <1>5, <2>1, <2>2, <2>3, <1>TypeUnchanged, Zenon DEF RecvSynOpen, TypeOK
  <1>6. CASE RecvEnd
    <2>1. TypeRecv'
      BY <1>6 DEF RecvEnd, recvs, TypeRecv, At, RecvPcs, TypeOK
    <2> QED
      BY <1>6, <2>1, <1>TypeUnchanged DEF RecvEnd, TypeOK
  <1>7. CASE RecvPsh
    <2>1. TypeRecv'
      BY <1>7, DecodeTypes, Zenon DEF RecvPsh, Decoding, TypeMaps, recvs, TypeRecv, At,
         RecvPcs, TypeOK
    <2> QED
      BY <1>7, <2>1, <1>TypeUnchanged, Zenon DEF RecvPsh, TypeOK, Decoding
  <1>8. CASE RecvFin
    <2>1. TypeRecv'
      BY <1>8, DecodeTypes, Zenon DEF RecvFin, Decoding, TypeMaps, Eof, recvs, TypeRecv, At,
         RecvPcs, TypeOK
    <2>2. TypeMaps'
      BY <1>8, DecodeTypes, Zenon DEF RecvFin, Decoding, maps, TypeMaps, TypeOK
    <2> QED
      BY <1>8, <2>1, <2>2, <1>TypeUnchanged, Zenon DEF RecvFin, TypeOK, Decoding
  <1>9. CASE RecvSynDuplicate
    <2>1. TypeRecv'
      BY <1>9, DecodeTypes, Zenon DEF RecvSynDuplicate, Decoding, recvs, TypeRecv, At, RecvPcs,
         TypeOK
    <2> QED
      BY <1>9, <2>1, <1>TypeUnchanged DEF RecvSynDuplicate, TypeOK, Decoding
  <1>10. CASE RecvSynBeforeSettings
    <2>1. TypeRecv'
      BY <1>10, DecodeTypes DEF RecvSynBeforeSettings, Decoding, StartControl, recvs, TypeRecv,
         At, RecvPcs, TypeOK
    <2>2. TypeConn'
      BY <1>10, DecodeTypes, Zenon DEF RecvSynBeforeSettings, Decoding, StartControl, conn,
         TypeConn, WriteStates, TypeOK
    <2> QED
      BY <1>10, <2>1, <2>2, <1>TypeUnchanged, Zenon DEF RecvSynBeforeSettings, TypeOK,
         Decoding, StartControl
  <1>11. CASE RecvHeart
    <2>1. TypeRecv'
      BY <1>11, DecodeTypes DEF RecvHeart, Decoding, StartControl, recvs, TypeRecv, At,
         RecvPcs, TypeOK
    <2>2. TypeConn'
      BY <1>11, DecodeTypes, Zenon DEF RecvHeart, Decoding, StartControl, conn, TypeConn,
         WriteStates, TypeOK
    <2> QED
      BY <1>11, <2>1, <2>2, <1>TypeUnchanged, Zenon DEF RecvHeart, TypeOK, Decoding,
         StartControl
  <1>12. CASE RecvSettings
    <2>1. TypeRecv'
      BY <1>12, DecodeTypes DEF RecvSettings, Decoding, StartControl, recvs, TypeRecv, At,
         RecvPcs, TypeOK
    <2>2. TypeNego'
      BY <1>12, DecodeTypes, Zenon DEF RecvSettings, Decoding, StartControl, nego, TypeNego,
         TypeOK
    <2>3. TypeConn'
      BY <1>12, DecodeTypes DEF RecvSettings, Decoding, StartControl, conn, TypeConn,
         WriteStates, TypeOK
    <2> QED
      BY <1>12, <2>1, <2>2, <2>3, <1>TypeUnchanged, Zenon DEF RecvSettings, TypeOK, Decoding,
         StartControl
  <1>13. CASE RecvFatal
    <2>1. TypeRecv'
      BY <1>13, DecodeTypes DEF RecvFatal, Decoding, recvs, TypeRecv, At, RecvPcs, TypeOK
    <2> QED
      BY <1>13, <2>1, <1>TypeUnchanged DEF RecvFatal, TypeOK, Decoding
  <1>14. CASE RecvIgnore
    <2>1. TypeRecv'
      BY <1>14, DecodeTypes, Zenon DEF RecvIgnore, Decoding, recvs, TypeRecv, At, RecvPcs,
         TypeOK
    <2> QED
      BY <1>14, <2>1, <1>TypeUnchanged DEF RecvIgnore, TypeOK, Decoding
  <1>15. CASE RecvPush
    <2>1. chan' \in [Tasks -> Seq(Nat)] /\ \A t \in Tasks : Len(chan'[t]) <= ChanCap
      <3>1. CASE Gone(rcv.task) \/ rcv.task \notin Tasks
        BY <1>15, <3>1, Zenon DEF RecvPush, TypeOK, TypeTask
      <3>2. CASE ~Gone(rcv.task) /\ rcv.task \in Tasks
        <4>1. chan[rcv.task] \in Seq(Nat) /\ rcv.arg \in Nat
          BY <3>2, Zenon DEF TypeOK, TypeTask, TypeRecv
        <4>2. /\ Append(chan[rcv.task], rcv.arg) \in Seq(Nat)
              /\ Len(Append(chan[rcv.task], rcv.arg)) <= ChanCap
          BY <1>15, <3>2, <4>1, <1>AppendBound, Capacities, Zenon DEF RecvPush, HasRoom
        <4> QED
          BY <1>15, <3>2, <4>2, Zenon DEF RecvPush, TypeOK, TypeTask
      <3> QED
        BY <3>1, <3>2
    <2>2. TypeTask'
      BY <1>15, <2>1, Zenon DEF RecvPush, TypeOK, TypeTask
    <2>3. TypeRecv'
      BY <1>15, Zenon DEF RecvPush, TypeOK, TypeRecv, At, RecvPcs
    <2> QED
      BY <1>15, <2>2, <2>3, <1>TypeUnchanged DEF RecvPush, TypeOK
  <1>16. CASE RecvRegister
    <2>1. TypeRecv'
      BY <1>16 DEF RecvRegister, recvs, TypeRecv, At, RecvPcs, TypeOK
    <2>2. TypeMaps'
      BY <1>16, Zenon DEF RecvRegister, TypeRecv, maps, TypeMaps, TypeOK
    <2> QED
      BY <1>16, <2>1, <2>2, <1>TypeUnchanged, Zenon DEF RecvRegister, TypeOK
  <1>17. CASE RecvVersion
    <2>1. TypeRecv'
      BY <1>17 DEF RecvVersion, StartControl, recvs, TypeRecv, At, RecvPcs, TypeOK
    <2>2. TypeNego'
      BY <1>17, Zenon DEF RecvVersion, StartControl, TypeRecv, nego, TypeNego, TypeOK
    <2>3. TypeConn'
      BY <1>17 DEF RecvVersion, StartControl, conn, TypeConn, WriteStates, TypeOK
    <2> QED
      BY <1>17, <2>1, <2>2, <2>3, <1>TypeUnchanged, Zenon DEF RecvVersion, TypeOK, StartControl
  <1>18. CASE RecvControlDone
    <2>1. TypeRecv'
      BY <1>18 DEF RecvControlDone, WriteOk, AfterControl, recvs, TypeRecv, At, RecvPcs, TypeOK
    <2>2. TypeNego'
      BY <1>18 DEF RecvControlDone, WriteOk, AfterControl, nego, TypeNego, TypeOK
    <2>3. TypeConn'
      BY <1>18, Zenon DEF RecvControlDone, WriteOk, AfterControl, conn, TypeConn, WriteStates,
         TypeOK
    <2> QED
      BY <1>18, <2>1, <2>2, <2>3, <1>TypeUnchanged DEF RecvControlDone, TypeOK, WriteOk,
         AfterControl
  <1>19. CASE RecvControlFailed
    <2>1. TypeRecv'
      BY <1>19 DEF RecvControlFailed, WriteErr, recvs, TypeRecv, At, RecvPcs, TypeOK
    <2>2. TypeConn'
      BY <1>19, Zenon DEF RecvControlFailed, WriteErr, conn, TypeConn, WriteStates, TypeOK
    <2> QED
      BY <1>19, <2>1, <2>2, <1>TypeUnchanged, Zenon DEF RecvControlFailed, TypeOK, WriteErr
  <1>20. CASE RecvControlTimeout
    <2>1. TypeRecv'
      BY <1>20, Zenon DEF RecvControlTimeout, DropWrite, CloseStart, recvs, TypeRecv, At,
         RecvPcs, TypeOK
    <2>2. TypeClosing'
      BY <1>20 DEF RecvControlTimeout, DropWrite, CloseStart, closing, TypeClosing, CloseSteps,
         TypeOK
    <2>3. TypeConn'
      BY <1>20, Zenon DEF RecvControlTimeout, DropWrite, CloseStart, conn, TypeConn,
         WriteStates, TypeOK
    <2> QED
      BY <1>20, <2>1, <2>2, <2>3, <1>TypeUnchanged, Zenon DEF RecvControlTimeout, TypeOK,
         DropWrite, CloseStart
  <1>21. CASE RunClose
    <2>1. TypeClosing'
      BY <1>21, Zenon DEF RunClose, CloseStart, closing, TypeClosing, CloseSteps, TypeOK
    <2> QED
      BY <1>21, <2>1, <1>TypeUnchanged, Zenon DEF RunClose, TypeOK, CloseStart
  <1>22. CASE RunEnd
    <2>1. TypeRecv'
      BY <1>22, Zenon DEF RunEnd, DropWrite, recvs, TypeRecv, At, RecvPcs, TypeOK
    <2>2. TypeOut'
      BY <1>22 DEF RunEnd, DropWrite, outq, TypeOut, TypeOK
    <2>3. TypeConn'
      BY <1>22, Zenon DEF RunEnd, DropWrite, conn, TypeConn, WriteStates, TypeOK
    <2> QED
      BY <1>22, <2>1, <2>2, <2>3, <1>TypeUnchanged, Zenon DEF RunEnd, TypeOK, DropWrite
  <1>23. CASE CloseTasks
    <2>1. TypeMaps'
      BY <1>23 DEF CloseTasks, maps, TypeMaps, TypeOK
    <2>2. TypeClosing'
      BY <1>23 DEF CloseTasks, TypeMaps, closing, TypeClosing, CloseSteps, TypeOK
    <2> QED
      BY <1>23, <2>1, <2>2, <1>TypeUnchanged DEF CloseTasks, TypeOK
  <1>24. CASE CloseStreams
    <2>1. TypeMaps'
      BY <1>24 DEF CloseStreams, maps, TypeMaps, TypeOK
    <2>2. TypeClosing'
      BY <1>24 DEF CloseStreams, closing, TypeClosing, CloseSteps, TypeOK
    <2> QED
      BY <1>24, <2>1, <2>2, <1>TypeUnchanged DEF CloseStreams, TypeOK
  <1>25. CASE CloseWriter
    <2>1. TypeClosing'
      BY <1>25 DEF CloseWriter, closing, TypeClosing, CloseSteps, TypeOK
    <2>2. TypeConn'
      BY <1>25, Zenon DEF CloseWriter, conn, TypeConn, WriteStates, TypeOK
    <2> QED
      BY <1>25, <2>1, <2>2, <1>TypeUnchanged DEF CloseWriter, TypeOK
  <1>26. ASSUME NEW t \in Tasks, TaskAddress(t) PROVE TypeOK'
    <2>1. TypeTask'
      BY <1>26, <1>ReadDataType, Zenon DEF TaskAddress, Goto, task, TypeTask, TaskPcs, TypeOK
    <2> QED
      BY <1>26, <2>1, <1>TypeUnchanged, Zenon DEF TaskAddress, TypeOK, Goto
  <1>27. ASSUME NEW t \in Tasks, TaskRefuse(t) PROVE TypeOK'
    <2>1. TypeTask'
      BY <1>27, <1>DropStreamType, Zenon DEF TaskRefuse, Leave, Goto, task, TypeTask, TaskPcs,
         TypeOK
    <2>2. TypeOut'
      BY <1>27, <1>DropStreamType DEF TaskRefuse, Leave, Goto, outq, TypeOut, TypeOK
    <2> QED
      BY <1>27, <2>1, <2>2, <1>TypeUnchanged, Zenon DEF TaskRefuse, TypeOK, Leave, Goto
  <1>28. ASSUME NEW t \in Tasks, NEW ok \in BOOLEAN, TaskDial(t, ok) PROVE TypeOK'
    <2>1. CASE AfterSynAck(t, ok) /\ UNCHANGED conn
      BY <1>28, <2>1, <1>AfterSynAckType, <1>TypeUnchanged, Zenon DEF TaskDial, TypeOK
    <2>2. CASE ~(AfterSynAck(t, ok) /\ UNCHANGED conn)
      <3>1. TypeTask' /\ TypeOut'
        BY <1>28, <2>2, ZenonT(30) DEF TaskDial, Goto, TypeOK, TypeTask, TypeOut, TaskPcs
      <3>2. TypeConn'
        BY <1>28, <2>2, Zenon DEF TaskDial, TypeOK, TypeConn, WriteStates
      <3> QED
        BY <1>28, <3>1, <3>2, <1>TypeUnchanged DEF TaskDial, TypeOK
    <2> QED
      BY <2>1, <2>2
  <1>29. ASSUME NEW t \in Tasks, TaskSynAck(t) PROVE TypeOK'
    <2>1. TypeTask' /\ TypeOut'
      BY <1>29, <1>AfterSynAckType, Zenon DEF TaskSynAck
    <2>2. TypeConn'
      <3>1. CASE WriteOk(t) /\ wire' = [wire EXCEPT ![t] = Append(@, "SynAck")]
        BY <3>1, <1>WireAppend, Zenon DEF WriteOk, TypeOK, TypeConn, WriteStates
      <3>2. CASE WriteErr(t)
        BY <3>2, Zenon DEF WriteErr, TypeOK, TypeConn, WriteStates
      <3> QED
        BY <1>29, <3>1, <3>2 DEF TaskSynAck
    <2> QED
      BY <1>29, <2>1, <2>2, <1>TypeUnchanged DEF TaskSynAck, TypeOK
  <1>30. ASSUME NEW t \in Tasks, TaskSynAckTimeout(t) PROVE TypeOK'
    <2>1. TypeTask'
      BY <1>30, Zenon DEF TaskSynAckTimeout, DropWrite, CloseStart, Goto, task, TypeTask,
         TaskPcs, TypeOK
    <2>2. TypeClosing'
      BY <1>30 DEF TaskSynAckTimeout, DropWrite, CloseStart, Goto, closing, TypeClosing,
         CloseSteps, TypeOK
    <2>3. TypeConn'
      BY <1>30, Zenon DEF TaskSynAckTimeout, DropWrite, CloseStart, Goto, conn, TypeConn,
         WriteStates, TypeOK
    <2> QED
      BY <1>30, <2>1, <2>2, <2>3, <1>TypeUnchanged, Zenon DEF TaskSynAckTimeout, TypeOK,
         DropWrite, CloseStart, Goto
  <1>31. ASSUME NEW t \in Tasks, TaskClosed(t) PROVE TypeOK'
    <2>1. TypeTask' /\ TypeOut'
      BY <1>31, <1>AfterSynAckType, Zenon DEF TaskClosed
    <2> QED
      BY <1>31, <2>1, <1>TypeUnchanged, Zenon DEF TaskClosed, TypeOK
  <1>32. ASSUME NEW t \in Tasks, TaskUpload(t) PROVE TypeOK'
    <2>1. TypeTask'
      BY <1>32, <1>ReadDataType, Zenon DEF TaskUpload, task, TypeTask, TaskPcs, TypeOK
    <2> QED
      BY <1>32, <2>1, <1>TypeUnchanged, Zenon DEF TaskUpload, TypeOK
  <1>33. ASSUME NEW t \in Tasks, TaskUploadEof(t) PROVE TypeOK'
    <2>1. TypeTask'
      BY <1>33, <1>EmptyChanType, Zenon DEF TaskUploadEof, task, TypeTask, TaskPcs, TypeOK
    <2> QED
      BY <1>33, <2>1, <1>TypeUnchanged, Zenon DEF TaskUploadEof, TypeOK
  <1>34. ASSUME NEW t \in Tasks, TaskUploadBroken(t) PROVE TypeOK'
    <2>1. TypeTask'
      BY <1>34, Zenon DEF TaskUploadBroken, Goto, task, TypeTask, TaskPcs, TypeOK
    <2> QED
      BY <1>34, <2>1, <1>TypeUnchanged, Zenon DEF TaskUploadBroken, TypeOK, Goto
  <1>35. ASSUME NEW t \in Tasks, TaskReply(t) PROVE TypeOK'
    <2>1. TypeTask'
      <3>1. replies' \in [Tasks -> Nat]
        BY <1>35 DEF TaskReply, TypeTask, TypeOK
      <3>2. tpc' \in [Tasks -> TaskPcs]
        BY <1>35, Zenon DEF TaskReply, TypeTask, TaskPcs, TypeOK
      <3>3. UNCHANGED <<sid, got, eof, shut, chan, lostFin>>
        BY <1>35, Zenon DEF TaskReply
      <3> QED
        BY <3>1, <3>2, <3>3, Zenon DEF TypeTask, TypeOK
    <2>2. TypeOut'
      BY <1>35, <1>QueueType, Zenon DEF TaskReply, outq, TypeOut, TypeOK
    <2> QED
      BY <1>35, <2>1, <2>2, <1>TypeUnchanged, Zenon DEF TaskReply, TypeOK
  <1>36. ASSUME NEW t \in Tasks, TaskDestEof(t) PROVE TypeOK'
    <2>1. TypeTask'
      BY <1>36, <1>QueueType, Zenon DEF TaskDestEof, task, TypeTask, TaskPcs, TypeOK
    <2>2. TypeOut'
      BY <1>36, <1>QueueType, Zenon DEF TaskDestEof, outq, TypeOut, TypeOK
    <2> QED
      BY <1>36, <2>1, <2>2, <1>TypeUnchanged, Zenon DEF TaskDestEof, TypeOK
  <1>37. ASSUME NEW t \in Tasks, TaskRelayEnds(t) PROVE TypeOK'
    <2>1. TypeTask'
      BY <1>37, Zenon DEF TaskRelayEnds, Goto, task, TypeTask, TaskPcs, TypeOK
    <2> QED
      BY <1>37, <2>1, <1>TypeUnchanged, Zenon DEF TaskRelayEnds, TypeOK, Goto
  <1>38. ASSUME NEW t \in Tasks, TaskShutdown(t) PROVE TypeOK'
    <2>1. TypeTask'
      BY <1>38, <1>QueueType, <1>EmptyChanType, Zenon DEF TaskShutdown, Goto, task, TypeTask,
         TaskPcs, TypeOK
    <2>2. TypeOut'
      BY <1>38, <1>QueueType, <1>EmptyChanType, Zenon DEF TaskShutdown, Goto, outq, TypeOut,
         TypeOK
    <2> QED
      BY <1>38, <2>1, <2>2, <1>TypeUnchanged DEF TaskShutdown, TypeOK, Goto
  <1>39. ASSUME NEW t \in Tasks, TaskShutdownWait(t) PROVE TypeOK'
    <2>1. TypeTask'
      BY <1>39, Zenon DEF TaskShutdownWait, Goto, task, TypeTask, TaskPcs, TypeOK
    <2> QED
      BY <1>39, <2>1, <1>TypeUnchanged, Zenon DEF TaskShutdownWait, TypeOK, Goto
  <1>40. ASSUME NEW t \in Tasks, TaskCleanup(t) PROVE TypeOK'
    <2>1. TypeMaps'
      BY <1>40, Zenon DEF TaskCleanup, Goto, maps, TypeMaps, TypeOK
    <2>2. TypeTask'
      BY <1>40, Zenon DEF TaskCleanup, Goto, task, TypeTask, TaskPcs, TypeOK
    <2> QED
      BY <1>40, <2>1, <2>2, <1>TypeUnchanged DEF TaskCleanup, TypeOK, Goto
  <1>41. ASSUME NEW t \in Tasks, TaskCancel(t) PROVE TypeOK'
    <2>1. TypeClosing'
      BY <1>41, <1>DropStreamType, Zenon DEF TaskCancel, DropWrite, Goto, closing, TypeClosing,
         CloseSteps, TypeOK
    <2>2. TypeTask'
      BY <1>41, <1>DropStreamType, Zenon DEF TaskCancel, DropWrite, Goto, task, TypeTask,
         TaskPcs, TypeOK
    <2>3. TypeOut'
      BY <1>41, <1>DropStreamType DEF TaskCancel, DropWrite, Goto, outq, TypeOut, TypeOK
    <2>4. TypeConn'
      BY <1>41, <1>DropStreamType, Zenon DEF TaskCancel, DropWrite, Goto, conn, TypeConn,
         WriteStates, TypeOK
    <2> QED
      BY <1>41, <2>1, <2>2, <2>3, <2>4, <1>TypeUnchanged, Zenon DEF TaskCancel, TypeOK,
         DropWrite, Goto
  <1>42. CASE OutRecv
    <2>1. Head(out) \in Item /\ Tail(out) \in Seq(Item) /\ Len(Tail(out)) <= OutCap
      BY <1>42, <1>TailBound, Capacities, Zenon DEF OutRecv, TypeOK, TypeOut
    <2>2. TypeOut'
      BY <1>42, <2>1 DEF OutRecv, TypeOK, TypeOut, Item
    <2>3. TypeConn'
      BY <1>42, Zenon DEF OutRecv, TypeOK, TypeConn, WriteStates
    <2> QED
      BY <1>42, <2>2, <2>3, <1>TypeUnchanged, Zenon DEF OutRecv, TypeOK
  <1>43. CASE OutWrite
    <2>1. TypeOut'
      BY <1>43, Zenon DEF OutWrite, TypeOK, TypeOut
    <2>2. TypeConn'
      <3>1. CASE WriteOk("out")
        <4>1. wire' = wire \/ \E f \in {"SynAck", "Psh", "Fin"} :
                                wire' = [wire EXCEPT ![cur.task] = Append(@, f)]
          BY <1>43, Zenon DEF OutWrite, WriteErr
        <4>2. wire' \in [Tasks -> Seq({"SynAck", "Psh", "Fin"})]
          <5>1. CASE wire' = wire
            BY <5>1 DEF TypeOK, TypeConn
          <5>2. ASSUME NEW f \in {"SynAck", "Psh", "Fin"},
                       wire' = [wire EXCEPT ![cur.task] = Append(@, f)]
                PROVE  wire' \in [Tasks -> Seq({"SynAck", "Psh", "Fin"})]
            BY <5>2, <1>WireAppend, Zenon DEF TypeOK
          <5> QED
            BY <4>1, <5>1, <5>2, Zenon
        <4> QED
          BY <3>1, <4>2, Zenon DEF WriteOk, TypeOK, TypeConn, WriteStates
      <3>2. CASE WriteErr("out")
        BY <3>2, ZenonT(30) DEF WriteErr, TypeOK, TypeConn, WriteStates
      <3> QED
        BY <1>43, <3>1, <3>2 DEF OutWrite
    <2> QED
      BY <1>43, <2>1, <2>2, <1>TypeUnchanged, Zenon DEF OutWrite, TypeOK
  <1>44. CASE OutRemove
    <2>1. TypeMaps'
      BY <1>44, Zenon DEF OutRemove, maps, TypeMaps, TypeOK
    <2>2. TypeOut'
      BY <1>44, Zenon DEF OutRemove, outq, TypeOut, TypeOK
    <2> QED
      BY <1>44, <2>1, <2>2, <1>TypeUnchanged DEF OutRemove, TypeOK
  <1>45. ASSUME NEW a \in Actors, LockWriteBuf(a) PROVE TypeOK'
    <2>1. TypeConn'
      BY <1>45, Zenon DEF LockWriteBuf, TypeOK, TypeConn, WriteStates
    <2> QED
      BY <1>45, <2>1, <1>TypeUnchanged, Zenon DEF LockWriteBuf, TypeOK
  <1>46. CASE UNCHANGED vars
    BY <1>46, <1>TypeUnchanged, Zenon DEF vars, TypeOK
  <1>47. ASSUME NEW t \in Tasks, TaskStep(t) \/ DestStep(t) PROVE TypeOK'
    BY <1>47, <1>26, <1>27, <1>28, <1>29, <1>31, <1>32, <1>33, <1>34, <1>35, <1>36,
       <1>37, <1>38, <1>39, <1>40, <1>41, Zenon DEF TaskStep, DestStep
  <1>48. CASE RecvStep
    BY <1>48, <1>4, <1>5, <1>6, <1>7, <1>8, <1>9, <1>10, <1>11, <1>12, <1>13, <1>14,
       <1>15, <1>16, <1>17, <1>18, <1>19, <1>21, <1>22, Zenon DEF RecvStep
  <1>49. CASE ClientStep \/ CloseStep \/ OutStep \/ Timeout
    BY <1>49, <1>1, <1>2, <1>3, <1>20, <1>23, <1>24, <1>25, <1>30, <1>42, <1>43, <1>44, Zenon
    DEF ClientStep, CloseStep, OutStep, Timeout
  <1> QED
    BY <1>45, <1>46, <1>47, <1>48, <1>49 DEF Next

(* Every reachable state is well typed and no bounded channel exceeds the       *)
(* capacity it was created with (session.rs:107, 291).                          *)
THEOREM TypeCorrect == Spec => []TypeOK
  BY TypeInit, TypeNext, PTL DEF Spec

(***************************************************************************)
(* No dead entry without a FIN.  The invariant is not inductive by itself:   *)
(* it needs to know whose entry each one is, and it has to speak of the      *)
(* streams that are closed, not only of those whose handler is gone.         *)
(***************************************************************************)
(* A FIN of t is on its way to process_outgoing, or was lost for want of room. *)
FinPending(t) ==
    \/ t \in lostFin
    \/ \E k \in 1 .. Len(out) : out[k] = Fin(t)
    \/ cur = Fin(t) /\ opc \in {"write", "remove"}

(* An entry belongs to the task that was spawned for its id. *)
EntryOwner ==
    \A i \in StreamIds, t \in Tasks : streams[i] = t => sid[t] = i /\ tpc[t] # "none"

(* A handler that is gone has closed its stream; one not yet spawned has not. *)
GoneIsShut ==
    \A t \in Tasks : (Gone(t) => shut[t]) /\ (tpc[t] = "none" => ~shut[t])

(* A closed stream that still has an entry has a FIN on its way. *)
ShutHasFin ==
    ~isClosed => \A i \in StreamIds, t \in Tasks : streams[i] = t /\ shut[t] => FinPending(t)

FinInv == EntryOwner /\ GoneIsShut /\ ShutHasFin

LEMMA FinInvInit == Init => FinInv
  <1> SUFFICES ASSUME Init PROVE FinInv
    OBVIOUS
  <1>1. \A i \in StreamIds, t \in Tasks : streams[i] # t
    BY ActorsDiffer, Zenon DEF Init
  <1>2. \A t \in Tasks : tpc[t] = "none" /\ ~shut[t]
    BY Zenon DEF Init
  <1> QED
    BY <1>1, <1>2, Zenon DEF FinInv, EntryOwner, GoneIsShut, ShutHasFin, Gone

LEMMA FinInvImplies == TypeOK /\ FinInv => DeadEntriesHaveFin
  BY Zenon DEF FinInv, GoneIsShut, ShutHasFin, DeadEntriesHaveFin, FinPending

LEMMA FinInvNext ==
  TypeOK /\ FinInv /\ [Next]_vars => FinInv'
  (* A step that touches none of the variables of FinInv. *)
  <1>FinInvUnchanged.
    ASSUME FinInv, UNCHANGED <<streams, sid, tpc, shut, lostFin, outq>>,
           isClosed => isClosed'
    PROVE  FinInv'
    BY <1>FinInvUnchanged DEF FinInv, EntryOwner, GoneIsShut, ShutHasFin, FinPending, Gone,
       Fin, outq
  (* Queueing an item loses no pending FIN, and a queued FIN is pending. *)
  <1>QueueKeepsFin.
    ASSUME TypeOK, NEW t \in Tasks, NEW e \in Item, out' = Append(out, e),
           lostFin \subseteq lostFin', UNCHANGED <<opc, cur>>
    PROVE  (FinPending(t) => FinPending(t)') /\ (e = Fin(t) => FinPending(t)')
    <2> USE <1>QueueKeepsFin
    <2>1. /\ Len(out') = Len(out) + 1 /\ Len(out) \in Nat
          /\ \A k \in 1 .. Len(out) : out'[k] = out[k]
          /\ out'[Len(out) + 1] = e
      BY DEF TypeOK, TypeOut
    <2>2. e = Fin(t) => \E k \in 1 .. Len(out') : out'[k] = Fin(t)
      BY <2>1
    <2>3. ASSUME NEW k \in 1 .. Len(out), out[k] = Fin(t)
          PROVE  \E j \in 1 .. Len(out') : out'[j] = Fin(t)
      BY <2>1, <2>3
    <2>4. CASE t \in lostFin \/ (cur = Fin(t) /\ opc \in {"write", "remove"})
      BY <2>2, <2>4, Zenon DEF FinPending, Fin
    <2> QED
      BY <2>2, <2>3, <2>4, Zenon DEF FinPending, Fin
  <1>SameQueueKeepsFin.
    ASSUME NEW t \in Tasks, out' = out, lostFin \subseteq lostFin', UNCHANGED <<opc, cur>>
    PROVE  FinPending(t) => FinPending(t)'
    BY <1>SameQueueKeepsFin, Zenon DEF FinPending, Fin
  (* A step of handler t: what it owes to FinInv. *)
  <1>TaskKeepsFinInv.
    ASSUME TypeOK, FinInv, NEW t \in Tasks, UNCHANGED <<streams, sid>>,
           NEW pc \in TaskPcs \ {"none"}, tpc' = [tpc EXCEPT ![t] = pc],
           shut' = shut \/ shut' = [shut EXCEPT ![t] = TRUE],
           pc \in {"exit", "done"} => shut'[t],
           isClosed => isClosed',
           \A u \in Tasks : FinPending(u) => FinPending(u)',
           ~isClosed' /\ shut'[t] => shut[t] \/ FinPending(t)'
    PROVE  FinInv'
    <2> USE <1>TaskKeepsFinInv
    <2>1. \A u \in Tasks : tpc'[u] = (IF u = t THEN pc ELSE tpc[u])
      BY Zenon DEF TypeOK, TypeTask
    <2>2. \A u \in Tasks : u # t => shut'[u] = shut[u]
      BY Zenon DEF TypeOK, TypeTask
    <2>3. EntryOwner'
      <3> SUFFICES ASSUME NEW i \in StreamIds, NEW u \in Tasks, streams[i] = u
                   PROVE  sid[u] = i /\ tpc'[u] # "none"
        BY Zenon DEF EntryOwner
      <3>1. sid[u] = i /\ tpc[u] # "none"
        BY Zenon DEF FinInv, EntryOwner
      <3> QED
        BY <2>1, <3>1, Zenon
    <2>4. GoneIsShut'
      BY <2>1, <2>2 DEF FinInv, GoneIsShut, Gone
    <2>5. ShutHasFin'
      BY <2>2, Zenon DEF FinInv, ShutHasFin
    <2> QED
      BY <2>3, <2>4, <2>5, Zenon DEF FinInv
  (* Dropping the stream of t: pending FINs stay, and t's own is pending or was sent. *)
  <1>DropStreamFin.
    ASSUME TypeOK, NEW t \in Tasks, DropStream(t), UNCHANGED <<opc, cur>>
    PROVE  /\ shut' = [shut EXCEPT ![t] = TRUE] /\ shut'[t]
           /\ \A u \in Tasks : FinPending(u) => FinPending(u)'
           /\ shut[t] \/ FinPending(t)'
    <2> USE <1>DropStreamFin
    <2>1. shut' = [shut EXCEPT ![t] = TRUE] /\ shut'[t]
      BY Zenon DEF DropStream, TypeOK, TypeTask
    <2>2. Fin(t) \in Item /\ lostFin \subseteq lostFin'
      BY Zenon DEF DropStream, Fin, Item
    <2>3. CASE ~shut[t] /\ Len(out) < OutCap
      <3>1. out' = Append(out, Fin(t))
        BY <2>3, Zenon DEF DropStream
      <3> QED
        BY <2>1, <2>2, <3>1, <1>QueueKeepsFin, Zenon
    <2>4. CASE ~(~shut[t] /\ Len(out) < OutCap)
      <3>1. out' = out
        BY <2>4, Zenon DEF DropStream
      <3>2. ~shut[t] => t \in lostFin'
        BY <2>4, Capacities DEF DropStream, TypeOK, TypeOut
      <3> QED
        BY <2>1, <2>2, <3>1, <3>2, <1>SameQueueKeepsFin, Zenon DEF FinPending
    <2> QED
      BY <2>3, <2>4, Zenon
  <1>LeaveFinInv.
    ASSUME TypeOK, FinInv, NEW t \in Tasks, Leave(t),
           UNCHANGED <<streams, sid, opc, cur>>, isClosed => isClosed'
    PROVE  FinInv'
    BY <1>LeaveFinInv, <1>DropStreamFin, <1>TaskKeepsFinInv, Zenon DEF Leave, Goto, TaskPcs
  <1>GotoFinInv.
    ASSUME TypeOK, FinInv, NEW t \in Tasks,
           NEW pc \in TaskPcs \ {"none", "exit", "done"}, tpc' = [tpc EXCEPT ![t] = pc],
           UNCHANGED <<streams, sid, shut, out, lostFin, opc, cur>>, isClosed => isClosed'
    PROVE  FinInv'
    BY <1>GotoFinInv, <1>SameQueueKeepsFin, <1>TaskKeepsFinInv, Zenon DEF TaskPcs
  <1>AfterSynAckFinInv.
    ASSUME TypeOK, FinInv, NEW t \in Tasks, NEW ok \in BOOLEAN, AfterSynAck(t, ok),
           UNCHANGED <<streams, sid, opc, cur>>, isClosed => isClosed'
    PROVE  FinInv'
    <2> USE <1>AfterSynAckFinInv
    <2>1. CASE Leave(t)
      BY <2>1, <1>LeaveFinInv
    <2>2. CASE Goto(t, "copy") /\ UNCHANGED <<shut, chan, out, lostFin>>
      BY <2>2, <1>GotoFinInv, Zenon DEF Goto, TaskPcs
    <2> QED
      BY <2>1, <2>2, Zenon DEF AfterSynAck
  <1> SUFFICES ASSUME TypeOK, FinInv, [Next]_vars PROVE FinInv'
    OBVIOUS
  <1> USE DEF client, recvs, maps, nego, closing, task, conn
  <1>1. CASE ClientStep
    <2>1. ASSUME NEW f \in ClientFrames, ClientSend(f) PROVE FinInv'
      BY <2>1, <1>FinInvUnchanged, Zenon DEF ClientSend
    <2>2. CASE ClientHangup
      BY <2>2, <1>FinInvUnchanged, Zenon DEF ClientHangup
    <2>3. CASE LinkDown
      BY <2>3, <1>FinInvUnchanged, Zenon DEF LinkDown
    <2> QED
      BY <1>1, <2>1, <2>2, <2>3, Zenon DEF ClientStep
  <1>2. ASSUME NEW k \in 1 .. Len(net), RecvRead(k) PROVE FinInv'
    BY <1>2, <1>FinInvUnchanged, Zenon DEF RecvRead
  <1>3. ASSUME NEW t \in Tasks, RecvSynOpen(t) PROVE FinInv'
    <2> DEFINE id == Head(buf).id
    <2>1. id \in StreamIds
      BY <1>3, DecodeTypes, Zenon DEF RecvSynOpen, Decoding
    <2> HIDE DEF id
    <2>2. /\ streams' = [streams EXCEPT ![id] = t] /\ sid' = [sid EXCEPT ![t] = id]
          /\ tpc' = [tpc EXCEPT ![t] = "addr"] /\ tpc[t] = "none"
          /\ UNCHANGED <<isClosed, shut, lostFin, outq>>
      BY <1>3, Zenon DEF RecvSynOpen, id
    <2>3. /\ \A i \in StreamIds : streams'[i] = (IF i = id THEN t ELSE streams[i])
          /\ \A u \in Tasks : sid'[u] = (IF u = t THEN id ELSE sid[u])
          /\ \A u \in Tasks : tpc'[u] = (IF u = t THEN "addr" ELSE tpc[u])
      BY <2>2, Zenon DEF TypeOK, TypeMaps, TypeTask
    <2>4. \A i \in StreamIds : streams[i] # t
      BY <2>2, Zenon DEF FinInv, EntryOwner
    <2>5. EntryOwner'
      BY <2>3, <2>4 DEF FinInv, EntryOwner
    <2>6. GoneIsShut' /\ ~shut[t]
      BY <2>2, <2>3 DEF FinInv, GoneIsShut, Gone
    <2>7. \A u \in Tasks : FinPending(u)' = FinPending(u)
      BY <2>2 DEF FinPending, Fin, outq
    <2>8. ShutHasFin'
      <3> SUFFICES ASSUME ~isClosed, NEW i \in StreamIds, NEW u \in Tasks,
                          streams'[i] = u, shut[u]
                   PROVE  FinPending(u)'
        BY <2>2, Zenon DEF ShutHasFin
      <3>1. u # t /\ streams[i] = u
        BY <2>3, <2>6, Zenon
      <3>2. FinPending(u)
        BY <3>1 DEF FinInv, ShutHasFin
      <3> QED
        BY <2>7, <3>2
    <2> QED
      BY <2>5, <2>6, <2>8 DEF FinInv
  <1>4. ASSUME UNCHANGED <<sid, tpc, shut, lostFin, outq>>, isClosed => isClosed',
               \E S \in SUBSET StreamIds :
                   streams' = [i \in StreamIds |-> IF i \in S THEN None ELSE streams[i]]
        PROVE  FinInv'
    <2>1. \A i \in StreamIds, t \in Tasks : streams'[i] = t => streams[i] = t
      BY <1>4, ActorsDiffer, Zenon
    <2>2. EntryOwner' /\ GoneIsShut'
      BY <1>4, <2>1, ZenonT(30) DEF FinInv, EntryOwner, GoneIsShut, Gone
    <2>3. \A u \in Tasks : FinPending(u)' = FinPending(u)
      BY <1>4, Zenon DEF FinPending, Fin, outq
    <2>4. ShutHasFin'
      BY <1>4, <2>1, <2>3 DEF FinInv, ShutHasFin
    <2> QED
      BY <2>2, <2>4, Zenon DEF FinInv
  <1>5. CASE RecvFin
    <2>1. Head(buf).id \in StreamIds
      BY <1>5, DecodeTypes, Zenon DEF RecvFin, Decoding
    <2>2. streams' = [i \in StreamIds |-> IF i \in {Head(buf).id} THEN None ELSE streams[i]]
      BY <1>5, <2>1, Zenon DEF RecvFin, TypeOK, TypeMaps
    <2>3. \E S \in SUBSET StreamIds :
              streams' = [i \in StreamIds |-> IF i \in S THEN None ELSE streams[i]]
      <3>1. {Head(buf).id} \in SUBSET StreamIds
        BY <2>1, Zenon
      <3> QED
        BY <2>2, <3>1, Zenon
    <2> QED
      BY <1>4, <1>5, <2>3, Zenon DEF RecvFin
  <1>6. CASE RecvEnd \/ RecvPsh \/ RecvPush \/ RecvRegister \/ RecvSynDuplicate
             \/ RecvSynBeforeSettings \/ RecvHeart
    <2>1. CASE RecvEnd
      BY <2>1, <1>FinInvUnchanged DEF RecvEnd
    <2>2. CASE RecvPsh
      BY <2>2, <1>FinInvUnchanged, Zenon DEF RecvPsh
    <2>3. CASE RecvPush
      BY <2>3, <1>FinInvUnchanged, Zenon DEF RecvPush
    <2>4. CASE RecvRegister
      BY <2>4, <1>FinInvUnchanged, Zenon DEF RecvRegister
    <2>5. CASE RecvSynDuplicate
      BY <2>5, <1>FinInvUnchanged, Zenon DEF RecvSynDuplicate
    <2>6. CASE RecvSynBeforeSettings
      BY <2>6, <1>FinInvUnchanged, Zenon DEF RecvSynBeforeSettings
    <2>7. CASE RecvHeart
      BY <2>7, <1>FinInvUnchanged, Zenon DEF RecvHeart
    <2> QED
      BY <1>6, <2>1, <2>2, <2>3, <2>4, <2>5, <2>6, <2>7, Zenon
  <1>7. CASE RecvSettings \/ RecvVersion \/ RecvFatal \/ RecvIgnore \/ RecvControlDone
             \/ RecvControlFailed
    <2>1. CASE RecvSettings
      BY <2>1, <1>FinInvUnchanged, Zenon DEF RecvSettings
    <2>2. CASE RecvVersion
      BY <2>2, <1>FinInvUnchanged, Zenon DEF RecvVersion
    <2>3. CASE RecvFatal
      BY <2>3, <1>FinInvUnchanged, Zenon DEF RecvFatal
    <2>4. CASE RecvIgnore
      BY <2>4, <1>FinInvUnchanged, Zenon DEF RecvIgnore
    <2>5. CASE RecvControlDone
      BY <2>5, <1>FinInvUnchanged, Zenon DEF RecvControlDone
    <2>6. CASE RecvControlFailed
      BY <2>6, <1>FinInvUnchanged, ZenonT(30) DEF RecvControlFailed
    <2> QED
      BY <1>7, <2>1, <2>2, <2>3, <2>4, <2>5, <2>6, Zenon
  <1>8. CASE RunClose \/ RecvControlTimeout
    BY <1>8, <1>FinInvUnchanged DEF RunClose, RecvControlTimeout, CloseStart
  <1>9. CASE RunEnd
    BY <1>9, Zenon DEF RunEnd, FinInv, EntryOwner, GoneIsShut, ShutHasFin, Gone
  <1>10. CASE CloseTasks \/ CloseWriter
    BY <1>10, <1>FinInvUnchanged DEF CloseTasks, CloseWriter
  <1>11. CASE CloseStreams
    <2>1. \E S \in SUBSET StreamIds :
              streams' = [i \in StreamIds |-> IF i \in S THEN None ELSE streams[i]]
      <3> WITNESS StreamIds \in SUBSET StreamIds
      <3> QED
        BY <1>11 DEF CloseStreams
    <2> QED
      BY <1>4, <1>11, <2>1 DEF CloseStreams
  <1>12. ASSUME NEW t \in Tasks, TaskStep(t) \/ DestStep(t) \/ TaskSynAckTimeout(t)
         PROVE  FinInv'
    <2> USE DEF outq
    <2>1. CASE TaskAddress(t)
      BY <2>1, <1>GotoFinInv, Zenon DEF TaskAddress, Goto, TaskPcs
    <2>2. CASE TaskRefuse(t)
      BY <2>2, <1>LeaveFinInv, Zenon DEF TaskRefuse
    <2>3. ASSUME NEW ok \in BOOLEAN, TaskDial(t, ok) PROVE FinInv'
      <3>1. CASE AfterSynAck(t, ok)
        BY <2>3, <3>1, <1>AfterSynAckFinInv, Zenon DEF TaskDial
      <3>2. CASE ~AfterSynAck(t, ok)
        BY <2>3, <3>2, <1>GotoFinInv DEF TaskDial, Goto, TaskPcs
      <3> QED
        BY <3>1, <3>2, Zenon
    <2>4. CASE TaskSynAck(t)
      BY <2>4, <1>AfterSynAckFinInv, Zenon DEF TaskSynAck
    <2>5. CASE TaskClosed(t)
      BY <2>5, <1>AfterSynAckFinInv, Zenon DEF TaskClosed
    <2>6. CASE TaskSynAckTimeout(t)
      BY <2>6, <1>GotoFinInv, Zenon DEF TaskSynAckTimeout, CloseStart, Goto, TaskPcs
    <2>7. CASE TaskUpload(t) \/ TaskUploadEof(t)
      <3>1. CASE TaskUpload(t)
        BY <3>1, <1>FinInvUnchanged, Zenon DEF TaskUpload
      <3>2. CASE TaskUploadEof(t)
        BY <3>2, <1>FinInvUnchanged, Zenon DEF TaskUploadEof
      <3> QED
        BY <2>7, <3>1, <3>2
    <2>8. CASE TaskUploadBroken(t) \/ TaskRelayEnds(t) \/ TaskShutdownWait(t)
      <3>1. CASE TaskUploadBroken(t)
        BY <3>1, <1>GotoFinInv, Zenon DEF TaskUploadBroken, Goto, TaskPcs
      <3>2. CASE TaskRelayEnds(t)
        BY <3>2, <1>GotoFinInv, Zenon DEF TaskRelayEnds, Goto, TaskPcs
      <3>3. CASE TaskShutdownWait(t)
        BY <3>3, <1>GotoFinInv, Zenon DEF TaskShutdownWait, Goto, TaskPcs
      <3> QED
        BY <2>8, <3>1, <3>2, <3>3
    <2>9. Fin(t) \in Item /\ Data(t) \in Item
      BY Zenon DEF Fin, Data, Item
    <2>10. \E pc \in TaskPcs : tpc[t] = pc /\ tpc = [tpc EXCEPT ![t] = pc]
      BY DEF TypeOK, TypeTask
    <2>11. CASE TaskReply(t)
      <3>1. \A u \in Tasks : FinPending(u) => FinPending(u)'
        BY <2>9, <2>11, <1>QueueKeepsFin, <1>SameQueueKeepsFin DEF TaskReply
      <3>2. tpc' = [tpc EXCEPT ![t] = IF isClosed THEN "shut" ELSE "copy"]
        BY <2>11, Zenon DEF TaskReply, TypeOK, TypeTask
      <3> QED
        BY <2>11, <3>1, <3>2, <1>TaskKeepsFinInv, ZenonT(30) DEF TaskReply, TaskPcs
    <2>12. CASE TaskDestEof(t)
      <3>1. \A u \in Tasks : FinPending(u) => FinPending(u)'
        BY <2>9, <2>12, <1>QueueKeepsFin, <1>SameQueueKeepsFin, ZenonT(30) DEF TaskDestEof
      <3>2. ~isClosed => FinPending(t)'
        BY <2>9, <2>12, <1>QueueKeepsFin DEF TaskDestEof
      <3>3. tpc' = [tpc EXCEPT ![t] = IF eof[t] THEN "shut" ELSE "copy"]
        BY <2>12, Zenon DEF TaskDestEof, TypeOK, TypeTask
      <3> QED
        BY <2>12, <3>1, <3>2, <3>3, <1>TaskKeepsFinInv, Zenon DEF TaskDestEof, TaskPcs
    <2>13. CASE TaskShutdown(t)
      <3>1. \A u \in Tasks : FinPending(u) => FinPending(u)'
        BY <2>9, <2>13, <1>QueueKeepsFin, <1>SameQueueKeepsFin, Zenon DEF TaskShutdown
      <3>2. ~isClosed => shut[t] \/ FinPending(t)'
        BY <2>9, <2>13, <1>QueueKeepsFin, ZenonT(30) DEF TaskShutdown
      <3>3. shut'[t]
        BY <2>13 DEF TaskShutdown, TypeOK, TypeTask
      <3> QED
        BY <2>13, <3>1, <3>2, <3>3, <1>TaskKeepsFinInv, Zenon DEF TaskShutdown, Goto, TaskPcs
    <2>14. CASE TaskCleanup(t)
      <3>1. shut[t]
        BY <2>14, Zenon DEF TaskCleanup, FinInv, GoneIsShut, Gone
      <3> QED
        BY <2>14, <3>1, <1>SameQueueKeepsFin, <1>TaskKeepsFinInv, Zenon DEF TaskCleanup, Goto,
           TaskPcs
    <2>15. CASE TaskCancel(t)
      BY <2>15, <1>DropStreamFin, <1>TaskKeepsFinInv, Zenon DEF TaskCancel, Goto, TaskPcs
    <2> QED
      BY <1>12, <2>1, <2>2, <2>3, <2>4, <2>5, <2>6, <2>7, <2>8, <2>11, <2>12, <2>13,
         <2>14, <2>15, Zenon DEF TaskStep, DestStep
  <1>13. CASE OutRecv
    <2>1. EntryOwner' /\ GoneIsShut'
      BY <1>13, Zenon DEF OutRecv, FinInv, EntryOwner, GoneIsShut, Gone
    <2>2. ASSUME ~isClosed, NEW t \in Tasks, FinPending(t) PROVE FinPending(t)'
      <3>1. /\ cur' = Head(out) /\ opc' = "write" /\ lostFin' = lostFin
            /\ out' = Tail(out) /\ out # <<>>
        BY <1>13, <2>2 DEF OutRecv
      <3>2. /\ Head(out) = out[1] /\ Len(out) \in Nat /\ Len(out') = Len(out) - 1
            /\ \A k \in 1 .. Len(out') : out'[k] = out[k + 1]
        BY <3>1 DEF TypeOK, TypeOut
      <3>3. ASSUME NEW k \in 1 .. Len(out), out[k] = Fin(t) PROVE FinPending(t)'
        <4>1. CASE k = 1
          BY <3>1, <3>2, <3>3, <4>1, Zenon DEF FinPending, Fin
        <4>2. CASE k # 1
          <5>1. k - 1 \in 1 .. Len(out') /\ (k - 1) + 1 = k
            BY <3>2, <4>2
          <5>2. out'[k - 1] = Fin(t)
            BY <3>2, <3>3, <5>1
          <5> QED
            BY <5>1, <5>2, Zenon DEF FinPending, Fin
        <4> QED
          BY <4>1, <4>2, Zenon
      <3> QED
        BY <1>13, <2>2, <3>1, <3>3, Zenon DEF FinPending, OutRecv
    <2>3. ShutHasFin'
      BY <1>13, <2>2, Zenon DEF OutRecv, FinInv, ShutHasFin
    <2> QED
      BY <2>1, <2>3 DEF FinInv
  <1>14. CASE OutWrite
    <2>1. EntryOwner' /\ GoneIsShut'
      BY <1>14, Zenon DEF OutWrite, FinInv, EntryOwner, GoneIsShut, Gone
    <2>2. ASSUME NEW t \in Tasks, FinPending(t) PROVE FinPending(t)'
      <3>1. /\ lostFin' = lostFin /\ out' = out /\ cur' = cur
            /\ cur.fin = TRUE => opc' = "remove"
        BY <1>14, Zenon DEF OutWrite
      <3>2. cur = Fin(t) => cur.fin = TRUE
        BY DEF Fin
      <3> QED
        BY <2>2, <3>1, <3>2, Zenon DEF FinPending, Fin
    <2>3. ShutHasFin'
      BY <1>14, <2>2, Zenon DEF OutWrite, FinInv, ShutHasFin
    <2> QED
      BY <2>1, <2>3 DEF FinInv
  <1>15. CASE OutRemove
    <2>1. \A i \in StreamIds : streams'[i] = (IF i = sid[cur.task] THEN None ELSE streams[i])
      BY <1>15, Zenon DEF OutRemove, TypeOK, TypeMaps
    <2>2. /\ UNCHANGED <<isClosed, sid, tpc, shut>>
          /\ \A i \in StreamIds, t \in Tasks : streams'[i] = t => streams[i] = t
      BY <1>15, <2>1, ActorsDiffer, Zenon DEF OutRemove
    <2>3. EntryOwner'
      BY <2>2, ZenonT(30) DEF FinInv, EntryOwner
    <2>4. GoneIsShut'
      BY <2>2 DEF FinInv, GoneIsShut, Gone
    <2>5. ASSUME NEW t \in Tasks, NEW i \in StreamIds, streams'[i] = t, FinPending(t)
          PROVE  FinPending(t)'
      <3>1. streams[i] = t /\ i # sid[cur.task] /\ sid[t] = i
        BY <2>1, <2>5, ActorsDiffer, Zenon DEF FinInv, EntryOwner
      <3>2. cur # Fin(t)
        <4>1. Fin(t).task = t
          BY Zenon DEF Fin
        <4>2. cur.task # t
          BY <3>1, Zenon
        <4> QED
          BY <4>1, <4>2, Zenon
      <3> QED
        BY <1>15, <2>5, <3>2, Zenon DEF OutRemove, FinPending, Fin
    <2>6. ShutHasFin'
      <3> SUFFICES ASSUME ~isClosed, NEW i \in StreamIds, NEW t \in Tasks,
                          streams'[i] = t, shut[t]
                   PROVE  FinPending(t)'
        BY <2>2 DEF ShutHasFin
      <3>1. FinPending(t)
        BY <2>2, Zenon DEF FinInv, ShutHasFin
      <3> QED
        BY <2>5, <3>1, ZenonT(30)
    <2> QED
      BY <2>3, <2>4, <2>6 DEF FinInv
  <1>16. ASSUME NEW a \in Actors, LockWriteBuf(a) PROVE FinInv'
    BY <1>16, <1>FinInvUnchanged, Zenon DEF LockWriteBuf
  <1>17. CASE UNCHANGED vars
    BY <1>17, <1>FinInvUnchanged, ZenonT(30) DEF vars
  <1>18. CASE RecvStep \/ CloseStep \/ Timeout
    BY <1>18, <1>2, <1>3, <1>5, <1>6, <1>7, <1>8, <1>9, <1>10, <1>11, <1>12
    DEF RecvStep, CloseStep, Timeout
  <1> QED
    BY <1>1, <1>12, <1>13, <1>14, <1>15, <1>16, <1>17, <1>18, ZenonT(30) DEF Next, OutStep

(* While the session is open, an entry of streams whose handler is gone has its   *)
(* FIN queued, in the hands of process_outgoing, or dropped for want of room, so   *)
(* only a lost FIN can leave a dead entry behind (stream.rs:86-91, session.rs:     *)
(* 186-210).                                                                      *)
THEOREM DeadEntries == Spec => []DeadEntriesHaveFin
  <1>1. TypeOK /\ FinInv /\ [Next]_vars => (TypeOK /\ FinInv)'
    BY TypeNext, FinInvNext
  <1>2. Init => TypeOK /\ FinInv
    BY TypeInit, FinInvInit, Zenon
  <1> QED
    BY <1>1, <1>2, FinInvImplies, PTL DEF Spec

(***************************************************************************)
(* close() runs once.                                                       *)
(***************************************************************************)
(* Whoever has begun close() has won the compare_exchange. *)
CloserWon == IF closer.step = "none" THEN closer.who = None ELSE isClosed

LEMMA CloserWonInit == Init => CloserWon
  <1>1. Init => closer = [who |-> None, step |-> "none"]
    BY Zenon DEF Init
  <1> QED
    BY <1>1 DEF CloserWon

LEMMA CloserWonNext ==
  ASSUME TypeOK, CloserWon, [Next]_vars
  PROVE  CloserWon' /\ (closer.step = "over" => closer'.step = "over")
  <1> DEFINE Goal == CloserWon' /\ (closer.step = "over" => closer'.step = "over")
  <1>1. ASSUME UNCHANGED <<isClosed, closer>> PROVE Goal
    BY <1>1, Zenon DEF CloserWon
  <1>2. ASSUME NEW a, CloseStart(a) PROVE Goal
    BY <1>2 DEF CloseStart, CloserWon
  <1>3. CASE CloseStep
    BY <1>3, Zenon DEF CloseStep, CloseTasks, CloseStreams, CloseWriter, CloserWon, TypeOK,
                TypeClosing
  <1>4. ASSUME NEW t \in Tasks, TaskCancel(t) PROVE Goal
    <2>1. CASE closer.who = t
      BY <1>4, <2>1, ActorsDiffer DEF TaskCancel, CloserWon, TypeOK, TypeClosing
    <2>2. CASE closer.who # t
      BY <1>4, <2>2, ZenonT(30) DEF TaskCancel, CloserWon
    <2> QED
      BY <2>1, <2>2
  <1>5. CASE Timeout \/ RunClose
    BY <1>2, <1>5 DEF Timeout, RunClose, RecvControlTimeout, TaskSynAckTimeout
  <1>6. CASE ClientStep \/ OutStep \/ UNCHANGED vars \/ \E a \in Actors : LockWriteBuf(a)
    BY <1>1, <1>6, Zenon DEF ClientStep, ClientSend, ClientHangup, LinkDown, OutStep, OutRecv,
                      OutWrite, OutRemove, vars, LockWriteBuf, closing
  <1>7. CASE RecvStep
    <2>1. \/ RunClose \/ UNCHANGED closing
      BY <1>7, Zenon DEF RecvStep, RecvRead, RecvSynOpen, RecvEnd, RecvPsh, RecvFin, RecvPush,
                  RecvRegister, RecvSynDuplicate, RecvSynBeforeSettings, RecvHeart,
                  RecvSettings, RecvVersion, RecvFatal, RecvIgnore, RecvControlDone,
                  RecvControlFailed, RunEnd
    <2> QED
      BY <1>1, <1>5, <2>1 DEF closing
  <1>8. ASSUME NEW t \in Tasks, TaskStep(t) \/ DestStep(t) PROVE Goal
    <2>1. \/ TaskCancel(t) \/ UNCHANGED closing
      BY <1>8, Zenon DEF TaskStep, DestStep, TaskAddress, TaskRefuse, TaskDial, TaskSynAck,
                  TaskClosed, TaskUpload, TaskUploadEof, TaskUploadBroken, TaskShutdown,
                  TaskShutdownWait, TaskCleanup, TaskReply, TaskDestEof, TaskRelayEnds
    <2> QED
      BY <1>1, <1>4, <2>1 DEF closing
  <1> QED
    BY <1>3, <1>5, <1>6, <1>7, <1>8, Zenon DEF Next

(* The body of close() is never entered again once it is over, whichever of the   *)
(* receive loop and the stream handlers call it (session.rs:141-145).             *)
THEOREM CloseOnce == Spec => CloseRunsOnce
  <1>1. Init => TypeOK /\ CloserWon
    <2>1. Init => CloserWon
      BY CloserWonInit
    <2> QED
      BY <2>1, TypeInit
  <1>2. TypeOK /\ CloserWon /\ [Next]_vars => (TypeOK /\ CloserWon)'
    BY TypeNext, CloserWonNext
  <1>3. TypeOK /\ CloserWon /\ [Next]_vars =>
            [closer.step = "over" => closer'.step = "over"]_vars
    BY CloserWonNext, Zenon
  <1> QED
    BY <1>1, <1>2, <1>3, PTL DEF Spec, CloseRunsOnce

(***************************************************************************)
(* A frame that was cut short ends the session.                             *)
(***************************************************************************)
(* A task is only aborted, and so dropped in the middle of a write, once close() began. *)
CutInv == CutFrameEndsSession /\ (aborted # {} => isClosed)

LEMMA CutInvNext ==
  ASSUME TypeOK, CloserWon, CutInv, [Next]_vars
  PROVE  CutInv'
  <1>1. ASSUME UNCHANGED <<isClosed, aborted, cut>> PROVE CutInv'
    BY <1>1, Zenon DEF CutInv, CutFrameEndsSession
  <1>2. ASSUME NEW a, CloseStart(a) PROVE CutInv'
    BY <1>2 DEF CloseStart, CutInv, CutFrameEndsSession
  <1>3. CASE CloseTasks
    <2>1. isClosed /\ isClosed' = isClosed
      BY <1>3 DEF CloseTasks, CloserWon
    <2> QED
      BY <2>1 DEF CutInv, CutFrameEndsSession
  <1>4. CASE CloseStreams \/ CloseWriter
    BY <1>1, <1>4 DEF CloseStreams, CloseWriter, conn
  <1>5. ASSUME NEW t \in Tasks, TaskCancel(t) PROVE CutInv'
    <2>1. isClosed /\ isClosed' = isClosed
      BY <1>5, ZenonT(30) DEF TaskCancel, CutInv
    <2> QED
      BY <2>1 DEF CutInv, CutFrameEndsSession
  <1>6. CASE Timeout \/ RunClose
    BY <1>2, <1>6 DEF Timeout, RunClose, RecvControlTimeout, TaskSynAckTimeout
  <1>7. CASE ClientStep \/ OutStep \/ UNCHANGED vars \/ \E a \in Actors : LockWriteBuf(a)
    BY <1>1, <1>7, Zenon DEF ClientStep, ClientSend, ClientHangup, LinkDown, OutStep, OutRecv,
                      OutWrite, OutRemove, WriteOk, WriteErr, vars, LockWriteBuf, closing, conn
  <1>8. CASE RecvStep
    <2>1. CASE \/ RecvSynDuplicate \/ RecvSynBeforeSettings \/ RecvHeart \/ RecvSettings
               \/ RecvVersion \/ RecvFatal \/ RecvIgnore
      BY <1>1, <2>1, ZenonT(30) DEF RecvSynDuplicate, RecvSynBeforeSettings, RecvHeart,
         RecvSettings,
                        RecvVersion, RecvFatal, RecvIgnore, StartControl, closing, conn
    <2>2. CASE RecvControlDone \/ RecvControlFailed
      BY <1>1, <2>2 DEF RecvControlDone, RecvControlFailed, WriteOk, WriteErr, closing
    <2>3. CASE \/ (\E k \in 1 .. Len(net) : RecvRead(k)) \/ (\E t \in Tasks : RecvSynOpen(t))
               \/ RecvEnd \/ RecvPsh \/ RecvFin
      BY <1>1, <2>3, Zenon DEF RecvRead, RecvSynOpen, RecvEnd, RecvPsh, RecvFin, closing, conn
    <2>4. CASE RecvPush \/ RecvRegister
      BY <1>1, <2>4, Zenon DEF RecvPush, RecvRegister, closing, conn
    <2>5. CASE RunEnd
      <3>1. isClosed /\ isClosed' = isClosed
        BY <2>5, Zenon DEF RunEnd, closing
      <3> QED
        BY <3>1 DEF CutInv, CutFrameEndsSession
    <2> QED
      BY <1>6, <1>8, <2>1, <2>2, <2>3, <2>4, <2>5 DEF RecvStep
  <1>9. ASSUME NEW t \in Tasks, TaskStep(t) \/ DestStep(t) PROVE CutInv'
    <2>1. CASE TaskSynAck(t)
      BY <1>1, <2>1 DEF TaskSynAck, WriteOk, WriteErr, closing
    <2>2. CASE TaskAddress(t) \/ TaskRefuse(t) \/ (\E ok \in BOOLEAN : TaskDial(t, ok)) \/ TaskClosed(t)
      BY <1>1, <2>2, Zenon DEF TaskAddress, TaskRefuse, TaskDial, TaskClosed, closing, conn
    <2>3. CASE TaskUpload(t) \/ TaskUploadEof(t) \/ TaskUploadBroken(t) \/ TaskCleanup(t)
      BY <1>1, <2>3, Zenon DEF TaskUpload, TaskUploadEof, TaskUploadBroken, TaskCleanup,
         closing, conn
    <2>4. CASE TaskShutdown(t) \/ TaskShutdownWait(t) \/ DestStep(t)
      BY <1>1, <2>4, Zenon DEF TaskShutdown, TaskShutdownWait, DestStep, TaskReply, TaskDestEof,
                        TaskRelayEnds, closing, conn
    <2> QED
      BY <1>5, <1>9, <2>1, <2>2, <2>3, <2>4, ZenonT(30) DEF TaskStep
  <1> QED
    BY <1>3, <1>4, <1>6, <1>7, <1>8, <1>9, Zenon DEF Next, CloseStep

(* Once a frame was given up part way, by a timeout or with an aborted handler, the   *)
(* session is closed: nothing is written on behalf of an open session behind a         *)
(* truncated frame (session.rs:141-151, 525-539).                                      *)
THEOREM CutFrame == Spec => []CutFrameEndsSession
  <1>1. Init => TypeOK /\ CloserWon /\ CutInv
    <2>1. Init => CutInv
      BY Zenon DEF Init, CutInv, CutFrameEndsSession
    <2> QED
      BY <2>1, CloserWonInit, TypeInit, Zenon
  <1>2. TypeOK /\ CloserWon /\ CutInv /\ [Next]_vars => (TypeOK /\ CloserWon /\ CutInv)'
    BY TypeNext, CloserWonNext, CutInvNext
  <1>3. CutInv => CutFrameEndsSession
    BY DEF CutInv
  <1> QED
    BY <1>1, <1>2, <1>3, PTL DEF Spec

(***************************************************************************)
(* The frames of a stream on the wire.  They pass through the outgoing       *)
(* channel and the hands of process_outgoing, so the invariant speaks of     *)
(* what is on the wire and of what is still to be written.                   *)
(***************************************************************************)
(* Where a handler has not yet passed send_synack. *)
Early == {"none", "addr", "dial", "synackOk", "synackErr", "closingOk", "closingErr"}

(* The items that process_outgoing has still to write, in their order. *)
Pend == IF opc = "write" THEN <<cur>> \o out ELSE out

HasFin(w) == \E k \in 1 .. Len(w) : w[k] = "Fin"
HasItem(P, t) == \E k \in 1 .. Len(P) : P[k].task = t
InOrder(w) == \A j, k \in 1 .. Len(w) : j < k => w[j] # "Fin" /\ w[k] # "SynAck"

(* Handler t at pc with stream_closed = sh, the items P to be written, and t's frames  *)
(* w on the wire: before send_synack nothing of t is under way, nothing of t follows   *)
(* its FIN, and a stream that is not closed has sent none.                             *)
FramesOK(t, pc, sh, P, w) ==
    /\ InOrder(w)
    /\ pc \in Early => w = <<>> /\ ~sh /\ ~HasItem(P, t)
    /\ \A j, k \in 1 .. Len(P) : j < k /\ P[j] = Fin(t) => P[k].task # t
    /\ HasFin(w) => ~HasItem(P, t)
    /\ ~sh => ~HasFin(w) /\ \A k \in 1 .. Len(P) : P[k] # Fin(t)

FramesInv ==
    /\ opc \in {"write", "remove"} => cur \in Item
    /\ opc = "remove" => shut[cur.task]
    /\ \A t \in Tasks : FramesOK(t, tpc[t], shut[t], Pend, wire[t])

LEMMA FramesInvInit == Init => FramesInv
  <1> SUFFICES ASSUME Init PROVE FramesInv
    OBVIOUS
  <1>1. opc = "recv" /\ out = <<>>
    BY DEF Init
  <1>2. Pend = <<>>
    BY <1>1, Zenon DEF Pend
  <1>3. ASSUME NEW t \in Tasks PROVE tpc[t] = "none" /\ shut[t] = FALSE /\ wire[t] = <<>>
    BY Zenon DEF Init
  <1>4. ASSUME NEW t \in Tasks PROVE FramesOK(t, "none", FALSE, <<>>, <<>>)
    BY DEF FramesOK, InOrder, HasFin, HasItem
  <1> QED
    BY <1>1, <1>2, <1>3, <1>4, ZenonT(30) DEF FramesInv

LEMMA FramesInvImplies == FramesInv => StreamFramesInOrder
  BY Zenon DEF FramesInv, FramesOK, InOrder, StreamFramesInOrder

WireFrames == {"SynAck", "Psh", "Fin"}

LEMMA PendType ==
  ASSUME TypeOK, FramesInv
  PROVE  /\ Pend \in Seq(Item)
         /\ wire \in [Tasks -> Seq(WireFrames)] /\ out \in Seq(Item)
  <1>1. out \in Seq(Item) /\ wire \in [Tasks -> Seq(WireFrames)]
    BY DEF TypeOK, TypeOut, TypeConn, WireFrames
  <1>2. CASE opc = "write"
    <2>1. cur \in Item
      BY <1>2 DEF FramesInv
    <2>2. <<cur>> \o out \in Seq(Item)
      BY <1>1, <2>1
    <2> QED
      BY <1>1, <1>2, <2>2 DEF Pend
  <1> QED
    BY <1>1, <1>2, Zenon DEF Pend

(* What a step of handler t does to the frames: it goes on, closes the stream, queues   *)
(* an item of a stream that is not closed, and writes the SYNACK when it leaves         *)
(* send_synack.                                                                         *)
TaskFrames(t) ==
    /\ UNCHANGED <<opc, cur>>
    /\ \A u \in Tasks \ {t} : tpc'[u] = tpc[u] /\ shut'[u] = shut[u] /\ wire'[u] = wire[u]
    /\ shut[t] => shut'[t]
    /\ tpc'[t] \in Early => tpc[t] \in Early /\ ~shut'[t] /\ wire'[t] = wire[t]
    /\ \/ out' = out
       \/ /\ ~shut[t] /\ tpc'[t] \notin Early
          /\ \E e \in Item : e.task = t /\ (e.fin => shut'[t]) /\ out' = Append(out, e)
    /\ \/ wire'[t] = wire[t]
       \/ tpc[t] \in Early /\ wire'[t] = Append(wire[t], "SynAck")

LEMMA EarlyPcs ==
  /\ \A pc \in {"none", "addr", "dial", "synackOk", "synackErr", "closingOk", "closingErr"} :
        pc \in Early
  /\ \A pc \in {"copy", "shut", "shutWait", "exit", "done"} : pc \notin Early
  BY DEF Early

(* A handler before send_synack has not closed its stream. *)
LEMMA EarlyOpen ==
  ASSUME FramesInv, NEW t \in Tasks, tpc[t] \in Early
  PROVE  ~shut[t]
  BY Zenon DEF FramesInv, FramesOK

LEMMA FramesInvNext ==
  TypeOK /\ FramesInv /\ [Next]_vars => FramesInv'
  (* The handler goes on, or stream_closed is set. *)
  <1>FramesLater.
    ASSUME NEW t, NEW P, NEW w, NEW pc, NEW sh, FramesOK(t, pc, sh, P, w), NEW pc2, NEW sh2,
           pc2 \in Early => pc \in Early /\ ~sh2, sh => sh2
    PROVE  FramesOK(t, pc2, sh2, P, w)
    BY <1>FramesLater DEF FramesOK
  (* An item is queued, of another stream or of this one. *)
  <1>FramesQueued.
    ASSUME NEW t \in Tasks, NEW P \in Seq(Item), NEW w, NEW pc, NEW sh,
           FramesOK(t, pc, sh, P, w), NEW e \in Item,
           e.task = t => ~sh /\ pc \notin Early
    PROVE  /\ e.task # t => FramesOK(t, pc, sh, Append(P, e), w)
           /\ e.task = t => FramesOK(t, pc, TRUE, Append(P, e), w)
           /\ e.task = t /\ ~e.fin => FramesOK(t, pc, sh, Append(P, e), w)
    <2> USE <1>FramesQueued
    <2> DEFINE Q == Append(P, e)
    <2>1. /\ Len(Q) = Len(P) + 1 /\ Len(P) \in Nat /\ Q[Len(P) + 1] = e
          /\ \A k \in 1 .. Len(P) : Q[k] = P[k]
      OBVIOUS
    <2> HIDE DEF Q
    <2>2. \A k \in 1 .. Len(Q) : (k \in 1 .. Len(P) /\ Q[k] = P[k]) \/ (k = Len(P) + 1 /\ Q[k] = e)
      <3>1. \A k \in 1 .. Len(Q) : k \in 1 .. Len(P) \/ k = Len(P) + 1
        BY <2>1
      <3> QED
        BY <2>1, <3>1, ZenonT(30)
    <2>3. \A j, k \in 1 .. Len(Q) : j < k => j \in 1 .. Len(P) /\ Q[j] = P[j]
      <3>1. \A j, k \in 1 .. Len(Q) : j < k => j \in 1 .. Len(P)
        BY <2>1
      <3> QED
        BY <2>1, <3>1, ZenonT(30)
    <2>4. e = Fin(t) => e.task = t /\ e.fin
      BY DEF Fin
    <2>5. e.task # t => (HasItem(Q, t) => HasItem(P, t))
      BY <2>2, Zenon DEF HasItem
    <2>6. CASE e.task # t
      <3>1. \A j, k \in 1 .. Len(Q) : j < k /\ Q[j] = Fin(t) => Q[k].task # t
        BY <2>2, <2>3, <2>6, Zenon DEF FramesOK
      <3>2. ~sh => \A k \in 1 .. Len(Q) : Q[k] # Fin(t)
        BY <2>2, <2>4, <2>6, Zenon DEF FramesOK
      <3> QED
        BY <2>5, <2>6, <3>1, <3>2, Zenon DEF FramesOK, Q
    <2>7. CASE e.task = t
      <3>1. ~HasFin(w) /\ InOrder(w) /\ pc \notin Early
        BY <2>7 DEF FramesOK
      <3>2. \A j, k \in 1 .. Len(Q) : j < k /\ Q[j] = Fin(t) => Q[k].task # t
        BY <2>3, <2>7, Zenon DEF FramesOK
      <3>3. ~e.fin => \A k \in 1 .. Len(Q) : Q[k] # Fin(t)
        BY <2>2, <2>4, <2>7, Zenon DEF FramesOK
      <3> QED
        BY <2>7, <3>1, <3>2, <3>3, Zenon DEF FramesOK, Q
    <2> QED
      BY <2>6, <2>7, Zenon
  (* The first item is taken away. *)
  <1>FramesDropped.
    ASSUME NEW t \in Tasks, NEW P \in Seq(Item), P # <<>>, NEW w, NEW pc, NEW sh,
           FramesOK(t, pc, sh, P, w)
    PROVE  FramesOK(t, pc, sh, Tail(P), w)
    <2> USE <1>FramesDropped
    <2> DEFINE Q == Tail(P)
    <2>1. Len(Q) = Len(P) - 1 /\ Len(P) \in Nat /\ \A k \in 1 .. Len(Q) : Q[k] = P[k + 1]
      OBVIOUS
    <2> HIDE DEF Q
    <2>2. \A k \in 1 .. Len(Q) : k + 1 \in 1 .. Len(P)
      BY <2>1
    <2>3. \A j, k \in 1 .. Len(Q) : j < k => j + 1 < k + 1
      BY <2>1
    <2>4. HasItem(Q, t) => HasItem(P, t)
      BY <2>1, <2>2, Zenon DEF HasItem
    <2>5. \A j, k \in 1 .. Len(Q) : j < k /\ Q[j] = Fin(t) => Q[k].task # t
      BY <2>1, <2>2, <2>3, ZenonT(30) DEF FramesOK
    <2>6. ~sh => \A k \in 1 .. Len(Q) : Q[k] # Fin(t)
      BY <2>1, <2>2, Zenon DEF FramesOK
    <2> QED
      BY <2>4, <2>5, <2>6, Zenon DEF FramesOK, Q
  (* The first item, one of t, is written to the wire. *)
  <1>FramesWritten.
    ASSUME NEW t \in Tasks, NEW P \in Seq(Item), P # <<>>, NEW w \in Seq(WireFrames), NEW pc,
           NEW sh, FramesOK(t, pc, sh, P, w), Head(P).task = t
    PROVE  FramesOK(t, pc, sh, Tail(P), Append(w, IF Head(P).fin THEN "Fin" ELSE "Psh"))
    <2> USE <1>FramesWritten
    <2> DEFINE Q == Tail(P)
               f == IF Head(P).fin THEN "Fin" ELSE "Psh"
               v == Append(w, f)
    <2>1. /\ Len(Q) = Len(P) - 1 /\ Len(P) \in Nat \ {0} /\ P[1] = Head(P) /\ Head(P) \in Item
          /\ \A k \in 1 .. Len(Q) : Q[k] = P[k + 1]
      OBVIOUS
    <2>2. FramesOK(t, pc, sh, Q, w)
      BY <1>FramesDropped, Zenon
    <2>3. Len(v) = Len(w) + 1 /\ v[Len(w) + 1] = f /\ \A k \in 1 .. Len(w) : v[k] = w[k]
      BY DEF WireFrames
    <2>4. Len(w) \in Nat
      OBVIOUS
    <2>5. (f = "Fin" \/ f = "Psh") /\ (f = "Fin" => Head(P) = Fin(t))
      BY <2>1, Zenon DEF Item, Fin
    <2> HIDE DEF Q, f, v
    <2>6. HasItem(P, t)
      BY <2>1 DEF HasItem
    <2>7. ~HasFin(w) /\ pc \notin Early
      BY <2>6, Zenon DEF FramesOK
    <2>8. InOrder(v)
      <3>1. \A k \in 1 .. Len(w) : w[k] # "Fin"
        BY <2>7, Zenon DEF HasFin
      <3>2. \A j, k \in 1 .. Len(w) : j < k => w[k] # "SynAck"
        BY Zenon DEF FramesOK, InOrder
      <3>3. ASSUME NEW j \in 1 .. Len(v), NEW k \in 1 .. Len(v), j < k
            PROVE  v[j] # "Fin" /\ v[k] # "SynAck"
        <4>1. j \in 1 .. Len(w)
          BY <2>3, <2>4, <3>3
        <4>2. v[j] # "Fin"
          BY <2>3, <3>1, <4>1, Zenon
        <4>3. k \in 1 .. Len(w) \/ k = Len(w) + 1
          BY <2>3, <2>4
        <4>4. v[k] # "SynAck"
          BY <2>3, <2>5, <3>2, <3>3, <4>1, <4>3
        <4> QED
          BY <4>2, <4>4, Zenon
      <3> QED
        BY <3>3 DEF InOrder
    <2>9. HasFin(v) => f = "Fin"
      <3>1. \A k \in 1 .. Len(v) : k \in 1 .. Len(w) \/ k = Len(w) + 1
        BY <2>3, <2>4
      <3> QED
        BY <2>3, <2>7, <3>1, ZenonT(30) DEF HasFin
    <2>10. f = "Fin" => ~HasItem(Q, t) /\ sh
      <3> SUFFICES ASSUME f = "Fin" PROVE ~HasItem(Q, t) /\ sh
        BY Zenon
      <3>1. P[1] = Fin(t) /\ 1 \in 1 .. Len(P)
        BY <2>1, <2>5
      <3>2. ASSUME NEW k \in 1 .. Len(Q) PROVE Q[k].task # t
        <4>1. k + 1 \in 1 .. Len(P) /\ 1 < k + 1
          BY <2>1
        <4>2. P[k + 1].task # t
          BY <3>1, <4>1, Zenon DEF FramesOK
        <4> QED
          BY <2>1, <4>2, Zenon
      <3>3. sh
        BY <3>1, Zenon DEF FramesOK
      <3> QED
        BY <3>2, <3>3, Zenon DEF HasItem
    <2>11. FramesOK(t, pc, sh, Q, v)
      BY <2>2, <2>7, <2>8, <2>9, <2>10, Zenon DEF FramesOK
    <2> QED
      BY <2>11, Zenon DEF Q, v, f
  <1>TaskFramesInv.
    ASSUME TypeOK, FramesInv, NEW t \in Tasks, TaskFrames(t)
    PROVE  FramesInv'
    <2> USE <1>TaskFramesInv
    <2>1. Pend \in Seq(Item) /\ out \in Seq(Item)
      BY PendType
    <2>2. Pend' = Pend \/ \E e \in Item : /\ ~shut[t] /\ tpc'[t] \notin Early /\ e.task = t
                                          /\ e.fin => shut'[t]
                                          /\ Pend' = Append(Pend, e)
      <3>1. CASE out' = out
        BY <3>1, Zenon DEF TaskFrames, Pend
      <3>2. ASSUME NEW e \in Item, out' = Append(out, e) PROVE Pend' = Append(Pend, e)
        <4>1. CASE opc = "write"
          <5>1. cur \in Item
            BY <4>1, Zenon DEF FramesInv
          <5>2. <<cur>> \o Append(out, e) = Append(<<cur>> \o out, e)
            BY <2>1, <5>1
          <5> QED
            BY <3>2, <4>1, <5>2, Zenon DEF Pend, TaskFrames
        <4>2. CASE opc # "write"
          BY <3>2, <4>2, Zenon DEF Pend, TaskFrames
        <4> QED
          BY <4>1, <4>2
      <3> QED
        BY <3>1, <3>2, Zenon DEF TaskFrames
    <2>3. \A u \in Tasks : FramesOK(u, tpc[u], shut[u], Pend, wire[u])
      BY Zenon DEF FramesInv
    <2>4. ASSUME NEW u \in Tasks \ {t} PROVE FramesOK(u, tpc'[u], shut'[u], Pend', wire'[u])
      <3>1. tpc'[u] = tpc[u] /\ shut'[u] = shut[u] /\ wire'[u] = wire[u]
        BY Zenon DEF TaskFrames
      <3>3. ASSUME NEW e \in Item, e.task = t, Pend' = Append(Pend, e)
            PROVE  FramesOK(u, tpc[u], shut[u], Pend', wire[u])
        <4>1. e.task # u /\ FramesOK(u, tpc[u], shut[u], Pend, wire[u])
          BY <2>3, <3>3, Zenon
        <4> QED
          BY <2>1, <3>3, <4>1, <1>FramesQueued, Zenon
      <3>2. FramesOK(u, tpc[u], shut[u], Pend', wire[u])
        BY <2>2, <2>3, <3>3, Zenon
      <3> QED
        BY <3>1, <3>2, Zenon
    <2>5. FramesOK(t, tpc'[t], shut'[t], Pend, wire'[t])
      <3>1. FramesOK(t, tpc[t], shut[t], Pend, wire[t])
        BY <2>3, Zenon
      <3>2. CASE wire'[t] = wire[t]
        <4>1. /\ tpc'[t] \in Early => tpc[t] \in Early /\ ~shut'[t]
              /\ shut[t] => shut'[t]
          BY Zenon DEF TaskFrames
        <4>2. FramesOK(t, tpc'[t], shut'[t], Pend, wire[t])
          BY <3>1, <4>1, Zenon DEF FramesOK
        <4> QED
          BY <3>2, <4>2, Zenon
      <3>3. CASE tpc[t] \in Early /\ wire'[t] = Append(wire[t], "SynAck")
        <4>1. wire[t] = <<>> /\ ~HasItem(Pend, t) /\ ~shut[t]
          BY <3>1, <3>3, Zenon DEF FramesOK
        <4>2. wire'[t] = <<"SynAck">> /\ wire'[t] # wire[t]
          <5>1. Append(<<>>, "SynAck") = <<"SynAck">> /\ <<"SynAck">> # <<>>
            OBVIOUS
          <5> QED
            BY <3>3, <4>1, <5>1, Zenon
        <4>3. tpc'[t] \notin Early
          BY <4>2, Zenon DEF TaskFrames
        <4>4. InOrder(<<"SynAck">>) /\ ~HasFin(<<"SynAck">>)
          BY DEF InOrder, HasFin
        <4>5. \A k \in 1 .. Len(Pend) : Pend[k] # Fin(t)
          BY <3>1, <4>1, Zenon DEF FramesOK
        <4>6. \A j, k \in 1 .. Len(Pend) : j < k /\ Pend[j] = Fin(t) => Pend[k].task # t
          BY <4>5
        <4>7. FramesOK(t, tpc'[t], shut'[t], Pend, <<"SynAck">>)
          BY <4>3, <4>4, <4>5, <4>6, Zenon DEF FramesOK
        <4> QED
          BY <4>2, <4>7, Zenon
      <3> QED
        BY <3>2, <3>3, Zenon DEF TaskFrames
    <2>6. FramesOK(t, tpc'[t], shut'[t], Pend', wire'[t])
      <3>1. CASE Pend' = Pend
        BY <2>5, <3>1
      <3>2. ASSUME NEW e \in Item, ~shut[t], tpc'[t] \notin Early, e.task = t,
                   e.fin => shut'[t], Pend' = Append(Pend, e)
            PROVE  FramesOK(t, tpc'[t], shut'[t], Pend', wire'[t])
        <4>1. FramesOK(t, tpc'[t], FALSE, Pend, wire'[t])
          <5>1. ~HasFin(wire'[t]) /\ \A k \in 1 .. Len(Pend) : Pend[k] # Fin(t)
            <6>1. ~HasFin(wire[t]) /\ \A k \in 1 .. Len(Pend) : Pend[k] # Fin(t)
              BY <2>3, <3>2, Zenon DEF FramesOK
            <6>2. CASE wire'[t] = wire[t]
              BY <6>1, <6>2, Zenon
            <6>3. CASE tpc[t] \in Early /\ wire'[t] = Append(wire[t], "SynAck")
              <7>1. wire[t] = <<>>
                BY <2>3, <6>3, Zenon DEF FramesOK
              <7>2. Append(<<>>, "SynAck") = <<"SynAck">>
                OBVIOUS
              <7>3. ~HasFin(<<"SynAck">>)
                BY DEF HasFin
              <7> QED
                BY <6>1, <6>3, <7>1, <7>2, <7>3, Zenon
            <6> QED
              BY <6>2, <6>3, Zenon DEF TaskFrames
          <5> QED
            BY <2>5, <3>2, <5>1, Zenon DEF FramesOK
        <4>2. FramesOK(t, tpc'[t], TRUE, Append(Pend, e), wire'[t])
          BY <2>1, <3>2, <4>1, <1>FramesQueued, Zenon
        <4>3. ~e.fin => FramesOK(t, tpc'[t], FALSE, Append(Pend, e), wire'[t])
          BY <2>1, <3>2, <4>1, <1>FramesQueued, Zenon
        <4>4. CASE shut'[t]
          BY <3>2, <4>2, <4>4, <1>FramesLater, Zenon
        <4>5. CASE ~shut'[t]
          BY <3>2, <4>3, <4>5, <1>FramesLater, Zenon
        <4> QED
          BY <4>4, <4>5, Zenon
      <3> QED
        BY <2>2, <3>1, <3>2, ZenonT(30)
    <2>7. opc = "remove" => shut'[cur.task]
      <3> SUFFICES ASSUME opc = "remove" PROVE shut'[cur.task]
        BY Zenon
      <3>1. shut[cur.task] /\ cur.task \in Tasks
        BY Zenon DEF FramesInv, Item
      <3> QED
        BY <3>1, Zenon DEF TaskFrames
    <2>8. \A u \in Tasks : FramesOK(u, tpc'[u], shut'[u], Pend', wire'[u])
      BY <2>4, <2>6, ZenonT(30)
    <2>9. opc' = opc /\ cur' = cur
      BY DEF TaskFrames
    <2> QED
      BY <2>7, <2>8, <2>9, Zenon DEF FramesInv, FramesOK, InOrder, HasFin, HasItem, Fin, Early
  (* A step that touches nothing of this. *)
  <1>FramesUnchanged.
    ASSUME FramesInv, UNCHANGED <<tpc, shut, wire>>, Pend' = Pend,
           opc' \in {"write", "remove"} => cur' \in Item,
           opc' = "remove" => shut[cur'.task]
    PROVE  FramesInv'
    <2> USE <1>FramesUnchanged
    <2>1. tpc' = tpc /\ shut' = shut /\ wire' = wire
      OBVIOUS
    <2>2. \A u \in Tasks : FramesOK(u, tpc'[u], shut'[u], Pend', wire'[u])
      BY <2>1, Zenon DEF FramesInv
    <2>3. opc' = "remove" => shut'[cur'.task]
      BY <2>1, ZenonT(30)
    <2> QED
      BY <2>2, <2>3, ZenonT(30) DEF FramesInv, FramesOK, InOrder, HasFin, HasItem, Fin, Early
  (* The steps of others than handlers and process_outgoing leave all of it alone. *)
  <1>QuietFrames.
    ASSUME \/ ClientStep \/ CloseStep \/ RecvControlTimeout \/ UNCHANGED vars
           \/ \E a \in Actors : LockWriteBuf(a)
           \/ RecvStep /\ ~RunEnd /\ ~(\E t \in Tasks : RecvSynOpen(t))
    PROVE  UNCHANGED <<tpc, shut, out, opc, cur, wire>>
    <2> USE <1>QuietFrames
    <2> USE DEF task, outq, conn
    <2>1. CASE ClientStep
      BY <2>1, Zenon DEF ClientStep, ClientSend, ClientHangup, LinkDown
    <2>2. CASE CloseStep
      BY <2>2, Zenon DEF CloseStep, CloseTasks, CloseStreams, CloseWriter
    <2>3. CASE RecvControlTimeout \/ UNCHANGED vars \/ \E a \in Actors : LockWriteBuf(a)
      BY <2>3, Zenon DEF RecvControlTimeout, DropWrite, vars, LockWriteBuf
    <2>4. CASE RecvStep /\ ~RunEnd /\ ~(\E t \in Tasks : RecvSynOpen(t))
      BY <2>4, Zenon
      DEF RecvStep, RecvRead, RecvEnd, RecvPsh, RecvFin, RecvPush, RecvRegister,
          RecvSynDuplicate, RecvSynBeforeSettings, RecvHeart, RecvSettings, RecvVersion,
          RecvFatal, RecvIgnore, RecvControlDone, RecvControlFailed, RunClose, StartControl,
          WriteOk, WriteErr
    <2> QED
      BY <2>1, <2>2, <2>3, <2>4
  <1>QueuesItem.
    ASSUME NEW t \in Tasks
    PROVE  /\ Fin(t) \in Item /\ Fin(t).task = t /\ Fin(t).fin
           /\ Data(t) \in Item /\ Data(t).task = t /\ ~Data(t).fin
    BY <1>QueuesItem DEF Fin, Data, Item
  (* A handler that drops its stream. *)
  <1>DropFrames.
    ASSUME TypeOK, NEW t \in Tasks, DropStream(t), NEW pc \in {"exit", "done"}, Goto(t, pc),
           UNCHANGED <<opc, cur>>,
           \A u \in Tasks \ {t} : wire'[u] = wire[u],
           \/ wire'[t] = wire[t]
           \/ tpc[t] \in Early /\ wire'[t] = Append(wire[t], "SynAck")
    PROVE  TaskFrames(t)
    <2> USE <1>DropFrames
    <2>1. /\ \A u \in Tasks \ {t} : tpc'[u] = tpc[u] /\ shut'[u] = shut[u]
          /\ tpc'[t] = pc /\ shut'[t]
      BY ZenonT(30) DEF DropStream, Goto, TypeOK, TypeTask
    <2>2. pc \notin Early
      BY DEF Early
    <2>3. out' = out \/ (~shut[t] /\ out' = Append(out, Fin(t)))
      BY Zenon DEF DropStream
    <2> QED
      BY <2>1, <2>2, <2>3, <1>QueuesItem, Zenon DEF TaskFrames
  (* A handler that goes on without touching its stream. *)
  <1>GotoFrames.
    ASSUME TypeOK, NEW t \in Tasks, NEW pc, Goto(t, pc), UNCHANGED <<shut, out, opc, cur>>,
           pc \in Early => tpc[t] \in Early /\ ~shut[t] /\ wire'[t] = wire[t],
           \A u \in Tasks \ {t} : wire'[u] = wire[u],
           \/ wire'[t] = wire[t]
           \/ tpc[t] \in Early /\ wire'[t] = Append(wire[t], "SynAck")
    PROVE  TaskFrames(t)
    <2> USE <1>GotoFrames
    <2>1. tpc'[t] = pc /\ \A u \in Tasks \ {t} : tpc'[u] = tpc[u]
      BY Zenon DEF Goto, TypeOK, TypeTask
    <2> QED
      BY <2>1, Zenon DEF TaskFrames
  <1>AfterSynAckFrames.
    ASSUME TypeOK, NEW t \in Tasks, NEW ok, AfterSynAck(t, ok), UNCHANGED <<opc, cur>>,
           \A u \in Tasks \ {t} : wire'[u] = wire[u],
           \/ wire'[t] = wire[t]
           \/ tpc[t] \in Early /\ wire'[t] = Append(wire[t], "SynAck")
    PROVE  TaskFrames(t)
    <2> USE <1>AfterSynAckFrames
    <2>1. CASE Goto(t, "copy") /\ UNCHANGED <<shut, out>>
      <3>1. "copy" \notin Early
        BY DEF Early
      <3> QED
        BY <2>1, <3>1, <1>GotoFrames, ZenonT(30)
    <2>2. CASE Leave(t)
      BY <2>2, <1>DropFrames, Zenon DEF Leave
    <2> QED
      BY <2>1, <2>2, Zenon DEF AfterSynAck
  <1>TaskStepFrames.
    ASSUME TypeOK, FramesInv, NEW t \in Tasks,
           TaskStep(t) \/ DestStep(t) \/ TaskSynAckTimeout(t) \/ RecvSynOpen(t)
    PROVE  TaskFrames(t)
    <2> USE <1>TaskStepFrames
    <2> USE DEF conn
    <2>1. CASE TaskAddress(t)
      BY <2>1, <1>GotoFrames, EarlyPcs, EarlyOpen, Zenon DEF TaskAddress, outq
    <2>2. CASE TaskRefuse(t)
      BY <2>2, <1>DropFrames, Zenon DEF TaskRefuse, Leave
    <2>3. ASSUME NEW ok \in BOOLEAN, TaskDial(t, ok) PROVE TaskFrames(t)
      <3>1. CASE AfterSynAck(t, ok) /\ UNCHANGED conn
        BY <2>3, <3>1, <1>AfterSynAckFrames, Zenon DEF TaskDial
      <3>2. CASE /\ Goto(t, IF ok THEN "synackOk" ELSE "synackErr")
                 /\ UNCHANGED <<shut, chan, out, lostFin, link, wire, cut>>
        <4>1. tpc[t] \in Early /\ (IF ok THEN "synackOk" ELSE "synackErr") \in Early
          BY <2>3, EarlyPcs DEF TaskDial
        <4> QED
          BY <2>3, <3>2, <4>1, <1>GotoFrames, EarlyOpen, ZenonT(30) DEF TaskDial
      <3> QED
        BY <2>3, <3>1, <3>2, Zenon DEF TaskDial
    <2>4. CASE TaskSynAck(t)
      <3>1. tpc[t] \in Early
        BY <2>4, EarlyPcs, ZenonT(30) DEF TaskSynAck
      <3>2. /\ \A u \in Tasks \ {t} : wire'[u] = wire[u]
            /\ wire'[t] = wire[t] \/ wire'[t] = Append(wire[t], "SynAck")
        BY <2>4 DEF TaskSynAck, WriteErr, TypeOK, TypeConn
      <3> QED
        BY <2>4, <3>1, <3>2, <1>AfterSynAckFrames, Zenon DEF TaskSynAck
    <2>5. CASE TaskSynAckTimeout(t)
      <3>1. tpc[t] \in Early /\ (IF tpc[t] = "synackOk" THEN "closingOk" ELSE "closingErr") \in Early
        BY <2>5, EarlyPcs DEF TaskSynAckTimeout
      <3> QED
        BY <2>5, <3>1, <1>GotoFrames, EarlyOpen, ZenonT(30) DEF TaskSynAckTimeout, DropWrite,
           outq
    <2>6. CASE TaskClosed(t)
      BY <2>6, <1>AfterSynAckFrames, Zenon DEF TaskClosed
    <2>7. CASE TaskUpload(t) \/ TaskUploadEof(t)
      BY <2>7, EarlyPcs, Zenon DEF TaskUpload, TaskUploadEof, TaskFrames, outq
    <2>8. CASE TaskUploadBroken(t) \/ TaskRelayEnds(t) \/ TaskShutdownWait(t)
      BY <2>8, <1>GotoFrames, EarlyPcs, Zenon DEF TaskUploadBroken, TaskRelayEnds,
         TaskShutdownWait, outq
    <2>9. CASE TaskReply(t)
      <3>1. /\ \A u \in Tasks \ {t} : tpc'[u] = tpc[u]
            /\ tpc'[t] \in {"copy", "shut"}
        BY <2>9 DEF TaskReply, TypeOK, TypeTask
      <3> QED
        BY <2>9, <3>1, EarlyPcs, <1>QueuesItem, ZenonT(30) DEF TaskReply, TaskFrames
    <2>10. CASE TaskDestEof(t)
      <3>1. /\ \A u \in Tasks \ {t} : tpc'[u] = tpc[u] /\ shut'[u] = shut[u]
            /\ tpc'[t] \in {"copy", "shut"} /\ shut'[t]
        BY <2>10 DEF TaskDestEof, TypeOK, TypeTask
      <3> QED
        BY <2>10, <3>1, EarlyPcs, <1>QueuesItem, ZenonT(30) DEF TaskDestEof, TaskFrames
    <2>11. CASE TaskShutdown(t)
      <3>1. /\ \A u \in Tasks \ {t} : tpc'[u] = tpc[u] /\ shut'[u] = shut[u]
            /\ tpc'[t] = "exit" /\ shut'[t]
        BY <2>11 DEF TaskShutdown, Goto, TypeOK, TypeTask
      <3> QED
        BY <2>11, <3>1, EarlyPcs, <1>QueuesItem, ZenonT(30) DEF TaskShutdown, TaskFrames
    <2>12. CASE TaskCleanup(t)
      BY <2>12, <1>GotoFrames, EarlyPcs, Zenon DEF TaskCleanup, outq
    <2>13. CASE TaskCancel(t)
      BY <2>13, <1>DropFrames, Zenon DEF TaskCancel, DropWrite
    <2>14. CASE RecvSynOpen(t)
      BY <2>14, <1>GotoFrames, EarlyPcs, EarlyOpen, Zenon DEF RecvSynOpen, Goto, outq
    <2> QED
      BY <2>1, <2>2, <2>3, <2>4, <2>5, <2>6, <2>7, <2>8, <2>9, <2>10, <2>11, <2>12, <2>13,
         <2>14, ZenonT(30)
      DEF TaskStep, DestStep
  (* The first item leaves process_outgoing, on the wire or not. *)
  <1>FramesTaken.
    ASSUME TypeOK, FramesInv, Pend # <<>>, Pend' = Tail(Pend), UNCHANGED <<tpc, shut>>,
           opc' \in {"write", "remove"} => cur' \in Item,
           opc' = "remove" => shut[cur'.task],
           \/ UNCHANGED wire
           \/ wire' = [wire EXCEPT ![Head(Pend).task] =
                           Append(@, IF Head(Pend).fin THEN "Fin" ELSE "Psh")]
    PROVE  FramesInv'
    <2> USE <1>FramesTaken
    <2>1. /\ Pend \in Seq(Item) /\ wire \in [Tasks -> Seq(WireFrames)]
          /\ \A t \in Tasks : FramesOK(t, tpc[t], shut[t], Pend, wire[t])
      BY PendType, Zenon DEF FramesInv
    <2>2. ASSUME NEW t \in Tasks PROVE FramesOK(t, tpc[t], shut[t], Tail(Pend), wire'[t])
      <3>1. FramesOK(t, tpc[t], shut[t], Pend, wire[t]) /\ wire[t] \in Seq(WireFrames)
        BY <2>1, Zenon
      <3>2. CASE wire'[t] = wire[t]
        BY <2>1, <3>1, <3>2, <1>FramesDropped, Zenon
      <3>3. CASE Head(Pend).task = t /\ wire'[t] =
                     Append(wire[t], IF Head(Pend).fin THEN "Fin" ELSE "Psh")
        <4>1. FramesOK(t, tpc[t], shut[t], Tail(Pend),
                       Append(wire[t], IF Head(Pend).fin THEN "Fin" ELSE "Psh"))
          BY <2>1, <3>1, <3>3, <1>FramesWritten, Zenon
        <4> QED
          BY <3>3, <4>1, Zenon
      <3> QED
        BY <2>1, <3>2, <3>3, Zenon
    <2>3. \A t \in Tasks : FramesOK(t, tpc'[t], shut'[t], Pend', wire'[t])
      BY <2>2, Zenon
    <2> QED
      BY <2>3, Zenon DEF FramesInv, FramesOK, InOrder, HasFin, HasItem, Fin, Early
  <1> SUFFICES ASSUME TypeOK, FramesInv, [Next]_vars
               PROVE  FramesInv'
    OBVIOUS
  <1>0. Pend \in Seq(Item) /\ out \in Seq(Item)
    BY PendType
  <1>1. CASE \/ ClientStep \/ CloseStep \/ RecvControlTimeout \/ UNCHANGED vars
             \/ \E a \in Actors : LockWriteBuf(a)
             \/ RecvStep /\ ~RunEnd /\ ~(\E t \in Tasks : RecvSynOpen(t))
    <2>1. UNCHANGED <<tpc, shut, out, opc, cur, wire>>
      BY <1>1, <1>QuietFrames, Zenon
    <2>2. Pend' = Pend /\ opc' = opc /\ cur' = cur
      BY <2>1 DEF Pend
    <2>3. /\ opc' \in {"write", "remove"} => cur' \in Item
          /\ opc' = "remove" => shut[cur'.task]
      BY <2>2, Zenon DEF FramesInv
    <2> QED
      BY <2>1, <2>2, <2>3, <1>FramesUnchanged, Zenon
  <1>2. CASE \E t \in Tasks : \/ TaskStep(t) \/ DestStep(t)
                              \/ TaskSynAckTimeout(t) \/ RecvSynOpen(t)
    BY <1>2, <1>TaskStepFrames, <1>TaskFramesInv, Zenon
  <1>3. CASE OutRecv
    <2>1. /\ opc = "recv" /\ out # <<>> /\ out' = Tail(out) /\ cur' = Head(out)
          /\ opc' = (IF isClosed THEN "done" ELSE "write") /\ UNCHANGED <<tpc, shut, wire>>
      BY <1>3, Zenon DEF OutRecv, task
    <2>2. Pend = out
      BY <2>1 DEF Pend
    <2>3. CASE isClosed
      <3>1. Pend # <<>> /\ Pend' = Tail(Pend) /\ opc' = "done"
        BY <2>1, <2>2, <2>3, Zenon DEF Pend
      <3> QED
        BY <2>1, <3>1, <1>FramesTaken, Zenon
    <2>4. CASE ~isClosed
      <3>1. Head(out) \in Item /\ <<Head(out)>> \o Tail(out) = out
        BY <1>0, <2>1
      <3>2. Pend' = Pend /\ opc' = "write" /\ cur' \in Item
        BY <2>1, <2>2, <2>4, <3>1, SMTT(30) DEF Pend
      <3> QED
        BY <2>1, <3>2, <1>FramesUnchanged, Zenon
    <2> QED
      BY <2>3, <2>4, Zenon
  <1>4. CASE OutWrite
    <2>1. opc = "write" /\ cur \in Item /\ Pend = <<cur>> \o out
      BY <1>4, Zenon DEF OutWrite, FramesInv, Pend
    <2>2. Pend # <<>> /\ Tail(Pend) = out /\ Head(Pend) = cur /\ Len(Pend) >= 1
      BY <1>0, <2>1, SMTT(30)
    <2>3. /\ opc' = (IF cur.fin THEN "remove" ELSE opc') /\ opc' \in {"remove", "recv", "done"}
          /\ opc' = "remove" => cur.fin
          /\ UNCHANGED <<tpc, shut, out, cur>>
          /\ \/ wire' = wire
             \/ wire' = [wire EXCEPT ![cur.task] = Append(@, IF cur.fin THEN "Fin" ELSE "Psh")]
      BY <1>4 DEF OutWrite, WriteErr, task
    <2>4. Pend' = Tail(Pend)
      BY <2>2, <2>3, Zenon DEF Pend
    <2>5. cur.fin => shut[cur.task]
      <3> SUFFICES ASSUME cur.fin PROVE shut[cur.task]
        BY Zenon
      <3>1. cur.task \in Tasks /\ cur = Fin(cur.task)
        BY <2>1, Zenon DEF Item, Fin
      <3>2. 1 \in 1 .. Len(Pend) /\ Pend[1] = cur
        BY <1>0, <2>2
      <3>3. FramesOK(cur.task, tpc[cur.task], shut[cur.task], Pend, wire[cur.task])
        BY <3>1, Zenon DEF FramesInv
      <3> QED
        BY <3>1, <3>2, <3>3, Zenon DEF FramesOK
    <2> QED
      BY <2>1, <2>2, <2>3, <2>4, <2>5, <1>FramesTaken
  <1>5. CASE OutRemove
    <2>1. opc = "remove" /\ opc' = "recv" /\ UNCHANGED <<tpc, shut, out, cur, wire>>
      BY <1>5, Zenon DEF OutRemove, task, conn
    <2>2. Pend' = Pend
      BY <2>1 DEF Pend
    <2> QED
      BY <2>1, <2>2, <1>FramesUnchanged
  <1>6. CASE RunEnd
    <2>1. opc' = "done" /\ UNCHANGED <<tpc, shut, out, cur, wire>>
      BY <1>6, Zenon DEF RunEnd, DropWrite, task
    <2>2. CASE opc = "write"
      <3>1. cur \in Item /\ Pend = <<cur>> \o out
        BY <2>2 DEF FramesInv, Pend
      <3>2. Pend # <<>> /\ Tail(Pend) = out
        BY <1>0, <3>1
      <3>3. Pend' = Tail(Pend)
        BY <2>1, <3>2, Zenon DEF Pend
      <3> QED
        BY <2>1, <3>2, <3>3, <1>FramesTaken, ZenonT(30)
    <2>3. CASE opc # "write"
      <3>1. Pend' = Pend
        BY <2>1, <2>3 DEF Pend
      <3> QED
        BY <2>1, <3>1, <1>FramesUnchanged, Zenon
    <2> QED
      BY <2>2, <2>3, Zenon
  <1> QED
    BY <1>1, <1>2, <1>3, <1>4, <1>5, <1>6, ZenonT(30) DEF Next, OutStep, Timeout

(* On the wire a stream is at most one SYNACK, then data, then at most one FIN, for      *)
(* every number of streams and every capacity of the channels.                          *)
THEOREM FramesKeepOrder == Spec => []StreamFramesInOrder
  <1>1. Init => TypeOK /\ FramesInv
    BY TypeInit, FramesInvInit
  <1>2. TypeOK /\ FramesInv /\ [Next]_vars => TypeOK' /\ FramesInv'
    BY TypeNext, FramesInvNext, Zenon
  <1> QED
    BY <1>1, <1>2, FramesInvImplies, PTL DEF Spec
==============================================================================
