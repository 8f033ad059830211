------------------------- MODULE AnyTlsUpload_proofs -------------------------
(***************************************************************************)
(* What the client and the destinations see of the order of frames: the     *)
(* ServerSettings before the SYNACKs, and the payloads of a stream.         *)
(***************************************************************************)
EXTENDS AnyTlsTasks_proofs

(***************************************************************************)
(* ServerSettings and the SYNACKs.  The promise is made to a client that      *)
(* announces one version: with a second Settings frame of another version     *)
(* peer_version changes under handlers that are already running.              *)
(***************************************************************************)
Announces(f) == f.cmd \in {"Settings", "SettingsPad"}

OneVersion ==
    \E v \in Nat : /\ \A f \in ClientFrames : Announces(f) => f.arg = v
                   /\ \A k \in 1 .. Len(buf) : Announces(buf[k]) => buf[k].arg = v

(* Until the Settings handler has written ServerSettings, recv_loop is in it and spawns   *)
(* no handler; without a version of 2 or more nobody writes a SYNACK.                     *)
Negotiating == {"pad", "version", "settings"}
AnnouncedInv(v) ==
    /\ \A f \in ClientFrames : Announces(f) => f.arg = v
    /\ \A k \in 1 .. Len(Pipe) : Announces(Pipe[k]) => Pipe[k].arg = v
    /\ rcv.pc \in {"pad", "version"} => rcv.arg = v
    /\ v >= 2 /\ settings /\ rcv.pc \notin Negotiating \cup {"close", "done"} => announced
    /\ v < 2 => version < 2 /\ \A t \in Tasks : tpc[t] \notin {"synackOk", "synackErr"}
    /\ \A t \in Tasks : sid[t] # None => v < 2 \/ announced
    /\ SettingsBeforeSynAck

AnnouncedOnce == \E v \in Nat : AnnouncedInv(v)

LEMMA AnnouncedInit == OneVersion /\ Init => AnnouncedOnce
  <1> SUFFICES ASSUME OneVersion, Init PROVE AnnouncedOnce
    OBVIOUS
  <1>1. PICK v \in Nat : /\ \A f \in ClientFrames : Announces(f) => f.arg = v
                         /\ \A k \in 1 .. Len(buf) : Announces(buf[k]) => buf[k].arg = v
    BY DEF OneVersion
  <1>2. buf \in Seq(Frame) /\ net = <<>>
    BY FramesAssumption DEF Init
  <1>3. Pipe = buf
    BY <1>2 DEF Pipe
  <1>4. \A t \in Tasks : sid[t] = None /\ wire[t] = <<>> /\ tpc[t] = "none"
    BY DEF Init
  <1>5. rcv.pc = "decode" /\ ~settings /\ version = 0
    BY DEF Init, At
  <1>6. SettingsBeforeSynAck
    BY <1>4 DEF SettingsBeforeSynAck
  <1>7. AnnouncedInv(v)
    BY <1>1, <1>3, <1>4, <1>5, <1>6 DEF AnnouncedInv
  <1> QED
    BY <1>7 DEF AnnouncedOnce

LEMMA AnnouncedNext ==
  SessionInv /\ AnnouncedOnce /\ [Next]_vars => AnnouncedOnce'
  <1>AnnouncedPipe.
    ASSUME TypeOK, [Next]_vars, NEW v \in Nat, AnnouncedInv(v)
    PROVE  \A k \in 1 .. Len(Pipe') : Announces(Pipe'[k]) => Pipe'[k].arg = v
    <2> USE <1>AnnouncedPipe
    <2>1. \A k \in 1 .. Len(Pipe) : Announces(Pipe[k]) => Pipe[k].arg = v
      BY DEF AnnouncedInv
    <2>2. CASE Pipe' = Pipe
      BY <2>1, <2>2
    <2>3. ASSUME NEW n \in Nat, Shifted(Pipe, Pipe', n)
          PROVE  \A k \in 1 .. Len(Pipe') : Announces(Pipe'[k]) => Pipe'[k].arg = v
      BY <2>1, <2>3, Zenon DEF Shifted
    <2>4. ASSUME NEW f \in ClientFrames, ClientSend(f)
          PROVE  \A k \in 1 .. Len(Pipe') : Announces(Pipe'[k]) => Pipe'[k].arg = v
      <3> DEFINE g == Stamp(f)
                 q == Append(Pipe, g)
      <3>1. /\ Pipe' = q /\ g \in Frame /\ Pipe \in Seq(Frame) /\ g.cmd = f.cmd
            /\ f.cmd \notin {"Syn", "Psh"} => g = f
        BY <2>4, PipeSend, PipeType, Zenon
      <3>2. Announces(g) => g.arg = v
        BY <3>1 DEF AnnouncedInv, Announces
      <3> HIDE DEF g
      <3>3. \A k \in 1 .. Len(q) : (k \in 1 .. Len(Pipe) /\ q[k] = Pipe[k]) \/ q[k] = g
        BY <3>1
      <3> HIDE DEF q
      <3> QED
        BY <2>1, <3>1, <3>2, <3>3, Zenon
    <2> QED
      BY <2>2, <2>3, <2>4, PipeSteps, Zenon
  (* recv_loop and the maps of the session move on: what is left to show. *)
  <1>AnnouncedStep.
    ASSUME TypeOK, [Next]_vars, NEW v \in Nat, AnnouncedInv(v),
           rcv'.pc \in {"pad", "version"} => rcv'.arg = v,
           v >= 2 /\ settings' /\ rcv'.pc \notin Negotiating \cup {"close", "done"} => announced',
           v < 2 => version' < 2 /\ \A t \in Tasks : tpc'[t] \notin {"synackOk", "synackErr"},
           announced => announced',
           \A t \in Tasks : sid'[t] # None => sid[t] # None \/ v < 2 \/ announced',
           \A t \in Tasks : (\E k \in 1 .. Len(wire'[t]) : wire'[t][k] = "SynAck") =>
               announced' \/ \E k \in 1 .. Len(wire[t]) : wire[t][k] = "SynAck"
    PROVE  AnnouncedOnce'
    <2> USE <1>AnnouncedStep
    <2>1. \A k \in 1 .. Len(Pipe') : Announces(Pipe'[k]) => Pipe'[k].arg = v
      BY <1>AnnouncedPipe, Zenon
    <2>2. SettingsBeforeSynAck'
      BY Zenon DEF AnnouncedInv, SettingsBeforeSynAck
    <2>3. \A t \in Tasks : sid'[t] # None => v < 2 \/ announced'
      BY Zenon DEF AnnouncedInv
    <2>4. \A f \in ClientFrames : Announces(f) => f.arg = v
      BY Zenon DEF AnnouncedInv
    <2>5. AnnouncedInv(v)'
      BY <2>1, <2>2, <2>3, <2>4, Zenon DEF AnnouncedInv, Announces
    <2> QED
      BY <2>5 DEF AnnouncedOnce
  <1>AnnouncedTask.
    ASSUME TypeOK, OneTaskPerSyn, [Next]_vars, NEW v \in Nat, AnnouncedInv(v), NEW t \in Tasks,
           TaskStep(t) \/ DestStep(t) \/ TaskSynAckTimeout(t)
    PROVE  AnnouncedOnce'
    <2> USE <1>AnnouncedTask
    <2>1. /\ UNCHANGED <<rcv, settings, version, announced, sid>>
          /\ \A u \in Tasks \ {t} : tpc'[u] = tpc[u]
      BY TaskOwn, Zenon DEF Own
    <2>2. CASE TaskSynAck(t)
      <3>1. /\ tpc[t] \in {"synackOk", "synackErr"}
            /\ \A u \in Tasks \ {t} : wire'[u] = wire[u]
        BY <2>2 DEF TaskSynAck, WriteErr, TypeOK, TypeConn
      <3>2. sid[t] # None
        BY <3>1, Zenon DEF OneTaskPerSyn
      <3>3. announced
        BY <3>1, <3>2, Zenon DEF AnnouncedInv
      <3>4. v >= 2
        BY <3>1 DEF AnnouncedInv
      <3> QED
        BY <2>1, <3>3, <3>4, <1>AnnouncedStep DEF AnnouncedInv
    <2>3. CASE ~TaskSynAck(t)
      <3>1. UNCHANGED wire
        BY <2>3, Zenon DEF TaskStep, DestStep, TaskSynAckTimeout, TaskAddress, TaskRefuse,
           TaskDial,
                    TaskClosed, TaskUpload, TaskUploadEof, TaskUploadBroken, TaskShutdown,
                    TaskShutdownWait, TaskCleanup, TaskCancel, TaskReply, TaskDestEof,
                    TaskRelayEnds, DropWrite, conn
      <3>2. v < 2 => tpc'[t] \notin {"synackOk", "synackErr"}
        <4> SUFFICES ASSUME v < 2 PROVE tpc'[t] \notin {"synackOk", "synackErr"}
          OBVIOUS
        <4>1. version < 2 /\ tpc[t] \notin {"synackOk", "synackErr"} /\ version \in Nat
          BY Zenon DEF AnnouncedInv, TypeOK, TypeNego
        <4>2. ASSUME NEW ok \in BOOLEAN, TaskDial(t, ok) PROVE tpc'[t] \notin {"synackOk", "synackErr"}
          <5>1. AfterSynAck(t, ok)
            BY <4>1, <4>2 DEF TaskDial
          <5> QED
            BY <5>1, OwnAfterSynAck, Zenon
        <4>3. CASE TaskAddress(t) \/ TaskRefuse(t) \/ TaskClosed(t)
          <5>1. CASE TaskAddress(t)
            BY <5>1, OwnGoto DEF TaskAddress
          <5>2. CASE TaskRefuse(t)
            BY <5>2, OwnGoto DEF TaskRefuse, Leave
          <5>3. CASE TaskClosed(t)
            <6>1. AfterSynAck(t, tpc[t] = "closingOk")
              BY <5>3, Zenon DEF TaskClosed
            <6> QED
              BY <6>1, OwnAfterSynAck, Zenon
          <5> QED
            BY <4>3, <5>1, <5>2, <5>3, Zenon
        <4>4. CASE TaskUpload(t) \/ TaskUploadEof(t)
          BY <4>1, <4>4, Zenon DEF TaskUpload, TaskUploadEof
        <4>5. CASE TaskReply(t) \/ TaskDestEof(t)
          BY <4>1, <4>5, ZenonT(30) DEF TaskReply, TaskDestEof, TypeOK, TypeTask
        <4>6. CASE \/ TaskUploadBroken(t) \/ TaskShutdown(t) \/ TaskShutdownWait(t) \/ TaskCleanup(t)
                   \/ TaskCancel(t) \/ TaskRelayEnds(t)
          BY <4>6, OwnGoto DEF TaskUploadBroken, TaskShutdown, TaskShutdownWait, TaskCleanup,
             TaskCancel,
                               TaskRelayEnds
        <4>7. ~TaskSynAckTimeout(t)
          BY <4>1 DEF TaskSynAckTimeout
        <4> QED
          BY <2>3, <4>2, <4>3, <4>4, <4>5, <4>6, <4>7, ZenonT(30) DEF TaskStep, DestStep
      <3>3. v < 2 => version' < 2 /\ \A u \in Tasks : tpc'[u] \notin {"synackOk", "synackErr"}
        BY <2>1, <3>2, Zenon DEF AnnouncedInv
      <3> QED
        BY <2>1, <3>1, <3>3, <1>AnnouncedStep, Zenon DEF AnnouncedInv
    <2> QED
      BY <2>2, <2>3
  (* What process_outgoing writes is no SYNACK. *)
  <1>OutWritesNoSynAck.
    ASSUME TypeOK, FramesInv, OutWrite, NEW t \in Tasks,
           NEW k \in 1 .. Len(wire'[t]), wire'[t][k] = "SynAck"
    PROVE  \E j \in 1 .. Len(wire[t]) : wire[t][j] = "SynAck"
    <2> USE <1>OutWritesNoSynAck
    <2> DEFINE f == IF cur.fin THEN "Fin" ELSE "Psh"
               w == wire[t]
    <2>1. f # "SynAck" /\ f \in WireFrames
      BY DEF WireFrames
    <2>2. wire \in [Tasks -> Seq(WireFrames)] /\ w \in Seq(WireFrames)
      BY PipeType, PendType
    <2>3. wire'[t] = w \/ wire'[t] = Append(w, f)
      BY <2>2 DEF OutWrite, WriteErr
    <2> HIDE DEF f, w
    <2>4. CASE wire'[t] = w
      BY <2>4 DEF w
    <2>5. CASE wire'[t] = Append(w, f)
      <3>1. /\ Len(Append(w, f)) = Len(w) + 1 /\ Len(w) \in Nat /\ Append(w, f)[Len(w) + 1] = f
            /\ \A j \in 1 .. Len(w) : Append(w, f)[j] = w[j]
        BY <2>1, <2>2
      <3>2. k \in 1 .. Len(w)
        BY <2>1, <2>5, <3>1
      <3>3. w[k] = "SynAck"
        BY <2>5, <3>1, <3>2
      <3> QED
        BY <3>2, <3>3 DEF w
    <2> QED
      BY <2>3, <2>4, <2>5, Zenon
  <1> SUFFICES ASSUME SessionInv, AnnouncedOnce, [Next]_vars
               PROVE  AnnouncedOnce'
    OBVIOUS
  <1>0. TypeOK /\ FramesInv /\ RecvSane /\ OneTaskPerSyn
    BY DEF SessionInv
  <1>1. PICK v \in Nat : AnnouncedInv(v)
    BY DEF AnnouncedOnce
  <1> USE DEF task, recvs, nego, conn
  <1>2. CASE Aside
    <2>1. UNCHANGED <<rcv, tpc, sid, settings, version, announced>>
      BY <1>0, <1>2, AsideLeaves
    <2>2. UNCHANGED wire \/ OutWrite
      BY <1>2, Zenon DEF Aside, ClientStep, ClientSend, ClientHangup, LinkDown, OutStep,
         OutRecv,
                 OutRemove, CloseStep, CloseTasks, CloseStreams, CloseWriter, vars, LockWriteBuf
    <2>3. \A t \in Tasks : (\E k \in 1 .. Len(wire'[t]) : wire'[t][k] = "SynAck") =>
                               \E k \in 1 .. Len(wire[t]) : wire[t][k] = "SynAck"
      BY <1>0, <2>2, <1>OutWritesNoSynAck, Zenon
    <2> QED
      BY <1>0, <1>1, <2>1, <2>3, <1>AnnouncedStep, Zenon DEF AnnouncedInv
  <1>3. CASE \E t \in Tasks : TaskStep(t) \/ DestStep(t) \/ TaskSynAckTimeout(t)
    BY <1>0, <1>1, <1>3, <1>AnnouncedTask
  <1>4. ASSUME UNCHANGED <<wire, tpc, sid, version, announced>>,
               rcv'.pc \in {"pad", "version"} => rcv'.arg = v,
               \/ rcv'.pc \in Negotiating \cup {"close", "done"}
               \/ settings' = settings /\ rcv.pc \notin Negotiating \cup {"close", "done"}
               \/ v < 2
        PROVE  AnnouncedOnce'
    <2>1. v >= 2 /\ settings' /\ rcv'.pc \notin Negotiating \cup {"close", "done"} => announced'
      <3>1. v >= 2 => ~(v < 2)
        OBVIOUS
      <3>2. v >= 2 /\ settings /\ rcv.pc \notin Negotiating \cup {"close", "done"} => announced
        BY <1>1, Zenon DEF AnnouncedInv
      <3> QED
        BY <1>4, <3>1, <3>2, Zenon
    <2>2. v < 2 => version' < 2 /\ \A t \in Tasks : tpc'[t] \notin {"synackOk", "synackErr"}
      BY <1>1, <1>4, Zenon DEF AnnouncedInv
    <2>3. /\ announced => announced'
          /\ \A t \in Tasks : sid'[t] # None => sid[t] # None \/ v < 2 \/ announced'
          /\ \A t \in Tasks : (\E k \in 1 .. Len(wire'[t]) : wire'[t][k] = "SynAck") =>
                 announced' \/ \E k \in 1 .. Len(wire[t]) : wire[t][k] = "SynAck"
      BY <1>4, Zenon
    <2> QED
      BY <1>0, <1>1, <1>4, <2>1, <2>2, <2>3, <1>AnnouncedStep, Zenon
  <1>5. CASE RecvControlTimeout \/ RecvControlFailed \/ RecvEnd \/ RecvFatal \/ RunEnd
    <2>1. UNCHANGED <<wire, tpc, sid, version, announced>>
      BY <1>5, Zenon DEF RecvControlTimeout, RecvControlFailed, RecvEnd, RecvFatal, RunEnd,
                         WriteErr, DropWrite
    <2>2. rcv' = At("close") \/ rcv' = At("done")
      BY <1>5, Zenon DEF RecvControlTimeout, RecvControlFailed, RecvEnd, RecvFatal, RunEnd
    <2> QED
      BY <1>4, <2>1, <2>2 DEF Negotiating, At
  <1>6. CASE RecvControlDone
    <2>1. /\ UNCHANGED <<wire, tpc, sid, version, settings>>
          /\ announced' = (announced \/ rcv.pc = "settings") /\ rcv' = AfterControl
          /\ rcv.pc \in Control
      BY <1>0, <1>6 DEF RecvControlDone, WriteOk, HasWriter, RecvSane
    <2>2. CASE rcv.pc = "settings"
      <3>1. announced' /\ rcv'.pc = "decode"
        BY <2>1, <2>2, Zenon DEF AfterControl, At
      <3> QED
        BY <1>0, <1>1, <2>1, <3>1, <1>AnnouncedStep, Zenon DEF AnnouncedInv
    <2>3. CASE rcv.pc = "pad"
      <3>1. announced' = announced /\ rcv'.pc = "version" /\ rcv'.arg = rcv.arg
        BY <1>0, <2>1, <2>3, Zenon DEF AfterControl, TypeOK, TypeRecv, TypeNego
      <3> QED
        BY <1>1, <1>4, <2>1, <2>3, <3>1, Zenon DEF AnnouncedInv, Negotiating
    <2>4. CASE rcv.pc \in {"heart", "alert"}
      <3>1. announced' = announced /\ rcv'.pc \in {"decode", "close"}
        BY <1>0, <2>1, <2>4, Zenon DEF AfterControl, At, TypeOK, TypeNego
      <3> QED
        BY <1>4, <2>1, <2>4, <3>1, Zenon DEF Negotiating
    <2> QED
      BY <2>1, <2>2, <2>3, <2>4, Zenon DEF Control
  <1>7. CASE RecvSettings
    <2>1. UNCHANGED <<wire, tpc, sid, version, announced>> /\ buf # <<>> /\ Announces(Head(buf))
      BY <1>7, Zenon DEF RecvSettings, StartControl, Decoding, Announces
    <2>2. Head(buf).arg = v
      <3>1. Pipe[1] = Head(buf) /\ 1 \in 1 .. Len(Pipe)
        BY <1>0, <2>1, PipeHead, SMTT(30)
      <3> QED
        BY <1>1, <2>1, <3>1, Zenon DEF AnnouncedInv
    <2>3. rcv'.pc \in {"pad", "version"} /\ rcv'.arg = Head(buf).arg
      BY <1>7 DEF RecvSettings, StartControl
    <2> QED
      BY <1>4, <2>1, <2>2, <2>3 DEF Negotiating
  <1>8. CASE RecvVersion
    <2>1. UNCHANGED <<wire, tpc, sid, announced, settings>> /\ rcv.arg = v
      BY <1>1, <1>8, Zenon DEF RecvVersion, StartControl, AnnouncedInv
    <2>2. CASE v >= 2
      <3>1. rcv'.pc = "settings"
        BY <1>8, <2>1, <2>2 DEF RecvVersion, StartControl
      <3>2. \A t \in Tasks : sid'[t] # None => sid[t] # None
        BY <2>1
      <3> QED
        BY <1>0, <1>1, <2>1, <2>2, <3>1, <1>AnnouncedStep DEF Negotiating
    <2>3. CASE v < 2
      <3>1. rcv'.pc = "decode" /\ UNCHANGED version
        BY <1>8, <2>1, <2>3, SMTT(30) DEF RecvVersion, At
      <3> QED
        BY <1>4, <2>1, <2>3, <3>1, Zenon
    <2> QED
      BY <2>2, <2>3
  <1>9. ASSUME NEW t \in Tasks, RecvSynOpen(t) PROVE AnnouncedOnce'
    <2>1. /\ UNCHANGED <<wire, version, announced, settings>> /\ settings /\ rcv.pc = "decode"
          /\ rcv'.pc = "register"
          /\ \A u \in Tasks : tpc'[u] = "addr" \/ tpc'[u] = tpc[u]
      BY <1>0, <1>9, ZenonT(30) DEF RecvSynOpen, Decoding, TypeOK, TypeTask
    <2>2. v < 2 \/ announced
      BY <1>1, <2>1 DEF AnnouncedInv, Negotiating
    <2>3. v < 2 => version' < 2 /\ \A u \in Tasks : tpc'[u] \notin {"synackOk", "synackErr"}
      BY <1>1, <2>1, Zenon DEF AnnouncedInv
    <2> QED
      BY <1>0, <1>1, <2>1, <2>2, <2>3, <1>AnnouncedStep
  <1>10. CASE RecvPsh \/ RecvFin \/ RecvPush \/ RecvRegister
    <2>1. UNCHANGED <<wire, tpc, sid, version, announced, settings>>
      BY <1>10, Zenon DEF RecvPsh, RecvFin, RecvPush, RecvRegister
    <2>2. rcv.pc \in {"decode", "push", "register"}
      BY <1>10, Zenon DEF RecvPsh, RecvFin, RecvPush, RecvRegister, Decoding
    <2>3. rcv'.pc \in {"decode", "push"}
      <3>1. CASE RecvPsh
        BY <3>1, Zenon DEF RecvPsh, Decoding
      <3>2. CASE RecvFin
        BY <3>2, ZenonT(30) DEF RecvFin, Decoding
      <3>3. CASE RecvPush \/ RecvRegister
        BY <3>3 DEF RecvPush, RecvRegister, At
      <3> QED
        BY <1>10, <3>1, <3>2, <3>3, Zenon
    <2> QED
      BY <1>4, <2>1, <2>2, <2>3, Zenon DEF Negotiating
  <1>11. CASE RecvSynDuplicate \/ RecvIgnore \/ RunClose
    <2>1. UNCHANGED <<wire, tpc, sid, version, announced, settings, rcv>>
      BY <1>11, Zenon DEF RecvSynDuplicate, RecvIgnore, RunClose
    <2>2. rcv.pc \in {"decode", "close"}
      BY <1>11, Zenon DEF RecvSynDuplicate, RecvIgnore, RunClose, Decoding
    <2> QED
      BY <1>4, <2>1, <2>2 DEF Negotiating
  <1>12. CASE RecvSynBeforeSettings \/ RecvHeart
    <2>1. /\ UNCHANGED <<wire, tpc, sid, version, announced, settings>> /\ rcv.pc = "decode"
          /\ rcv'.pc \in {"alert", "heart"}
      BY <1>12 DEF RecvSynBeforeSettings, RecvHeart, StartControl, Decoding
    <2> QED
      BY <1>4, <2>1, Zenon DEF Negotiating
  <1>13. ASSUME NEW k \in 1 .. Len(net), RecvRead(k) PROVE AnnouncedOnce'
    <2>1. /\ UNCHANGED <<wire, tpc, sid, version, announced, settings>> /\ rcv.pc = "decode"
          /\ rcv'.pc \in {"decode", "close"}
      BY <1>13 DEF RecvRead, At
    <2> QED
      BY <1>4, <2>1, Zenon DEF Negotiating
  <1> QED
    BY <1>2, <1>3, <1>5, <1>6, <1>7, <1>8, <1>9, <1>10, <1>11, <1>12, <1>13, StepKinds,
       ZenonT(30)
    DEF RecvStep

(* For a client that announces one version, no SYNACK is on the wire before the            *)
(* ServerSettings that tell it SYNACKs are used (session.rs:365-374, 510-522).             *)
THEOREM SettingsComeFirst == OneVersion /\ Spec => []SettingsBeforeSynAck
  <1>1. OneVersion /\ Init => SessionInv /\ AnnouncedOnce
    BY SessionInvInit, AnnouncedInit, Zenon
  <1>2. SessionInv /\ AnnouncedOnce /\ [Next]_vars => SessionInv' /\ AnnouncedOnce'
    BY SessionInvNext, AnnouncedNext, Zenon
  <1>3. AnnouncedOnce => SettingsBeforeSynAck
    BY DEF AnnouncedOnce, AnnouncedInv
  <1> QED
    BY <1>1, <1>2, <1>3, PTL DEF Spec

(***************************************************************************)
(* The payloads of a stream.  What a handler has taken over is what it read    *)
(* last, its channel, and the payload recv_loop is handing over; the next PSH   *)
(* of the stream continues it for as long as the stream has its entry.          *)
(***************************************************************************)
Taken(t) == IF rcv.pc = "push" /\ rcv.task = t THEN Append(Seen(t), rcv.arg) ELSE Seen(t)

(* After the payload L of stream i, of c in all, come the PSH frames of the pipe p. *)
Follows(i, L, p, c) ==
    /\ L # Eof /\ L <= c
    /\ \A k \in 1 .. Len(p) : IsFrame(p[k], "Psh", i) => p[k].arg > L
    /\ \A n \in L + 1 .. c : \E k \in 1 .. Len(p) : IsFrame(p[k], "Psh", i) /\ p[k].arg = n
Continues(i, s, p, c) == s # <<>> => Follows(i, s[Len(s)], p, c)

(* recv_loop may still hand a payload over to t. *)
Feeding(t) == sid[t] # None /\ streams[sid[t]] = t /\ rcv.pc \notin {"close", "done"}

UploadOK(t) ==
    /\ tpc[t] = "none" => got[t] = 0
    /\ Gone(t) => chan[t] = <<>>
    /\ ~Gone(t) => InTurn(Taken(t))
    /\ ~Gone(t) /\ Feeding(t) => Continues(sid[t], Taken(t), Pipe, pushed[sid[t]])
UploadInv == \A t \in Tasks : UploadOK(t)

LEMMA InTurnShort ==
  ASSUME NEW s \in Seq(Nat), Len(s) <= 1
  PROVE  InTurn(s)
  BY DEF InTurn

LEMMA InTurnAppend ==
  ASSUME NEW s \in Seq(Nat), NEW a \in Nat
  PROVE  /\ InTurn(Append(s, a)) => InTurn(s)
         /\ InTurn(s) /\ (s # <<>> => s[Len(s)] # Eof /\ (a = Eof \/ a = s[Len(s)] + 1)) =>
                InTurn(Append(s, a))
  <1> DEFINE r == Append(s, a)
  <1>1. /\ Len(r) = Len(s) + 1 /\ Len(s) \in Nat /\ r[Len(s) + 1] = a /\ (s = <<>> <=> Len(s) = 0)
        /\ \A k \in 1 .. Len(s) : r[k] = s[k]
    OBVIOUS
  <1> HIDE DEF r
  <1>2. \A k \in 1 .. Len(s) - 1 : /\ k \in 1 .. Len(r) - 1 /\ r[k] = s[k] /\ r[k + 1] = s[k + 1]
    BY <1>1
  <1>3. InTurn(r) => InTurn(s)
    BY <1>2, Zenon DEF InTurn
  <1>4. ASSUME InTurn(s), s # <<>> => s[Len(s)] # Eof /\ (a = Eof \/ a = s[Len(s)] + 1)
        PROVE  InTurn(r)
    <2> SUFFICES ASSUME NEW k \in 1 .. Len(r) - 1
                 PROVE  r[k] # Eof /\ (r[k + 1] = Eof \/ r[k + 1] = r[k] + 1)
      BY DEF InTurn
    <2>1. CASE k \in 1 .. Len(s) - 1
      BY <1>2, <1>4, <2>1, Zenon DEF InTurn
    <2>2. CASE k \notin 1 .. Len(s) - 1
      <3>1. k = Len(s) /\ k \in 1 .. Len(s) /\ s # <<>>
        BY <1>1, <2>2
      <3> QED
        BY <1>1, <1>4, <3>1, Zenon
    <2> QED
      BY <2>1, <2>2, Zenon
  <1> QED
    BY <1>3, <1>4 DEF r

LEMMA TakenType ==
  ASSUME TypeOK, NEW t \in Tasks
  PROVE  /\ got[t] \in Nat /\ chan[t] \in Seq(Nat) /\ rcv.arg \in Nat
         /\ Seen(t) \in Seq(Nat) /\ Taken(t) \in Seq(Nat)
  <1>1. got[t] \in Nat /\ chan[t] \in Seq(Nat) /\ rcv.arg \in Nat
    BY DEF TypeOK, TypeTask, TypeRecv
  <1>2. Seen(t) \in Seq(Nat)
    BY <1>1 DEF Seen
  <1>3. Append(Seen(t), rcv.arg) \in Seq(Nat)
    BY <1>1, <1>2
  <1> QED
    BY <1>1, <1>2, <1>3, Zenon DEF Taken

LEMMA UploadInvInit == Init => UploadInv
  <1> SUFFICES ASSUME Init, NEW t \in Tasks PROVE UploadOK(t)
    BY DEF UploadInv
  <1>1. tpc[t] = "none" /\ got[t] = 0 /\ chan[t] = <<>> /\ sid[t] = None /\ rcv.pc = "decode"
    BY Zenon DEF Init, At
  <1>2. Taken(t) = <<>>
    BY <1>1 DEF Taken, Seen
  <1>3. InTurn(<<>>)
    BY DEF InTurn
  <1> QED
    BY <1>1, <1>2, <1>3, Zenon DEF UploadOK, Gone, Feeding

LEMMA UploadInvImplies == TypeOK /\ UploadInv => UploadInOrder
  <1> SUFFICES ASSUME TypeOK, UploadInv, NEW t \in Tasks PROVE InTurn(Seen(t))
    BY Zenon DEF UploadInOrder
  <1>1. UploadOK(t) /\ Seen(t) \in Seq(Nat) /\ rcv.arg \in Nat /\ got[t] \in Nat
    BY TakenType DEF UploadInv
  <1>2. CASE Gone(t)
    <2>1. chan[t] = <<>>
      BY <1>1, <1>2, Zenon DEF UploadOK
    <2>2. Len(Seen(t)) <= 1
      BY <1>1, <2>1 DEF Seen
    <2> QED
      BY <1>1, <2>2, InTurnShort
  <1>3. CASE ~Gone(t)
    <2>1. InTurn(Taken(t))
      BY <1>1, <1>3, Zenon DEF UploadOK
    <2> QED
      BY <1>1, <2>1, InTurnAppend DEF Taken
  <1> QED
    BY <1>2, <1>3

(* The pipe gains frames at its end, or loses one that is no payload of stream i. *)
Passes(i) ==
    \/ Pipe' = Pipe /\ UNCHANGED pushed
    \/ buf # <<>> /\ NextFrame /\ UNCHANGED <<net, pushed>> /\ ~IsFrame(Head(buf), "Psh", i)
    \/ \E f \in ClientFrames : ClientSend(f)

LEMMA UploadInvNext ==
  SessionInv /\ SessionInv' /\ UploadInv /\ [Next]_vars => UploadInv'
  <1>InTurnTail.
    ASSUME NEW s \in Seq(Nat), Len(s) >= 2, InTurn(s)
    PROVE  InTurn(Tail(s)) /\ Tail(s) # <<>> /\ Tail(s)[Len(Tail(s))] = s[Len(s)]
    <2> USE <1>InTurnTail
    <2> DEFINE r == Tail(s)
    <2>1. /\ Len(r) = Len(s) - 1 /\ Len(s) \in Nat
          /\ \A k \in 1 .. Len(r) : r[k] = s[k + 1]
      OBVIOUS
    <2> HIDE DEF r
    <2>2. \A k \in 1 .. Len(r) - 1 :
             k + 1 \in 1 .. Len(s) - 1 /\ k \in 1 .. Len(r) /\ k + 1 \in 1 .. Len(r)
      BY <2>1
    <2>3. \A k \in 1 .. Len(r) - 1 : r[k] = s[k + 1] /\ r[k + 1] = s[(k + 1) + 1]
      BY <2>1, <2>2, Zenon
    <2>6. InTurn(r)
      BY <2>2, <2>3, ZenonT(30) DEF InTurn
    <2>4. Len(r) # 0 /\ r[Len(r)] = s[Len(s)]
      BY <2>1, SMTT(30)
    <2>5. r # <<>>
      BY <2>4
    <2> QED
      BY <2>4, <2>5, <2>6, Zenon DEF r
  (* Nothing comes after the end. *)
  <1>InTurnEof.
    ASSUME NEW s \in Seq(Nat), InTurn(s), NEW k \in 1 .. Len(s), s[k] = Eof
    PROVE  k = Len(s)
    <2> USE <1>InTurnEof
    <2>1. k \notin 1 .. Len(s) - 1
      BY DEF InTurn
    <2> QED
      BY <2>1
  (* Frames other than the PSH frames of stream i leave the pipe, or more come. *)
  <1>ContinuesShifted.
    ASSUME NEW p \in Seq(Frame), NEW q \in Seq(Frame), Shifted(p, q, 1), NEW i,
           ~IsFrame(p[1], "Psh", i), NEW s, NEW c, Continues(i, s, p, c)
    PROVE  Continues(i, s, q, c)
    <2> USE <1>ContinuesShifted
    <2>1. \A k \in 1 .. Len(q) : k + 1 \in 1 .. Len(p) /\ q[k] = p[k + 1]
      BY Zenon DEF Shifted
    <2> SUFFICES ASSUME s # <<>> PROVE Follows(i, s[Len(s)], q, c)
      BY DEF Continues
    <2> DEFINE L == s[Len(s)]
    <2>2. Follows(i, L, p, c)
      BY DEF Continues
    <2> HIDE DEF L
    <2>3. \A k \in 1 .. Len(q) : IsFrame(q[k], "Psh", i) => q[k].arg > L
      BY <2>1, <2>2, Zenon DEF Follows
    <2>4. ASSUME NEW n \in L + 1 .. c
          PROVE  \E k \in 1 .. Len(q) : IsFrame(q[k], "Psh", i) /\ q[k].arg = n
      <3>1. PICK k \in 1 .. Len(p) : IsFrame(p[k], "Psh", i) /\ p[k].arg = n
        BY <2>2, Zenon DEF Follows
      <3>2. k # 1
        BY <3>1, Zenon
      <3>3. k - 1 \in 1 .. Len(q) /\ (k - 1) + 1 = k
        BY <3>2 DEF Shifted
      <3>4. q[k - 1] = p[k]
        BY <2>1, <3>3, Zenon
      <3> QED
        BY <3>1, <3>3, <3>4, Zenon
    <2>5. Follows(i, L, q, c)
      BY <2>2, <2>3, <2>4, Zenon DEF Follows
    <2> QED
      BY <2>5 DEF L
  <1>ContinuesAppended.
    ASSUME NEW p \in Seq(Frame), NEW g \in Frame, NEW i, NEW s \in Seq(Nat), NEW c \in Nat,
           Continues(i, s, p, c)
    PROVE  /\ ~IsFrame(g, "Psh", i) => Continues(i, s, Append(p, g), c)
           /\ IsFrame(g, "Psh", i) /\ g.arg = c + 1 => Continues(i, s, Append(p, g), c + 1)
    <2> USE <1>ContinuesAppended
    <2> SUFFICES ASSUME s # <<>>
                 PROVE  /\ ~IsFrame(g, "Psh", i) => Follows(i, s[Len(s)], Append(p, g), c)
                        /\ IsFrame(g, "Psh", i) /\ g.arg = c + 1 =>
                               Follows(i, s[Len(s)], Append(p, g), c + 1)
      BY DEF Continues
    <2> DEFINE L == s[Len(s)]
               q == Append(p, g)
    <2>1. Follows(i, L, p, c) /\ L \in Nat
      BY DEF Continues
    <2>2. /\ Len(q) = Len(p) + 1 /\ Len(p) \in Nat /\ q[Len(p) + 1] = g
          /\ \A k \in 1 .. Len(p) : q[k] = p[k]
      OBVIOUS
    <2> HIDE DEF L, q
    <2>3. /\ 1 .. Len(p) \subseteq 1 .. Len(q) /\ Len(p) + 1 \in 1 .. Len(q)
          /\ \A k \in 1 .. Len(q) : (k \in 1 .. Len(p) /\ q[k] = p[k]) \/ q[k] = g
      BY <2>2
    <2>4. \A n \in L + 1 .. c : \E k \in 1 .. Len(q) : IsFrame(q[k], "Psh", i) /\ q[k].arg = n
      BY <2>1, <2>2, <2>3, Zenon DEF Follows
    <2>5. \A k \in 1 .. Len(p) : IsFrame(p[k], "Psh", i) => p[k].arg > L
      BY <2>1, Zenon DEF Follows
    <2>6. CASE ~IsFrame(g, "Psh", i)
      <3>1. \A k \in 1 .. Len(q) : IsFrame(q[k], "Psh", i) => q[k].arg > L
        BY <2>3, <2>5, <2>6, Zenon
      <3>2. Follows(i, L, q, c)
        BY <2>1, <2>4, <3>1, Zenon DEF Follows
      <3> QED
        BY <2>6, <3>2, Zenon DEF L, q
    <2>7. CASE IsFrame(g, "Psh", i) /\ g.arg = c + 1
      <3>1. g.arg > L /\ L <= c + 1
        BY <2>1, <2>7 DEF Follows
      <3>2. \A k \in 1 .. Len(q) : IsFrame(q[k], "Psh", i) => q[k].arg > L
        BY <2>3, <2>5, <3>1, Zenon
      <3>3. ASSUME NEW n \in L + 1 .. c + 1
            PROVE  \E k \in 1 .. Len(q) : IsFrame(q[k], "Psh", i) /\ q[k].arg = n
        <4>1. CASE n = c + 1
          BY <2>2, <2>3, <2>7, <4>1, Zenon
        <4>2. CASE n # c + 1
          <5>1. n \in L + 1 .. c
            BY <2>1, <4>2
          <5> QED
            BY <2>4, <5>1, Zenon
        <4> QED
          BY <4>1, <4>2, Zenon
      <3>4. Follows(i, L, q, c + 1)
        BY <2>1, <3>1, <3>2, <3>3, Zenon DEF Follows
      <3> QED
        BY <2>7, <3>4, Zenon DEF L, q
    <2> QED
      BY <2>6, <2>7, Zenon
  <1>ContinuesPasses.
    ASSUME TypeOK, TypeOK', NEW i \in StreamIds, NEW s \in Seq(Nat), Passes(i),
           Continues(i, s, Pipe, pushed[i])
    PROVE  Continues(i, s, Pipe', pushed'[i])
    <2> USE <1>ContinuesPasses
    <2>1. Pipe \in Seq(Frame) /\ Pipe' \in Seq(Frame) /\ pushed[i] \in Nat
      BY PipeType DEF TypeOK, TypeClient, TypeRecv, Pipe
    <2>2. CASE Pipe' = Pipe /\ UNCHANGED pushed
      BY <2>2
    <2>3. CASE buf # <<>> /\ NextFrame /\ UNCHANGED <<net, pushed>> /\ ~IsFrame(Head(buf), "Psh", i)
      <3>1. Shifted(Pipe, Pipe', 1) /\ Pipe[1] = Head(buf)
        BY <2>3, PipeTail, PipeHead, Zenon
      <3>2. ~IsFrame(Pipe[1], "Psh", i)
        BY <2>3, <3>1, Zenon
      <3>3. Continues(i, s, Pipe', pushed[i])
        BY <2>1, <3>1, <3>2, <1>ContinuesShifted, Zenon
      <3> QED
        BY <2>3, <3>3
    <2>4. ASSUME NEW f \in ClientFrames, ClientSend(f) PROVE Continues(i, s, Pipe', pushed'[i])
      <3> DEFINE g == Stamp(f)
      <3>1. /\ Pipe' = Append(Pipe, g) /\ g \in Frame /\ g.cmd = f.cmd /\ g.id = f.id
            /\ f.cmd = "Psh" => g.arg = pushed[f.id] + 1
            /\ f.id \in StreamIds
        BY <2>4, PipeSend DEF Frame
      <3>2. pushed'[i] = IF f.cmd = "Psh" /\ f.id = i THEN pushed[i] + 1 ELSE pushed[i]
        BY <2>4, <3>1, Zenon DEF ClientSend, TypeOK, TypeClient
      <3> HIDE DEF g
      <3>3. /\ ~IsFrame(g, "Psh", i) => Continues(i, s, Append(Pipe, g), pushed[i])
            /\ IsFrame(g, "Psh", i) /\ g.arg = pushed[i] + 1 =>
                  Continues(i, s, Append(Pipe, g), pushed[i] + 1)
        BY <2>1, <3>1, <1>ContinuesAppended, Zenon
      <3>4. CASE f.cmd = "Psh" /\ f.id = i
        <4>1. IsFrame(g, "Psh", i) /\ g.arg = pushed[i] + 1
          BY <3>1, <3>4, Zenon DEF IsFrame
        <4> QED
          BY <3>1, <3>2, <3>3, <3>4, <4>1, Zenon
      <3>5. CASE ~(f.cmd = "Psh" /\ f.id = i)
        <4>1. ~IsFrame(g, "Psh", i)
          BY <3>1, <3>5, Zenon DEF IsFrame
        <4> QED
          BY <3>1, <3>2, <3>3, <3>5, <4>1, Zenon
      <3> QED
        BY <3>4, <3>5, Zenon
    <2> QED
      BY <2>2, <2>3, <2>4, Zenon DEF Passes
  (* A handler whose payloads do not move. *)
  <1>UploadStays.
    ASSUME TypeOK, TypeOK', NEW t \in Tasks, UploadOK(t),
           tpc'[t] = tpc[t], got'[t] = got[t], chan'[t] = chan[t], sid'[t] = sid[t],
           Taken(t)' = Taken(t), Feeding(t)' => Feeding(t) /\ Passes(sid[t])
    PROVE  UploadOK(t)'
    <2> USE <1>UploadStays
    <2>1. Gone(t)' <=> Gone(t)
      BY Zenon DEF Gone
    <2>2. /\ tpc'[t] = "none" => got'[t] = 0
          /\ Gone(t)' => chan'[t] = <<>>
          /\ ~Gone(t)' => InTurn(Taken(t)')
      BY <2>1, Zenon DEF UploadOK
    <2>3. ASSUME ~Gone(t)', Feeding(t)'
          PROVE  Continues(sid[t], Taken(t), Pipe', pushed'[sid[t]])
      <3>1. sid[t] \in StreamIds /\ Passes(sid[t]) /\ Taken(t) \in Seq(Nat)
        BY <2>3, TakenType, Zenon DEF Feeding, TypeOK, TypeTask
      <3>2. Continues(sid[t], Taken(t), Pipe, pushed[sid[t]])
        BY <2>1, <2>3, Zenon DEF UploadOK
      <3> QED
        BY <3>1, <3>2, <1>ContinuesPasses, Zenon
    <2> QED
      BY <2>2, <2>3, Zenon DEF UploadOK
  <1>UploadQuiet.
    ASSUME TypeOK, TypeOK', UploadInv, UNCHANGED <<tpc, got, chan, sid, streams>>,
           rcv.pc # "push", rcv'.pc # "push",
           rcv'.pc \notin {"close", "done"} =>
               rcv.pc \notin {"close", "done"} /\ \A i \in StreamIds : Passes(i)
    PROVE  UploadInv'
    <2> USE <1>UploadQuiet
    <2> SUFFICES ASSUME NEW t \in Tasks PROVE UploadOK(t)'
      BY DEF UploadInv
    <2>1. UploadOK(t) /\ sid[t] \in StreamIds \cup {None}
      BY Zenon DEF UploadInv, TypeOK, TypeTask
    <2>2. Taken(t)' = Taken(t)
      BY Zenon DEF Taken, Seen
    <2>3. Feeding(t)' => Feeding(t) /\ Passes(sid[t])
      BY <2>1, Zenon DEF Feeding
    <2> QED
      BY <2>1, <2>2, <2>3, <1>UploadStays, Zenon
  <1>UploadAside.
    ASSUME TypeOK, TypeOK', UploadInv, Aside
    PROVE  UploadInv'
    <2> USE <1>UploadAside
    <2> SUFFICES ASSUME NEW t \in Tasks PROVE UploadOK(t)'
      BY Zenon DEF UploadInv
    <2>1. UNCHANGED <<rcv, tpc, sid, chan, got>>
      BY AsideLeaves, Zenon
    <2>2. UploadOK(t) /\ sid[t] \in StreamIds \cup {None} /\ t # None
      BY ActorsDiffer, Zenon DEF UploadInv, TypeOK, TypeTask
    <2>3. streams'[sid[t]] = t /\ sid[t] # None => streams[sid[t]] = t
      <3>1. CASE ClientStep \/ OutRecv \/ OutWrite \/ CloseTasks \/ CloseWriter \/ UNCHANGED vars
                 \/ \E a \in Actors : LockWriteBuf(a)
        BY <3>1, Zenon DEF ClientStep, ClientSend, ClientHangup, LinkDown, OutRecv, OutWrite,
                           CloseTasks, CloseWriter, vars, LockWriteBuf, maps
      <3>2. CASE CloseStreams
        BY <2>2, <3>2 DEF CloseStreams
      <3>3. CASE OutRemove
        BY <2>2, <3>3, Zenon DEF OutRemove, TypeOK, TypeMaps
      <3> QED
        BY <3>1, <3>2, <3>3, Zenon DEF Aside, OutStep, CloseStep
    <2>4. ASSUME NEW i \in StreamIds PROVE Passes(i)
      <3>1. CASE \E f \in ClientFrames : ClientSend(f)
        BY <3>1, Zenon DEF Passes
      <3>2. CASE ~\E f \in ClientFrames : ClientSend(f)
        <4>1. UNCHANGED <<buf, net, pushed>>
          BY <3>2, Zenon DEF Aside, ClientStep, ClientHangup, LinkDown, OutStep, OutRecv,
                   OutWrite, OutRemove, CloseStep, CloseTasks, CloseStreams, CloseWriter, vars,
                   LockWriteBuf, client, recvs
        <4> QED
          BY <4>1 DEF Passes, Pipe
      <3> QED
        BY <3>1, <3>2, Zenon
    <2>5. Taken(t)' = Taken(t)
      BY <2>1, Zenon DEF Taken, Seen
    <2>6. Feeding(t)' => Feeding(t) /\ Passes(sid[t])
      BY <2>1, <2>2, <2>3, <2>4, Zenon DEF Feeding
    <2> QED
      BY <2>1, <2>2, <2>5, <2>6, <1>UploadStays, Zenon
  <1>LastAppended.
    ASSUME NEW s \in Seq(Nat), NEW a \in Nat
    PROVE  Append(s, a) # <<>> /\ Append(s, a)[Len(Append(s, a))] = a
    <2> USE <1>LastAppended
    <2> DEFINE r == Append(s, a)
    <2>1. Len(r) = Len(s) + 1 /\ Len(s) \in Nat /\ r[Len(s) + 1] = a
      OBVIOUS
    <2> HIDE DEF r
    <2>2. Len(r) # 0 /\ r[Len(r)] = a
      BY <2>1
    <2>3. r # <<>>
      BY <2>2
    <2> QED
      BY <2>2, <2>3, Zenon DEF r
  (* The payload that comes in is the one that follows. *)
  <1>NextPayload.
    ASSUME NEW p \in Seq(Frame), NEW q \in Seq(Frame), Len(p) \in Nat \ {0}, Shifted(p, q, 1),
           NEW i \in StreamIds, IsFrame(p[1], "Psh", i), NEW c \in Nat, NEW s \in Seq(Nat),
           Numbered(p, "Psh", i, c), InTurn(s), Continues(i, s, p, c)
    PROVE  /\ InTurn(Append(s, p[1].arg))
           /\ Continues(i, Append(s, p[1].arg), q, c)
    <2> USE <1>NextPayload
    <2> DEFINE a == p[1].arg
               r == Append(s, a)
    <2>1. a \in 1 .. c /\ a \in Nat
      BY DEF Numbered
    <2>2. 1 \in 1 .. Len(p) /\ \A k \in 2 .. Len(p) : k \in 1 .. Len(p) /\ 1 < k
      OBVIOUS
    <2>3. \A k \in 2 .. Len(p) : IsFrame(p[k], "Psh", i) => a < p[k].arg
      BY <2>2, Zenon DEF Numbered
    <2>4. \A n \in a .. c : \E k \in 1 .. Len(p) : IsFrame(p[k], "Psh", i) /\ p[k].arg = n
      BY <2>2, Zenon DEF Numbered
    <2>5. a + 1 .. c \subseteq a .. c
      BY <2>1
    <2>6. \A n \in a + 1 .. c : \E k \in 1 .. Len(p) : IsFrame(p[k], "Psh", i) /\ p[k].arg = n
      BY <2>4, <2>5, Zenon
    <2> HIDE DEF a
    <2>7. r[Len(r)] = a /\ r # <<>>
      BY <2>1, <1>LastAppended, Zenon
    <2> HIDE DEF r
    <2>8. InTurn(r)
      <3>1. ASSUME s # <<>> PROVE s[Len(s)] # Eof /\ a = s[Len(s)] + 1
        <4> DEFINE L == s[Len(s)]
        <4>1. L \in Nat
          BY <3>1
        <4>2. Follows(i, L, p, c)
          BY <3>1, ZenonT(30) DEF Continues
        <4> HIDE DEF L
        <4>3. a > L
          BY <4>2 DEF Follows, a
        <4>4. L + 1 \in L + 1 .. c
          BY <2>1, <4>1, <4>3
        <4>5. PICK k \in 1 .. Len(p) : IsFrame(p[k], "Psh", i) /\ p[k].arg = L + 1
          BY <4>2, <4>4, ZenonT(30) DEF Follows
        <4>6. a <= L + 1
          BY <2>1, <2>3, <4>1, <4>5, SMTT(30) DEF a
        <4>7. a = L + 1 /\ L # Eof
          BY <2>1, <4>1, <4>2, <4>3, <4>6 DEF Follows
        <4> QED
          BY <4>7, Zenon DEF L
      <3> QED
        BY <2>1, <3>1, InTurnAppend, Zenon DEF r
    <2>9. Follows(i, a, q, c)
      <3>1. a # Eof /\ a <= c
        BY <2>1 DEF Eof
      <3>2. \A k \in 1 .. Len(q) : k + 1 \in 2 .. Len(p) /\ q[k] = p[k + 1]
        BY DEF Shifted
      <3>3. \A k \in 2 .. Len(p) : IsFrame(p[k], "Psh", i) => p[k].arg > a
        BY <2>1, <2>3, Zenon DEF Frame
      <3>4. \A k \in 1 .. Len(q) : IsFrame(q[k], "Psh", i) => q[k].arg > a
        BY <3>2, <3>3, Zenon
      <3>5. ASSUME NEW n \in a + 1 .. c
            PROVE  \E k \in 1 .. Len(q) : IsFrame(q[k], "Psh", i) /\ q[k].arg = n
        <4>1. PICK k \in 1 .. Len(p) : IsFrame(p[k], "Psh", i) /\ p[k].arg = n
          BY <2>6, ZenonT(30)
        <4>2. k # 1
          BY <2>1, <4>1 DEF a
        <4>3. k - 1 \in 1 .. Len(q) /\ (k - 1) + 1 = k
          BY <4>2 DEF Shifted
        <4>4. q[k - 1] = p[k]
          BY <3>2, <4>3, Zenon
        <4> QED
          BY <4>1, <4>3, <4>4, Zenon
      <3> QED
        BY <3>1, <3>4, <3>5, Zenon DEF Follows
    <2>10. Continues(i, r, q, c)
      BY <2>7, <2>9 DEF Continues
    <2> QED
      BY <2>8, <2>10, ZenonT(30) DEF a, r
  <1>UploadPsh.
    ASSUME TypeOK, TypeOK', FinInv, PipeNumbered, UploadInv, RecvPsh
    PROVE  UploadInv'
    <2> USE <1>UploadPsh
    <2> DEFINE i == Head(buf).id
               a == Head(buf).arg
               w == streams[i]
    <2>1. /\ rcv.pc = "decode" /\ buf # <<>> /\ Head(buf).cmd = "Psh" /\ NextFrame
          /\ UNCHANGED <<net, pushed, tpc, got, chan, sid, streams>>
          /\ i \in StreamIds /\ a \in Nat
      BY DecodeTypes, Zenon DEF RecvPsh, Decoding, client, task, maps
    <2>2. rcv' = IF w = None THEN rcv ELSE [pc |-> "push", task |-> w, arg |-> a]
      BY Zenon DEF RecvPsh
    <2>3. IsFrame(Head(buf), "Psh", i) /\ \A j \in StreamIds \ {i} : ~IsFrame(Head(buf), "Psh", j)
      BY <2>1 DEF IsFrame
    <2>4. w # None => w \in Tasks /\ sid[w] = i /\ tpc[w] # "none"
      BY <2>1, EntryIsTask, Zenon
    <2> HIDE DEF i, a, w
    <2>5. ASSUME NEW u \in Tasks, u # w PROVE UploadOK(u)'
      <3>1. UploadOK(u) /\ sid[u] \in StreamIds \cup {None}
        BY DEF UploadInv, TypeOK, TypeTask
      <3>2. Taken(u)' = Taken(u)
        BY <2>1, <2>2, <2>5, Zenon DEF Taken, Seen
      <3>3. rcv'.pc \notin {"close", "done"} => rcv.pc \notin {"close", "done"}
        BY <2>1
      <3>4. Feeding(u)' => Feeding(u) /\ sid[u] \in StreamIds \ {i}
        BY <2>1, <2>5, <3>1, <3>3, Zenon DEF Feeding, w
      <3>5. \A j \in StreamIds \ {i} : Passes(j)
        BY <2>1, <2>3 DEF Passes
      <3> QED
        BY <2>1, <3>1, <3>2, <3>4, <3>5, <1>UploadStays, ZenonT(30)
    <2>6. ASSUME NEW u \in Tasks, u = w PROVE UploadOK(u)'
      <3>1. /\ rcv' = [pc |-> "push", task |-> u, arg |-> a] /\ sid[u] = i /\ tpc[u] # "none"
            /\ UploadOK(u) /\ streams[sid[u]] = u /\ sid[u] # None
        BY <2>1, <2>2, <2>4, <2>6, ActorsDiffer, Zenon DEF UploadInv, w
      <3>2. Taken(u) = Seen(u) /\ Taken(u)' = Append(Seen(u), a) /\ Seen(u) \in Seq(Nat)
        BY <2>1, <2>6, <3>1, TakenType, Zenon DEF Taken, Seen
      <3>3. Feeding(u)
        BY <2>1, <3>1, Zenon DEF Feeding
      <3>4. Gone(u)' <=> Gone(u)
        BY <2>1, Zenon DEF Gone
      <3>5. ASSUME ~Gone(u)
            PROVE  InTurn(Append(Seen(u), a)) /\ Continues(i, Append(Seen(u), a), Pipe', pushed[i])
        <4>1. InTurn(Seen(u)) /\ Continues(i, Seen(u), Pipe, pushed[i])
          BY <3>1, <3>2, <3>3, <3>5, Zenon DEF UploadOK
        <4>2. /\ Pipe \in Seq(Frame) /\ Pipe' \in Seq(Frame) /\ Len(Pipe) \in Nat \ {0}
              /\ Shifted(Pipe, Pipe', 1) /\ Pipe[1] = Head(buf) /\ pushed[i] \in Nat
              /\ Numbered(Pipe, "Psh", i, pushed[i])
          <5>1. /\ Pipe \in Seq(Frame) /\ pushed[i] \in Nat
                /\ Numbered(Pipe, "Psh", i, pushed[i])
            BY <2>1, PipeType, Zenon DEF PipeNumbered, TypeOK, TypeClient
          <5>4. Pipe' \in Seq(Frame)
            BY DEF TypeOK, TypeClient, TypeRecv, Pipe
          <5>2. Shifted(Pipe, Pipe', 1)
            BY <2>1, PipeTail, Zenon
          <5>3. Len(Pipe) \in Nat \ {0} /\ Pipe[1] = Head(buf)
            BY <2>1, PipeHead, Zenon
          <5> QED
            BY <5>1, <5>2, <5>3, <5>4, Zenon
        <4>3. Pipe[1].arg = a /\ IsFrame(Pipe[1], "Psh", i)
          BY <2>3, <4>2, Zenon DEF a
        <4>4. /\ InTurn(Append(Seen(u), Pipe[1].arg))
              /\ Continues(i, Append(Seen(u), Pipe[1].arg), Pipe', pushed[i])
          BY <2>1, <3>2, <4>1, <4>2, <4>3, <1>NextPayload, Zenon
        <4> QED
          BY <4>3, <4>4
      <3> QED
        BY <2>1, <3>1, <3>2, <3>4, <3>5, Zenon DEF UploadOK
    <2> QED
      BY <2>5, <2>6, Zenon DEF UploadInv
  <1>UploadFin.
    ASSUME TypeOK, TypeOK', FinInv, UploadInv, RecvFin
    PROVE  UploadInv'
    <2> USE <1>UploadFin
    <2> DEFINE i == Head(buf).id
               w == streams[i]
    <2>1. /\ rcv.pc = "decode" /\ buf # <<>> /\ Head(buf).cmd = "Fin" /\ NextFrame
          /\ UNCHANGED <<net, pushed, tpc, got, chan, sid>>
          /\ i \in StreamIds
      BY DecodeTypes, Zenon DEF RecvFin, Decoding, client, task
    <2>2. rcv' = IF w = None THEN rcv ELSE [pc |-> "push", task |-> w, arg |-> Eof]
      BY Zenon DEF RecvFin
    <2>3. streams'[i] = None /\ \A j \in StreamIds \ {i} : streams'[j] = streams[j]
      BY <2>1, Zenon DEF RecvFin, TypeOK, TypeMaps
    <2>4. w # None => w \in Tasks /\ sid[w] = i /\ tpc[w] # "none"
      BY <2>1, EntryIsTask, Zenon
    <2>5. \A j \in StreamIds : Passes(j)
      BY <2>1 DEF Passes, IsFrame
    <2> HIDE DEF i, w
    <2>6. ASSUME NEW u \in Tasks, u # w PROVE UploadOK(u)'
      <3>1. UploadOK(u) /\ sid[u] \in StreamIds \cup {None} /\ u # None
        BY ActorsDiffer DEF UploadInv, TypeOK, TypeTask
      <3>2. Taken(u)' = Taken(u)
        BY <2>1, <2>2, <2>6, Zenon DEF Taken, Seen
      <3>3. rcv'.pc \notin {"close", "done"} => rcv.pc \notin {"close", "done"}
        BY <2>1
      <3>4. Feeding(u)' => Feeding(u) /\ sid[u] \in StreamIds
        BY <2>1, <2>3, <3>1, <3>3, Zenon DEF Feeding
      <3> QED
        BY <2>1, <2>5, <3>1, <3>2, <3>4, <1>UploadStays, ZenonT(30)
    <2>7. ASSUME NEW u \in Tasks, u = w PROVE UploadOK(u)'
      <3>1. /\ rcv' = [pc |-> "push", task |-> u, arg |-> Eof] /\ sid[u] = i /\ tpc[u] # "none"
            /\ UploadOK(u) /\ streams[sid[u]] = u /\ sid[u] # None /\ u # None
        BY <2>1, <2>2, <2>4, <2>7, ActorsDiffer, Zenon DEF UploadInv, w
      <3>2. Taken(u) = Seen(u) /\ Taken(u)' = Append(Seen(u), Eof) /\ Seen(u) \in Seq(Nat)
        BY <2>1, <2>7, <3>1, TakenType, Zenon DEF Taken, Seen
      <3>3. Feeding(u) /\ ~Feeding(u)'
        BY <2>1, <2>3, <3>1, Zenon DEF Feeding
      <3>4. Gone(u)' <=> Gone(u)
        BY <2>1, Zenon DEF Gone
      <3>5. ASSUME ~Gone(u) PROVE InTurn(Append(Seen(u), Eof))
        <4>1. InTurn(Seen(u)) /\ Continues(i, Seen(u), Pipe, pushed[i])
          BY <3>1, <3>2, <3>3, <3>5, Zenon DEF UploadOK
        <4>2. Seen(u) # <<>> => Seen(u)[Len(Seen(u))] # Eof
          BY <4>1, Zenon DEF Continues, Follows
        <4>3. Eof \in Nat
          BY DEF Eof
        <4> QED
          BY <3>2, <4>1, <4>2, <4>3, InTurnAppend, Zenon
      <3> QED
        BY <2>1, <3>1, <3>2, <3>3, <3>4, <3>5, Zenon DEF UploadOK
    <2> QED
      BY <2>6, <2>7, Zenon DEF UploadInv
  (* What is in one's hand and then in the channel is still in turn. *)
  <1>SeenAppend.
    ASSUME NEW g \in Nat, NEW c \in Seq(Nat), NEW a \in Nat
    PROVE  <<g>> \o Append(c, a) = Append(<<g>> \o c, a)
    BY <1>SeenAppend, SMTT(30)
  <1>UploadPush.
    ASSUME TypeOK, TypeOK', RecvSane, UploadInv, RecvPush
    PROVE  UploadInv'
    <2> USE <1>UploadPush
    <2> DEFINE w == rcv.task
               a == rcv.arg
    <2>1. /\ rcv.pc = "push" /\ rcv' = At("decode") /\ rcv'.pc = "decode"
          /\ UNCHANGED <<buf, net, pushed, tpc, got, sid, streams>>
          /\ w \in Tasks /\ a \in Nat /\ tpc[w] # "none"
      BY Zenon DEF RecvPush, client, maps, At, RecvSane, TypeOK, TypeRecv
    <2>2. /\ Gone(w) => chan' = chan
          /\ ~Gone(w) => chan'[w] = Append(chan[w], a)
          /\ \A u \in Tasks \ {w} : chan'[u] = chan[u]
      BY DEF RecvPush, TypeOK, TypeTask
    <2>3. \A j \in StreamIds : Passes(j)
      BY <2>1, Zenon DEF Passes, Pipe
    <2> HIDE DEF w, a
    <2>4. \A u \in Tasks : Feeding(u)' => Feeding(u) /\ sid[u] \in StreamIds /\ Passes(sid[u])
      BY <2>1, <2>3, Zenon DEF Feeding, TypeOK, TypeTask
    <2>5. ASSUME NEW u \in Tasks, u # w PROVE UploadOK(u)'
      <3>1. Taken(u)' = Taken(u) /\ UploadOK(u)
        BY <2>1, <2>2, <2>5, Zenon DEF Taken, Seen, w, UploadInv
      <3> QED
        BY <2>1, <2>2, <2>4, <2>5, <3>1, <1>UploadStays, Zenon
    <2>6. ASSUME NEW u \in Tasks, u = w, Gone(u) PROVE UploadOK(u)'
      <3>1. UploadOK(u) /\ (Gone(u)' <=> Gone(u)) /\ chan' = chan /\ tpc[u] # "none"
        BY <2>1, <2>2, <2>6, Zenon DEF UploadInv, Gone
      <3> QED
        BY <2>1, <2>6, <3>1, Zenon DEF UploadOK
    <2>7. ASSUME NEW u \in Tasks, u = w, ~Gone(u) PROVE UploadOK(u)'
      <3>1. /\ got[u] \in Nat /\ chan[u] \in Seq(Nat) /\ chan'[u] = Append(chan[u], a)
            /\ tpc[u] # "none"
        BY <2>1, <2>2, <2>7, TakenType, Zenon
      <3>2. Taken(u) = Append(Seen(u), a) /\ Taken(u)' = Seen(u)'
        BY <2>1, <2>7, Zenon DEF Taken, w, a
      <3>3. Seen(u)' = Append(Seen(u), a)
        BY <2>1, <3>1, <1>SeenAppend, ZenonT(30) DEF Seen
      <3>4. UploadOK(u) /\ (Gone(u)' <=> Gone(u))
        BY <2>1 DEF UploadInv, Gone
      <3>5. ASSUME Feeding(u)' PROVE Continues(sid[u], Taken(u), Pipe', pushed'[sid[u]])
        <4>1. Continues(sid[u], Taken(u), Pipe, pushed[sid[u]])
          BY <2>4, <2>7, <3>4, <3>5, Zenon DEF UploadOK
        <4> QED
          BY <2>1, <4>1, Zenon DEF Pipe
      <3> QED
        BY <2>1, <2>7, <3>1, <3>2, <3>3, <3>4, <3>5, Zenon DEF UploadOK
    <2> QED
      BY <2>5, <2>6, <2>7, Zenon DEF UploadInv
  <1>UploadOpen.
    ASSUME TypeOK, TypeOK', Registered, UploadInv, NEW t \in Tasks, RecvSynOpen(t)
    PROVE  UploadInv'
    <2> USE <1>UploadOpen
    <2> DEFINE i == Head(buf).id
    <2>1. /\ rcv.pc = "decode" /\ buf # <<>> /\ Head(buf).cmd = "Syn" /\ NextFrame
          /\ rcv'.pc = "register" /\ tpc[t] = "none" /\ i \in StreamIds
          /\ UNCHANGED <<net, pushed, got, chan>>
      BY DecodeTypes, Zenon DEF RecvSynOpen, Decoding, client
    <2>2. /\ tpc'[t] = "addr" /\ \A u \in Tasks \ {t} : sid'[u] = sid[u] /\ tpc'[u] = tpc[u]
          /\ streams'[i] = t /\ \A j \in StreamIds \ {i} : streams'[j] = streams[j]
      BY <2>1, Zenon DEF RecvSynOpen, TypeOK, TypeTask, TypeMaps
    <2>3. \A j \in StreamIds : Passes(j)
      BY <2>1, Zenon DEF Passes, IsFrame
    <2> HIDE DEF i
    <2>4. UploadOK(t)'
      <3>1. got'[t] = 0 /\ chan'[t] = <<>>
        BY <2>1, Zenon DEF UploadInv, UploadOK, Registered
      <3>2. Taken(t)' = <<>>
        BY <2>1, <3>1, Zenon DEF Taken, Seen
      <3>3. InTurn(<<>>)
        BY DEF InTurn
      <3> QED
        BY <2>2, <3>1, <3>2, <3>3, Zenon DEF UploadOK, Gone, Continues
    <2>5. ASSUME NEW u \in Tasks, u # t PROVE UploadOK(u)'
      <3>1. Taken(u)' = Taken(u) /\ UploadOK(u) /\ sid[u] \in StreamIds \cup {None}
        BY <2>1, Zenon DEF Taken, Seen, UploadInv, TypeOK, TypeTask
      <3>2. Feeding(u)' => Feeding(u) /\ sid[u] \in StreamIds
        BY <2>1, <2>2, <2>5, <3>1, Zenon DEF Feeding
      <3> QED
        BY <2>1, <2>2, <2>3, <2>5, <3>1, <3>2, <1>UploadStays, ZenonT(30)
    <2> QED
      BY <2>4, <2>5, Zenon DEF UploadInv
  (* The handler reads a payload: what it took over before is forgotten. *)
  <1>SeenRead.
    ASSUME NEW g \in Nat, NEW c \in Seq(Nat), c # <<>>
    PROVE  /\ <<Head(c)>> \o Tail(c) = c
           /\ Tail(<<g>> \o c) = c /\ Len(<<g>> \o c) >= 2 /\ <<g>> \o c \in Seq(Nat)
    BY <1>SeenRead
  <1>TailAppend.
    ASSUME NEW s \in Seq(Nat), s # <<>>, NEW a \in Nat
    PROVE  Tail(Append(s, a)) = Append(Tail(s), a) /\ Len(Append(s, a)) >= 2
    BY <1>TailAppend, SMTT(30)
  <1>TakenRead.
    ASSUME TypeOK, NEW t \in Tasks, UNCHANGED rcv, chan[t] # <<>>, Head(chan[t]) # Eof,
           got'[t] = Head(chan[t]), chan'[t] = Tail(chan[t])
    PROVE  Taken(t)' = Taken(t) \/ (Len(Taken(t)) >= 2 /\ Taken(t)' = Tail(Taken(t)))
    <2> USE <1>TakenRead
    <2>1. /\ got[t] \in Nat /\ chan[t] \in Seq(Nat) /\ rcv.arg \in Nat /\ Seen(t) \in Seq(Nat)
          /\ got'[t] # 0
      BY TakenType, Zenon DEF Eof
    <2>2. Seen(t)' = chan[t]
      BY <2>1, <1>SeenRead, Zenon DEF Seen
    <2>3. CASE got[t] = 0
      <3>1. Seen(t) = chan[t]
        BY <2>3 DEF Seen
      <3> QED
        BY <2>2, <3>1, Zenon DEF Taken
    <2>4. CASE got[t] # 0
      <3>1. Seen(t) = <<got[t]>> \o chan[t]
        BY <2>4, ZenonT(30) DEF Seen
      <3>2. Len(Seen(t)) >= 2 /\ Tail(Seen(t)) = chan[t] /\ Seen(t) # <<>>
        BY <2>1, <3>1, <1>SeenRead, SMTT(30)
      <3>3. /\ Tail(Append(Seen(t), rcv.arg)) = Append(chan[t], rcv.arg)
            /\ Len(Append(Seen(t), rcv.arg)) >= 2
        BY <2>1, <3>2, <1>TailAppend, Zenon
      <3> QED
        BY <2>2, <3>2, <3>3, Zenon DEF Taken
    <2> QED
      BY <2>3, <2>4, Zenon
  (* The handler reads the end: nothing follows it, and nothing is handed over any more. *)
  <1>TakenEof.
    ASSUME TypeOK, NEW t \in Tasks, UNCHANGED rcv, chan[t] # <<>>, Head(chan[t]) = Eof,
           got'[t] = got[t], chan'[t] = <<>>, InTurn(Taken(t)),
           Feeding(t) => Continues(sid[t], Taken(t), Pipe, pushed[sid[t]])
    PROVE  InTurn(Taken(t)') /\ ~Feeding(t)
    <2> USE <1>TakenEof
    <2>1. /\ got[t] \in Nat /\ chan[t] \in Seq(Nat) /\ rcv.arg \in Nat /\ Seen(t) \in Seq(Nat)
          /\ Taken(t) \in Seq(Nat)
      BY TakenType, ZenonT(30)
    <2> DEFINE k == IF got[t] = 0 THEN 1 ELSE 2
    <2>2. k \in 1 .. Len(Seen(t)) /\ Seen(t)[k] = Eof
      BY <2>1, SMTT(30) DEF Seen
    <2> HIDE DEF k
    <2>3. ~(rcv.pc = "push" /\ rcv.task = t)
      <3> SUFFICES ASSUME rcv.pc = "push" /\ rcv.task = t PROVE FALSE
        BY Zenon
      <3>1. Taken(t) = Append(Seen(t), rcv.arg)
        BY ZenonT(30) DEF Taken
      <3>2. /\ k \in 1 .. Len(Taken(t)) /\ Taken(t)[k] = Eof
            /\ Len(Taken(t)) = Len(Seen(t)) + 1 /\ Len(Seen(t)) \in Nat
        BY <2>1, <2>2, <3>1, SMTT(30)
      <3>3. k = Len(Taken(t))
        BY <2>1, <3>2, <1>InTurnEof, Zenon
      <3> QED
        BY <2>2, <3>2, <3>3
    <2>4. Taken(t) = Seen(t) /\ Taken(t)' = Seen(t)'
      BY <2>3, ZenonT(30) DEF Taken
    <2>5. k = Len(Taken(t)) /\ Taken(t) # <<>>
      BY <2>1, <2>2, <2>4, <1>InTurnEof
    <2>6. ~Feeding(t)
      BY <2>2, <2>4, <2>5, Zenon DEF Continues, Follows
    <2>7. Seen(t)' \in Seq(Nat) /\ Len(Seen(t)') <= 1
      <3>1. Seen(t)' = IF got[t] = 0 THEN <<>> ELSE <<got[t]>> \o <<>>
        BY ZenonT(30) DEF Seen
      <3>2. \A g \in Nat : <<g>> \o <<>> \in Seq(Nat) /\ Len(<<g>> \o <<>>) <= 1
        BY SMTT(30)
      <3>3. <<>> \in Seq(Nat) /\ Len(<<>>) <= 1
        OBVIOUS
      <3> QED
        BY <2>1, <3>1, <3>2, <3>3, ZenonT(30)
    <2> QED
      BY <2>4, <2>6, <2>7, InTurnShort, Zenon
  <1>UploadTask.
    ASSUME TypeOK, TypeOK', UploadInv, NEW t \in Tasks, Own(t)
    PROVE  UploadInv'
    <2> USE <1>UploadTask
    <2>1. /\ UNCHANGED <<net, pushed, buf, rcv, streams, sid>>
          /\ \A u \in Tasks \ {t} : tpc'[u] = tpc[u] /\ chan'[u] = chan[u] /\ got'[u] = got[u]
          /\ tpc'[t] # "none"
          /\ Gone(t) \/ tpc[t] = "none" => tpc'[t] = "done"
          /\ tpc'[t] \in {"exit", "done"} => chan'[t] = <<>> \/ (tpc[t] = "exit" /\ chan'[t] = chan[t])
          /\ \/ got'[t] = got[t] /\ chan'[t] = chan[t]
             \/ got'[t] = got[t] /\ chan'[t] = <<>> /\ (tpc'[t] \in {"exit", "done"} \/ ReadsEof(t))
             \/ /\ chan[t] # <<>> /\ Head(chan[t]) # Eof
                /\ got'[t] = Head(chan[t]) /\ chan'[t] = Tail(chan[t])
      BY Zenon DEF Own
    <2>2. /\ UNCHANGED Pipe /\ \A j \in StreamIds : Passes(j)
          /\ \A u \in Tasks : Feeding(u)' <=> Feeding(u)
      BY <2>1, Zenon DEF Passes, Pipe, Feeding
    <2>3. ASSUME NEW u \in Tasks, u # t PROVE UploadOK(u)'
      <3>1. UploadOK(u) /\ sid[u] \in StreamIds \cup {None}
        BY Zenon DEF UploadInv, TypeOK, TypeTask
      <3>2. Taken(u)' = Taken(u)
        BY <2>1, <2>3, Zenon DEF Taken, Seen
      <3>3. Feeding(u)' => Feeding(u) /\ Passes(sid[u])
        BY <2>2, <3>1, Zenon DEF Feeding
      <3> QED
        BY <2>1, <2>3, <3>1, <3>2, <3>3, <1>UploadStays, ZenonT(30)
    <2>4. UploadOK(t)
      BY DEF UploadInv
    <2>5. Gone(t)' => chan'[t] = <<>>
      BY <2>1, <2>4, Zenon DEF UploadOK, Gone
    <2>6. ASSUME ~Gone(t)'
          PROVE  /\ InTurn(Taken(t)')
                 /\ Feeding(t) => Continues(sid[t], Taken(t)', Pipe, pushed[sid[t]])
      <3>1. ~Gone(t) /\ tpc'[t] \notin {"exit", "done"}
        BY <2>1, <2>6, ZenonT(30) DEF Gone
      <3>2. /\ InTurn(Taken(t)) /\ Taken(t) \in Seq(Nat)
            /\ Feeding(t) => Continues(sid[t], Taken(t), Pipe, pushed[sid[t]])
        BY <2>4, <3>1, TakenType, Zenon DEF UploadOK
      <3>3. CASE Taken(t)' = Taken(t)
        BY <3>2, <3>3, Zenon
      <3>4. CASE Len(Taken(t)) >= 2 /\ Taken(t)' = Tail(Taken(t))
        <4> DEFINE r == Tail(Taken(t))
        <4>1. InTurn(r) /\ r # <<>> /\ r[Len(r)] = Taken(t)[Len(Taken(t))] /\ Taken(t) # <<>>
          BY <3>2, <3>4, <1>InTurnTail
        <4> HIDE DEF r
        <4>2. Continues(sid[t], Taken(t), Pipe, pushed[sid[t]]) =>
                 Continues(sid[t], r, Pipe, pushed[sid[t]])
          BY <4>1, Zenon DEF Continues
        <4> QED
          BY <3>2, <3>4, <4>1, <4>2, ZenonT(30) DEF r
      <3>5. CASE got'[t] = got[t] /\ chan'[t] = chan[t]
        BY <2>1, <3>3, <3>5, Zenon DEF Taken, Seen
      <3>6. CASE got'[t] = got[t] /\ chan'[t] = <<>> /\ ReadsEof(t)
        <4>1. CASE chan[t] = <<>>
          BY <3>5, <3>6, <4>1, ZenonT(30)
        <4>2. CASE chan[t] # <<>> /\ Head(chan[t]) = Eof
          BY <2>1, <3>2, <3>6, <4>2, <1>TakenEof, ZenonT(30)
        <4> QED
          BY <3>6, <4>1, <4>2, Zenon DEF ReadsEof
      <3>7. CASE /\ chan[t] # <<>> /\ Head(chan[t]) # Eof
                 /\ got'[t] = Head(chan[t]) /\ chan'[t] = Tail(chan[t])
        BY <2>1, <3>3, <3>4, <3>7, <1>TakenRead, Zenon
      <3> QED
        BY <2>1, <3>1, <3>5, <3>6, <3>7, ZenonT(30)
    <2>7. UploadOK(t)'
      <3>1. ~Gone(t)' /\ Feeding(t)' => Continues(sid'[t], Taken(t)', Pipe', pushed'[sid'[t]])
        BY <2>1, <2>2, <2>6, Zenon
      <3> QED
        BY <2>1, <2>5, <2>6, <3>1, Zenon DEF UploadOK
    <2> QED
      BY <2>3, <2>7, Zenon DEF UploadInv
  <1> SUFFICES ASSUME SessionInv, SessionInv', UploadInv, [Next]_vars
               PROVE  UploadInv'
    OBVIOUS
  <1> USE DEF task, maps, client
  <1>1. TypeOK /\ TypeOK' /\ FinInv /\ RecvSane /\ PipeNumbered /\ Registered
    BY DEF SessionInv
  <1>2. CASE Aside
    BY <1>1, <1>2, <1>UploadAside, Zenon
  <1>3. ASSUME NEW t \in Tasks, TaskStep(t) \/ DestStep(t) \/ TaskSynAckTimeout(t)
        PROVE  UploadInv'
    BY <1>1, <1>3, TaskOwn, <1>UploadTask, Zenon
  <1>4. CASE RecvControlTimeout
    <2>1. /\ wst["recv"] # "idle" /\ UNCHANGED <<tpc, got, chan, sid, streams>>
          /\ rcv'.pc = "close"
      BY <1>4 DEF RecvControlTimeout, At
    <2>2. rcv.pc # "push"
      BY <1>1, <2>1, Zenon DEF RecvSane, Control
    <2> QED
      BY <1>1, <2>1, <2>2, <1>UploadQuiet, ZenonT(30)
  <1>5. CASE RecvControlDone \/ RecvControlFailed
    <2>1. /\ wst["recv"] # "idle" /\ UNCHANGED <<tpc, got, chan, sid, streams>>
          /\ UNCHANGED <<buf, net, pushed>>
      BY <1>5, Zenon DEF RecvControlDone, RecvControlFailed, WriteOk, WriteErr, HasWriter
    <2>2. rcv.pc \in Control
      BY <1>1, <2>1, Zenon DEF RecvSane
    <2>3. rcv.pc \notin {"push", "close", "done"}
      BY <2>2, Zenon DEF Control
    <2>4. rcv'.pc # "push"
      BY <1>1, <1>5, <2>3 DEF RecvControlDone, RecvControlFailed, AfterControl, At, TypeOK,
         TypeRecv
    <2>5. \A i \in StreamIds : Passes(i)
      BY <2>1, Zenon DEF Passes, Pipe
    <2> QED
      BY <1>1, <2>1, <2>3, <2>4, <2>5, <1>UploadQuiet, ZenonT(30)
  <1>6. CASE RecvEnd \/ RecvRegister \/ RecvVersion \/ RunClose \/ RunEnd
    <2>1. UNCHANGED <<tpc, got, chan, sid, streams, buf, net, pushed>>
      BY <1>6, Zenon DEF RecvEnd, RecvRegister, RecvVersion, RunClose, RunEnd, recvs
    <2>2. /\ rcv.pc # "push" /\ rcv'.pc # "push"
          /\ rcv'.pc \notin {"close", "done"} => rcv.pc \notin {"close", "done"}
      BY <1>6, RecvGoesTo, Zenon DEF RecvEnd, RecvRegister, RecvVersion, RunClose, RunEnd, recvs
    <2>3. \A i \in StreamIds : Passes(i)
      BY <2>1, Zenon DEF Passes, Pipe
    <2> QED
      BY <1>1, <2>1, <2>2, <2>3, <1>UploadQuiet, ZenonT(30)
  <1>7. CASE \/ RecvSynDuplicate \/ RecvSynBeforeSettings \/ RecvHeart \/ RecvSettings
             \/ RecvFatal \/ RecvIgnore
    <2>1. /\ UNCHANGED <<tpc, got, chan, sid, streams, net, pushed>>
          /\ rcv.pc = "decode" /\ buf # <<>> /\ NextFrame /\ Head(buf).cmd # "Psh"
      BY <1>7, Zenon DEF RecvSynDuplicate, RecvSynBeforeSettings, RecvHeart, RecvSettings,
         RecvFatal,
                  RecvIgnore, Decoding
    <2>2. rcv'.pc # "push"
      BY <1>7, <2>1, RecvGoesTo, ZenonT(30)
      DEF RecvSynDuplicate, RecvSynBeforeSettings, RecvHeart, RecvSettings, RecvFatal,
      RecvIgnore
    <2>3. \A i \in StreamIds : Passes(i)
      BY <2>1 DEF Passes, IsFrame
    <2> QED
      BY <1>1, <2>1, <2>2, <2>3, <1>UploadQuiet, ZenonT(30)
  <1>8. ASSUME NEW k \in 1 .. Len(net), RecvRead(k) PROVE UploadInv'
    <2>1. /\ UNCHANGED <<tpc, got, chan, sid, streams, pushed>> /\ rcv.pc = "decode"
          /\ isClosed => rcv'.pc = "close"
          /\ ~isClosed => rcv'.pc = "decode"
      BY <1>8, Zenon DEF RecvRead, At
    <2>2. ~isClosed => Pipe' = Pipe
      BY <1>1, <1>8, PipeRead
    <2>3. rcv'.pc \notin {"close", "done"} => \A i \in StreamIds : Passes(i)
      BY <2>1, <2>2, Zenon DEF Passes
    <2>4. rcv'.pc # "push" /\ rcv.pc \notin {"push", "close", "done"}
      BY <2>1
    <2> QED
      BY <1>1, <2>1, <2>3, <2>4, <1>UploadQuiet
  <1>9. CASE RecvPsh
    BY <1>1, <1>9, <1>UploadPsh, Zenon
  <1>10. CASE RecvFin
    BY <1>1, <1>10, <1>UploadFin, Zenon
  <1>11. CASE RecvPush
    BY <1>1, <1>11, <1>UploadPush, Zenon
  <1>12. ASSUME NEW t \in Tasks, RecvSynOpen(t) PROVE UploadInv'
    BY <1>1, <1>12, <1>UploadOpen
  <1> QED
    BY <1>2, <1>3, <1>4, <1>5, <1>6, <1>7, <1>8, <1>9, <1>10, <1>11, <1>12, StepKinds,
       ZenonT(30)
    DEF RecvStep

(* The payloads a handler takes over are those the client sent on its stream, none missing *)
(* between two of them, none twice, and nothing after the end (session.rs:264-306).        *)
THEOREM UploadsComeInOrder == Spec => []UploadInOrder
  <1>1. Init => SessionInv /\ UploadInv
    BY SessionInvInit, UploadInvInit, Zenon
  <1>2. SessionInv /\ UploadInv /\ [Next]_vars => SessionInv' /\ UploadInv'
    BY SessionInvNext, UploadInvNext, Zenon
  <1>3. SessionInv /\ UploadInv => UploadInOrder
    BY UploadInvImplies, Zenon DEF SessionInv
  <1> QED
    BY <1>1, <1>2, <1>3, PTL DEF Spec
==============================================================================
