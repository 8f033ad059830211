------------------------- MODULE AnyTlsTasks_proofs -------------------------
(***************************************************************************)
(* The stream handlers of a session and their handles: what the client has  *)
(* sent and recv_loop has still to decode, what each task may change, the   *)
(* invariant SessionInv that the later proofs rest on, and close().         *)
(***************************************************************************)
EXTENDS AnyTlsSession_proofs

(***************************************************************************)
(* What the client has sent and recv_loop has not decoded.  Its frames leave *)
(* at the front and come at the end, numbered; this is what tells handlers   *)
(* of one stream id apart, and payloads of one stream.                       *)
(***************************************************************************)
Pipe == buf \o net

(* q is p without its first n frames. *)
Shifted(p, q, n) ==
    Len(q) = Len(p) - n /\ \A k \in 1 .. Len(q) : k + n \in 1 .. Len(p) /\ q[k] = p[k + n]

LEMMA Concat ==
  ASSUME NEW s \in Seq(Frame), NEW t \in Seq(Frame)
  PROVE  /\ Len(s \o t) = Len(s) + Len(t)
         /\ \A k \in 1 .. Len(s) + Len(t) :
               (s \o t)[k] = IF k <= Len(s) THEN s[k] ELSE t[k - Len(s)]
  OBVIOUS

LEMMA PipeType ==
  ASSUME TypeOK
  PROVE  Pipe \in Seq(Frame) /\ buf \in Seq(Frame) /\ net \in Seq(Frame)
  BY DEF TypeOK, TypeClient, TypeRecv, Pipe

(* handle_frame takes the first frame of the pipe. *)
LEMMA PipeHead ==
  ASSUME TypeOK, buf # <<>>
  PROVE  /\ Len(Pipe) \in Nat \ {0} /\ Pipe[1] = Head(buf) /\ Head(buf) \in Frame
         /\ Tail(buf) \in Seq(Frame)
         /\ Len(Tail(buf) \o net) = Len(Pipe) - 1
         /\ \A k \in 1 .. Len(Tail(buf) \o net) : (Tail(buf) \o net)[k] = Pipe[k + 1]
  <1>1. buf \in Seq(Frame) /\ net \in Seq(Frame) /\ Len(buf) \in Nat \ {0} /\ Len(net) \in Nat
    BY PipeType
  <1>2. Head(buf) \in Frame /\ Head(buf) = buf[1]
    BY <1>1
  <1> DEFINE b == Tail(buf)
  <1>3. b \in Seq(Frame) /\ Len(b) = Len(buf) - 1 /\ \A k \in 1 .. Len(b) : b[k] = buf[k + 1]
    BY <1>1
  <1> HIDE DEF b
  <1>4. /\ Len(Pipe) = Len(buf) + Len(net)
        /\ \A k \in 1 .. Len(buf) + Len(net) :
              Pipe[k] = IF k <= Len(buf) THEN buf[k] ELSE net[k - Len(buf)]
    BY <1>1, Concat DEF Pipe
  <1> DEFINE q == b \o net
  <1>5. /\ Len(q) = Len(b) + Len(net)
        /\ \A k \in 1 .. Len(b) + Len(net) :
              q[k] = IF k <= Len(b) THEN b[k] ELSE net[k - Len(b)]
    BY <1>1, <1>3, Concat, Zenon
  <1> HIDE DEF q
  <1>6. Pipe[1] = buf[1] /\ Len(Pipe) \in Nat \ {0}
    BY <1>1, <1>4
  <1>7. Len(q) = Len(Pipe) - 1
    BY <1>1, <1>3, <1>4, <1>5
  <1>8. ASSUME NEW k \in 1 .. Len(q) PROVE q[k] = Pipe[k + 1]
    <2>1. k + 1 \in 1 .. Len(buf) + Len(net) /\ k \in 1 .. Len(b) + Len(net)
      BY <1>1, <1>3, <1>5
    <2>2. CASE k <= Len(b)
      <3>1. k \in 1 .. Len(b) /\ k + 1 <= Len(buf)
        BY <1>1, <1>3, <2>1, <2>2
      <3>2. Pipe[k + 1] = buf[k + 1] /\ q[k] = b[k]
        BY <1>4, <1>5, <2>1, <3>1
      <3> QED
        BY <1>3, <3>1, <3>2
    <2>3. CASE ~(k <= Len(b))
      <3>1. ~(k + 1 <= Len(buf)) /\ k - Len(b) = (k + 1) - Len(buf)
        BY <1>1, <1>3, <2>1, <2>3
      <3>2. Pipe[k + 1] = net[(k + 1) - Len(buf)] /\ q[k] = net[k - Len(b)]
        BY <1>4, <1>5, <2>1, <2>3, <3>1, Zenon
      <3> QED
        BY <3>1, <3>2
    <2> QED
      BY <2>2, <2>3
  <1> QED
    BY <1>2, <1>3, <1>6, <1>7, <1>8, Zenon DEF b, q

LEMMA PipeTail ==
  ASSUME TypeOK, buf # <<>>, NextFrame, UNCHANGED net
  PROVE  Shifted(Pipe, Pipe', 1)
  <1>1. Pipe' = Tail(buf) \o net
    BY DEF NextFrame, Pipe
  <1> DEFINE q == Tail(buf) \o net
  <1>2. /\ Len(Pipe) \in Nat \ {0} /\ Len(q) = Len(Pipe) - 1
        /\ \A k \in 1 .. Len(q) : q[k] = Pipe[k + 1]
    BY PipeHead, Zenon
  <1> HIDE DEF q
  <1>3. Shifted(Pipe, q, 1)
    BY <1>2 DEF Shifted
  <1> QED
    BY <1>1, <1>3 DEF q

LEMMA PipeRead ==
  ASSUME TypeOK, NEW k \in 1 .. Len(net), RecvRead(k)
  PROVE  Pipe' = Pipe \/ (isClosed /\ Shifted(Pipe, Pipe', k))
  <1>1. net \in Seq(Frame) /\ Len(net) \in Nat /\ buf = <<>>
    BY PipeType DEF RecvRead
  <1>2. Pipe = net
    BY <1>1 DEF Pipe
  <1> DEFINE s == SubSeq(net, k + 1, Len(net))
  <1>3. s \in Seq(Frame) /\ Len(s) = Len(net) - k /\ \A j \in 1 .. Len(s) : s[j] = net[j + k]
    BY <1>1
  <1>4. CASE isClosed
    <2>1. Pipe' = <<>> \o s
      BY <1>1, <1>4 DEF RecvRead, Pipe
    <2>2. <<>> \o s = s
      BY <1>3
    <2> HIDE DEF s
    <2> QED
      BY <1>1, <1>2, <1>3, <1>4, <2>1, <2>2 DEF Shifted
  <1>5. CASE ~isClosed
    <2>1. Pipe' = SubSeq(net, 1, k) \o s
      BY <1>5 DEF RecvRead, Pipe
    <2>2. SubSeq(net, 1, k) \o SubSeq(net, k + 1, Len(net)) = net
      BY <1>1
    <2> QED
      BY <1>2, <2>1, <2>2
  <1> QED
    BY <1>4, <1>5

LEMMA PipeSend ==
  ASSUME TypeOK, NEW f \in ClientFrames, ClientSend(f)
  PROVE  /\ Pipe' = Append(Pipe, Stamp(f)) /\ Stamp(f) \in Frame
         /\ Stamp(f).cmd = f.cmd /\ Stamp(f).id = f.id /\ f \in Frame
         /\ f.cmd = "Syn" => Stamp(f).arg = opened[f.id] + 1
         /\ f.cmd = "Psh" => Stamp(f).arg = pushed[f.id] + 1
         /\ f.cmd \notin {"Syn", "Psh"} => Stamp(f) = f
  <1>1. f \in Frame /\ opened[f.id] \in Nat /\ pushed[f.id] \in Nat
    BY FramesAssumption DEF Frame, TypeOK, TypeClient
  <1>2. /\ Stamp(f) \in Frame
        /\ Stamp(f).cmd = f.cmd /\ Stamp(f).id = f.id
        /\ f.cmd = "Syn" => Stamp(f).arg = opened[f.id] + 1
        /\ f.cmd = "Psh" => Stamp(f).arg = pushed[f.id] + 1
        /\ f.cmd \notin {"Syn", "Psh"} => Stamp(f) = f
    <2>1. CASE f.cmd = "Syn"
      BY <1>1, <2>1 DEF Stamp, Frame
    <2>2. CASE f.cmd = "Psh"
      BY <1>1, <2>2 DEF Stamp, Frame
    <2>3. CASE f.cmd \notin {"Syn", "Psh"}
      <3>1. Stamp(f) = f
        BY <2>3, Zenon DEF Stamp
      <3> QED
        BY <1>1, <2>3, <3>1
    <2> QED
      BY <2>1, <2>2, <2>3, Zenon
  <1> DEFINE g == Stamp(f)
  <1> HIDE DEF g
  <1>3. buf' = buf /\ net' = Append(net, g)
    BY DEF ClientSend, recvs, g
  <1>4. buf \in Seq(Frame) /\ net \in Seq(Frame) /\ g \in Frame
    BY <1>2, PipeType DEF g
  <1>5. buf \o Append(net, g) = Append(buf \o net, g)
    BY <1>4
  <1> QED
    BY <1>1, <1>2, <1>3, <1>5, Zenon DEF Pipe, g

(* Every step leaves the pipe alone, takes its first frame, throws some away that came    *)
(* after the session was closed, or sends one more frame.                                *)
LEMMA PipeSteps ==
  ASSUME TypeOK, [Next]_vars
  PROVE  \/ Pipe' = Pipe /\ UNCHANGED <<opened, pushed>>
         \/ \E n \in Nat : Shifted(Pipe, Pipe', n) /\ UNCHANGED <<opened, pushed>>
         \/ \E f \in ClientFrames : ClientSend(f)
  <1> DEFINE Goal == \/ Pipe' = Pipe /\ UNCHANGED <<opened, pushed>>
                     \/ \E n \in Nat : Shifted(Pipe, Pipe', n) /\ UNCHANGED <<opened, pushed>>
                     \/ \E f \in ClientFrames : ClientSend(f)
  <1>1. ASSUME UNCHANGED <<buf, net, opened, pushed>> PROVE Goal
    BY <1>1 DEF Pipe
  <1>2. ASSUME buf # <<>>, NextFrame, UNCHANGED client PROVE Goal
    BY <1>2, PipeTail DEF client
  <1> USE DEF client, recvs
  <1>3. CASE ClientStep \/ OutStep \/ UNCHANGED vars \/ \E a \in Actors : LockWriteBuf(a)
    BY <1>1, <1>3, Zenon DEF ClientStep, ClientHangup, LinkDown, OutStep, OutRecv,
                             OutWrite, OutRemove, vars, LockWriteBuf
  <1>4. CASE CloseStep \/ Timeout
    BY <1>1, <1>4, Zenon DEF CloseStep, CloseTasks, CloseStreams, CloseWriter, Timeout,
                             RecvControlTimeout, TaskSynAckTimeout
  <1>5. ASSUME NEW t \in Tasks, TaskStep(t) \/ DestStep(t) PROVE Goal
    BY <1>1, <1>5, Zenon DEF TaskStep, DestStep, TaskAddress, TaskRefuse, TaskDial, TaskSynAck,
                  TaskClosed, TaskUpload, TaskUploadEof, TaskUploadBroken, TaskShutdown,
                  TaskShutdownWait, TaskCleanup, TaskCancel, TaskReply, TaskDestEof,
                  TaskRelayEnds
  <1>6. CASE RecvStep
    <2>1. ASSUME NEW k \in 1 .. Len(net), RecvRead(k) PROVE Goal
      <3>1. k \in Nat /\ UNCHANGED <<opened, pushed>>
        BY <2>1 DEF RecvRead
      <3> QED
        BY <2>1, <3>1, PipeRead
    <2>2. CASE \/ RecvPsh \/ RecvFin \/ RecvSynDuplicate \/ RecvSynBeforeSettings \/ RecvHeart
               \/ RecvSettings \/ RecvFatal \/ RecvIgnore \/ \E t \in Tasks : RecvSynOpen(t)
      <3>1. buf # <<>> /\ NextFrame /\ UNCHANGED client
        BY <2>2, Zenon DEF RecvPsh, RecvFin, RecvSynDuplicate, RecvSynBeforeSettings, RecvHeart,
                           RecvSettings, RecvFatal, RecvIgnore, RecvSynOpen, Decoding
      <3> QED
        BY <1>2, <3>1
    <2>3. CASE \/ RecvEnd \/ RecvPush \/ RecvRegister \/ RecvVersion \/ RecvControlDone
               \/ RecvControlFailed \/ RunClose \/ RunEnd
      BY <1>1, <2>3, Zenon DEF RecvEnd, RecvPush, RecvRegister, RecvVersion, RecvControlDone,
                               RecvControlFailed, RunClose, RunEnd
    <2> QED
      BY <1>6, <2>1, <2>2, <2>3, Zenon DEF RecvStep
  <1> QED
    BY <1>3, <1>4, <1>5, <1>6, Zenon DEF Next

(* The frames of one kind and id in d, of c sent in all: numbered in their order, and     *)
(* from the first of them on none is missing.                                            *)
Numbered(d, cmd, i, c) ==
    /\ \A k \in 1 .. Len(d) : IsFrame(d[k], cmd, i) => d[k].arg \in 1 .. c
    /\ \A j, k \in 1 .. Len(d) :
           j < k /\ IsFrame(d[j], cmd, i) /\ IsFrame(d[k], cmd, i) => d[j].arg < d[k].arg
    /\ \A k \in 1 .. Len(d) : IsFrame(d[k], cmd, i) =>
           \A n \in d[k].arg .. c : \E j \in 1 .. Len(d) : IsFrame(d[j], cmd, i) /\ d[j].arg = n

PipeNumbered ==
    \A i \in StreamIds : /\ Numbered(Pipe, "Syn", i, opened[i])
                         /\ Numbered(Pipe, "Psh", i, pushed[i])

LEMMA PipeNumberedInit == Init => PipeNumbered
  <1> SUFFICES ASSUME Init PROVE PipeNumbered
    OBVIOUS
  <1>1. buf \in InitialData /\ net = <<>> /\ buf \in Seq(Frame)
    BY FramesAssumption DEF Init
  <1>2. Pipe = buf
    BY <1>1 DEF Pipe
  <1>3. ASSUME NEW cmd \in {"Syn", "Psh"}, NEW i \in StreamIds
        PROVE  Numbered(buf, cmd, i, Count(buf, cmd, i))
    <2> DEFINE c == Count(buf, cmd, i)
    <2>1. c \in Nat /\ Numbers(buf, cmd, i) = 1 .. c
      BY <1>1, CountIsRight
    <2> HIDE DEF c
    <2>2. \A k \in 1 .. Len(buf) : IsFrame(buf[k], cmd, i) => buf[k].arg \in 1 .. c
      BY <2>1 DEF Numbers
    <2>3. \A j, k \in 1 .. Len(buf) :
              j < k /\ IsFrame(buf[j], cmd, i) /\ IsFrame(buf[k], cmd, i) => buf[j].arg < buf[k].arg
      BY <1>1, NumberedAssumption, Zenon
    <2>4. ASSUME NEW k \in 1 .. Len(buf), IsFrame(buf[k], cmd, i), NEW n \in buf[k].arg .. c
          PROVE  \E j \in 1 .. Len(buf) : IsFrame(buf[j], cmd, i) /\ buf[j].arg = n
      <3>1. buf[k].arg \in 1 .. c
        BY <2>2, <2>4
      <3>2. n \in Numbers(buf, cmd, i)
        BY <2>1, <2>4, <3>1
      <3> QED
        BY <3>2 DEF Numbers
    <2>5. Numbered(buf, cmd, i, c)
      BY <2>2, <2>3, <2>4, Zenon DEF Numbered
    <2> QED
      BY <2>5 DEF c
  <1>4. \A i \in StreamIds : opened[i] = Count(buf, "Syn", i) /\ pushed[i] = Count(buf, "Psh", i)
    BY Zenon DEF Init
  <1> QED
    BY <1>2, <1>3, <1>4, Zenon DEF PipeNumbered

LEMMA PipeNumberedNext ==
  TypeOK /\ TypeOK' /\ PipeNumbered /\ [Next]_vars => PipeNumbered'
  <1>NumberedShifted.
    ASSUME NEW p \in Seq(Frame), NEW q \in Seq(Frame), NEW s \in Nat, Shifted(p, q, s),
           NEW cmd, NEW i, NEW c \in Nat, Numbered(p, cmd, i, c)
    PROVE  Numbered(q, cmd, i, c)
    <2> USE <1>NumberedShifted
    <2>1. \A k \in 1 .. Len(q) : k + s \in 1 .. Len(p) /\ q[k] = p[k + s]
      BY Zenon DEF Shifted
    <2>2. \A k \in 1 .. Len(q) : IsFrame(q[k], cmd, i) => q[k].arg \in 1 .. c
      BY <2>1, Zenon DEF Numbered
    <2>3. ASSUME NEW j \in 1 .. Len(q), NEW k \in 1 .. Len(q), j < k,
                 IsFrame(q[j], cmd, i), IsFrame(q[k], cmd, i)
          PROVE  q[j].arg < q[k].arg
      <3>1. j + s < k + s
        BY <2>3
      <3> QED
        BY <2>1, <2>3, <3>1, Zenon DEF Numbered
    <2>4. ASSUME NEW k \in 1 .. Len(q), IsFrame(q[k], cmd, i), NEW n \in q[k].arg .. c
          PROVE  \E j \in 1 .. Len(q) : IsFrame(q[j], cmd, i) /\ q[j].arg = n
      <3>1. k + s \in 1 .. Len(p) /\ q[k] = p[k + s] /\ q[k].arg \in 1 .. c
        BY <2>1, <2>2, <2>4, Zenon
      <3>2. PICK j \in 1 .. Len(p) : IsFrame(p[j], cmd, i) /\ p[j].arg = n
        BY <2>4, <3>1, Zenon DEF Numbered
      <3>3. n >= p[k + s].arg
        BY <2>4, <3>1
      <3>4. ~(j < k + s)
        <4> SUFFICES ASSUME j < k + s PROVE FALSE
          OBVIOUS
        <4>1. p[j].arg < p[k + s].arg
          BY <2>4, <3>1, <3>2, Zenon DEF Numbered
        <4> QED
          BY <3>1, <3>2, <3>3, <4>1, SMTT(30)
      <3>5. j - s \in 1 .. Len(q) /\ (j - s) + s = j
        BY <3>1, <3>4 DEF Shifted
      <3>6. q[j - s] = p[j]
        BY <2>1, <3>5, Zenon
      <3> QED
        BY <3>2, <3>5, <3>6, Zenon
    <2> QED
      BY <2>2, <2>3, <2>4, Zenon DEF Numbered
  <1>NumberedAppend.
    ASSUME NEW p \in Seq(Frame), NEW f \in Frame, NEW cmd, NEW i, NEW c \in Nat,
           Numbered(p, cmd, i, c)
    PROVE  /\ ~IsFrame(f, cmd, i) => Numbered(Append(p, f), cmd, i, c)
           /\ IsFrame(f, cmd, i) /\ f.arg = c + 1 => Numbered(Append(p, f), cmd, i, c + 1)
    <2> USE <1>NumberedAppend
    <2> DEFINE q == Append(p, f)
    <2>1. /\ Len(q) = Len(p) + 1 /\ Len(p) \in Nat /\ q[Len(p) + 1] = f
          /\ \A k \in 1 .. Len(p) : q[k] = p[k]
      OBVIOUS
    <2> HIDE DEF q
    <2>2. \A k \in 1 .. Len(q) : k \in 1 .. Len(p) \/ (k = Len(p) + 1 /\ q[k] = f)
      BY <2>1
    <2>3. \A j, k \in 1 .. Len(q) : j < k => j \in 1 .. Len(p)
      BY <2>1
    <2>4. 1 .. Len(p) \subseteq 1 .. Len(q) /\ Len(p) + 1 \in 1 .. Len(q)
      BY <2>1
    <2>5. CASE ~IsFrame(f, cmd, i)
      <3>1. \A k \in 1 .. Len(q) : IsFrame(q[k], cmd, i) => k \in 1 .. Len(p) /\ q[k] = p[k]
        BY <2>1, <2>2, <2>5, Zenon
      <3>2. \A k \in 1 .. Len(q) : IsFrame(q[k], cmd, i) => q[k].arg \in 1 .. c
        BY <3>1, Zenon DEF Numbered
      <3>3. \A j, k \in 1 .. Len(q) :
               j < k /\ IsFrame(q[j], cmd, i) /\ IsFrame(q[k], cmd, i) => q[j].arg < q[k].arg
        BY <3>1, Zenon DEF Numbered
      <3>4. \A k \in 1 .. Len(q) : IsFrame(q[k], cmd, i) =>
               \A n \in q[k].arg .. c : \E j \in 1 .. Len(q) : IsFrame(q[j], cmd, i) /\ q[j].arg = n
        BY <2>1, <2>4, <3>1, Zenon DEF Numbered
      <3> QED
        BY <2>5, <3>2, <3>3, <3>4, Zenon DEF Numbered, q
    <2>6. CASE IsFrame(f, cmd, i) /\ f.arg = c + 1
      <3>1. \A k \in 1 .. Len(p) : IsFrame(p[k], cmd, i) => p[k].arg \in 1 .. c
        BY Zenon DEF Numbered
      <3>2. \A k \in 1 .. Len(q) : IsFrame(q[k], cmd, i) => q[k].arg \in 1 .. c + 1
        BY <2>1, <2>2, <2>6, <3>1
      <3>3. ASSUME NEW j \in 1 .. Len(q), NEW k \in 1 .. Len(q), j < k,
                   IsFrame(q[j], cmd, i), IsFrame(q[k], cmd, i)
            PROVE  q[j].arg < q[k].arg
        <4>1. j \in 1 .. Len(p) /\ q[j] = p[j] /\ p[j].arg \in 1 .. c
          BY <2>1, <2>3, <3>1, <3>3, Zenon
        <4>2. CASE k \in 1 .. Len(p)
          <5>1. q[k] = p[k]
            BY <2>1, <4>2
          <5> QED
            BY <3>3, <4>1, <4>2, <5>1, Zenon DEF Numbered
        <4>3. CASE q[k] = f
          BY <2>6, <4>1, <4>3
        <4> QED
          BY <2>2, <4>2, <4>3
      <3>4. ASSUME NEW k \in 1 .. Len(q), IsFrame(q[k], cmd, i), NEW n \in q[k].arg .. c + 1
            PROVE  \E j \in 1 .. Len(q) : IsFrame(q[j], cmd, i) /\ q[j].arg = n
        <4>1. CASE n = c + 1
          BY <2>1, <2>4, <2>6, <4>1, Zenon
        <4>2. CASE n # c + 1
          <5>1. q[k].arg \in 1 .. c + 1
            BY <3>2, <3>4, Zenon
          <5>2. n \in q[k].arg .. c /\ q[k].arg # c + 1
            BY <3>4, <4>2, <5>1
          <5>3. k \in 1 .. Len(p) /\ q[k] = p[k]
            BY <2>1, <2>2, <2>6, <5>2, Zenon
          <5>4. PICK j \in 1 .. Len(p) : IsFrame(p[j], cmd, i) /\ p[j].arg = n
            BY <3>4, <5>2, <5>3, Zenon DEF Numbered
          <5>5. q[j] = p[j] /\ j \in 1 .. Len(q)
            BY <2>1, <2>4, Zenon
          <5> QED
            BY <5>4, <5>5
        <4> QED
          BY <4>1, <4>2, Zenon
      <3>5. Numbered(q, cmd, i, c + 1)
        BY <3>2, <3>3, <3>4, Zenon DEF Numbered
      <3> QED
        BY <2>6, <3>5 DEF q
    <2> QED
      BY <2>5, <2>6
  <1> SUFFICES ASSUME TypeOK, TypeOK', PipeNumbered, [Next]_vars
               PROVE  PipeNumbered'
    OBVIOUS
  <1>1. /\ Pipe \in Seq(Frame) /\ Pipe' \in Seq(Frame)
        /\ \A i \in StreamIds : opened[i] \in Nat /\ pushed[i] \in Nat
    BY PipeType DEF TypeOK, TypeClient, TypeRecv, Pipe
  <1>2. \A i \in StreamIds : /\ Numbered(Pipe, "Syn", i, opened[i])
                             /\ Numbered(Pipe, "Psh", i, pushed[i])
    BY Zenon DEF PipeNumbered
  <1>3. SUFFICES ASSUME NEW i \in StreamIds
                 PROVE  /\ Numbered(Pipe', "Syn", i, opened'[i])
                        /\ Numbered(Pipe', "Psh", i, pushed'[i])
    BY Zenon DEF PipeNumbered, Numbered, IsFrame
  <1>4. CASE Pipe' = Pipe /\ UNCHANGED <<opened, pushed>>
    BY <1>2, <1>4, Zenon
  <1>5. ASSUME NEW n \in Nat, Shifted(Pipe, Pipe', n), UNCHANGED <<opened, pushed>>
        PROVE  /\ Numbered(Pipe', "Syn", i, opened'[i])
               /\ Numbered(Pipe', "Psh", i, pushed'[i])
    BY <1>1, <1>2, <1>5, <1>NumberedShifted, Zenon
  <1>6. ASSUME NEW f \in ClientFrames, ClientSend(f)
        PROVE  /\ Numbered(Pipe', "Syn", i, opened'[i])
               /\ Numbered(Pipe', "Psh", i, pushed'[i])
    <2> DEFINE g == Stamp(f)
    <2>1. /\ Pipe' = Append(Pipe, g) /\ g \in Frame /\ g.cmd = f.cmd /\ g.id = f.id
          /\ f.cmd = "Syn" => g.arg = opened[f.id] + 1
          /\ f.cmd = "Psh" => g.arg = pushed[f.id] + 1
      BY <1>6, PipeSend, Zenon
    <2> HIDE DEF g
    <2>2. /\ opened'[i] = IF f.cmd = "Syn" /\ f.id = i THEN opened[i] + 1 ELSE opened[i]
          /\ pushed'[i] = IF f.cmd = "Psh" /\ f.id = i THEN pushed[i] + 1 ELSE pushed[i]
      BY <1>6, Zenon DEF ClientSend, TypeOK, TypeClient
    <2>3. Numbered(Pipe', "Syn", i, opened'[i])
      <3>1. CASE IsFrame(g, "Syn", i)
        <4>1. f.cmd = "Syn" /\ f.id = i /\ g.arg = opened[i] + 1
          BY <2>1, <3>1, Zenon DEF IsFrame
        <4>2. Numbered(Append(Pipe, g), "Syn", i, opened[i] + 1)
          BY <1>1, <1>2, <2>1, <3>1, <4>1, <1>NumberedAppend, Zenon
        <4> QED
          BY <2>1, <2>2, <4>1, <4>2, Zenon
      <3>2. CASE ~IsFrame(g, "Syn", i)
        <4>1. opened'[i] = opened[i]
          BY <2>1, <2>2, <3>2, Zenon DEF IsFrame
        <4>2. Numbered(Append(Pipe, g), "Syn", i, opened[i])
          BY <1>1, <1>2, <2>1, <3>2, <1>NumberedAppend, Zenon
        <4> QED
          BY <2>1, <4>1, <4>2, Zenon
      <3> QED
        BY <3>1, <3>2
    <2>4. Numbered(Pipe', "Psh", i, pushed'[i])
      <3>1. CASE IsFrame(g, "Psh", i)
        <4>1. f.cmd = "Psh" /\ f.id = i /\ g.arg = pushed[i] + 1
          BY <2>1, <3>1, Zenon DEF IsFrame
        <4>2. Numbered(Append(Pipe, g), "Psh", i, pushed[i] + 1)
          BY <1>1, <1>2, <2>1, <3>1, <4>1, <1>NumberedAppend, Zenon
        <4> QED
          BY <2>1, <2>2, <4>1, <4>2, Zenon
      <3>2. CASE ~IsFrame(g, "Psh", i)
        <4>1. pushed'[i] = pushed[i]
          BY <2>1, <2>2, <3>2, Zenon DEF IsFrame
        <4>2. Numbered(Append(Pipe, g), "Psh", i, pushed[i])
          BY <1>1, <1>2, <2>1, <3>2, <1>NumberedAppend, Zenon
        <4> QED
          BY <2>1, <4>1, <4>2, Zenon
      <3> QED
        BY <3>1, <3>2
    <2> QED
      BY <2>3, <2>4
  <1> QED
    BY <1>4, <1>5, <1>6, PipeSteps, Zenon

(***************************************************************************)
(* What the steps of one handler, and of the others, may change.            *)
(***************************************************************************)
(* A step of handler t changes its own control state and channel only; it never goes     *)
(* back to being unborn, and once gone it is at most cleaned up.                          *)
Own(t) ==
    /\ UNCHANGED <<net, opened, pushed, buf, rcv, streams, settings, version, announced,
                   aborted, sid>>
    /\ \A u \in Tasks \ {t} : tpc'[u] = tpc[u] /\ chan'[u] = chan[u] /\ got'[u] = got[u]
    /\ tpc'[t] # "none"
    /\ Gone(t) \/ tpc[t] = "none" => tpc'[t] = "done"
    /\ \/ TaskCleanup(t) \/ TaskCancel(t)
       \/ Live(t) /\ tpc'[t] # "done" /\ UNCHANGED handles
    /\ tpc'[t] \in {"exit", "done"} => chan'[t] = <<>> \/ (tpc[t] = "exit" /\ chan'[t] = chan[t])
    /\ \/ got'[t] = got[t] /\ chan'[t] = chan[t]
       \/ got'[t] = got[t] /\ chan'[t] = <<>> /\ (tpc'[t] \in {"exit", "done"} \/ ReadsEof(t))
       \/ /\ chan[t] # <<>> /\ Head(chan[t]) # Eof
          /\ got'[t] = Head(chan[t]) /\ chan'[t] = Tail(chan[t])
    /\ wst'["recv"] = wst["recv"]
    /\ isClosed => isClosed'

LEMMA OwnDrop ==
  ASSUME TypeOK, NEW t \in Tasks, DropStream(t), NEW pc \in {"exit", "done"}, Goto(t, pc)
  PROVE  /\ \A u \in Tasks \ {t} : tpc'[u] = tpc[u] /\ chan'[u] = chan[u]
         /\ tpc'[t] = pc /\ chan'[t] = <<>>
  BY DEF DropStream, Goto, TypeOK, TypeTask

LEMMA OwnGoto ==
  ASSUME TypeOK, NEW t \in Tasks, NEW pc, Goto(t, pc)
  PROVE  (\A u \in Tasks \ {t} : tpc'[u] = tpc[u]) /\ tpc'[t] = pc
  BY DEF Goto, TypeOK, TypeTask

LEMMA OwnAfterSynAck ==
  ASSUME TypeOK, NEW t \in Tasks, NEW ok, AfterSynAck(t, ok)
  PROVE  /\ \A u \in Tasks \ {t} : tpc'[u] = tpc[u] /\ chan'[u] = chan[u]
         /\ \/ tpc'[t] = "copy" /\ chan'[t] = chan[t]
            \/ tpc'[t] = "exit" /\ chan'[t] = <<>>
  <1>1. CASE Leave(t)
    BY <1>1, OwnDrop, Zenon DEF Leave
  <1>2. CASE Goto(t, "copy") /\ UNCHANGED <<shut, chan, out, lostFin>>
    BY <1>2, OwnGoto, Zenon
  <1> QED
    BY <1>1, <1>2, Zenon DEF AfterSynAck

LEMMA TaskOwn ==
  \A t \in Tasks :
    TypeOK /\ (TaskStep(t) \/ DestStep(t) \/ TaskSynAckTimeout(t)) => Own(t)
  <1>OwnRead.
    ASSUME TypeOK, NEW t \in Tasks, ReadData(t)
    PROVE  /\ \A u \in Tasks \ {t} : chan'[u] = chan[u] /\ got'[u] = got[u]
           /\ chan[t] # <<>> /\ Head(chan[t]) # Eof
           /\ got'[t] = Head(chan[t]) /\ chan'[t] = Tail(chan[t])
    BY <1>OwnRead DEF ReadData, TypeOK, TypeTask
  <1>OwnEnded.
    ASSUME NEW t \in Tasks,
           UNCHANGED <<net, opened, pushed, buf, rcv, streams, settings, version, announced,
                       aborted, sid, got>>,
           \A u \in Tasks \ {t} : tpc'[u] = tpc[u] /\ chan'[u] = chan[u],
           chan'[t] = <<>>,
           \/ tpc'[t] = "done" /\ TaskCancel(t)
           \/ tpc'[t] = "exit" /\ Live(t) /\ UNCHANGED handles,
           wst'["recv"] = wst["recv"], UNCHANGED isClosed
    PROVE  Own(t)
    <2> USE <1>OwnEnded
    <2>1. tpc'[t] # "none" /\ tpc'[t] \in {"exit", "done"}
      OBVIOUS
    <2>2. /\ Gone(t) \/ tpc[t] = "none" => tpc'[t] = "done"
          /\ TaskCancel(t) \/ (Live(t) /\ tpc'[t] # "done" /\ UNCHANGED handles)
      BY Zenon DEF Live, Gone
    <2>3. /\ tpc'[t] \in {"exit", "done"} =>
                chan'[t] = <<>> \/ (tpc[t] = "exit" /\ chan'[t] = chan[t])
          /\ got'[t] = got[t] /\ chan'[t] = <<>> /\ (tpc'[t] \in {"exit", "done"} \/ ReadsEof(t))
      BY <2>1, Zenon
    <2>4. \A u \in Tasks \ {t} : tpc'[u] = tpc[u] /\ chan'[u] = chan[u] /\ got'[u] = got[u]
      BY Zenon
    <2> QED
      BY <2>1, <2>2, <2>3, <2>4, ZenonT(30) DEF Own
  (* The handler leaves and drops its stream, or goes on and leaves its channel alone. *)
  <1>OwnEnds.
    ASSUME NEW t \in Tasks,
           UNCHANGED <<net, opened, pushed, buf, rcv, streams, settings, version, announced,
                       aborted, sid, got>>,
           \A u \in Tasks \ {t} : tpc'[u] = tpc[u] /\ chan'[u] = chan[u],
           \/ tpc'[t] \in {"copy", "synackOk", "synackErr"} /\ chan'[t] = chan[t]
           \/ tpc'[t] = "exit" /\ chan'[t] = <<>>,
           Live(t), UNCHANGED handles, wst'["recv"] = wst["recv"], UNCHANGED isClosed
    PROVE  Own(t)
    <2> USE <1>OwnEnds
    <2>1. CASE tpc'[t] \in {"copy", "synackOk", "synackErr"} /\ chan'[t] = chan[t]
      <3>1. /\ tpc'[t] # "none" /\ tpc'[t] \notin {"exit", "done"} /\ tpc'[t] # "done"
            /\ ~Gone(t) /\ tpc[t] # "none"
        BY <2>1 DEF Live, Gone
      <3> QED
        BY <2>1, <3>1, Zenon DEF Own
    <2>2. CASE tpc'[t] = "exit" /\ chan'[t] = <<>>
      BY <2>2, <1>OwnEnded, Zenon
    <2> QED
      BY <2>1, <2>2, Zenon
  <1>OwnWrite.
    ASSUME TypeOK, NEW t \in Tasks, NEW s, wst' = [wst EXCEPT ![t] = s]
    PROVE  wst'["recv"] = wst["recv"]
    BY <1>OwnWrite, ActorsDiffer DEF Actors, TypeOK, TypeConn
  <1> SUFFICES ASSUME TypeOK, NEW t \in Tasks,
                      TaskStep(t) \/ DestStep(t) \/ TaskSynAckTimeout(t)
               PROVE  Own(t)
    OBVIOUS
  <1> USE DEF client, recvs, maps, nego, closing, conn
  <1>1. CASE TaskAddress(t)
    <2>1. /\ tpc'[t] = "dial" /\ \A u \in Tasks \ {t} : tpc'[u] = tpc[u]
          /\ tpc[t] = "addr"
      BY <1>1, OwnGoto, Zenon DEF TaskAddress
    <2> QED
      BY <1>1, <2>1, <1>OwnRead, Zenon DEF TaskAddress, Own, Gone, Live
  <1>2. CASE TaskRefuse(t)
    <2>1. /\ \A u \in Tasks \ {t} : tpc'[u] = tpc[u] /\ chan'[u] = chan[u]
          /\ tpc'[t] = "exit" /\ chan'[t] = <<>> /\ tpc[t] \in {"addr", "dial"}
      BY <1>2, OwnDrop, Zenon DEF TaskRefuse, Leave
    <2> QED
      BY <1>2, <2>1, <1>OwnEnds, Zenon DEF TaskRefuse, Live
  <1>3. ASSUME NEW ok \in BOOLEAN, TaskDial(t, ok) PROVE Own(t)
    <2>1. tpc[t] = "dial" /\ wst'["recv"] = wst["recv"]
      BY <1>3, <1>OwnWrite DEF TaskDial
    <2>2. /\ \A u \in Tasks \ {t} : tpc'[u] = tpc[u] /\ chan'[u] = chan[u]
          /\ \/ tpc'[t] \in {"copy", "synackOk", "synackErr"} /\ chan'[t] = chan[t]
             \/ tpc'[t] = "exit" /\ chan'[t] = <<>>
      <3>1. CASE AfterSynAck(t, ok)
        BY <3>1, OwnAfterSynAck, Zenon
      <3>2. CASE Goto(t, IF ok THEN "synackOk" ELSE "synackErr") /\ UNCHANGED chan
        BY <3>2, OwnGoto, Zenon
      <3> QED
        BY <1>3, <3>1, <3>2, Zenon DEF TaskDial
    <2> QED
      BY <1>3, <2>1, <2>2, <1>OwnEnds, Zenon DEF TaskDial, Live
  <1>4. CASE TaskSynAck(t)
    <2>1. tpc[t] \in {"synackOk", "synackErr"} /\ wst'["recv"] = wst["recv"]
      BY <1>4, <1>OwnWrite, Zenon DEF TaskSynAck, WriteOk, WriteErr
    <2>2. AfterSynAck(t, tpc[t] = "synackOk")
      BY <1>4 DEF TaskSynAck
    <2> QED
      BY <1>4, <2>1, <2>2, OwnAfterSynAck, <1>OwnEnds, Zenon DEF TaskSynAck, Live
  <1>5. CASE TaskSynAckTimeout(t)
    <2>1. /\ tpc[t] \in {"synackOk", "synackErr"} /\ wst'["recv"] = wst["recv"] /\ isClosed'
          /\ UNCHANGED <<net, opened, pushed, buf, rcv, streams, settings, version, announced,
                   aborted, sid, chan, got, handles>>
      BY <1>5, <1>OwnWrite, Zenon DEF TaskSynAckTimeout, DropWrite, CloseStart
    <2>2. tpc'[t] \in {"closingOk", "closingErr"} /\ \A u \in Tasks \ {t} : tpc'[u] = tpc[u]
      BY <1>5, OwnGoto, Zenon DEF TaskSynAckTimeout
    <2> QED
      BY <2>1, <2>2, Zenon DEF Own, Gone, Live
  <1>6. CASE TaskClosed(t)
    <2>1. AfterSynAck(t, tpc[t] = "closingOk") /\ tpc[t] \in {"closingOk", "closingErr"}
      BY <1>6, Zenon DEF TaskClosed
    <2> QED
      BY <1>6, <2>1, OwnAfterSynAck, <1>OwnEnds, Zenon DEF TaskClosed, Live
  <1>7. CASE TaskUpload(t)
    BY <1>7, <1>OwnRead, Zenon DEF TaskUpload, Own, Gone, Live
  <1>8. CASE TaskUploadEof(t)
    <2>1. chan'[t] = <<>> /\ \A u \in Tasks \ {t} : chan'[u] = chan[u]
      BY <1>8 DEF TaskUploadEof, TypeOK, TypeTask
    <2> QED
      BY <1>8, <2>1, Zenon DEF TaskUploadEof, Own, Gone, Live
  <1>9. CASE TaskUploadBroken(t) \/ TaskRelayEnds(t) \/ TaskShutdownWait(t)
    <2>1. /\ tpc[t] \in {"copy", "shut"} /\ tpc'[t] \in {"shut", "shutWait"}
          /\ \A u \in Tasks \ {t} : tpc'[u] = tpc[u]
      BY <1>9, OwnGoto, Zenon DEF TaskUploadBroken, TaskRelayEnds, TaskShutdownWait
    <2>2. UNCHANGED <<client, recvs, maps, nego, closing, sid, got, chan, conn>>
      BY <1>9, Zenon DEF TaskUploadBroken, TaskRelayEnds, TaskShutdownWait
    <2> QED
      BY <2>1, <2>2, Zenon DEF Own, Gone, Live
  <1>10. CASE TaskReply(t)
    <2>1. /\ tpc[t] = "copy" /\ tpc'[t] \in {"copy", "shut"}
          /\ \A u \in Tasks \ {t} : tpc'[u] = tpc[u]
      BY <1>10 DEF TaskReply, TypeOK, TypeTask
    <2> QED
      BY <1>10, <2>1, Zenon DEF TaskReply, Own, Gone, Live
  <1>11. CASE TaskDestEof(t)
    <2>1. /\ tpc[t] = "copy" /\ tpc'[t] \in {"copy", "shut"}
          /\ \A u \in Tasks \ {t} : tpc'[u] = tpc[u]
      BY <1>11 DEF TaskDestEof, TypeOK, TypeTask
    <2> QED
      BY <1>11, <2>1, Zenon DEF TaskDestEof, Own, Gone, Live
  <1>12. CASE TaskShutdown(t)
    <2>1. /\ tpc[t] \in {"shut", "shutWait"} /\ tpc'[t] = "exit" /\ chan'[t] = <<>>
          /\ \A u \in Tasks \ {t} : tpc'[u] = tpc[u] /\ chan'[u] = chan[u]
      BY <1>12, Zenon DEF TaskShutdown, Goto, TypeOK, TypeTask
    <2> QED
      BY <1>12, <2>1, <1>OwnEnds, Zenon DEF TaskShutdown, Live
  <1>13. CASE TaskCleanup(t)
    <2>1. tpc[t] = "exit" /\ tpc'[t] = "done" /\ \A u \in Tasks \ {t} : tpc'[u] = tpc[u]
      BY <1>13, OwnGoto, Zenon DEF TaskCleanup
    <2> QED
      BY <1>13, <2>1, Zenon DEF TaskCleanup, Own, Gone, Live
  <1>14. CASE TaskCancel(t)
    <2>1. wst'["recv"] = wst["recv"]
      BY <1>14, <1>OwnWrite, Zenon DEF TaskCancel, DropWrite
    <2>2. /\ \A u \in Tasks \ {t} : tpc'[u] = tpc[u] /\ chan'[u] = chan[u]
          /\ tpc'[t] = "done" /\ chan'[t] = <<>>
      BY <1>14, OwnDrop, Zenon DEF TaskCancel
    <2>3. UNCHANGED <<net, opened, pushed, buf, rcv, streams, settings, version, announced,
                      aborted, sid, got, isClosed>>
      BY <1>14 DEF TaskCancel
    <2> QED
      BY <1>14, <2>1, <2>2, <2>3, <1>OwnEnded, Zenon
  <1> QED
    BY <1>1, <1>2, <1>3, <1>4, <1>5, <1>6, <1>7, <1>8, <1>9, <1>10, <1>11, <1>12, <1>13, <1>14,
       ZenonT(30)
    DEF TaskStep, DestStep

(* The client, process_outgoing, close() and the locks leave the handlers and recv_loop   *)
(* where they are.                                                                        *)
Aside == ClientStep \/ OutStep \/ CloseStep \/ UNCHANGED vars \/ \E a \in Actors : LockWriteBuf(a)

LEMMA AsideLeaves ==
  ASSUME TypeOK, Aside
  PROVE  /\ UNCHANGED <<rcv, tpc, sid, chan, got, isClosed, settings, version, announced>>
         /\ wst["recv"] = "idle" => wst'["recv"] = "idle"
  <1> USE DEF recvs, task, nego, closing, conn
  <1>1. UNCHANGED <<rcv, tpc, sid, chan, got, isClosed, settings, version, announced>>
    BY Zenon DEF Aside, ClientStep, ClientSend, ClientHangup, LinkDown, OutStep, OutRecv,
                 OutWrite, OutRemove, CloseStep, CloseTasks, CloseStreams, CloseWriter, vars,
                 LockWriteBuf
  <1>2. CASE ClientStep \/ CloseStep \/ UNCHANGED vars \/ OutRemove
    <2>1. wst' = wst
      BY <1>2, Zenon DEF ClientStep, ClientSend, ClientHangup, LinkDown, CloseStep, CloseTasks,
                         CloseStreams, CloseWriter, vars, OutRemove
    <2> QED
      BY <1>1, <2>1
  <1>3. CASE OutRecv \/ OutWrite
    <2>1. wst' = wst \/ \E s \in {"idle", "lock"} : wst' = [wst EXCEPT !["out"] = s]
      BY <1>3, Zenon DEF OutRecv, OutWrite, WriteOk, WriteErr
    <2> QED
      BY <1>1, <2>1, ActorsDiffer, Zenon DEF TypeOK, TypeConn, Actors
  <1>4. ASSUME NEW a \in Actors, LockWriteBuf(a) PROVE wst["recv"] = "idle" => wst'["recv"] = "idle"
    BY <1>4 DEF LockWriteBuf, TypeOK, TypeConn, Actors
  <1> QED
    BY <1>1, <1>2, <1>3, <1>4, Zenon DEF Aside, OutStep

LEMMA StepKinds ==
  ASSUME [Next]_vars
  PROVE  \/ Aside \/ RecvStep \/ RecvControlTimeout
         \/ \E t \in Tasks : TaskStep(t) \/ DestStep(t) \/ TaskSynAckTimeout(t)
  BY Zenon DEF Next, Aside, Timeout

(* Where recv_loop goes. *)
LEMMA RecvGoesTo ==
  /\ \A pc : At(pc).pc = pc
  /\ \A pc, v : StartControl(pc, v) => rcv'.pc = pc
  /\ \A t, v : [pc |-> "version", task |-> t, arg |-> v].pc = "version"
  BY DEF At, StartControl

(***************************************************************************)
(* recv_loop: it writes only where it answers a frame, and hands payloads    *)
(* and handles over for handlers that were spawned.                          *)
(***************************************************************************)
Control == {"pad", "settings", "heart", "alert"}

RecvSane ==
    /\ wst["recv"] # "idle" => rcv.pc \in Control
    /\ rcv.pc = "register" => rcv.arg = 0
    /\ rcv.pc \in {"push", "register"} =>
           rcv.task \in Tasks /\ tpc[rcv.task] # "none" /\ sid[rcv.task] \in StreamIds

LEMMA RecvSaneInit == Init => RecvSane
  BY DEF Init, RecvSane, At, Actors, Control

(* An entry of streams is a handler of that id. *)
LEMMA EntryIsTask ==
  ASSUME TypeOK, FinInv, NEW i \in StreamIds, streams[i] # None
  PROVE  streams[i] \in Tasks /\ sid[streams[i]] = i /\ tpc[streams[i]] # "none"
  BY Zenon DEF TypeOK, TypeMaps, FinInv, EntryOwner

LEMMA RecvSaneNext ==
  TypeOK /\ FinInv /\ RecvSane /\ [Next]_vars => RecvSane'
  (* While recv_loop decodes it holds no task. *)
  <1>DecodingIdle.
    ASSUME TypeOK, RecvSane, rcv.pc \in {"decode", "push", "register", "version", "close", "done"}
    PROVE  wst["recv"] = "idle"
    BY <1>DecodingIdle DEF RecvSane, Control
  <1>StartControlSane.
    ASSUME TypeOK, NEW pc \in Control, NEW v, StartControl(pc, v)
    PROVE  RecvSane' /\ rcv'.pc = pc
    BY <1>StartControlSane, Zenon DEF StartControl, RecvSane, Control
  <1>RestSane.
    ASSUME TypeOK, wst'["recv"] = "idle", NEW pc \in RecvPcs \ {"push", "register"},
           rcv'.pc = pc
    PROVE  RecvSane'
    BY <1>RestSane DEF RecvSane
  <1> SUFFICES ASSUME TypeOK, FinInv, RecvSane, [Next]_vars
               PROVE  RecvSane'
    BY Zenon
  <1>1. CASE Aside
    <2>1. UNCHANGED <<rcv, tpc, sid>> /\ (wst["recv"] = "idle" => wst'["recv"] = "idle")
      BY <1>1, AsideLeaves, Zenon
    <2> QED
      BY <2>1 DEF RecvSane
  <1>2. ASSUME NEW t \in Tasks, TaskStep(t) \/ DestStep(t) \/ TaskSynAckTimeout(t)
        PROVE  RecvSane'
    <2>1. Own(t)
      BY <1>2, TaskOwn, ZenonT(30)
    <2>2. /\ UNCHANGED <<rcv, sid>> /\ wst'["recv"] = wst["recv"]
          /\ \A u \in Tasks : tpc[u] # "none" => tpc'[u] # "none"
      BY <2>1 DEF Own
    <2> QED
      BY <2>2 DEF RecvSane
  <1>3. CASE RecvControlTimeout
    BY <1>3, <1>RestSane DEF RecvControlTimeout, DropWrite, At, RecvPcs, TypeOK, TypeConn,
       Actors
  <1>4. CASE RecvStep
    <2> USE DEF conn, task, recvs
    <2>1. CASE RecvHeart \/ RecvSynBeforeSettings
      BY <2>1, <1>StartControlSane DEF RecvHeart, RecvSynBeforeSettings, Control
    <2>2. CASE RecvSettings
      <3>1. CASE StartControl("pad", Head(buf).arg)
        BY <3>1, <1>StartControlSane, ZenonT(30) DEF Control
      <3>2. CASE rcv' = [pc |-> "version", task |-> None, arg |-> Head(buf).arg] /\ UNCHANGED conn
        BY <2>2, <3>2, <1>DecodingIdle, <1>RestSane DEF RecvSettings, Decoding, RecvPcs
      <3> QED
        BY <2>2, <3>1, <3>2, Zenon DEF RecvSettings
    <2>3. CASE RecvVersion
      <3>1. CASE StartControl("settings", 0)
        BY <3>1, <1>StartControlSane, Zenon DEF Control
      <3>2. CASE rcv' = At("decode") /\ UNCHANGED conn
        BY <2>3, <3>2, <1>DecodingIdle, <1>RestSane DEF RecvVersion, At, RecvPcs
      <3> QED
        BY <2>3, <3>1, <3>2 DEF RecvVersion
    <2>4. CASE RecvControlDone \/ RecvControlFailed
      <3>1. wst["recv"] # "idle" /\ wst'["recv"] = "idle"
        BY <2>4 DEF RecvControlDone, RecvControlFailed, WriteOk, WriteErr, HasWriter, TypeOK,
                    TypeConn, Actors
      <3>2. rcv'.pc \in {"version", "close", "decode"}
        BY <2>4 DEF RecvControlDone, RecvControlFailed, AfterControl, At, TypeOK, TypeRecv
      <3> QED
        BY <3>1, <3>2, <1>RestSane DEF RecvPcs
    <2>5. CASE RecvPsh \/ RecvFin
      <3>1. rcv.pc = "decode" /\ UNCHANGED <<conn, tpc, sid>> /\ Head(buf).id \in StreamIds
        BY <2>5, DecodeTypes, Zenon DEF RecvPsh, RecvFin, Decoding
      <3>2. wst'["recv"] = "idle"
        BY <3>1, <1>DecodingIdle, Zenon
      <3>3. \/ rcv' = rcv
            \/ /\ streams[Head(buf).id] # None
               /\ rcv'.pc = "push" /\ rcv'.task = streams[Head(buf).id]
        <4>1. CASE RecvPsh
          BY <4>1, Zenon DEF RecvPsh
        <4>2. CASE RecvFin
          BY <4>2, Zenon DEF RecvFin
        <4> QED
          BY <2>5, <4>1, <4>2
      <3>4. CASE rcv' = rcv
        BY <3>1, <3>2, <3>4, Zenon DEF RecvSane
      <3>5. CASE streams[Head(buf).id] # None /\ rcv'.pc = "push" /\ rcv'.task = streams[Head(buf).id]
        <4>1. rcv'.task \in Tasks /\ sid[rcv'.task] \in StreamIds /\ tpc[rcv'.task] # "none"
          BY <3>1, <3>5, EntryIsTask, Zenon
        <4> QED
          BY <3>1, <3>2, <3>5, <4>1, Zenon DEF RecvSane
      <3> QED
        BY <3>3, <3>4, <3>5
    <2>6. ASSUME NEW t \in Tasks, RecvSynOpen(t) PROVE RecvSane'
      <3>1. /\ rcv.pc = "decode" /\ UNCHANGED conn /\ Head(buf).id \in StreamIds
            /\ rcv' = [pc |-> "register", task |-> t, arg |-> 0]
            /\ sid'[t] = Head(buf).id /\ tpc'[t] = "addr"
        BY <2>6, DecodeTypes, Zenon DEF RecvSynOpen, Decoding, TypeOK, TypeTask
      <3>2. wst'["recv"] = "idle"
        BY <3>1, <1>DecodingIdle, Zenon
      <3> QED
        BY <3>1, <3>2, Zenon DEF RecvSane
    <2>7. CASE \/ RecvEnd \/ RecvPush \/ RecvRegister \/ RecvFatal
               \/ (\E k \in 1 .. Len(net) : RecvRead(k))
      <3>1. /\ rcv.pc \in {"decode", "push", "register"} /\ UNCHANGED conn
            /\ rcv' \in {rcv, At("close"), At("decode")} /\ (rcv' = rcv => rcv.pc = "decode")
        BY <2>7 DEF RecvEnd, RecvPush, RecvRegister, RecvFatal, RecvRead, Decoding, At
      <3>2. rcv'.pc \in {"decode", "close"}
        BY <3>1 DEF At
      <3> QED
        BY <3>1, <3>2, <1>DecodingIdle, <1>RestSane, ZenonT(30) DEF RecvPcs
    <2>8. CASE RecvSynDuplicate \/ RecvIgnore \/ RunClose
      BY <2>8, Zenon DEF RecvSynDuplicate, RecvIgnore, RunClose, RecvSane
    <2>9. CASE RunEnd
      <3>1. rcv.pc = "close" /\ rcv'.pc = "done" /\ wst'["recv"] = wst["recv"]
        BY <2>9, ActorsDiffer, Zenon DEF RunEnd, DropWrite, At, TypeOK, TypeConn, Actors
      <3> QED
        BY <3>1, <1>DecodingIdle, <1>RestSane, Zenon DEF RecvPcs
    <2> QED
      BY <1>4, <2>1, <2>2, <2>3, <2>4, <2>5, <2>6, <2>7, <2>8, <2>9, Zenon DEF RecvStep
  <1> QED
    BY <1>1, <1>2, <1>3, <1>4, StepKinds, Zenon

(***************************************************************************)
(* Two handlers of one stream id, or a handler and a SYN of its id that is    *)
(* still to be decoded, come from two SYN frames.                             *)
(***************************************************************************)
Distinct(s, op, p) ==
    \A t \in Tasks : s[t] # None =>
        /\ op[s[t]] >= 1
        /\ \A u \in Tasks : u # t /\ s[u] = s[t] => op[s[t]] > 1
        /\ \A k \in 1 .. Len(p) : IsFrame(p[k], "Syn", s[t]) => op[s[t]] > 1

OneTaskPerSyn ==
    /\ \A t \in Tasks : /\ tpc[t] = "none" => sid[t] = None
                        /\ tpc[t] \notin {"none", "done"} => sid[t] # None
    /\ Distinct(sid, opened, Pipe)

LEMMA OneTaskInit == Init => OneTaskPerSyn
  <1>1. ASSUME Init, NEW t \in Tasks PROVE tpc[t] = "none" /\ sid[t] = None
    BY <1>1 DEF Init
  <1> QED
    BY <1>1, Zenon DEF OneTaskPerSyn, Distinct

(* Frames are taken away, or the client sends one more. *)
LEMMA DistinctShifted ==
  ASSUME NEW s, NEW op, NEW p, NEW q, NEW n \in Nat, Shifted(p, q, n), Distinct(s, op, p)
  PROVE  Distinct(s, op, q)
  BY Zenon DEF Distinct, Shifted

(* A handler is spawned for the SYN that recv_loop decodes. *)
LEMMA DistinctOpened ==
  ASSUME TypeOK, PipeNumbered, OneTaskPerSyn, NEW t \in Tasks, RecvSynOpen(t)
  PROVE  Distinct(sid', opened', Pipe')
  <1> DEFINE i == Head(buf).id
  <1>1. /\ i \in StreamIds /\ buf # <<>> /\ NextFrame /\ UNCHANGED <<net, opened>>
        /\ Head(buf).cmd = "Syn"
    BY DecodeTypes, Zenon DEF RecvSynOpen, Decoding, client
  <1>2. /\ Len(Pipe) \in Nat \ {0} /\ Pipe[1] = Head(buf) /\ Shifted(Pipe, Pipe', 1)
        /\ IsFrame(Pipe[1], "Syn", i)
    BY <1>1, PipeHead, PipeTail, Zenon DEF IsFrame
  <1>3. /\ sid'[t] = i /\ \A u \in Tasks \ {t} : sid'[u] = sid[u]
        /\ tpc[t] = "none" /\ sid[t] = None
    BY Zenon DEF RecvSynOpen, OneTaskPerSyn, TypeOK, TypeTask
  <1> HIDE DEF i
  <1>4. Numbered(Pipe, "Syn", i, opened[i]) /\ opened[i] \in Nat
    BY <1>1, Zenon DEF PipeNumbered, TypeOK, TypeClient
  <1>5. Pipe[1].arg \in 1 .. opened[i] /\ opened[i] >= 1 /\ 1 \in 1 .. Len(Pipe)
    <2>1. 1 \in 1 .. Len(Pipe)
      BY <1>2
    <2>2. Pipe[1].arg \in 1 .. opened[i]
      BY <1>2, <1>4, <2>1, Zenon DEF Numbered
    <2>3. \A n \in Nat : \A k \in 1 .. n : n >= 1
      OBVIOUS
    <2> QED
      BY <1>4, <2>1, <2>2, <2>3, Zenon
  <1>6. \A u \in Tasks \ {t} : sid[u] = i => opened[i] > 1
    <2> SUFFICES ASSUME NEW u \in Tasks \ {t}, sid[u] = i PROVE opened[i] > 1
      OBVIOUS
    <2>1. sid[u] # None
      BY <1>1, ActorsDiffer, Zenon
    <2> QED
      BY <1>2, <1>5, <2>1, Zenon DEF OneTaskPerSyn, Distinct
  <1>7. \A k \in 1 .. Len(Pipe') : IsFrame(Pipe'[k], "Syn", i) => opened[i] > 1
    <2> SUFFICES ASSUME NEW k \in 1 .. Len(Pipe'), IsFrame(Pipe'[k], "Syn", i)
                 PROVE  opened[i] > 1
      BY ZenonT(30)
    <2>1. k + 1 \in 1 .. Len(Pipe) /\ Pipe'[k] = Pipe[k + 1] /\ 1 < k + 1
      BY <1>2 DEF Shifted
    <2>2. Pipe[1].arg < Pipe[k + 1].arg /\ Pipe[k + 1].arg \in 1 .. opened[i]
      BY <1>2, <1>4, <1>5, <2>1, Zenon DEF Numbered
    <2> QED
      BY <1>4, <1>5, <2>2
  <1>8. Distinct(sid, opened, Pipe')
    BY <1>2, DistinctShifted, Zenon DEF OneTaskPerSyn
  <1>9. ASSUME NEW u \in Tasks, sid'[u] # None
        PROVE  /\ opened[sid'[u]] >= 1
               /\ \A w \in Tasks : w # u /\ sid'[w] = sid'[u] => opened[sid'[u]] > 1
               /\ \A k \in 1 .. Len(Pipe') : IsFrame(Pipe'[k], "Syn", sid'[u]) => opened[sid'[u]] > 1
    <2>1. CASE u = t
      <3>1. \A w \in Tasks : w # t /\ sid'[w] = i => opened[i] > 1
        BY <1>3, <1>6, Zenon
      <3> QED
        BY <1>3, <1>5, <1>7, <2>1, <3>1, Zenon
    <2>2. CASE u # t
      <3>1. sid'[u] = sid[u] /\ sid[u] # None
        BY <1>3, <1>9, <2>2
      <3>2. /\ opened[sid[u]] >= 1
            /\ \A w \in Tasks : w # u /\ sid[w] = sid[u] => opened[sid[u]] > 1
            /\ \A k \in 1 .. Len(Pipe') : IsFrame(Pipe'[k], "Syn", sid[u]) => opened[sid[u]] > 1
        BY <1>8, <3>1, Zenon DEF Distinct
      <3>3. ASSUME NEW w \in Tasks, w # u, sid'[w] = sid[u] PROVE opened[sid[u]] > 1
        <4>1. CASE w = t
          <5>1. sid[u] = i
            BY <1>3, <3>3, <4>1
          <5> QED
            BY <1>6, <2>2, <5>1, Zenon
        <4>2. CASE w # t
          BY <1>3, <3>2, <3>3, <4>2, Zenon
        <4> QED
          BY <4>1, <4>2, Zenon
      <3> QED
        BY <3>1, <3>2, <3>3, Zenon
    <2> QED
      BY <2>1, <2>2, Zenon
  <1> QED
    BY <1>1, <1>9, Zenon DEF Distinct

LEMMA OneTaskNext ==
  TypeOK /\ PipeNumbered /\ OneTaskPerSyn /\ [Next]_vars => OneTaskPerSyn'
  <1>DistinctSent.
    ASSUME TypeOK, NEW f \in ClientFrames, ClientSend(f), Distinct(sid, opened, Pipe)
    PROVE  Distinct(sid, opened', Pipe')
    <2> USE <1>DistinctSent
    <2> DEFINE g == Stamp(f)
               q == Append(Pipe, g)
    <2>1. Pipe' = q /\ g \in Frame /\ g.cmd = f.cmd /\ g.id = f.id /\ Pipe \in Seq(Frame)
      BY PipeSend, PipeType, Zenon
    <2>2. \A i \in StreamIds : /\ opened[i] \in Nat
                               /\ opened'[i] = IF f.cmd = "Syn" /\ f.id = i THEN opened[i] + 1 ELSE opened[i]
      BY Zenon DEF ClientSend, TypeOK, TypeClient
    <2> HIDE DEF g
    <2>3. Len(q) = Len(Pipe) + 1 /\ Len(Pipe) \in Nat /\ \A k \in 1 .. Len(q) :
             (k \in 1 .. Len(Pipe) /\ q[k] = Pipe[k]) \/ q[k] = g
      BY <2>1
    <2> HIDE DEF q
    <2>4. SUFFICES ASSUME NEW t \in Tasks, sid[t] # None
                   PROVE  /\ opened'[sid[t]] >= 1
                          /\ \A u \in Tasks : u # t /\ sid[u] = sid[t] => opened'[sid[t]] > 1
                          /\ \A k \in 1 .. Len(q) : IsFrame(q[k], "Syn", sid[t]) => opened'[sid[t]] > 1
      BY <2>1, Zenon DEF Distinct
    <2> DEFINE i == sid[t]
    <2>5. i \in StreamIds
      BY <2>4 DEF TypeOK, TypeTask
    <2>6. /\ opened[i] >= 1
          /\ \A u \in Tasks : u # t /\ sid[u] = i => opened[i] > 1
          /\ \A k \in 1 .. Len(Pipe) : IsFrame(Pipe[k], "Syn", i) => opened[i] > 1
      BY <2>4, Zenon DEF Distinct
    <2> HIDE DEF i
    <2>7. opened'[i] >= opened[i] /\ (IsFrame(g, "Syn", i) => opened'[i] = opened[i] + 1)
      BY <2>1, <2>2, <2>5, SMTT(30) DEF IsFrame
    <2>8. opened[i] \in Nat /\ opened'[i] \in Nat
      BY <2>2, <2>5
    <2>9. ASSUME NEW k \in 1 .. Len(q), IsFrame(q[k], "Syn", i) PROVE opened'[i] > 1
      <3>1. CASE q[k] = g
        BY <2>6, <2>7, <2>8, <2>9, <3>1, SMTT(30)
      <3>2. CASE k \in 1 .. Len(Pipe) /\ q[k] = Pipe[k]
        BY <2>6, <2>7, <2>8, <2>9, <3>2, SMTT(30)
      <3> QED
        BY <2>3, <3>1, <3>2, ZenonT(30)
    <2>10. opened'[i] >= 1 /\ \A u \in Tasks : u # t /\ sid[u] = i => opened'[i] > 1
      BY <2>6, <2>7, <2>8
    <2> QED
      BY <2>9, <2>10, Zenon DEF i
  <1> SUFFICES ASSUME TypeOK, PipeNumbered, OneTaskPerSyn, [Next]_vars
               PROVE  OneTaskPerSyn'
    OBVIOUS
  <1>1. ASSUME UNCHANGED sid PROVE Distinct(sid, opened', Pipe')
    <2>1. CASE Pipe' = Pipe /\ UNCHANGED <<opened, pushed>>
      BY <2>1 DEF OneTaskPerSyn
    <2>2. ASSUME NEW n \in Nat, Shifted(Pipe, Pipe', n), UNCHANGED <<opened, pushed>>
          PROVE  Distinct(sid, opened', Pipe')
      BY <2>2, DistinctShifted, Zenon DEF OneTaskPerSyn
    <2>3. ASSUME NEW f \in ClientFrames, ClientSend(f)
          PROVE  Distinct(sid, opened', Pipe')
      BY <2>3, <1>DistinctSent, Zenon DEF OneTaskPerSyn
    <2> QED
      BY <2>1, <2>2, <2>3, PipeSteps, Zenon
  <1>2. ASSUME UNCHANGED <<sid, tpc>> PROVE OneTaskPerSyn'
    BY <1>1, <1>2, Zenon DEF OneTaskPerSyn, Distinct, IsFrame
  <1>3. CASE Aside
    BY <1>2, <1>3, AsideLeaves
  <1>4. ASSUME NEW t \in Tasks, TaskStep(t) \/ DestStep(t) \/ TaskSynAckTimeout(t)
        PROVE  OneTaskPerSyn'
    <2>1. Own(t)
      BY <1>4, TaskOwn, SMTT(30)
    <2>2. /\ UNCHANGED sid
          /\ \A u \in Tasks : /\ tpc'[u] = "none" => tpc[u] = "none"
                              /\ tpc'[u] \notin {"none", "done"} => tpc[u] \notin {"none", "done"}
      BY <2>1 DEF Own, Gone
    <2>3. Distinct(sid', opened', Pipe')
      BY <1>1, <2>2, Zenon DEF Distinct
    <2> QED
      BY <2>2, <2>3, Zenon DEF OneTaskPerSyn, Distinct, IsFrame
  <1>5. ASSUME NEW t \in Tasks, RecvSynOpen(t) PROVE OneTaskPerSyn'
    <2>1. Distinct(sid', opened', Pipe')
      BY <1>5, DistinctOpened
    <2>2. /\ sid'[t] \in StreamIds /\ tpc'[t] = "addr"
          /\ \A u \in Tasks \ {t} : sid'[u] = sid[u] /\ tpc'[u] = tpc[u]
      BY <1>5, DecodeTypes, Zenon DEF RecvSynOpen, Decoding, TypeOK, TypeTask
    <2>3. sid'[t] # None
      BY <2>2, ActorsDiffer
    <2> QED
      BY <2>1, <2>2, <2>3, Zenon DEF OneTaskPerSyn, Distinct, IsFrame
  <1>6. CASE RecvControlTimeout \/ (RecvStep /\ ~(\E t \in Tasks : RecvSynOpen(t)))
    <2>1. UNCHANGED <<sid, tpc>>
      BY <1>6, Zenon
      DEF RecvControlTimeout, RecvStep, RecvRead, RecvEnd, RecvPsh, RecvFin, RecvPush,
          RecvRegister, RecvSynDuplicate, RecvSynBeforeSettings, RecvHeart, RecvSettings,
          RecvVersion, RecvFatal, RecvIgnore, RecvControlDone, RecvControlFailed, RunClose,
          RunEnd, task
    <2> QED
      BY <1>2, <2>1
  <1> QED
    BY <1>3, <1>4, <1>5, <1>6, StepKinds, Zenon

(***************************************************************************)
(* stream_tasks while the session is open.                                  *)
(***************************************************************************)
Register(t) == [pc |-> "register", task |-> t, arg |-> 0]

(* The handle of a handler is in the map until the handler has cleaned up, except for the *)
(* time between spawn and insert; in that time the handler can only wait for its address. *)
RegisteredOK(t) ==
    /\ tpc[t] # "done" => handles[sid[t]] = t \/ rcv = Register(t)
    /\ tpc[t] = "done" => handles[sid[t]] # t
    /\ rcv = Register(t) => tpc[t] = "addr" /\ chan[t] = <<>> /\ streams[sid[t]] = t

Registered ==
    /\ \A t \in Tasks : tpc[t] = "none" => chan[t] = <<>>
    /\ ~isClosed => \A t \in Tasks : sid[t] # None /\ opened[sid[t]] = 1 => RegisteredOK(t)

LEMMA RegisteredInit == Init => Registered
  <1>1. ASSUME Init, NEW t \in Tasks PROVE chan[t] = <<>> /\ sid[t] = None
    BY <1>1 DEF Init
  <1> QED
    BY <1>1, Zenon DEF Registered

LEMMA RegisteredImplies == Registered => HandlesMatchTasks
  BY Zenon DEF Registered, RegisteredOK, HandlesMatchTasks, Live, Register

(* The client never takes a SYN back. *)
LEMMA OpenedGrows ==
  ASSUME TypeOK, [Next]_vars, NEW i \in StreamIds
  PROVE  opened[i] \in Nat /\ opened'[i] \in Nat /\ opened'[i] >= opened[i]
  <1>1. opened[i] \in Nat
    BY DEF TypeOK, TypeClient
  <1>2. CASE UNCHANGED opened
    BY <1>1, <1>2
  <1>3. ASSUME NEW f \in ClientFrames, ClientSend(f)
        PROVE  opened'[i] \in Nat /\ opened'[i] >= opened[i]
    BY <1>1, <1>3 DEF ClientSend, TypeOK, TypeClient
  <1> QED
    BY <1>1, <1>2, <1>3, PipeSteps, Zenon

LEMMA RegisteredNext ==
  /\ TypeOK /\ FramesInv /\ CloserWon /\ CutInv
  /\ RecvSane /\ PipeNumbered /\ OneTaskPerSyn /\ Registered /\ [Next]_vars
  => Registered'
  (* An id that was opened once was so before, and has one handler. *)
  <1>OnceBefore.
    ASSUME TypeOK, OneTaskPerSyn, [Next]_vars, NEW t \in Tasks, sid[t] # None,
           opened'[sid[t]] = 1
    PROVE  /\ sid[t] \in StreamIds /\ opened[sid[t]] = 1
           /\ \A u \in Tasks : u # t => sid[u] # sid[t]
    <2>0. \A m, n \in Nat : m >= 1 /\ n = 1 /\ n >= m => m = 1 /\ ~(m > 1)
      OBVIOUS
    <2> USE <1>OnceBefore
    <2>1. sid[t] \in StreamIds
      BY DEF TypeOK, TypeTask
    <2>2. opened[sid[t]] >= 1 /\ \A u \in Tasks : u # t /\ sid[u] = sid[t] => opened[sid[t]] > 1
      BY Zenon DEF OneTaskPerSyn, Distinct
    <2>3. /\ opened[sid[t]] \in Nat /\ opened'[sid[t]] \in Nat
          /\ opened'[sid[t]] >= opened[sid[t]]
      BY <2>1, OpenedGrows, Zenon
    <2>4. opened[sid[t]] = 1 /\ ~(opened[sid[t]] > 1)
      BY <2>0, <2>2, <2>3, Zenon
    <2> QED
      BY <2>1, <2>2, <2>4, Zenon
  (* recv_loop goes on, from and to where it registers nothing. *)
  <1>RegisteredStays.
    ASSUME TypeOK, OneTaskPerSyn, Registered, [Next]_vars, UNCHANGED <<sid, tpc, handles>>,
           \A t \in Tasks : tpc[t] = "none" => chan'[t] = chan[t],
           rcv.pc # "register", rcv'.pc # "register", isClosed => isClosed'
    PROVE  Registered'
    <2> USE <1>RegisteredStays
    <2>1. \A t \in Tasks : rcv # Register(t) /\ rcv' # Register(t)
      BY DEF Register
    <2>2. ASSUME ~isClosed', NEW t \in Tasks, sid[t] # None, opened'[sid[t]] = 1
          PROVE  RegisteredOK(t)'
      <3>1. opened[sid[t]] = 1
        BY <2>2, <1>OnceBefore, Zenon
      <3>2. RegisteredOK(t)
        BY <2>2, <3>1, Zenon DEF Registered
      <3> QED
        BY <2>1, <3>2, Zenon DEF RegisteredOK, Register
    <2> QED
      BY <2>2, ZenonT(30) DEF Registered
  <1>RegisteredAside.
    ASSUME TypeOK, FramesInv, CloserWon, OneTaskPerSyn, Registered, [Next]_vars, Aside
    PROVE  Registered'
    <2> USE <1>RegisteredAside
    <2>1. UNCHANGED <<rcv, tpc, sid, chan, isClosed>>
      BY AsideLeaves
    <2>2. ASSUME ~isClosed', NEW t \in Tasks, sid[t] # None, opened'[sid[t]] = 1
          PROVE  RegisteredOK(t)'
      <3>1. /\ sid[t] \in StreamIds /\ opened[sid[t]] = 1
            /\ \A u \in Tasks : u # t => sid[u] # sid[t]
        BY <2>2, <1>OnceBefore, Zenon
      <3>2. RegisteredOK(t) /\ ~isClosed
        BY <2>1, <2>2, <3>1, Zenon DEF Registered
      <3>3. closer.step \notin {"tasks", "streams"}
        BY <3>2 DEF CloserWon
      <3>4. UNCHANGED handles /\ (OutRemove \/ UNCHANGED streams)
        BY <3>3, Zenon DEF Aside, ClientStep, ClientSend, ClientHangup, LinkDown, OutStep,
           OutRecv,
                   OutWrite, OutRemove, CloseStep, CloseTasks, CloseStreams, CloseWriter, vars,
                   LockWriteBuf, maps
      <3>5. ASSUME OutRemove, rcv = Register(t) PROVE streams'[sid[t]] = streams[sid[t]]
        <4>1. opc = "remove" /\ streams' = [streams EXCEPT ![sid[cur.task]] = None]
          BY <3>5, Zenon DEF OutRemove
        <4>2. cur.task \in Tasks /\ shut[cur.task]
          BY <4>1, ZenonT(30) DEF FramesInv, Item
        <4>3. tpc[t] \in Early
          BY <3>2, <3>5, EarlyPcs, Zenon DEF RegisteredOK
        <4>4. cur.task # t
          BY <4>2, <4>3, EarlyOpen, Zenon
        <4>5. sid[cur.task] # sid[t]
          BY <3>1, <4>2, <4>4
        <4> QED
          BY <3>1, <4>1, <4>5, Zenon DEF TypeOK, TypeMaps
      <3> QED
        BY <2>1, <3>2, <3>4, <3>5, Zenon DEF RegisteredOK, Register
    <2> QED
      BY <2>1, <2>2, Zenon DEF Registered
  <1>RegisteredTask.
    ASSUME TypeOK, CutInv, OneTaskPerSyn, Registered, [Next]_vars, NEW t \in Tasks,
           TaskStep(t) \/ DestStep(t) \/ TaskSynAckTimeout(t)
    PROVE  Registered'
    <2> USE <1>RegisteredTask
    <2>1. Own(t)
      BY TaskOwn
    <2>2. /\ UNCHANGED <<rcv, streams, sid>> /\ (isClosed => isClosed')
          /\ \A u \in Tasks \ {t} : tpc'[u] = tpc[u] /\ chan'[u] = chan[u]
          /\ tpc'[t] # "none"
          /\ \/ TaskCleanup(t) \/ TaskCancel(t)
             \/ Live(t) /\ tpc'[t] # "done" /\ UNCHANGED handles
      BY <2>1, Zenon DEF Own
    <2>3. \A u \in Tasks : tpc'[u] = "none" => chan'[u] = <<>>
      BY <2>2, Zenon DEF Registered
    <2>4. ASSUME ~isClosed', NEW u \in Tasks, sid[u] # None, opened'[sid[u]] = 1
          PROVE  RegisteredOK(u)'
      <3>1. /\ sid[u] \in StreamIds /\ opened[sid[u]] = 1
            /\ \A w \in Tasks : w # u => sid[w] # sid[u]
        BY <2>4, <1>OnceBefore, Zenon
      <3>2. RegisteredOK(u) /\ ~isClosed
        BY <2>2, <2>4, <3>1, Zenon DEF Registered
      <3>3. ~TaskCancel(t) /\ ~TaskSynAckTimeout(t)
        BY <2>4, <3>2 DEF TaskCancel, CutInv, TaskSynAckTimeout, CloseStart
      <3>4. handles' = handles \/ handles' = [handles EXCEPT ![sid[t]] = None]
        BY <2>2, <3>3, Zenon DEF TaskCleanup
      <3>5. CASE u # t
        <4>1. handles'[sid[u]] = handles[sid[u]]
          BY <3>1, <3>4, <3>5, Zenon DEF TypeOK, TypeMaps
        <4>2. tpc'[u] = tpc[u] /\ chan'[u] = chan[u]
          BY <2>2, <3>5, Zenon
        <4> QED
          BY <2>2, <3>2, <4>1, <4>2, Zenon DEF RegisteredOK, Register
      <3>6. CASE u = t
        <4>1. rcv # Register(t)
          <5> SUFFICES ASSUME rcv = Register(t) PROVE FALSE
            OBVIOUS
          <5>1. tpc[t] = "addr" /\ chan[t] = <<>> /\ streams[sid[t]] = t
            BY <3>2, <3>6, Zenon DEF RegisteredOK
          <5>2. TxAlive(t)
            BY <3>1, <3>6, <5>1, Zenon DEF TxAlive
          <5>3. ~TaskAddress(t)
            BY <5>1, Zenon DEF TaskAddress, ReadData
          <5>4. ~TaskRefuse(t)
            BY <5>1, <5>2, Zenon DEF TaskRefuse, ReadsEof
          <5>5. ~(\E ok \in BOOLEAN : TaskDial(t, ok)) /\ ~TaskSynAck(t) /\ ~TaskClosed(t)
            BY <5>1, Zenon DEF TaskDial, TaskSynAck, TaskClosed
          <5>6. ~TaskUpload(t) /\ ~TaskUploadEof(t) /\ ~TaskUploadBroken(t) /\ ~DestStep(t)
            BY <5>1, Zenon DEF TaskUpload, TaskUploadEof, TaskUploadBroken, DestStep, TaskReply,
                        TaskDestEof, TaskRelayEnds
          <5>7. ~TaskShutdown(t) /\ ~TaskShutdownWait(t) /\ ~TaskCleanup(t)
            BY <5>1, Zenon DEF TaskShutdown, TaskShutdownWait, TaskCleanup
          <5> QED
            BY <3>3, <5>3, <5>4, <5>5, <5>6, <5>7, Zenon DEF TaskStep
        <4>2. CASE TaskCleanup(t)
          <5>1. tpc'[t] = "done" /\ handles'[sid[t]] = None
            BY <3>1, <3>6, <4>2, Zenon DEF TaskCleanup, Goto, TypeOK, TypeTask, TypeMaps
          <5>2. rcv' # Register(t)
            BY <2>2, <4>1, Zenon
          <5> QED
            BY <2>2, <3>6, <5>1, <5>2, ActorsDiffer, ZenonT(30) DEF RegisteredOK, Register
        <4>3. CASE Live(t) /\ tpc'[t] # "done" /\ UNCHANGED handles
          <5>1. handles[sid[t]] = t
            BY <3>2, <3>6, <4>1, <4>3, Zenon DEF RegisteredOK, Live
          <5> QED
            BY <2>2, <3>6, <4>1, <4>3, <5>1, Zenon DEF RegisteredOK, Register
        <4> QED
          BY <2>2, <3>3, <4>2, <4>3, Zenon
      <3> QED
        BY <3>5, <3>6
    <2> QED
      BY <2>2, <2>3, <2>4, Zenon DEF Registered
  <1>RegisteredOpen.
    ASSUME TypeOK, PipeNumbered, OneTaskPerSyn, Registered, [Next]_vars, NEW t \in Tasks,
           RecvSynOpen(t)
    PROVE  Registered'
    <2> USE <1>RegisteredOpen
    <2> DEFINE i == Head(buf).id
    <2>1. /\ rcv.pc = "decode" /\ i \in StreamIds /\ tpc[t] = "none" /\ rcv' = Register(t)
          /\ UNCHANGED <<handles, isClosed, chan, opened>>
      BY DecodeTypes, Zenon DEF RecvSynOpen, Decoding, Register, client, closing
    <2>2. /\ sid'[t] = i /\ tpc'[t] = "addr" /\ streams'[i] = t
          /\ \A u \in Tasks \ {t} : sid'[u] = sid[u] /\ tpc'[u] = tpc[u]
      BY <2>1, Zenon DEF RecvSynOpen, TypeOK, TypeTask, TypeMaps
    <2> HIDE DEF i
    <2>3. chan'[t] = <<>>
      BY <2>1, Zenon DEF Registered
    <2>4. Distinct(sid', opened', Pipe')
      BY DistinctOpened
    <2>5. ASSUME ~isClosed', NEW u \in Tasks, sid'[u] # None, opened'[sid'[u]] = 1
          PROVE  RegisteredOK(u)'
      <3>1. CASE u = t
        BY <2>1, <2>2, <2>3, <3>1, Zenon DEF RegisteredOK, Register
      <3>2. CASE u # t
        <4>1. sid'[u] = sid[u] /\ tpc'[u] = tpc[u] /\ sid[u] # None /\ opened[sid[u]] = 1
          BY <2>1, <2>2, <2>5, <3>2, Zenon
        <4>2. RegisteredOK(u)
          BY <2>1, <2>5, <4>1, Zenon DEF Registered
        <4>3. rcv # Register(u) /\ rcv' # Register(u)
          BY <2>1, <3>2 DEF Register
        <4> QED
          BY <2>1, <4>1, <4>2, <4>3, Zenon DEF RegisteredOK, Register
      <3> QED
        BY <3>1, <3>2
    <2>6. \A u \in Tasks : tpc'[u] = "none" => chan'[u] = <<>>
      BY <2>1, <2>2, Zenon DEF Registered
    <2> QED
      BY <2>5, <2>6, Zenon DEF Registered
  <1>RegisteredInsert.
    ASSUME TypeOK, RecvSane, OneTaskPerSyn, Registered, [Next]_vars, RecvRegister
    PROVE  Registered'
    <2> USE <1>RegisteredInsert
    <2> DEFINE t == rcv.task
    <2>1. /\ t \in Tasks /\ rcv.pc = "register" /\ rcv.arg = 0 /\ rcv' = At("decode")
          /\ UNCHANGED <<sid, tpc, chan, isClosed, opened, streams>>
          /\ sid[t] \in StreamIds /\ handles'[sid[t]] = t
          /\ \A i \in StreamIds : i # sid[t] => handles'[i] = handles[i]
      BY Zenon DEF RecvRegister, RecvSane, task, closing, client, TypeOK, TypeMaps
    <2>2. rcv = Register(t)
      BY <2>1, Zenon DEF Register, TypeOK, TypeRecv
    <2> HIDE DEF t
    <2>3. \A u \in Tasks : rcv' # Register(u)
      BY <2>1, Zenon DEF At, Register
    <2>4. ASSUME ~isClosed', NEW u \in Tasks, sid[u] # None, opened'[sid[u]] = 1
          PROVE  RegisteredOK(u)'
      <3>1. /\ sid[u] \in StreamIds /\ opened[sid[u]] = 1
            /\ \A w \in Tasks : w # u => sid[w] # sid[u]
        BY <2>4, <1>OnceBefore, Zenon
      <3>2. RegisteredOK(u)
        BY <2>1, <2>4, <3>1, Zenon DEF Registered
      <3>3. CASE u = t
        <4>1. tpc[u] = "addr"
          BY <2>2, <3>2, <3>3, Zenon DEF RegisteredOK
        <4> QED
          BY <2>1, <2>3, <3>3, <4>1, Zenon DEF RegisteredOK, Register
      <3>4. CASE u # t
        <4>1. handles'[sid[u]] = handles[sid[u]]
          BY <2>1, <3>1, <3>4, Zenon
        <4>2. rcv # Register(u)
          BY <2>2, <3>4 DEF Register
        <4> QED
          BY <2>1, <2>3, <3>2, <4>1, <4>2, Zenon DEF RegisteredOK, Register
      <3> QED
        BY <3>3, <3>4
    <2> QED
      BY <2>1, <2>4, Zenon DEF Registered
  <1> SUFFICES ASSUME TypeOK, FramesInv, CloserWon, CutInv, RecvSane, PipeNumbered, OneTaskPerSyn,
                      Registered, [Next]_vars
               PROVE  Registered'
    OBVIOUS
  <1> USE DEF task, closing, maps, recvs
  <1>1. ASSUME isClosed', UNCHANGED <<tpc, chan>> PROVE Registered'
    BY <1>1, Zenon DEF Registered
  <1>2. CASE RecvControlTimeout \/ RunClose
    BY <1>1, <1>2, Zenon DEF RecvControlTimeout, RunClose, CloseStart
  <1>3. CASE RecvControlDone \/ RecvControlFailed
    <2>1. wst["recv"] # "idle" /\ UNCHANGED <<sid, tpc, chan, handles, isClosed>>
      BY <1>3, Zenon DEF RecvControlDone, RecvControlFailed, WriteOk, WriteErr, HasWriter
    <2>2. rcv.pc # "register"
      BY <2>1, Zenon DEF RecvSane, Control
    <2>3. rcv'.pc # "register"
      BY <1>3, <2>2 DEF RecvControlDone, RecvControlFailed, AfterControl, At, TypeOK, TypeRecv
    <2> QED
      BY <2>1, <2>2, <2>3, <1>RegisteredStays, Zenon
  <1>4. CASE \/ RecvEnd \/ RecvPsh \/ RecvFin \/ RecvSynDuplicate \/ RecvSynBeforeSettings
             \/ RecvHeart \/ RecvSettings \/ RecvVersion \/ RecvFatal \/ RecvIgnore \/ RunEnd
             \/ (\E k \in 1 .. Len(net) : RecvRead(k))
    <2>1. UNCHANGED <<sid, tpc, chan, handles, isClosed>>
      BY <1>4, Zenon DEF RecvEnd, RecvPsh, RecvFin, RecvSynDuplicate, RecvSynBeforeSettings,
                  RecvHeart, RecvSettings, RecvVersion, RecvFatal, RecvIgnore, RunEnd, RecvRead
    <2>2. rcv.pc \in {"decode", "version", "close"}
      BY <1>4, Zenon DEF RecvEnd, RecvPsh, RecvFin, RecvSynDuplicate, RecvSynBeforeSettings,
         Decoding,
                  RecvHeart, RecvSettings, RecvVersion, RecvFatal, RecvIgnore, RunEnd, RecvRead
    <2>3. rcv'.pc # "register"
      <3>1. CASE RecvPsh
        BY <2>2, <3>1, Zenon DEF RecvPsh
      <3>2. CASE RecvFin
        BY <2>2, <3>2, Zenon DEF RecvFin
      <3>3. CASE \/ RecvEnd \/ RecvFatal \/ RunEnd \/ RecvSynDuplicate \/ RecvIgnore
                 \/ (\E k \in 1 .. Len(net) : RecvRead(k))
        BY <2>2, <3>3, RecvGoesTo, Zenon
        DEF RecvEnd, RecvFatal, RunEnd, RecvSynDuplicate, RecvIgnore, RecvRead
      <3>4. CASE RecvSynBeforeSettings \/ RecvHeart
        BY <3>4, RecvGoesTo, Zenon DEF RecvSynBeforeSettings, RecvHeart
      <3>5. CASE RecvSettings
        BY <3>5, RecvGoesTo, ZenonT(30) DEF RecvSettings
      <3>6. CASE RecvVersion
        BY <3>6, RecvGoesTo, Zenon DEF RecvVersion
      <3> QED
        BY <1>4, <3>1, <3>2, <3>3, <3>4, <3>5, <3>6, Zenon
    <2> QED
      BY <2>1, <2>2, <2>3, <1>RegisteredStays, Zenon
  <1>5. CASE RecvPush
    <2>1. /\ UNCHANGED <<sid, tpc, handles, isClosed>> /\ rcv.pc = "push" /\ rcv'.pc = "decode"
      BY <1>5, Zenon DEF RecvPush, At
    <2>2. \A t \in Tasks : tpc[t] = "none" => chan'[t] = chan[t]
      <3>1. tpc[rcv.task] # "none"
        BY <2>1, ZenonT(30) DEF RecvSane
      <3>2. \A t \in Tasks : t # rcv.task => chan'[t] = chan[t]
        BY <1>5 DEF RecvPush, TypeOK, TypeTask
      <3> QED
        BY <3>1, <3>2, Zenon
    <2> QED
      BY <2>1, <2>2, <1>RegisteredStays, Zenon
  <1>6. CASE \E t \in Tasks : TaskStep(t) \/ DestStep(t) \/ TaskSynAckTimeout(t)
    BY <1>6, <1>RegisteredTask, Zenon
  <1>7. CASE RecvRegister \/ \E t \in Tasks : RecvSynOpen(t)
    BY <1>7, <1>RegisteredInsert, <1>RegisteredOpen, Zenon
  <1>8. CASE Aside
    BY <1>8, <1>RegisteredAside
  <1> QED
    BY <1>2, <1>3, <1>4, <1>5, <1>6, <1>7, <1>8, StepKinds, Zenon DEF RecvStep

(* All that is known of the handlers of a session. *)
SessionInv ==
    TypeOK /\ FinInv /\ CloserWon /\ CutInv /\ FramesInv /\ RecvSane /\ PipeNumbered
    /\ OneTaskPerSyn /\ Registered

LEMMA SessionInvInit == Init => SessionInv
  <1>1. Init => CutInv
    BY DEF Init, CutInv, CutFrameEndsSession
  <1> QED
    BY <1>1, TypeInit, FinInvInit, CloserWonInit, FramesInvInit, RecvSaneInit, PipeNumberedInit,
       OneTaskInit, RegisteredInit, ZenonT(30) DEF SessionInv

LEMMA SessionInvNext == SessionInv /\ [Next]_vars => SessionInv'
  <1> SUFFICES ASSUME SessionInv, [Next]_vars PROVE SessionInv'
    OBVIOUS
  <1>1. TypeOK /\ FinInv /\ CloserWon /\ CutInv /\ FramesInv /\ RecvSane /\ PipeNumbered
        /\ OneTaskPerSyn /\ Registered
    BY DEF SessionInv
  <1>2. TypeOK' /\ FinInv'
    BY <1>1, TypeNext, FinInvNext, Zenon
  <1>3. CloserWon' /\ CutInv' /\ FramesInv'
    BY <1>1, CloserWonNext, CutInvNext, FramesInvNext, Zenon
  <1>4. RecvSane' /\ PipeNumbered' /\ OneTaskPerSyn' /\ Registered'
    BY <1>1, <1>2, RecvSaneNext, PipeNumberedNext, OneTaskNext, RegisteredNext, Zenon
  <1> QED
    BY <1>2, <1>3, <1>4, Zenon DEF SessionInv

(* While the session is open, stream_tasks holds the handle of every live handler whose   *)
(* id the client opened once, and of none that has finished (session.rs:309-324).         *)
THEOREM HandlesAreTasks == Spec => []HandlesMatchTasks
  <1>1. SessionInv => HandlesMatchTasks
    BY RegisteredImplies, ZenonT(30) DEF SessionInv
  <1> QED
    BY <1>1, SessionInvInit, SessionInvNext, PTL DEF Spec

(***************************************************************************)
(* close() called by run(): no handler is registered or spawned meanwhile.   *)
(***************************************************************************)
CloseInv ==
    closer.who = "recv" =>
        /\ rcv.pc \in {"close", "done"}
        /\ closer.step = "tasks" =>
               \A t \in Tasks : Live(t) => opened[sid[t]] > 1 \/ handles[sid[t]] = t
        /\ closer.step \in {"streams", "shutdown", "over"} =>
               \A t \in Tasks : Live(t) => opened[sid[t]] > 1 \/ t \in aborted
        /\ closer.step \in {"shutdown", "over"} => \A i \in StreamIds : streams[i] = None

LEMMA CloseInvInit == Init => CloseInv
  BY ActorsDiffer, SMTT(30) DEF Init, CloseInv

LEMMA CloseInvImplies == CloseInv => CloseAbortsAll
  <1> SUFFICES ASSUME CloseInv, rcv.pc = "done", closer = [who |-> "recv", step |-> "over"],
                      NEW t \in Tasks, Live(t)
               PROVE  t \in aborted \/ (opened[sid[t]] > 1 /\ ~TxAlive(t))
    BY Zenon DEF CloseAbortsAll
  <1>1. opened[sid[t]] > 1 \/ t \in aborted
    BY Zenon DEF CloseInv
  <1>2. \A i \in StreamIds : streams[i] = None
    BY Zenon DEF CloseInv
  <1>3. ~TxAlive(t)
    BY <1>2, ActorsDiffer DEF TxAlive
  <1> QED
    BY <1>1, <1>3

LEMMA CloseInvNext ==
  SessionInv /\ CloseInv /\ [Next]_vars => CloseInv'
  (* A live handler has an id, opened at least once. *)
  <1>LiveOpened.
    ASSUME TypeOK, OneTaskPerSyn, [Next]_vars, NEW t \in Tasks, Live(t)
    PROVE  /\ sid[t] \in StreamIds /\ sid[t] # None
           /\ opened[sid[t]] = 1 \/ opened[sid[t]] > 1
           /\ opened[sid[t]] > 1 => opened'[sid[t]] > 1
           /\ \A u \in Tasks : u # t /\ sid[u] = sid[t] => opened[sid[t]] > 1
    <2> USE <1>LiveOpened
    <2>1. sid[t] # None /\ sid[t] \in StreamIds
      BY DEF OneTaskPerSyn, Live, TypeOK, TypeTask
    <2>2. /\ opened[sid[t]] \in Nat /\ opened[sid[t]] >= 1
          /\ \A u \in Tasks : u # t /\ sid[u] = sid[t] => opened[sid[t]] > 1
      BY <2>1, ZenonT(30) DEF OneTaskPerSyn, Distinct, TypeOK, TypeClient
    <2>3. opened'[sid[t]] \in Nat /\ opened'[sid[t]] >= opened[sid[t]]
      BY <2>1, OpenedGrows
    <2> QED
      BY <2>1, <2>2, <2>3
  (* run() wins the compare_exchange. *)
  <1>CloseInvBegins.
    ASSUME SessionInv, [Next]_vars, CloseStart("recv"), ~isClosed, rcv.pc # "register",
           rcv'.pc = "close", UNCHANGED <<tpc, sid, handles, opened>>
    PROVE  CloseInv'
    <2> USE <1>CloseInvBegins
    <2>1. closer' = [who |-> "recv", step |-> "tasks"]
      BY ZenonT(30) DEF CloseStart
    <2>2. ASSUME NEW t \in Tasks, Live(t) PROVE opened[sid[t]] > 1 \/ handles[sid[t]] = t
      <3>1. sid[t] # None /\ (opened[sid[t]] = 1 \/ opened[sid[t]] > 1)
        BY <2>2, <1>LiveOpened, ZenonT(30) DEF SessionInv
      <3>2. CASE opened[sid[t]] = 1
        <4>1. RegisteredOK(t)
          BY <3>1, <3>2, Zenon DEF SessionInv, Registered
        <4> QED
          BY <2>2, <4>1 DEF RegisteredOK, Register, Live
      <3> QED
        BY <3>1, <3>2
    <2> QED
      BY <2>1, <2>2, Zenon DEF CloseInv, Live
  (* The handlers go on meanwhile, and the client goes on sending. *)
  <1>CloseInvGoesOn.
    ASSUME SessionInv, CloseInv, [Next]_vars, UNCHANGED <<closer, sid>>, aborted \subseteq aborted',
           closer.who = "recv" => rcv'.pc \in {"close", "done"},
           \A t \in Tasks : Live(t)' => Live(t),
           closer.step = "tasks" =>
               \A t \in Tasks : Live(t)' => opened[sid[t]] > 1 \/ handles'[sid[t]] = handles[sid[t]],
           \A i \in StreamIds : streams[i] = None => streams'[i] = None
    PROVE  CloseInv'
    <2> USE <1>CloseInvGoesOn
    <2>1. ASSUME NEW t \in Tasks, Live(t)' PROVE opened[sid[t]] > 1 => opened'[sid[t]] > 1
      BY <2>1, <1>LiveOpened, Zenon DEF SessionInv
    <2>2. ASSUME closer.who = "recv", closer.step = "tasks", NEW t \in Tasks, Live(t)'
          PROVE  opened'[sid[t]] > 1 \/ handles'[sid[t]] = t
      BY <2>1, <2>2, Zenon DEF CloseInv
    <2>3. ASSUME closer.who = "recv", closer.step \in {"streams", "shutdown", "over"},
                 NEW t \in Tasks, Live(t)'
          PROVE  opened'[sid[t]] > 1 \/ t \in aborted'
      BY <2>1, <2>3, Zenon DEF CloseInv
    <2>4. ASSUME closer.who = "recv", closer.step \in {"shutdown", "over"}, NEW i \in StreamIds
          PROVE  streams'[i] = None
      BY <2>4, Zenon DEF CloseInv
    <2> QED
      BY <2>2, <2>3, <2>4, Zenon DEF CloseInv
  <1> SUFFICES ASSUME SessionInv, CloseInv, [Next]_vars
               PROVE  CloseInv'
    OBVIOUS
  <1> USE DEF task, closing, maps, recvs, client
  <1>0. TypeOK /\ CloserWon /\ RecvSane /\ OneTaskPerSyn
    BY DEF SessionInv
  <1>1. CASE ClientStep \/ OutStep \/ UNCHANGED vars \/ \E a \in Actors : LockWriteBuf(a)
    <2>1. UNCHANGED <<rcv, closer, aborted, tpc, sid, handles>>
      BY <1>1, Zenon DEF ClientStep, ClientSend, ClientHangup, LinkDown, OutStep, OutRecv,
                         OutWrite, OutRemove, vars, LockWriteBuf
    <2>2. UNCHANGED streams \/ OutRemove
      BY <1>1, ZenonT(30) DEF ClientStep, ClientSend, ClientHangup, LinkDown, OutStep, OutRecv,
                         OutWrite, vars, LockWriteBuf
    <2>3. \A i \in StreamIds : streams[i] = None => streams'[i] = None
      BY <1>0, <2>2, ZenonT(30) DEF OutRemove, TypeOK, TypeMaps
    <2> QED
      BY <2>1, <2>3, <1>CloseInvGoesOn, Zenon DEF CloseInv, Live
  <1>2. CASE CloseTasks
    <2>1. /\ closer.step = "tasks" /\ closer'.who = closer.who /\ closer'.step = "streams"
          /\ UNCHANGED <<rcv, tpc, sid, opened>>
          /\ \A i \in StreamIds : handles[i] # None => handles[i] \in aborted'
      BY <1>0, <1>2 DEF CloseTasks, TypeOK, TypeClosing
    <2>2. ASSUME closer.who = "recv", NEW t \in Tasks, Live(t)
          PROVE  opened[sid[t]] > 1 \/ t \in aborted'
      <3>1. opened[sid[t]] > 1 \/ handles[sid[t]] = t
        BY <2>1, <2>2, Zenon DEF CloseInv
      <3>2. sid[t] \in StreamIds
        BY <1>0, <2>2, <1>LiveOpened, Zenon
      <3> QED
        BY <2>1, <3>1, <3>2, ActorsDiffer, Zenon
    <2> QED
      BY <2>1, <2>2, Zenon DEF CloseInv, Live
  <1>3. CASE CloseStreams
    <2>1. /\ closer.step = "streams" /\ closer'.who = closer.who
          /\ closer'.step \in {"over", "shutdown"}
          /\ UNCHANGED <<rcv, tpc, sid, opened, aborted>>
          /\ \A i \in StreamIds : streams'[i] = None
      BY <1>0, <1>3 DEF CloseStreams, TypeOK, TypeClosing
    <2> QED
      BY <2>1, Zenon DEF CloseInv, Live
  <1>4. CASE CloseWriter
    <2>1. /\ closer.step = "shutdown" /\ closer'.who = closer.who /\ closer'.step = "over"
          /\ UNCHANGED <<rcv, tpc, sid, opened, aborted, streams>>
      BY <1>0, <1>4, Zenon DEF CloseWriter, TypeOK, TypeClosing
    <2> QED
      BY <2>1, Zenon DEF CloseInv, Live
  <1>5. ASSUME NEW t \in Tasks, TaskStep(t) \/ DestStep(t) \/ TaskSynAckTimeout(t)
        PROVE  CloseInv'
    <2>1. Own(t)
      BY <1>0, <1>5, TaskOwn
    <2>2. /\ UNCHANGED <<rcv, streams, sid, aborted>>
          /\ \A u \in Tasks : Live(u)' => Live(u)
          /\ handles' = handles \/ TaskCleanup(t) \/ TaskCancel(t)
      BY <2>1, Zenon DEF Own, Live, Gone
    <2>3. CASE closer'.who = "recv"
      <3>1. closer' = closer
        <4>1. CASE TaskCancel(t)
          BY <1>0, <2>3, <4>1, ActorsDiffer, Zenon DEF TaskCancel, TypeOK, TypeClosing
        <4>2. CASE TaskSynAckTimeout(t)
          BY <2>3, <4>2, ActorsDiffer, Zenon DEF TaskSynAckTimeout, CloseStart
        <4>3. CASE ~TaskCancel(t) /\ ~TaskSynAckTimeout(t)
          BY <1>5, <4>3, Zenon DEF TaskStep, DestStep, TaskAddress, TaskRefuse, TaskDial,
             TaskSynAck,
                  TaskClosed, TaskUpload, TaskUploadEof, TaskUploadBroken, TaskShutdown,
                  TaskShutdownWait, TaskCleanup, TaskReply, TaskDestEof, TaskRelayEnds
        <4> QED
          BY <4>1, <4>2, <4>3, Zenon
      <3>2. ASSUME NEW u \in Tasks, Live(u)'
            PROVE  opened[sid[u]] > 1 \/ handles'[sid[u]] = handles[sid[u]]
        <4>1. CASE handles' = handles
          BY <4>1, Zenon
        <4>2. CASE TaskCancel(t)
          BY <4>2 DEF TaskCancel
        <4>3. CASE TaskCleanup(t)
          <5>1. u # t /\ Live(u)
            BY <1>0, <2>2, <3>2, <4>3, Zenon DEF TaskCleanup, Goto, Live, TypeOK, TypeTask
          <5>2. sid[u] \in StreamIds /\ (sid[t] = sid[u] => opened[sid[u]] > 1)
            BY <1>0, <5>1, <1>LiveOpened, Zenon
          <5> QED
            BY <1>0, <4>3, <5>2, Zenon DEF TaskCleanup, TypeOK, TypeMaps
        <4> QED
          BY <2>2, <4>1, <4>2, <4>3, Zenon
      <3> QED
        BY <2>2, <3>1, <3>2, <1>CloseInvGoesOn, Zenon DEF CloseInv
    <2>4. CASE closer'.who # "recv"
      BY <2>4, Zenon DEF CloseInv
    <2> QED
      BY <2>3, <2>4, Zenon
  <1>6. CASE RecvControlTimeout \/ RunClose
    <2>1. /\ CloseStart("recv") /\ rcv'.pc = "close" /\ UNCHANGED <<tpc, sid, handles, opened, streams, aborted>>
      BY <1>6 DEF RecvControlTimeout, RunClose, At
    <2>2. rcv.pc # "register"
      BY <1>0, <1>6, Zenon DEF RecvControlTimeout, RunClose, RecvSane, Control
    <2>3. CASE ~isClosed
      BY <2>1, <2>2, <2>3, <1>CloseInvBegins, Zenon
    <2>4. CASE isClosed
      BY <2>1, <2>4, <1>CloseInvGoesOn, Zenon DEF CloseStart, Live
    <2> QED
      BY <2>3, <2>4, ZenonT(30)
  <1>7. CASE RunEnd
    <2>1. rcv'.pc = "done" /\ UNCHANGED <<tpc, sid, handles, opened, streams, aborted, closer>>
      BY <1>7 DEF RunEnd, At
    <2> QED
      BY <2>1, <1>CloseInvGoesOn, ZenonT(30) DEF Live
  <1>8. CASE RecvStep /\ ~RunEnd /\ ~RunClose
    <2>1. closer' = closer
      BY <1>8, Zenon
      DEF RecvStep, RecvRead, RecvEnd, RecvPsh, RecvFin, RecvPush, RecvRegister, RecvSynOpen,
          RecvSynDuplicate, RecvSynBeforeSettings, RecvHeart, RecvSettings, RecvVersion,
          RecvFatal, RecvIgnore, RecvControlDone, RecvControlFailed
    <2>2. rcv.pc \notin {"close", "done"}
      <3>1. CASE RecvControlDone \/ RecvControlFailed
        BY <1>0, <3>1, Zenon DEF RecvControlDone, RecvControlFailed, WriteOk, WriteErr,
           HasWriter,
                          RecvSane, Control
      <3>2. CASE ~(RecvControlDone \/ RecvControlFailed)
        BY <1>8, <3>2, Zenon
        DEF RecvStep, RecvRead, RecvEnd, RecvPsh, RecvFin, RecvPush, RecvRegister, RecvSynOpen,
            RecvSynDuplicate, RecvSynBeforeSettings, RecvHeart, RecvSettings, RecvVersion,
            RecvFatal, RecvIgnore, Decoding
      <3> QED
        BY <3>1, <3>2
    <2> QED
      BY <2>1, <2>2, Zenon DEF CloseInv
  <1> QED
    BY <1>1, <1>2, <1>3, <1>4, <1>5, <1>6, <1>7, <1>8, StepKinds, ZenonT(30) DEF Aside,
       CloseStep

(* When run() has closed the session and returned, every handler that is still alive was  *)
(* told to abort, or its id was opened again and it has lost its last Sender              *)
(* (session.rs:140-161).                                                                  *)
THEOREM CloseAborts == Spec => []CloseAbortsAll
  <1>1. Init => SessionInv /\ CloseInv
    BY SessionInvInit, CloseInvInit, Zenon
  <1>2. SessionInv /\ CloseInv /\ [Next]_vars => SessionInv' /\ CloseInv'
    BY SessionInvNext, CloseInvNext, Zenon
  <1> QED
    BY <1>1, <1>2, CloseInvImplies, PTL DEF Spec
==============================================================================
