--------------------------- MODULE AnyTlsSession ---------------------------
(***************************************************************************)
(* The server side of one AnyTLS session: many streams multiplexed over    *)
(* one TLS connection (src/src/anytls/session.rs) and the channel ends that *)
(* a stream handler holds (src/src/anytls/stream.rs).                       *)
(*                                                                         *)
(* Actors: "recv", the task running run() and recv_loop(); "out", the task  *)
(* running process_outgoing(); and one task per accepted SYN, running       *)
(* handle_new_stream().  Each action is what one actor does between two     *)
(* points where it may be suspended (an await that can be pending).         *)
(*                                                                         *)
(* Frames are atomic here and a payload is the position of its PSH frame    *)
(* among the PSH frames the client sent on that stream id; SYN frames are    *)
(* numbered alike.  The destination address is the first payload of a        *)
(* stream.  Time is not modelled: a timeout may fire whenever the operation  *)
(* it guards is unfinished.                                                  *)
(***************************************************************************)
EXTENDS Naturals, Sequences

CONSTANTS
    StreamIds,     \* stream ids the client uses
    Tasks,         \* identities for stream handler tasks, one per accepted SYN
    None,          \* absent map entry, no task, no stream
    ChanCap,       \* capacity of a stream's data channel (STREAM_CHANNEL_BUFFER)
    OutCap,        \* capacity of the outgoing channel (STREAM_CHANNEL_BUFFER * 4)
    ClientFrames,  \* the frames the client chooses from
    InitialData,   \* possible frame sequences left over from authentication
    MaxFrames,     \* bound: frames the client sends
    MaxOpens,      \* bound: SYN frames the client sends for one id
    MaxReplies,    \* bound: payloads a destination sends on one stream
    Stalls,        \* may the client stop reading for CONTROL_FRAME_TIMEOUT ?
    Breaks         \* may the connection fail ?

ASSUME ActorsDiffer == /\ "recv" \notin Tasks /\ "out" \notin Tasks
                       /\ None \notin Tasks /\ None \notin {"recv", "out"}
                       /\ None \notin StreamIds
ASSUME Capacities == ChanCap \in Nat \ {0} /\ OutCap \in Nat \ {0}
ASSUME Bounds == MaxFrames \in Nat /\ MaxOpens \in Nat /\ MaxReplies \in Nat
ASSUME Switches == Stalls \in BOOLEAN /\ Breaks \in BOOLEAN

Actors == Tasks \cup {"recv", "out"}

(* Frames the server tells apart.  "SettingsPad" is a Settings frame whose   *)
(* padding-md5 differs from the server's, "Other" any frame handle_frame     *)
(* ignores, "Bad" an undecodable header.  arg is the payload of a PSH, the    *)
(* number of a SYN and the peer version of a Settings frame (0 when below 2   *)
(* or absent).                                                               *)
Commands == {"Syn", "Psh", "Fin", "Settings", "SettingsPad", "Heart",
             "Alert", "Bad", "Other"}
Frame == [cmd : Commands, id : StreamIds, arg : Nat]

ASSUME FramesAssumption == /\ ClientFrames \subseteq Frame
                           /\ InitialData \subseteq Seq(Frame)

(* The numbers of d's frames of one kind and stream id, and how many those are in   *)
(* all that a client has sent.                                                      *)
IsFrame(f, cmd, i) == f.cmd = cmd /\ f.id = i
Numbers(d, cmd, i) == {d[k].arg : k \in {j \in 1 .. Len(d) : IsFrame(d[j], cmd, i)}}
Count(d, cmd, i) == CHOOSE c \in 0 .. Len(d) : Numbers(d, cmd, i) = 1 .. c

(* What authentication read ahead is the beginning of what the client sends: its    *)
(* SYN and PSH frames are numbered from 1 on, in their order.                       *)
ASSUME NumberedAssumption ==
    \A d \in InitialData, cmd \in {"Syn", "Psh"}, i \in StreamIds :
        /\ \E c \in 0 .. Len(d) : Numbers(d, cmd, i) = 1 .. c
        /\ \A j, k \in 1 .. Len(d) :
               j < k /\ IsFrame(d[j], cmd, i) /\ IsFrame(d[k], cmd, i) => d[j].arg < d[k].arg

VARIABLES
    net, hungup,          \* frames in flight to the server; client closed its side
    sent, opened, pushed, \* frames sent; SYN and PSH frames sent per id
    buf, rcv,             \* decoded frames in recv_loop's buffer; its control state
    streams, handles,     \* the maps streams and stream_tasks
    settings, version,    \* received_client_settings, peer_version
    isClosed, closer,     \* is_closed; who runs close() and how far it is
    tpc, sid,             \* control state and stream id of each task
    chan, got, eof, shut, \* data channel; last payload read; eof; stream_closed
    replies, aborted,     \* payloads the destination sent; tasks told to abort
    out, opc, cur,        \* outgoing channel; process_outgoing and its item
    wst, link,            \* progress of each write_frame; state of the connection
    wire, announced,      \* stream frames on the wire; ServerSettings is on it
    cut, lostFin          \* a frame was truncated; FINs dropped

client == <<net, hungup, sent, opened, pushed>>
recvs  == <<buf, rcv>>
maps   == <<streams, handles>>
nego   == <<settings, version, announced>>
closing == <<isClosed, closer, aborted>>
task   == <<tpc, sid, got, eof, shut, replies, chan, lostFin>>
outq   == <<out, opc, cur>>
conn   == <<wst, link, wire, cut>>
vars   == <<client, recvs, maps, nego, closing, task, outq, conn>>

Eof == 0                                  \* the empty Bytes that ends a stream
Fin(t) == [task |-> t, fin |-> TRUE]      \* an empty payload on the outgoing channel
Data(t) == [task |-> t, fin |-> FALSE]

RecvPcs == {"decode", "push", "register", "pad", "version", "settings", "heart",
            "alert", "close", "done"}
TaskPcs == {"none", "addr", "dial", "synackOk", "synackErr", "closingOk",
            "closingErr", "copy", "shut", "shutWait", "exit", "done"}
At(pc) == [pc |-> pc, task |-> None, arg |-> 0]

Init ==
    /\ buf \in InitialData /\ rcv = At("decode")
    /\ net = <<>> /\ hungup = FALSE /\ sent = Len(buf)
    /\ opened = [i \in StreamIds |-> Count(buf, "Syn", i)]
    /\ pushed = [i \in StreamIds |-> Count(buf, "Psh", i)]
    /\ streams = [i \in StreamIds |-> None]
    /\ handles = [i \in StreamIds |-> None]
    /\ settings = FALSE /\ version = 0 /\ announced = FALSE
    /\ isClosed = FALSE /\ closer = [who |-> None, step |-> "none"]
    /\ aborted = {} /\ lostFin = {}
    /\ tpc = [t \in Tasks |-> "none"]
    /\ sid = [t \in Tasks |-> None]
    /\ got = [t \in Tasks |-> 0]
    /\ eof = [t \in Tasks |-> FALSE] /\ shut = [t \in Tasks |-> FALSE]
    /\ replies = [t \in Tasks |-> 0] /\ chan = [t \in Tasks |-> <<>>]
    /\ out = <<>> /\ opc = "recv" /\ cur = Fin(None)
    /\ wst = [a \in Actors |-> "idle"] /\ link = "open"
    /\ wire = [t \in Tasks |-> <<>>] /\ cut = FALSE

(***************************************************************************)
(* The client and the network.                                             *)
(***************************************************************************)
(* A SYN or PSH carries its position among those of its id. *)
Stamp(f) == CASE f.cmd = "Syn" -> [f EXCEPT !.arg = opened[f.id] + 1]
              [] f.cmd = "Psh" -> [f EXCEPT !.arg = pushed[f.id] + 1]
              [] OTHER         -> f

ClientSend(f) ==
    /\ ~hungup /\ link # "down" /\ sent < MaxFrames
    /\ f.cmd = "Syn" => opened[f.id] < MaxOpens
    /\ net' = Append(net, Stamp(f))
    /\ sent' = sent + 1
    /\ opened' = [opened EXCEPT ![f.id] = IF f.cmd = "Syn" THEN @ + 1 ELSE @]
    /\ pushed' = [pushed EXCEPT ![f.id] = IF f.cmd = "Psh" THEN @ + 1 ELSE @]
    /\ UNCHANGED <<hungup, recvs, maps, nego, closing, task, outq, conn>>

ClientHangup ==
    /\ ~hungup
    /\ hungup' = TRUE
    /\ UNCHANGED <<net, sent, opened, pushed, recvs, maps, nego, closing, task, outq, conn>>

LinkDown ==
    /\ Breaks /\ link # "down"
    /\ link' = "down"
    /\ UNCHANGED <<client, recvs, maps, nego, closing, task, outq, wst, wire, cut>>

(***************************************************************************)
(* Shared pieces.                                                          *)
(***************************************************************************)
(* close() keeps the write lock of streams while it shuts the writer down. *)
StreamsFree == closer.step # "shutdown"

(* The handler has returned or was cancelled, so its receiver is dropped. *)
Gone(t) == tpc[t] \in {"exit", "done"}
Live(t) == tpc[t] \notin {"none", "exit", "done"}
MayRun(t) == t \notin aborted

(* Some Sender of t's data channel exists: in the map or cloned by recv_loop. *)
TxAlive(t) == (\E i \in StreamIds : streams[i] = t) \/ (rcv.pc = "push" /\ rcv.task = t)

(* compare_exchange in close(): one caller wins and runs the body. *)
CloseStart(a) ==
    /\ isClosed' = TRUE
    /\ closer' = IF isClosed THEN closer ELSE [who |-> a, step |-> "tasks"]

(* Drop of the AnyTlsStream: a FIN unless stream_closed, lost if out is full. *)
DropStream(t) ==
    /\ shut' = [shut EXCEPT ![t] = TRUE]
    /\ chan' = [chan EXCEPT ![t] = <<>>]
    /\ out' = IF ~shut[t] /\ Len(out) < OutCap THEN Append(out, Fin(t)) ELSE out
    /\ lostFin' = IF ~shut[t] /\ Len(out) >= OutCap THEN lostFin \cup {t} ELSE lostFin

(***************************************************************************)
(* write_frame.  write_buf is locked for the whole call, so at most one      *)
(* actor is in "write"; the writer itself may also be held by close().       *)
(***************************************************************************)
LockWriteBuf(a) ==
    /\ wst[a] = "lock" /\ MayRun(a)
    /\ \A b \in Actors : wst[b] # "write"
    /\ wst' = [wst EXCEPT ![a] = "write"]
    /\ UNCHANGED <<client, recvs, maps, nego, closing, task, outq, link, wire, cut>>

HasWriter(a) == wst[a] = "write" /\ closer.step # "shutdown"

(* write_all and flush succeed: the frame is on the wire, after whatever is. *)
WriteOk(a) ==
    /\ HasWriter(a) /\ link = "open"
    /\ wst' = [wst EXCEPT ![a] = "idle"]
    /\ UNCHANGED <<link, cut>>

WriteErr(a) ==
    /\ HasWriter(a) /\ link # "open"
    /\ wst' = [wst EXCEPT ![a] = "idle"]
    /\ UNCHANGED <<link, cut, wire>>

(* The future running write_frame is dropped: locks are released and the     *)
(* part of the frame already accepted by the connection stays on the wire.   *)
DropWrite(a) ==
    /\ wst' = [wst EXCEPT ![a] = "idle"]
    /\ cut' \in (IF HasWriter(a) /\ link = "open" THEN {cut, TRUE} ELSE {cut})
    /\ UNCHANGED <<link, wire>>

(***************************************************************************)
(* recv_loop and handle_frame.                                             *)
(***************************************************************************)
(* Next frame to decode, and the state after handling it without waiting. *)
Decoding(cmds) == rcv.pc = "decode" /\ buf # <<>> /\ Head(buf).cmd \in cmds
NextFrame == buf' = Tail(buf)

(* The read returns some bytes; the loop then tests is_closed once. *)
RecvRead(k) ==
    /\ rcv.pc = "decode" /\ buf = <<>> /\ link # "down"
    /\ buf' = IF isClosed THEN buf ELSE SubSeq(net, 1, k)
    /\ net' = SubSeq(net, k + 1, Len(net))
    /\ rcv' = IF isClosed THEN At("close") ELSE rcv
    /\ UNCHANGED <<hungup, sent, opened, pushed, maps, nego, closing, task, outq, conn>>

(* read_buf returns 0 or an error. *)
RecvEnd ==
    /\ rcv.pc = "decode" /\ buf = <<>>
    /\ link = "down" \/ (hungup /\ net = <<>>)
    /\ rcv' = At("close")
    /\ UNCHANGED <<client, buf, maps, nego, closing, task, outq, conn>>

(* PSH: clone the Sender under the read lock, drop data of unknown streams. *)
RecvPsh ==
    /\ Decoding({"Psh"}) /\ StreamsFree
    /\ NextFrame
    /\ LET t == streams[Head(buf).id]
       IN  rcv' = IF t = None THEN rcv
                  ELSE [pc |-> "push", task |-> t, arg |-> Head(buf).arg]
    /\ UNCHANGED <<client, maps, nego, closing, task, outq, conn>>

(* FIN: remove the entry, then send the empty payload that means EOF. *)
RecvFin ==
    /\ Decoding({"Fin"}) /\ StreamsFree
    /\ NextFrame
    /\ LET t == streams[Head(buf).id]
       IN  rcv' = IF t = None THEN rcv ELSE [pc |-> "push", task |-> t, arg |-> Eof]
    /\ streams' = [streams EXCEPT ![Head(buf).id] = None]
    /\ UNCHANGED <<client, handles, nego, closing, task, outq, conn>>

HasRoom(t) == Len(chan[t]) < ChanCap

(* Mutant: try_send instead of send, losing the payload when there is no room. *)
RecvPushTry ==
    /\ rcv.pc = "push"
    /\ chan' = IF Gone(rcv.task) \/ ~HasRoom(rcv.task) THEN chan
               ELSE [chan EXCEPT ![rcv.task] = Append(@, rcv.arg)]
    /\ rcv' = At("decode")
    /\ UNCHANGED <<client, buf, maps, nego, closing, tpc, sid, got, eof, shut,
                   replies, lostFin, outq, conn>>

(* tx.send(..).await: waits for capacity, fails once the receiver is gone. *)
RecvPush ==
    /\ rcv.pc = "push"
    /\ Gone(rcv.task) \/ HasRoom(rcv.task)
    /\ chan' = IF Gone(rcv.task) THEN chan
               ELSE [chan EXCEPT ![rcv.task] = Append(@, rcv.arg)]
    /\ rcv' = At("decode")
    /\ UNCHANGED <<client, buf, maps, nego, closing, tpc, sid, got, eof, shut,
                   replies, lostFin, outq, conn>>

(* SYN for an id with no entry: create the channel, publish the Sender and   *)
(* spawn the handler, which may run before its handle is registered.         *)
RecvSynOpen(t) ==
    /\ Decoding({"Syn"}) /\ settings /\ StreamsFree
    /\ streams[Head(buf).id] = None
    /\ tpc[t] = "none"
    /\ NextFrame
    /\ streams' = [streams EXCEPT ![Head(buf).id] = t]
    /\ sid' = [sid EXCEPT ![t] = Head(buf).id]
    /\ tpc' = [tpc EXCEPT ![t] = "addr"]
    /\ rcv' = [pc |-> "register", task |-> t, arg |-> 0]
    /\ UNCHANGED <<client, handles, nego, closing, got, eof, shut, replies, chan,
                   lostFin, outq, conn>>

(* stream_tasks.lock().await, then insert: replaces an older handle. *)
RecvRegister ==
    /\ rcv.pc = "register"
    /\ handles' = [handles EXCEPT ![sid[rcv.task]] = rcv.task]
    /\ rcv' = At("decode")
    /\ UNCHANGED <<client, buf, streams, nego, closing, task, outq, conn>>

RecvSynDuplicate ==
    /\ Decoding({"Syn"}) /\ settings /\ StreamsFree
    /\ streams[Head(buf).id] # None
    /\ NextFrame
    /\ UNCHANGED <<client, rcv, maps, nego, closing, task, outq, conn>>

(* Frames answered with a control frame: recv_loop waits for write_frame. *)
StartControl(pc, v) ==
    /\ rcv' = [pc |-> pc, task |-> None, arg |-> v]
    /\ wst' = [wst EXCEPT !["recv"] = "lock"]
    /\ UNCHANGED <<link, wire, cut>>

RecvSynBeforeSettings ==
    /\ Decoding({"Syn"}) /\ ~settings
    /\ NextFrame
    /\ StartControl("alert", 0)
    /\ UNCHANGED <<client, maps, nego, closing, task, outq>>

RecvHeart ==
    /\ Decoding({"Heart"})
    /\ NextFrame
    /\ StartControl("heart", 0)
    /\ UNCHANGED <<client, maps, nego, closing, task, outq>>

RecvSettings ==
    /\ Decoding({"Settings", "SettingsPad"})
    /\ NextFrame
    /\ settings' = TRUE
    /\ \/ /\ Head(buf).cmd = "SettingsPad"
          /\ StartControl("pad", Head(buf).arg)
       \/ /\ Head(buf).cmd = "Settings"
          /\ rcv' = [pc |-> "version", task |-> None, arg |-> Head(buf).arg]
          /\ UNCHANGED conn
    /\ UNCHANGED <<client, maps, version, announced, closing, task, outq>>

(* Mutant: the version is stored but not answered with ServerSettings. *)
RecvVersionSilent ==
    /\ rcv.pc = "version"
    /\ version' = IF rcv.arg >= 2 THEN rcv.arg ELSE version
    /\ rcv' = At("decode")
    /\ UNCHANGED <<client, buf, maps, settings, announced, closing, task, outq, conn>>

(* The version part of the Settings handler: store it, then ServerSettings. *)
RecvVersion ==
    /\ rcv.pc = "version"
    /\ \/ /\ rcv.arg >= 2
          /\ version' = rcv.arg
          /\ StartControl("settings", 0)
       \/ /\ rcv.arg < 2
          /\ rcv' = At("decode")
          /\ UNCHANGED <<version, conn>>
    /\ UNCHANGED <<client, buf, maps, settings, announced, closing, task, outq>>

(* An alert or an undecodable header ends recv_loop with an error. *)
RecvFatal ==
    /\ Decoding({"Alert", "Bad"})
    /\ NextFrame
    /\ rcv' = At("close")
    /\ UNCHANGED <<client, maps, nego, closing, task, outq, conn>>

RecvIgnore ==
    /\ Decoding({"Other"})
    /\ NextFrame
    /\ UNCHANGED <<client, rcv, maps, nego, closing, task, outq, conn>>

(* The control frame is written.  After UpdatePaddingScheme the Settings      *)
(* handler goes on to the version; after the alert it returns an error.       *)
AfterControl == CASE rcv.pc = "pad"   -> [rcv EXCEPT !.pc = "version"]
                  [] rcv.pc = "alert" -> At("close")
                  [] OTHER            -> At("decode")

RecvControlDone ==
    /\ WriteOk("recv")
    /\ rcv' = AfterControl
    /\ announced' = (announced \/ rcv.pc = "settings")
    /\ UNCHANGED <<client, buf, maps, settings, version, closing, task, outq, wire>>

RecvControlFailed ==
    /\ WriteErr("recv")
    /\ rcv' = At("close")
    /\ UNCHANGED <<client, buf, maps, nego, closing, task, outq>>

(* write_control_frame times out: the write is dropped, the session closed,   *)
(* and the error ends recv_loop.                                              *)
RecvControlTimeout ==
    /\ Stalls /\ wst["recv"] # "idle"
    /\ DropWrite("recv")
    /\ CloseStart("recv")
    /\ rcv' = At("close")
    /\ UNCHANGED <<client, buf, maps, nego, aborted, task, outq>>

(***************************************************************************)
(* run() after recv_loop returned, and close().                            *)
(***************************************************************************)
RunClose ==
    /\ rcv.pc = "close" /\ ~isClosed
    /\ CloseStart("recv")
    /\ UNCHANGED <<client, recvs, maps, nego, aborted, task, outq, conn>>

(* close() returned (at once when another caller won): abort the outgoing task. *)
RunEnd ==
    /\ rcv.pc = "close" /\ isClosed
    /\ closer.who = "recv" => closer.step = "over"
    /\ rcv' = At("done")
    /\ opc' = "done"
    /\ DropWrite("out")
    /\ UNCHANGED <<client, buf, maps, nego, closing, task, out, cur>>

(* Mutant: the handles are drained but not aborted. *)
CloseTasksNoAbort ==
    /\ closer.step = "tasks"
    /\ handles' = [i \in StreamIds |-> None]
    /\ closer' = [closer EXCEPT !.step = "streams"]
    /\ UNCHANGED <<client, recvs, streams, nego, isClosed, aborted, task, outq, conn>>

CloseTasks ==
    /\ closer.step = "tasks"
    /\ aborted' = aborted \cup ({handles[i] : i \in StreamIds} \ {None})
    /\ handles' = [i \in StreamIds |-> None]
    /\ closer' = [closer EXCEPT !.step = "streams"]
    /\ UNCHANGED <<client, recvs, streams, nego, isClosed, task, outq, conn>>

(* streams.clear(), then try_lock on the writer: skipped while a frame is      *)
(* being written.                                                             *)
CloseStreams ==
    /\ closer.step = "streams"
    /\ streams' = [i \in StreamIds |-> None]
    /\ closer' = [closer EXCEPT !.step =
                      IF \E a \in Actors : wst[a] = "write" THEN "over" ELSE "shutdown"]
    /\ UNCHANGED <<client, recvs, handles, nego, isClosed, aborted, task, outq, conn>>

CloseWriter ==
    /\ closer.step = "shutdown"
    /\ link' = IF link = "open" THEN "shut" ELSE link
    /\ closer' = [closer EXCEPT !.step = "over"]
    /\ UNCHANGED <<client, recvs, maps, nego, isClosed, aborted, task, outq,
                   wst, wire, cut>>

(***************************************************************************)
(* Stream handler tasks: handle_new_stream and the AnyTlsStream it owns.    *)
(***************************************************************************)
Goto(t, pc) == tpc' = [tpc EXCEPT ![t] = pc]

(* handle_new_stream returns: the stream is dropped. *)
Leave(t) ==
    /\ DropStream(t)
    /\ Goto(t, "exit")

(* poll_read on the data channel: a payload, or EOF when the empty payload     *)
(* arrives or no Sender is left.                                              *)
ReadData(t) ==
    /\ chan[t] # <<>> /\ Head(chan[t]) # Eof
    /\ got' = [got EXCEPT ![t] = Head(chan[t])]
    /\ chan' = [chan EXCEPT ![t] = Tail(@)]
ReadsEof(t) == IF chan[t] = <<>> THEN ~TxAlive(t) ELSE Head(chan[t]) = Eof

TaskAddress(t) ==
    /\ tpc[t] = "addr" /\ MayRun(t)
    /\ ReadData(t)
    /\ Goto(t, "dial")
    /\ UNCHANGED <<client, recvs, maps, nego, closing, sid, eof, shut, replies,
                   lostFin, outq, conn>>

(* The stream ends before its address, or UDP-over-TCP is refused: no SYNACK. *)
TaskRefuse(t) ==
    /\ MayRun(t)
    /\ (tpc[t] = "addr" /\ ReadsEof(t)) \/ tpc[t] = "dial"
    /\ Leave(t)
    /\ UNCHANGED <<client, recvs, maps, nego, closing, sid, got, eof, replies,
                   opc, cur, conn>>

(* Where the handler goes once send_synack returned, whatever its result. *)
AfterSynAck(t, ok) ==
    \/ /\ ok
       /\ Goto(t, "copy")
       /\ UNCHANGED <<shut, chan, out, lostFin>>
    \/ /\ ~ok
       /\ Leave(t)

(* Connecting succeeds, fails or times out; send_synack is a no-op for v1. *)
TaskDial(t, ok) ==
    /\ tpc[t] = "dial" /\ MayRun(t)
    /\ \/ /\ version < 2
          /\ AfterSynAck(t, ok)
          /\ UNCHANGED conn
       \/ /\ version >= 2
          /\ Goto(t, IF ok THEN "synackOk" ELSE "synackErr")
          /\ wst' = [wst EXCEPT ![t] = "lock"]
          /\ UNCHANGED <<shut, chan, out, lostFin, link, wire, cut>>
    /\ UNCHANGED <<client, recvs, maps, nego, closing, sid, got, eof, replies,
                   opc, cur>>

TaskSynAck(t) ==
    /\ tpc[t] \in {"synackOk", "synackErr"} /\ MayRun(t)
    /\ \/ WriteOk(t) /\ wire' = [wire EXCEPT ![t] = Append(@, "SynAck")]
       \/ WriteErr(t)
    /\ AfterSynAck(t, tpc[t] = "synackOk")
    /\ UNCHANGED <<client, recvs, maps, nego, closing, sid, got, eof, replies,
                   opc, cur>>

(* Mutant: the timeout only gives the SYNACK up. *)
TaskSynAckTimeoutGoesOn(t) ==
    /\ Stalls
    /\ tpc[t] \in {"synackOk", "synackErr"} /\ MayRun(t)
    /\ DropWrite(t)
    /\ Goto(t, IF tpc[t] = "synackOk" THEN "closingOk" ELSE "closingErr")
    /\ UNCHANGED <<client, recvs, maps, nego, closing, sid, got, eof, shut, chan,
                   replies, lostFin, outq>>

(* The SYNACK times out: close() runs inside the handler if it wins. *)
TaskSynAckTimeout(t) ==
    /\ Stalls
    /\ tpc[t] \in {"synackOk", "synackErr"} /\ MayRun(t)
    /\ DropWrite(t)
    /\ CloseStart(t)
    /\ Goto(t, IF tpc[t] = "synackOk" THEN "closingOk" ELSE "closingErr")
    /\ UNCHANGED <<client, recvs, maps, nego, aborted, sid, got, eof, shut, chan,
                   replies, lostFin, outq>>

(* close() returned in the handler; the error of send_synack is ignored. *)
TaskClosed(t) ==
    /\ tpc[t] \in {"closingOk", "closingErr"} /\ MayRun(t)
    /\ closer.who = t => closer.step = "over"
    /\ AfterSynAck(t, tpc[t] = "closingOk")
    /\ UNCHANGED <<client, recvs, maps, nego, closing, sid, got, eof, replies,
                   opc, cur, conn>>

(* copy_bidirectional, client to destination: a payload reaches the destination. *)
TaskUpload(t) ==
    /\ tpc[t] = "copy" /\ ~eof[t] /\ ~shut[t] /\ MayRun(t)
    /\ ReadData(t)
    /\ UNCHANGED <<client, recvs, maps, nego, closing, tpc, sid, eof, shut, replies,
                   lostFin, outq, conn>>

TaskUploadEof(t) ==
    /\ tpc[t] = "copy" /\ ~eof[t] /\ ~shut[t] /\ MayRun(t)
    /\ ReadsEof(t)
    /\ eof' = [eof EXCEPT ![t] = TRUE]
    /\ chan' = [chan EXCEPT ![t] = <<>>]
    /\ UNCHANGED <<client, recvs, maps, nego, closing, tpc, sid, got, shut, replies,
                   lostFin, outq, conn>>

(* Mutant: a payload that waits does not wake the task. *)
TaskUploadBrokenLate(t) ==
    /\ tpc[t] = "copy" /\ ~eof[t] /\ shut[t] /\ MayRun(t)
    /\ ~TxAlive(t)
    /\ Goto(t, "shut")
    /\ UNCHANGED <<client, recvs, maps, nego, closing, sid, got, eof, shut, chan,
                   replies, lostFin, outq, conn>>

(* Once stream_closed is set, the next poll_read fails with BrokenPipe; the    *)
(* task is woken by a payload or by the loss of the last Sender.              *)
TaskUploadBroken(t) ==
    /\ tpc[t] = "copy" /\ ~eof[t] /\ shut[t] /\ MayRun(t)
    /\ chan[t] # <<>> \/ ~TxAlive(t)
    /\ Goto(t, "shut")
    /\ UNCHANGED <<client, recvs, maps, nego, closing, sid, got, eof, shut, chan,
                   replies, lostFin, outq, conn>>

(* Destination to client: poll_write queues a payload, or fails once closed. *)
TaskReply(t) ==
    /\ tpc[t] = "copy" /\ ~shut[t] /\ MayRun(t) /\ replies[t] < MaxReplies
    /\ isClosed \/ Len(out) < OutCap
    /\ replies' = [replies EXCEPT ![t] = @ + 1]
    /\ out' = IF isClosed THEN out ELSE Append(out, Data(t))
    /\ tpc' = IF isClosed THEN [tpc EXCEPT ![t] = "shut"] ELSE tpc
    /\ UNCHANGED <<client, recvs, maps, nego, closing, sid, got, eof, shut, chan,
                   lostFin, opc, cur, conn>>

(* The destination's EOF: poll_shutdown queues the FIN and sets stream_closed. *)
TaskDestEof(t) ==
    /\ tpc[t] = "copy" /\ ~shut[t] /\ MayRun(t)
    /\ isClosed \/ Len(out) < OutCap
    /\ shut' = [shut EXCEPT ![t] = TRUE]
    /\ out' = IF isClosed THEN out ELSE Append(out, Fin(t))
    /\ tpc' = IF eof[t] THEN [tpc EXCEPT ![t] = "shut"] ELSE tpc
    /\ UNCHANGED <<client, recvs, maps, nego, closing, sid, got, eof, chan, replies,
                   lostFin, opc, cur, conn>>

(* The relay ends by itself: an I/O error of the destination, or a UDP relay,  *)
(* which stops with the first of its two directions.                          *)
TaskRelayEnds(t) ==
    /\ tpc[t] = "copy" /\ MayRun(t)
    /\ Goto(t, "shut")
    /\ UNCHANGED <<client, recvs, maps, nego, closing, sid, got, eof, shut, chan,
                   replies, lostFin, outq, conn>>

(* Mutant: a stream that copy_bidirectional has shut down is shut down again. *)
TaskShutdownTwice(t) ==
    /\ MayRun(t)
    /\ tpc[t] \in {"shut", "shutWait"} /\ (isClosed \/ Len(out) < OutCap)
    /\ out' = IF isClosed THEN out ELSE Append(out, Fin(t))
    /\ shut' = [shut EXCEPT ![t] = TRUE]
    /\ chan' = [chan EXCEPT ![t] = <<>>]
    /\ Goto(t, "exit")
    /\ UNCHANGED <<client, recvs, maps, nego, closing, sid, got, eof, replies,
                   lostFin, opc, cur, conn>>

(* stream.shutdown().await, then the handler returns.  A pending poll_shutdown *)
(* is only woken by capacity in the outgoing channel.                          *)
TaskShutdown(t) ==
    /\ MayRun(t)
    /\ \/ tpc[t] = "shut" /\ (shut[t] \/ isClosed)
       \/ tpc[t] \in {"shut", "shutWait"} /\ Len(out) < OutCap
    /\ out' = IF shut[t] \/ isClosed THEN out ELSE Append(out, Fin(t))
    /\ shut' = [shut EXCEPT ![t] = TRUE]
    /\ chan' = [chan EXCEPT ![t] = <<>>]
    /\ Goto(t, "exit")
    /\ UNCHANGED <<client, recvs, maps, nego, closing, sid, got, eof, replies,
                   lostFin, opc, cur, conn>>

TaskShutdownWait(t) ==
    /\ tpc[t] = "shut" /\ ~shut[t] /\ ~isClosed /\ MayRun(t)
    /\ Len(out) >= OutCap
    /\ Goto(t, "shutWait")
    /\ UNCHANGED <<client, recvs, maps, nego, closing, sid, got, eof, shut, chan,
                   replies, lostFin, outq, conn>>

(* Mutant: the finished task leaves its handle in the map. *)
TaskCleanupForgets(t) ==
    /\ tpc[t] = "exit" /\ MayRun(t)
    /\ Goto(t, "done")
    /\ UNCHANGED <<client, recvs, maps, nego, closing, sid, got, eof, shut, chan,
                   replies, lostFin, outq, conn>>

(* The spawned task's last step: remove whatever handle its id has. *)
TaskCleanup(t) ==
    /\ tpc[t] = "exit" /\ MayRun(t)
    /\ handles' = [handles EXCEPT ![sid[t]] = None]
    /\ Goto(t, "done")
    /\ UNCHANGED <<client, recvs, streams, nego, closing, sid, got, eof, shut, chan,
                   replies, lostFin, outq, conn>>

(* The closer waits at streams.write() only while another actor is using the    *)
(* map; the other awaits of a task can always be pending.                        *)
Suspended(t) ==
    closer.who = t /\ closer.step = "streams" =>
        (rcv.pc = "decode" /\ buf # <<>>) \/ opc = "remove"

(* An aborted task is dropped at the await where it is suspended, the one       *)
(* running close() included: its locks are released and its stream dropped.     *)
TaskCancel(t) ==
    /\ t \in aborted /\ tpc[t] # "done" /\ Suspended(t)
    /\ DropStream(t)
    /\ DropWrite(t)
    /\ Goto(t, "done")
    /\ closer' = IF closer.who = t THEN [closer EXCEPT !.step = "over"] ELSE closer
    /\ UNCHANGED <<client, recvs, maps, nego, isClosed, aborted, sid, got, eof,
                   replies, opc, cur>>

(***************************************************************************)
(* process_outgoing.                                                       *)
(***************************************************************************)
OutRecv ==
    /\ opc = "recv" /\ out # <<>>
    /\ out' = Tail(out)
    /\ cur' = Head(out)
    /\ opc' = IF isClosed THEN "done" ELSE "write"
    /\ wst' = IF isClosed THEN wst ELSE [wst EXCEPT !["out"] = "lock"]
    /\ UNCHANGED <<client, recvs, maps, nego, closing, task, link, wire, cut>>

(* A failed FIN is only logged; failed data ends the task, not the session. *)
OutWrite ==
    /\ opc = "write"
    /\ \/ /\ WriteOk("out")
          /\ wire' = [wire EXCEPT ![cur.task] =
                          Append(@, IF cur.fin THEN "Fin" ELSE "Psh")]
          /\ opc' = IF cur.fin THEN "remove" ELSE "recv"
       \/ /\ WriteErr("out")
          /\ opc' = IF cur.fin THEN "remove" ELSE "done"
    /\ UNCHANGED <<client, recvs, maps, nego, closing, task, out, cur>>

(* Mutant: the entry stays after the FIN. *)
OutRemoveForgets ==
    /\ opc = "remove" /\ StreamsFree
    /\ opc' = "recv"
    /\ UNCHANGED <<client, recvs, maps, nego, closing, task, out, cur, conn>>

(* After a FIN: remove whatever stream has that id now. *)
OutRemove ==
    /\ opc = "remove" /\ StreamsFree
    /\ streams' = [streams EXCEPT ![sid[cur.task]] = None]
    /\ opc' = "recv"
    /\ UNCHANGED <<client, recvs, handles, nego, closing, task, out, cur, conn>>

(***************************************************************************)
(* The specification.                                                      *)
(***************************************************************************)
ClientStep == (\E f \in ClientFrames : ClientSend(f)) \/ ClientHangup \/ LinkDown

RecvStep ==
    \/ \E k \in 1 .. Len(net) : RecvRead(k)
    \/ \E t \in Tasks : RecvSynOpen(t)
    \/ RecvEnd \/ RecvPsh \/ RecvFin \/ RecvPush \/ RecvRegister
    \/ RecvSynDuplicate \/ RecvSynBeforeSettings \/ RecvHeart \/ RecvSettings
    \/ RecvVersion \/ RecvFatal \/ RecvIgnore \/ RecvControlDone
    \/ RecvControlFailed \/ RunClose \/ RunEnd

CloseStep == CloseTasks \/ CloseStreams \/ CloseWriter

(* What the server does for stream t by itself. *)
TaskStep(t) ==
    \/ TaskAddress(t) \/ TaskRefuse(t) \/ (\E ok \in BOOLEAN : TaskDial(t, ok))
    \/ TaskSynAck(t) \/ TaskClosed(t) \/ TaskUpload(t) \/ TaskUploadEof(t)
    \/ TaskUploadBroken(t) \/ TaskShutdown(t) \/ TaskShutdownWait(t)
    \/ TaskCleanup(t) \/ TaskCancel(t)

(* What a destination or a stalled client makes happen. *)
DestStep(t) == TaskReply(t) \/ TaskDestEof(t) \/ TaskRelayEnds(t)
Timeout == RecvControlTimeout \/ \E t \in Tasks : TaskSynAckTimeout(t)

OutStep == OutRecv \/ OutWrite \/ OutRemove

Next ==
    \/ ClientStep \/ RecvStep \/ CloseStep \/ OutStep \/ Timeout
    \/ \E t \in Tasks : TaskStep(t) \/ DestStep(t)
    \/ \E a \in Actors : LockWriteBuf(a)

Spec == Init /\ [][Next]_vars

(* Every task the runtime can poll is polled; the write_buf mutex serves its    *)
(* waiters; while a client reads, writes complete; a connect ends within        *)
(* CONNECT_TIMEOUT; a destination that is not closed takes the data it gets.    *)
(* Clients and destinations need not send, close or fail.                       *)
Fairness ==
    /\ WF_vars(RecvStep) /\ WF_vars(CloseStep) /\ WF_vars(OutStep)
    /\ \A t \in Tasks : WF_vars(TaskStep(t))
    /\ \A a \in Actors : SF_vars(LockWriteBuf(a))

FairSpec == Spec /\ Fairness

(***************************************************************************)
(* Properties.                                                             *)
(***************************************************************************)
WriteStates == {"idle", "lock", "write"}
CloseSteps == {"none", "tasks", "streams", "shutdown", "over"}
Item == [task : Tasks, fin : BOOLEAN]

TypeClient ==
    /\ net \in Seq(Frame) /\ hungup \in BOOLEAN /\ sent \in Nat
    /\ opened \in [StreamIds -> Nat] /\ pushed \in [StreamIds -> Nat]
TypeRecv ==
    /\ buf \in Seq(Frame)
    /\ rcv \in [pc : RecvPcs, task : Tasks \cup {None}, arg : Nat]
TypeMaps ==
    /\ streams \in [StreamIds -> Tasks \cup {None}]
    /\ handles \in [StreamIds -> Tasks \cup {None}]
TypeNego == settings \in BOOLEAN /\ version \in Nat /\ announced \in BOOLEAN
TypeClosing ==
    /\ isClosed \in BOOLEAN
    /\ closer \in [who : Tasks \cup {"recv", None}, step : CloseSteps]
    /\ aborted \subseteq Tasks
TypeTask ==
    /\ tpc \in [Tasks -> TaskPcs] /\ sid \in [Tasks -> StreamIds \cup {None}]
    /\ got \in [Tasks -> Nat] /\ replies \in [Tasks -> Nat]
    /\ eof \in [Tasks -> BOOLEAN] /\ shut \in [Tasks -> BOOLEAN]
    /\ chan \in [Tasks -> Seq(Nat)] /\ \A t \in Tasks : Len(chan[t]) <= ChanCap
    /\ lostFin \subseteq Tasks
TypeOut ==
    /\ out \in Seq(Item) /\ Len(out) <= OutCap
    /\ opc \in {"recv", "write", "remove", "done"}
    /\ cur \in [task : Tasks \cup {None}, fin : BOOLEAN]
TypeConn ==
    /\ wst \in [Actors -> WriteStates] /\ link \in {"open", "shut", "down"}
    /\ wire \in [Tasks -> Seq({"SynAck", "Psh", "Fin"})]
    /\ cut \in BOOLEAN

(* Every variable stays within its domain, and the bounded channels never      *)
(* exceed the capacities they are created with (session.rs:107 and :291).      *)
TypeOK ==
    /\ TypeClient /\ TypeRecv /\ TypeMaps /\ TypeNego
    /\ TypeClosing /\ TypeTask /\ TypeOut /\ TypeConn

(* A stream handler sees the payloads of its id in the order the client sent    *)
(* them, without a gap and with nothing after the end, although recv_loop hands  *)
(* each one over with a blocking send while entries come and go (session.rs:     *)
(* 253-264, 328-337).                                                           *)
Seen(t) == IF got[t] = 0 THEN chan[t] ELSE <<got[t]>> \o chan[t]
InTurn(s) == \A k \in 1 .. Len(s) - 1 :
                 s[k] # Eof /\ (s[k + 1] = Eof \/ s[k + 1] = s[k] + 1)
UploadInOrder == \A t \in Tasks : InTurn(Seen(t))

(* On the wire a stream is at most one SYNACK, then data, then at most one FIN, *)
(* although the SYNACK is written by the handler and the rest goes through the   *)
(* outgoing channel, and although three places send the FIN (stream.rs:87, 203,  *)
(* 244; session.rs:194-208, 510-522).                                           *)
StreamFramesInOrder ==
    \A t \in Tasks : \A j, k \in 1 .. Len(wire[t]) :
        j < k => wire[t][j] # "Fin" /\ wire[t][k] # "SynAck"

(* While the session is open, stream_tasks holds exactly the handlers that can   *)
(* still be cancelled: a live handler is registered (unless recv_loop is just    *)
(* doing so), and no finished one is left behind, although the handle is         *)
(* inserted after the task was spawned (session.rs:309-324).  For ids that the    *)
(* client has opened once: the clean-up of an earlier handler of the same id may  *)
(* remove the handle of the next.                                                *)
HandlesMatchTasks ==
    ~isClosed =>
        \A t \in Tasks : sid[t] # None /\ opened[sid[t]] = 1 =>
            /\ Live(t) => handles[sid[t]] = t \/ rcv = [pc |-> "register", task |-> t, arg |-> 0]
            /\ tpc[t] = "done" => handles[sid[t]] # t

(* An entry of streams whose handler is gone is about to be removed: its FIN is  *)
(* queued or in the hands of process_outgoing.  The one exception is a FIN that  *)
(* Drop could not queue (stream.rs:86-91): that entry stays for the session.     *)
DeadEntriesHaveFin ==
    ~isClosed =>
        \A i \in StreamIds, t \in Tasks :
            streams[i] = t /\ Gone(t) =>
                \/ t \in lostFin
                \/ \E k \in 1 .. Len(out) : out[k] = Fin(t)
                \/ cur = Fin(t) /\ opc \in {"write", "remove"}

(* A SYNACK never overtakes the ServerSettings that tell the client SYNACKs are   *)
(* used, although peer_version is stored before that frame is written and the    *)
(* SYNACK is written by another task (session.rs:365-374, 510-522); for a client *)
(* that announces one version.                                                   *)
SettingsBeforeSynAck ==
    \A t \in Tasks : (\E k \in 1 .. Len(wire[t]) : wire[t][k] = "SynAck") => announced

(* Closing cancels the streams: when run() has closed the session and returned,  *)
(* every handler that is still alive was told to abort, or, if its id was opened  *)
(* again and its handle is gone, has lost its last Sender (session.rs:140-161).   *)
CloseAbortsAll ==
    rcv.pc = "done" /\ closer = [who |-> "recv", step |-> "over"] =>
        \A t \in Tasks : Live(t) =>
            t \in aborted \/ (opened[sid[t]] > 1 /\ ~TxAlive(t))

(* close() runs its body once, however many callers race (session.rs:141-145).   *)
CloseRunsOnce == [][closer.step = "over" => closer'.step = "over"]_vars

(* A frame given up part way, by a timeout or with an aborted task, is the end of  *)
(* the session: whatever follows it on the wire, the session is closed, so that    *)
(* process_outgoing takes no more data and recv_loop reads no more (session.rs:189, *)
(* 220, 525-539).                                                                  *)
CutFrameEndsSession == cut => isClosed

(* recv_loop never waits for ever to hand a payload to a stream: the lock on       *)
(* streams is not held meanwhile (session.rs:253-258), so handlers, FINs and       *)
(* process_outgoing make room, as long as the connection carries what is written. *)
HandoverCompletes == (rcv.pc = "push") ~> (rcv.pc # "push" \/ link = "down")

(* When the client hangs up, run() returns and every handler ends, whatever it was *)
(* waiting for, unless the connection failed under process_outgoing first          *)
(* (session.rs:169-183, 232-239).                                                  *)
HangupEndsSession ==
    hungup ~> (link = "down" \/ (rcv.pc = "done" /\ \A t \in Tasks : ~Live(t)))

(* A closed session ends: once is_closed is set, also by a handler whose control   *)
(* frame "timed out [...], closing session", run() returns (session.rs:525-539).   *)
ClosedSessionEnds == isClosed ~> (rcv.pc = "done")

=============================================================================
