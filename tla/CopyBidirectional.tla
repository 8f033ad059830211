-------------------------- MODULE CopyBidirectional --------------------------
(***************************************************************************)
(* copy_bidirectional between a client stream "a" and a destination stream    *)
(* "b" (src/src/copy_bidirectional.rs:159-299).  Each direction's CopyBuffer  *)
(* is used through what it promises, ByteChannel: bytes are taken, given, and *)
(* it finishes when the source has ended and nothing is held; in order, so    *)
(* counts are enough.  The client stream is an AnyTlsStream                   *)
(* (src/src/anytls/stream.rs) or a plain one (a QuicStream, a TcpStream),     *)
(* which differ in what they do once they are shut down or their peer is gone.*)
(*                                                                         *)
(* A peer that moves while a direction is polled is taken to move before or   *)
(* after that poll; every move of a peer fires the wakers.  poll_flush is     *)
(* immediate on every stream of the program.                                 *)
(***************************************************************************)
EXTENDS Naturals

CONSTANTS Kinds,     \* what the client stream may be: "anytls", "plain"
          Size,      \* bytes a direction may hold
          MaxBytes,  \* bound: bytes each peer sends
          MaxRoom    \* bound: bytes a stream accepts before it is pending

ASSUME KindsAssumption == Kinds \subseteq {"anytls", "plain"}
ASSUME SizesAssumption == Size \in Nat \ {0} /\ MaxBytes \in Nat /\ MaxRoom \in Nat \ {0}

Sides == {"a", "b"}
Directions == {"ab", "ba"}
Src(d) == IF d = "ab" THEN "a" ELSE "b"
Dst(d) == IF d = "ab" THEN "b" ELSE "a"

VARIABLES
    kind,        \* what the client stream is
    transfer,    \* TransferState of each direction
    turn,        \* what the future does next: a direction, the match, or wait
    polled,      \* what each direction returned in this poll
    result,      \* what the future returned
    readDone,    \* directions that have read EOF
    taken,       \* bytes each direction has read
    given,       \* bytes each direction has written
    shut,        \* streams whose poll_shutdown has completed
    sent,        \* bytes each peer has sent
    closed,      \* peers that have ended their sending
    broken,      \* streams whose connection is gone
    room,        \* bytes each stream accepts now
    woken        \* a waker of the future has fired

relay == <<transfer, turn, polled, result, readDone, taken, given, shut>>
peers == <<kind, sent, closed, broken, room, woken>>
vars == <<relay, peers>>

Init ==
    /\ kind \in Kinds
    /\ transfer = [d \in Directions |-> "Running"]
    /\ turn = "ab" /\ polled = [d \in Directions |-> "none"] /\ result = "none"
    /\ readDone = {}
    /\ taken = [d \in Directions |-> 0] /\ given = [d \in Directions |-> 0]
    /\ shut = {} /\ sent = [s \in Sides |-> 0] /\ closed = {} /\ broken = {}
    /\ room = [s \in Sides |-> MaxRoom] /\ woken = FALSE

Unread(d) == sent[Src(d)] - taken[d]
Held(d) == taken[d] - given[d]
IsAnyTls(s) == s = "a" /\ kind = "anytls"

(***************************************************************************)
(* The streams.  poll_read of an AnyTlsStream fails once it is shut down, and *)
(* reports the end of a closed session as EOF, after the queued data; a plain *)
(* stream fails only when its connection is gone.                             *)
(***************************************************************************)
ReadFails(s) == IF IsAnyTls(s) THEN s \in shut ELSE s \in broken
AtEof(d) == LET s == Src(d) IN
            Unread(d) = 0 /\ (s \in closed \/ (IsAnyTls(s) /\ s \in broken))
ShutsDown(s) == IF IsAnyTls(s) THEN s \in broken \/ room[s] > 0 ELSE s \notin broken

(***************************************************************************)
(* The peers.                                                              *)
(***************************************************************************)
PeerSends(s) ==
    /\ s \notin closed \cup broken /\ sent[s] < MaxBytes
    /\ sent' = [sent EXCEPT ![s] = @ + 1] /\ woken' = TRUE
    /\ UNCHANGED <<relay, kind, closed, broken, room>>

PeerCloses(s) ==
    /\ s \notin closed \cup broken
    /\ closed' = closed \cup {s} /\ woken' = TRUE
    /\ UNCHANGED <<relay, kind, sent, broken, room>>

PeerDrains(s) ==
    /\ s \notin broken /\ room[s] < MaxRoom
    /\ room' = [room EXCEPT ![s] = MaxRoom] /\ woken' = TRUE
    /\ UNCHANGED <<relay, kind, sent, closed, broken>>

PeerBreaks(s) ==
    /\ s \notin broken
    /\ broken' = broken \cup {s} /\ woken' = TRUE
    /\ UNCHANGED <<relay, kind, sent, closed, room>>

(***************************************************************************)
(* transfer_one_direction.                                                 *)
(***************************************************************************)
Running(d) == turn = d /\ transfer[d] = "Running"
Reads(d) == Running(d) /\ d \notin readDone /\ Held(d) < Size

Take(d) ==
    /\ Reads(d) /\ ~ReadFails(Src(d)) /\ Unread(d) > 0
    /\ taken' = [taken EXCEPT ![d] = @ + 1]
    /\ UNCHANGED <<transfer, turn, polled, result, readDone, given, shut, peers>>

ReadEof(d) ==
    /\ Reads(d) /\ ~ReadFails(Src(d)) /\ AtEof(d)
    /\ readDone' = readDone \cup {d}
    /\ UNCHANGED <<transfer, turn, polled, result, taken, given, shut, peers>>

Give(d) ==
    /\ Running(d) /\ Held(d) > 0 /\ Dst(d) \notin broken /\ room[Dst(d)] > 0
    /\ given' = [given EXCEPT ![d] = @ + 1]
    /\ room' = [room EXCEPT ![Dst(d)] = @ - 1]
    /\ UNCHANGED <<transfer, turn, polled, result, readDone, taken, shut, kind, sent, closed, broken, woken>>

(* Mutant: the end of the source is passed on although bytes are still held. *)
CopyDoneEarly(d) ==
    /\ Running(d) /\ d \in readDone
    /\ transfer' = [transfer EXCEPT ![d] = "ShuttingDown"]
    /\ UNCHANGED <<turn, polled, result, readDone, taken, given, shut, peers>>

(* poll_copy is done: EOF was read and nothing is held. *)
CopyDone(d) ==
    /\ Running(d) /\ d \in readDone /\ Held(d) = 0
    /\ transfer' = [transfer EXCEPT ![d] = "ShuttingDown"]
    /\ UNCHANGED <<turn, polled, result, readDone, taken, given, shut, peers>>

(* An AnyTlsStream queues a FIN frame, unless its session is closed. *)
Shutdown(d) ==
    /\ turn = d /\ transfer[d] = "ShuttingDown" /\ ShutsDown(Dst(d))
    /\ shut' = shut \cup {Dst(d)}
    /\ transfer' = [transfer EXCEPT ![d] = "Done"]
    /\ room' = IF IsAnyTls(Dst(d)) /\ Dst(d) \notin broken
               THEN [room EXCEPT ![Dst(d)] = @ - 1] ELSE room
    /\ UNCHANGED <<turn, polled, result, readDone, taken, given, kind, sent, closed, broken, woken>>

(* Mutant: once the first direction is done, the other one is not polled any more. *)
ReturnsSkips(d, r) ==
    /\ polled' = [polled EXCEPT ![d] = r]
    /\ turn' = IF d = "ab" /\ r # "ok" THEN "ba" ELSE "match"
    /\ UNCHANGED <<transfer, result, readDone, taken, given, shut, peers>>

Returns(d, r) ==
    /\ polled' = [polled EXCEPT ![d] = r]
    /\ turn' = IF d = "ab" THEN "ba" ELSE "match"
    /\ UNCHANGED <<transfer, result, readDone, taken, given, shut, peers>>

(* The direction returns Pending: it waits for bytes, for room, or for the FIN's  *)
(* place in the queue.                                                           *)
ReadWaits(d) == Reads(d) => ~ReadFails(Src(d)) /\ Unread(d) = 0 /\ ~AtEof(d)
WriteWaits(d) == Held(d) > 0 => Dst(d) \notin broken /\ room[Dst(d)] = 0

Waits(d) ==
    \/ Running(d) /\ ReadWaits(d) /\ WriteWaits(d) /\ ~(d \in readDone /\ Held(d) = 0)
    \/ /\ turn = d /\ transfer[d] = "ShuttingDown"
       /\ Dst(d) \notin broken /\ ~ShutsDown(Dst(d))

Fails(d) ==
    \/ Reads(d) /\ ReadFails(Src(d))
    \/ Running(d) /\ Held(d) > 0 /\ Dst(d) \in broken
    \/ /\ turn = d /\ transfer[d] = "ShuttingDown"
       /\ Dst(d) \in broken /\ ~ShutsDown(Dst(d))

DirectionPending(d) == Waits(d) /\ Returns(d, "pending")
DirectionFails(d) == Fails(d) /\ Returns(d, "err")

(* Mutant: a direction that is done is not reported again when the other one is polled. *)
DirectionDoneForgotten(d) == turn = d /\ transfer[d] = "Done" /\ Returns(d, "pending")
DirectionDone(d) == turn = d /\ transfer[d] = "Done" /\ Returns(d, "ok")

(* Mutant: the relay ends with the first direction that does. *)
MatchEither ==
    /\ turn = "match"
    /\ result' = IF \E d \in Directions : polled[d] = "err" THEN "err"
                 ELSE IF \E d \in Directions : polled[d] = "ok" THEN "ok" ELSE "none"
    /\ turn' = IF result' = "none" THEN "idle" ELSE "returned"
    /\ polled' = [d \in Directions |-> "none"]
    /\ UNCHANGED <<transfer, readDone, taken, given, shut, peers>>

(* An error of either direction ends both; success needs both. *)
Match ==
    /\ turn = "match"
    /\ result' = IF \E d \in Directions : polled[d] = "err" THEN "err"
                 ELSE IF \A d \in Directions : polled[d] = "ok" THEN "ok" ELSE "none"
    /\ turn' = IF result' = "none" THEN "idle" ELSE "returned"
    /\ polled' = [d \in Directions |-> "none"]
    /\ UNCHANGED <<transfer, readDone, taken, given, shut, peers>>

(* Pending: the future is polled again once a waker has fired. *)
Poll ==
    /\ turn = "idle" /\ woken
    /\ turn' = "ab" /\ woken' = FALSE
    /\ UNCHANGED <<transfer, polled, result, readDone, taken, given, shut, kind, sent, closed,
                   broken, room>>

PollStep ==
    \/ Match \/ Poll
    \/ \E d \in Directions :
          Take(d) \/ ReadEof(d) \/ Give(d) \/ CopyDone(d) \/ Shutdown(d)
          \/ DirectionPending(d) \/ DirectionFails(d) \/ DirectionDone(d)

PeerStep == \E s \in Sides : PeerSends(s) \/ PeerCloses(s) \/ PeerBreaks(s) \/ PeerDrains(s)

Next == PollStep \/ PeerStep

Spec == Init /\ [][Next]_vars

(* A woken task is polled, and a peer that is still there makes room. *)
FairSpec == Spec /\ WF_vars(PollStep) /\ \A s \in Sides : WF_vars(PeerDrains(s))

(***************************************************************************)
(* Properties.                                                             *)
(***************************************************************************)
(* A stream is shut down only after every byte that was received for it has been    *)
(* written to it (copy_bidirectional.rs:191-196).                                   *)
ShutAfterData == \A d \in Directions : Dst(d) \in shut => given[d] = sent[Src(d)]

(* When the relay reports success, both directions have carried everything and both *)
(* streams were shut down (copy_bidirectional.rs:236-239).                          *)
OkIsComplete ==
    result = "ok" => \A d \in Directions : given[d] = sent[Src(d)] /\ Dst(d) \in shut

(* The doc of copy_bidirectional: after EOF on one stream, "copying in the other    *)
(* direction continues" (copy_bidirectional.rs:244-246).  So an error is only       *)
(* returned when a connection was lost.                                            *)
HalfCloseContinues == result = "err" => broken # {}

(* Whatever a peer sends reaches the other one, and so does its EOF, wherever the other *)
(* direction is: at work, stuck, or ended and shut down long ago; unless the relay     *)
(* fails, which with a QUIC or TCP stream takes a lost connection                      *)
(* (copy_bidirectional.rs:175-202, 236-246).                                           *)
Failed == result = "err" /\ (kind = "plain" => broken # {})
AllReachesOther ==
    \A d \in Directions :
        /\ \A n \in 1 .. MaxBytes : (sent[Src(d)] >= n) ~> (given[d] >= n \/ Failed)
        /\ (Src(d) \in closed) ~> (Dst(d) \in shut \/ Failed)

(* Once both peers have closed the relay ends; a stream task does not stay behind.  *)
BothClosedEnds == (closed = Sides) ~> (result # "none")
=============================================================================
