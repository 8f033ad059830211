----------------------------- MODULE MessageCopy -----------------------------
(* run_udp_copy and copy_bidirectional_message (udp_relay.rs): UDP over an AnyTLS      *)
(* stream to one destination, message by message between the client's stream and a     *)
(* connected UDP socket.  One task polls both directions; it is polled again when      *)
(* something it waits for has happened.  A message is its number in the order of its   *)
(* source; Empty is a message without payload, and also the end of the client's        *)
(* stream.  Pings are left out: neither stream supports them.                          *)
EXTENDS Integers, Sequences, FiniteSets

CONSTANTS
    PingInterval,    \* 60 seconds
    IdleLimit,       \* ASSOCIATION_TIMEOUT
    MaxInAll,        \* bound: messages of the two sides and sides that fail
    MaxClock,        \* bound: ticks
    NoMessage

ASSUME CopyAssumption ==
    /\ PingInterval \in Nat \ {0} /\ IdleLimit \in Nat /\ MaxInAll \in Nat /\ MaxClock \in Nat
    /\ NoMessage \notin Nat

Empty == 0
Timer == <<"fires", "sleep">>
Sides == {"client", "socket"}
Directions == {"up", "down"}
From(d) == IF d = "up" THEN "client" ELSE "socket"
To(d) == IF d = "up" THEN "socket" ELSE "client"

VARIABLES
    waiting,         \* messages at a side, not read yet
    supply,          \* messages a side has sent, up to the first empty one: what follows
    closed,          \* that, once a side is closed by it, the copy never reads
    broken,          \* the side's stream or socket has failed
    room,            \* the side takes another message
    pendingWrite,    \* VlessMessageStream's: a message that is not flushed yet
    written,         \* messages a side was given
    copy,            \* TransferState and CopyBuffer of each direction
    poll,            \* where the task is
    wakers, woken,   \* what wakes the task; that it is to be polled
    clock, deadline, \* the time; sleep_future
    lastActive,
    result

ends == <<waiting, supply, closed, broken>>
timing == <<clock, deadline, lastActive>>
copyVars == <<ends, room, pendingWrite, written, copy, poll, wakers, woken, timing, result>>

CopyInit ==
    /\ waiting = [s \in Sides |-> <<>>] /\ supply = [s \in Sides |-> 0]
    /\ closed = [s \in Sides |-> FALSE] /\ broken = [s \in Sides |-> FALSE]
    /\ room = [s \in Sides |-> TRUE]
    /\ pendingWrite = <<>> /\ written = [s \in Sides |-> <<>>]
    /\ copy = [d \in Directions |-> [state |-> "run", readDone |-> FALSE, needFlush |-> FALSE,
                                     cache |-> NoMessage, read |-> 0, answer |-> "pending"]]
    /\ poll = [at |-> "idle"] /\ wakers = {} /\ woken = TRUE
    /\ clock = 0 /\ deadline = PingInterval /\ lastActive = 0
    /\ result = "none"

(***************************************************************************)
(* The two ends, the timer and the clock.                                  *)
(***************************************************************************)
Wake(what) ==
    /\ woken' = (woken \/ wakers \cap what # {})
    /\ wakers' = wakers \ what

MoreHappens ==
    supply["client"] + supply["socket"] + Cardinality({s \in Sides : broken[s]}) < MaxInAll

Sends(s, m) ==
    /\ ~closed[s] /\ ~broken[s] /\ MoreHappens
    /\ waiting' = [waiting EXCEPT ![s] = Append(@, IF m = Empty THEN Empty ELSE supply[s] + 1)]
    /\ supply' = [supply EXCEPT ![s] = IF m = Empty THEN @ ELSE @ + 1]
    /\ closed' = [closed EXCEPT ![s] = m = Empty]
    /\ Wake({<<"read", s>>})
    /\ UNCHANGED <<broken, room, pendingWrite, written, copy, poll, timing, result>>

RoomBack(s) ==
    /\ ~room[s]
    /\ room' = [room EXCEPT ![s] = TRUE]
    /\ Wake({<<"write", s>>})
    /\ UNCHANGED <<ends, pendingWrite, written, copy, poll, timing, result>>

Breaks(s) ==
    /\ ~broken[s] /\ MoreHappens
    /\ broken' = [broken EXCEPT ![s] = TRUE]
    /\ Wake({<<"read", s>>, <<"write", s>>})
    /\ UNCHANGED <<waiting, supply, closed, room, pendingWrite, written, copy, poll, timing,
                   result>>

CopyTick ==
    /\ clock < MaxClock
    /\ clock' = clock + 1
    /\ UNCHANGED <<ends, room, pendingWrite, written, copy, poll, wakers, woken, deadline,
                   lastActive, result>>

(* External: tokio's Sleep wakes the task that polled it last, once. *)
TimerFires ==
    /\ clock >= deadline /\ Timer \in wakers
    /\ Wake({Timer})
    /\ UNCHANGED <<ends, room, pendingWrite, written, copy, poll, timing, result>>

(***************************************************************************)
(* CopyBidirectional::poll.                                                *)
(***************************************************************************)
FirstStep(c) == IF c.state # "run" THEN "shut"
                ELSE IF c.cache # NoMessage THEN "write"
                ELSE IF c.readDone THEN "flush" ELSE "read"
Enter(d, before) ==
    [at |-> d, step |-> FirstStep(copy[d]), before |-> before,
     didRead |-> FALSE, didWrite |-> FALSE, pending |-> FALSE]
ReadCount == copy["up"].read + copy["down"].read

(* Mutant: a sleep that was ready is not reset; it wakes nobody any more. *)
StartPollNoReset ==
    /\ poll.at = "idle" /\ woken /\ woken' = FALSE
    /\ wakers' = IF clock >= deadline THEN wakers \ {Timer} ELSE wakers \cup {Timer}
    /\ poll' = Enter("up", ReadCount)
    /\ UNCHANGED <<ends, room, pendingWrite, written, copy, timing, result>>

(* sleep_future is polled first, which leaves the task's waker with the timer whether  *)
(* it was ready or not; if it was, it is reset and will fire again.                    *)
StartPoll ==
    /\ poll.at = "idle" /\ woken /\ woken' = FALSE
    /\ deadline' = IF clock >= deadline THEN clock + PingInterval ELSE deadline
    /\ wakers' = wakers \cup {Timer}
    /\ poll' = Enter("up", ReadCount)
    /\ UNCHANGED <<ends, room, pendingWrite, written, copy, clock, lastActive, result>>

(* A direction's poll is over: the other one's follows, or the end of the poll. *)
Return(d, c, answer) ==
    /\ copy' = [copy EXCEPT ![d] = [c EXCEPT !.answer = answer]]
    /\ poll' = IF d = "up" THEN Enter("down", poll.before)
               ELSE [at |-> "end", before |-> poll.before]

In(d, step) == poll.at = d /\ poll.step = step

ReadMessage(d) ==
    /\ In(d, "read") /\ waiting[From(d)] # <<>>
    /\ LET m == Head(waiting[From(d)])
       IN  /\ waiting' = [waiting EXCEPT ![From(d)] = Tail(@)]
           /\ copy' = IF m = Empty THEN [copy EXCEPT ![d].readDone = TRUE]
                      ELSE [copy EXCEPT ![d].cache = m, ![d].read = @ + 1]
           /\ poll' = IF m = Empty THEN [poll EXCEPT !.step = "flush"]
                      ELSE [poll EXCEPT !.step = "write", !.didRead = TRUE]
    /\ UNCHANGED <<supply, closed, broken, room, pendingWrite, written, wakers, woken, timing,
                   result>>

ReadPends(d) ==
    /\ In(d, "read") /\ waiting[From(d)] = <<>> /\ ~broken[From(d)]
    /\ poll' = [poll EXCEPT !.step = "flush", !.pending = TRUE]
    /\ wakers' = wakers \cup {<<"read", From(d)>>}
    /\ UNCHANGED <<ends, room, pendingWrite, written, copy, woken, timing, result>>

(* The stream of a closed session ends, after what was received, with an error if that *)
(* was part of a message; a socket reports an error at any time.                       *)
ReadEnds ==
    /\ In("up", "read") /\ waiting["client"] = <<>> /\ broken["client"]
    /\ copy' = [copy EXCEPT !["up"].readDone = TRUE]
    /\ poll' = [poll EXCEPT !.step = "flush"]
    /\ UNCHANGED <<ends, room, pendingWrite, written, wakers, woken, timing, result>>

ReadFails(d) ==
    /\ In(d, "read") /\ broken[From(d)] /\ (d = "down" \/ waiting["client"] = <<>>)
    /\ Return(d, copy[d], "err")
    /\ UNCHANGED <<ends, room, pendingWrite, written, wakers, woken, timing, result>>

(* A UDP socket sends the message; a VlessMessageStream keeps it until it is flushed,  *)
(* and flushes the one before it first.                                                *)
Accepts(s) == (room[s] /\ ~broken[s]) \/ (s = "client" /\ pendingWrite = <<>>)
Flushed(s) == /\ written' = [written EXCEPT ![s] = @ \o pendingWrite]
              /\ room' = [room EXCEPT ![s] = pendingWrite = <<>> /\ @]
(* Mutant: a message written while another waits replaces it. *)
GiveOver(s, m) ==
    IF s = "client" THEN pendingWrite' = <<m>> /\ UNCHANGED <<written, room>>
    ELSE /\ written' = [written EXCEPT ![s] = Append(@, m)]
         /\ room' = [room EXCEPT ![s] = FALSE]
         /\ UNCHANGED pendingWrite
Give(s, m) ==
    IF s = "client" THEN Flushed(s) /\ pendingWrite' = <<m>>
    ELSE /\ written' = [written EXCEPT ![s] = Append(@, m)]
         /\ room' = [room EXCEPT ![s] = FALSE]
         /\ UNCHANGED pendingWrite

WriteMessage(d) ==
    /\ In(d, "write") /\ Accepts(To(d))
    /\ Give(To(d), copy[d].cache)
    /\ copy' = [copy EXCEPT ![d].cache = NoMessage, ![d].needFlush = TRUE]
    /\ poll' = [poll EXCEPT !.step = "flush", !.didWrite = TRUE]
    /\ UNCHANGED <<ends, wakers, woken, timing, result>>

CannotWrite(d) ==
    /\ In(d, "write") /\ ~Accepts(To(d))
    /\ IF broken[To(d)]
       THEN Return(d, copy[d], "err") /\ UNCHANGED wakers
       ELSE /\ poll' = [poll EXCEPT !.step = "flush", !.pending = TRUE]
            /\ wakers' = wakers \cup {<<"write", To(d)>>}
            /\ UNCHANGED copy
    /\ UNCHANGED <<ends, room, pendingWrite, written, woken, timing, result>>

Again == poll.didRead /\ poll.didWrite /\ ~poll.pending
Flushes(s) == s = "socket" \/ Accepts(s)

(* The rest of the loop of poll_copy: another round, a flush and another round, the    *)
(* end of this direction, or waiting.                                                  *)
NextRound(d) ==
    /\ In(d, "flush")
    /\ Again \/ (~copy[d].needFlush /\ ~poll.pending
                 /\ ~(copy[d].readDone /\ copy[d].cache = NoMessage))
    /\ poll' = Enter(d, poll.before)
    /\ UNCHANGED <<ends, room, pendingWrite, written, copy, wakers, woken, timing, result>>

FlushMessage(d) ==
    /\ In(d, "flush") /\ ~Again /\ copy[d].needFlush /\ Flushes(To(d))
    /\ IF To(d) = "client" THEN Flushed("client") /\ pendingWrite' = <<>>
                           ELSE UNCHANGED <<written, room, pendingWrite>>
    /\ copy' = [copy EXCEPT ![d].needFlush = FALSE]
    /\ poll' = Enter(d, poll.before)
    /\ UNCHANGED <<ends, wakers, woken, timing, result>>

CannotFlush(d) ==
    /\ In(d, "flush") /\ ~Again /\ copy[d].needFlush /\ ~Flushes(To(d))
    /\ Return(d, copy[d], IF broken[To(d)] THEN "err" ELSE "pending")
    /\ wakers' = IF broken[To(d)] THEN wakers ELSE wakers \cup {<<"write", To(d)>>}
    /\ UNCHANGED <<ends, room, pendingWrite, written, woken, timing, result>>

CopyPends(d) ==
    /\ In(d, "flush") /\ ~Again /\ ~copy[d].needFlush /\ poll.pending
    /\ ~(copy[d].readDone /\ copy[d].cache = NoMessage)
    /\ Return(d, copy[d], "pending")
    /\ UNCHANGED <<ends, room, pendingWrite, written, wakers, woken, timing, result>>

(* Mutant: the end of the stream ends the copy before the flush. *)
CopyDoneEarly(d) ==
    /\ In(d, "flush") /\ ~Again
    /\ copy[d].readDone /\ copy[d].cache = NoMessage
    /\ copy' = [copy EXCEPT ![d].state = "shut"]
    /\ poll' = [poll EXCEPT !.step = "shut"]
    /\ UNCHANGED <<ends, room, pendingWrite, written, wakers, woken, timing, result>>

(* Mutant: the shutdown is left to the next poll, for which no waker is registered. *)
CopyDoneWaits(d) ==
    /\ In(d, "flush") /\ ~Again /\ ~copy[d].needFlush
    /\ copy[d].readDone /\ copy[d].cache = NoMessage
    /\ Return(d, [copy[d] EXCEPT !.state = "shut"], "pending")
    /\ UNCHANGED <<ends, room, pendingWrite, written, wakers, woken, timing, result>>

CopyDone(d) ==
    /\ In(d, "flush") /\ ~Again /\ ~copy[d].needFlush
    /\ copy[d].readDone /\ copy[d].cache = NoMessage
    /\ copy' = [copy EXCEPT ![d].state = "shut"]
    /\ poll' = [poll EXCEPT !.step = "shut"]
    /\ UNCHANGED <<ends, room, pendingWrite, written, wakers, woken, timing, result>>

(* poll_shutdown_message: the socket has nothing to do, the client's stream sends its  *)
(* end; nothing is left to flush.  A stream whose session has closed may say Ok.       *)
ShutMessage(d) ==
    /\ In(d, "shut") /\ (d = "up" \/ room["client"] \/ broken["client"])
    /\ room' = [room EXCEPT !["client"] = d = "up" /\ @]
    /\ Return(d, [copy[d] EXCEPT !.state = "done"], "ok")
    /\ UNCHANGED <<ends, pendingWrite, written, wakers, woken, timing, result>>

ShutFails ==
    /\ In("down", "shut") /\ broken["client"]
    /\ Return("down", copy["down"], "err")
    /\ UNCHANGED <<ends, room, pendingWrite, written, wakers, woken, timing, result>>

ShutPends ==
    /\ In("down", "shut") /\ ~broken["client"] /\ ~room["client"]
    /\ Return("down", copy["down"], "pending")
    /\ wakers' = wakers \cup {<<"write", "client">>}
    /\ UNCHANGED <<ends, room, pendingWrite, written, woken, timing, result>>

(* The end of the poll: what was read restarts the idle time; with nothing read for    *)
(* ASSOCIATION_TIMEOUT, or with one direction done, the copy is over.                  *)
Moved == ReadCount # poll.before
TimedOut == ~Moved /\ clock - lastActive >= IdleLimit
ReadyDirection == {d \in Directions : copy[d].answer # "pending"}
Outcome == IF TimedOut THEN "ok"
           ELSE copy[IF "up" \in ReadyDirection THEN "up" ELSE "down"].answer

EndPoll ==
    /\ poll.at = "end"
    /\ lastActive' = IF Moved THEN clock ELSE lastActive
    /\ IF TimedOut \/ ReadyDirection # {}
       THEN poll' = [at |-> "closing", idle |-> TimedOut] /\ result' = Outcome
       ELSE poll' = [at |-> "idle"] /\ UNCHANGED result
    /\ UNCHANGED <<ends, room, pendingWrite, written, copy, wakers, woken, clock, deadline>>

(* run_udp_copy shuts both down: what the client's stream still holds is flushed. *)
CloseFlushes ==
    /\ poll.at = "closing" /\ pendingWrite # <<>> /\ room["client"] /\ ~broken["client"]
    /\ Flushed("client") /\ pendingWrite' = <<>>
    /\ UNCHANGED <<ends, copy, poll, wakers, woken, timing, result>>

CopyOver ==
    /\ poll.at = "closing" /\ poll' = [poll EXCEPT !.at = "over"]
    /\ broken["client"] \/ (pendingWrite = <<>> /\ (room["client"] \/ copy["down"].state = "done"))
    /\ UNCHANGED <<ends, room, pendingWrite, written, copy, wakers, woken, timing, result>>

Transfer(d) ==
    \/ ReadMessage(d) \/ ReadPends(d) \/ ReadFails(d) \/ WriteMessage(d) \/ CannotWrite(d)
    \/ NextRound(d) \/ FlushMessage(d) \/ CannotFlush(d) \/ CopyPends(d) \/ CopyDone(d)
    \/ ShutMessage(d)

CopyTask ==
    \/ StartPoll \/ ReadEnds \/ ShutFails \/ ShutPends \/ EndPoll \/ CloseFlushes \/ CopyOver
    \/ \E d \in Directions : Transfer(d)

CopyNext ==
    \/ CopyTask \/ CopyTick \/ TimerFires
    \/ \E s \in Sides : \/ \E m \in {Empty, 1} : Sends(s, m)
                        \/ RoomBack(s) \/ Breaks(s)

(* The task is polled once it is woken, a timer that is due fires, and what is written *)
(* is taken; time need not pass.                                                       *)
CopyFair ==
    /\ WF_copyVars(CopyTask) /\ WF_copyVars(TimerFires)
    /\ \A s \in Sides : WF_copyVars(RoomBack(s))

CopySpec == CopyInit /\ [][CopyNext]_copyVars /\ CopyFair

(***************************************************************************)
(* Properties.                                                             *)
(***************************************************************************)

(* Each side is given the other side's messages, in order, none lost and none twice:   *)
(* what was read is what was written, with the one the client's stream holds and the   *)
(* one in the cache.  This holds at every step of every poll and after the end.        *)
Cached(d) == IF copy[d].cache = NoMessage THEN <<>> ELSE <<copy[d].cache>>
CopiedInOrder ==
    \A d \in Directions :
        written[To(d)] \o (IF d = "down" THEN pendingWrite ELSE <<>>) \o Cached(d)
            = [i \in 1 .. copy[d].read |-> i]

(* Ok means that one side ended, by its end, an empty message or a failure, and was    *)
(* relayed to the last message before that, flushed; or that nothing was read for      *)
(* ASSOCIATION_TIMEOUT.                                                                *)
OkMeansDone ==
    result = "ok" =>
        \/ poll.idle /\ clock - lastActive >= IdleLimit
        \/ \E d \in Directions :
               /\ closed[From(d)] \/ broken[From(d)]
               /\ Len(written[To(d)]) = supply[From(d)]

(* When the client ends its stream, the copy ends, wherever the task was and whatever   *)
(* it waited for.                                                                      *)
ClientEndEndsCopy == closed["client"] ~> poll.at = "over"

(* A copy on which nothing was read for ASSOCIATION_TIMEOUT ends at the latest one      *)
(* period of the timer later, unless a message comes after all: its age is looked at    *)
(* only when the task is polled, which nothing but the timer sees to (udp_relay.rs:215- *)
(* 234).  No assumption is made that time goes on.                                      *)
TooOld == clock - lastActive >= IdleLimit + PingInterval - 1
IdleEnds == (poll.at # "over" /\ TooOld) ~> (poll.at = "over" \/ ~TooOld)
=============================================================================
