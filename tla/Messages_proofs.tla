--------------------------- MODULE Messages_proofs ---------------------------
(***************************************************************************)
(* What becomes of messages: the copy between two message streams           *)
(* (MessageCopy), and the two streams that cut a byte stream into packets   *)
(* (PacketAddrStream, VlessMessageStream).                                  *)
(***************************************************************************)
EXTENDS MessageCopy, PacketAddrStream, VlessMessageStream, TLAPS

CopyType ==
    [state : {"run", "shut", "done"}, readDone : BOOLEAN, needFlush : BOOLEAN,
     cache : Nat \cup {NoMessage}, read : Nat, answer : {"pending", "ok", "err"}]
StepType ==
    [at : Directions, step : {"read", "write", "flush", "shut"}, before : Nat,
     didRead : BOOLEAN, didWrite : BOOLEAN, pending : BOOLEAN]
PollType ==
    StepType \cup [at : {"idle"}] \cup [at : {"end"}, before : Nat]
        \cup [at : {"closing", "over"}, idle : BOOLEAN]

CopyTypeOK ==
    /\ waiting \in [Sides -> Seq(Nat)] /\ supply \in [Sides -> Nat]
    /\ closed \in [Sides -> BOOLEAN] /\ broken \in [Sides -> BOOLEAN]
    /\ pendingWrite \in Seq(Nat) /\ written \in [Sides -> Seq(Nat)]
    /\ copy \in [Directions -> CopyType] /\ poll \in PollType
    /\ clock \in Nat /\ lastActive \in Nat
    /\ result \in {"none", "ok", "err"}

(* What waits at a side is what follows the messages read from it, and an empty one    *)
(* last, after which the side sends no more.                                           *)
Rest(w, had, all, end, failed, readDone) ==
    /\ \A i \in DOMAIN w : w[i] = had + i \/ (w[i] = Empty /\ i = Len(w) /\ end)
    /\ all = IF w # <<>> /\ w[Len(w)] = Empty THEN (had + Len(w)) - 1 ELSE had + Len(w)
    /\ readDone => w = <<>> /\ (end \/ failed)
WaitingInOrder(d) ==
    Rest(waiting[From(d)], copy[d].read, supply[From(d)], closed[From(d)], broken[From(d)],
         copy[d].readDone)

(* A direction that has left its loop has nothing left to give. *)
EndIsClean(d) ==
    /\ copy[d].state # "run" =>
          copy[d].readDone /\ copy[d].cache = NoMessage /\ (d = "down" => pendingWrite = <<>>)
    /\ copy[d].answer = "ok" => copy[d].state # "run"
    /\ d = "down" /\ ~copy[d].needFlush => pendingWrite = <<>>

(* The step of poll_copy that the task is at. *)
StepOK(d) ==
    /\ In(d, "read") => copy[d].cache = NoMessage /\ ~copy[d].readDone
    /\ In(d, "write") => copy[d].cache # NoMessage
    /\ In(d, "shut") => copy[d].state # "run"

ResultOK ==
    result = "ok" =>
        /\ poll.at \in {"closing", "over"}
        /\ \/ poll.idle /\ clock - lastActive >= IdleLimit
           \/ \E d \in Directions : copy[d].state # "run"

CopyInv ==
    /\ CopyTypeOK /\ CopiedInOrder /\ ResultOK
    /\ \A d \in Directions : WaitingInOrder(d) /\ EndIsClean(d) /\ StepOK(d)

LEMMA CopyInvInit == CopyInit => CopyInv
  <1> SUFFICES ASSUME CopyInit PROVE CopyInv
    BY Zenon
  <1> USE DEF CopyInit
  <1>1. CopyTypeOK
    BY DEF CopyTypeOK, CopyType, PollType
  <1>2. ASSUME NEW d \in Directions PROVE WaitingInOrder(d) /\ EndIsClean(d) /\ StepOK(d)
    BY DEF WaitingInOrder, Rest, EndIsClean, StepOK, In, From, Directions, Sides
  <1>3. CopiedInOrder
    <2>1. ASSUME NEW d \in Directions
          PROVE  (written[To(d)] \o (IF d = "down" THEN pendingWrite ELSE <<>>)) \o Cached(d) = <<>>
      BY DEF Cached, To, Directions, Sides
    <2>2. [i \in 1 .. 0 |-> i] = <<>>
      OBVIOUS
    <2>3. \A d \in Directions : copy[d].read = 0
      BY Zenon
    <2> QED
      BY <2>1, <2>2, <2>3, Zenon DEF CopiedInOrder
  <1> QED
    BY <1>1, <1>2, <1>3, Zenon DEF CopyInv, ResultOK

(* The directions join the two sides. *)
LEMMA Ends ==
  ASSUME NEW d \in Directions
  PROVE  /\ From(d) \in Sides /\ To(d) \in Sides
         /\ \A e \in Directions : (From(e) = From(d) \/ To(e) = To(d)) => e = d
         /\ To(d) = "client" <=> d = "down"
  BY Zenon DEF Directions, Sides, From, To

(* Where poll_copy starts. *)
LEMMA Entered ==
  ASSUME CopyTypeOK, NEW d \in Directions, NEW before \in Nat
  PROVE  /\ Enter(d, before) \in StepType /\ Enter(d, before).at = d
         /\ Enter(d, before).step = "read" => copy[d].cache = NoMessage /\ ~copy[d].readDone
         /\ Enter(d, before).step = "write" => copy[d].cache # NoMessage
         /\ Enter(d, before).step = "shut" => copy[d].state # "run"
  <1>1. FirstStep(copy[d]) \in {"read", "write", "flush", "shut"}
    BY Zenon DEF FirstStep
  <1>2. /\ Enter(d, before) \in StepType /\ Enter(d, before).at = d
        /\ Enter(d, before).step = FirstStep(copy[d])
    BY <1>1, Zenon DEF Enter, StepType
  <1> QED
    BY <1>2, Zenon DEF FirstStep

(* The fields of a poll of one direction. *)
LEMMA PollFields ==
  ASSUME CopyTypeOK
  PROVE  /\ poll.at \in Directions => poll \in StepType /\ poll.before \in Nat
         /\ poll.at \in Directions \cup {"idle", "end", "closing", "over"}
         /\ poll.at = "end" => poll.before \in Nat
         /\ poll.at \in {"closing", "over"} => poll \in [at : {"closing", "over"}, idle : BOOLEAN]
  BY Zenon DEF CopyTypeOK, PollType, StepType, Directions

(***************************************************************************)
(* Steps that only move the task on.                                       *)
(***************************************************************************)
core == <<waiting, supply, closed, written, pendingWrite, copy>>

(* The task is at a step of d that fits d's state, or at none. *)
Fits(p) ==
    /\ p \in PollType
    /\ \A d \in Directions : p.at = d =>
          /\ p.step = "read" => copy[d].cache = NoMessage /\ ~copy[d].readDone
          /\ p.step = "write" => copy[d].cache # NoMessage
          /\ p.step = "shut" => copy[d].state # "run"

LEMMA CoreStays ==
  ASSUME CopyInv, UNCHANGED core,
         broken' \in [Sides -> BOOLEAN], \A s \in Sides : broken[s] => broken'[s],
         clock' \in Nat, lastActive' \in Nat, result' \in {"none", "ok", "err"},
         Fits(poll'), ResultOK'
  PROVE  CopyInv'
  <1>1. CopyTypeOK'
    BY Zenon DEF CopyInv, CopyTypeOK, core, Fits
  <1>2. CopiedInOrder'
    BY Zenon DEF CopyInv, CopiedInOrder, Cached, core
  <1>3. ASSUME NEW d \in Directions PROVE (WaitingInOrder(d) /\ EndIsClean(d) /\ StepOK(d))'
    <2>1. WaitingInOrder(d)'
      BY Ends, Zenon DEF CopyInv, WaitingInOrder, Rest, core
    <2>2. EndIsClean(d)'
      BY Zenon DEF CopyInv, EndIsClean, core
    <2>3. StepOK(d)'
      BY Zenon DEF StepOK, Fits, In, core
    <2> QED
      BY <2>1, <2>2, <2>3, Zenon
  <1> QED
    BY <1>1, <1>2, <1>3, Zenon DEF CopyInv

LEMMA ResultStays ==
  ASSUME CopyInv, poll.at \notin {"closing", "over"}, UNCHANGED result
  PROVE  ResultOK'
  BY Zenon DEF CopyInv, ResultOK

LEMMA OutsideSteps ==
  ASSUME CopyInv, CopyTick \/ TimerFires \/ \E s \in Sides : RoomBack(s) \/ Breaks(s)
  PROVE  CopyInv'
  <1>1. /\ UNCHANGED core /\ UNCHANGED <<lastActive, poll, result>>
        /\ clock' \in Nat /\ clock' >= clock
        /\ broken' \in [Sides -> BOOLEAN] /\ \A s \in Sides : broken[s] => broken'[s]
    <2>1. CASE CopyTick \/ TimerFires
      <3>1. UNCHANGED core /\ UNCHANGED <<lastActive, poll, result, broken>> /\ clock' \in {clock, clock + 1}
        BY <2>1, Zenon DEF CopyTick, TimerFires, core, ends, timing
      <3> QED
        BY <3>1 DEF CopyInv, CopyTypeOK
    <2>2. ASSUME NEW s \in Sides, RoomBack(s)
          PROVE  UNCHANGED core /\ UNCHANGED <<clock, lastActive, poll, result, broken>>
      BY <2>2, Zenon DEF RoomBack, core, ends, timing
    <2>3. broken \in [Sides -> BOOLEAN] /\ clock \in Nat
      BY Zenon DEF CopyInv, CopyTypeOK
    <2>4. ASSUME NEW s \in Sides, Breaks(s)
          PROVE  /\ UNCHANGED core /\ UNCHANGED <<clock, lastActive, poll, result>>
                 /\ broken' \in [Sides -> BOOLEAN] /\ \A t \in Sides : broken[t] => broken'[t]
      <3>1. /\ UNCHANGED core /\ UNCHANGED <<clock, lastActive, poll, result>>
            /\ broken' = [broken EXCEPT ![s] = TRUE]
        BY <2>4, Zenon DEF Breaks, core, timing
      <3>2. broken' \in [Sides -> BOOLEAN]
        BY <2>3, <3>1, Zenon
      <3>3. \A t \in Sides : broken[t] => broken'[t]
        BY <2>3, <3>1, Zenon
      <3> QED
        BY <3>1, <3>2, <3>3, Zenon
    <2>5. clock' = clock => clock' \in Nat /\ clock' >= clock
      BY <2>3
    <2> QED
      BY <2>1, <2>2, <2>3, <2>4, <2>5, Zenon
  <1>2. Fits(poll')
    BY <1>1, Zenon DEF CopyInv, CopyTypeOK, Fits, StepOK, In
  <1>3. ResultOK'
    <2>1. clock \in Nat /\ lastActive \in Nat
      BY Zenon DEF CopyInv, CopyTypeOK
    <2> QED
      BY <1>1, <2>1, CopyAssumption DEF CopyInv, ResultOK, core
  <1> QED
    BY <1>1, <1>2, <1>3, CoreStays, Zenon DEF CopyInv, CopyTypeOK

LEMMA StartPollKeeps ==
  ASSUME CopyInv, StartPoll
  PROVE  CopyInv'
  <1>1. /\ UNCHANGED core /\ UNCHANGED <<broken, clock, lastActive, result>>
        /\ poll.at = "idle" /\ poll' = Enter("up", ReadCount)
    BY Zenon DEF StartPoll, core, ends
  <1>2. ReadCount \in Nat
    BY DEF CopyInv, CopyTypeOK, CopyType, ReadCount, Directions
  <1>3. Fits(poll')
    <2>1. "up" \in Directions /\ CopyTypeOK
      BY Zenon DEF Directions, CopyInv
    <2> QED
      BY <1>1, <1>2, <2>1, Entered DEF Fits, PollType
  <1> QED
    BY <1>1, <1>3, CoreStays, ResultStays, Zenon DEF CopyInv, CopyTypeOK

LEMMA EndPollKeeps ==
  ASSUME CopyInv, EndPoll
  PROVE  CopyInv'
  <1>1. /\ UNCHANGED core /\ UNCHANGED <<broken, clock>> /\ poll.at = "end"
        /\ lastActive' = IF Moved THEN clock ELSE lastActive
        /\ clock \in Nat /\ lastActive \in Nat
    BY Zenon DEF EndPoll, core, ends, CopyInv, CopyTypeOK
  <1>2. CASE ~(TimedOut \/ ReadyDirection # {})
    <2>1. poll' = [at |-> "idle"] /\ UNCHANGED result
      BY <1>2, Zenon DEF EndPoll
    <2>2. Fits(poll')
      BY <2>1, Zenon DEF Fits, PollType, Directions
    <2>3. ResultOK'
      BY <1>1, <2>1, ResultStays, Zenon
    <2> QED
      BY <1>1, <2>1, <2>2, <2>3, CoreStays, Zenon DEF CopyInv, CopyTypeOK
  <1>3. CASE TimedOut \/ ReadyDirection # {}
    <2>1. poll' = [at |-> "closing", idle |-> TimedOut] /\ result' = Outcome
      BY <1>3, Zenon DEF EndPoll
    <2>2. TimedOut \in BOOLEAN
      BY Zenon DEF TimedOut
    <2>3. Fits(poll')
      BY <2>1, <2>2, Zenon DEF Fits, PollType, Directions
    <2>4. CASE TimedOut
      <3>1. result' = "ok" /\ ~Moved /\ clock - lastActive >= IdleLimit
        BY <2>1, <2>4, Zenon DEF Outcome, TimedOut
      <3>2. ResultOK'
        BY <1>1, <2>1, <2>4, <3>1, Zenon DEF ResultOK
      <3> QED
        BY <1>1, <2>3, <3>1, <3>2, CoreStays, Zenon DEF CopyInv, CopyTypeOK
    <2>5. CASE ~TimedOut
      <3>1. PICK d \in Directions : result' = copy[d].answer
        BY <2>1, <2>5, Zenon DEF Outcome, Directions
      <3>2. copy[d].answer \in {"pending", "ok", "err"} /\ (copy[d].answer = "ok" => copy[d].state # "run")
        BY Zenon DEF CopyInv, CopyTypeOK, CopyType, EndIsClean
      <3>3. result' # "pending"
        BY <1>3, <2>1, <2>5, Zenon DEF Outcome, ReadyDirection, Directions
      <3>4. ResultOK'
        BY <1>1, <2>1, <3>1, <3>2, Zenon DEF ResultOK, core
      <3> QED
        BY <1>1, <2>3, <3>1, <3>2, <3>3, <3>4, CoreStays, Zenon DEF CopyInv, CopyTypeOK
    <2> QED
      BY <2>4, <2>5, Zenon
  <1> QED
    BY <1>2, <1>3, Zenon

LEMMA CopyOverKeeps ==
  ASSUME CopyInv, CopyOver
  PROVE  CopyInv'
  <1>1. /\ UNCHANGED core /\ UNCHANGED <<broken, clock, lastActive, result>>
        /\ poll.at = "closing" /\ poll' = [poll EXCEPT !.at = "over"]
    BY Zenon DEF CopyOver, core, ends, timing
  <1>2. poll \in [at : {"closing", "over"}, idle : BOOLEAN]
    BY <1>1, PollFields, Zenon DEF CopyInv
  <1>3. poll' \in [at : {"closing", "over"}, idle : BOOLEAN] /\ poll'.at = "over" /\ poll'.idle = poll.idle
    BY <1>1, <1>2, Zenon
  <1>4. Fits(poll')
    BY <1>3, Zenon DEF Fits, PollType, Directions
  <1>5. ResultOK'
    BY <1>1, <1>3, Zenon DEF CopyInv, ResultOK, core
  <1> QED
    BY <1>1, <1>4, <1>5, CoreStays, Zenon DEF CopyInv, CopyTypeOK

(* poll_copy goes on without having moved a message. *)
LEMMA WaitKeeps ==
  ASSUME CopyInv, NEW d \in Directions,
         ReadPends(d) \/ (CannotWrite(d) /\ ~broken[To(d)]) \/ NextRound(d)
  PROVE  CopyInv'
  <1>1. /\ UNCHANGED core /\ UNCHANGED <<broken, clock, lastActive, result>> /\ poll.at = d
        /\ poll' = [poll EXCEPT !.step = "flush", !.pending = TRUE] \/ poll' = Enter(d, poll.before)
    BY Zenon DEF ReadPends, CannotWrite, NextRound, In, core, ends, timing
  <1>2. poll \in StepType /\ poll.before \in Nat /\ poll.at \notin {"closing", "over"}
    BY <1>1, PollFields, Zenon DEF CopyInv, Directions
  <1>3. Fits(poll')
    <2>1. CASE poll' = Enter(d, poll.before)
      BY <1>2, <2>1, Entered DEF Fits, PollType, CopyInv
    <2>2. CASE poll' = [poll EXCEPT !.step = "flush", !.pending = TRUE]
      <3>1. poll' \in StepType /\ poll'.step = "flush"
        BY <1>2, <2>2, Zenon DEF StepType
      <3> QED
        BY <3>1, Zenon DEF Fits, PollType
    <2> QED
      BY <1>1, <2>1, <2>2, Zenon
  <1> QED
    BY <1>1, <1>2, <1>3, CoreStays, ResultStays, Zenon DEF CopyInv, CopyTypeOK

(***************************************************************************)
(* The end of a direction's poll.                                          *)
(***************************************************************************)
LEMMA PollReturns ==
  ASSUME CopyInv, NEW d \in Directions, NEW c \in CopyType, NEW answer \in {"pending", "ok", "err"},
         poll.at = d, Return(d, c, answer),
         c.readDone = copy[d].readDone, c.needFlush = copy[d].needFlush,
         c.cache = copy[d].cache, c.read = copy[d].read,
         c.state # "run" <=> copy[d].state # "run", answer = "ok" => c.state # "run",
         UNCHANGED <<waiting, supply, closed, broken, written, pendingWrite, clock, lastActive,
         result>>
  PROVE  CopyInv'
  <1> DEFINE e == [c EXCEPT !.answer = answer]
  <1>1. /\ e \in CopyType /\ e.answer = answer /\ e.readDone = copy[d].readDone
        /\ e.needFlush = copy[d].needFlush /\ e.cache = copy[d].cache /\ e.read = copy[d].read
        /\ e.state = c.state
    BY Zenon DEF CopyType
  <1>2. copy \in [Directions -> CopyType] /\ copy' = [copy EXCEPT ![d] = e]
    BY Zenon DEF Return, CopyInv, CopyTypeOK
  <1> HIDE DEF e
  <1>3. copy' \in [Directions -> CopyType] /\ copy'[d] = e /\ \A b \in Directions : b # d => copy'[b] = copy[b]
    BY <1>1, <1>2, Zenon
  <1>4. /\ poll' \in PollType
        /\ \A b \in Directions : poll'.at = b =>
              /\ b # d
              /\ poll'.step = "read" => copy[b].cache = NoMessage /\ ~copy[b].readDone
              /\ poll'.step = "write" => copy[b].cache # NoMessage
              /\ poll'.step = "shut" => copy[b].state # "run"
    <2>1. poll.before \in Nat
      BY PollFields, Zenon DEF CopyInv
    <2>2. CASE d = "up"
      <3>1. poll' = Enter("down", poll.before)
        BY <2>2, Zenon DEF Return
      <3> QED
        BY <2>1, <2>2, <3>1, Entered DEF CopyInv, PollType, Directions
    <2>3. CASE d # "up"
      <3>1. poll' = [at |-> "end", before |-> poll.before]
        BY <2>3, Zenon DEF Return
      <3> QED
        BY <2>1, <3>1, Zenon DEF PollType, Directions
    <2> QED
      BY <2>2, <2>3, Zenon
  <1>5. CopyTypeOK'
    BY <1>3, <1>4, Zenon DEF CopyInv, CopyTypeOK
  <1>6. CopiedInOrder'
    <2>1. \A b \in Directions : copy'[b].cache = copy[b].cache /\ copy'[b].read = copy[b].read
      BY <1>1, <1>3, Zenon
    <2> QED
      <3>1. \A b \in Directions : Cached(b)' = Cached(b)
        BY <2>1, Zenon DEF Cached
      <3> QED
        BY <2>1, <3>1, ZenonT(30) DEF CopyInv, CopiedInOrder
  <1>7. ASSUME NEW b \in Directions PROVE (WaitingInOrder(b) /\ EndIsClean(b) /\ StepOK(b))'
    <2>1. WaitingInOrder(b)'
      BY <1>1, <1>3, Zenon DEF CopyInv, WaitingInOrder
    <2>2. EndIsClean(b)'
      BY <1>1, <1>3 DEF CopyInv, EndIsClean
    <2>3. StepOK(b)'
      BY <1>3, <1>4 DEF StepOK, In
    <2> QED
      BY <2>1, <2>2, <2>3, Zenon
  <1>8. ResultOK'
    <2>1. poll.at \notin {"closing", "over"}
      BY Zenon DEF Directions
    <2> QED
      BY <2>1, ResultStays, Zenon
  <1> QED
    BY <1>5, <1>6, <1>7, <1>8, Zenon DEF CopyInv

LEMMA ReturnsKeep ==
  ASSUME CopyInv, NEW d \in Directions,
         \/ ReadFails(d) \/ (CannotWrite(d) /\ broken[To(d)]) \/ CannotFlush(d)
         \/ CopyPends(d) \/ ShutMessage(d) \/ (d = "down" /\ (ShutFails \/ ShutPends))
  PROVE  CopyInv'
  <1>1. poll.at = d /\ UNCHANGED <<waiting, supply, closed, broken, written, pendingWrite, clock, lastActive, result>>
    BY Zenon DEF ReadFails, CannotWrite, CannotFlush, CopyPends, ShutMessage, ShutFails,
       ShutPends, In, ends, timing
  <1>2. copy[d] \in CopyType
    BY Zenon DEF CopyInv, CopyTypeOK
  <1>3. CASE ShutMessage(d)
    <2> DEFINE c == [copy[d] EXCEPT !.state = "done"]
    <2>1. /\ c \in CopyType /\ c.readDone = copy[d].readDone /\ c.needFlush = copy[d].needFlush
          /\ c.cache = copy[d].cache /\ c.read = copy[d].read /\ c.state = "done"
      BY <1>2, Zenon DEF CopyType
    <2>2. Return(d, c, "ok") /\ copy[d].state # "run"
      BY <1>3, Zenon DEF ShutMessage, CopyInv, StepOK
    <2> HIDE DEF c
    <2> QED
      BY <1>1, <2>1, <2>2, PollReturns, Zenon
  <1>4. CASE ~ShutMessage(d)
    <2>1. Return(d, copy[d], "err") \/ Return(d, copy[d], "pending")
      BY <1>4, Zenon DEF ReadFails, CannotWrite, CannotFlush, CopyPends, ShutFails, ShutPends
    <2> QED
      BY <1>1, <1>2, <2>1, PollReturns, Zenon
  <1> QED
    BY <1>3, <1>4, Zenon

(***************************************************************************)
(* The steps that move a message.                                          *)
(***************************************************************************)
UpTo(n) == [i \in 1 .. n |-> i]
Got(d) == written[To(d)] \o (IF d = "down" THEN pendingWrite ELSE <<>>)

LEMMA UpToNext ==
  ASSUME NEW n \in Nat
  PROVE  UpTo(n) \o <<n + 1>> = UpTo(n + 1) /\ UpTo(n) \in Seq(Nat) /\ Len(UpTo(n)) = n
  <1>1. UpTo(n) \in Seq(Nat) /\ Len(UpTo(n)) = n
    BY DEF UpTo
  <1> QED
    BY <1>1 DEF UpTo

LEMMA GotType ==
  ASSUME CopyInv, NEW d \in Directions
  PROVE  Got(d) \in Seq(Nat) /\ Got(d) \o Cached(d) = UpTo(copy[d].read) /\ copy[d] \in CopyType
  <1>1. written[To(d)] \in Seq(Nat) /\ pendingWrite \in Seq(Nat) /\ copy[d] \in CopyType
    BY Ends, Zenon DEF CopyInv, CopyTypeOK
  <1>2. Got(d) \in Seq(Nat)
    BY <1>1 DEF Got
  <1>3. Got(d) \o Cached(d) = UpTo(copy[d].read)
    BY Zenon DEF CopyInv, CopiedInOrder, Got, UpTo
  <1> QED
    BY <1>1, <1>2, <1>3, Zenon

(* The rest of the state stays as it is, or is changed for direction d only. *)
LEMMA TaskKeeps ==
  ASSUME CopyInv, NEW d \in Directions, NEW c \in CopyType, copy' = [copy EXCEPT ![d] = c],
         poll.at \in Directions, poll' \in StepType, poll'.at = d,
         UNCHANGED <<supply, closed, broken, clock, lastActive, result>>,
         waiting' \in [Sides -> Seq(Nat)], \A s \in Sides : s # From(d) => waiting'[s] = waiting[s],
         pendingWrite' \in Seq(Nat), written' \in [Sides -> Seq(Nat)],
         \A s \in Sides : s # To(d) => written'[s] = written[s], d = "up" => UNCHANGED pendingWrite,
         (Got(d) \o Cached(d))' = UpTo(c.read),
         WaitingInOrder(d)', EndIsClean(d)', StepOK(d)'
  PROVE  CopyInv'
  <1>1. /\ copy' \in [Directions -> CopyType] /\ copy'[d] = c
        /\ \A b \in Directions : b # d => copy'[b] = copy[b]
    BY Zenon DEF CopyInv, CopyTypeOK
  <1>2. CopyTypeOK'
    BY <1>1, Zenon DEF CopyInv, CopyTypeOK, PollType
  <1>3. ASSUME NEW b \in Directions, b # d
        PROVE  (WaitingInOrder(b) /\ EndIsClean(b) /\ StepOK(b))' /\ (Got(b) \o Cached(b))' = UpTo(copy'[b].read)
    <2>1. From(b) # From(d) /\ To(b) # To(d) /\ From(b) \in Sides /\ To(b) \in Sides /\ copy'[b] = copy[b]
      BY <1>1, <1>3, Ends, Zenon
    <2>2. waiting'[From(b)] = waiting[From(b)] /\ written'[To(b)] = written[To(b)]
      BY <2>1, Zenon
    <2>3. WaitingInOrder(b)'
      <3>1. WaitingInOrder(b) /\ UNCHANGED <<supply, closed, broken>>
        BY Zenon DEF CopyInv
      <3> QED
        BY <2>1, <2>2, <3>1, Zenon DEF WaitingInOrder
    <2>4. b = "down" => pendingWrite' = pendingWrite
      BY <1>3, Zenon DEF Directions
    <2>5. EndIsClean(b)'
      BY <2>1, <2>4 DEF CopyInv, EndIsClean
    <2>6. StepOK(b)'
      BY <1>3, Zenon DEF StepOK, In
    <2>7. Got(b)' = Got(b) /\ Cached(b)' = Cached(b)
      <3>1. Cached(b)' = Cached(b)
        BY <2>1 DEF Cached
      <3>2. CASE b = "down"
        BY <2>2, <2>4, <3>1, <3>2, Zenon DEF Got
      <3>3. CASE b # "down"
        BY <2>2, <3>1, <3>3, Zenon DEF Got
      <3> QED
        BY <3>1, <3>2, <3>3, Zenon
    <2> QED
      BY <2>1, <2>3, <2>5, <2>6, <2>7, GotType, Zenon
  <1>4. CopiedInOrder'
    <2>1. \A b \in Directions : (Got(b) \o Cached(b))' = UpTo(copy'[b].read)
      BY <1>1, <1>3, Zenon
    <2> QED
      BY <2>1, Zenon DEF CopiedInOrder, Got, UpTo
  <1>5. ResultOK'
    <2>1. poll.at \notin {"closing", "over"}
      BY Zenon DEF Directions
    <2> QED
      BY <2>1, ResultStays, Zenon
  <1> QED
    BY <1>2, <1>3, <1>4, <1>5, Zenon DEF CopyInv

(* A direction in its loop: what the steps below start from. *)
LEMMA InTask ==
  ASSUME CopyInv, NEW d \in Directions, poll.at = d
  PROVE  /\ poll \in StepType /\ poll.before \in Nat
         /\ copy \in [Directions -> CopyType] /\ copy[d] \in CopyType
         /\ copy[d].read \in Nat /\ waiting[From(d)] \in Seq(Nat)
         /\ waiting \in [Sides -> Seq(Nat)] /\ written \in [Sides -> Seq(Nat)]
         /\ pendingWrite \in Seq(Nat) /\ written[To(d)] \in Seq(Nat)
         /\ From(d) \in Sides /\ To(d) \in Sides
  BY PollFields, Ends, Zenon DEF CopyInv, CopyTypeOK, CopyType

(* The end of the stream or an empty message: nothing was taken, nothing is left. *)
LEMMA ReadStops ==
  ASSUME CopyInv, NEW d \in Directions, In(d, "read"), copy' = [copy EXCEPT ![d].readDone = TRUE],
         poll' = [poll EXCEPT !.step = "flush"],
         UNCHANGED <<supply, closed, broken, clock, lastActive, result, pendingWrite, written>>,
         waiting' \in [Sides -> Seq(Nat)], \A s \in Sides : s # From(d) => waiting'[s] = waiting[s],
         waiting'[From(d)] = <<>>, closed[From(d)] \/ broken[From(d)], supply[From(d)] = copy[d].read
  PROVE  CopyInv'
  <1>0. poll.at = d
    BY Zenon DEF In
  <1> DEFINE c == [copy[d] EXCEPT !.readDone = TRUE]
  <1>1. copy' = [copy EXCEPT ![d] = c]
    BY Zenon
  <1>2. /\ c \in CopyType /\ c.readDone /\ c.state = copy[d].state /\ c.cache = copy[d].cache
        /\ c.read = copy[d].read /\ c.needFlush = copy[d].needFlush /\ c.answer = copy[d].answer
    <2>1. copy[d] \in CopyType
      BY <1>0, InTask, Zenon
    <2> QED
      BY <2>1, Zenon DEF CopyType
  <1> HIDE DEF c
  <1>3. copy'[d] = c
    BY <1>0, <1>1, InTask, Zenon
  <1>4. poll' \in StepType /\ poll'.at = d /\ poll'.step = "flush"
    BY <1>0, InTask, Zenon DEF StepType
  <1>5. WaitingInOrder(d)'
    BY <1>0, <1>2, <1>3, InTask DEF WaitingInOrder, Rest
  <1>6. EndIsClean(d)'
    BY <1>2, <1>3, Zenon DEF CopyInv, EndIsClean
  <1>7. StepOK(d)'
    BY <1>4, Zenon DEF StepOK, In
  <1>8. (Got(d) \o Cached(d))' = UpTo(c.read)
    <2>1. Got(d)' = Got(d)
      BY Zenon DEF Got
    <2>2. Cached(d)' = Cached(d)
      BY <1>2, <1>3 DEF Cached
    <2> QED
      BY <1>2, <2>1, <2>2, GotType, Zenon
  <1> QED
    BY <1>0, <1>1, <1>2, <1>4, <1>5, <1>6, <1>7, <1>8, InTask, TaskKeeps, ZenonT(30)

LEMMA ReadEndsKeeps ==
  ASSUME CopyInv, ReadEnds
  PROVE  CopyInv'
  <1>1. "up" \in Directions /\ From("up") = "client" /\ poll.at = "up"
    BY Zenon DEF Directions, From, ReadEnds, In
  <1>2. supply["client"] = copy["up"].read
    BY <1>1, InTask DEF ReadEnds, CopyInv, WaitingInOrder, Rest
  <1>3. UNCHANGED <<waiting, supply, closed, broken, clock, lastActive, result, pendingWrite, written>>
    BY Zenon DEF ReadEnds, ends, timing
  <1> QED
    BY <1>1, <1>2, <1>3, InTask, ReadStops, Zenon DEF ReadEnds

LEMMA ReadMessageKeeps ==
  ASSUME CopyInv, NEW d \in Directions, ReadMessage(d)
  PROVE  CopyInv'
  <1> DEFINE w == waiting[From(d)]
  <1>0. /\ poll.at = d /\ In(d, "read") /\ w # <<>> /\ waiting' = [waiting EXCEPT ![From(d)] = Tail(w)]
        /\ UNCHANGED <<supply, closed, broken, clock, lastActive, result, pendingWrite, written>>
    BY Zenon DEF ReadMessage, In, timing
  <1>1. /\ \A i \in DOMAIN w : w[i] = copy[d].read + i \/ (w[i] = Empty /\ i = Len(w) /\ closed[From(d)])
        /\ supply[From(d)] = IF w # <<>> /\ w[Len(w)] = Empty THEN (copy[d].read + Len(w)) - 1
                             ELSE copy[d].read + Len(w)
    BY Zenon DEF CopyInv, WaitingInOrder, Rest
  <1>2. /\ w \in Seq(Nat) /\ copy[d].read \in Nat /\ waiting \in [Sides -> Seq(Nat)] /\ From(d) \in Sides
        /\ poll \in StepType /\ copy \in [Directions -> CopyType] /\ copy[d] \in CopyType
    BY <1>0, InTask, Zenon
  <1>w. w = waiting[From(d)]
    BY Zenon
  <1>3. Head(w) = Empty => copy' = [copy EXCEPT ![d].readDone = TRUE] /\ poll' = [poll EXCEPT !.step = "flush"]
    BY Zenon DEF ReadMessage
  <1>4. Head(w) # Empty => /\ copy' = [copy EXCEPT ![d].cache = Head(w), ![d].read = @ + 1]
                           /\ poll' = [poll EXCEPT !.step = "write", !.didRead = TRUE]
    BY Zenon DEF ReadMessage
  <1> HIDE DEF w
  <1> DEFINE u == Tail(w)
  <1>5. u \in Seq(Nat) /\ Len(u) = Len(w) - 1 /\ \A i \in 1 .. Len(w) - 1 : u[i] = w[i + 1]
    BY <1>0, <1>2
  <1>6. /\ waiting' \in [Sides -> Seq(Nat)] /\ waiting'[From(d)] = u
        /\ \A s \in Sides : s # From(d) => waiting'[s] = waiting[s]
    BY <1>0, <1>2, <1>5, Zenon
  <1>7. Len(w) \in Nat \ {0} /\ DOMAIN w = 1 .. Len(w) /\ Head(w) = w[1] /\ copy[d].read + 1 # Empty
    BY <1>0, <1>2 DEF Empty
  <1> HIDE DEF u
  <1>10. w[1] = copy[d].read + 1 \/ (w[1] = Empty /\ 1 = Len(w) /\ closed[From(d)])
    <2>1. 1 \in DOMAIN w
      BY <1>7
    <2> QED
      BY <1>1, <2>1, Zenon
  <1>8. CASE Head(w) = Empty
    <2>1. Len(w) = 1 /\ closed[From(d)]
      BY <1>7, <1>8, <1>10, Zenon
    <2>2. supply[From(d)] = copy[d].read
      BY <1>0, <1>1, <1>2, <1>7, <1>8, <2>1
    <2>3. waiting'[From(d)] = <<>>
      <3>1. Len(u) = 0
        BY <1>5, <2>1
      <3> QED
        BY <1>5, <1>6, <3>1
    <2> QED
      BY <1>0, <1>3, <1>6, <1>8, <2>1, <2>2, <2>3, ReadStops, Zenon
  <1>9. CASE Head(w) # Empty
    <2> DEFINE c == [copy[d] EXCEPT !.cache = Head(w), !.read = @ + 1]
    <2>1. copy' = [copy EXCEPT ![d] = c]
      BY <1>4, <1>9, Zenon
    <2>2. Head(w) \in Nat /\ Head(w) = copy[d].read + 1
      BY <1>2, <1>7, <1>9, <1>10
    <2>3. /\ c \in CopyType /\ c.readDone = copy[d].readDone /\ c.state = copy[d].state /\ c.cache = Head(w)
          /\ c.read = copy[d].read + 1 /\ c.needFlush = copy[d].needFlush /\ c.answer = copy[d].answer
      BY <1>2, <2>2, Zenon DEF CopyType
    <2> HIDE DEF c
    <2>4. copy'[d] = c
      BY <1>2, <2>1, Zenon
    <2>5. poll' \in StepType /\ poll'.at = d /\ poll'.step = "write"
      BY <1>0, <1>2, <1>4, <1>9, Zenon DEF StepType
    <2>6. copy[d].cache = NoMessage /\ ~copy[d].readDone
      BY <1>0, Zenon DEF CopyInv, StepOK
    <2>7. WaitingInOrder(d)'
      <3>1. \A i \in DOMAIN u : u[i] = c.read + i \/ (u[i] = Empty /\ i = Len(u) /\ closed[From(d)])
        <4>0. DOMAIN u = 1 .. Len(w) - 1
          BY <1>5
        <4> SUFFICES ASSUME NEW i \in 1 .. Len(w) - 1
                     PROVE  u[i] = c.read + i \/ (u[i] = Empty /\ i = Len(u) /\ closed[From(d)])
          BY <4>0, Zenon
        <4>1. i \in 1 .. Len(w) - 1 /\ u[i] = w[i + 1] /\ i + 1 \in DOMAIN w
          BY <1>5, <1>7
        <4>2. w[i + 1] = copy[d].read + (i + 1) \/ (w[i + 1] = Empty /\ i + 1 = Len(w) /\ closed[From(d)])
          BY <1>1, <4>1, Zenon
        <4> QED
          <5>1. i \in Nat /\ Len(u) = Len(w) - 1 /\ c.read = copy[d].read + 1 /\ u[i] = w[i + 1]
            BY <1>5, <2>3, <4>1
          <5>3. copy[d].read \in Nat /\ Len(w) \in Nat
            BY <1>2
          <5>2. copy[d].read + (i + 1) = c.read + i /\ (i + 1 = Len(w) => i = Len(u))
            <6>1. copy[d].read + (i + 1) = c.read + i
              BY <5>1, <5>3, SMTT(30)
            <6>2. i + 1 = Len(w) => i = Len(u)
              BY <5>1, <5>3
            <6> QED
              BY <6>1, <6>2, Zenon
          <5> QED
            BY <4>2, <5>1, <5>2, Zenon
      <3>2. supply[From(d)] = IF u # <<>> /\ u[Len(u)] = Empty THEN (c.read + Len(u)) - 1 ELSE c.read + Len(u)
        <4>1. CASE Len(w) = 1
          <5>0. Len(u) = 0
            BY <1>5, <4>1
          <5>1. u = <<>>
            BY <1>5, <5>0
          <5>2. w[Len(w)] # Empty
            BY <1>7, <1>9, <4>1, Zenon
          <5> QED
            BY <1>1, <1>2, <2>3, <4>1, <5>0, <5>1, <5>2
        <4>2. CASE Len(w) # 1
          <5>1. u # <<>> /\ Len(u) = Len(w) - 1 /\ u[Len(u)] = w[Len(w)]
            <6>1. Len(u) \in 1 .. Len(w) - 1 /\ Len(u) + 1 = Len(w)
              BY <1>5, <1>7, <4>2
            <6> QED
              BY <1>5, <6>1
          <5>2. c.read + Len(u) = copy[d].read + Len(w) /\ (w # <<>>)
            BY <1>0, <1>2, <1>7, <2>3, <5>1
          <5> QED
            BY <1>1, <5>1, <5>2, Zenon
        <4> QED
          BY <4>1, <4>2, Zenon
      <3>3. ~c.readDone
        BY <2>3, <2>6, Zenon
      <3>4. u = waiting'[From(d)]
        BY <1>6, Zenon
      <3> QED
        BY <1>0, <2>4, <3>1, <3>2, <3>3, <3>4, Zenon DEF WaitingInOrder, Rest
    <2>8. EndIsClean(d)'
      BY <1>0, <2>3, <2>4, <2>6, Zenon DEF CopyInv, EndIsClean
    <2>9. StepOK(d)'
      BY <2>2, <2>3, <2>4, <2>5, CopyAssumption, Zenon DEF StepOK, In
    <2>10. (Got(d) \o Cached(d))' = UpTo(c.read)
      <3>1. Got(d)' = Got(d) /\ Got(d) \in Seq(Nat)
        BY <1>0, GotType, Zenon DEF Got
      <3>2. Cached(d) = <<>> /\ Cached(d)' = <<Head(w)>>
        BY <2>2, <2>3, <2>4, <2>6, CopyAssumption, Zenon DEF Cached
      <3>3. Got(d) = UpTo(copy[d].read)
        BY <3>1, <3>2, GotType, SMTT(30)
      <3> QED
        BY <1>2, <2>2, <2>3, <3>1, <3>2, <3>3, UpToNext, Zenon
    <2> QED
      BY <1>0, <1>2, <1>6, <2>1, <2>3, <2>5, <2>7, <2>8, <2>9, <2>10, InTask, TaskKeeps, Zenon
  <1> QED
    BY <1>8, <1>9, Zenon

LEMMA WriteMessageKeeps ==
  ASSUME CopyInv, NEW d \in Directions, WriteMessage(d)
  PROVE  CopyInv'
  <1>0. /\ poll.at = d /\ In(d, "write") /\ Give(To(d), copy[d].cache)
        /\ copy' = [copy EXCEPT ![d].cache = NoMessage, ![d].needFlush = TRUE]
        /\ poll' = [poll EXCEPT !.step = "flush", !.didWrite = TRUE]
        /\ UNCHANGED <<waiting, supply, closed, broken, clock, lastActive, result>>
    BY Zenon DEF WriteMessage, In, ends, timing
  <1> DEFINE c == [copy[d] EXCEPT !.cache = NoMessage, !.needFlush = TRUE]
             m == copy[d].cache
  <1>1. copy' = [copy EXCEPT ![d] = c]
    BY <1>0, Zenon
  <1>2. /\ c \in CopyType /\ c.needFlush /\ c.state = copy[d].state /\ c.cache = NoMessage
        /\ c.read = copy[d].read /\ c.readDone = copy[d].readDone /\ c.answer = copy[d].answer
    <2>1. copy[d] \in CopyType
      BY <1>0, InTask, Zenon
    <2> QED
      BY <2>1, Zenon DEF CopyType
  <1> HIDE DEF c
  <1>3. copy'[d] = c
    BY <1>0, <1>1, InTask, Zenon
  <1>4. poll' \in StepType /\ poll'.at = d /\ poll'.step = "flush"
    BY <1>0, InTask, Zenon DEF StepType
  <1>5. WaitingInOrder(d)'
    BY <1>0, <1>2, <1>3, Zenon DEF CopyInv, WaitingInOrder
  <1>6. m # NoMessage /\ m \in Nat
    <2>1. m # NoMessage
      BY <1>0, Zenon DEF CopyInv, StepOK
    <2> QED
      BY <1>0, <2>1, InTask, Zenon DEF CopyType
  <1>7. copy[d].state = "run"
    BY <1>6, Zenon DEF CopyInv, EndIsClean
  <1>8. EndIsClean(d)'
    <2>1. copy[d].answer # "ok"
      BY <1>7, Zenon DEF CopyInv, EndIsClean
    <2> QED
      BY <1>2, <1>3, <1>7, <2>1, Zenon DEF EndIsClean
  <1>9. StepOK(d)'
    BY <1>4, Zenon DEF StepOK, In
  <1>10. Cached(d) = <<m>> /\ Cached(d)' = <<>>
    BY <1>2, <1>3, <1>6, Zenon DEF Cached
  <1>11. Got(d) \o <<m>> = UpTo(c.read)
    BY <1>2, <1>10, GotType, Zenon
  <1>12. /\ written \in [Sides -> Seq(Nat)] /\ pendingWrite \in Seq(Nat) /\ To(d) \in Sides
         /\ written[To(d)] \in Seq(Nat) /\ waiting \in [Sides -> Seq(Nat)]
    BY <1>0, InTask, Zenon
  <1>x. ASSUME NEW a \in Seq(Nat), NEW b \in Seq(Nat), NEW n \in Nat
        PROVE  /\ Append(a, n) \o <<>> = (a \o <<>>) \o <<n>> /\ Append(a, n) \in Seq(Nat)
               /\ ((a \o b) \o <<n>>) \o <<>> = (a \o b) \o <<n>> /\ a \o b \in Seq(Nat)
               /\ (Append(a, n) \o <<>>) \o <<>> = (a \o <<>>) \o <<n>> /\ <<n>> \in Seq(Nat)
    OBVIOUS
  <1>13. CASE d = "up"
    <2>1. To(d) # "client"
      BY <1>13, Zenon DEF To
    <2>2. written' = [written EXCEPT ![To(d)] = Append(@, m)] /\ UNCHANGED pendingWrite
      BY <1>0, <2>1, Zenon DEF Give
    <2>3. /\ written' \in [Sides -> Seq(Nat)] /\ written'[To(d)] = Append(written[To(d)], m)
          /\ \A s \in Sides : s # To(d) => written'[s] = written[s]
      BY <1>6, <1>12, <2>2
    <2>4. Got(d)' = Append(written[To(d)], m) \o <<>> /\ Got(d) = written[To(d)] \o <<>>
      BY <1>13, <2>3, Zenon DEF Got
    <2>5. (Got(d) \o Cached(d))' = UpTo(c.read)
      <3>1. (Append(written[To(d)], m) \o <<>>) \o <<>> = (written[To(d)] \o <<>>) \o <<m>>
        BY <1>6, <1>12, <1>x, Zenon
      <3> QED
        BY <1>10, <1>11, <2>4, <3>1, Zenon
    <2>6. pendingWrite' \in Seq(Nat) /\ poll.at \in Directions
      BY <1>0, <1>12, <2>2, Zenon
    <2>7. waiting' \in [Sides -> Seq(Nat)] /\ \A s \in Sides : waiting'[s] = waiting[s]
      BY <1>0, <1>12, Zenon
    <2> QED
      BY <1>0, <1>1, <1>2, <1>4, <1>5, <1>8, <1>9, <2>2, <2>3, <2>5, <2>6, <2>7, TaskKeeps,
         Zenon
  <1>14. CASE d = "down"
    <2>1. To(d) = "client"
      BY <1>14, Zenon DEF To
    <2>2. written' = [written EXCEPT ![To(d)] = @ \o pendingWrite] /\ pendingWrite' = <<m>>
      BY <1>0, <2>1, Zenon DEF Give, Flushed
    <2>3. /\ written' \in [Sides -> Seq(Nat)] /\ written'[To(d)] = written[To(d)] \o pendingWrite
          /\ \A s \in Sides : s # To(d) => written'[s] = written[s]
      BY <1>12, <2>2
    <2>4. Got(d)' = (written[To(d)] \o pendingWrite) \o <<m>> /\ Got(d) = written[To(d)] \o pendingWrite
      BY <1>14, <2>2, <2>3, Zenon DEF Got
    <2>5. (Got(d) \o Cached(d))' = UpTo(c.read) /\ pendingWrite' \in Seq(Nat)
      <3>1. ((written[To(d)] \o pendingWrite) \o <<m>>) \o <<>> = (written[To(d)] \o pendingWrite) \o <<m>>
        BY <1>6, <1>12, <1>x, Zenon
      <3>2. <<m>> \in Seq(Nat)
        BY <1>6
      <3> QED
        BY <1>10, <1>11, <2>2, <2>4, <3>1, <3>2, Zenon
    <2>6. poll.at \in Directions /\ d # "up"
      BY <1>0, <1>14, Zenon
    <2>7. waiting' \in [Sides -> Seq(Nat)] /\ \A s \in Sides : waiting'[s] = waiting[s]
      BY <1>0, <1>12, Zenon
    <2> QED
      BY <1>0, <1>1, <1>2, <1>4, <1>5, <1>8, <1>9, <2>3, <2>5, <2>6, <2>7, TaskKeeps, Zenon
  <1> QED
    BY <1>13, <1>14, Zenon DEF Directions

LEMMA FlushMessageKeeps ==
  ASSUME CopyInv, NEW d \in Directions, FlushMessage(d)
  PROVE  CopyInv'
  <1>0. /\ poll.at = d /\ copy' = [copy EXCEPT ![d].needFlush = FALSE] /\ poll' = Enter(d, poll.before)
        /\ UNCHANGED <<waiting, supply, closed, broken, clock, lastActive, result>>
    BY Zenon DEF FlushMessage, In, ends, timing
  <1> DEFINE c == [copy[d] EXCEPT !.needFlush = FALSE]
  <1>1. copy' = [copy EXCEPT ![d] = c]
    BY <1>0, Zenon
  <1>2. /\ c \in CopyType /\ c.state = copy[d].state /\ c.cache = copy[d].cache
        /\ c.read = copy[d].read /\ c.readDone = copy[d].readDone /\ c.answer = copy[d].answer
    <2>1. copy[d] \in CopyType
      BY <1>0, InTask, Zenon
    <2> QED
      BY <2>1, Zenon DEF CopyType
  <1> HIDE DEF c
  <1>3. copy'[d] = c
    BY <1>0, <1>1, InTask, Zenon
  <1>4. poll' \in StepType /\ poll'.at = d /\ StepOK(d)'
    BY <1>0, <1>2, <1>3, Entered, InTask DEF CopyInv, StepOK, In
  <1>5. WaitingInOrder(d)'
    BY <1>0, <1>2, <1>3, Zenon DEF CopyInv, WaitingInOrder
  <1>6. Cached(d)' = Cached(d)
    BY <1>2, <1>3, Zenon DEF Cached
  <1>7. /\ written \in [Sides -> Seq(Nat)] /\ pendingWrite \in Seq(Nat) /\ To(d) \in Sides
        /\ written[To(d)] \in Seq(Nat) /\ waiting \in [Sides -> Seq(Nat)]
    BY <1>0, InTask, Zenon
  <1>8. Got(d) \o Cached(d) = UpTo(c.read) /\ Got(d) \in Seq(Nat)
    BY <1>2, GotType, Zenon
  <1>11. /\ waiting' \in [Sides -> Seq(Nat)] /\ poll.at \in Directions
         /\ \A s \in Sides : waiting'[s] = waiting[s]
    BY <1>0, <1>7, Zenon
  <1>9. CASE d = "up"
    <2>1. UNCHANGED <<written, pendingWrite>>
      BY <1>9, Zenon DEF FlushMessage, To
    <2>2. EndIsClean(d)'
      BY <1>2, <1>3, <1>9 DEF CopyInv, EndIsClean
    <2>3. Got(d)' = Got(d)
      BY <2>1, Zenon DEF Got
    <2>4. /\ pendingWrite' \in Seq(Nat) /\ written' \in [Sides -> Seq(Nat)]
          /\ \A s \in Sides : written'[s] = written[s]
      BY <1>7, <2>1, Zenon
    <2>5. (Got(d) \o Cached(d))' = UpTo(c.read)
      BY <1>6, <1>8, <2>3, Zenon
    <2>6. d = "up" => UNCHANGED pendingWrite
      BY <2>1, Zenon
    <2>7. \A s \in Sides : s # To(d) => written'[s] = written[s]
      BY <2>4, Zenon
    <2> QED
      BY <1>0, <1>1, <1>2, <1>4, <1>5, <1>11, <2>2, <2>4, <2>5, <2>6, <2>7, TaskKeeps,
         ZenonT(30)
  <1>10. CASE d = "down"
    <2>1. written' = [written EXCEPT ![To(d)] = @ \o pendingWrite] /\ pendingWrite' = <<>>
      BY <1>10, Zenon DEF FlushMessage, To, Flushed
    <2>2. EndIsClean(d)'
      BY <1>2, <1>3, <2>1, Zenon DEF CopyInv, EndIsClean
    <2>3. /\ written' \in [Sides -> Seq(Nat)] /\ written'[To(d)] = written[To(d)] \o pendingWrite
          /\ \A s \in Sides : s # To(d) => written'[s] = written[s]
      BY <1>7, <2>1
    <2>4. Got(d)' = (written[To(d)] \o pendingWrite) \o <<>> /\ Got(d) = written[To(d)] \o pendingWrite
      BY <1>10, <2>1, <2>3, Zenon DEF Got
    <2>5. Got(d)' = Got(d) /\ pendingWrite' \in Seq(Nat)
      BY <1>7, <2>1, <2>4
    <2>6. (Got(d) \o Cached(d))' = UpTo(c.read)
      BY <1>6, <1>8, <2>5, Zenon
    <2>7. d # "up"
      BY <1>10, Zenon
    <2> QED
      BY <1>0, <1>1, <1>2, <1>4, <1>5, <1>11, <2>2, <2>3, <2>5, <2>6, <2>7, TaskKeeps,
         ZenonT(30)
  <1> QED
    BY <1>9, <1>10, Zenon DEF Directions

LEMMA CopyDoneKeeps ==
  ASSUME CopyInv, NEW d \in Directions, CopyDone(d)
  PROVE  CopyInv'
  <1>0. /\ poll.at = d /\ copy' = [copy EXCEPT ![d].state = "shut"] /\ poll' = [poll EXCEPT !.step = "shut"]
        /\ ~copy[d].needFlush /\ copy[d].readDone /\ copy[d].cache = NoMessage
        /\ UNCHANGED <<waiting, supply, closed, broken, clock, lastActive, result, written, pendingWrite>>
    BY Zenon DEF CopyDone, In, ends, timing
  <1> DEFINE c == [copy[d] EXCEPT !.state = "shut"]
  <1>1. copy' = [copy EXCEPT ![d] = c]
    BY <1>0, Zenon
  <1>2. /\ c \in CopyType /\ c.state = "shut" /\ c.cache = copy[d].cache /\ c.needFlush = copy[d].needFlush
        /\ c.read = copy[d].read /\ c.readDone = copy[d].readDone /\ c.answer = copy[d].answer
    <2>1. copy[d] \in CopyType
      BY <1>0, InTask, Zenon
    <2> QED
      BY <2>1, Zenon DEF CopyType
  <1> HIDE DEF c
  <1>3. copy'[d] = c
    BY <1>0, <1>1, InTask, Zenon
  <1>4. poll' \in StepType /\ poll'.at = d /\ poll'.step = "shut"
    BY <1>0, InTask, Zenon DEF StepType
  <1>5. WaitingInOrder(d)'
    BY <1>0, <1>2, <1>3, Zenon DEF CopyInv, WaitingInOrder
  <1>6. EndIsClean(d)'
    BY <1>0, <1>2, <1>3, Zenon DEF CopyInv, EndIsClean
  <1>7. StepOK(d)'
    BY <1>2, <1>3, <1>4, Zenon DEF StepOK, In
  <1>8. (Got(d) \o Cached(d))' = UpTo(c.read)
    <2>1. Got(d)' = Got(d)
      BY <1>0, Zenon DEF Got
    <2>2. Cached(d)' = Cached(d)
      BY <1>2, <1>3, Zenon DEF Cached
    <2> QED
      BY <1>2, <2>1, <2>2, GotType, Zenon
  <1> QED
    BY <1>0, <1>1, <1>2, <1>4, <1>5, <1>6, <1>7, <1>8, InTask, TaskKeeps, ZenonT(30)

(***************************************************************************)
(* The two ends.                                                           *)
(***************************************************************************)
LEMMA CloseFlushesKeeps ==
  ASSUME CopyInv, CloseFlushes
  PROVE  CopyInv'
  <1>1. /\ written' = [written EXCEPT !["client"] = @ \o pendingWrite] /\ pendingWrite' = <<>>
        /\ poll.at = "closing"
        /\ UNCHANGED <<waiting, supply, closed, broken, copy, poll, clock, lastActive, result>>
    BY Zenon DEF CloseFlushes, Flushed, ends, timing
  <1>2. written \in [Sides -> Seq(Nat)] /\ pendingWrite \in Seq(Nat) /\ "client" \in Sides /\ "socket" \in Sides
    BY Zenon DEF CopyInv, CopyTypeOK, Sides
  <1>3. /\ written' \in [Sides -> Seq(Nat)] /\ written'["client"] = written["client"] \o pendingWrite
        /\ written'["socket"] = written["socket"] /\ pendingWrite' \in Seq(Nat)
    BY <1>1, <1>2
  <1>4. CopyTypeOK'
    BY <1>1, <1>3, Zenon DEF CopyInv, CopyTypeOK
  <1>5. CopiedInOrder'
    <2>1. ASSUME NEW d \in Directions PROVE Got(d)' = Got(d) /\ Cached(d)' = Cached(d)
      <3>1. Cached(d)' = Cached(d)
        BY <1>1, Zenon DEF Cached
      <3>2. CASE d = "up"
        BY <1>3, <3>1, <3>2, Zenon DEF Got, To
      <3>3. CASE d = "down"
        <4>1. Got(d)' = (written["client"] \o pendingWrite) \o <<>> /\ Got(d) = written["client"] \o pendingWrite
          BY <1>1, <1>3, <3>3, Zenon DEF Got, To
        <4> QED
          BY <1>2, <3>1, <4>1
      <3> QED
        BY <3>2, <3>3, Zenon DEF Directions
    <2>2. \A d \in Directions : (Got(d) \o Cached(d))' = UpTo(copy'[d].read)
      BY <1>1, <2>1, GotType, Zenon
    <2> QED
      BY <2>2, Zenon DEF CopiedInOrder, Got, UpTo
  <1>6. ResultOK'
    BY <1>1, Zenon DEF CopyInv, ResultOK
  <1>7. ASSUME NEW d \in Directions PROVE (WaitingInOrder(d) /\ EndIsClean(d) /\ StepOK(d))'
    BY <1>1, Zenon DEF CopyInv, WaitingInOrder, EndIsClean, StepOK, In
  <1> QED
    BY <1>4, <1>5, <1>6, <1>7, Zenon DEF CopyInv

LEMMA SendsKeeps ==
  ASSUME CopyInv, NEW s \in Sides, NEW m \in {Empty, 1}, Sends(s, m)
  PROVE  CopyInv'
  <1> DEFINE w == waiting[s]
             x == IF m = Empty THEN Empty ELSE supply[s] + 1
  <1>1. /\ ~closed[s] /\ ~broken[s] /\ waiting' = [waiting EXCEPT ![s] = Append(w, x)]
        /\ supply' = [supply EXCEPT ![s] = IF m = Empty THEN @ ELSE @ + 1]
        /\ closed' = [closed EXCEPT ![s] = m = Empty]
        /\ UNCHANGED <<broken, pendingWrite, written, copy, poll, clock, lastActive, result>>
    BY Zenon DEF Sends, timing
  <1>2. /\ waiting \in [Sides -> Seq(Nat)] /\ w \in Seq(Nat) /\ supply \in [Sides -> Nat]
        /\ supply[s] \in Nat /\ closed \in [Sides -> BOOLEAN]
    BY Zenon DEF CopyInv, CopyTypeOK
  <1>3. x \in Nat /\ (m = Empty) \in BOOLEAN
    BY <1>2 DEF Empty
  <1>4. /\ waiting' \in [Sides -> Seq(Nat)] /\ waiting'[s] = Append(w, x)
        /\ \A t \in Sides : t # s => waiting'[t] = waiting[t]
    BY <1>1, <1>2, <1>3
  <1>5. /\ supply' \in [Sides -> Nat] /\ supply'[s] = (IF m = Empty THEN supply[s] ELSE supply[s] + 1)
        /\ \A t \in Sides : t # s => supply'[t] = supply[t]
    BY <1>1, <1>2
  <1>6. /\ closed' \in [Sides -> BOOLEAN] /\ closed'[s] = (m = Empty)
        /\ \A t \in Sides : t # s => closed'[t] = closed[t]
    BY <1>1, <1>2, <1>3, Zenon
  <1>7. CopyTypeOK'
    BY <1>1, <1>4, <1>5, <1>6, Zenon DEF CopyInv, CopyTypeOK
  <1>8. CopiedInOrder' /\ ResultOK' /\ \A d \in Directions : (EndIsClean(d) /\ StepOK(d))'
    BY <1>1, Zenon DEF CopyInv, CopiedInOrder, Cached, ResultOK, EndIsClean, StepOK, In
  <1>9. ASSUME NEW d \in Directions, From(d) # s PROVE WaitingInOrder(d)'
    <2>1. /\ waiting'[From(d)] = waiting[From(d)] /\ supply'[From(d)] = supply[From(d)]
          /\ closed'[From(d)] = closed[From(d)]
      BY <1>4, <1>5, <1>6, <1>9, Ends, Zenon
    <2>2. UNCHANGED <<copy, broken>>
      BY <1>1, Zenon
    <2>3. WaitingInOrder(d)
      BY Zenon DEF CopyInv
    <2> QED
      BY <2>1, <2>2, <2>3, Zenon DEF WaitingInOrder
  <1>10. ASSUME NEW d \in Directions, From(d) = s PROVE WaitingInOrder(d)'
    <2>1. /\ \A i \in DOMAIN w : w[i] = copy[d].read + i
          /\ ~copy[d].readDone
      BY <1>1, <1>10, Zenon DEF CopyInv, WaitingInOrder, Rest
    <2>2. copy[d].read \in Nat /\ DOMAIN w = 1 .. Len(w) /\ Len(w) \in Nat
      BY <1>2 DEF CopyInv, CopyTypeOK, CopyType
    <2>3. w # <<>> => w[Len(w)] # Empty
      <3> SUFFICES ASSUME w # <<>> PROVE w[Len(w)] # Empty
        BY Zenon
      <3>1. Len(w) \in DOMAIN w /\ Len(w) > 0
        BY <1>2
      <3> QED
        BY <2>1, <2>2, <3>1 DEF Empty
    <2>4. supply[s] = copy[d].read + Len(w)
      BY <1>10, <2>3, Zenon DEF CopyInv, WaitingInOrder, Rest
    <2> DEFINE u == Append(w, x)
    <2>5. /\ u \in Seq(Nat) /\ Len(u) = Len(w) + 1 /\ u[Len(w) + 1] = x /\ DOMAIN u = 1 .. Len(w) + 1
          /\ \A i \in 1 .. Len(w) : u[i] = w[i]
      BY <1>2, <1>3
    <2> HIDE DEF u
    <2>6. u # <<>> /\ u[Len(u)] = x
      BY <2>5, <2>2
    <2>7. x = Empty <=> m = Empty
      BY <1>2 DEF Empty
    <2>8. x = Empty \/ x = copy[d].read + (Len(w) + 1)
      BY <2>2, <2>4
    <2> HIDE DEF x, w
    <2>9. ASSUME NEW i \in DOMAIN u
          PROVE  u[i] = copy[d].read + i \/ (u[i] = Empty /\ i = Len(u) /\ closed'[s])
      <3>1. i \in 1 .. Len(w) \/ i = Len(w) + 1
        BY <2>2, <2>5
      <3>2. CASE i \in 1 .. Len(w)
        BY <2>1, <2>2, <2>5, <3>2, Zenon
      <3>3. CASE i = Len(w) + 1
        BY <1>6, <2>5, <2>7, <2>8, <3>3, Zenon
      <3> QED
        BY <3>1, <3>2, <3>3, Zenon
    <2>10. supply'[s] = IF u # <<>> /\ u[Len(u)] = Empty THEN (copy[d].read + Len(u)) - 1 ELSE copy[d].read + Len(u)
      <3>1. (copy[d].read + Len(u)) - 1 = supply[s]
        BY <2>2, <2>4, <2>5
      <3>2. copy[d].read + Len(u) = supply[s] + 1
        BY <2>2, <2>4, <2>5, SMTT(30)
      <3> QED
        BY <1>5, <2>6, <2>7, <3>1, <3>2, Zenon
    <2>11. waiting'[From(d)] = u
      BY <1>4, <1>10, Zenon DEF u
    <2>12. copy'[d] = copy[d]
      BY <1>1, Zenon
    <2> QED
      BY <1>10, <2>1, <2>9, <2>10, <2>11, <2>12, Zenon DEF WaitingInOrder, Rest
  <1> QED
    BY <1>7, <1>8, <1>9, <1>10, Zenon DEF CopyInv

LEMMA CopyInvNext ==
  ASSUME CopyInv, [CopyNext]_copyVars
  PROVE  CopyInv'
  <1>1. CASE UNCHANGED copyVars
    <2>1. UNCHANGED core /\ UNCHANGED <<broken, clock, lastActive, poll, result>>
      BY <1>1, Zenon DEF copyVars, ends, timing, core
    <2>2. Fits(poll')
      BY <2>1, Zenon DEF CopyInv, CopyTypeOK, Fits, StepOK, In
    <2>3. ResultOK'
      BY <2>1, Zenon DEF CopyInv, ResultOK, core
    <2> QED
      BY <2>1, <2>2, <2>3, CoreStays, Zenon DEF CopyInv, CopyTypeOK
  <1>2. CASE CopyTick \/ TimerFires \/ \E s \in Sides : RoomBack(s) \/ Breaks(s)
    BY <1>2, OutsideSteps, Zenon
  <1>3. ASSUME NEW s \in Sides, NEW m \in {Empty, 1}, Sends(s, m) PROVE CopyInv'
    BY <1>3, SendsKeeps, Zenon
  <1>4. ASSUME NEW d \in Directions, Transfer(d) PROVE CopyInv'
    BY <1>4, ReadMessageKeeps, WaitKeeps, ReturnsKeep, WriteMessageKeeps, FlushMessageKeeps,
       CopyDoneKeeps, Zenon
       DEF Transfer
  <1>5. CASE ShutFails \/ ShutPends
    <2>1. "down" \in Directions
      BY Zenon DEF Directions
    <2> QED
      BY <1>5, <2>1, ReturnsKeep, Zenon
  <1>6. CASE StartPoll \/ ReadEnds \/ EndPoll \/ CloseFlushes \/ CopyOver
    BY <1>6, StartPollKeeps, ReadEndsKeeps, EndPollKeeps, CloseFlushesKeeps, CopyOverKeeps,
       Zenon
  <1> QED
    BY <1>1, <1>2, <1>3, <1>4, <1>5, <1>6, Zenon DEF CopyNext, CopyTask

LEMMA CopyInvAlways == CopySpec => []CopyInv
  <1>1. CopyInv /\ [CopyNext]_copyVars => CopyInv'
    BY CopyInvNext, Zenon
  <1> QED
    BY CopyInvInit, <1>1, PTL DEF CopySpec

(* Each side of a UDP-over-AnyTLS association is given what the other side sent, in     *)
(* order, none lost and none twice, at every step of copy_bidirectional_message and     *)
(* after its end, for every number of messages and every interleaving of the two        *)
(* directions with failures, full buffers and the timer.                                *)
THEOREM MessagesCopiedInOrder == CopySpec => []CopiedInOrder
  <1>1. CopyInv => CopiedInOrder
    BY Zenon DEF CopyInv
  <1> QED
    BY <1>1, CopyInvAlways, PTL

(* When run_udp_copy's copy says Ok, one side had ended and the other one had been      *)
(* given, flushed, everything that came before the end; or nothing was read for         *)
(* ASSOCIATION_TIMEOUT.                                                                 *)
THEOREM OkIsComplete == CopySpec => []OkMeansDone
  <1>1. ASSUME CopyInv PROVE OkMeansDone
    <2> SUFFICES ASSUME result = "ok", NEW d \in Directions, copy[d].state # "run"
                 PROVE  (closed[From(d)] \/ broken[From(d)]) /\ Len(written[To(d)]) = supply[From(d)]
      BY <1>1, Zenon DEF CopyInv, ResultOK, OkMeansDone
    <2>1. copy[d].readDone /\ copy[d].cache = NoMessage /\ (d = "down" => pendingWrite = <<>>)
      BY <1>1, Zenon DEF CopyInv, EndIsClean
    <2>2. /\ waiting[From(d)] = <<>> /\ (closed[From(d)] \/ broken[From(d)])
          /\ supply[From(d)] = copy[d].read + Len(waiting[From(d)])
      BY <1>1, <2>1, Zenon DEF CopyInv, WaitingInOrder, Rest
    <2>3. copy[d].read \in Nat /\ written[To(d)] \in Seq(Nat)
      BY <1>1, Ends, Zenon DEF CopyInv, CopyTypeOK, CopyType
    <2>4. Got(d) = written[To(d)] \o <<>> /\ Cached(d) = <<>>
      BY <2>1, Zenon DEF Got, Cached
    <2>5. written[To(d)] = UpTo(copy[d].read)
      <3>1. written[To(d)] \o <<>> = written[To(d)]
        BY <2>3
      <3>2. Got(d) \in Seq(Nat) /\ Got(d) \o Cached(d) = UpTo(copy[d].read)
        BY <1>1, GotType, Zenon
      <3> QED
        BY <2>4, <3>1, <3>2, Zenon
    <2>6. Len(written[To(d)]) = copy[d].read
      BY <2>3, <2>5, UpToNext, Zenon
    <2> QED
      BY <2>2, <2>3, <2>6
  <1> QED
    BY <1>1, CopyInvAlways, PTL

SentPacket == [dest : {p.dest : p \in Packets}, head : Nat \ {0}, size : Nat, bad : Nat,
               first : Nat \ {0}]
Delivered == [dest : {p.dest : p \in Packets}, bytes : Seq(Nat)]

PacketTypeOK ==
    /\ data \in [0 .. PktSize - 1 -> Nat]
    /\ pstart \in 0 .. PktSize /\ pend \in 0 .. PktSize /\ pstart <= pend
    /\ arrived \in Nat /\ sentBytes \in Nat /\ done \in Nat
    /\ sent \in Seq(SentPacket) /\ delivered \in Seq(Delivered)
    /\ pktState \in {"open", "eof", "invalid", "full", "failed"}

(* The buffer holds the bytes that follow the packets delivered, up to the last one   *)
(* taken from the stream.                                                            *)
HoldsRest ==
    /\ arrived = done + Buffered /\ arrived <= sentBytes
    /\ \A i \in 0 .. PktSize - 1 :
           pstart <= i /\ i < pend => data[i] = done + (i - pstart) + 1

End(p) == p.first + Total(p)

(* The packets follow each other in the stream. *)
SentInOrder ==
    /\ \A j, k \in 1 .. Len(sent) : j < k => End(sent[j]) <= sent[k].first
    /\ \A k \in 1 .. Len(sent) :
           IF k = Len(sent) THEN End(sent[k]) = sentBytes + 1
                            ELSE End(sent[k]) = sent[k + 1].first

(* The next packet to deliver starts with the first byte that is not delivered. *)
NextIsFirst ==
    /\ Len(delivered) <= Len(sent)
    /\ IF Len(delivered) = Len(sent) THEN done = sentBytes
                                     ELSE sent[Len(delivered) + 1].first = done + 1

PacketInv == PacketTypeOK /\ HoldsRest /\ SentInOrder /\ NextIsFirst /\ PacketsWhole

LEMMA PacketInvInit == PacketInit => PacketInv
  BY PacketAssumption
  DEF PacketInit, PacketInv, PacketTypeOK, HoldsRest, SentInOrder, NextIsFirst, PacketsWhole,
      Buffered

LEMMA SizeFact == PktSize \in Nat /\ Threshold \in Nat /\ Threshold < PktSize
  BY PacketAssumption, Zenon

LEMMA EndAfterFirst ==
  ASSUME NEW p \in SentPacket
  PROVE  p.first \in Nat /\ Total(p) \in Nat /\ End(p) \in Nat /\ p.first < End(p)
  BY DEF SentPacket, End, Total

(* The packet at the front of a buffer that is not empty is the next to deliver. *)
LEMMA FrontIsNext ==
  ASSUME PacketInv, Buffered > 0
  PROVE  Len(delivered) + 1 \in 1 .. Len(sent) /\ AtFront = {Len(delivered) + 1}
  <1> USE SizeFact
  <1>1. Len(delivered) + 1 \in 1 .. Len(sent) /\ sent[Len(delivered) + 1].first = done + 1
    BY DEF PacketInv, PacketTypeOK, HoldsRest, NextIsFirst, Buffered
  <1>2. data[pstart] = done + 1
    BY DEF PacketInv, PacketTypeOK, HoldsRest, Buffered
  <1>3. Len(delivered) + 1 \in AtFront
    BY <1>1, <1>2 DEF AtFront, PacketInv, PacketTypeOK
  <1>4. ASSUME NEW k \in AtFront PROVE k = Len(delivered) + 1
    <2>1. k \in 1 .. Len(sent) /\ sent[k].first = done + 1
      BY <1>2, <1>4 DEF AtFront, PacketInv, PacketTypeOK
    <2>2. ASSUME NEW j \in 1 .. Len(sent), NEW l \in 1 .. Len(sent), j < l
          PROVE  sent[j].first # sent[l].first
      <3>1. End(sent[j]) <= sent[l].first
        BY <2>2, Zenon DEF PacketInv, SentInOrder
      <3>2. sent[j] \in SentPacket /\ sent[l] \in SentPacket
        BY <2>2 DEF PacketInv, PacketTypeOK
      <3> QED
        BY <3>1, <3>2, EndAfterFirst
    <2>3. ~(k < Len(delivered) + 1) /\ ~(Len(delivered) + 1 < k)
      BY <1>1, <2>1, <2>2, Zenon
    <2> QED
      BY <1>1, <2>1, <2>3
  <1> QED
    BY <1>1, <1>3, <1>4, Zenon

LEMMA SendKeeps ==
  ASSUME PacketInv, NEW p \in Packets, ClientSendsPacket(p)
  PROVE  PacketInv'
  <1> USE SizeFact
  <1> DEFINE q == [dest |-> p.dest, head |-> p.head, size |-> p.size, bad |-> p.bad,
                   first |-> sentBytes + 1]
  <1>1. sent' = Append(sent, q) /\ sentBytes' = sentBytes + Total(p)
        /\ UNCHANGED <<slide, arrived, delivered, done, pktState>>
    BY Zenon DEF ClientSendsPacket
  <1>2. q \in SentPacket /\ Total(p) \in Nat /\ End(q) = sentBytes' + 1
    <2>1. p.head \in Nat \ {0} /\ p.size \in Nat /\ p.bad \in Nat
      BY PacketAssumption, Zenon
    <2>2. sentBytes \in Nat
      BY Zenon DEF PacketInv, PacketTypeOK
    <2>3. q \in SentPacket
      BY <2>1, <2>2 DEF SentPacket
    <2>4. Total(p) = p.head + p.size /\ End(q) = (sentBytes + 1) + (p.head + p.size)
      BY Zenon DEF Total, End
    <2> QED
      BY <1>1, <2>1, <2>2, <2>3, <2>4
  <1>3. sent' \in Seq(SentPacket) /\ Len(sent') = Len(sent) + 1 /\ sent'[Len(sent) + 1] = q
        /\ \A k \in 1 .. Len(sent) : sent'[k] = sent[k]
    BY <1>1, <1>2 DEF PacketInv, PacketTypeOK
  <1> HIDE DEF q
  <1>4. Len(sent) \in Nat /\ sentBytes \in Nat /\ q.first = sentBytes + 1
    BY DEF PacketInv, PacketTypeOK, q
  <1>5. PacketTypeOK'
    <2>1. sentBytes' \in Nat
      BY <1>1, <1>2, <1>4
    <2> QED
      BY <1>1, <1>3, <2>1, Zenon DEF PacketInv, PacketTypeOK, slide
  <1>6. HoldsRest'
    BY <1>1, <1>2, <1>4 DEF PacketInv, PacketTypeOK, HoldsRest, Buffered, slide
  <1>7. SentInOrder'
    <2>1. ASSUME NEW j \in 1 .. Len(sent'), NEW k \in 1 .. Len(sent'), j < k
          PROVE  End(sent'[j]) <= sent'[k].first
      <3>1. CASE k = Len(sent) + 1
        <4>1. j \in 1 .. Len(sent) /\ sent'[j] = sent[j] /\ sent'[k] = q
          BY <1>3, <1>4, <2>1, <3>1
        <4>2. End(sent[j]) <= sentBytes + 1
          <5>1. CASE j = Len(sent)
            BY <1>4, <4>1, <5>1 DEF PacketInv, SentInOrder
          <5>2. CASE j # Len(sent)
            <6>1. Len(sent) \in 1 .. Len(sent) /\ j < Len(sent)
              BY <1>4, <4>1, <5>2
            <6>2. End(sent[j]) <= sent[Len(sent)].first /\ End(sent[Len(sent)]) = sentBytes + 1
              BY <4>1, <6>1, Zenon DEF PacketInv, SentInOrder
            <6>3. sent[Len(sent)] \in SentPacket /\ sent[j] \in SentPacket
              BY <4>1, <6>1 DEF PacketInv, PacketTypeOK
            <6> QED
              BY <1>4, <6>2, <6>3, EndAfterFirst
          <5> QED
            BY <5>1, <5>2, Zenon
        <4> QED
          BY <1>4, <4>1, <4>2, Zenon
      <3>2. CASE k # Len(sent) + 1
        <4>1. /\ j \in 1 .. Len(sent) /\ k \in 1 .. Len(sent)
              /\ sent'[j] = sent[j] /\ sent'[k] = sent[k]
          BY <1>3, <1>4, <2>1, <3>2
        <4> QED
          BY <2>1, <4>1, Zenon DEF PacketInv, SentInOrder
      <3> QED
        BY <3>1, <3>2, Zenon
    <2>2. ASSUME NEW k \in 1 .. Len(sent')
          PROVE  IF k = Len(sent') THEN End(sent'[k]) = sentBytes' + 1
                                   ELSE End(sent'[k]) = sent'[k + 1].first
      <3>1. CASE k = Len(sent) + 1
        BY <1>2, <1>3, <3>1, Zenon
      <3>2. CASE k # Len(sent) + 1
        <4>1. k \in 1 .. Len(sent) /\ sent'[k] = sent[k]
          BY <1>3, <1>4, <3>2
        <4>2. CASE k = Len(sent)
          BY <1>3, <1>4, <4>1, <4>2 DEF PacketInv, SentInOrder
        <4>3. CASE k # Len(sent)
          <5>1. k + 1 \in 1 .. Len(sent) /\ sent'[k + 1] = sent[k + 1] /\ k # Len(sent')
            BY <1>3, <1>4, <4>1, <4>3
          <5> QED
            BY <4>1, <4>3, <5>1, Zenon DEF PacketInv, SentInOrder
        <4> QED
          BY <4>2, <4>3, Zenon
      <3> QED
        BY <3>1, <3>2, Zenon
    <2> QED
      BY <2>1, <2>2, Zenon DEF SentInOrder
  <1>8. Len(delivered) \in Nat /\ Len(delivered) <= Len(sent) /\ delivered' = delivered
    BY <1>1 DEF PacketInv, PacketTypeOK, NextIsFirst
  <1>9. NextIsFirst'
    <2>1. CASE Len(delivered) = Len(sent)
      BY <1>1, <1>3, <1>4, <1>8, <2>1 DEF PacketInv, NextIsFirst
    <2>2. CASE Len(delivered) # Len(sent)
      <3>1. sent'[Len(delivered) + 1] = sent[Len(delivered) + 1]
        BY <1>3, <1>4, <1>8, <2>2
      <3> QED
        BY <1>1, <1>3, <1>4, <1>8, <2>2, <3>1 DEF PacketInv, NextIsFirst
    <2> QED
      BY <2>1, <2>2, Zenon
  <1>10. PacketsWhole'
    <2>1. \A k \in DOMAIN delivered : k \in 1 .. Len(sent)
      BY <1>4, <1>8 DEF PacketInv, PacketTypeOK
    <2>2. Len(delivered) < Len(sent) => sent'[Len(delivered) + 1] = sent[Len(delivered) + 1]
      BY <1>3, <1>4, <1>8
    <2> QED
      BY <1>1, <1>3, <1>4, <1>8, <2>1, <2>2 DEF PacketInv, PacketsWhole
  <1> QED
    BY <1>5, <1>6, <1>7, <1>9, <1>10, Zenon DEF PacketInv

LEMMA DeliverKeeps ==
  ASSUME PacketInv, NEW k \in 1 .. MaxPackets, Deliver(k)
  PROVE  PacketInv'
  <1> USE SizeFact
  <1> DEFINE p == sent[k]
             d == [dest |-> p.dest, bytes |-> [i \in 1 .. p.size |-> data[pstart + p.head + i - 1]]]
  <1>1. k \in AtFront /\ p.bad = 0 /\ Buffered >= Total(p) /\ pktState = "open"
    BY Zenon DEF Deliver, Complete
  <1>2. /\ delivered' = Append(delivered, d) /\ done' = done + Total(p)
        /\ ConsumePacket(Total(p)) /\ UNCHANGED <<data, arrived, sent, sentBytes, pktState>>
    BY Zenon DEF Deliver
  <1>3. Buffered > 0
    BY <1>1, Zenon DEF AtFront
  <1>4. k = Len(delivered) + 1 /\ k \in 1 .. Len(sent)
    BY <1>1, <1>3, FrontIsNext, Zenon
  <1>5. p \in SentPacket /\ p.first = done + 1
    BY <1>4 DEF PacketInv, PacketTypeOK, NextIsFirst
  <1> HIDE DEF p
  <1>6. PICK h \in Nat, z \in Nat : p.head = h /\ p.size = z /\ Total(p) = h + z /\ h > 0
    BY <1>5 DEF SentPacket, Total
  <1>7. \A i \in 1 .. z : data[pstart + h + i - 1] = p.first + h + i - 1
    <2> SUFFICES ASSUME NEW i \in 1 .. z
                 PROVE  data[pstart + h + i - 1] = p.first + h + i - 1
      BY Zenon
    <2>1. pstart + h + i - 1 \in pstart .. pend - 1
      <3>1. pend - pstart >= h + z
        BY <1>1, <1>6, Zenon DEF Buffered
      <3> QED
        BY <3>1 DEF PacketInv, PacketTypeOK
    <2>2. data[pstart + h + i - 1] = done + ((pstart + h + i - 1) - pstart) + 1
      BY <2>1 DEF PacketInv, PacketTypeOK, HoldsRest
    <2>3. pstart \in Nat /\ done \in Nat
      BY DEF PacketInv, PacketTypeOK
    <2> QED
      BY <1>5, <2>2, <2>3
  <1>8. SameAs(d, p)
    <2>1. [i \in 1 .. z |-> data[pstart + h + i - 1]] = [i \in 1 .. z |-> p.first + h + i - 1]
      BY <1>7, Zenon
    <2> QED
      BY <1>6, <2>1, Zenon DEF SameAs
  <1> HIDE DEF d
  <1>9. d \in Delivered
    <2>1. [i \in 1 .. z |-> p.first + h + i - 1] \in Seq(Nat)
      <3>1. p.first \in Nat
        BY <1>5, Zenon DEF SentPacket
      <3>2. \A i \in 1 .. z : p.first + h + i - 1 \in Nat
        BY <1>6, <3>1
      <3> QED
        BY <3>2
    <2>2. p.dest \in {r.dest : r \in Packets}
      BY <1>5, Zenon DEF SentPacket
    <2>3. d = [dest |-> p.dest, bytes |-> [i \in 1 .. z |-> p.first + h + i - 1]]
      BY <1>6, <1>8, Zenon DEF SameAs
    <2> QED
      BY <2>1, <2>2, <2>3, Zenon DEF Delivered
  <1>10. /\ delivered' \in Seq(Delivered) /\ Len(delivered') = k /\ delivered'[k] = d
         /\ \A j \in 1 .. Len(delivered) : delivered'[j] = delivered[j]
         /\ Len(delivered) \in Nat
    BY <1>2, <1>4, <1>9 DEF PacketInv, PacketTypeOK
  <1>11. /\ pstart' \in 0 .. PktSize /\ pend' \in 0 .. PktSize /\ pstart' <= pend'
         /\ Buffered' = Buffered - (h + z)
         /\ pstart' < pend' => pstart' = pstart + (h + z) /\ pend' = pend
    <2>1. pend - pstart >= h + z
      BY <1>1, <1>6, Zenon DEF Buffered
    <2>2. CASE pstart + (h + z) >= pend
      <3>1. pstart' = 0 /\ pend' = 0 /\ pend - pstart = h + z
        BY <1>2, <1>6, <2>1, <2>2 DEF ConsumePacket, PacketInv, PacketTypeOK
      <3> QED
        BY <3>1 DEF PacketInv, PacketTypeOK, Buffered
    <2>3. CASE ~(pstart + (h + z) >= pend)
      <3>1. pstart' = pstart + (h + z) /\ pend' = pend
        BY <1>2, <1>6, <2>3, Zenon DEF ConsumePacket
      <3> QED
        BY <2>3, <3>1 DEF PacketInv, PacketTypeOK, Buffered
    <2> QED
      BY <2>2, <2>3, Zenon
  <1>12. PacketTypeOK'
    BY <1>2, <1>6, <1>10, <1>11 DEF PacketInv, PacketTypeOK
  <1>13. HoldsRest'
    <2>1. arrived' = done' + Buffered' /\ arrived' <= sentBytes'
      <3>1. Buffered \in Int
        BY DEF PacketInv, PacketTypeOK, Buffered
      <3> QED
        BY <1>2, <1>6, <1>11, <3>1 DEF PacketInv, PacketTypeOK, HoldsRest
    <2>2. ASSUME NEW i \in 0 .. PktSize - 1, pstart' <= i, i < pend'
          PROVE  data'[i] = done' + (i - pstart') + 1
      <3>5. pstart' < pend'
        BY <1>11, <2>2
      <3>1. pstart' = pstart + (h + z) /\ pend' = pend
        BY <1>11, <3>5, Zenon
      <3>2. pstart <= i /\ i < pend
        BY <2>2, <3>1 DEF PacketInv, PacketTypeOK
      <3>3. data[i] = done + (i - pstart) + 1
        BY <3>2, Zenon DEF PacketInv, HoldsRest
      <3>4. data' = data /\ done' = done + (h + z)
        BY <1>2, <1>6, Zenon
      <3> QED
        BY <3>1, <3>2, <3>3, <3>4 DEF PacketInv, PacketTypeOK
    <2> QED
      BY <2>1, <2>2, Zenon DEF HoldsRest
  <1>14. SentInOrder'
    BY <1>2, Zenon DEF PacketInv, SentInOrder
  <1>15. NextIsFirst'
    <2>1. IF k = Len(sent) THEN End(p) = sentBytes + 1 ELSE End(p) = sent[k + 1].first
      BY <1>4, Zenon DEF PacketInv, SentInOrder, p
    <2>2. End(p) = (done + (h + z)) + 1
      BY <1>5, <1>6 DEF End, PacketInv, PacketTypeOK
    <2>3. sentBytes \in Nat /\ done \in Nat /\ Len(sent) \in Nat
      BY DEF PacketInv, PacketTypeOK
    <2>4. Len(delivered') = k /\ done' = done + (h + z) /\ sent' = sent /\ sentBytes' = sentBytes
      BY <1>2, <1>6, <1>10, Zenon
    <2>5. CASE k = Len(sent)
      BY <2>1, <2>2, <2>3, <2>4, <2>5 DEF NextIsFirst
    <2>6. CASE k # Len(sent)
      BY <1>4, <2>1, <2>2, <2>3, <2>4, <2>6 DEF NextIsFirst
    <2> QED
      BY <2>5, <2>6, Zenon
  <1>16. PacketsWhole'
    <2>1. \A j \in DOMAIN delivered' : SameAs(delivered'[j], sent'[j])
      <3> SUFFICES ASSUME NEW j \in DOMAIN delivered' PROVE SameAs(delivered'[j], sent[j])
        BY <1>2, Zenon
      <3>1. j \in 1 .. k
        BY <1>10
      <3>2. CASE j = k
        BY <1>8, <1>10, <3>2, Zenon DEF p
      <3>3. CASE j # k
        <4>1. j \in 1 .. Len(delivered)
          BY <1>4, <3>1, <3>3
        <4>2. delivered \in Seq(Delivered)
          BY Zenon DEF PacketInv, PacketTypeOK
        <4>3. j \in DOMAIN delivered
          BY <4>1, <4>2
        <4>4. delivered'[j] = delivered[j]
          BY <1>10, <4>1, Zenon
        <4> QED
          BY <4>3, <4>4, Zenon DEF PacketInv, PacketsWhole
      <3> QED
        BY <3>2, <3>3, Zenon
    <2>2. Len(delivered') <= Len(sent')
      BY <1>2, <1>4, <1>10 DEF PacketInv, PacketTypeOK
    <2>3. pktState' = "open"
      BY <1>1, <1>2, Zenon
    <2> QED
      BY <2>1, <2>2, <2>3, Zenon DEF PacketsWhole
  <1> QED
    BY <1>12, <1>13, <1>14, <1>15, <1>16, Zenon DEF PacketInv

(* Compaction moves the bytes to the front, or leaves them where they are. *)
LEMMA CompactKeeps ==
  ASSUME PacketInv
  PROVE  /\ NewStart \in 0 .. Threshold /\ NewEnd \in 0 .. PktSize /\ NewStart <= NewEnd
         /\ NewEnd - NewStart = Buffered
         /\ NewData \in [0 .. PktSize - 1 -> Nat]
         /\ \A i \in NewStart .. NewEnd - 1 : NewData[i] = done + (i - NewStart) + 1
  <1> USE SizeFact
  <1>1. CASE MustCompact
    <2>1. NewStart = 0 /\ NewEnd = Buffered /\ Buffered \in 0 .. PktSize
      BY <1>1 DEF NewStart, NewEnd, PacketInv, PacketTypeOK, Buffered
    <2>2. NewData = [i \in 0 .. PktSize - 1 |-> IF i < Buffered THEN data[pstart + i] ELSE data[i]]
      BY <1>1, Zenon DEF NewData
    <2>3. \A i \in 0 .. Buffered - 1 : /\ pstart + i \in pstart .. pend - 1
                                       /\ pstart + i \in 0 .. PktSize - 1
                                       /\ i \in 0 .. PktSize - 1
                                       /\ data[pstart + i] = done + i + 1
      BY DEF PacketInv, PacketTypeOK, HoldsRest, Buffered
    <2>4. NewData \in [0 .. PktSize - 1 -> Nat]
      <3>1. \A i \in 0 .. PktSize - 1 :
                (IF i < Buffered THEN data[pstart + i] ELSE data[i]) \in Nat
        BY <2>1, <2>3 DEF PacketInv, PacketTypeOK
      <3> QED
        BY <2>2, <3>1, Zenon
    <2>5. \A i \in 0 .. Buffered - 1 : NewData[i] = done + i + 1
      BY <2>1, <2>2, <2>3
    <2> QED
      BY <2>1, <2>4, <2>5 DEF PacketInv, PacketTypeOK
  <1>2. CASE ~MustCompact
    BY <1>2 DEF MustCompact, NewStart, NewEnd, NewData, PacketInv, PacketTypeOK, HoldsRest,
       Buffered
  <1> QED
    BY <1>1, <1>2, Zenon

LEMMA ReadKeeps ==
  ASSUME PacketInv, NEW n \in 0 .. PktSize, ReadPacketBytes(n)
  PROVE  PacketInv'
  <1> USE SizeFact
  <1>1. /\ pktState = "open" /\ Incomplete /\ arrived + n <= sentBytes /\ pstart' = NewStart
        /\ UNCHANGED <<sent, sentBytes, delivered, done>>
    BY Zenon DEF ReadPacketBytes
  <1>2. SentInOrder' /\ NextIsFirst'
    BY <1>1, Zenon DEF PacketInv, SentInOrder, NextIsFirst
  <1>3. Buffered \in Nat
    BY DEF PacketInv, PacketTypeOK, Buffered
  <1>4. CASE NewEnd = PktSize
    <2>1. pktState' = "full" /\ pend' = NewEnd /\ data' = NewData /\ UNCHANGED arrived
      BY <1>4, Zenon DEF ReadPacketBytes
    <2>2. Buffered' = Buffered
      BY <1>1, <2>1, CompactKeeps, Zenon DEF Buffered
    <2>3. PacketTypeOK'
      <3>1. NewStart \in 0 .. PktSize
        BY CompactKeeps
      <3> QED
        BY <1>1, <2>1, <3>1, CompactKeeps, Zenon DEF PacketInv, PacketTypeOK
    <2>11. HoldsRest'
      BY <1>1, <2>1, <2>2, CompactKeeps DEF PacketInv, HoldsRest
    <2>4. Buffered >= PktSize - Threshold /\ Buffered > 0
      BY <1>3, <1>4, CompactKeeps
    <2>5. Len(delivered) + 1 \in 1 .. Len(sent) /\ AtFront = {Len(delivered) + 1}
      BY <2>4, FrontIsNext, Zenon
    <2>6. sent[Len(delivered) + 1] \in SentPacket
      BY <2>5 DEF PacketInv, PacketTypeOK
    <2>7. \/ sent[Len(delivered) + 1].bad > Buffered
          \/ Total(sent[Len(delivered) + 1]) > Buffered
      <3>1. PICK k : k = Len(delivered) + 1 /\ k \in AtFront
        BY <2>5, Zenon
      <3>2. PICK b \in Nat, t \in Nat : sent[k].bad = b /\ Total(sent[k]) = t
        BY <2>6, <3>1 DEF SentPacket, Total
      <3>3. ~Complete(k)
        BY <1>1, <3>1, ZenonT(30) DEF Incomplete
      <3>4. b > 0 => b > Buffered
        BY <1>1, <1>3, <2>4, <2>5, <3>1, <3>2, SMTT(30) DEF Incomplete, Malformed
      <3>5. b = 0 => t > Buffered
        BY <1>3, <3>1, <3>2, <3>3 DEF Complete
      <3> QED
        BY <3>1, <3>2, <3>4, <3>5
    <2>8. \/ Total(sent[Len(delivered) + 1]) > PktSize - Threshold
          \/ sent[Len(delivered) + 1].bad > PktSize - Threshold
      BY <1>3, <2>4, <2>6, <2>7, EndAfterFirst, SMTT(30) DEF SentPacket
    <2>9. Len(delivered) < Len(sent)
      BY <2>5 DEF PacketInv, PacketTypeOK
    <2>10. PacketsWhole'
      BY <1>1, <2>1, <2>8, <2>9, Zenon DEF PacketInv, PacketsWhole
    <2> QED
      BY <1>2, <2>3, <2>11, <2>10, Zenon DEF PacketInv
  <1>5. CASE NewEnd # PktSize
    <2>1. /\ n <= PktSize - NewEnd /\ pend' = NewEnd + n /\ arrived' = arrived + n
          /\ data' = [i \in 0 .. PktSize - 1 |->
                          IF i >= NewEnd /\ i < NewEnd + n THEN arrived + (i - NewEnd) + 1
                          ELSE NewData[i]]
          /\ pktState' \in {"open", "eof"}
      BY <1>5, Zenon DEF ReadPacketBytes
    <2>2. /\ NewStart \in 0 .. PktSize /\ NewEnd \in 0 .. PktSize /\ NewStart <= NewEnd
          /\ NewEnd + n \in 0 .. PktSize
      BY <2>1, CompactKeeps, SMTT(30)
    <2>3. Buffered' = Buffered + n
      BY <1>1, <1>3, <2>1, <2>2, CompactKeeps DEF Buffered
    <2>4. data' \in [0 .. PktSize - 1 -> Nat]
      BY <2>1, <2>2, CompactKeeps DEF PacketInv, PacketTypeOK
    <2>5. PacketTypeOK'
      BY <1>1, <2>1, <2>2, <2>4 DEF PacketInv, PacketTypeOK
    <2>6. HoldsRest'
      <3>1. arrived' = done' + Buffered' /\ arrived' <= sentBytes'
        BY <1>1, <1>3, <2>1, <2>3 DEF PacketInv, PacketTypeOK, HoldsRest
      <3>2. ASSUME NEW i \in 0 .. PktSize - 1, NewStart <= i, i < NewEnd + n
            PROVE  data'[i] = done + (i - NewStart) + 1
        <4>2. CASE i >= NewEnd
          <5>1. data'[i] = arrived + (i - NewEnd) + 1
            BY <2>1, <2>2, <3>2, <4>2, Zenon
          <5>2. arrived = done + (NewEnd - NewStart)
            BY CompactKeeps, Zenon DEF PacketInv, HoldsRest
          <5> QED
            BY <2>2, <5>1, <5>2 DEF PacketInv, PacketTypeOK
        <4>3. CASE ~(i >= NewEnd)
          <5>1. data'[i] = NewData[i] /\ i \in NewStart .. NewEnd - 1
            BY <2>1, <2>2, <3>2, <4>3
          <5> QED
            BY <5>1, CompactKeeps, Zenon
        <4> QED
          BY <4>2, <4>3, Zenon
      <3> QED
        BY <1>1, <2>1, <3>1, <3>2, Zenon DEF HoldsRest
    <2>7. PacketsWhole'
      BY <1>1, <2>1, Zenon DEF PacketInv, PacketsWhole
    <2> QED
      BY <1>2, <2>5, <2>6, <2>7, Zenon DEF PacketInv
  <1> QED
    BY <1>4, <1>5, Zenon

LEMMA PacketInvNext == PacketInv /\ [PacketNext]_pktVars => PacketInv'
  <1> SUFFICES ASSUME PacketInv, [PacketNext]_pktVars PROVE PacketInv'
    BY Zenon
  <1>1. CASE ParseError
    <2>1. Buffered > 0 /\ \A k \in AtFront : sent[k].bad > 0
      BY <1>1, Zenon DEF ParseError, Malformed
    <2>2. Len(delivered) < Len(sent) /\ sent[Len(delivered) + 1].bad > 0
      BY <2>1, FrontIsNext DEF PacketInv, PacketTypeOK
    <2> QED
      BY <1>1, <2>2, Zenon
      DEF ParseError, PacketInv, PacketTypeOK, HoldsRest, SentInOrder, NextIsFirst,
      PacketsWhole,
          Buffered, slide
  <1>2. CASE PacketReadFails
    BY <1>2, Zenon DEF PacketReadFails, PacketInv, PacketTypeOK, HoldsRest, SentInOrder,
       NextIsFirst,
                PacketsWhole, Buffered, slide
  <1>3. CASE UNCHANGED pktVars
    BY <1>3, Zenon DEF pktVars, PacketInv, PacketTypeOK, HoldsRest, SentInOrder, NextIsFirst,
                PacketsWhole, Buffered, slide
  <1> QED
    BY <1>1, <1>2, <1>3, SendKeeps, DeliverKeeps, ReadKeeps, Zenon DEF PacketNext

(* What read_targeted_message returns are the packets sent, whole, with their own       *)
(* destinations and in order; it refuses only a malformed address, and a full buffer     *)
(* only refuses a packet longer than the buffer without the compaction threshold: for    *)
(* every buffer size, threshold and set of packets (message_stream.rs:23-96, 221-287).   *)
THEOREM PacketsAreWhole == PacketSpec => []PacketsWhole
  <1>1. PacketInv => PacketsWhole
    BY Zenon DEF PacketInv
  <1> QED
    BY <1>1, PacketInvInit, PacketInvNext, PTL DEF PacketSpec

SentMessage == [size : 0 .. MaxPayload, first : Nat \ {0}]

MessageTypeOK ==
    /\ readBuf \in [0 .. ReadSize - 1 -> Nat] /\ readEnd \in 0 .. ReadSize
    /\ read \in Nat /\ msgBytes \in Nat
    /\ msgs \in Seq(SentMessage) /\ got \in Seq(Seq(Nat))
    /\ msgState \in {"open", "eof", "truncated", "failed", "panic"}

Before == read - readEnd                  \* bytes of the messages returned
MsgEnd(m) == m.first + 2 + m.size

(* The buffer holds the bytes that follow the messages returned, up to the last one   *)
(* taken from the stream.                                                            *)
HoldsNext ==
    /\ readEnd <= read /\ read <= msgBytes
    /\ \A i \in 0 .. ReadSize - 1 : i < readEnd => readBuf[i] = Before + i + 1
    /\ msgState = "eof" => readEnd = 0

(* The messages follow each other in the stream. *)
MessagesInOrder ==
    /\ \A j, k \in 1 .. Len(msgs) : j < k => MsgEnd(msgs[j]) <= msgs[k].first
    /\ \A k \in 1 .. Len(msgs) :
           IF k = Len(msgs) THEN MsgEnd(msgs[k]) = msgBytes + 1
                            ELSE MsgEnd(msgs[k]) = msgs[k + 1].first

(* The bytes returned end with the last message returned; the next one follows them. *)
ReturnedAreFirst ==
    /\ Len(got) <= Len(msgs)
    /\ IF Len(got) = 0 THEN Before = 0 ELSE MsgEnd(msgs[Len(got)]) = Before + 1
    /\ IF Len(got) = Len(msgs) THEN Before = msgBytes
                               ELSE msgs[Len(got) + 1].first = Before + 1

MessageInv == MessageTypeOK /\ HoldsNext /\ MessagesInOrder /\ ReturnedAreFirst /\ MessagesWhole

LEMMA MessageInvInit == MessageInit => MessageInv
  BY MessageAssumption
  DEF MessageInit, MessageInv, MessageTypeOK, HoldsNext, MessagesInOrder, ReturnedAreFirst,
      MessagesWhole, Before, ReadSize

LEMMA MessageEnds ==
  ASSUME NEW m \in SentMessage
  PROVE  m.first \in Nat /\ m.size \in 0 .. MaxPayload /\ MsgEnd(m) \in Nat /\ m.first < MsgEnd(m)
  BY MessageAssumption DEF SentMessage, MsgEnd

LEMMA BeforeIsNat == MessageInv => Before \in Nat
  BY DEF MessageInv, MessageTypeOK, HoldsNext, Before, ReadSize

(* With two bytes in the buffer, the message in front is the next to return. *)
LEMMA InFrontIsNext ==
  ASSUME MessageInv, readEnd >= 2
  PROVE  Len(got) + 1 \in 1 .. Len(msgs) /\ InFront = {Len(got) + 1}
  <1> USE MessageAssumption
  <1>1. readBuf[0] = Before + 1 /\ readBuf[1] = Before + 2 /\ Before < msgBytes
    BY DEF MessageInv, MessageTypeOK, HoldsNext, Before, ReadSize
  <1>2. Len(got) + 1 \in 1 .. Len(msgs) /\ msgs[Len(got) + 1].first = Before + 1
    <2>1. Before # msgBytes
      BY <1>1, BeforeIsNat DEF MessageInv, MessageTypeOK
    <2> QED
      BY <2>1 DEF MessageInv, MessageTypeOK, ReturnedAreFirst
  <1>3. Len(got) + 1 \in InFront
    BY <1>1, <1>2, BeforeIsNat DEF InFront, MessageInv, MessageTypeOK
  <1>4. ASSUME NEW k \in InFront PROVE k = Len(got) + 1
    <2>1. k \in 1 .. Len(msgs) /\ msgs[k].first = Before + 1
      BY <1>1, <1>4 DEF InFront, MessageInv, MessageTypeOK
    <2>2. ASSUME NEW j \in 1 .. Len(msgs), NEW l \in 1 .. Len(msgs), j < l
          PROVE  msgs[j].first # msgs[l].first
      <3>1. MsgEnd(msgs[j]) <= msgs[l].first
        BY <2>2, Zenon DEF MessageInv, MessagesInOrder
      <3>2. msgs[j] \in SentMessage /\ msgs[l] \in SentMessage
        BY <2>2 DEF MessageInv, MessageTypeOK
      <3> QED
        BY <3>1, <3>2, MessageEnds
    <2>3. ~(k < Len(got) + 1) /\ ~(Len(got) + 1 < k)
      BY <1>2, <2>1, <2>2, Zenon
    <2> QED
      BY <1>2, <2>1, <2>3
  <1> QED
    BY <1>2, <1>3, <1>4, Zenon

LEMMA SendMessageKeeps ==
  ASSUME MessageInv, NEW size \in 0 .. MaxPayload, ClientSendsMessage(size)
  PROVE  MessageInv'
  <1> USE MessageAssumption
  <1> DEFINE m == [size |-> size, first |-> msgBytes + 1]
  <1>1. msgs' = Append(msgs, m) /\ msgBytes' = msgBytes + (2 + size)
        /\ UNCHANGED <<readBuf, readEnd, read, got, msgState>>
    BY Zenon DEF ClientSendsMessage
  <1>2. m \in SentMessage /\ MsgEnd(m) = msgBytes' + 1
    BY <1>1 DEF MessageInv, MessageTypeOK, SentMessage, MsgEnd
  <1>3. m.first = msgBytes + 1
    BY Zenon
  <1> HIDE DEF m
  <1>4. msgs' \in Seq(SentMessage) /\ Len(msgs') = Len(msgs) + 1 /\ msgs'[Len(msgs) + 1] = m
        /\ \A k \in 1 .. Len(msgs) : msgs'[k] = msgs[k]
    BY <1>1, <1>2 DEF MessageInv, MessageTypeOK
  <1>5. /\ Len(msgs) \in Nat /\ Len(got) \in Nat /\ Len(got) <= Len(msgs)
        /\ msgBytes \in Nat /\ Before' = Before
    BY <1>1 DEF MessageInv, MessageTypeOK, ReturnedAreFirst, Before
  <1>6. MessageTypeOK'
    BY <1>1, <1>4 DEF MessageInv, MessageTypeOK
  <1>7. HoldsNext'
    BY <1>1, <1>5 DEF MessageInv, MessageTypeOK, HoldsNext
  <1>8. MessagesInOrder'
    <2>1. ASSUME NEW j \in 1 .. Len(msgs'), NEW k \in 1 .. Len(msgs'), j < k
          PROVE  MsgEnd(msgs'[j]) <= msgs'[k].first
      <3>1. CASE k = Len(msgs) + 1
        <4>1. j \in 1 .. Len(msgs) /\ msgs'[j] = msgs[j] /\ msgs'[k] = m
          BY <1>4, <1>5, <2>1, <3>1
        <4>2. CASE j = Len(msgs)
          BY <1>3, <1>5, <4>1, <4>2, SMTT(30) DEF MessageInv, MessagesInOrder
        <4>3. CASE j # Len(msgs)
          <5>1. Len(msgs) \in 1 .. Len(msgs) /\ j < Len(msgs)
            BY <1>5, <4>1, <4>3
          <5>2. MsgEnd(msgs[j]) <= msgs[Len(msgs)].first /\ MsgEnd(msgs[Len(msgs)]) = msgBytes + 1
            BY <4>1, <5>1, Zenon DEF MessageInv, MessagesInOrder
          <5>3. msgs[Len(msgs)] \in SentMessage /\ msgs[j] \in SentMessage
            BY <4>1, <5>1, SMTT(30) DEF MessageInv, MessageTypeOK
          <5> QED
            BY <1>3, <1>5, <4>1, <5>2, <5>3, MessageEnds, SMTT(30)
        <4> QED
          BY <4>2, <4>3, Zenon
      <3>2. CASE k # Len(msgs) + 1
        <4>1. /\ j \in 1 .. Len(msgs) /\ k \in 1 .. Len(msgs)
              /\ msgs'[j] = msgs[j] /\ msgs'[k] = msgs[k]
          BY <1>4, <1>5, <2>1, <3>2
        <4> QED
          BY <2>1, <4>1, Zenon DEF MessageInv, MessagesInOrder
      <3> QED
        BY <3>1, <3>2, Zenon
    <2>2. ASSUME NEW k \in 1 .. Len(msgs')
          PROVE  IF k = Len(msgs') THEN MsgEnd(msgs'[k]) = msgBytes' + 1
                                   ELSE MsgEnd(msgs'[k]) = msgs'[k + 1].first
      <3>1. CASE k = Len(msgs) + 1
        BY <1>2, <1>4, <3>1, Zenon
      <3>2. CASE k # Len(msgs) + 1
        <4>1. k \in 1 .. Len(msgs) /\ msgs'[k] = msgs[k]
          BY <1>4, <1>5, <3>2
        <4>2. CASE k = Len(msgs)
          BY <1>3, <1>4, <1>5, <4>1, <4>2 DEF MessageInv, MessagesInOrder
        <4>3. CASE k # Len(msgs)
          <5>1. k + 1 \in 1 .. Len(msgs) /\ msgs'[k + 1] = msgs[k + 1] /\ k # Len(msgs')
            BY <1>4, <1>5, <4>1, <4>3
          <5> QED
            BY <4>1, <4>3, <5>1, Zenon DEF MessageInv, MessagesInOrder
        <4> QED
          BY <4>2, <4>3, Zenon
      <3> QED
        BY <3>1, <3>2, Zenon
    <2> QED
      BY <2>1, <2>2, Zenon DEF MessagesInOrder
  <1>9. Len(got) > 0 => msgs'[Len(got)] = msgs[Len(got)]
    BY <1>4, <1>5
  <1>10. ReturnedAreFirst'
    <2>1. CASE Len(got) = Len(msgs)
      BY <1>1, <1>3, <1>4, <1>5, <1>9, <2>1, SMTT(30) DEF MessageInv, ReturnedAreFirst
    <2>2. CASE Len(got) # Len(msgs)
      <3>1. msgs'[Len(got) + 1] = msgs[Len(got) + 1]
        BY <1>4, <1>5, <2>2
      <3> QED
        BY <1>1, <1>4, <1>5, <1>9, <2>2, <3>1 DEF MessageInv, ReturnedAreFirst
    <2> QED
      BY <2>1, <2>2, ZenonT(30)
  <1>11. MessagesWhole'
    <2>1. \A k \in DOMAIN got : k \in 1 .. Len(msgs)
      BY <1>5 DEF MessageInv, MessageTypeOK
    <2>2. got # <<>> => Len(got) > 0
      BY DEF MessageInv, MessageTypeOK
    <2> QED
      BY <1>1, <1>4, <1>5, <1>9, <2>1, <2>2 DEF MessageInv, MessagesWhole
  <1> QED
    BY <1>6, <1>7, <1>8, <1>10, <1>11, Zenon DEF MessageInv

(* The next message is copied out, and what is behind it moves to the front. *)
LEMMA ReturnKeeps ==
  ASSUME MessageInv, NEW k \in 1 .. MaxMessages, ReturnMessage(k)
  PROVE  MessageInv'
  <1> USE MessageAssumption
  <1> DEFINE m == msgs[k]
             d == [i \in 1 .. m.size |-> readBuf[2 + i - 1]]
  <1>1. k \in InFront /\ readEnd >= 2 + m.size /\ msgState = "open"
    BY Zenon DEF ReturnMessage, Whole
  <1>2. /\ got' = Append(got, d) /\ UNCHANGED <<read, msgs, msgBytes, msgState>>
        /\ readBuf' = [i \in 0 .. ReadSize - 1 |->
                           IF i < readEnd - (2 + m.size) THEN readBuf[2 + m.size + i] ELSE readBuf[i]]
        /\ readEnd' = IF readEnd > 2 + m.size THEN readEnd - (2 + m.size) ELSE 0
    BY Zenon DEF ReturnMessage
  <1>3. k = Len(got) + 1 /\ k \in 1 .. Len(msgs)
    <2>1. readEnd >= 2
      BY <1>1, Zenon DEF InFront
    <2> QED
      BY <1>1, <2>1, InFrontIsNext, Zenon
  <1>4. m \in SentMessage /\ m.first = Before + 1
    BY <1>3 DEF MessageInv, MessageTypeOK, ReturnedAreFirst
  <1> HIDE DEF m
  <1>5. PICK z \in 0 .. MaxPayload : m.size = z /\ MsgEnd(m) = m.first + 2 + z
    BY <1>4, Zenon DEF SentMessage, MsgEnd
  <1>6. /\ readEnd \in 0 .. ReadSize /\ readEnd >= 2 + z /\ readEnd' = readEnd - (2 + z)
        /\ readEnd' \in 0 .. ReadSize /\ ReadSize \in Nat
    BY <1>1, <1>2, <1>5 DEF MessageInv, MessageTypeOK, ReadSize
  <1>7. Before \in Nat /\ read \in Nat /\ Before' = Before + (2 + z)
    <2>1. read \in Nat /\ read' = read /\ readEnd \in Int /\ z \in Int
      BY <1>2, <1>6 DEF MessageInv, MessageTypeOK
    <2>2. Before' = read' - readEnd' /\ Before = read - readEnd
      BY Zenon DEF Before
    <2> QED
      BY <1>6, <2>1, <2>2, BeforeIsNat
  <1>8. \A i \in 0 .. ReadSize - 1 : i < readEnd => readBuf[i] = Before + i + 1 /\ readBuf[i] \in Nat
    BY Zenon DEF MessageInv, MessageTypeOK, HoldsNext
  <1>9. d = [i \in 1 .. z |-> m.first + 1 + i] /\ d \in Seq(Nat)
    <2>1. \A i \in 1 .. z : readBuf[2 + i - 1] = m.first + 1 + i /\ m.first + 1 + i \in Nat
      <3> SUFFICES ASSUME NEW i \in 1 .. z
                   PROVE  readBuf[2 + i - 1] = m.first + 1 + i /\ m.first + 1 + i \in Nat
        BY Zenon
      <3>1. 2 + i - 1 \in 0 .. ReadSize - 1 /\ 2 + i - 1 < readEnd
        BY <1>6
      <3>2. readBuf[2 + i - 1] = Before + (2 + i - 1) + 1
        BY <1>8, <3>1, ZenonT(30)
      <3> QED
        BY <1>4, <1>7, <3>2
    <2> QED
      BY <1>5, <2>1
  <1> HIDE DEF d
  <1>10. /\ got' \in Seq(Seq(Nat)) /\ Len(got') = k /\ got'[k] = d
         /\ \A j \in 1 .. Len(got) : got'[j] = got[j]
         /\ Len(got) \in Nat
    BY <1>2, <1>3, <1>9 DEF MessageInv, MessageTypeOK
  <1>11. \A i \in 0 .. ReadSize - 1 :
            i < readEnd - (2 + z) => 2 + z + i \in 0 .. ReadSize - 1 /\ 2 + z + i < readEnd
    BY <1>6
  <1>12. MessageTypeOK'
    <2>1. readBuf' \in [0 .. ReadSize - 1 -> Nat]
      <3>1. \A i \in 0 .. ReadSize - 1 :
                (IF i < readEnd - (2 + z) THEN readBuf[2 + z + i] ELSE readBuf[i]) \in Nat
        BY <1>11, Zenon DEF MessageInv, MessageTypeOK
      <3> QED
        BY <1>2, <1>5, <3>1, Zenon
    <2> QED
      BY <1>2, <1>6, <1>10, <2>1, Zenon DEF MessageInv, MessageTypeOK
  <1>13. HoldsNext'
    <2>1. ASSUME NEW i \in 0 .. ReadSize - 1, i < readEnd'
          PROVE  readBuf'[i] = Before' + i + 1
      <3>1. i < readEnd - (2 + z)
        BY <1>6, <2>1, Zenon
      <3>2. readBuf'[i] = readBuf[2 + z + i]
        BY <1>2, <1>5, <3>1, Zenon
      <3>3. readBuf[2 + z + i] = Before + (2 + z + i) + 1
        BY <1>8, <1>11, <3>1, ZenonT(30)
      <3> QED
        BY <1>7, <3>2, <3>3
    <2>2. readEnd' <= read' /\ read' <= msgBytes' /\ msgState' # "eof"
      BY <1>1, <1>2, <1>6, <1>7 DEF MessageInv, MessageTypeOK, HoldsNext
    <2> QED
      BY <2>1, <2>2, Zenon DEF HoldsNext
  <1>14. MessagesInOrder'
    BY <1>2, Zenon DEF MessageInv, MessagesInOrder
  <1>15. ReturnedAreFirst'
    <2>1. IF k = Len(msgs) THEN MsgEnd(m) = msgBytes + 1 ELSE MsgEnd(m) = msgs[k + 1].first
      BY <1>3, Zenon DEF MessageInv, MessagesInOrder, m
    <2>2. MsgEnd(m) = Before' + 1
      BY <1>4, <1>5, <1>7
    <2>3. msgBytes \in Nat /\ Before' \in Nat /\ Len(msgs) \in Nat
      BY <1>7 DEF MessageInv, MessageTypeOK
    <2>4. Len(got') = k /\ msgs' = msgs /\ msgBytes' = msgBytes /\ msgs[k] = m
      BY <1>2, <1>10, Zenon DEF m
    <2>5. CASE k = Len(msgs)
      <3>1. k <= Len(msgs) /\ k # 0
        BY <1>3, <2>3
      <3>2. Before' + 1 = msgBytes + 1
        BY <2>1, <2>2, <2>5, Zenon
      <3>3. Before' = msgBytes
        <4>1. \A x, y \in Nat : x + 1 = y + 1 => x = y
          OBVIOUS
        <4> QED
          BY <2>3, <3>2, <4>1, Zenon
      <3>4. Before' = msgBytes' /\ MsgEnd(msgs'[Len(got')]) = Before' + 1
        BY <2>2, <2>4, <3>3, Zenon
      <3> QED
        BY <2>4, <2>5, <3>1, <3>4, Zenon DEF ReturnedAreFirst
    <2>6. CASE k # Len(msgs)
      <3>1. k <= Len(msgs) /\ k # 0
        BY <1>3, <2>3
      <3>2. msgs'[Len(got') + 1].first = Before' + 1 /\ MsgEnd(msgs'[Len(got')]) = Before' + 1
        BY <2>1, <2>2, <2>4, <2>6, Zenon
      <3> QED
        BY <2>4, <2>6, <3>1, <3>2, Zenon DEF ReturnedAreFirst
    <2> QED
      BY <2>5, <2>6, Zenon
  <1>16. MessagesWhole'
    <2>1. \A j \in DOMAIN got' :
              got'[j] = [i \in 1 .. msgs'[j].size |-> msgs'[j].first + 1 + i]
      <3> SUFFICES ASSUME NEW j \in DOMAIN got'
                   PROVE  got'[j] = [i \in 1 .. msgs[j].size |-> msgs[j].first + 1 + i]
        BY <1>2, Zenon
      <3>1. j \in 1 .. k
        BY <1>10
      <3>2. CASE j = k
        BY <1>5, <1>9, <1>10, <3>2, Zenon DEF m
      <3>3. CASE j # k
        <4>1. j \in 1 .. Len(got) /\ got'[j] = got[j]
          BY <1>3, <1>10, <3>1, <3>3
        <4>2. DOMAIN got = 1 .. Len(got)
          BY DEF MessageInv, MessageTypeOK
        <4> QED
          BY <4>1, <4>2, Zenon DEF MessageInv, MessagesWhole
      <3> QED
        BY <3>2, <3>3, Zenon
    <2>2. Len(got') <= Len(msgs')
      BY <1>2, <1>3, <1>10 DEF MessageInv, MessageTypeOK
    <2>3. msgState' = "open"
      BY <1>1, <1>2, Zenon
    <2> QED
      BY <2>1, <2>2, <2>3, Zenon DEF MessagesWhole
  <1> QED
    BY <1>12, <1>13, <1>14, <1>15, <1>16, Zenon DEF MessageInv

(* A full buffer holds the whole message in front, so that the code never asks for    *)
(* more then; at a clean end the bytes returned are the bytes read.                   *)
LEMMA ReadBytesKeeps ==
  ASSUME MessageInv, NEW n \in 0 .. ReadSize, ReadMessageBytes(n)
  PROVE  MessageInv'
  <1> USE MessageAssumption
  <1>1. /\ msgState = "open" /\ \A k \in InFront : ~Whole(k)
        /\ read + n <= msgBytes /\ UNCHANGED <<msgs, msgBytes, got>>
    BY Zenon DEF ReadMessageBytes
  <1>2. readEnd # ReadSize
    <2> SUFFICES ASSUME readEnd = ReadSize PROVE FALSE
      BY Zenon
    <2>1. readEnd >= 2
      BY DEF ReadSize
    <2>2. Len(got) + 1 \in 1 .. Len(msgs) /\ Len(got) + 1 \in InFront
      BY <2>1, InFrontIsNext, Zenon
    <2>3. msgs[Len(got) + 1] \in SentMessage
      BY <2>2 DEF MessageInv, MessageTypeOK
    <2>4. readEnd >= 2 + msgs[Len(got) + 1].size
      BY <2>3, MessageEnds DEF ReadSize
    <2> QED
      BY <1>1, <2>2, <2>4, Zenon DEF Whole
  <1>3. /\ n <= ReadSize - readEnd /\ readEnd' = readEnd + n /\ read' = read + n
        /\ readBuf' = [i \in 0 .. ReadSize - 1 |->
                            IF i >= readEnd /\ i < readEnd + n
                            THEN read + (i - readEnd) + 1 ELSE readBuf[i]]
        /\ msgState' = CASE n > 0 -> "open"
                         [] n = 0 /\ readEnd = 0 -> "eof"
                         [] n = 0 /\ readEnd > 0 -> "truncated"
    BY <1>2, Zenon DEF ReadMessageBytes
  <1>4. readEnd \in Nat /\ readEnd <= ReadSize /\ n \in Nat /\ read \in Nat /\ ReadSize \in Nat
    BY DEF MessageInv, MessageTypeOK, ReadSize
  <1>5. msgState' \in {"open", "eof", "truncated"} /\ (msgState' = "eof" => n = 0 /\ readEnd = 0)
    <2>1. n > 0 \/ (n = 0 /\ readEnd = 0) \/ (n = 0 /\ readEnd > 0)
      BY <1>4
    <2> QED
      BY <1>3, <1>4, <2>1, Zenon
  <1>6. Before' = Before /\ Before \in Nat
    BY <1>3, <1>4, BeforeIsNat DEF Before
  <1>7. MessageTypeOK'
    <2>1. \A i \in 0 .. ReadSize - 1 :
              (IF i >= readEnd /\ i < readEnd + n THEN read + (i - readEnd) + 1
                                                  ELSE readBuf[i]) \in Nat
      BY <1>4 DEF MessageInv, MessageTypeOK
    <2>2. readBuf' \in [0 .. ReadSize - 1 -> Nat]
      BY <1>3, <2>1, Zenon
    <2>3. readEnd' \in 0 .. ReadSize /\ read' \in Nat
      BY <1>3, <1>4, SMTT(30)
    <2> QED
      BY <1>1, <1>5, <2>2, <2>3, Zenon DEF MessageInv, MessageTypeOK
  <1>8. HoldsNext'
    <2>1. ASSUME NEW i \in 0 .. ReadSize - 1, i < readEnd + n
          PROVE  readBuf'[i] = Before + i + 1
      <3>1. CASE i >= readEnd
        <4>1. readBuf'[i] = read + (i - readEnd) + 1
          BY <1>3, <2>1, <3>1, Zenon
        <4> QED
          BY <1>4, <4>1 DEF Before
      <3>2. CASE ~(i >= readEnd)
        <4>1. readBuf'[i] = readBuf[i] /\ i < readEnd
          BY <1>3, <1>4, <3>2
        <4> QED
          BY <4>1, Zenon DEF MessageInv, HoldsNext
      <3> QED
        BY <3>1, <3>2, Zenon
    <2>2. \A i \in 0 .. ReadSize - 1 : i < readEnd' => readBuf'[i] = Before' + i + 1
      BY <1>3, <1>6, <2>1, Zenon
    <2>3. readEnd' <= read' /\ read' <= msgBytes' /\ (msgState' = "eof" => readEnd' = 0)
      BY <1>1, <1>3, <1>4, <1>5, SMTT(30) DEF MessageInv, HoldsNext
    <2> QED
      BY <2>2, <2>3, Zenon DEF HoldsNext
  <1>9. MessagesInOrder' /\ ReturnedAreFirst'
    BY <1>1, <1>6, Zenon DEF MessageInv, MessagesInOrder, ReturnedAreFirst
  <1>10. MessagesWhole'
    <2>1. ASSUME msgState' = "eof"
          PROVE  read' = IF got = <<>> THEN 0 ELSE msgs[Len(got)].first + 1 + msgs[Len(got)].size
      <3>1. read' = Before
        BY <1>3, <1>4, <1>5, <2>1 DEF Before
      <3>2. CASE got = <<>>
        BY <3>1, <3>2, Zenon DEF MessageInv, ReturnedAreFirst
      <3>3. CASE got # <<>>
        <4>1. Len(got) \in 1 .. Len(msgs)
          BY <3>3 DEF MessageInv, MessageTypeOK, ReturnedAreFirst
        <4>2. MsgEnd(msgs[Len(got)]) = Before + 1 /\ msgs[Len(got)] \in SentMessage
          BY <4>1 DEF MessageInv, MessageTypeOK, ReturnedAreFirst
        <4>3. PICK f \in Nat, z \in Nat :
                  msgs[Len(got)].first = f /\ msgs[Len(got)].size = z
          BY <4>2, MessageEnds
        <4>4. f + 2 + z = Before + 1
          BY <4>2, <4>3, Zenon DEF MsgEnd
        <4>5. read' = f + 1 + z
          BY <1>6, <3>1, <4>3, <4>4, SMTT(30)
        <4> QED
          BY <3>3, <4>3, <4>5, Zenon
      <3> QED
        BY <3>2, <3>3, Zenon
    <2> QED
      BY <1>1, <1>5, <2>1, Zenon DEF MessageInv, MessagesWhole
  <1> QED
    BY <1>7, <1>8, <1>9, <1>10, Zenon DEF MessageInv

LEMMA MessageInvNext == MessageInv /\ [MessageNext]_msgVars => MessageInv'
  <1> SUFFICES ASSUME MessageInv, [MessageNext]_msgVars PROVE MessageInv'
    BY Zenon
  <1>1. CASE \E size \in 0 .. MaxPayload : ClientSendsMessage(size)
    BY <1>1, SendMessageKeeps, Zenon
  <1>2. CASE \E k \in 1 .. MaxMessages : ReturnMessage(k)
    BY <1>2, ReturnKeeps, Zenon
  <1>3. CASE \E n \in 0 .. ReadSize : ReadMessageBytes(n)
    BY <1>3, ReadBytesKeeps, Zenon
  <1>4. CASE MessageReadFails
    BY <1>4, Zenon DEF MessageReadFails, MessageInv, MessageTypeOK, HoldsNext, MessagesInOrder,
                ReturnedAreFirst, MessagesWhole, Before
  <1>5. CASE UNCHANGED msgVars
    BY <1>5, Zenon DEF msgVars, MessageInv, MessageTypeOK, HoldsNext, MessagesInOrder,
                ReturnedAreFirst, MessagesWhole, Before
  <1> QED
    BY <1>1, <1>2, <1>3, <1>4, <1>5, Zenon DEF MessageNext

(* Every message leaves VlessMessageStream whole and in order, a clean end is reported *)
(* only between two, and the assertion of poll_read_message (message_stream.rs:444)    *)
(* holds, whatever the largest length, the lengths sent and the sizes of the reads.    *)
THEOREM MessagesAreWhole == MessageSpec => []MessagesWhole
  <1>1. MessageInv => MessagesWhole
    BY Zenon DEF MessageInv
  <1> QED
    BY <1>1, MessageInvInit, MessageInvNext, PTL DEF MessageSpec
==============================================================================
