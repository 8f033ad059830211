----------------------------- MODULE CopyBuffer -----------------------------
(***************************************************************************)
(* One direction of copy_bidirectional: CopyBuffer::poll_copy, a ring buffer  *)
(* between a reader and a writer (src/src/copy_bidirectional.rs).             *)
(*                                                                         *)
(* A byte is its position in the reader's stream.  Each action of the copy is *)
(* one call it makes on the reader or the writer, or one of its decisions;    *)
(* the two peers run between any two of them.  A call that returns Pending    *)
(* registers a waker, and the future is polled again only once one has fired. *)
(* The keep-alive ping is left out: no stream of the program supports it.     *)
(***************************************************************************)
EXTENDS Naturals, Sequences

CONSTANTS Size,      \* size of the buffer
          MaxBytes,  \* bound: bytes the reader's peer sends
          MaxRoom    \* bound: bytes the writer accepts before it is pending

ASSUME SizeAssumption == Size \in Nat \ {0}
ASSUME BoundsAssumption == MaxBytes \in Nat /\ MaxRoom \in Nat \ {0}

VARIABLES
    readDone, needFlush, startIndex, cacheLength, buf,   \* CopyBuffer
    pc, readPending, writePending,                       \* poll_copy
    woken, waiting,       \* a waker has fired; the wakers that are registered
    avail, ended,         \* bytes ready to be read; the reader's peer has closed
    room, unflushed,      \* bytes the writer accepts now; it holds bytes to flush
    taken, delivered      \* bytes read so far; the bytes written

ring == <<startIndex, cacheLength, buf, taken, delivered>>
flags == <<readDone, needFlush>>
poll == <<pc, readPending, writePending>>
peers == <<avail, ended, room, unflushed>>
wakers == <<woken, waiting>>
vars == <<ring, flags, poll, peers, wakers>>

Least(m, n) == IF m <= n THEN m ELSE n
Produced == taken + avail

Init ==
    /\ readDone = FALSE /\ needFlush \in BOOLEAN
    /\ startIndex = 0 /\ cacheLength = 0 /\ buf = [i \in 0 .. Size - 1 |-> 0]
    /\ pc = "read" /\ readPending = FALSE /\ writePending = FALSE
    /\ woken = FALSE /\ waiting = {}
    /\ avail = 0 /\ ended = FALSE /\ room = MaxRoom /\ unflushed = FALSE
    /\ taken = 0 /\ delivered = <<>>

(***************************************************************************)
(* The peers.                                                              *)
(***************************************************************************)
Wake(s) == /\ woken' = (woken \/ s \in waiting)
           /\ waiting' = waiting \ {s}

PeerSends(n) ==
    /\ ~ended /\ Produced + n <= MaxBytes
    /\ avail' = avail + n
    /\ Wake("reader")
    /\ UNCHANGED <<ring, flags, poll, ended, room, unflushed>>

PeerCloses ==
    /\ ~ended
    /\ ended' = TRUE
    /\ Wake("reader")
    /\ UNCHANGED <<ring, flags, poll, avail, room, unflushed>>

WriterDrains ==
    /\ room < MaxRoom
    /\ room' = MaxRoom
    /\ Wake("writer")
    /\ UNCHANGED <<ring, flags, poll, avail, ended, unflushed>>

WriterFlushes ==
    /\ unflushed
    /\ unflushed' = FALSE
    /\ Wake("flush")
    /\ UNCHANGED <<ring, flags, poll, avail, ended, room>>

(***************************************************************************)
(* poll_copy.                                                              *)
(***************************************************************************)
Poll ==
    /\ pc = "idle" /\ woken
    /\ pc' = "read" /\ readPending' = FALSE /\ writePending' = FALSE
    /\ woken' = FALSE
    /\ UNCHANGED <<ring, flags, waiting, peers>>

Reading == pc = "read" /\ ~readDone /\ cacheLength < Size

UnusedStart == (startIndex + cacheLength) % Size
UnusedEnd == IF UnusedStart < startIndex THEN startIndex ELSE Size

(* poll_read fills the free part up to the end of the slice it is given; n = 0   *)
(* means EOF to the code, whatever the reason.                                 *)
ReadSome(n) ==
    /\ Reading /\ avail > 0
    /\ n <= Least(avail, UnusedEnd - UnusedStart)
    /\ n = 0 => UnusedEnd = UnusedStart
    /\ buf' = [i \in 0 .. Size - 1 |->
                  IF i \in UnusedStart .. UnusedStart + n - 1
                  THEN taken + 1 + (i - UnusedStart) ELSE buf[i]]
    /\ cacheLength' = cacheLength + n
    /\ taken' = taken + n
    /\ avail' = avail - n
    /\ readDone' = (n = 0)
    /\ UNCHANGED <<startIndex, delivered, needFlush, poll, wakers, ended, room, unflushed>>

ReadEof ==
    /\ Reading /\ avail = 0 /\ ended
    /\ readDone' = TRUE
    /\ UNCHANGED <<ring, needFlush, poll, wakers, peers>>

ReadPending ==
    /\ Reading /\ avail = 0 /\ ~ended
    /\ readPending' = TRUE /\ pc' = "write"
    /\ waiting' = waiting \cup {"reader"}
    /\ UNCHANGED <<ring, flags, writePending, woken, peers>>

ReadStops ==
    /\ pc = "read" /\ (readDone \/ cacheLength >= Size)
    /\ pc' = "write"
    /\ UNCHANGED <<ring, flags, readPending, writePending, wakers, peers>>

UsedEnd == Least(startIndex + cacheLength, Size)

(* Mutant: the start index is not moved after a short write. *)
AdvanceOnlyWhenEmpty(n) == IF cacheLength = n THEN 0 ELSE startIndex
Advance(n) == IF cacheLength = n THEN 0 ELSE (startIndex + n) % Size

WriteSome(n) ==
    /\ pc = "write" /\ cacheLength > 0 /\ room > 0
    /\ n <= Least(room, UsedEnd - startIndex)
    /\ delivered' = delivered \o [j \in 1 .. n |-> buf[startIndex + j - 1]]
    /\ cacheLength' = cacheLength - n
    /\ startIndex' = Advance(n)
    /\ room' = room - n
    /\ needFlush' = TRUE /\ unflushed' = TRUE
    /\ UNCHANGED <<buf, taken, readDone, poll, wakers, avail, ended>>

(* Mutant: a pending write is not recorded. *)
WritePendingForgotten ==
    /\ pc = "write" /\ cacheLength > 0 /\ room = 0
    /\ pc' = "flush"
    /\ UNCHANGED <<ring, flags, readPending, writePending, wakers, peers>>

WritePending ==
    /\ pc = "write" /\ cacheLength > 0 /\ room = 0
    /\ writePending' = TRUE /\ pc' = "flush"
    /\ waiting' = waiting \cup {"writer"}
    /\ UNCHANGED <<ring, flags, readPending, woken, peers>>

WriteStops ==
    /\ pc = "write" /\ cacheLength = 0
    /\ pc' = "flush"
    /\ UNCHANGED <<ring, flags, readPending, writePending, wakers, peers>>

(* poll_flush is pending while the writer holds bytes; then the whole poll is. *)
Flush ==
    /\ pc = "flush"
    /\ \/ /\ needFlush /\ unflushed
          /\ pc' = "idle" /\ waiting' = waiting \cup {"flush"}
          /\ UNCHANGED needFlush
       \/ /\ ~(needFlush /\ unflushed)
          /\ pc' = "check" /\ needFlush' = FALSE
          /\ UNCHANGED waiting
    /\ UNCHANGED <<ring, readDone, readPending, writePending, woken, peers>>

(* Mutant: no second round, although nothing was pending. *)
CheckNoLoop ==
    /\ pc = "check"
    /\ pc' = IF readDone /\ cacheLength = 0 THEN "done" ELSE "idle"
    /\ readPending' = FALSE /\ writePending' = FALSE
    /\ UNCHANGED <<ring, flags, wakers, peers>>

(* Finished; or Pending; or once more round the loop. *)
Check ==
    /\ pc = "check"
    /\ pc' = IF readDone /\ cacheLength = 0 THEN "done"
             ELSE IF readPending \/ writePending THEN "idle" ELSE "read"
    /\ readPending' = FALSE /\ writePending' = FALSE
    /\ UNCHANGED <<ring, flags, wakers, peers>>

(* A call on the reader or the writer fails, or the writer takes 0 bytes. *)
Fail ==
    /\ \/ Reading
       \/ pc = "write" /\ cacheLength > 0
       \/ pc = "flush" /\ needFlush
    /\ pc' = "failed"
    /\ UNCHANGED <<ring, flags, readPending, writePending, wakers, peers>>

CopyStep ==
    \/ Poll \/ ReadEof \/ ReadPending \/ ReadStops \/ WritePending \/ WriteStops
    \/ Flush \/ Check
    \/ \E n \in 0 .. Size : ReadSome(n)
    \/ \E n \in 1 .. Size : WriteSome(n)

Next ==
    \/ CopyStep \/ Fail
    \/ (\E n \in 1 .. MaxBytes : PeerSends(n)) \/ PeerCloses
    \/ WriterDrains \/ WriterFlushes

Spec == Init /\ [][Next]_vars

(* A woken task is polled, and a peer that has not failed takes what it is given. *)
FairSpec == Spec /\ WF_vars(CopyStep) /\ WF_vars(WriterDrains) /\ WF_vars(WriterFlushes)

(***************************************************************************)
(* Properties.                                                             *)
(***************************************************************************)
(* The indices of the ring stay inside the buffer, so that the slices the code takes of   *)
(* it exist (copy_bidirectional.rs:59-68, 108-115).                                      *)
TypeOK ==
    /\ readDone \in BOOLEAN /\ needFlush \in BOOLEAN
    /\ startIndex \in 0 .. Size - 1 /\ cacheLength \in 0 .. Size
    /\ buf \in [0 .. Size - 1 -> Nat]
    /\ pc \in {"idle", "read", "write", "flush", "check", "done", "failed"}
    /\ readPending \in BOOLEAN /\ writePending \in BOOLEAN
    /\ woken \in BOOLEAN /\ waiting \subseteq {"reader", "writer", "flush"}
    /\ avail \in Nat /\ ended \in BOOLEAN /\ room \in Nat /\ unflushed \in BOOLEAN
    /\ taken \in Nat /\ delivered \in Seq(Nat)

(* The direction is a bounded byte pipe: what it writes is what it read, in order  *)
(* and once each, although the ring wraps and both calls move any number of bytes  *)
(* (copy_bidirectional.rs:58-139).                                                 *)
Channel == INSTANCE ByteChannel WITH finished <- (pc = "done")
ImplementsChannel == Channel!Spec

(* The direction only ends with success when the reader's peer has closed and      *)
(* every byte it sent was written: the slice given to poll_read is never empty,    *)
(* which the code could not tell from EOF (copy_bidirectional.rs:59-75, 148).      *)
DoneMeansAll == pc = "done" => ended /\ Len(delivered) = Produced

(* Once the reader's peer has closed, the copy ends: it is never left waiting       *)
(* without a waker (copy_bidirectional.rs:80-83, 135-138, 143, 152).                *)
CloseEndsCopy == ended ~> (pc \in {"done", "failed"})

(* A byte that was sent is delivered, although the reader's peer may never close.   *)
EveryByteArrives ==
    \A n \in 1 .. MaxBytes : (Produced >= n) ~> (Len(delivered) >= n \/ pc = "failed")
=============================================================================
