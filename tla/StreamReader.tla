---------------------------- MODULE StreamReader ----------------------------
(* The buffered reader of stream_reader.rs, through which the AnyTLS server      *)
(* reads a client's authentication and the Hysteria2 server the header of a TCP   *)
(* stream.  A byte is its position in the stream; Junk is what allocate_vec       *)
(* leaves in memory nobody has written (util.rs:9-15).                            *)
EXTENDS Integers, Sequences

CONSTANTS
    BufSize,      \* DEFAULT_BUFFER_SIZE, or what new_with_buffer_size is given
    MaxBytes,     \* bound: bytes the peer sends
    MaxLen        \* bound: the longest slice a caller asks for

(* read_u16_be needs two slots; the buffers are of 32768 and 8192 bytes. *)
ASSUME SizeAssumption == BufSize \in Nat /\ BufSize >= 2
ASSUME ReaderBounds == MaxBytes \in Nat /\ MaxLen \in Nat

VARIABLES
    buf, startOffset, endOffset,  \* the fields of StreamReader
    taken,        \* bytes read from the stream so far
    consumed,     \* bytes the caller has consumed so far
    req,          \* the call in progress: its kind and the length it waits for
    peeked,       \* length of the slice the last peek returned and nobody consumed
    answer,       \* the last slice returned, and how many bytes were consumed before it
    rest,         \* what unparsed_data handed over
    readerState   \* "open", "handed" over, or the error that ended its use

offsets == <<buf, startOffset, endOffset>>
readerVars == <<offsets, taken, consumed, req, peeked, answer, rest, readerState>>

Junk == 0
Kinds == {"peek", "slice", "fixed"}
NoReq == [kind |-> "none", len |-> 0]
Available == endOffset - startOffset
(* buf[lo .. lo+n-1] as the slice a caller sees. *)
Slice(lo, n) == [i \in 1 .. n |-> buf[lo + i - 1]]

ReaderInit ==
    /\ buf = [i \in 0 .. BufSize - 1 |-> Junk]
    /\ startOffset = 0 /\ endOffset = 0
    /\ taken = 0 /\ consumed = 0
    /\ req = NoReq /\ peeked = 0
    /\ answer = [at |-> 0, data |-> <<>>]
    /\ rest = <<>>
    /\ readerState = "open"

(* read_u8 and read_u16_be ask for one and two bytes; peek_slice and read_slice   *)
(* refuse more than the buffer can hold.                                          *)
Request(kind, len) ==
    /\ readerState = "open" /\ req = NoReq
    /\ kind = "fixed" => len \in {1, 2}
    /\ IF kind # "fixed" /\ len > BufSize
       THEN readerState' = "invalid" /\ UNCHANGED <<req, peeked>>
       ELSE /\ req' = [kind |-> kind, len |-> len] /\ peeked' = 0
            /\ UNCHANGED readerState
    /\ UNCHANGED <<offsets, taken, consumed, answer, rest>>

Waiting == readerState = "open" /\ req # NoReq /\ Available < req.len

IsCacheFull == startOffset = 0 /\ endOffset = BufSize

(* reset_buf_offset moves the unread bytes to the front. *)
ResetBufOffset == [i \in 0 .. BufSize - 1 |->
                       IF i < Available THEN buf[startOffset + i] ELSE buf[i]]

(* read: the stream yields n bytes, as many as there is room for at most; none at   *)
(* its end or when reading it fails.                                               *)
Read(n) ==
    /\ Waiting
    /\ n <= BufSize - Available /\ taken + n <= MaxBytes
    /\ IF IsCacheFull
       THEN readerState' = "full" /\ UNCHANGED <<offsets, taken>>
       ELSE /\ startOffset' = 0
            /\ endOffset' = Available + n
            /\ buf' = [i \in 0 .. BufSize - 1 |->
                           IF i >= Available /\ i < Available + n
                           THEN taken + (i - Available) + 1
                           ELSE ResetBufOffset[i]]
            /\ taken' = taken + n
            /\ readerState' = IF n = 0 THEN "failed" ELSE "open"
    /\ UNCHANGED <<consumed, req, peeked, answer, rest>>

(* Mutant: an empty buffer keeps its end. *)
AdvanceKeepsEnd(n) ==
    /\ startOffset' = IF startOffset + n = endOffset THEN 0 ELSE startOffset + n
    /\ UNCHANGED endOffset
(* The end of consume and of the read functions: an empty buffer starts over. *)
Advance(n) ==
    IF startOffset + n = endOffset
    THEN startOffset' = 0 /\ endOffset' = 0
    ELSE startOffset' = startOffset + n /\ UNCHANGED endOffset

Return ==
    /\ readerState = "open" /\ req # NoReq /\ Available >= req.len
    /\ answer' = [at |-> consumed, data |-> Slice(startOffset, req.len)]
    /\ req' = NoReq
    /\ IF req.kind = "peek"
       THEN peeked' = req.len /\ UNCHANGED <<startOffset, endOffset, consumed>>
       ELSE Advance(req.len) /\ consumed' = consumed + req.len /\ UNCHANGED peeked
    /\ UNCHANGED <<buf, taken, rest, readerState>>

(* consume skips bytes that were peeked before. *)
Consume(n) ==
    /\ readerState = "open" /\ req = NoReq /\ n \in 1 .. peeked
    /\ Advance(n)
    /\ consumed' = consumed + n
    /\ peeked' = peeked - n
    /\ UNCHANGED <<buf, taken, req, answer, rest, readerState>>

(* unparsed_data and unparsed_data_owned: the bytes read ahead go to the session,   *)
(* to the fallback or to the destination, and the stream itself is read from then   *)
(* on.                                                                             *)
HandOver ==
    /\ readerState = "open" /\ req = NoReq
    /\ rest' = Slice(startOffset, Available)
    /\ readerState' = "handed"
    /\ UNCHANGED <<offsets, taken, consumed, req, peeked, answer>>

ReaderNext ==
    \/ \E kind \in Kinds, len \in 0 .. MaxLen : Request(kind, len)
    \/ \E n \in 0 .. BufSize : Read(n)
    \/ Return \/ HandOver
    \/ \E n \in 1 .. BufSize : Consume(n)

ReaderSpec == ReaderInit /\ [][ReaderNext]_readerVars

(***************************************************************************)
(* Properties.                                                             *)
(***************************************************************************)
ReaderTypeOK ==
    /\ buf \in [0 .. BufSize - 1 -> Nat]
    /\ startOffset \in 0 .. BufSize /\ endOffset \in 0 .. BufSize
    /\ startOffset <= endOffset
    /\ taken \in Nat /\ consumed \in Nat /\ peeked \in Nat
    /\ req \in [kind : Kinds, len : Nat] \cup {NoReq}
    /\ readerState \in {"open", "handed", "invalid", "full", "failed"}

(* A slice that starts after `before` bytes of the stream, in order, none missing. *)
Consecutive(data, before) == \A i \in DOMAIN data : data[i] = before + i

(* What a caller sees of the stream is the stream: every slice that is peeked or    *)
(* read starts where consumption stopped and goes on byte by byte, and the bytes    *)
(* handed over are all those read and not consumed, so nothing is lost, repeated or *)
(* taken from unwritten memory when the session, the fallback or the destination    *)
(* goes on with the stream (stream_reader.rs:28-141).  The error "cache is full"      *)
(* (147-152) is never met: a call that still waits has room in the buffer, whatever   *)
(* was left in it before.                                                             *)
ReaderIsExact ==
    /\ Consecutive(answer.data, answer.at)
    /\ readerState = "handed" =>
           Consecutive(rest, consumed) /\ Len(rest) = taken - consumed
    /\ readerState # "full"

=============================================================================
