------------------------- MODULE VlessMessageStream -------------------------
(* The read side of VlessMessageStream (message_stream.rs): messages with a length  *)
(* of two bytes in front, taken from a byte stream.  A byte is its position in the   *)
(* stream; a message is its length and the position of its first length byte.        *)
EXTENDS Integers, Sequences

CONSTANTS
    MaxPayload,   \* the largest length two bytes can hold, 65535
    MaxMessages   \* bound: messages sent

ASSUME MessageAssumption == MaxPayload \in Nat /\ MaxMessages \in Nat

VARIABLES
    readBuf, readEnd,  \* read_buf, read_end_index
    read,         \* bytes read from the stream so far
    msgs,         \* the messages the client sent: size, and first byte
    msgBytes,     \* bytes of all of them
    got,          \* the payloads returned to the caller
    msgState      \* "open", "eof", or the error or panic that ended the stream

msgVars == <<readBuf, readEnd, read, msgs, msgBytes, got, msgState>>

ReadSize == 2 + MaxPayload                \* allocate_vec(65537)

MessageInit ==
    /\ readBuf = [i \in 0 .. ReadSize - 1 |-> 0] /\ readEnd = 0
    /\ read = 0 /\ msgs = <<>> /\ msgBytes = 0
    /\ got = <<>> /\ msgState = "open"

ClientSendsMessage(size) ==
    /\ Len(msgs) < MaxMessages
    /\ msgs' = Append(msgs, [size |-> size, first |-> msgBytes + 1])
    /\ msgBytes' = msgBytes + (2 + size)
    /\ UNCHANGED <<readBuf, readEnd, read, got, msgState>>

(* The message whose length bytes are the first two of the buffer. *)
InFront == {k \in DOMAIN msgs : readEnd >= 2 /\ readBuf[0] = msgs[k].first
                                            /\ readBuf[1] = msgs[k].first + 1}
(* Mutant: the two length bytes are not counted. *)
WholeLenOnly(k) == k \in InFront /\ readEnd >= msgs[k].size
Whole(k) == k \in InFront /\ readEnd >= 2 + msgs[k].size

(* The payload is copied out and what follows it moves to the front.  The caller's    *)
(* buffer has 65535 bytes, so that every payload fits it.                             *)
ReturnMessage(k) ==
    /\ msgState = "open" /\ Whole(k)
    /\ got' = Append(got, [i \in 1 .. msgs[k].size |-> readBuf[2 + i - 1]])
    /\ readBuf' = [i \in 0 .. ReadSize - 1 |->
                       IF i < readEnd - (2 + msgs[k].size)
                       THEN readBuf[2 + msgs[k].size + i] ELSE readBuf[i]]
    /\ readEnd' = IF readEnd > 2 + msgs[k].size THEN readEnd - (2 + msgs[k].size) ELSE 0
    /\ UNCHANGED <<read, msgs, msgBytes, msgState>>

(* One read of the stream; the code asserts that there is room for it.  At the end    *)
(* of the stream an empty buffer is a clean end, anything else a truncated message.   *)
ReadMessageBytes(n) ==
    /\ msgState = "open" /\ \A k \in InFront : ~Whole(k)
    /\ read + n <= msgBytes
    /\ IF readEnd = ReadSize
       THEN msgState' = "panic" /\ UNCHANGED <<readBuf, readEnd, read>>
       ELSE /\ n <= ReadSize - readEnd
            /\ readEnd' = readEnd + n
            /\ readBuf' = [i \in 0 .. ReadSize - 1 |->
                               IF i >= readEnd /\ i < readEnd + n
                               THEN read + (i - readEnd) + 1 ELSE readBuf[i]]
            /\ read' = read + n
            /\ msgState' = CASE n > 0 -> "open"
                             [] n = 0 /\ readEnd = 0 -> "eof"
                             [] n = 0 /\ readEnd > 0 -> "truncated"
    /\ UNCHANGED <<msgs, msgBytes, got>>

(* Reading the stream fails, which ends the copy. *)
MessageReadFails ==
    /\ msgState = "open" /\ \A k \in InFront : ~Whole(k)
    /\ msgState' = "failed"
    /\ UNCHANGED <<readBuf, readEnd, read, msgs, msgBytes, got>>

MessageNext ==
    \/ \E size \in 0 .. MaxPayload : ClientSendsMessage(size)
    \/ \E k \in 1 .. MaxMessages : ReturnMessage(k)
    \/ \E n \in 0 .. ReadSize : ReadMessageBytes(n)
    \/ MessageReadFails

MessageSpec == MessageInit /\ [][MessageNext]_msgVars

(***************************************************************************)
(* Properties.                                                             *)
(***************************************************************************)
(* Messages come out whole and in the order they were sent, none lost, repeated or     *)
(* split; a clean end of the stream is reported only between two messages; and the     *)
(* assertion that the buffer has room for a read (message_stream.rs:444-445) holds     *)
(* for messages of every length, also when others are behind them in the buffer.       *)
MessagesWhole ==
    /\ msgState # "panic"
    /\ Len(got) <= Len(msgs)
    /\ \A k \in DOMAIN got :
           got[k] = [i \in 1 .. msgs[k].size |-> msgs[k].first + 1 + i]
    /\ msgState = "eof" =>
           read = IF got = <<>> THEN 0 ELSE msgs[Len(got)].first + 1 + msgs[Len(got)].size

=============================================================================
