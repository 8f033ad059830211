-------------------------- MODULE PacketAddrStream --------------------------
(* The read side of PacketAddrStream with its SlideBuffer (message_stream.rs):    *)
(* packets with their destinations, taken from a byte stream.  A byte is its       *)
(* position in the stream; a packet is its destination, the lengths of its header  *)
(* and payload, and the position of its first byte.                                *)
EXTENDS Integers, Sequences

CONSTANTS
    PktSize,      \* BUFFER_SIZE
    Threshold,    \* the argument of maybe_compact
    Packets,      \* the packets a client may send
    MaxPackets    \* bound: packets sent

(* A header is an address and a length; the buffer holds 65535 bytes and is         *)
(* compacted past 4096.  `bad` is the number of bytes after which the address is    *)
(* found to be malformed, 0 for a well-formed packet.                               *)
ASSUME PacketAssumption ==
    /\ PktSize \in Nat /\ Threshold \in Nat /\ Threshold < PktSize /\ MaxPackets \in Nat
    /\ \A p \in Packets : p.head \in Nat \ {0} /\ p.size \in Nat /\ p.bad \in Nat

VARIABLES
    data, pstart, pend,   \* SlideBuffer: data, start, end
    arrived,      \* bytes read from the stream so far
    sent,         \* the packets the client sent, each with the position `first`
    sentBytes,      \* bytes of all of them
    delivered,    \* the packets returned to the caller: destination and payload
    done,         \* bytes of all of those
    pktState      \* "open", "eof", or the error that ended the stream

slide == <<data, pstart, pend>>
pktVars == <<slide, arrived, sent, sentBytes, delivered, done, pktState>>

Total(p) == p.head + p.size
Buffered == pend - pstart                 \* SlideBuffer::len

PacketInit ==
    /\ data = [i \in 0 .. PktSize - 1 |-> 0]
    /\ pstart = 0 /\ pend = 0
    /\ arrived = 0 /\ sent = <<>> /\ sentBytes = 0
    /\ delivered = <<>> /\ done = 0
    /\ pktState = "open"

ClientSendsPacket(p) ==
    /\ Len(sent) < MaxPackets
    /\ sent' = Append(sent, [dest |-> p.dest, head |-> p.head, size |-> p.size,
                             bad |-> p.bad, first |-> sentBytes + 1])
    /\ sentBytes' = sentBytes + Total(p)
    /\ UNCHANGED <<slide, arrived, delivered, done, pktState>>

(* The packet whose first byte is at the front of the buffer.  Bytes in front that   *)
(* begin no packet would be read as some address and length, or refused.             *)
AtFront == {k \in DOMAIN sent : Buffered > 0 /\ sent[k].first = data[pstart]}

(* try_parse_packet: malformed, complete, or neither yet. *)
Malformed ==
    Buffered > 0 /\ \A k \in AtFront : sent[k].bad > 0 /\ Buffered >= sent[k].bad
Complete(k) == k \in AtFront /\ sent[k].bad = 0 /\ Buffered >= Total(sent[k])
Incomplete == ~Malformed /\ \A k \in AtFront : ~Complete(k)

ParseError ==
    /\ pktState = "open" /\ Malformed
    /\ pktState' = "invalid"
    /\ UNCHANGED <<slide, arrived, sent, sentBytes, delivered, done>>

(* Mutant: an emptied buffer keeps its end. *)
ConsumeKeepsEnd(n) ==
    /\ pstart' = IF pstart + n >= pend THEN 0 ELSE pstart + n
    /\ UNCHANGED pend
(* SlideBuffer::consume: an emptied buffer starts over. *)
ConsumePacket(n) ==
    IF pstart + n >= pend THEN pstart' = 0 /\ pend' = 0
                          ELSE pstart' = pstart + n /\ UNCHANGED pend

Deliver(k) ==
    /\ pktState = "open" /\ Complete(k)
    /\ delivered' = Append(delivered,
           [dest |-> sent[k].dest,
            bytes |-> [i \in 1 .. sent[k].size |-> data[pstart + sent[k].head + i - 1]]])
    /\ ConsumePacket(Total(sent[k]))
    /\ done' = done + Total(sent[k])
    /\ UNCHANGED <<data, arrived, sent, sentBytes, pktState>>

(* maybe_compact(4096): where the data lies after it. *)
MustCompact == pstart > Threshold
NewStart == IF MustCompact THEN 0 ELSE pstart
NewEnd == IF MustCompact THEN Buffered ELSE pend
NewData == IF MustCompact
           THEN [i \in 0 .. PktSize - 1 |-> IF i < Buffered THEN data[pstart + i] ELSE data[i]]
           ELSE data

(* One read of the stream, after compacting: an error when there is no room left,    *)
(* the end of the stream when nothing is read.                                       *)
ReadPacketBytes(n) ==
    /\ pktState = "open" /\ Incomplete
    /\ arrived + n <= sentBytes
    /\ pstart' = NewStart
    /\ IF NewEnd = PktSize
       THEN pktState' = "full" /\ pend' = NewEnd /\ data' = NewData /\ UNCHANGED arrived
       ELSE /\ n <= PktSize - NewEnd
            /\ pend' = NewEnd + n
            /\ data' = [i \in 0 .. PktSize - 1 |->
                            IF i >= NewEnd /\ i < NewEnd + n
                            THEN arrived + (i - NewEnd) + 1
                            ELSE NewData[i]]
            /\ arrived' = arrived + n
            /\ pktState' = IF n = 0 THEN "eof" ELSE "open"
    /\ UNCHANGED <<sent, sentBytes, delivered, done>>

(* Reading the stream fails.  The caller gives the stream up, so that what the buffer *)
(* holds is not seen again.                                                          *)
PacketReadFails ==
    /\ pktState = "open" /\ Incomplete
    /\ pktState' = "failed"
    /\ UNCHANGED <<slide, arrived, sent, sentBytes, delivered, done>>

PacketNext ==
    \/ \E p \in Packets : ClientSendsPacket(p)
    \/ ParseError \/ PacketReadFails
    \/ \E k \in 1 .. MaxPackets : Deliver(k)
    \/ \E n \in 0 .. PktSize : ReadPacketBytes(n)

PacketSpec == PacketInit /\ [][PacketNext]_pktVars

(***************************************************************************)
(* Properties.                                                             *)
(***************************************************************************)
(* A returned packet is the one the client sent: its destination and its payload,    *)
(* byte by byte.                                                                     *)
SameAs(d, p) ==
    d = [dest |-> p.dest, bytes |-> [i \in 1 .. p.size |-> p.first + p.head + i - 1]]

(* Packets come out whole, each with its own destination, in the order they were      *)
(* sent, none lost, repeated or split, however the stream is cut into reads and       *)
(* wherever compaction moves them, and the parser refuses only an address that is     *)
(* malformed (message_stream.rs:23-96, 221-287).  The error "read buffer full but no   *)
(* complete packet" (264-269) is only met by a packet longer than what compaction      *)
(* guarantees: a shorter one fits wherever earlier packets left the start of the       *)
(* buffer.                                                                             *)
PacketsWhole ==
    /\ Len(delivered) <= Len(sent)
    /\ \A k \in DOMAIN delivered : SameAs(delivered[k], sent[k])
    /\ pktState = "invalid" =>
           Len(delivered) < Len(sent) /\ sent[Len(delivered) + 1].bad > 0
    /\ pktState = "full" =>
           /\ Len(delivered) < Len(sent)
           /\ \/ Total(sent[Len(delivered) + 1]) > PktSize - Threshold
              \/ sent[Len(delivered) + 1].bad > PktSize - Threshold

=============================================================================
