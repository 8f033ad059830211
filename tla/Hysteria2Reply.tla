--------------------------- MODULE Hysteria2Reply ---------------------------
(* One reply loop of a Hysteria2 UDP session, run_udp_remote_to_local_loop          *)
(* (hysteria2.rs): a packet from the destination's socket becomes one datagram, or   *)
(* is cut into fragments when it does not fit.  The 8-bit fragment count and the     *)
(* 16-bit packet id wrap; their ranges are constants.                                *)
EXTENDS Integers, Sequences

CONSTANTS
    DatagramSizes, \* what max_datagram_size() may be: the path and the client limit it
    AddrLens,     \* lengths of the addresses replies come from, as text
    MaxReply,     \* the longest packet a UDP socket returns
    CountRange,   \* 2^8, the values of a fragment id and a fragment count
    IdRange,      \* 2^16, the values of a packet id
    MaxReplies    \* bound: packets received

ASSUME ReplyAssumption ==
    /\ DatagramSizes \subseteq Nat /\ AddrLens \subseteq Nat
    /\ MaxReply \in Nat /\ MaxReplies \in Nat
    /\ CountRange \in Nat \ {0, 1} /\ IdRange \in Nat \ {0}

(* encode_varint: bytes that hold a value, two bits of the first give their number. *)
VarintLen(v) == IF v < 2^6 THEN 1 ELSE IF v < 2^14 THEN 2 ELSE IF v < 2^30 THEN 4 ELSE 8

(* session id, packet id, fragment id and count, address length and address *)
HeaderOverhead(addrLen) == 4 + 2 + 1 + 1 + VarintLen(addrLen) + addrLen
Headers == {HeaderOverhead(a) : a \in AddrLens}

VARIABLES
    maxDatagram,  \* max_datagram_size, read once
    nextPacketId, \* next_packet_id
    received,     \* packets received so far
    reply,        \* the packet being answered: header, length and id
    datagrams,    \* the datagrams sent for it
    loop          \* "start", "recv", "ended" by the token, or "failed"

replyVars == <<maxDatagram, nextPacketId, received, reply, datagrams, loop>>

ReplyInit ==
    /\ maxDatagram = 0 /\ nextPacketId = 0 /\ received = 0
    /\ reply = [head |-> 0, len |-> 0, id |-> 0] /\ datagrams = <<>>
    /\ loop = "start"

Fits(head, len) == head + len <= maxDatagram
Room(head) == maxDatagram - head                          \* available_payload

(* Mutant: the quotient is rounded down. *)
DivFloor(a, b) == a \div b
(* payload_len.div_ceil(available_payload) as u8 *)
DivCeil(a, b) == (a + b - 1) \div b
FragmentCount(head, len) == DivCeil(len, Room(head)) % CountRange

SmallerOf(a, b) == IF a <= b THEN a ELSE b

(* Fragment number f of a packet, from byte `from` up to byte `to`. *)
Fragment(head, len, id, f) ==
    [id |-> id, frag |-> f, count |-> FragmentCount(head, len),
     from |-> f * Room(head),
     to |-> SmallerOf(f * Room(head) + Room(head), len)]
OneDatagram(len, id) == <<[id |-> id, frag |-> 0, count |-> 1, from |-> 0, to |-> len]>>

Datagrams(head, len, id) ==
    IF Fits(head, len)
    THEN OneDatagram(len, id)
    ELSE [i \in 1 .. FragmentCount(head, len) |-> Fragment(head, len, id, i - 1)]

ReplyStarts ==
    /\ loop = "start" /\ loop' = "recv"
    /\ maxDatagram' \in DatagramSizes
    /\ UNCHANGED <<nextPacketId, received, reply, datagrams>>

(* A packet arrives. *)
Receive(head, len) ==
    /\ loop = "recv" /\ received < MaxReplies
    /\ received' = received + 1
    /\ reply' = [head |-> head, len |-> len, id |-> nextPacketId]
    /\ nextPacketId' = (nextPacketId + 1) % IdRange
    /\ UNCHANGED maxDatagram

(* The assertion that a datagram has room for payload fails: the task panics. *)
AssertFails(head, len) ==
    /\ Receive(head, len) /\ maxDatagram <= head
    /\ loop' = "failed" /\ datagrams' = <<>>

(* The packet is sent; send_datagram may fail after some datagrams, which ends the   *)
(* loop.                                                                             *)
Answer(head, len, failsAfter) ==
    LET all == Datagrams(head, len, nextPacketId)
    IN  /\ Receive(head, len) /\ maxDatagram > head
        /\ IF failsAfter < Len(all)
           THEN datagrams' = SubSeq(all, 1, failsAfter) /\ loop' = "failed"
           ELSE datagrams' = all /\ UNCHANGED loop

(* The client takes no datagrams, the session's token is cancelled or the socket fails. *)
ReplyLoopEnds ==
    /\ loop \in {"start", "recv"}
    /\ loop' = "ended"
    /\ UNCHANGED <<maxDatagram, nextPacketId, received, reply, datagrams>>

ReplyNext ==
    \/ \E head \in Headers, len \in 0 .. MaxReply :
          \/ \E f \in 0 .. CountRange : Answer(head, len, f)
          \/ AssertFails(head, len)
    \/ ReplyStarts \/ ReplyLoopEnds

ReplySpec == ReplyInit /\ [][ReplyNext]_replyVars

(***************************************************************************)
(* Properties.                                                             *)
(***************************************************************************)
(* The datagrams a packet was cut into are numbered from 0 up to their count, carry the  *)
(* packet's id, fit the connection, and hold the payload from its first byte on without *)
(* a gap.  They are the whole payload, so that a client that collects `count` fragments *)
(* has the packet, exactly when the payload needs no more fragments than the 8-bit      *)
(* count can say: a longer one is sent cut off, or not at all (hysteria2.rs:341-394).   *)
(* With the 1200 bytes of a QUIC path and an address of at most 259 characters no UDP   *)
(* packet is that long; a client that announces smaller datagrams may get there.        *)
Complete == datagrams # <<>> /\ datagrams[Len(datagrams)].to = reply.len
ReplyIsWhole ==
    loop # "failed" /\ received > 0 =>
        LET n == Len(datagrams)
        IN  /\ \A i \in 1 .. n :
                   /\ datagrams[i].id = reply.id
                   /\ datagrams[i].count = n /\ datagrams[i].frag = i - 1
                   /\ reply.head + (datagrams[i].to - datagrams[i].from) <= maxDatagram
                   /\ datagrams[i].from <= datagrams[i].to
                   /\ i = 1 => datagrams[i].from = 0
                   /\ i < n => datagrams[i].to = datagrams[i + 1].from
            /\ Complete <=> reply.len <= (CountRange - 1) * Room(reply.head)
=============================================================================
