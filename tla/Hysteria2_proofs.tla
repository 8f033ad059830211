-------------------------- MODULE Hysteria2_proofs --------------------------
(* Proofs about the UDP of a Hysteria2 connection: the task that forwards the client's  *)
(* datagrams (Hysteria2Udp), and the split of replies into datagrams (Hysteria2Reply).  *)
EXTENDS Hysteria2Udp, Hysteria2Reply, FiniteSetTheorems, TLAPS

LEMMA HeaderIsNat ==
  ASSUME NEW h \in Headers
  PROVE  h \in Nat
  <1>1. PICK a \in AddrLens : h = HeaderOverhead(a)
    BY Zenon DEF Headers
  <1>2. VarintLen(a) \in Nat
    BY Zenon DEF VarintLen
  <1> QED
    BY <1>1, <1>2, ReplyAssumption DEF HeaderOverhead

(* The two facts about a product that the fragments' bounds need. *)
LEMMA TimesOrdered ==
  ASSUME NEW a \in Nat, NEW b \in Nat, NEW r \in Nat \ {0}
  PROVE  /\ a * r \in Nat /\ (a + 1) * r = a * r + r
         /\ a <= b => a * r <= b * r
         /\ a * r < b * r => a < b
  <1>1. a * r \in Nat /\ b * r \in Nat
    BY SMT
  <1>2. (a + 1) * r = a * r + r
    BY SMT
  <1>3. a <= b => a * r <= b * r
    BY SMT
  <1>4. b <= a => b * r <= a * r
    BY SMT
  <1> QED
    BY <1>1, <1>2, <1>3, <1>4

(* div_ceil is the least number of rooms that hold the length. *)
LEMMA CeilBounds ==
  ASSUME NEW len \in Nat \ {0}, NEW r \in Nat \ {0}
  PROVE  /\ DivCeil(len, r) \in Nat \ {0}
         /\ len <= DivCeil(len, r) * r
         /\ (DivCeil(len, r) - 1) * r < len
  <1> DEFINE c == DivCeil(len, r)
  <1>1. c \in Int /\ c * r <= len + r - 1 /\ len + r - 1 < c * r + r
    BY SMT DEF DivCeil
  <1> HIDE DEF c
  <1>2. c > 0
    BY <1>1, SMT
  <1>3. c - 1 \in Nat /\ c \in Nat
    BY <1>1, <1>2
  <1>4. ((c - 1) + 1) * r = (c - 1) * r + r
    BY <1>3, TimesOrdered, Zenon
  <1>5. c * r = (c - 1) * r + r
    BY <1>3, <1>4
  <1>6. (c - 1) * r \in Nat
    BY <1>3, TimesOrdered, Zenon
  <1> QED
    BY <1>1, <1>2, <1>3, <1>5, <1>6 DEF c

(* `as u8` keeps the count if it fits its byte, and makes it smaller if not. *)
LEMMA CountWraps ==
  ASSUME NEW c \in Nat \ {0}
  PROVE  /\ c % CountRange \in Nat /\ c % CountRange <= c
         /\ c < CountRange => c % CountRange = c
         /\ c >= CountRange => c % CountRange <= c - 1
  <1>1. CountRange \in Nat \ {0}
    BY ReplyAssumption
  <1>2. c % CountRange \in 0 .. CountRange - 1
    BY <1>1, SMT
  <1>3. CASE c < CountRange
    <2>1. c % CountRange = c
      BY <1>1, <1>3, SMT
    <2> QED
      BY <1>1, <1>3, <2>1
  <1>4. CASE c >= CountRange
    BY <1>1, <1>2, <1>4
  <1> QED
    BY <1>1, <1>3, <1>4

(* What ReplyIsWhole says of a packet's datagrams. *)
Ends(ds, len) == ds # <<>> /\ ds[Len(ds)].to = len
HoldsPacket(ds, head, len, id) ==
    LET n == Len(ds)
    IN  /\ \A i \in 1 .. n :
               /\ ds[i].id = id
               /\ ds[i].count = n /\ ds[i].frag = i - 1
               /\ head + (ds[i].to - ds[i].from) <= maxDatagram
               /\ ds[i].from <= ds[i].to
               /\ i = 1 => ds[i].from = 0
               /\ i < n => ds[i].to = ds[i + 1].from
        /\ Ends(ds, len) <=> len <= (CountRange - 1) * Room(head)

LEMMA DatagramsHoldPacket ==
  ASSUME maxDatagram \in Nat, NEW h \in Nat, h < maxDatagram, NEW len \in Nat, NEW id
  PROVE  HoldsPacket(Datagrams(h, len, id), h, len, id)
  <1> DEFINE r == Room(h)
             ds == Datagrams(h, len, id)
             most == CountRange - 1
  <1>1. r \in Nat \ {0} /\ maxDatagram = h + r /\ most \in Nat \ {0}
    BY ReplyAssumption DEF Room
  <1>2. CASE Fits(h, len)
    <2>1. ds = <<[id |-> id, frag |-> 0, count |-> 1, from |-> 0, to |-> len]>>
      BY <1>2, Zenon DEF Datagrams, OneDatagram
    <2>2. h + (len - 0) <= maxDatagram /\ len <= r
      BY <1>1, <1>2 DEF Fits
    <2> HIDE DEF ds, r, most
    <2>3. len <= most * r
      <3>1. 1 * r <= most * r
        BY <1>1, TimesOrdered
      <3>2. most * r \in Nat
        BY <1>1, TimesOrdered
      <3> QED
        BY <1>1, <2>2, <3>1, <3>2
    <2>4. /\ Len(ds) = 1 /\ ds # <<>>
          /\ ds[1] = [id |-> id, frag |-> 0, count |-> 1, from |-> 0, to |-> len]
      BY <2>1
    <2>5. Ends(ds, len) <=> len <= (CountRange - 1) * Room(h)
      <3>1. ds[Len(ds)].to = len
        BY <2>4
      <3> QED
        BY <2>3, <2>4, <3>1, Zenon DEF Ends, r, most
    <2>6. HoldsPacket(ds, h, len, id)
      BY <2>2, <2>4, <2>5 DEF HoldsPacket
    <2> QED
      BY <2>6, Zenon DEF ds
  <1>3. CASE ~Fits(h, len)
    <2> DEFINE c == DivCeil(len, r)
               n == c % CountRange
    <2>1. len \in Nat \ {0}
      BY <1>1, <1>3 DEF Fits
    <2>2. c \in Nat \ {0} /\ len <= c * r /\ (c - 1) * r < len
      BY <1>1, <2>1, CeilBounds
    <2>3. ds = [i \in 1 .. n |-> Fragment(h, len, id, i - 1)]
      BY <1>3, Zenon DEF Datagrams, FragmentCount
    <2>4. \A i \in 1 .. n : ds[i] = [id |-> id, frag |-> i - 1, count |-> n,
                                     from |-> (i - 1) * r,
                                     to |-> SmallerOf((i - 1) * r + r, len)]
      BY <2>3, Zenon DEF Fragment, FragmentCount
    <2> HIDE DEF c, r
    <2>5. /\ n \in Nat /\ n <= c /\ (c < CountRange => n = c)
          /\ (c >= CountRange => n <= c - 1)
      BY <2>2, CountWraps
    <2> HIDE DEF n
    <2>6. Len(ds) = n /\ (ds = <<>> <=> n = 0)
      BY <2>3, <2>5
    <2> HIDE DEF ds, most
    <2>7. ASSUME NEW i \in 1 .. n
          PROVE  /\ (i - 1) * r \in Nat /\ (i - 1) * r < len
                 /\ i * r = (i - 1) * r + r
                 /\ i < c => i * r < len
                 /\ i = c => len <= i * r
      <3>1. i - 1 \in Nat /\ i \in Nat /\ c - 1 \in Nat /\ i - 1 <= c - 1
        BY <2>2, <2>5
      <3>2. (i - 1) * r \in Nat /\ (i - 1) * r <= (c - 1) * r /\ ((i - 1) + 1) * r = (i - 1) * r + r
        BY <1>1, <3>1, TimesOrdered, Zenon
      <3>3. (i - 1) + 1 = i
        BY <3>1
      <3>4. (c - 1) * r \in Nat
        BY <1>1, <3>1, TimesOrdered, Zenon
      <3>5. ASSUME i < c PROVE i * r < len
        <4>1. i <= c - 1
          BY <2>2, <3>1, <3>5
        <4>2. i * r <= (c - 1) * r /\ i * r \in Nat
          BY <1>1, <3>1, <4>1, TimesOrdered, Zenon
        <4> QED
          BY <2>1, <2>2, <3>4, <4>2
      <3>6. i = c => len <= i * r
        BY <2>2, Zenon
      <3> QED
        BY <2>1, <2>2, <3>2, <3>3, <3>4, <3>5, <3>6
    <2>8. ASSUME NEW i \in 1 .. n
          PROVE  /\ ds[i].id = id /\ ds[i].count = n /\ ds[i].frag = i - 1
                 /\ h + (ds[i].to - ds[i].from) <= maxDatagram
                 /\ ds[i].from <= ds[i].to
                 /\ i < c => ds[i].to = i * r /\ ds[i].to < len
                 /\ i = c => ds[i].to = len
                 /\ ds[i].from = (i - 1) * r
      <3>1. PICK x \in Nat : x = (i - 1) * r /\ x < len /\ i * r = x + r
                             /\ (i < c => x + r < len) /\ (i = c => len <= x + r)
        BY <2>7, Zenon
      <3>2. ds[i] = [id |-> id, frag |-> i - 1, count |-> n, from |-> x,
                     to |-> SmallerOf(x + r, len)]
        BY <2>4, <3>1, Zenon
      <3>3. SmallerOf(x + r, len) = IF i < c THEN x + r ELSE len
        BY <1>1, <2>1, <2>2, <2>5, <3>1 DEF SmallerOf
      <3>4. /\ x <= SmallerOf(x + r, len) /\ SmallerOf(x + r, len) <= x + r
            /\ SmallerOf(x + r, len) \in Nat
        BY <1>1, <2>1, <3>1 DEF SmallerOf
      <3>5. h + (SmallerOf(x + r, len) - x) <= maxDatagram
        BY <1>1, <3>4
      <3> QED
        BY <3>1, <3>2, <3>3, <3>4, <3>5
    <2>9. ASSUME NEW i \in 1 .. n, i < n
          PROVE  ds[i].to = ds[i + 1].from
      <3>1. i + 1 \in 1 .. n /\ (i + 1) - 1 = i /\ i < c
        BY <2>2, <2>5, <2>9
      <3> QED
        BY <2>8, <3>1, Zenon
    <2>10. ASSUME NEW i \in 1 .. n, i = 1
           PROVE  ds[i].from = 0
      <3>1. (1 - 1) * r = 0
        BY <1>1, SMT
      <3> QED
        BY <2>8, <2>10, <3>1, Zenon
    <2>11. Ends(ds, len) <=> len <= most * r
      <3>1. CASE c < CountRange
        <4>1. n = c /\ c \in 1 .. n /\ c <= most
          BY <1>1, <2>2, <2>5, <3>1, ReplyAssumption DEF most
        <4>2. Ends(ds, len)
          BY <2>2, <2>6, <2>8, <4>1 DEF Ends
        <4>3. c * r <= most * r /\ c * r \in Nat /\ most * r \in Nat
          BY <1>1, <2>2, <4>1, TimesOrdered
        <4>4. len <= most * r
          BY <2>1, <2>2, <4>3
        <4> QED
          BY <4>2, <4>4, Zenon
      <3>2. CASE c >= CountRange
        <4>1. n <= c - 1 /\ most <= c - 1 /\ c - 1 \in Nat
          BY <2>2, <2>5, <3>2, ReplyAssumption DEF most
        <4>2. ~Ends(ds, len)
          <5>1. CASE n = 0
            BY <2>6, <5>1, Zenon DEF Ends
          <5>2. CASE n # 0
            <6>1. n \in 1 .. n /\ n < c
              BY <2>2, <2>5, <4>1, <5>2
            <6>2. ds[n].to = n * r /\ n * r < len
              BY <2>7, <2>8, <6>1, Zenon
            <6>3. n * r \in Nat
              BY <1>1, <2>5, TimesOrdered
            <6>4. n * r # len
              BY <2>1, <6>2, <6>3
            <6> QED
              BY <2>6, <6>2, <6>4, Zenon DEF Ends
          <5> QED
            BY <5>1, <5>2, Zenon
        <4>3. most * r <= (c - 1) * r /\ (c - 1) * r \in Nat /\ most * r \in Nat
          BY <1>1, <4>1, TimesOrdered
        <4>4. ~(len <= most * r)
          BY <2>1, <2>2, <4>3
        <4> QED
          BY <4>2, <4>4, Zenon
      <3> QED
        BY <2>2, <3>1, <3>2, ReplyAssumption
    <2>12. Ends(ds, len) <=> len <= (CountRange - 1) * Room(h)
      BY <2>11, Zenon DEF r, most
    <2>13. HoldsPacket(ds, h, len, id)
      BY <2>6, <2>8, <2>9, <2>10, <2>12, Zenon DEF HoldsPacket
    <2> QED
      BY <2>13, Zenon DEF ds
  <1> QED
    BY <1>2, <1>3, Zenon

ReplyInv ==
    /\ loop = "recv" => maxDatagram \in DatagramSizes
    /\ loop = "start" => received = 0
    /\ ReplyIsWhole

LEMMA ReplyNextKeeps == ReplyInv /\ [ReplyNext]_replyVars => ReplyInv'
  <1> SUFFICES ASSUME ReplyInv, [ReplyNext]_replyVars PROVE ReplyInv'
    BY Zenon
  <1>1. loop = "recv" => maxDatagram \in Nat
    BY ReplyAssumption, Zenon DEF ReplyInv
  <1>2. ASSUME NEW head \in Headers, NEW len \in 0 .. MaxReply, NEW f \in 0 .. CountRange,
               Answer(head, len, f)
        PROVE  ReplyInv'
    <2> DEFINE all == Datagrams(head, len, nextPacketId)
    <2>1. /\ maxDatagram' = maxDatagram /\ maxDatagram > head /\ loop = "recv"
          /\ reply' = [head |-> head, len |-> len, id |-> nextPacketId]
      BY <1>2, Zenon DEF Answer, Receive
    <2>2. CASE f < Len(all)
      <3>1. loop' = "failed"
        BY <1>2, <2>2, Zenon DEF Answer
      <3> QED
        BY <3>1 DEF ReplyInv, ReplyIsWhole
    <2>3. CASE ~(f < Len(all))
      <3>1. datagrams' = all /\ loop' = loop
        BY <1>2, <2>3, Zenon DEF Answer
      <3>2. head \in Nat /\ len \in Nat
        BY HeaderIsNat
      <3>3. head < maxDatagram
        BY <1>1, <2>1, <3>2
      <3>4. HoldsPacket(all, head, len, nextPacketId)
        BY <1>1, <2>1, <3>2, <3>3, DatagramsHoldPacket, Zenon
      <3> HIDE DEF all
      <3>5. HoldsPacket(datagrams, reply.head, reply.len, reply.id)'
        BY <2>1, <3>1, <3>4, Zenon DEF HoldsPacket, Room, Ends
      <3>6. ReplyIsWhole'
        BY <3>5, Zenon DEF HoldsPacket, ReplyIsWhole, Complete, Ends
      <3> QED
        BY <2>1, <3>1, <3>6 DEF ReplyInv
    <2> QED
      BY <2>2, <2>3, Zenon
  <1>3. ASSUME NEW head \in Headers, NEW len \in 0 .. MaxReply, AssertFails(head, len)
        PROVE  ReplyInv'
    BY <1>3 DEF AssertFails, ReplyInv, ReplyIsWhole
  <1>4. CASE ReplyLoopEnds
    <2>1. loop' = "ended" /\ UNCHANGED <<maxDatagram, received, reply, datagrams>>
      BY <1>4, Zenon DEF ReplyLoopEnds
    <2>2. CASE loop = "start"
      <3>1. received' = 0
        BY <2>1, <2>2, Zenon DEF ReplyInv
      <3> QED
        BY <2>1, <3>1 DEF ReplyInv, ReplyIsWhole
    <2>3. CASE loop = "recv"
      <3>1. ReplyIsWhole'
        BY <2>1, <2>3 DEF ReplyInv, ReplyIsWhole, Complete, Room
      <3> QED
        BY <2>1, <3>1 DEF ReplyInv
    <2> QED
      BY <1>4, <2>2, <2>3, Zenon DEF ReplyLoopEnds
  <1>6. CASE ReplyStarts
    BY <1>6 DEF ReplyStarts, ReplyInv, ReplyIsWhole
  <1>5. CASE UNCHANGED replyVars
    BY <1>5, Zenon DEF replyVars, ReplyInv, ReplyIsWhole, Complete, Room
  <1> QED
    BY <1>2, <1>3, <1>4, <1>5, <1>6, Zenon DEF ReplyNext

(* For every size of a datagram, every address, every length and every packet id: the  *)
(* datagrams of a reply that could be sent are numbered, fit and have no gap, and a    *)
(* client that collects them has the packet exactly when its fragments can be counted  *)
(* in a byte (hysteria2.rs:341-394).  Nothing is assumed of the sizes.                 *)
THEOREM RepliesAreWhole == ReplySpec => []ReplyIsWhole
  <1>1. ReplyInit => ReplyInv
    BY DEF ReplyInit, ReplyInv, ReplyIsWhole
  <1>2. ReplyInv => ReplyIsWhole
    BY Zenon DEF ReplyInv
  <1> QED
    BY <1>1, <1>2, ReplyNextKeeps, PTL DEF ReplySpec

LoopType == [session : SessionIds, running : BOOLEAN, cancelled : BOOLEAN]

UdpTypeOK ==
    /\ conn \in {"up", "closed", "ended", "unwound"}
    /\ pc \in {"top", "wait", "resolve", "fragment", "address", "send", "ended"}
    /\ sessions \in [SessionIds -> UdpSession \cup {None}]
    /\ loops \in Seq(LoopType) /\ now \in Nat
    /\ conn \in {"ended", "unwound"} <=> pc = "ended"

(* An entry of a fragment cache holds fragments of one packet, and counts them. *)
Holds(e, p) ==
    /\ p.id = e.id /\ p.count = e.count /\ p.loc = e.loc
    /\ e.received \in [0 .. p.count - 1 -> PayloadType \cup {None}]
    /\ \A f \in 0 .. p.count - 1 : e.received[f] \in {None, Payload(p, f)}
    /\ e.got = Cardinality({f \in 0 .. p.count - 1 : e.received[f] # None})
GoodEntry(s, e) == e \in FragmentedPacket /\ \E p \in Packets : p.session = s /\ Holds(e, p)

GoodCache(s, fs) ==
    /\ fs \in Seq(FragmentedPacket) /\ Len(fs) <= CacheSize
    /\ \A i \in DOMAIN fs : GoodEntry(s, fs[i])

(* What a session in the table is. *)
GoodSession(s, u) == GoodCache(s, u.frags) /\ (u.over \/ u.addr = u.loc)
Owned(s, u) == u.loop \in DOMAIN loops /\ loops[u.loop].session = s /\ ~loops[u.loop].cancelled

(* What the task has in hand. *)
GoodHand ==
    /\ pc \in {"resolve", "fragment"} =>
          /\ cur \in PayloadType /\ cur.fragment \in Fragments(cur.packet)
    /\ pc = "fragment" => sessions[cur.packet.session] # None
    /\ pc \in {"address", "send"} =>
          /\ \E p \in Packets : cur = [session |-> p.session, loc |-> p.loc, payload |-> Whole(p)]
          /\ sessions[cur.session] # None
    /\ pc = "send" => sessions[cur.session].over \/ sessions[cur.session].loc = cur.loc

GoodTable ==
    \A s \in SessionIds : sessions[s] # None =>
        GoodSession(s, sessions[s]) /\ Owned(s, sessions[s])

UdpInv == UdpTypeOK /\ GoodHand /\ GoodTable /\ WholePackets /\ RightAddress

(***************************************************************************)
(* The fragment cache.                                                     *)
(***************************************************************************)
LEMMA PacketFields ==
  ASSUME NEW p \in Packets
  PROVE  p.session \in SessionIds /\ p.id \in Nat /\ p.loc \in Locations /\ p.count \in Counts /\ p.count \in Nat
  BY PacketsAssumption DEF Counts

LEMMA EmptyIsGood ==
  ASSUME NEW p \in Packets
  PROVE  GoodEntry(p.session, Empty(p)) /\ Empty(p).id = p.id
  <1> DEFINE rec == [f \in 0 .. p.count - 1 |-> None]
  <1>1. rec \in [0 .. p.count - 1 -> PayloadType \cup {None}] /\ \A f \in 0 .. p.count - 1 : rec[f] = None
    BY Zenon
  <1>2. {f \in 0 .. p.count - 1 : rec[f] # None} = {}
    BY <1>1, Zenon
  <1>3. Empty(p) = [id |-> p.id, count |-> p.count, got |-> 0, loc |-> p.loc, received |-> rec]
    BY Zenon DEF Empty
  <1> HIDE DEF rec
  <1>4. /\ Empty(p).id = p.id /\ Empty(p).count = p.count /\ Empty(p).got = 0 /\ Empty(p).loc = p.loc
        /\ Empty(p).received = rec
    BY <1>3
  <1>5. rec \in UNION {[0 .. n - 1 -> PayloadType \cup {None}] : n \in Counts}
    BY <1>1, PacketFields, Zenon
  <1>6. Empty(p) \in FragmentedPacket
    BY <1>3, <1>5, PacketFields DEF FragmentedPacket
  <1>7. Holds(Empty(p), p)
    BY <1>1, <1>2, <1>4, FS_EmptySet, Zenon DEF Holds
  <1> QED
    BY <1>4, <1>6, <1>7, Zenon DEF GoodEntry

(* A fragment that is new in the entry of its packet. *)
Add(e, p, f) == [e EXCEPT !.got = @ + 1, !.received[f] = Payload(p, f)]

LEMMA AddIsGood ==
  ASSUME NEW p \in Packets, NEW e, GoodEntry(p.session, e), e.id = p.id, e.count = p.count,
         NEW f \in 0 .. p.count - 1, e.received[f] = None
  PROVE  /\ GoodEntry(p.session, Add(e, p, f)) /\ Holds(Add(e, p, f), p)
         /\ Add(e, p, f).count = p.count /\ Add(e, p, f).loc = p.loc
  <1>1. PICK q \in Packets : q.session = p.session /\ Holds(e, q)
    BY Zenon DEF GoodEntry
  <1>2. q = p
    BY <1>1, DistinctAssumption, Zenon DEF Holds
  <1>3. /\ e \in FragmentedPacket /\ e.received \in [0 .. p.count - 1 -> PayloadType \cup {None}]
        /\ \A g \in 0 .. p.count - 1 : e.received[g] \in {None, Payload(p, g)}
        /\ e.got = Cardinality({g \in 0 .. p.count - 1 : e.received[g] # None}) /\ p.loc = e.loc
    BY <1>1, <1>2, ZenonT(30) DEF Holds, GoodEntry
  <1> DEFINE rec == [e.received EXCEPT ![f] = Payload(p, f)]
             a == Add(e, p, f)
  <1>4. p.count \in Counts /\ f \in Counts /\ f \in Nat
    BY PacketFields DEF Counts
  <1>5. Payload(p, f) \in PayloadType /\ Payload(p, f) # None
    BY <1>4, NoneAssumption DEF Payload, PayloadType
  <1>6. /\ rec \in [0 .. p.count - 1 -> PayloadType \cup {None}] /\ rec[f] = Payload(p, f)
        /\ \A g \in 0 .. p.count - 1 : g # f => rec[g] = e.received[g]
    BY <1>3, <1>5, Zenon
  <1>7. /\ a.id = e.id /\ a.count = e.count /\ a.loc = e.loc /\ a.got = e.got + 1 /\ a.received = rec
        /\ a = [id |-> e.id, count |-> e.count, got |-> e.got + 1, loc |-> e.loc, received |-> rec]
    <2> DEFINE R == UNION {[0 .. n - 1 -> PayloadType \cup {None}] : n \in Counts}
    <2>1. e \in [id : Nat, count : Counts, got : Nat, loc : Locations, received : R]
      BY <1>3, Zenon DEF FragmentedPacket
    <2> HIDE DEF R
    <2>2. a = [e EXCEPT !.got = e.got + 1, !.received = rec]
      BY <2>1, Zenon DEF Add
    <2> HIDE DEF a, rec
    <2>3. a = [id |-> e.id, count |-> e.count, got |-> e.got + 1, loc |-> e.loc, received |-> rec]
      BY <2>1, <2>2, Zenon
    <2> QED
      BY <2>3, Zenon
  <1> HIDE DEF rec, a
  <1>8. {g \in 0 .. p.count - 1 : rec[g] # None} = {g \in 0 .. p.count - 1 : e.received[g] # None} \cup {f}
    BY <1>5, <1>6, Zenon
  <1>9. IsFiniteSet({g \in 0 .. p.count - 1 : e.received[g] # None})
    <2>1. IsFiniteSet(0 .. p.count - 1)
      <3>1. 0 \in Int /\ p.count - 1 \in Int
        BY PacketFields
      <3> QED
        BY <3>1, FS_Interval, Zenon
    <2> QED
      BY <2>1, FS_Subset, Zenon
  <1>10. a.got = Cardinality({g \in 0 .. p.count - 1 : rec[g] # None})
    <2> DEFINE old == {g \in 0 .. p.count - 1 : e.received[g] # None}
    <2>1. f \notin old /\ IsFiniteSet(old) /\ e.got = Cardinality(old)
      BY <1>3, <1>9, Zenon
    <2>2. {g \in 0 .. p.count - 1 : rec[g] # None} = old \cup {f}
      BY <1>8, Zenon
    <2> HIDE DEF old
    <2>3. Cardinality(old \cup {f}) = Cardinality(old) + 1
      BY <2>1, FS_AddElement, Zenon
    <2> QED
      BY <1>7, <2>1, <2>2, <2>3, Zenon
  <1>11. rec \in UNION {[0 .. n - 1 -> PayloadType \cup {None}] : n \in Counts}
    BY <1>4, <1>6, Zenon
  <1>12. e.id \in Nat /\ e.count \in Counts /\ e.got \in Nat /\ e.loc \in Locations
    BY <1>3, Zenon DEF FragmentedPacket
  <1>13. a \in FragmentedPacket
    BY <1>7, <1>11, <1>12 DEF FragmentedPacket
  <1>14. Holds(a, p)
    <2>1. \A g \in 0 .. p.count - 1 : a.received[g] \in {None, Payload(p, g)}
      BY <1>3, <1>6, <1>7, Zenon
    <2> QED
      BY <1>3, <1>6, <1>7, <1>10, <2>1, Zenon DEF Holds
  <1> QED
    BY <1>3, <1>7, <1>13, <1>14, Zenon DEF GoodEntry, a

(* An entry that has counted all fragments has them all. *)
LEMMA CompleteIsWhole ==
  ASSUME NEW p \in Packets, NEW e, Holds(e, p), e.got = e.count
  PROVE  [i \in 1 .. e.count |-> e.received[i - 1]] = Whole(p)
  <1> DEFINE all == 0 .. p.count - 1
             have == {f \in all : e.received[f] # None}
  <1>1. IsFiniteSet(all) /\ Cardinality(all) = p.count
    <2>1. p.count \in Nat
      BY PacketFields, Zenon
    <2>0. 0 \in Int /\ p.count - 1 \in Int
      BY <2>1
    <2>2. IsFiniteSet(all) /\ Cardinality(all) = IF 0 > p.count - 1 THEN 0 ELSE (p.count - 1) - 0 + 1
      BY <2>0, FS_Interval, Zenon
    <2> QED
      BY <2>1, <2>2
  <1>2. have \subseteq all /\ Cardinality(have) = p.count
    BY Zenon DEF Holds
  <1>3. have = all
    BY <1>1, <1>2, FS_Subset, Zenon
  <1>4. \A f \in all : e.received[f] = Payload(p, f)
    BY <1>3, Zenon DEF Holds
  <1>5. \A i \in 1 .. p.count : e.received[i - 1] = Payload(p, i - 1)
    BY <1>4, PacketFields
  <1> QED
    BY <1>5, Zenon DEF Holds, Whole

(* What is left of a sequence without one element. *)
LEMMA RemovedIsPart ==
  ASSUME NEW S, NEW s \in Seq(S), NEW i \in 1 .. Len(s)
  PROVE  /\ Removed(s, i) \in Seq(S) /\ Len(Removed(s, i)) = Len(s) - 1
         /\ \A k \in DOMAIN Removed(s, i) : \E j \in DOMAIN s : Removed(s, i)[k] = s[j]
  <1> DEFINE a == SubSeq(s, 1, i - 1)
             b == SubSeq(s, i + 1, Len(s))
  <1>1. a \in Seq(S) /\ Len(a) = i - 1 /\ \A k \in 1 .. i - 1 : a[k] = s[k]
    OBVIOUS
  <1>2. b \in Seq(S) /\ Len(b) = Len(s) - i /\ \A k \in 1 .. Len(s) - i : b[k] = s[i + k]
    OBVIOUS
  <1>3. Removed(s, i) = a \o b
    BY Zenon DEF Removed
  <1> HIDE DEF a, b
  <1>4. i \in 1 .. Len(s) /\ Len(s) \in Nat /\ DOMAIN s = 1 .. Len(s)
    OBVIOUS
  <1>5. Removed(s, i) \in Seq(S) /\ Len(Removed(s, i)) = Len(s) - 1
    <2>1. a \o b \in Seq(S) /\ Len(a \o b) = Len(a) + Len(b)
      <3>1. a \in Seq(S) /\ b \in Seq(S)
        BY <1>1, <1>2, Zenon
      <3> QED
        BY <3>1
    <2>2. Len(a) + Len(b) = Len(s) - 1
      BY <1>1, <1>2, <1>4
    <2> QED
      BY <1>3, <2>1, <2>2, Zenon
  <1>6. ASSUME NEW k \in 1 .. Len(s) - 1 PROVE \E j \in DOMAIN s : (a \o b)[k] = s[j]
    <2>1. CASE k <= i - 1
      <3>1. (a \o b)[k] = s[k] /\ k \in DOMAIN s
        BY <1>1, <1>2, <1>4, <2>1
      <3> QED
        BY <3>1, Zenon
    <2>2. CASE k > i - 1
      <3>0. k - (i - 1) \in 1 .. Len(s) - i
        BY <1>4, <2>2
      <3>1. i + (k - (i - 1)) = k + 1 /\ k + 1 \in 1 .. Len(s)
        BY <1>4, <2>2
      <3>2. k \in Len(a) + 1 .. Len(a) + Len(b)
        BY <1>1, <1>2, <1>4, <2>2
      <3>3. (a \o b)[k] = b[k - Len(a)]
        BY <1>1, <1>2, <3>2, SMTT(30)
      <3>4. b[k - (i - 1)] = s[k + 1]
        BY <1>2, <3>0, <3>1, Zenon
      <3>5. k + 1 \in DOMAIN s
        BY <1>4, <3>1, Zenon
      <3> QED
        BY <1>1, <3>3, <3>4, <3>5, Zenon
    <2>3. k <= i - 1 \/ k > i - 1
      BY <1>4
    <2> QED
      BY <2>1, <2>2, <2>3, Zenon
  <1>7. DOMAIN Removed(s, i) = 1 .. Len(s) - 1
    BY <1>4, <1>5
  <1> QED
    BY <1>3, <1>5, <1>6, <1>7, Zenon

LEMMA FrontIsPart ==
  ASSUME NEW S, NEW s \in Seq(S), Len(s) > 0
  PROVE  LET t == SubSeq(s, 1, Len(s) - 1)
         IN  t \in Seq(S) /\ Len(t) = Len(s) - 1 /\ \A k \in 1 .. Len(t) : t[k] = s[k]
  <1>1. PICK n \in Nat : n = Len(s) /\ n > 0
    OBVIOUS
  <1> DEFINE t == SubSeq(s, 1, n - 1)
  <1>2. t \in Seq(S)
    BY <1>1
  <1>3. Len(t) = n - 1
    BY <1>1
  <1>4. \A k \in 1 .. n - 1 : t[k] = s[k]
    BY <1>1
  <1> QED
    BY <1>1, <1>2, <1>3, <1>4, Zenon

LEMMA AppendIsGood ==
  ASSUME NEW s, NEW fs, GoodCache(s, fs), Len(fs) < CacheSize, NEW e, GoodEntry(s, e)
  PROVE  GoodCache(s, Append(fs, e)) /\ Len(Append(fs, e)) = Len(fs) + 1 /\ Append(fs, e)[Len(fs) + 1] = e
  <1>1. fs \in Seq(FragmentedPacket) /\ e \in FragmentedPacket /\ CacheSize \in Nat
    BY LimitsAssumption, Zenon DEF GoodCache, GoodEntry
  <1> DEFINE t == Append(fs, e)
  <1>2. /\ t \in Seq(FragmentedPacket) /\ Len(t) = Len(fs) + 1 /\ t[Len(fs) + 1] = e
        /\ \A i \in 1 .. Len(fs) : t[i] = fs[i]
    BY <1>1
  <1> HIDE DEF t
  <1>3. ASSUME NEW i \in DOMAIN t PROVE GoodEntry(s, t[i])
    <2>1. i \in 1 .. Len(fs) \/ i = Len(fs) + 1
      BY <1>1, <1>2
    <2>2. CASE i \in 1 .. Len(fs)
      <3>1. i \in DOMAIN fs
        BY <1>1, <2>2
      <3> QED
        BY <1>2, <2>2, <3>1, Zenon DEF GoodCache
    <2>3. CASE i = Len(fs) + 1
      BY <1>2, <2>3, Zenon
    <2> QED
      BY <2>1, <2>2, <2>3, Zenon
  <1>4. Len(t) <= CacheSize
    BY <1>1, <1>2
  <1> QED
    BY <1>2, <1>3, <1>4, Zenon DEF GoodCache, t

LEMMA PartIsGood ==
  ASSUME NEW s, NEW fs, GoodCache(s, fs), NEW t \in Seq(FragmentedPacket), Len(t) <= CacheSize,
         \A k \in DOMAIN t : \E j \in DOMAIN fs : t[k] = fs[j]
  PROVE  GoodCache(s, t)
  BY Zenon DEF GoodCache

(* The cache with the packet's entry at its end, and the cache without it. *)
LEMMA CachedIsGood ==
  ASSUME NEW s \in SessionIds, GoodCache(s, Session.frags), cur.packet \in Packets, cur.packet.session = s
  PROVE  /\ GoodCache(s, Cached) /\ Len(Cached) > 0 /\ GoodEntry(s, Entry) /\ Entry.id = cur.packet.id
         /\ GoodCache(s, Popped) /\ Len(Popped) < CacheSize
  <1> DEFINE fs == Session.frags
             mine == Places(fs, cur.packet.id)
             i == CHOOSE k \in mine : TRUE
  <1>1. fs \in Seq(FragmentedPacket) /\ Len(fs) <= CacheSize /\ CacheSize \in Nat \ {0}
    BY LimitsAssumption, Zenon DEF GoodCache
  <1>2. GoodCache(s, Cached) /\ Len(Cached) > 0 /\ Cached[Len(Cached)].id = cur.packet.id
    <2>1. CASE mine = {}
      <3> DEFINE e == Empty(cur.packet)
      <3>1. Cached = Put(fs, e) /\ GoodEntry(s, e) /\ e.id = cur.packet.id
        BY <2>1, EmptyIsGood, Zenon DEF Cached
      <3> HIDE DEF e, fs
      <3>2. CASE Len(fs) = CacheSize
        <4> DEFINE t == Tail(fs)
        <4>1. /\ t \in Seq(FragmentedPacket) /\ Len(t) = Len(fs) - 1 /\ \A k \in 1 .. Len(t) : t[k] = fs[k + 1]
              /\ \A k \in 1 .. Len(t) : k + 1 \in DOMAIN fs
          BY <1>1, <3>2
        <4>2. Cached = Append(t, e)
          BY <3>1, <3>2, Zenon DEF Put
        <4> HIDE DEF t
        <4>3. Len(t) < CacheSize /\ Len(t) \in Nat /\ DOMAIN t = 1 .. Len(t)
          BY <1>1, <3>2, <4>1
        <4>4. GoodCache(s, t)
          <5>1. \A k \in DOMAIN t : \E j \in DOMAIN fs : t[k] = fs[j]
            BY <4>1, <4>3, Zenon
          <5>2. Len(t) <= CacheSize
            BY <1>1, <4>3
          <5> QED
            BY <4>1, <5>1, <5>2, PartIsGood DEF fs
        <4>5. GoodCache(s, Cached) /\ Len(Cached) = Len(t) + 1 /\ Cached[Len(t) + 1] = e
          BY <3>1, <4>2, <4>3, <4>4, AppendIsGood
        <4> QED
          BY <3>1, <4>3, <4>5
      <3>3. CASE Len(fs) # CacheSize
        <4>1. Cached = Append(fs, e) /\ Len(fs) < CacheSize /\ Len(fs) \in Nat
          BY <1>1, <3>1, <3>3 DEF Put
        <4>2. GoodCache(s, Cached) /\ Len(Cached) = Len(fs) + 1 /\ Cached[Len(fs) + 1] = e
          BY <3>1, <4>1, AppendIsGood DEF fs
        <4> QED
          BY <3>1, <4>1, <4>2
      <3> QED
        BY <3>2, <3>3, Zenon
    <2>2. CASE mine # {}
      <3>1. i \in 1 .. Len(fs) /\ fs[i].id = cur.packet.id
        BY <2>2, Zenon DEF Places
      <3> DEFINE t == Removed(fs, i)
      <3>2. Cached = Append(t, fs[i])
        BY <2>2, Zenon DEF Cached
      <3> HIDE DEF fs, i, mine
      <3>3. i \in DOMAIN fs
        BY <1>1, <3>1
      <3>4. /\ t \in Seq(FragmentedPacket) /\ Len(t) = Len(fs) - 1
            /\ \A k \in DOMAIN t : \E j \in DOMAIN fs : t[k] = fs[j]
        BY <1>1, <3>1, RemovedIsPart
      <3> HIDE DEF t
      <3>5. Len(t) < CacheSize /\ Len(t) \in Nat /\ Len(t) <= CacheSize
        BY <1>1, <3>4
      <3>6. GoodCache(s, t)
        BY <3>4, <3>5, PartIsGood, Zenon DEF fs
      <3>7. GoodEntry(s, fs[i])
        BY <3>3, Zenon DEF GoodCache, fs
      <3>8. GoodCache(s, Cached) /\ Len(Cached) = Len(t) + 1 /\ Cached[Len(t) + 1] = fs[i]
        BY <3>2, <3>5, <3>6, <3>7, AppendIsGood
      <3> QED
        BY <3>1, <3>5, <3>8
    <2> QED
      BY <2>1, <2>2, Zenon
  <1> HIDE DEF fs, mine, i
  <1>3. Cached \in Seq(FragmentedPacket) /\ Len(Cached) <= CacheSize /\ Len(Cached) \in DOMAIN Cached
    BY <1>2 DEF GoodCache
  <1>4. GoodEntry(s, Entry) /\ Entry.id = cur.packet.id
    BY <1>2, <1>3, Zenon DEF Entry, GoodCache
  <1>5. GoodCache(s, Popped) /\ Len(Popped) < CacheSize
    <2> DEFINE c == Cached
               t == SubSeq(c, 1, Len(c) - 1)
    <2>0. Popped = t
      BY Zenon DEF Popped
    <2>t. c \in Seq(FragmentedPacket) /\ Len(c) > 0 /\ Len(c) <= CacheSize
      BY <1>2, <1>3, Zenon
    <2> HIDE DEF c
    <2>1. t \in Seq(FragmentedPacket) /\ Len(t) = Len(c) - 1 /\ \A k \in 1 .. Len(t) : t[k] = c[k]
      BY <2>t, FrontIsPart, Zenon
    <2> HIDE DEF t
    <2>2. Len(t) < CacheSize /\ Len(t) <= CacheSize /\ \A k \in DOMAIN t : k \in DOMAIN c /\ t[k] = c[k]
      BY <1>1, <2>t, <2>1, SMTT(30)
    <2>3. GoodCache(s, c)
      BY <1>2, Zenon DEF c
    <2> QED
      BY <2>0, <2>1, <2>2, <2>3, PartIsGood, Zenon
  <1> QED
    BY <1>2, <1>4, <1>5, Zenon

(***************************************************************************)
(* The invariant.                                                          *)
(***************************************************************************)
LEMMA UdpInvInit == Init => UdpInv
  BY DEF Init, UdpInv, UdpTypeOK, GoodHand, GoodTable, WholePackets, RightAddress

LEMMA InTable ==
  ASSUME UdpInv, NEW s \in SessionIds, sessions[s] # None
  PROVE  /\ sessions[s] \in UdpSession /\ GoodSession(s, sessions[s])
         /\ Owned(s, sessions[s])
  BY Zenon DEF UdpInv, UdpTypeOK, GoodTable

(* The fields of a session. *)
LEMMA SessionFields ==
  ASSUME NEW u \in UdpSession
  PROVE  /\ u.frags \in Seq(FragmentedPacket) /\ u.loc \in Locations /\ u.addr \in Locations
         /\ u.over \in BOOLEAN /\ u.since \in Nat /\ u.loop \in Nat /\ u # None
  <1>1. u # None
    BY NoneAssumption, Zenon
  <1>2. /\ u.frags \in Seq(FragmentedPacket) /\ u.loc \in Locations /\ u.addr \in Locations
        /\ u.over \in BOOLEAN /\ u.since \in Nat /\ u.loop \in Nat
    BY Zenon DEF UdpSession
  <1> QED
    BY <1>1, <1>2, Zenon

(* The table changes at one session only. *)
LEMMA SetSession ==
  ASSUME UdpInv, NEW s \in SessionIds, NEW u \in UdpSession, GoodSession(s, u), Owned(s, u),
         sessions' = [sessions EXCEPT ![s] = u], UNCHANGED <<conn, loops>>
  PROVE  /\ sessions' \in [SessionIds -> UdpSession \cup {None}] /\ sessions'[s] = u /\ GoodTable'
         /\ \A t \in SessionIds : t # s => sessions'[t] = sessions[t]
  <1>1. /\ sessions' \in [SessionIds -> UdpSession \cup {None}] /\ sessions'[s] = u
        /\ \A t \in SessionIds : t # s => sessions'[t] = sessions[t]
    BY Zenon DEF UdpInv, UdpTypeOK
  <1>2. ASSUME NEW t \in SessionIds, sessions'[t] # None
        PROVE  GoodSession(t, sessions'[t]) /\ Owned(t, sessions'[t])
    <2>1. CASE t = s
      BY <1>1, <2>1, Zenon
    <2>2. CASE t # s
      BY <1>1, <1>2, <2>2, InTable, Zenon
    <2> QED
      BY <2>1, <2>2, Zenon
  <1>3. GoodTable'
    BY <1>2, Zenon DEF GoodTable, Owned
  <1> QED
    BY <1>1, <1>3, Zenon

(* Steps that leave the table and the loops alone. *)
LEMMA TableStays ==
  ASSUME UdpInv, UNCHANGED <<sessions, loops, sent>>, now' \in Nat, pc' # "ended",
         conn' \in {"up", "closed"}, pc # "ended",
         pc' \in {"top", "wait", "resolve", "fragment", "address", "send"}, GoodHand'
  PROVE  UdpInv'
  <1>1. UdpTypeOK'
    BY Zenon DEF UdpInv, UdpTypeOK
  <1>2. GoodTable'
    BY Zenon DEF UdpInv, UdpTypeOK, GoodTable, Owned
  <1>3. WholePackets' /\ RightAddress'
    BY Zenon DEF UdpInv, WholePackets, RightAddress
  <1> QED
    BY <1>1, <1>2, <1>3, Zenon DEF UdpInv

LEMMA Alive ==
  ASSUME UdpInv, pc # "ended"
  PROVE  conn \in {"up", "closed"} /\ now \in Nat
  BY Zenon DEF UdpInv, UdpTypeOK

LEMMA WaitSteps ==
  ASSUME UdpInv, Tick \/ ConnCloses
  PROVE  UdpInv'
  <1>1. /\ UNCHANGED <<sessions, loops, sent, pc, cur>> /\ now' \in Nat
        /\ conn' \in {"up", "closed", "ended", "unwound"}
        /\ (conn' \in {"ended", "unwound"} <=> conn \in {"ended", "unwound"})
    BY DEF Tick, ConnCloses, table, time, UdpInv, UdpTypeOK
  <1>2. UdpTypeOK'
    BY <1>1, Zenon DEF UdpInv, UdpTypeOK
  <1>3. GoodHand'
    BY <1>1, Zenon DEF UdpInv, GoodHand
  <1>4. GoodTable'
    BY <1>1, Zenon DEF UdpInv, GoodTable, Owned
  <1>5. WholePackets' /\ RightAddress'
    BY <1>1, Zenon DEF UdpInv, WholePackets, RightAddress
  <1> QED
    BY <1>2, <1>3, <1>4, <1>5, Zenon DEF UdpInv

LEMMA RecvKeeps ==
  ASSUME UdpInv, NEW p \in Packets, NEW f \in Fragments(p), Recv(p, f)
  PROVE  UdpInv'
  <1>1. /\ UNCHANGED <<sessions, loops, sent, now, conn>> /\ pc = "wait" /\ cur' = Payload(p, f)
        /\ pc' = IF sessions[p.session] = None THEN "resolve" ELSE "fragment"
    BY Zenon DEF Recv, ReadDatagram, table, time, Payload
  <1>2. cur'.packet = p /\ cur'.fragment = f /\ cur' \in PayloadType
    <2>1. f \in Counts
      <3>1. p.count \in 0 .. 255
        BY PacketFields, Zenon DEF Counts
      <3> QED
        BY <3>1 DEF Fragments, Counts
    <2> QED
      BY <1>1, <2>1, Zenon DEF Payload, PayloadType
  <1>3. GoodHand'
    BY <1>1, <1>2, Zenon DEF GoodHand, PayloadType
  <1> QED
    BY <1>1, <1>3, TableStays, Alive, Zenon

LEMMA PlainSteps ==
  ASSUME UdpInv, RecvIgnored \/ ResolveFails \/ FragmentEmpty \/ AddressFails
  PROVE  UdpInv'
  <1>1. /\ UNCHANGED <<sessions, loops, sent, now, conn>> /\ pc # "ended" /\ pc' = "top"
    BY Zenon DEF RecvIgnored, ReadDatagram, ResolveFails, FragmentEmpty, FragmentStep,
       AddressFails, DropDatagram,
           table, time
  <1>2. GoodHand'
    BY <1>1, Zenon DEF GoodHand
  <1> QED
    BY <1>1, <1>2, TableStays, Alive, Zenon

LEMMA FragmentSingleKeeps ==
  ASSUME UdpInv, FragmentSingle
  PROVE  UdpInv'
  <1>1. /\ UNCHANGED <<sessions, loops, sent, now, conn>> /\ pc = "fragment" /\ pc' = "address"
        /\ cur' = [session |-> cur.packet.session, loc |-> cur.packet.loc,
                   payload |-> Whole(cur.packet)]
    BY Zenon DEF FragmentSingle, FragmentStep, table, time
  <1>2. cur \in PayloadType /\ sessions[cur.packet.session] # None
    BY <1>1, Zenon DEF UdpInv, GoodHand, PayloadType
  <1>3. cur.packet \in Packets /\ cur'.session = cur.packet.session
    BY <1>1, <1>2, Zenon DEF PayloadType
  <1>4. GoodHand'
    BY <1>1, <1>2, <1>3, Zenon DEF GoodHand
  <1> QED
    BY <1>1, <1>4, TableStays, Alive, Zenon

LEMMA AddressKeptKeeps ==
  ASSUME UdpInv, AddressKept
  PROVE  UdpInv'
  <1>1. /\ UNCHANGED <<sessions, loops, sent, now, conn, cur>> /\ pc = "address" /\ pc' = "send"
        /\ sessions[cur.session].over \/ cur.loc = sessions[cur.session].loc
    BY Zenon DEF AddressKept, Target, table, time
  <1>2. GoodHand'
    BY <1>1, Zenon DEF UdpInv, GoodHand
  <1> QED
    BY <1>1, <1>2, TableStays, Alive, Zenon

(* The packet in hand when it is about to be sent. *)
LEMMA PacketInHand ==
  ASSUME UdpInv, pc \in {"address", "send"}
  PROVE  /\ \E p \in Packets : cur = [session |-> p.session, loc |-> p.loc, payload |-> Whole(p)]
         /\ cur.session \in SessionIds /\ cur.loc \in Locations /\ sessions[cur.session] # None
         /\ sessions[cur.session] \in UdpSession /\ GoodSession(cur.session, sessions[cur.session])
         /\ Owned(cur.session, sessions[cur.session])
  <1>1. PICK p \in Packets : cur = [session |-> p.session, loc |-> p.loc, payload |-> Whole(p)]
    BY Zenon DEF UdpInv, GoodHand
  <1>2. cur.session = p.session /\ cur.loc = p.loc
    BY <1>1, Zenon
  <1>3. cur.session \in SessionIds /\ cur.loc \in Locations
    BY <1>2, PacketFields, Zenon
  <1>4. sessions[cur.session] # None
    BY Zenon DEF UdpInv, GoodHand
  <1> QED
    BY <1>1, <1>3, <1>4, InTable, Zenon

LEMMA SendOkKeeps ==
  ASSUME UdpInv, SendOk
  PROVE  UdpInv'
  <1>1. /\ UNCHANGED <<sessions, loops, now, conn>> /\ pc = "send" /\ pc' = "top"
        /\ sent' = [payload |-> cur.payload, loc |-> cur.loc, addr |-> sessions[cur.session].addr,
                    over |-> sessions[cur.session].over]
    BY Zenon DEF SendOk, SendTo, Target, table, time
  <1>2. PICK p \in Packets : cur = [session |-> p.session, loc |-> p.loc, payload |-> Whole(p)]
    BY <1>1, PacketInHand, Zenon
  <1>3. cur.payload = Whole(p) /\ cur.loc = p.loc
    BY <1>2, Zenon
  <1>4. /\ sent'.payload = cur.payload /\ sent'.loc = cur.loc
        /\ sent'.addr = sessions[cur.session].addr /\ sent'.over = sessions[cur.session].over
    BY <1>1, Zenon
  <1>5. WholePackets'
    BY <1>3, <1>4, Zenon DEF WholePackets
  <1>6. RightAddress'
    <2>1. sessions[cur.session].over \/ sessions[cur.session].addr = sessions[cur.session].loc
      BY <1>1, PacketInHand, Zenon DEF GoodSession
    <2>2. sessions[cur.session].over \/ sessions[cur.session].loc = cur.loc
      BY <1>1, Zenon DEF UdpInv, GoodHand
    <2> QED
      BY <1>4, <2>1, <2>2, Zenon DEF RightAddress
  <1>7. UdpTypeOK' /\ GoodHand' /\ GoodTable'
    BY <1>1, Zenon DEF UdpInv, UdpTypeOK, GoodHand, GoodTable, Owned
  <1> QED
    BY <1>5, <1>6, <1>7, Zenon DEF UdpInv

LEMMA SendFailsKeeps ==
  ASSUME UdpInv, SendFails
  PROVE  UdpInv'
  <1>1. /\ UNCHANGED <<loops, now, conn, sent>> /\ pc = "send" /\ pc' = "top"
        /\ sessions' = [sessions EXCEPT ![cur.session] = None]
    BY Zenon DEF SendFails, time
  <1>2. cur.session \in SessionIds /\ sessions \in [SessionIds -> UdpSession \cup {None}]
    BY <1>1, PacketInHand, Zenon DEF UdpInv, UdpTypeOK
  <1>3. /\ sessions' \in [SessionIds -> UdpSession \cup {None}]
        /\ \A t \in SessionIds : sessions'[t] # None => sessions'[t] = sessions[t]
    BY <1>1, <1>2, Zenon
  <1>4. GoodTable'
    BY <1>1, <1>3, Zenon DEF UdpInv, GoodTable, Owned
  <1>5. UdpTypeOK' /\ GoodHand' /\ WholePackets' /\ RightAddress'
    BY <1>1, <1>3, Zenon DEF UdpInv, UdpTypeOK, GoodHand, WholePackets, RightAddress
  <1> QED
    BY <1>4, <1>5, Zenon DEF UdpInv

LEMMA AddressChangesKeeps ==
  ASSUME UdpInv, AddressChanges
  PROVE  UdpInv'
  <1> DEFINE k == cur.session
             u == [sessions[k] EXCEPT !.loc = cur.loc, !.addr = cur.loc]
  <1>1. /\ UNCHANGED <<loops, now, conn, sent, cur>> /\ pc = "address" /\ pc' = "send"
        /\ sessions' = [sessions EXCEPT ![k] = u]
    BY Zenon DEF AddressChanges, time
  <1>2. k \in SessionIds /\ cur.loc \in Locations /\ sessions[k] \in UdpSession /\ GoodSession(k, sessions[k])
        /\ Owned(k, sessions[k])
    BY <1>1, PacketInHand, Zenon
  <1>3. /\ u \in UdpSession /\ u.frags = sessions[k].frags /\ u.loc = cur.loc /\ u.addr = cur.loc
        /\ u.loop = sessions[k].loop
    BY <1>2, Zenon DEF UdpSession
  <1> HIDE DEF u, k
  <1>4. GoodSession(k, u) /\ Owned(k, u)
    BY <1>2, <1>3, Zenon DEF GoodSession, Owned
  <1>5. sessions' \in [SessionIds -> UdpSession \cup {None}] /\ sessions'[k] = u /\ GoodTable'
    BY <1>1, <1>2, <1>3, <1>4, SetSession, Zenon
  <1>6. GoodHand'
    <2>1. \E p \in Packets : cur = [session |-> p.session, loc |-> p.loc, payload |-> Whole(p)]
      BY <1>1, PacketInHand, Zenon
    <2>2. u # None
      BY <1>3, SessionFields, Zenon
    <2>3. cur.session = k
      BY Zenon DEF k
    <2> QED
      BY <1>1, <1>3, <1>5, <2>1, <2>2, <2>3, Zenon DEF GoodHand
  <1>7. UdpTypeOK' /\ WholePackets' /\ RightAddress'
    BY <1>1, <1>5, Zenon DEF UdpInv, UdpTypeOK, WholePackets, RightAddress
  <1> QED
    BY <1>5, <1>6, <1>7, Zenon DEF UdpInv

(***************************************************************************)
(* Reassembly.                                                             *)
(***************************************************************************)
(* The fragment in hand, its session, and its entry in the session's cache. *)
LEMMA FragmentInHand ==
  ASSUME UdpInv, pc = "fragment"
  PROVE  /\ cur \in PayloadType /\ cur.packet \in Packets /\ cur.packet.session \in SessionIds
         /\ cur.fragment \in Fragments(cur.packet)
         /\ Session \in UdpSession /\ GoodSession(cur.packet.session, Session)
         /\ Owned(cur.packet.session, Session) /\ GoodCache(cur.packet.session, Session.frags)
         /\ GoodEntry(cur.packet.session, Entry) /\ Entry.id = cur.packet.id
         /\ GoodCache(cur.packet.session, Popped) /\ Len(Popped) < CacheSize
  <1>1. /\ cur \in PayloadType /\ cur.fragment \in Fragments(cur.packet)
        /\ sessions[cur.packet.session] # None
    BY Zenon DEF UdpInv, GoodHand, PayloadType
  <1>2. cur.packet \in Packets /\ cur.packet.session \in SessionIds
    <2>1. cur.packet \in Packets
      BY <1>1, Zenon DEF PayloadType
    <2> QED
      BY <2>1, PacketFields, Zenon
  <1>3. /\ Session \in UdpSession /\ GoodSession(cur.packet.session, Session)
        /\ Owned(cur.packet.session, Session)
    BY <1>1, <1>2, InTable, Zenon DEF Session
  <1>4. GoodCache(cur.packet.session, Session.frags)
    BY <1>3, Zenon DEF GoodSession
  <1> QED
    BY <1>1, <1>2, <1>3, <1>4, CachedIsGood, Zenon

(* The session's cache is replaced. *)
LEMMA SetFragsKeeps ==
  ASSUME UdpInv, pc = "fragment", NEW fs, GoodCache(cur.packet.session, fs), SetFrags(fs),
         UNCHANGED <<loops, now, conn, sent>>
  PROVE  /\ sessions' \in [SessionIds -> UdpSession \cup {None}] /\ GoodTable'
         /\ sessions'[cur.packet.session] # None
  <1> DEFINE k == cur.packet.session
             u == [sessions[k] EXCEPT !.frags = fs]
  <1>1. sessions' = [sessions EXCEPT ![k] = u]
    BY Zenon DEF SetFrags
  <1>2. k \in SessionIds /\ sessions[k] \in UdpSession /\ GoodSession(k, sessions[k]) /\ Owned(k, sessions[k])
    BY FragmentInHand, Zenon DEF Session
  <1>3. fs \in Seq(FragmentedPacket)
    BY Zenon DEF GoodCache
  <1>4. /\ u \in UdpSession /\ u.frags = fs /\ u.loc = sessions[k].loc /\ u.addr = sessions[k].addr
        /\ u.loop = sessions[k].loop /\ u.over = sessions[k].over
    BY <1>2, <1>3, Zenon DEF UdpSession
  <1>5. GoodCache(k, fs)
    BY Zenon
  <1> HIDE DEF u, k
  <1>6. GoodSession(k, u) /\ Owned(k, u)
    BY <1>2, <1>4, <1>5, Zenon DEF GoodSession, Owned
  <1>7. sessions' \in [SessionIds -> UdpSession \cup {None}] /\ sessions'[k] = u /\ GoodTable'
    BY <1>1, <1>2, <1>4, <1>6, SetSession, Zenon
  <1>8. u # None
    BY <1>4, SessionFields, Zenon
  <1> QED
    BY <1>7, <1>8, Zenon DEF k

LEMMA FragmentRejectedKeeps ==
  ASSUME UdpInv, FragmentRejected
  PROVE  UdpInv'
  <1>1. pc = "fragment" /\ SetFrags(Popped) /\ pc' = "top" /\ UNCHANGED <<loops, now, conn, sent>>
    BY Zenon DEF FragmentRejected, FragmentStep, DropDatagram, time
  <1>2. sessions' \in [SessionIds -> UdpSession \cup {None}] /\ GoodTable'
    BY <1>1, FragmentInHand, SetFragsKeeps, Zenon
  <1>3. UdpTypeOK' /\ GoodHand' /\ WholePackets' /\ RightAddress'
    BY <1>1, <1>2, Zenon DEF UdpInv, UdpTypeOK, GoodHand, WholePackets, RightAddress
  <1> QED
    BY <1>2, <1>3, Zenon DEF UdpInv

(* A fragment of the entry's packet that is not there yet. *)
LEMMA FilledIsGood ==
  ASSUME UdpInv, pc = "fragment", ~Mismatch, InRange, ~Duplicate
  PROVE  /\ GoodEntry(cur.packet.session, Filled) /\ Holds(Filled, cur.packet)
         /\ Filled.count = cur.packet.count /\ Filled.loc = cur.packet.loc
  <1> DEFINE p == cur.packet
             f == cur.fragment
  <1>1. p \in Packets /\ GoodEntry(p.session, Entry) /\ Entry.id = p.id
    BY FragmentInHand, Zenon
  <1>2. Entry.count = p.count
    BY Zenon DEF Mismatch
  <1>3. Entry.received \in [0 .. p.count - 1 -> PayloadType \cup {None}]
    <2>1. PICK q \in Packets : q.session = p.session /\ Holds(Entry, q)
      BY <1>1, Zenon DEF GoodEntry
    <2> QED
      BY <1>2, <2>1, Zenon DEF Holds
  <1>4. f \in 0 .. p.count - 1
    BY <1>3, Zenon DEF InRange
  <1>5. Entry.received[f] = None
    BY <1>3, <1>4, Zenon DEF Duplicate
  <1>6. Filled = Add(Entry, p, f)
    BY Zenon DEF Filled, Add
  <1> HIDE DEF p, f
  <1>7. /\ GoodEntry(p.session, Add(Entry, p, f)) /\ Holds(Add(Entry, p, f), p)
        /\ Add(Entry, p, f).count = p.count /\ Add(Entry, p, f).loc = p.loc
    BY <1>1, <1>2, <1>4, <1>5, AddIsGood, Zenon
  <1> QED
    BY <1>6, <1>7, Zenon DEF p

LEMMA FragmentKeptKeeps ==
  ASSUME UdpInv, FragmentKept
  PROVE  UdpInv'
  <1>1. /\ pc = "fragment" /\ SetFrags(Append(Popped, Filled)) /\ pc' = "top"
        /\ UNCHANGED <<loops, now, conn, sent>> /\ ~Mismatch /\ InRange /\ ~Duplicate
    BY Zenon DEF FragmentKept, FragmentStep, DropDatagram, time
  <1>2. GoodCache(cur.packet.session, Append(Popped, Filled))
    BY <1>1, FragmentInHand, FilledIsGood, AppendIsGood, Zenon
  <1>3. sessions' \in [SessionIds -> UdpSession \cup {None}] /\ GoodTable'
    BY <1>1, <1>2, SetFragsKeeps, Zenon
  <1>4. UdpTypeOK' /\ GoodHand' /\ WholePackets' /\ RightAddress'
    BY <1>1, <1>3, Zenon DEF UdpInv, UdpTypeOK, GoodHand, WholePackets, RightAddress
  <1> QED
    BY <1>3, <1>4, Zenon DEF UdpInv

LEMMA FragmentCompletesKeeps ==
  ASSUME UdpInv, FragmentCompletes
  PROVE  UdpInv'
  <1>1. /\ pc = "fragment" /\ SetFrags(Popped) /\ pc' = "address"
        /\ UNCHANGED <<loops, now, conn, sent>> /\ ~Mismatch /\ InRange /\ ~Duplicate
        /\ cur' = [session |-> cur.packet.session, loc |-> Filled.loc,
                   payload |-> [i \in 1 .. Filled.count |-> Filled.received[i - 1]]]
        /\ Filled.got = Filled.count
    BY Zenon DEF FragmentCompletes, FragmentStep, time
  <1>2. /\ sessions' \in [SessionIds -> UdpSession \cup {None}] /\ GoodTable'
        /\ sessions'[cur.packet.session] # None
    BY <1>1, FragmentInHand, SetFragsKeeps, Zenon
  <1>3. cur.packet \in Packets /\ Holds(Filled, cur.packet) /\ Filled.loc = cur.packet.loc
    BY <1>1, FragmentInHand, FilledIsGood, Zenon
  <1>4. [i \in 1 .. Filled.count |-> Filled.received[i - 1]] = Whole(cur.packet)
    BY <1>1, <1>3, CompleteIsWhole, Zenon
  <1>5. /\ cur' = [session |-> cur.packet.session, loc |-> cur.packet.loc, payload |-> Whole(cur.packet)]
        /\ cur'.session = cur.packet.session
    BY <1>1, <1>3, <1>4, Zenon
  <1>6. GoodHand'
    BY <1>1, <1>2, <1>3, <1>5, Zenon DEF GoodHand
  <1>7. UdpTypeOK' /\ WholePackets' /\ RightAddress'
    BY <1>1, <1>2, Zenon DEF UdpInv, UdpTypeOK, WholePackets, RightAddress
  <1> QED
    BY <1>2, <1>6, <1>7, Zenon DEF UdpInv

(***************************************************************************)
(* Sessions and their loops.                                               *)
(***************************************************************************)
(* What Owned looks at stays for every session in the table. *)
LEMMA OwnedStays ==
  ASSUME UdpInv, NEW s \in SessionIds, sessions[s] # None,
         \A i \in DOMAIN loops : loops[i].session = s /\ ~loops[i].cancelled
             => i \in DOMAIN loops' /\ loops'[i].session = s /\ ~loops'[i].cancelled
  PROVE  /\ sessions[s].loop \in DOMAIN loops' /\ loops'[sessions[s].loop].session = s
         /\ ~loops'[sessions[s].loop].cancelled
  BY InTable, Zenon DEF Owned

LEMMA StartSessionKeeps ==
  ASSUME UdpInv, StartSession
  PROVE  UdpInv'
  <1> DEFINE k == cur.packet.session
             u == NewSession(cur.packet.loc)
             rec == [session |-> k, running |-> TRUE, cancelled |-> FALSE]
  <1>1. /\ pc = "resolve" /\ pc' = "fragment" /\ UNCHANGED <<now, conn, sent, cur>>
        /\ sessions' = [sessions EXCEPT ![k] = u] /\ loops' = Append(loops, rec)
    BY Zenon DEF StartSession, time
  <1>2. /\ cur \in PayloadType /\ cur.fragment \in Fragments(cur.packet)
        /\ sessions \in [SessionIds -> UdpSession \cup {None}] /\ loops \in Seq(LoopType) /\ now \in Nat
    BY <1>1, Zenon DEF UdpInv, UdpTypeOK, GoodHand, PayloadType
  <1>3. k \in SessionIds /\ cur.packet.loc \in Locations
    <2>1. cur.packet \in Packets
      BY <1>2, Zenon DEF PayloadType
    <2> QED
      BY <2>1, PacketFields, Zenon
  <1>4. Len(loops) \in Nat /\ rec \in LoopType /\ rec.session = k /\ ~rec.cancelled
    BY <1>2, <1>3 DEF LoopType
  <1>5. /\ u \in UdpSession /\ u.frags = <<>> /\ u.addr = u.loc /\ u.loop = Len(loops) + 1
    <2>1. PICK o \in BOOLEAN : o = (cur.packet.loc \notin Literal)
      BY Zenon
    <2>2. u = [frags |-> <<>>, loc |-> cur.packet.loc, addr |-> cur.packet.loc, over |-> o,
               since |-> now, loop |-> Len(loops) + 1]
      BY <2>1, Zenon DEF NewSession
    <2>3. <<>> \in Seq(FragmentedPacket)
      OBVIOUS
    <2> QED
      BY <1>2, <1>3, <1>4, <2>2, <2>3 DEF UdpSession
  <1> HIDE DEF k, u, rec
  <1>6. /\ loops' \in Seq(LoopType) /\ DOMAIN loops' = 1 .. Len(loops) + 1 /\ loops'[Len(loops) + 1] = rec
        /\ \A i \in DOMAIN loops : i \in DOMAIN loops' /\ loops'[i] = loops[i]
    BY <1>1, <1>2, <1>4
  <1>7. /\ sessions' \in [SessionIds -> UdpSession \cup {None}] /\ sessions'[k] = u
        /\ \A t \in SessionIds : t # k => sessions'[t] = sessions[t]
    BY <1>1, <1>2, <1>3, <1>5, Zenon
  <1>8. GoodTable'
    <2>1. ASSUME NEW t \in SessionIds, sessions'[t] # None
          PROVE  GoodSession(t, sessions'[t]) /\ Owned(t, sessions[t])'
      <3>1. CASE t = k
        <4>1. GoodCache(k, <<>>)
          BY LimitsAssumption DEF GoodCache
        <4>2. GoodSession(k, u)
          BY <1>5, <4>1, Zenon DEF GoodSession
        <4>3. Owned(t, sessions[t])'
          BY <1>4, <1>5, <1>6, <1>7, <3>1 DEF Owned
        <4> QED
          BY <1>7, <3>1, <4>2, <4>3, Zenon
      <3>2. CASE t # k
        <4>1. sessions[t] # None /\ sessions'[t] = sessions[t]
          BY <1>7, <2>1, <3>2, Zenon
        <4>2. GoodSession(t, sessions[t]) /\ Owned(t, sessions[t])
          BY <1>2, <4>1, InTable, Zenon
        <4>3. Owned(t, sessions[t])'
          BY <1>6, <4>1, <4>2, Zenon DEF Owned
        <4> QED
          BY <4>1, <4>2, <4>3, Zenon
      <3> QED
        BY <3>1, <3>2, Zenon
    <2> QED
      BY <2>1, Zenon DEF GoodTable
  <1>9. GoodHand'
    <2>1. u # None
      BY <1>5, SessionFields, Zenon
    <2> QED
      BY <1>1, <1>2, <1>7, <2>1, Zenon DEF GoodHand, PayloadType, k
  <1>10. UdpTypeOK' /\ WholePackets' /\ RightAddress'
    BY <1>1, <1>6, <1>7, Zenon DEF UdpInv, UdpTypeOK, WholePackets, RightAddress
  <1> QED
    BY <1>8, <1>9, <1>10, Zenon DEF UdpInv

LEMMA LoopStops ==
  ASSUME UdpInv, NEW i \in DOMAIN loops, LoopEnds(i) \/ LoopFails(i)
  PROVE  UdpInv'
  <1>1. loops' = [loops EXCEPT ![i].running = FALSE] /\ UNCHANGED <<conn, pc, cur, sessions, now, sent>>
    BY Zenon DEF LoopEnds, LoopFails, time
  <1>2. loops \in Seq(LoopType) /\ DOMAIN loops = 1 .. Len(loops)
    BY DEF UdpInv, UdpTypeOK
  <1>3. loops[i] \in LoopType
    BY <1>2
  <1>4. \A l \in LoopType : /\ [l EXCEPT !.running = FALSE] \in LoopType
                            /\ [l EXCEPT !.running = FALSE].session = l.session
                            /\ [l EXCEPT !.running = FALSE].cancelled = l.cancelled
    BY Zenon DEF LoopType
  <1>5. /\ loops' \in Seq(LoopType) /\ DOMAIN loops' = DOMAIN loops
        /\ \A j \in DOMAIN loops : loops'[j] = IF j = i THEN [loops[i] EXCEPT !.running = FALSE] ELSE loops[j]
    BY <1>1, <1>2, <1>3, <1>4
  <1>6. \A j \in DOMAIN loops : loops'[j].session = loops[j].session /\ loops'[j].cancelled = loops[j].cancelled
    BY <1>3, <1>4, <1>5, ZenonT(30)
  <1>7. GoodTable'
    <2>1. ASSUME NEW t \in SessionIds, sessions[t] # None PROVE Owned(t, sessions[t])'
      BY <1>1, <1>5, <1>6, <2>1, OwnedStays DEF Owned
    <2> QED
      BY <1>1, <2>1, InTable, Zenon DEF GoodTable
  <1>8. UdpTypeOK' /\ GoodHand' /\ WholePackets' /\ RightAddress'
    BY <1>1, <1>5, ZenonT(30) DEF UdpInv, UdpTypeOK, GoodHand, WholePackets, RightAddress
  <1> QED
    BY <1>7, <1>8, Zenon DEF UdpInv

LEMMA EndsKeep ==
  ASSUME UdpInv, RecvFails \/ SocketFails \/ ConnFails \/ RecvCut \/ FragmentOutOfRange
  PROVE  UdpInv'
  <1>1. /\ conn' \in {"ended", "unwound"} /\ pc' = "ended" /\ UNCHANGED <<now, sent>>
        /\ sessions' = [s \in SessionIds |-> None]
        /\ \/ loops' = [i \in DOMAIN loops |-> [loops[i] EXCEPT !.cancelled = TRUE]]
           \/ loops' = loops
    BY Zenon DEF RecvFails, SocketFails, ConnFails, RecvCut, FragmentOutOfRange, EndAll, Panic,
       DropLoop, time
  <1>2. loops \in Seq(LoopType) /\ DOMAIN loops = 1 .. Len(loops) /\ Len(loops) \in Nat
    BY DEF UdpInv, UdpTypeOK
  <1>3. \A l \in LoopType : [l EXCEPT !.cancelled = TRUE] \in LoopType
    BY Zenon DEF LoopType
  <1>4. loops' \in Seq(LoopType)
    BY <1>1, <1>2, <1>3
  <1>5. sessions' \in [SessionIds -> UdpSession \cup {None}] /\ \A s \in SessionIds : sessions'[s] = None
    BY <1>1, Zenon
  <1>6. UdpTypeOK' /\ GoodHand' /\ WholePackets' /\ RightAddress'
    BY <1>1, <1>4, <1>5, Zenon DEF UdpInv, UdpTypeOK, GoodHand, WholePackets, RightAddress
  <1>7. GoodTable'
    BY <1>5, Zenon DEF GoodTable
  <1> QED
    BY <1>6, <1>7, Zenon DEF UdpInv

LEMMA CleanupIsSafe ==
  ASSUME UdpInv, Cleanup
  PROVE  UdpInv'
  <1> DEFINE old == IF now - lastCleanup > CleanupInterval THEN {s \in SessionIds : Idle(s)} ELSE {}
             gone(i) == \E s \in old : sessions[s].loop = i
  <1>1. /\ pc = "top" /\ pc' = "wait" /\ UNCHANGED <<conn, cur, now, sent>>
        /\ loops' = [i \in DOMAIN loops |->
                        IF gone(i) THEN [loops[i] EXCEPT !.cancelled = TRUE] ELSE loops[i]]
        /\ sessions' = [s \in SessionIds |-> IF s \in old THEN None ELSE sessions[s]]
    BY Zenon DEF Cleanup
  <1>2. /\ loops \in Seq(LoopType) /\ DOMAIN loops = 1 .. Len(loops) /\ Len(loops) \in Nat
        /\ sessions \in [SessionIds -> UdpSession \cup {None}]
    BY <1>1 DEF UdpInv, UdpTypeOK
  <1>3. \A s \in old : s \in SessionIds /\ sessions[s] # None
    BY Zenon DEF Idle
  <1> HIDE DEF old
  <1>4. \A l \in LoopType : /\ [l EXCEPT !.cancelled = TRUE] \in LoopType
                            /\ [l EXCEPT !.cancelled = TRUE].session = l.session
    BY Zenon DEF LoopType
  <1>5. /\ loops' \in Seq(LoopType) /\ DOMAIN loops' = DOMAIN loops
        /\ \A j \in DOMAIN loops : ~gone(j) => loops'[j] = loops[j]
    BY <1>1, <1>2, <1>4
  <1>6. /\ sessions' \in [SessionIds -> UdpSession \cup {None}]
        /\ \A t \in SessionIds : sessions'[t] # None => t \notin old /\ sessions'[t] = sessions[t]
    BY <1>1, <1>2, Zenon
  <1>7. ASSUME NEW t \in SessionIds, sessions'[t] # None
        PROVE  GoodSession(t, sessions'[t]) /\ Owned(t, sessions[t])'
    <2>1. sessions[t] # None /\ t \notin old /\ sessions'[t] = sessions[t]
      BY <1>6, <1>7, Zenon
    <2>2. GoodSession(t, sessions[t]) /\ Owned(t, sessions[t])
      BY <1>2, <2>1, InTable, Zenon
    <2>3. ~gone(sessions[t].loop)
      <3> SUFFICES ASSUME NEW s \in old, sessions[s].loop = sessions[t].loop PROVE FALSE
        BY Zenon
      <3>1. Owned(s, sessions[s])
        BY <1>2, <1>3, InTable, Zenon
      <3> QED
        BY <2>1, <2>2, <3>1, Zenon DEF Owned
    <2>4. sessions[t].loop \in DOMAIN loops
      BY <2>2, Zenon DEF Owned
    <2>5. loops'[sessions[t].loop] = loops[sessions[t].loop]
      BY <1>5, <2>3, <2>4, Zenon
    <2> QED
      BY <1>5, <2>1, <2>2, <2>5, Zenon DEF Owned
  <1>8. GoodTable'
    BY <1>7, Zenon DEF GoodTable
  <1>9. UdpTypeOK' /\ GoodHand' /\ WholePackets' /\ RightAddress'
    BY <1>1, <1>5, <1>6, Zenon DEF UdpInv, UdpTypeOK, GoodHand, WholePackets, RightAddress
  <1> QED
    BY <1>8, <1>9, Zenon DEF UdpInv

LEMMA UdpInvNext ==
  ASSUME UdpInv, [Next]_vars
  PROVE  UdpInv'
  <1>1. CASE UNCHANGED vars
    <2>1. UNCHANGED <<conn, pc, cur, sessions, loops, now, sent>>
      BY <1>1, Zenon DEF vars, table, time
    <2> QED
      BY <2>1, ZenonT(30) DEF UdpInv, UdpTypeOK, GoodHand, GoodTable, Owned, WholePackets,
         RightAddress
  <1>2. CASE ForwardStep
    BY <1>2, CleanupIsSafe, StartSessionKeeps, PlainSteps, EndsKeep, FragmentSingleKeeps,
       FragmentRejectedKeeps,
       FragmentKeptKeeps, FragmentCompletesKeeps, AddressChangesKeeps, AddressKeptKeeps,
       SendOkKeeps, SendFailsKeeps, Zenon
       DEF ForwardStep
  <1>3. CASE RecvIgnored \/ RecvCut \/ \E p \in Packets : \E f \in Fragments(p) : Recv(p, f)
    BY <1>3, PlainSteps, EndsKeep, RecvKeeps, Zenon
  <1>4. CASE \E i \in DOMAIN loops : LoopEnds(i) \/ LoopFails(i)
    BY <1>4, LoopStops, Zenon
  <1>5. CASE Tick \/ ConnCloses \/ ConnFails
    BY <1>5, WaitSteps, EndsKeep, Zenon
  <1> QED
    BY <1>1, <1>2, <1>3, <1>4, <1>5, Zenon DEF Next

LEMMA UdpInvAlways == Spec => []UdpInv
  <1>1. UdpInv /\ [Next]_vars => UdpInv'
    BY UdpInvNext, Zenon
  <1> QED
    BY UdpInvInit, <1>1, PTL DEF Spec

(* What a Hysteria2 session forwards is always one packet of the client, complete and   *)
(* in order, for every set of packets whose fragments can be told apart, every cache    *)
(* size and every order, loss and repetition of their fragments.                        *)
THEOREM ForwardedWhole == Spec => []WholePackets
  BY UdpInvAlways, PTL DEF UdpInv

(* It goes to the address of its own location, unless the session is bound to the       *)
(* address that its first location resolved to.                                         *)
THEOREM ForwardedToRightAddress == Spec => []RightAddress
  BY UdpInvAlways, PTL DEF UdpInv

(* A session in the table has its own reply loop, which nobody has cancelled, and a     *)
(* fragment cache within its bound; the session in hand is in the table.                *)
THEOREM TableStaysLive == Spec => []TableIsLive
  <1>1. ASSUME UdpInv PROVE TableIsLive
    <2>1. ASSUME NEW s \in SessionIds, sessions[s] # None
          PROVE  /\ loops[sessions[s].loop].session = s /\ ~loops[sessions[s].loop].cancelled
                 /\ Len(sessions[s].frags) <= CacheSize
      BY <1>1, <2>1, InTable, Zenon DEF Owned, GoodSession, GoodCache
    <2>2. pc \in {"address", "send"} => sessions[cur.session] # None
      BY <1>1, Zenon DEF UdpInv, GoodHand
    <2> QED
      BY <2>1, <2>2, Zenon DEF TableIsLive
  <1> QED
    BY <1>1, UdpInvAlways, PTL
==============================================================================
