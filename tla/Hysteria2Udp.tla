---------------------------- MODULE Hysteria2Udp ----------------------------
(***************************************************************************)
(* UDP forwarding of one Hysteria2 connection (src/src/hysteria2.rs): the     *)
(* task that reads the client's datagrams, reassembles them and forwards      *)
(* them (run_udp_local_to_remote_loop), its table of sessions, and the task   *)
(* each session starts for the replies (run_udp_remote_to_local_loop).        *)
(*                                                                         *)
(* Datagrams are lost, duplicated and reordered: any fragment of any packet   *)
(* may arrive at any time, also with a number that is its packet's count or   *)
(* above.  A payload is named by the packet and the fragment it belongs to;   *)
(* time is counted in ticks.                                                 *)
(***************************************************************************)
EXTENDS Integers, Sequences

CONSTANTS SessionIds, Locations,
          Literal,          \* the locations that are printed as they resolve
          Packets,          \* the client's packets: session, id, location, count
          CacheSize,        \* MAX_FRAGMENT_CACHE_SIZE
          CleanupInterval, IdleTimeout,
          MaxDatagrams,     \* bound: datagrams that arrive
          MaxTime,          \* bound: ticks
          None

Counts == 0 .. 255    \* fragment_count is a u8
ASSUME PacketsAssumption ==
    Packets \subseteq [session : SessionIds, id : Nat, loc : Locations, count : Counts]
(* Packets under way with the same session and id have different counts: the code   *)
(* could not tell their fragments apart.                                            *)
ASSUME DistinctAssumption ==
    \A p, q \in Packets :
        (p.session = q.session /\ p.id = q.id /\ p.count = q.count) => p = q
ASSUME LiteralAssumption == Literal \subseteq Locations
ASSUME LimitsAssumption ==
    /\ CacheSize \in Nat \ {0} /\ CleanupInterval \in Nat /\ IdleTimeout \in Nat
    /\ MaxDatagrams \in Nat /\ MaxTime \in Nat

PayloadType == [packet : Packets, fragment : Counts]
FragmentedPacket ==
    [id : Nat, count : Counts, got : Nat, loc : Locations,
     received : UNION {[0 .. n - 1 -> PayloadType \cup {None}] : n \in Counts}]
UdpSession ==
    [frags : Seq(FragmentedPacket), loc : Locations, addr : Locations, over : BOOLEAN,
     since : Nat, loop : Nat]
ASSUME NoneAssumption == None \notin PayloadType /\ None \notin UdpSession

VARIABLES
    conn,          \* the QUIC connection: "up", "closed", "ended" once it is cancelled, or
                   \* "unwound" when its task has panicked
    pc,            \* the forwarding loop
    cur,           \* the fragment in hand, then the packet it completed
    sessions,      \* the table of UdpSession
    loops,         \* the reply loops, in the order they were spawned
    now, lastCleanup,
    arrived,       \* datagrams so far
    seen,          \* when each session last had a datagram
    sent           \* the last packet that was forwarded, and where to

table == <<sessions, loops>>
time == <<now, lastCleanup>>
vars == <<conn, pc, cur, table, time, arrived, seen, sent>>

Init ==
    /\ conn = "up" /\ pc = "top" /\ cur = None
    /\ sessions = [s \in SessionIds |-> None] /\ loops = <<>>
    /\ now = 0 /\ lastCleanup = 0 /\ arrived = 0
    /\ seen = [s \in SessionIds |-> 0] /\ sent = None

(* The fragment numbers that come with a packet: its own, and one past them for all   *)
(* that are too large.                                                               *)
Fragments(p) == 0 .. p.count
Payload(p, f) == [packet |-> p, fragment |-> f]
Whole(p) == [i \in 1 .. p.count |-> Payload(p, i - 1)]

(***************************************************************************)
(* The reply loops.                                                        *)
(***************************************************************************)
(* A loop waits for its token or for a reply to forward. *)
LoopEnds(i) ==
    /\ loops[i].running /\ loops[i].cancelled
    /\ loops' = [loops EXCEPT ![i].running = FALSE]
    /\ UNCHANGED <<conn, pc, cur, sessions, time, arrived, seen, sent>>

(* Its socket fails, or the reply cannot be sent on the connection; the session stays. *)
LoopFails(i) ==
    /\ loops[i].running
    /\ loops' = [loops EXCEPT ![i].running = FALSE]
    /\ UNCHANGED <<conn, pc, cur, sessions, time, arrived, seen, sent>>

(* The forwarding loop is dropped, and its table with it. *)
DropLoop == pc' = "ended" /\ cur' = None /\ sessions' = [s \in SessionIds |-> None]

(* Mutant: the session's token is not a child of the connection's token. *)
EndAllKeepsLoops == conn' = "ended" /\ DropLoop /\ UNCHANGED loops

(* try_join! has ended with an error: the connection's token cancels its children, *)
(* and the connection is closed.                                                  *)
EndAll ==
    /\ conn' = "ended" /\ DropLoop
    /\ loops' = [i \in DOMAIN loops |-> [loops[i] EXCEPT !.cancelled = TRUE]]

(* A slice or an index out of range panics: process_connection is unwound with the    *)
(* three loops of try_join!, past the cancel() behind it.  Dropping the connection's  *)
(* token and the table's cancels nothing: the reply loops go on.                     *)
Panic == conn' = "unwound" /\ DropLoop /\ UNCHANGED loops

(***************************************************************************)
(* The forwarding loop.                                                    *)
(***************************************************************************)
Idle(s) == sessions[s] # None /\ now - sessions[s].since > IdleTimeout

(* Mutant: idle sessions are cancelled but kept. *)
CleanupKeeps ==
    /\ pc = "top" /\ pc' = "wait"
    /\ LET old == IF now - lastCleanup > CleanupInterval
                  THEN {s \in SessionIds : Idle(s)} ELSE {}
       IN /\ loops' = [i \in DOMAIN loops |->
                          IF \E s \in old : sessions[s].loop = i
                          THEN [loops[i] EXCEPT !.cancelled = TRUE] ELSE loops[i]]
          /\ UNCHANGED sessions
    /\ lastCleanup' = IF now - lastCleanup > CleanupInterval THEN now ELSE lastCleanup
    /\ UNCHANGED <<conn, cur, now, arrived, seen, sent>>

(* Top of the loop: now and then, sessions that are idle are cancelled and removed. *)
Cleanup ==
    /\ pc = "top" /\ pc' = "wait"
    /\ LET old == IF now - lastCleanup > CleanupInterval
                  THEN {s \in SessionIds : Idle(s)} ELSE {}
       IN /\ loops' = [i \in DOMAIN loops |->
                          IF \E s \in old : sessions[s].loop = i
                          THEN [loops[i] EXCEPT !.cancelled = TRUE] ELSE loops[i]]
          /\ sessions' = [s \in SessionIds |-> IF s \in old THEN None ELSE sessions[s]]
    /\ lastCleanup' = IF now - lastCleanup > CleanupInterval THEN now ELSE lastCleanup
    /\ UNCHANGED <<conn, cur, now, arrived, seen, sent>>

(* Datagrams that were queued are still read when the connection has closed. *)
ReadDatagram == pc = "wait" /\ arrived < MaxDatagrams /\ arrived' = arrived + 1

(* A datagram that is too short, whose address is empty, too long, cut off or no      *)
(* location, is ignored.                                                             *)
RecvIgnored ==
    /\ ReadDatagram /\ pc' = "top"
    /\ UNCHANGED <<conn, cur, table, time, seen, sent>>

(* One that ends within the address length is not: the length is sliced unchecked.    *)
RecvCut ==
    /\ ReadDatagram /\ Panic
    /\ UNCHANGED <<time, seen, sent>>

Recv(p, f) ==
    /\ ReadDatagram
    /\ cur' = [packet |-> p, fragment |-> f]
    /\ seen' = [seen EXCEPT ![p.session] = now]
    /\ pc' = IF sessions[p.session] = None THEN "resolve" ELSE "fragment"
    /\ UNCHANGED <<conn, table, time, sent>>

RecvFails ==
    /\ conn = "closed" /\ pc = "wait" /\ EndAll
    /\ UNCHANGED <<time, arrived, seen, sent>>

NewSession(loc) ==
    [frags |-> <<>>, loc |-> loc, addr |-> loc, over |-> loc \notin Literal,
     since |-> now, loop |-> Len(loops) + 1]

(* The first location of a session is resolved; on failure the datagram is dropped. *)
StartSession ==
    /\ pc = "resolve"
    /\ sessions' = [sessions EXCEPT ![cur.packet.session] = NewSession(cur.packet.loc)]
    /\ loops' = Append(loops, [session |-> cur.packet.session, running |-> TRUE,
                               cancelled |-> FALSE])
    /\ pc' = "fragment"
    /\ UNCHANGED <<conn, cur, time, arrived, seen, sent>>

DropDatagram ==
    /\ pc' = "top" /\ cur' = None
    /\ UNCHANGED <<conn, loops, time, arrived, seen, sent>>

ResolveFails == pc = "resolve" /\ DropDatagram /\ UNCHANGED sessions

(* new_udp_socket fails: the error ends the connection. *)
SocketFails ==
    /\ pc = "resolve" /\ EndAll
    /\ UNCHANGED <<time, arrived, seen, sent>>

(***************************************************************************)
(* Reassembly.  frags is the LRU cache, the least recently used entry first.  *)
(***************************************************************************)
FragmentStep == pc = "fragment"
Session == sessions[cur.packet.session]
SetFrags(fs) == sessions' = [sessions EXCEPT ![cur.packet.session].frags = fs]

Places(fs, id) == {i \in 1 .. Len(fs) : fs[i].id = id}
Removed(fs, i) == SubSeq(fs, 1, i - 1) \o SubSeq(fs, i + 1, Len(fs))
Put(fs, e) == IF Len(fs) = CacheSize THEN Append(Tail(fs), e) ELSE Append(fs, e)
Empty(p) == [id |-> p.id, count |-> p.count, got |-> 0, loc |-> p.loc,
             received |-> [f \in 0 .. p.count - 1 |-> None]]

(* The entry of the packet in hand, made if it is missing and moved to the end. *)
Cached == LET fs == Session.frags
              mine == Places(fs, cur.packet.id)
              i == CHOOSE k \in mine : TRUE
          IN IF mine = {} THEN Put(fs, Empty(cur.packet)) ELSE Append(Removed(fs, i), fs[i])
Entry == Cached[Len(Cached)]
Popped == SubSeq(Cached, 1, Len(Cached) - 1)

Mismatch == Entry.count # cur.packet.count
InRange == cur.fragment \in DOMAIN Entry.received

(* Mutant: a fragment that arrives twice is counted twice. *)
DuplicateNever == FALSE
Duplicate == cur.fragment \in {f \in DOMAIN Entry.received : Entry.received[f] # None}

Filled == [Entry EXCEPT !.got = @ + 1,
                        !.received[cur.fragment] = Payload(cur.packet, cur.fragment)]

FragmentEmpty ==
    /\ FragmentStep /\ cur.packet.count = 0
    /\ DropDatagram /\ UNCHANGED sessions

(* The number of a single fragment is not looked at. *)
FragmentSingle ==
    /\ FragmentStep /\ cur.packet.count = 1
    /\ cur' = [session |-> cur.packet.session, loc |-> cur.packet.loc,
               payload |-> Whole(cur.packet)]
    /\ pc' = "address"
    /\ UNCHANGED <<conn, table, time, arrived, seen, sent>>

FragmentRejected ==
    /\ FragmentStep /\ cur.packet.count > 1
    /\ Mismatch \/ Duplicate
    /\ SetFrags(Popped)
    /\ DropDatagram

FragmentOutOfRange ==
    /\ FragmentStep /\ cur.packet.count > 1
    /\ ~Mismatch /\ ~InRange /\ Panic
    /\ UNCHANGED <<time, arrived, seen, sent>>

FragmentKept ==
    /\ FragmentStep /\ cur.packet.count > 1
    /\ ~Mismatch /\ InRange /\ ~Duplicate /\ Filled.got # Filled.count
    /\ SetFrags(Append(Popped, Filled))
    /\ DropDatagram

FragmentCompletes ==
    /\ FragmentStep /\ cur.packet.count > 1
    /\ ~Mismatch /\ InRange /\ ~Duplicate /\ Filled.got = Filled.count
    /\ SetFrags(Popped)
    /\ cur' = [session |-> cur.packet.session, loc |-> Filled.loc,
               payload |-> [i \in 1 .. Filled.count |-> Filled.received[i - 1]]]
    /\ pc' = "address"
    /\ UNCHANGED <<conn, loops, time, arrived, seen, sent>>

(***************************************************************************)
(* Forwarding.                                                             *)
(***************************************************************************)
Target == sessions[cur.session]
SendTo(addr) ==
    /\ sent' = [payload |-> cur.payload, loc |-> cur.loc, addr |-> addr, over |-> Target.over]
    /\ cur' = None

(* Mutant: the new address is not remembered with its location. *)
AddressChangesHalf ==
    /\ pc = "address" /\ ~Target.over /\ cur.loc # Target.loc
    /\ sessions' = [sessions EXCEPT ![cur.session].loc = cur.loc]
    /\ pc' = "send"
    /\ UNCHANGED <<conn, cur, loops, time, arrived, seen, sent>>

(* A literal session whose location changed resolves the new one. *)
AddressChanges ==
    /\ pc = "address" /\ ~Target.over /\ cur.loc # Target.loc
    /\ sessions' = [sessions EXCEPT ![cur.session].loc = cur.loc, ![cur.session].addr = cur.loc]
    /\ pc' = "send"
    /\ UNCHANGED <<conn, cur, loops, time, arrived, seen, sent>>

AddressFails ==
    /\ pc = "address" /\ ~Target.over /\ cur.loc # Target.loc
    /\ DropDatagram /\ UNCHANGED sessions

AddressKept ==
    /\ pc = "address" /\ (Target.over \/ cur.loc = Target.loc)
    /\ pc' = "send"
    /\ UNCHANGED <<conn, cur, table, time, arrived, seen, sent>>

SendOk ==
    /\ pc = "send" /\ pc' = "top"
    /\ SendTo(Target.addr)
    /\ UNCHANGED <<conn, table, time, arrived, seen>>

(* The session is removed; its reply loop is not cancelled. *)
SendFails ==
    /\ pc = "send" /\ pc' = "top" /\ cur' = None
    /\ sessions' = [sessions EXCEPT ![cur.session] = None]
    /\ UNCHANGED <<conn, loops, time, arrived, seen, sent>>

(***************************************************************************)
(* The rest of the connection.                                             *)
(***************************************************************************)
(* Time, while the loop that reads it runs. *)
Tick ==
    /\ now < MaxTime /\ pc # "ended"
    /\ now' = now + 1
    /\ UNCHANGED <<conn, pc, cur, table, lastCleanup, arrived, seen, sent>>

ConnCloses ==
    /\ conn = "up" /\ conn' = "closed"
    /\ UNCHANGED <<pc, cur, table, time, arrived, seen, sent>>

(* Another loop of try_join! fails: the forwarding loop is dropped where it waits. *)
ConnFails ==
    /\ conn = "closed" /\ pc \in {"wait", "resolve", "address", "send"} /\ EndAll
    /\ UNCHANGED <<time, arrived, seen, sent>>

ForwardStep ==
    \/ Cleanup \/ StartSession \/ ResolveFails \/ SocketFails
    \/ FragmentEmpty \/ FragmentSingle \/ FragmentRejected \/ FragmentOutOfRange
    \/ FragmentKept \/ FragmentCompletes
    \/ AddressChanges \/ AddressFails \/ AddressKept \/ SendOk \/ SendFails \/ RecvFails

Next ==
    \/ ForwardStep
    \/ RecvIgnored \/ RecvCut \/ (\E p \in Packets : \E f \in Fragments(p) : Recv(p, f))
    \/ (\E i \in DOMAIN loops : LoopEnds(i) \/ LoopFails(i))
    \/ Tick \/ ConnCloses \/ ConnFails

Spec == Init /\ [][Next]_vars

(* Every task is polled when it can go on, and a cancelled loop is woken. *)
FairSpec ==
    /\ Spec /\ WF_vars(ForwardStep)
    /\ \A i \in 1 .. MaxDatagrams : WF_vars(i \in DOMAIN loops /\ LoopEnds(i))

(***************************************************************************)
(* Properties.                                                             *)
(***************************************************************************)
(* What is forwarded is one packet of the client, whole and in order, although its   *)
(* fragments are lost, duplicated, reordered and interleaved with others', and the   *)
(* cache evicts (hysteria2.rs:532-592).  Packets that are under way with the same    *)
(* session and id have different counts.                                            *)
WholePackets == sent # None => \E p \in Packets : sent.payload = Whole(p) /\ sent.loc = p.loc

(* A packet goes to the address of its own location, unless the session is bound to  *)
(* the address its first location resolved to (hysteria2.rs:594-617).               *)
RightAddress == sent # None => sent.over \/ sent.addr = sent.loc

(* Every session of the table has a reply loop of its own that was not told to stop:   *)
(* clean-up, a failed send or a session id that is used again never leaves or makes a  *)
(* session whose replies were called off (hysteria2.rs:411-420, 494-530, 619-626).  A  *)
(* loop that ended by itself is not noticed: its session stays until the clean-up.     *)
(* The fragment cache is within its bound, and the session in hand stays in the table  *)
(* across the awaits of the loop (532-617).                                            *)
TableIsLive ==
    /\ \A s \in SessionIds : sessions[s] # None =>
          /\ loops[sessions[s].loop].session = s /\ ~loops[sessions[s].loop].cancelled
          /\ Len(sessions[s].frags) <= CacheSize
    /\ pc \in {"address", "send"} => sessions[cur.session] # None

(* When the connection is over every reply loop ends, also the ones whose session was *)
(* removed after a failed send (hysteria2.rs:114-116, 260, 320-322, 625), unless the  *)
(* connection's task panicked: nothing is cancelled then, and a loop ends only when a *)
(* reply arrives that it cannot send.                                                *)
LoopsEnd == (conn = "closed") ~> (conn = "unwound" \/ \A i \in DOMAIN loops : ~loops[i].running)

(* The comment on datagrams that do not parse: "parse errors are ignored and we       *)
(* continue waiting for the next message" (hysteria2.rs:429-430).  So the loop only   *)
(* ends with its connection, or when no socket can be made for a new session.         *)
ParseErrorsIgnored == [][(pc # "ended" /\ pc' = "ended") => conn = "closed" \/ pc = "resolve"]_vars

(* The log of the cleanup, "Removing inactive UDP session" (hysteria2.rs:415): a      *)
(* session that is removed has had no datagram for IDLE_TIMEOUT.                     *)
OnlyInactiveRemoved ==
    [][pc = "top" => \A s \in SessionIds :
          (sessions[s] # None /\ sessions'[s] = None) => now - seen[s] > IdleTimeout]_vars
=============================================================================
