--------------------------- MODULE Servers_proofs ---------------------------
(***************************************************************************)
(* The servers: their connection limits for any number of clients, who gets   *)
(* a session, and the reader through which both take what a client sends      *)
(* first, for every size of its buffer and every stream.                      *)
(***************************************************************************)
EXTENDS MCServers, FiniteSetTheorems, TLAPS

(***************************************************************************)
(* The AnyTLS server.                                                      *)
(***************************************************************************)

Inv == TypeOK /\ PermitsConserved

LEMMA ActiveFinite == IsFiniteSet(Active) /\ Cardinality(Active) \in Nat
  <1>1. Active \subseteq Clients
    BY Zenon DEF Active
  <1> QED
    BY <1>1, FiniteAssumption, FS_Subset, FS_CardinalityType, Zenon

(* A connection is accepted: one more is active. *)
LEMMA ActiveAdd ==
  ASSUME TypeOK, NEW c \in Clients, phase[c] \in Unserved, NEW p \in Phases \ Unserved,
         phase' = [phase EXCEPT ![c] = p]
  PROVE  Cardinality(Active') = Cardinality(Active) + 1
  <1>1. Active' = Active \cup {c} /\ c \notin Active
    BY Zenon DEF Active, TypeOK
  <1> QED
    BY <1>1, ActiveFinite, FS_AddElement, Zenon

(* The task of a connection ends: one less is active. *)
LEMMA ActiveRemove ==
  ASSUME TypeOK, NEW c \in Clients, phase[c] \notin Unserved, NEW p \in Unserved,
         phase' = [phase EXCEPT ![c] = p]
  PROVE  Cardinality(Active') = Cardinality(Active) - 1
  <1>1. Active' = Active \ {c} /\ c \in Active
    BY Zenon DEF Active, TypeOK
  <1> QED
    BY <1>1, ActiveFinite, FS_RemoveElement, Zenon

(* Any other step of a client or its task leaves the active ones as they are. *)
LEMMA ActiveSame ==
  ASSUME TypeOK, NEW c \in Clients, NEW p \in Phases, phase[c] \in Unserved <=> p \in Unserved,
         phase' = [phase EXCEPT ![c] = p]
  PROVE  Active' = Active
  BY Zenon DEF Active, TypeOK

LEMMA StepInside ==
  ASSUME Inv, NEW c \in Clients, NEW p \in Phases, phase[c] \in Unserved <=> p \in Unserved,
         To(c, p)
  PROVE  Inv'
  <1>1. Active' = Active /\ TypeOK'
    BY ActiveSame, Zenon DEF Inv, TypeOK, To
  <1>2. PermitsConserved'
    <2>1. Cardinality(Active') = Cardinality(Active)
      BY <1>1, Zenon
    <2> QED
      BY <2>1, Zenon DEF Inv, PermitsConserved, To
  <1> QED
    BY <1>1, <1>2, Zenon DEF Inv

LEMMA StepEnds ==
  ASSUME Inv, NEW c \in Clients, phase[c] \notin Unserved, End(c)
  PROVE  Inv'
  <1>1. "away" \in Unserved /\ Unserved \subseteq Phases
    BY Zenon DEF Unserved, Phases
  <1>2. Cardinality(Active') = Cardinality(Active) - 1
    BY <1>1, ActiveRemove, Zenon DEF Inv, End
  <1>3. TypeOK'
    BY <1>1 DEF Inv, TypeOK, End
  <1>4. PermitsConserved'
    BY <1>2, ActiveFinite, LimitAssumption DEF Inv, TypeOK, PermitsConserved, End
  <1> QED
    BY <1>3, <1>4, Zenon DEF Inv

LEMMA InvInit == Init => Inv
  <1> SUFFICES ASSUME Init PROVE Inv
    BY Zenon
  <1>1. Active = {}
    BY Zenon DEF Init, Active, Unserved
  <1>2. Cardinality(Active) = 0
    BY <1>1, FS_EmptySet, Zenon
  <1>3. TypeOK
    BY LimitAssumption, Zenon DEF Init, TypeOK, Phases, Unserved
  <1> QED
    BY <1>2, <1>3, LimitAssumption DEF Init, Inv, PermitsConserved

LEMMA InvNext == Inv /\ [Next]_vars => Inv'
  <1> SUFFICES ASSUME Inv, [Next]_vars PROVE Inv'
    BY Zenon
  <1>1. CASE UNCHANGED vars
    <2>1. Active' = Active
      BY <1>1, Zenon DEF vars, Active
    <2>2. Cardinality(Active') = Cardinality(Active)
      BY <2>1, Zenon
    <2> QED
      BY <1>1, <2>2, Zenon DEF vars, Inv, TypeOK, PermitsConserved
  <1>2. CASE Acquire \/ AcceptFails
    <2>1. Active' = Active
      BY <1>2, Zenon DEF Acquire, AcceptFails, Active
    <2>2. Cardinality(Active') = Cardinality(Active)
      BY <2>1, Zenon
    <2>3. TypeOK'
      BY <1>2 DEF Inv, TypeOK, Acquire, AcceptFails
    <2>4. PermitsConserved'
      BY <1>2, <2>2, ActiveFinite, LimitAssumption
         DEF Inv, TypeOK, PermitsConserved, Acquire, AcceptFails
    <2> QED
      BY <2>3, <2>4, Zenon DEF Inv
  <1>3. ASSUME NEW c \in Clients, ClientConnects(c) PROVE Inv'
    BY <1>3, StepInside, Zenon DEF ClientConnects, Phases, Unserved
  <1>4. ASSUME NEW c \in Clients, Accept(c) PROVE Inv'
    <2>1. "handshake" \in Phases \ Unserved /\ phase[c] \in Unserved
      BY <1>4, Zenon DEF Accept, Phases, Unserved
    <2>2. Cardinality(Active') = Cardinality(Active) + 1
      BY <1>4, <2>1, ActiveAdd, Zenon DEF Inv, Accept
    <2>3. TypeOK'
      BY <1>4, <2>1, Zenon DEF Inv, TypeOK, Accept
    <2>4. PermitsConserved'
      BY <1>4, <2>2, ActiveFinite, LimitAssumption DEF Inv, TypeOK, PermitsConserved, Accept
    <2> QED
      BY <2>3, <2>4, Zenon DEF Inv
  <1>5. ASSUME NEW c \in Clients, HandshakeTimeout(c) PROVE Inv'
    BY <1>5, StepEnds, Zenon DEF HandshakeTimeout, Unserved
  <1>6. ASSUME NEW c \in Clients, ClientStep(c) PROVE Inv'
    <2>1. CASE HandshakeOk(c) \/ ReadPadding(c) \/ FallbackConnects(c)
      BY <2>1, StepInside, Zenon DEF HandshakeOk, ReadPadding, FallbackConnects, Phases,
         Unserved
    <2>2. CASE HandshakeFails(c) \/ ReadFails(c) \/ FallbackFails(c) \/ RelayEnds(c) \/ SessionEnds(c)
      BY <2>2, StepEnds, Zenon DEF HandshakeFails, ReadFails, FallbackFails, RelayEnds,
         SessionEnds, Unserved
    <2>3. CASE PeekPrefix(c) \/ PeekAuth(c)
      <3>1. phase[c] \in {"prefix", "auth"} /\ (To(c, "auth") \/ To(c, "padding") \/ To(c, "dial") \/ End(c))
        BY <2>3, Zenon DEF PeekPrefix, PeekAuth, Reject
      <3> QED
        BY <3>1, StepInside, StepEnds, Zenon DEF Phases, Unserved
    <2> QED
      BY <1>6, <2>1, <2>2, <2>3, Zenon DEF ClientStep
  <1> QED
    BY <1>1, <1>2, <1>3, <1>4, <1>5, <1>6, Zenon DEF Next

(* No permit is lost or made (server.rs:276-293), whatever the limit and the clients. *)
THEOREM PermitsAreConserved == Spec => []PermitsConserved
  <1>1. Inv => PermitsConserved
    BY Zenon DEF Inv
  <1> QED
    BY <1>1, InvInit, InvNext, PTL DEF Spec

(* "we never accept more connections than we can handle" (server.rs:277-278): at most  *)
(* MaxConnections connections are active at a time.                                   *)
THEOREM ConnectionLimit == Spec => [](Cardinality(Active) <= MaxConnections)
  <1>1. Inv => Cardinality(Active) <= MaxConnections
    BY ActiveFinite, LimitAssumption DEF Inv, TypeOK, PermitsConserved
  <1> QED
    BY <1>1, InvInit, InvNext, PTL DEF Spec

LEMMA UsersInit == Init => SessionsAreUsers
  BY Zenon DEF Init, SessionsAreUsers

LEMMA UsersNext == Inv /\ SessionsAreUsers /\ [Next]_vars => SessionsAreUsers'
  <1> SUFFICES ASSUME Inv, SessionsAreUsers, [Next]_vars PROVE SessionsAreUsers'
    BY Zenon
  <1> USE DEF Inv, TypeOK, SessionsAreUsers, To, End
  <1>1. CASE UNCHANGED phase
    BY <1>1, Zenon
  <1>2. ASSUME NEW c \in Clients,
               ClientConnects(c) \/ Accept(c) \/ HandshakeTimeout(c) \/ HandshakeOk(c)
               \/ HandshakeFails(c) \/ ReadFails(c) \/ FallbackConnects(c)
               \/ FallbackFails(c) \/ RelayEnds(c) \/ SessionEnds(c)
        PROVE  SessionsAreUsers'
    BY <1>2, Zenon DEF ClientConnects, Accept, HandshakeTimeout, HandshakeOk, HandshakeFails,
                ReadFails, FallbackConnects, FallbackFails, RelayEnds, SessionEnds
  <1>3. ASSUME NEW c \in Clients, PeekPrefix(c) \/ PeekAuth(c) PROVE SessionsAreUsers'
    BY <1>3, Zenon DEF PeekPrefix, PeekAuth, Reject
  <1>4. ASSUME NEW c \in Clients, ReadPadding(c) PROVE SessionsAreUsers'
    BY <1>4, Zenon DEF ReadPadding
  <1> QED
    BY <1>1, <1>2, <1>3, <1>4, Zenon DEF Next, ClientStep, vars, Acquire, AcceptFails

(* Matching the prefix is not enough: on every path to a session the whole hash was a  *)
(* user's (server.rs:106-135), for any clients and users.                              *)
THEOREM SessionsBelongToUsers == Spec => []SessionsAreUsers
  BY UsersInit, UsersNext, InvInit, InvNext, PTL DEF Spec

(***************************************************************************)
(* The reader.                                                             *)
(***************************************************************************)

(* The unread bytes are those that follow the consumed ones, up to the last one      *)
(* taken from the stream.                                                           *)
HoldsUnread ==
    /\ taken = consumed + Available
    /\ \A i \in startOffset .. endOffset - 1 : buf[i] = consumed + (i - startOffset) + 1

(* A call waits for no more than the buffer holds, what was peeked is unread, and a call *)
(* forgets what was peeked.                                                             *)
CallFits == req.len <= BufSize /\ peeked <= Available /\ (req # NoReq => peeked = 0)

ReaderInv == ReaderTypeOK /\ HoldsUnread /\ CallFits /\ ReaderIsExact

LEMMA ReaderInvInit == ReaderInit => ReaderInv
  BY SizeAssumption
  DEF ReaderInit, ReaderInv, ReaderTypeOK, HoldsUnread, CallFits, ReaderIsExact, Consecutive,
      Available, NoReq, Junk

(* A slice at the front of the unread bytes. *)
LEMMA SliceIsExact ==
  ASSUME ReaderInv, NEW n \in Nat, n <= Available
  PROVE  /\ Consecutive(Slice(startOffset, n), consumed)
         /\ Len(Slice(startOffset, n)) = n
  <1>1. \A i \in 1 .. n : buf[startOffset + i - 1] = consumed + i
    <2> SUFFICES ASSUME NEW i \in 1 .. n PROVE buf[startOffset + i - 1] = consumed + i
      BY Zenon
    <2>1. startOffset + i - 1 \in startOffset .. endOffset - 1
      BY SizeAssumption DEF ReaderInv, ReaderTypeOK, Available
    <2> QED
      BY <2>1, SizeAssumption DEF ReaderInv, ReaderTypeOK, HoldsUnread
  <1> QED
    BY <1>1 DEF Slice, Consecutive

(* Consuming n unread bytes, as consume and the read functions do. *)
LEMMA AdvanceKeeps ==
  ASSUME ReaderInv, NEW n \in Nat, n <= Available, Advance(n),
         consumed' = consumed + n, UNCHANGED <<buf, taken>>
  PROVE  /\ HoldsUnread' /\ Available' = Available - n
         /\ startOffset' \in 0 .. BufSize /\ endOffset' \in 0 .. BufSize
         /\ startOffset' <= endOffset' /\ consumed' \in Nat
  <1> USE SizeAssumption DEF ReaderInv, ReaderTypeOK, HoldsUnread, Available
  <1>1. CASE startOffset + n = endOffset
    BY <1>1 DEF Advance
  <1>2. CASE startOffset + n # endOffset
    BY <1>2 DEF Advance
  <1> QED
    BY <1>1, <1>2, Zenon

LEMMA ReaderInvNext == ReaderInv /\ [ReaderNext]_readerVars => ReaderInv'
  <1> SUFFICES ASSUME ReaderInv, [ReaderNext]_readerVars PROVE ReaderInv'
    BY Zenon
  <1>1. ASSUME NEW kind \in Kinds, NEW len \in 0 .. MaxLen, Request(kind, len)
        PROVE  ReaderInv'
    <2>1. CASE kind # "fixed" /\ len > BufSize
      BY <1>1, <2>1, Zenon DEF Request, ReaderInv, ReaderTypeOK, HoldsUnread, CallFits,
         ReaderIsExact,
                        Available, offsets
    <2>2. CASE ~(kind # "fixed" /\ len > BufSize)
      <3>1. /\ req' = [kind |-> kind, len |-> len] /\ peeked' = 0
            /\ UNCHANGED <<offsets, taken, consumed, answer, rest, readerState>>
        BY <1>1, <2>2, Zenon DEF Request
      <3>2. len \in Nat /\ len <= BufSize
        BY <1>1, <2>2, SizeAssumption, ReaderBounds DEF Request
      <3>3. ReaderTypeOK' /\ CallFits'
        BY <3>1, <3>2, SizeAssumption DEF ReaderInv, ReaderTypeOK, CallFits, Available, offsets
      <3> QED
        BY <3>1, <3>3, Zenon DEF ReaderInv, HoldsUnread, ReaderIsExact, Available, offsets
    <2> QED
      BY <2>1, <2>2, Zenon
  <1>2. ASSUME NEW n \in 0 .. BufSize, Read(n) PROVE ReaderInv'
    <2> USE SizeAssumption
    <2>1. ~IsCacheFull
      BY <1>2 DEF Read, Waiting, IsCacheFull, ReaderInv, ReaderTypeOK, CallFits, Available,
         NoReq
    <2>2. /\ startOffset' = 0 /\ endOffset' = Available + n /\ taken' = taken + n
          /\ buf' = [i \in 0 .. BufSize - 1 |->
                         IF i >= Available /\ i < Available + n
                         THEN taken + (i - Available) + 1
                         ELSE ResetBufOffset[i]]
          /\ readerState' \in {"open", "failed"} /\ n <= BufSize - Available
          /\ UNCHANGED <<consumed, req, peeked, answer, rest>>
      BY <1>2, <2>1, Zenon DEF Read
    <2>3. Available \in 0 .. BufSize /\ Available' = Available + n
      BY <2>2 DEF ReaderInv, ReaderTypeOK, Available
    <2>4. \A i \in 0 .. Available - 1 : ResetBufOffset[i] = consumed + i + 1
      <3> SUFFICES ASSUME NEW i \in 0 .. Available - 1
                   PROVE  ResetBufOffset[i] = consumed + i + 1
        BY Zenon
      <3>1. ResetBufOffset[i] = buf[startOffset + i]
        BY <2>3 DEF ResetBufOffset
      <3>2. startOffset + i \in startOffset .. endOffset - 1
        BY DEF ReaderInv, ReaderTypeOK, Available
      <3> QED
        BY <3>1, <3>2 DEF ReaderInv, ReaderTypeOK, HoldsUnread
    <2>5. \A i \in 0 .. (Available + n) - 1 : buf'[i] = consumed + i + 1
      BY <2>2, <2>3, <2>4 DEF ReaderInv, ReaderTypeOK, HoldsUnread
    <2>6. \A i \in 0 .. BufSize - 1 : ResetBufOffset[i] \in Nat
      BY <2>3 DEF ResetBufOffset, ReaderInv, ReaderTypeOK, Available
    <2>7. ReaderTypeOK'
      <3>1. buf' \in [0 .. BufSize - 1 -> Nat]
        BY <2>2, <2>3, <2>6 DEF ReaderInv, ReaderTypeOK
      <3> QED
        BY <2>2, <2>3, <3>1 DEF ReaderInv, ReaderTypeOK
    <2>8. HoldsUnread'
      <3>1. taken' = consumed' + Available'
        BY <2>2, <2>3 DEF ReaderInv, ReaderTypeOK, HoldsUnread
      <3>2. \A i \in startOffset' .. endOffset' - 1 : buf'[i] = consumed' + (i - startOffset') + 1
        <4>1. startOffset' = 0 /\ endOffset' = Available + n /\ consumed' = consumed
          BY <2>2, Zenon
        <4>2. consumed \in Nat
          BY Zenon DEF ReaderInv, ReaderTypeOK
        <4>3. \A i \in 0 .. (Available + n) - 1 : consumed + (i - 0) + 1 = consumed + i + 1
          BY <2>3, <4>2
        <4> QED
          BY <2>5, <4>1, <4>3, ZenonT(30)
      <3> QED
        BY <3>1, <3>2, Zenon DEF HoldsUnread
    <2>9. CallFits' /\ ReaderIsExact'
      BY <2>2, <2>3 DEF ReaderInv, ReaderTypeOK, CallFits, ReaderIsExact
    <2> QED
      BY <2>7, <2>8, <2>9, Zenon DEF ReaderInv
  <1>3. CASE Return
    <2> USE SizeAssumption
    <2>1. req.len \in Nat /\ req.len <= Available
      BY <1>3, Zenon DEF Return, ReaderInv, ReaderTypeOK, Available, NoReq
    <2>2. /\ answer' = [at |-> consumed, data |-> Slice(startOffset, req.len)]
          /\ req' = NoReq /\ UNCHANGED <<buf, taken, rest, readerState>>
      BY <1>3, Zenon DEF Return
    <2>3. Consecutive(answer'.data, answer'.at)
      BY <2>1, <2>2, SliceIsExact, Zenon
    <2>4. ReaderIsExact'
      BY <1>3, <2>2, <2>3, ZenonT(30) DEF Return, ReaderInv, ReaderIsExact
    <2>5. CASE req.kind = "peek"
      BY <1>3, <2>1, <2>2, <2>4, <2>5, SMTT(30)
      DEF Return, ReaderInv, ReaderTypeOK, HoldsUnread, CallFits, Available, NoReq
    <2>6. CASE req.kind # "peek"
      <3>1. Advance(req.len) /\ consumed' = consumed + req.len /\ UNCHANGED peeked
        BY <1>3, <2>6, Zenon DEF Return
      <3>2. /\ HoldsUnread' /\ Available' = Available - req.len
            /\ startOffset' \in 0 .. BufSize /\ endOffset' \in 0 .. BufSize
            /\ startOffset' <= endOffset' /\ consumed' \in Nat
        BY <2>1, <2>2, <3>1, AdvanceKeeps, Zenon
      <3>3. peeked' <= Available'
        <4>1. peeked = 0
          BY <1>3, Zenon DEF Return, ReaderInv, CallFits
        <4>2. Available \in Int
          BY DEF ReaderInv, ReaderTypeOK, Available
        <4> QED
          BY <2>1, <3>1, <3>2, <4>1, <4>2
      <3> QED
        BY <2>2, <2>4, <3>1, <3>2, <3>3 DEF ReaderInv, ReaderTypeOK, CallFits, NoReq
    <2> QED
      BY <2>5, <2>6, Zenon
  <1>4. ASSUME NEW n \in 1 .. BufSize, Consume(n) PROVE ReaderInv'
    <2> USE SizeAssumption
    <2>1. /\ n \in Nat /\ n <= peeked /\ n <= Available /\ peeked \in Nat
          /\ Available \in Nat /\ peeked <= Available
      BY <1>4 DEF Consume, ReaderInv, ReaderTypeOK, CallFits, Available
    <2>2. /\ HoldsUnread' /\ Available' = Available - n
          /\ startOffset' \in 0 .. BufSize /\ endOffset' \in 0 .. BufSize
          /\ startOffset' <= endOffset' /\ consumed' \in Nat
      BY <1>4, <2>1, AdvanceKeeps, Zenon DEF Consume
    <2>3. peeked' = peeked - n /\ UNCHANGED <<buf, taken, req, answer, rest, readerState>>
      BY <1>4, Zenon DEF Consume
    <2>4. ReaderTypeOK' /\ CallFits'
      BY <2>1, <2>2, <2>3 DEF ReaderInv, ReaderTypeOK, CallFits
    <2>5. ReaderIsExact'
      BY <1>4, <2>3, Zenon DEF Consume, ReaderInv, ReaderIsExact
    <2> QED
      BY <2>2, <2>4, <2>5, Zenon DEF ReaderInv
  <1>5. CASE HandOver
    <2>1. Available \in Nat /\ Available = taken - consumed
      BY SizeAssumption DEF ReaderInv, ReaderTypeOK, HoldsUnread, Available
    <2>2. Consecutive(Slice(startOffset, Available), consumed) /\ Len(Slice(startOffset, Available)) = Available
      BY <2>1, SliceIsExact
    <2> QED
      BY <1>5, <2>1, <2>2, Zenon
      DEF HandOver, ReaderInv, ReaderTypeOK, HoldsUnread, CallFits, ReaderIsExact, Available,
      offsets
  <1>6. CASE UNCHANGED readerVars
    BY <1>6, Zenon DEF readerVars, offsets, ReaderInv, ReaderTypeOK, HoldsUnread, CallFits,
       ReaderIsExact,
                Available
  <1> QED
    BY <1>1, <1>2, <1>3, <1>4, <1>5, <1>6, Zenon DEF ReaderNext

(* Every slice peeked or read continues the stream where consumption stopped, what is  *)
(* handed over is exactly what was read and not consumed, and the error "cache is full" *)
(* is never met, for a buffer of any size of at least two bytes and slices of any       *)
(* length (stream_reader.rs:28-181).                                                    *)
THEOREM ReaderExact == ReaderSpec => []ReaderIsExact
  <1>1. ReaderInv => ReaderIsExact
    BY Zenon DEF ReaderInv
  <1> QED
    BY <1>1, ReaderInvInit, ReaderInvNext, PTL DEF ReaderSpec

(***************************************************************************)
(* The Hysteria2 server.                                                   *)
(***************************************************************************)

H2Phases == {"away", "incoming", "accepted", "run", "ended"} \cup H2!Setup

(* Every connection is in a phase of the code, and the permits add up. *)
H2Inv ==
    /\ h2Phase \in [Conns -> H2Phases] /\ h2Permits \in Nat
    /\ h2Permits + Cardinality(H2!Tasks) = H2MaxConnections

(* Cardinality is the one of FiniteSets also inside the instance. *)
LEMMA SameCardinality == \A S : H2!Cardinality(S) = Cardinality(S)
  BY Zenon DEF H2!Cardinality, Cardinality

LEMMA TasksFinite == IsFiniteSet(H2!Tasks) /\ Cardinality(H2!Tasks) \in Nat
  <1>1. H2!Tasks \subseteq Conns
    BY Zenon DEF H2!Tasks
  <1> QED
    BY <1>1, H2Assumption, FS_Subset, FS_CardinalityType, Zenon

LEMMA H2InvInit == H2!Init => H2Inv
  <1> SUFFICES ASSUME H2!Init PROVE H2Inv
    BY Zenon
  <1>1. H2!Tasks = {}
    BY Zenon DEF H2!Init, H2!Tasks, H2!Setup
  <1>2. Cardinality(H2!Tasks) = 0
    BY <1>1, FS_EmptySet, Zenon
  <1> QED
    BY <1>2, H2Assumption
    DEF H2!Init, H2Inv, H2Phases

(* A step of a connection that neither starts nor ends its task. *)
LEMMA H2StepInside ==
  ASSUME H2Inv, NEW c \in Conns, NEW p \in H2Phases,
         h2Phase[c] \in H2!Setup \cup {"run"} <=> p \in H2!Setup \cup {"run"},
         h2Phase' = [h2Phase EXCEPT ![c] = p], UNCHANGED h2Permits
  PROVE  H2Inv'
  <1>1. H2!Tasks' = H2!Tasks
    BY Zenon DEF H2!Tasks, H2Inv
  <1>2. Cardinality(H2!Tasks') = Cardinality(H2!Tasks)
    BY <1>1, Zenon
  <1> QED
    BY <1>2, Zenon DEF H2Inv

(* The end of a task gives its permit back. *)
LEMMA H2StepEnds ==
  ASSUME H2Inv, NEW c \in Conns, h2Phase[c] \in H2!Setup \cup {"run"}, H2!End(c)
  PROVE  H2Inv'
  <1>1. H2!Tasks' = H2!Tasks \ {c} /\ c \in H2!Tasks
    BY Zenon DEF H2!Tasks, H2Inv, H2!End, H2!Setup
  <1>2. Cardinality(H2!Tasks') = Cardinality(H2!Tasks) - 1
    BY <1>1, TasksFinite, FS_RemoveElement, Zenon
  <1> QED
    BY <1>2, TasksFinite, H2Assumption
    DEF H2Inv, H2!End, H2Phases

LEMMA H2InvNext == H2Inv /\ [H2!Next]_h2Vars => H2Inv'
  <1> SUFFICES ASSUME H2Inv, [H2!Next]_h2Vars PROVE H2Inv'
    BY Zenon
  <1>1. CASE UNCHANGED <<h2Permits, h2Phase>>
    <2>1. H2!Tasks' = H2!Tasks
      BY <1>1, Zenon DEF H2!Tasks
    <2>2. Cardinality(H2!Tasks') = Cardinality(H2!Tasks)
      BY <2>1, Zenon
    <2> QED
      BY <1>1, <2>2, Zenon DEF H2Inv
  <1>2. ASSUME NEW c \in Conns, H2!Arrive(c) \/ H2!Accept(c) PROVE H2Inv'
    BY <1>2, H2StepInside, Zenon DEF H2!Arrive, H2!Accept, H2Phases, H2!Setup
  <1>3. ASSUME NEW c \in Conns, H2!Spawn(c) PROVE H2Inv'
    <2>1. H2!Tasks' = H2!Tasks \cup {c} /\ c \notin H2!Tasks
      BY <1>3, Zenon DEF H2!Tasks, H2Inv, H2!Spawn, H2!Setup
    <2>2. Cardinality(H2!Tasks') = Cardinality(H2!Tasks) + 1
      BY <2>1, TasksFinite, FS_AddElement, Zenon
    <2> QED
      BY <1>3, <2>2, TasksFinite, H2Assumption
      DEF H2Inv, H2!Spawn, H2Phases, H2!Setup
  <1>4. ASSUME NEW c \in Conns, H2!SetupGoesOn(c) PROVE H2Inv'
    <2>1. PICK p \in {"h3", "auth", "run"} : h2Phase' = [h2Phase EXCEPT ![c] = p]
      BY <1>4, Zenon DEF H2!SetupGoesOn, H2!Setup
    <2> QED
      BY <1>4, <2>1, H2StepInside, Zenon DEF H2!SetupGoesOn, H2Phases, H2!Setup
  <1>5. ASSUME NEW c \in Conns, H2!SetupFails(c) \/ H2!AuthTimeout(c) \/ H2!UdpPanics(c) \/ H2!Join(c)
        PROVE H2Inv'
    BY <1>5, H2StepEnds, Zenon DEF H2!SetupFails, H2!AuthTimeout, H2!UdpPanics, H2!Join, H2!Setup
  <1>6. ASSUME NEW c \in Conns,
               H2!PeerCloses(c) \/ (\E l \in H2!Loops : H2!LoopReturns(c, l))
               \/ (\E s \in Streams : H2!StreamStep(c, s))
        PROVE  UNCHANGED <<h2Permits, h2Phase>>
    BY <1>6, Zenon DEF H2!PeerCloses, H2!LoopReturns, H2!StreamStep, H2!StreamTo, H2!AcceptBi,
                H2!HeaderRead, H2!HeaderFails, H2!Dialled, H2!DialFails, H2!DialTimeout,
                H2!RelayWaits, H2!RelayGoesOn, H2!RelayEnds
  <1> QED
    BY <1>1, <1>2, <1>3, <1>4, <1>5, <1>6, ZenonT(30) DEF H2!Next, h2Vars

LEMMA H2InvImplies == H2Inv => H2PermitsConserved
  BY SameCardinality, Zenon DEF H2Inv, H2PermitsConserved, H2!PermitsConserved

(* Every permit of the Hysteria2 server is free or with one connection's task, on every *)
(* way a connection can end (hysteria2.rs:933-945), for any limit and any connections.  *)
THEOREM H2PermitsAreConserved == H2!Spec => []H2PermitsConserved
  <1>1. H2Inv /\ [H2!Next]_(H2!vars) => H2Inv'
    BY H2InvNext, Zenon DEF H2!vars, h2Vars
  <1> QED
    BY <1>1, H2InvInit, H2InvImplies, PTL DEF H2!Spec

(***************************************************************************)
(* The servers of one configuration.                                       *)
(***************************************************************************)

(* Whichever server of the configuration runs, its limit holds, its sessions are users' *)
(* and its reader is exact: what the components show alone holds in the composition.    *)
THEOREM ServersAreSafe ==
  AllSpec => [](PermitsConserved /\ SessionsAreUsers /\ ReaderIsExact /\ H2PermitsConserved)
  <1> DEFINE AllInv == Inv /\ SessionsAreUsers /\ ReaderInv /\ H2Inv
  <1>1. AllInit => AllInv
    BY InvInit, UsersInit, ReaderInvInit, H2InvInit, Zenon DEF AllInit
  <1>2. AllInv /\ [AllNext]_allVars => AllInv'
    <2> SUFFICES ASSUME AllInv, [AllNext]_allVars PROVE AllInv'
      BY Zenon
    <2>1. [Next]_vars /\ [ReaderNext]_readerVars /\ [H2!Next]_h2Vars
      BY Zenon DEF AllNext, allVars, AnyTls, Reader, Hysteria2
    <2> QED
      BY <2>1, InvNext, UsersNext, ReaderInvNext, H2InvNext, ZenonT(30)
  <1>3. AllInv => PermitsConserved /\ SessionsAreUsers /\ ReaderIsExact /\ H2PermitsConserved
    BY H2InvImplies, Zenon DEF Inv, ReaderInv
  <1> QED
    BY <1>1, <1>2, <1>3, PTL DEF AllSpec
=============================================================================
