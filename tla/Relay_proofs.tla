---------------------------- MODULE Relay_proofs ----------------------------
(* What every stream to a destination goes through: the resolver of its name, with     *)
(* the cache (Resolver), and the relay of the bytes of the two streams                 *)
(* (CopyBidirectional), for streams and buffers of every size and any number of bytes. *)
EXTENDS Resolver, CopyBidirectional, TLAPS

CallType ==
    [st : {"idle"}] \cup [st : {"asked"}, name : Names, started : Nat]
        \cup [st : {"seen"}, name : Names, started : Nat, addr : Nat]
        \cup [st : {"answered"}, name : Names, at : Nat, addr : Nat]
EntryType == [name : Names, addr : Nat, inserted : Nat]

ResolverTypeOK ==
    /\ time \in Nat /\ changes \in [Names -> Seq(Nat)]
    /\ cache \in Seq(EntryType) /\ call \in [Callers -> CallType]

(* Version a was the record of name n at the time since, or later. *)
Since(n, a, since) ==
    /\ a <= Len(changes[n]) /\ since <= time
    /\ a < Len(changes[n]) => changes[n][a + 1] >= since

(* What an entry of the cache and a call of resolve know of the record. *)
EntryOK(e) == e.inserted <= time /\ Since(e.name, e.addr, e.inserted - LookupLimit)
CallOK(c) ==
    /\ c.st \in {"asked", "seen"} => c.started <= time /\ time - c.started <= LookupLimit
    /\ c.st = "seen" => Since(c.name, c.addr, c.started)
    /\ c.st = "answered" =>
           c.at <= time /\ Since(c.name, c.addr, (c.at - Ttl - LookupLimit) + 1)

ResolverInv ==
    /\ ResolverTypeOK
    /\ \A i \in DOMAIN cache : EntryOK(cache[i])
    /\ \A c \in Callers : CallOK(call[c])

LEMMA ResolverInvInit == ResolverInit => ResolverInv
  BY DEF ResolverInit, ResolverInv, ResolverTypeOK, CallType, CallOK, NoCall

LEMMA ResolverInvImplies == ResolverInv => AnswersAreRecent
  <1> SUFFICES ASSUME ResolverInv, NEW c \in Callers, call[c].st = "answered"
               PROVE  \/ call[c].addr = Len(changes[call[c].name])
                      \/ changes[call[c].name][call[c].addr + 1] > call[c].at - Ttl - LookupLimit
    BY Zenon DEF AnswersAreRecent
  <1>1. call[c] \in [st : {"answered"}, name : Names, at : Nat, addr : Nat]
    BY Zenon DEF ResolverInv, ResolverTypeOK, CallType
  <1>2. Since(call[c].name, call[c].addr, (call[c].at - Ttl - LookupLimit) + 1)
    BY Zenon DEF ResolverInv, CallOK
  <1>3. changes[call[c].name] \in Seq(Nat)
    BY <1>1, Zenon DEF ResolverInv, ResolverTypeOK
  <1>4. ASSUME call[c].addr < Len(changes[call[c].name])
        PROVE  changes[call[c].name][call[c].addr + 1] \in Nat
    <2>1. call[c].addr + 1 \in 1 .. Len(changes[call[c].name])
      BY <1>1, <1>3, <1>4
    <2> QED
      BY <1>3, <2>1
  <1>5. CASE call[c].addr = Len(changes[call[c].name])
    BY <1>5, Zenon
  <1>6. CASE call[c].addr < Len(changes[call[c].name])
    <2>1. changes[call[c].name][call[c].addr + 1] >= (call[c].at - Ttl - LookupLimit) + 1
      BY <1>2, <1>6, Zenon DEF Since
    <2>2. /\ call[c].at - Ttl - LookupLimit \in Int
          /\ changes[call[c].name][call[c].addr + 1] \in Int
      BY <1>1, <1>4, <1>6, ResolverAssumption
    <2>3. \A x \in Int, y \in Int : x >= y + 1 => x > y
      OBVIOUS
    <2> QED
      BY <2>1, <2>2, <2>3, Zenon
  <1>7. call[c].addr <= Len(changes[call[c].name])
    BY <1>2, Zenon DEF Since
  <1>8. call[c].addr = Len(changes[call[c].name]) \/ call[c].addr < Len(changes[call[c].name])
    BY <1>1, <1>3, <1>7
  <1> QED
    BY <1>5, <1>6, <1>8, Zenon

(* Time passes, and a record only grows, with the time of its change. *)
Onward ==
    /\ time' \in Nat /\ time' >= time
    /\ changes' \in [Names -> Seq(Nat)]
    /\ \A n \in Names : changes'[n] = changes[n] \/ changes'[n] = Append(changes[n], time)

LEMMA SinceStays ==
  ASSUME ResolverTypeOK, Onward, NEW n \in Names, NEW a \in Nat, NEW since \in Int, Since(n, a, since)
  PROVE  Since(n, a, since)'
  <1>1. changes[n] \in Seq(Nat)
    BY Zenon DEF ResolverTypeOK
  <1>2. CASE changes'[n] = changes[n]
    BY <1>1, <1>2 DEF Since, Onward, ResolverTypeOK
  <1>3. CASE changes'[n] = Append(changes[n], time)
    <2>1. /\ Len(changes'[n]) = Len(changes[n]) + 1
          /\ \A i \in 1 .. Len(changes[n]) : changes'[n][i] = changes[n][i]
          /\ changes'[n][Len(changes[n]) + 1] = time
      BY <1>1, <1>3 DEF ResolverTypeOK
    <2>2. CASE a < Len(changes[n])
      <3>1. a + 1 \in 1 .. Len(changes[n])
        BY <1>1, <2>2
      <3>2. changes'[n][a + 1] = changes[n][a + 1] /\ changes[n][a + 1] >= since
        BY <2>1, <2>2, <3>1, Zenon DEF Since
      <3>3. a <= Len(changes'[n]) /\ since <= time'
        <4>1. Len(changes[n]) \in Nat /\ Len(changes'[n]) = Len(changes[n]) + 1
          BY <1>1, <2>1
        <4>2. a <= Len(changes'[n])
          BY <2>2, <4>1
        <4>3. since <= time /\ time \in Nat /\ time' \in Nat /\ time' >= time
          BY Zenon DEF Since, Onward, ResolverTypeOK
        <4>4. since <= time'
          BY <4>3
        <4> QED
          BY <4>2, <4>4, Zenon
      <3>4. changes'[n][a + 1] >= since
        BY <3>2, Zenon
      <3> QED
        BY <3>3, <3>4, Zenon DEF Since
    <2>3. CASE a = Len(changes[n])
      BY <1>1, <2>1, <2>3 DEF Since, Onward, ResolverTypeOK
    <2> QED
      BY <1>1, <2>2, <2>3 DEF Since
  <1> QED
    BY <1>2, <1>3, Zenon DEF Onward

LEMMA EntryStays ==
  ASSUME ResolverTypeOK, Onward, NEW e \in EntryType, EntryOK(e)
  PROVE  EntryOK(e)'
  BY SinceStays, ResolverAssumption DEF EntryOK, EntryType, Onward, ResolverTypeOK

(* A lookup under way does not see time pass beyond its limit. *)
LEMMA CallStays ==
  ASSUME ResolverTypeOK, Onward, NEW c \in CallType, CallOK(c),
         time' = time \/ (time' = time + 1 /\ (c.st \in {"asked", "seen"} => time - c.started < LookupLimit))
  PROVE  CallOK(c)'
  <1>1. CASE c.st = "seen"
    <2>1. c.name \in Names /\ c.addr \in Nat /\ c.started \in Nat
      BY <1>1, Zenon DEF CallType
    <2>2. Since(c.name, c.addr, c.started)'
      <3>1. c.started \in Int
        BY <2>1
      <3> QED
        BY <1>1, <2>1, <3>1, SinceStays, Zenon DEF CallOK
    <2>3. c.started <= time /\ time - c.started <= LookupLimit /\ time \in Nat
      BY <1>1, Zenon DEF CallOK, ResolverTypeOK
    <2>4. c.started <= time' /\ time' - c.started <= LookupLimit
      BY <1>1, <2>1, <2>3, ResolverAssumption
    <2> QED
      BY <1>1, <2>2, <2>4, Zenon DEF CallOK
  <1>2. CASE c.st = "answered"
    <2>1. c.name \in Names /\ c.addr \in Nat /\ c.at \in Nat
      BY <1>2, Zenon DEF CallType
    <2>2. (c.at - Ttl - LookupLimit) + 1 \in Int
      BY <2>1, ResolverAssumption
    <2>3. Since(c.name, c.addr, (c.at - Ttl - LookupLimit) + 1)'
      BY <1>2, <2>1, <2>2, SinceStays, Zenon DEF CallOK
    <2> QED
      BY <1>2, <2>1, <2>3 DEF CallOK, Onward, ResolverTypeOK
  <1>3. CASE c.st \notin {"seen", "answered"}
    BY <1>3, ResolverAssumption DEF CallOK, CallType, Onward, ResolverTypeOK
  <1> QED
    BY <1>1, <1>2, <1>3, Zenon

(* The entries of the cache after get are entries it had. *)
LEMMA RemovedIsPart ==
  ASSUME NEW S, NEW s \in Seq(S), NEW i \in DOMAIN s
  PROVE  /\ Removed(s, i) \in Seq(S)
         /\ \A k \in DOMAIN Removed(s, i) : \E j \in DOMAIN s : Removed(s, i)[k] = s[j]
  <1> DEFINE a == SubSeq(s, 1, i - 1)
             b == SubSeq(s, i + 1, Len(s))
  <1>1. /\ a \in Seq(S) /\ Len(a) = i - 1
        /\ \A k \in 1 .. i - 1 : a[k] = s[k]
    OBVIOUS
  <1>2. /\ b \in Seq(S) /\ Len(b) = Len(s) - i
        /\ \A k \in 1 .. Len(s) - i : b[k] = s[i + k]
    OBVIOUS
  <1>3. Removed(s, i) = a \o b
    BY Zenon DEF Removed
  <1> HIDE DEF a, b
  <1>4. ASSUME NEW k \in 1 .. Len(a) + Len(b) PROVE \E j \in DOMAIN s : (a \o b)[k] = s[j]
    <2>1. CASE k <= i - 1
      <3>1. (a \o b)[k] = s[k] /\ k \in DOMAIN s
        BY <1>1, <1>2, <2>1
      <3> QED
        BY <3>1, Zenon
    <2>2. CASE k > i - 1
      <3>1. (a \o b)[k] = s[k + 1] /\ k + 1 \in DOMAIN s
        BY <1>1, <1>2, <2>2
      <3> QED
        BY <3>1, Zenon
    <2> QED
      BY <1>1, <1>2, <2>1, <2>2
  <1>5. Removed(s, i) \in Seq(S) /\ DOMAIN Removed(s, i) = 1 .. Len(a) + Len(b)
    BY <1>1, <1>2, <1>3
  <1>6. \A k \in 1 .. Len(a) + Len(b) : \E j \in DOMAIN s : Removed(s, i)[k] = s[j]
    BY <1>3, <1>4, Zenon
  <1> QED
    BY <1>5, <1>6, Zenon

LEMMA WhereIsPlace ==
  ASSUME NEW n \in Names, Places(n) # {}
  PROVE  Where(n) \in DOMAIN cache /\ cache[Where(n)].name = n
  BY Zenon DEF Where, Places

LEMMA OthersArePart ==
  ASSUME ResolverTypeOK, NEW n \in Names
  PROVE  /\ Others(n) \in Seq(EntryType)
         /\ \A k \in DOMAIN Others(n) : \E j \in DOMAIN cache : Others(n)[k] = cache[j]
  <1>1. CASE Places(n) = {}
    BY <1>1, Zenon DEF Others, ResolverTypeOK
  <1>2. CASE Places(n) # {}
    BY <1>2, WhereIsPlace, RemovedIsPart, Zenon DEF Others, ResolverTypeOK
  <1> QED
    BY <1>1, <1>2, Zenon

(* An entry in front of the others: all are the new one or were there. *)
LEMMA InFrontOfOthers ==
  ASSUME ResolverTypeOK, NEW n \in Names, NEW e \in EntryType
  PROVE  /\ <<e>> \o Others(n) \in Seq(EntryType)
         /\ \A k \in DOMAIN (<<e>> \o Others(n)) :
               \/ (<<e>> \o Others(n))[k] = e
               \/ \E j \in DOMAIN cache : (<<e>> \o Others(n))[k] = cache[j]
  <1> DEFINE o == Others(n)
             all == <<e>> \o o
  <1>1. o \in Seq(EntryType) /\ \A k \in DOMAIN o : \E j \in DOMAIN cache : o[k] = cache[j]
    BY OthersArePart, Zenon
  <1> HIDE DEF o
  <1>2. /\ all \in Seq(EntryType) /\ DOMAIN all = 1 .. Len(o) + 1
        /\ all[1] = e /\ \A k \in 2 .. Len(o) + 1 : all[k] = o[k - 1] /\ k - 1 \in DOMAIN o
    BY <1>1
  <1>3. ASSUME NEW k \in 1 .. Len(o) + 1
        PROVE  all[k] = e \/ \E j \in DOMAIN cache : all[k] = cache[j]
    <2>1. CASE k = 1
      BY <1>2, <2>1, Zenon
    <2>2. CASE k # 1
      <3>1. k \in 2 .. Len(o) + 1
        BY <1>1, <2>2
      <3> QED
        BY <1>1, <1>2, <3>1
    <2> QED
      BY <2>1, <2>2, Zenon
  <1> QED
    BY <1>2, <1>3, Zenon DEF o

LEMMA PromotedIsPart ==
  ASSUME ResolverTypeOK, NEW n \in Names
  PROVE  /\ Promoted(n) \in Seq(EntryType)
         /\ \A k \in DOMAIN Promoted(n) : \E j \in DOMAIN cache : Promoted(n)[k] = cache[j]
  <1>1. CASE Places(n) = {}
    BY <1>1, Zenon DEF Promoted, ResolverTypeOK
  <1>2. CASE Places(n) # {}
    <2>1. Where(n) \in DOMAIN cache /\ cache[Where(n)] \in EntryType
      BY <1>2, WhereIsPlace DEF ResolverTypeOK
    <2> QED
      BY <1>2, <2>1, InFrontOfOthers, Zenon DEF Promoted
  <1> QED
    BY <1>1, <1>2, Zenon

LEMMA PutFirstIsPart ==
  ASSUME ResolverTypeOK, NEW e \in EntryType
  PROVE  /\ PutFirst(e) \in Seq(EntryType)
         /\ \A k \in DOMAIN PutFirst(e) :
               PutFirst(e)[k] = e \/ \E j \in DOMAIN cache : PutFirst(e)[k] = cache[j]
  <1> DEFINE all == <<e>> \o Others(e.name)
             m == IF Len(all) > CacheSize THEN CacheSize ELSE Len(all)
  <1>1. e.name \in Names
    BY Zenon DEF EntryType
  <1>2. /\ all \in Seq(EntryType)
        /\ \A k \in DOMAIN all : all[k] = e \/ \E j \in DOMAIN cache : all[k] = cache[j]
    BY <1>1, InFrontOfOthers, Zenon
  <1>3. PutFirst(e) = SubSeq(all, 1, m)
    BY Zenon DEF PutFirst
  <1> HIDE DEF all
  <1>4. m \in 0 .. Len(all)
    BY <1>2, ResolverAssumption
  <1> HIDE DEF m
  <1>5. /\ SubSeq(all, 1, m) \in Seq(EntryType)
        /\ DOMAIN SubSeq(all, 1, m) = 1 .. m
        /\ \A k \in 1 .. m : SubSeq(all, 1, m)[k] = all[k] /\ k \in DOMAIN all
    BY <1>2, <1>4
  <1> QED
    BY <1>2, <1>3, <1>5, Zenon

(* A call that does not move, in a step that lets no lookup pass its limit. *)
LEMMA OtherCallStays ==
  ASSUME ResolverInv, Onward, NEW c \in Callers, call'[c] = call[c],
         \/ time' = time
         \/ /\ time' = time + 1
            /\ call[c].st \in {"asked", "seen"} => time - call[c].started < LookupLimit
  PROVE  CallOK(call[c])'
  <1>1. PICK v \in CallType : v = call[c]
    BY Zenon DEF ResolverInv, ResolverTypeOK
  <1>2. CallOK(v)
    BY <1>1, Zenon DEF ResolverInv
  <1>3. CallOK(v)'
    BY <1>1, <1>2, CallStays, Zenon DEF ResolverInv
  <1> QED
    BY <1>1, <1>3, Zenon DEF CallOK, Since

(* The cache after a step whose entries are old ones, or new and true. *)
LEMMA CacheStays ==
  ASSUME ResolverInv, Onward, cache' \in Seq(EntryType),
         \A k \in DOMAIN cache' :
             \/ \E j \in DOMAIN cache : cache'[k] = cache[j]
             \/ EntryOK(cache[k])'
  PROVE  \A k \in DOMAIN cache' : EntryOK(cache[k])'
  <1> SUFFICES ASSUME NEW k \in DOMAIN cache', NEW j \in DOMAIN cache, cache'[k] = cache[j]
               PROVE  EntryOK(cache[k])'
    BY Zenon
  <1>1. PICK v \in EntryType : v = cache[j]
    BY DEF ResolverInv, ResolverTypeOK
  <1>2. EntryOK(v)
    BY <1>1, Zenon DEF ResolverInv
  <1>3. EntryOK(v)'
    BY <1>2, EntryStays, Zenon DEF ResolverInv
  <1> QED
    BY <1>1, <1>3, Zenon DEF EntryOK, Since

(* Every call that moves in a step of caller c is c's. *)
LEMMA CallerStep ==
  ASSUME ResolverInv, NEW c \in Callers, NEW v \in CallType, call' = [call EXCEPT ![c] = v],
         CallOK(v), UNCHANGED <<time, changes>>,
         cache' \in Seq(EntryType), \A k \in DOMAIN cache' : EntryOK(cache[k])'
  PROVE  ResolverInv'
  <1>1. Onward /\ ResolverTypeOK'
    BY DEF Onward, ResolverInv, ResolverTypeOK
  <1>2. ASSUME NEW d \in Callers PROVE CallOK(call[d])'
    <2>1. CASE d = c
      <3>1. call'[c] = v
        BY Zenon DEF ResolverInv, ResolverTypeOK
      <3> QED
        BY <2>1, <3>1, Zenon DEF CallOK, Since
    <2>2. CASE d # c
      <3>1. call'[d] = call[d]
        BY <2>2, Zenon DEF ResolverInv, ResolverTypeOK
      <3> QED
        BY <1>1, <3>1, OtherCallStays, Zenon
    <2> QED
      BY <2>1, <2>2, Zenon
  <1> QED
    BY <1>1, <1>2, Zenon DEF ResolverInv

LEMMA SameCache ==
  ASSUME ResolverInv, UNCHANGED <<time, changes, cache>>
  PROVE  cache' \in Seq(EntryType) /\ \A k \in DOMAIN cache' : EntryOK(cache[k])'
  BY Zenon DEF ResolverInv, ResolverTypeOK, EntryOK, Since

LEMMA ResolveKeeps ==
  ASSUME ResolverInv, NEW c \in Callers, NEW n \in Names, Resolve(c, n)
  PROVE  ResolverInv'
  <1>1. Onward /\ time \in Nat
    BY DEF Resolve, Onward, ResolverInv, ResolverTypeOK
  <1>2. cache' \in Seq(EntryType) /\ \A k \in DOMAIN cache' : \E j \in DOMAIN cache : cache'[k] = cache[j]
    BY PromotedIsPart, Zenon DEF Resolve, ResolverInv
  <1>3. \A k \in DOMAIN cache' : EntryOK(cache[k])'
    BY <1>1, <1>2, CacheStays, Zenon
  <1>4. CASE Places(n) # {} /\ Fresh(cache[Where(n)])
    <2> DEFINE v == [st |-> "answered", name |-> n, at |-> time, addr |-> cache[Where(n)].addr]
    <2>1. Where(n) \in DOMAIN cache /\ cache[Where(n)].name = n
      BY <1>4, WhereIsPlace, Zenon
    <2>2. PICK e \in EntryType : e = cache[Where(n)]
      BY <2>1 DEF ResolverInv, ResolverTypeOK
    <2>3. EntryOK(e) /\ time - e.inserted < Ttl /\ e.name = n
      BY <1>4, <2>1, <2>2, Zenon DEF ResolverInv, Fresh
    <2>4. v \in CallType
      BY <1>1, <2>2, Zenon DEF CallType, EntryType
    <2>5. CallOK(v)
      <3>1. e.addr \in Nat /\ e.inserted \in Nat
        BY Zenon DEF EntryType
      <3>2. Since(n, e.addr, (time - Ttl - LookupLimit) + 1)
        <4>1. changes[n] \in Seq(Nat)
          BY Zenon DEF ResolverInv, ResolverTypeOK
        <4>2. e.addr <= Len(changes[n]) /\ (time - Ttl - LookupLimit) + 1 <= time
          BY <1>1, <2>3, ResolverAssumption DEF EntryOK, Since
        <4>3. ASSUME e.addr < Len(changes[n])
              PROVE  changes[n][e.addr + 1] >= (time - Ttl - LookupLimit) + 1
          <5>1. e.addr + 1 \in 1 .. Len(changes[n])
            BY <3>1, <4>1, <4>3
          <5>2. changes[n][e.addr + 1] \in Nat
            BY <4>1, <5>1
          <5>3. changes[n][e.addr + 1] >= e.inserted - LookupLimit
            BY <2>3, <4>3, Zenon DEF EntryOK, Since
          <5> QED
            BY <1>1, <2>3, <3>1, <5>2, <5>3, ResolverAssumption
        <4> QED
          BY <4>2, <4>3, Zenon DEF Since
      <3> QED
        BY <1>1, <2>2, <3>2 DEF CallOK
    <2>6. call' = [call EXCEPT ![c] = v]
      BY <1>4, Zenon DEF Resolve
    <2> HIDE DEF v
    <2> QED
      BY <1>2, <1>3, <2>4, <2>5, <2>6, CallerStep, Zenon DEF Resolve
  <1>5. CASE ~(Places(n) # {} /\ Fresh(cache[Where(n)]))
    <2> DEFINE v == [st |-> "asked", name |-> n, started |-> time]
    <2>1. v \in CallType /\ CallOK(v)
      BY <1>1, ResolverAssumption DEF CallType, CallOK
    <2>2. call' = [call EXCEPT ![c] = v]
      BY <1>5, Zenon DEF Resolve
    <2> HIDE DEF v
    <2> QED
      BY <1>2, <1>3, <2>1, <2>2, CallerStep, Zenon DEF Resolve
  <1> QED
    BY <1>4, <1>5, Zenon

LEMMA LookupSeesKeeps ==
  ASSUME ResolverInv, NEW c \in Callers, LookupSees(c)
  PROVE  ResolverInv'
  <1>1. PICK o \in [st : {"asked"}, name : Names, started : Nat] : o = call[c]
    BY Zenon DEF LookupSees, ResolverInv, ResolverTypeOK, CallType
  <1> DEFINE v == [st |-> "seen", name |-> o.name, started |-> o.started,
                   addr |-> Len(changes[o.name])]
  <1>2. changes[o.name] \in Seq(Nat)
    BY Zenon DEF ResolverInv, ResolverTypeOK
  <1>3. v \in CallType
    BY <1>2 DEF CallType
  <1>4. CallOK(v)
    <2>1. o.started <= time /\ time - o.started <= LookupLimit
      BY <1>1, Zenon DEF ResolverInv, CallOK
    <2>2. v.addr <= Len(changes[o.name]) /\ ~(v.addr < Len(changes[o.name]))
      BY <1>2
    <2>3. v.st = "seen" /\ v.name = o.name /\ v.started = o.started
      BY Zenon
    <2> HIDE DEF v
    <2>4. Since(v.name, v.addr, v.started)
      BY <2>1, <2>2, <2>3, Zenon DEF Since
    <2> QED
      BY <2>1, <2>3, <2>4, Zenon DEF CallOK
  <1>5. call' = [call EXCEPT ![c] = v]
    BY <1>1, Zenon DEF LookupSees, ResolverInv, ResolverTypeOK
  <1> HIDE DEF v
  <1> QED
    BY <1>3, <1>4, <1>5, SameCache, CallerStep, Zenon DEF LookupSees

LEMMA LookupReturnsKeeps ==
  ASSUME ResolverInv, NEW c \in Callers, LookupReturns(c)
  PROVE  ResolverInv'
  <1>1. PICK o \in [st : {"seen"}, name : Names, started : Nat, addr : Nat] : o = call[c]
    BY Zenon DEF LookupReturns, ResolverInv, ResolverTypeOK, CallType
  <1> DEFINE v == [st |-> "answered", name |-> o.name, at |-> time, addr |-> o.addr]
             e == [name |-> o.name, addr |-> o.addr, inserted |-> time]
  <1>2. Onward /\ time \in Nat /\ changes[o.name] \in Seq(Nat)
    BY DEF LookupReturns, Onward, ResolverInv, ResolverTypeOK
  <1>3. CallOK(o)
    BY <1>1, Zenon DEF ResolverInv
  <1>4. ASSUME NEW since \in Int, since <= o.started PROVE Since(o.name, o.addr, since)
    <2>1. Since(o.name, o.addr, o.started) /\ o.started <= time
      BY <1>3, Zenon DEF CallOK
    <2>2. ASSUME o.addr < Len(changes[o.name]) PROVE changes[o.name][o.addr + 1] \in Nat
      <3>1. o.addr + 1 \in 1 .. Len(changes[o.name])
        BY <1>2, <2>2
      <3> QED
        BY <1>2, <3>1
    <2> QED
      BY <1>2, <1>4, <2>1, <2>2 DEF Since
  <1>5. time - o.started <= LookupLimit
    BY <1>3, Zenon DEF CallOK
  <1>6. v \in CallType /\ e \in EntryType
    BY <1>2, Zenon DEF CallType, EntryType
  <1>7. CallOK(v)
    <2>1. /\ (time - Ttl - LookupLimit) + 1 \in Int
          /\ (time - Ttl - LookupLimit) + 1 <= o.started
      BY <1>2, <1>5, ResolverAssumption
    <2> QED
      BY <1>2, <1>4, <2>1 DEF CallOK
  <1>8. EntryOK(e)
    <2>1. time - LookupLimit \in Int /\ time - LookupLimit <= o.started
      BY <1>2, <1>5, ResolverAssumption
    <2> QED
      BY <1>2, <1>4, <2>1 DEF EntryOK
  <1>9. call' = [call EXCEPT ![c] = v] /\ cache' = PutFirst(e)
    BY <1>1, Zenon DEF LookupReturns, ResolverInv, ResolverTypeOK
  <1> HIDE DEF v, e
  <1>10. cache' \in Seq(EntryType) /\ \A k \in DOMAIN cache' :
             cache'[k] = e \/ \E j \in DOMAIN cache : cache'[k] = cache[j]
    BY <1>6, <1>9, PutFirstIsPart DEF ResolverInv
  <1>11. ASSUME NEW k \in DOMAIN cache', cache'[k] = e PROVE EntryOK(cache[k])'
    BY <1>8, <1>11, Zenon DEF EntryOK, Since, LookupReturns
  <1>12. \A k \in DOMAIN cache' : EntryOK(cache[k])'
    BY <1>2, <1>10, <1>11, CacheStays, Zenon
  <1> QED
    BY <1>6, <1>7, <1>9, <1>10, <1>12, CallerStep, Zenon DEF LookupReturns

LEMMA ResolverInvNext == ResolverInv /\ [ResolverNext]_resolverVars => ResolverInv'
  <1> SUFFICES ASSUME ResolverInv, [ResolverNext]_resolverVars PROVE ResolverInv'
    BY Zenon
  <1>1. ASSUME NEW c \in Callers, LookupFails(c) \/ UseAnswer(c) PROVE ResolverInv'
    <2>1. NoCall \in CallType /\ CallOK(NoCall)
      BY Zenon DEF NoCall, CallType, CallOK
    <2> QED
      BY <1>1, <2>1, SameCache, CallerStep, Zenon DEF LookupFails, UseAnswer
  <1>2. CASE ResolverTick
    <2>1. Onward /\ ResolverTypeOK'
      BY <1>2 DEF ResolverTick, Onward, ResolverInv, ResolverTypeOK
    <2>2. \A c \in Callers : CallOK(call[c])'
      BY <1>2, <2>1, OtherCallStays, Zenon DEF ResolverTick
    <2>3. \A k \in DOMAIN cache' : EntryOK(cache[k])'
      BY <1>2, <2>1, CacheStays, Zenon DEF ResolverTick, ResolverInv, ResolverTypeOK
    <2> QED
      BY <2>1, <2>2, <2>3, Zenon DEF ResolverInv
  <1>3. ASSUME NEW n \in Names, RecordChanges(n) PROVE ResolverInv'
    <2>1. Onward /\ ResolverTypeOK'
      BY <1>3 DEF RecordChanges, Onward, ResolverInv, ResolverTypeOK
    <2>2. \A c \in Callers : CallOK(call[c])'
      BY <1>3, <2>1, OtherCallStays, Zenon DEF RecordChanges
    <2>3. \A k \in DOMAIN cache' : EntryOK(cache[k])'
      BY <1>3, <2>1, CacheStays, Zenon DEF RecordChanges, ResolverInv, ResolverTypeOK
    <2> QED
      BY <2>1, <2>2, <2>3, Zenon DEF ResolverInv
  <1>4. CASE UNCHANGED resolverVars
    BY <1>4, Zenon DEF resolverVars, ResolverInv, ResolverTypeOK, EntryOK, CallOK, Since
  <1> QED
    BY <1>1, <1>2, <1>3, <1>4, ResolveKeeps, LookupSeesKeeps, LookupReturnsKeeps, Zenon
       DEF ResolverNext

(* An answer of resolve, cached or not, was the name's record within the last CACHE_TTL *)
(* and the time one lookup takes (resolver.rs:48-78), for any names, callers, size of   *)
(* the cache and length of life, and however lookups overlap.                           *)
THEOREM AnswersStayRecent == ResolverSpec => []AnswersAreRecent
  BY ResolverInvInit, ResolverInvNext, ResolverInvImplies, PTL DEF ResolverSpec

RelayTypeOK ==
    /\ kind \in Kinds
    /\ transfer \in [Directions -> {"Running", "ShuttingDown", "Done"}]
    /\ polled \in [Directions -> {"none", "pending", "ok", "err"}]
    /\ result \in {"none", "ok", "err"}
    /\ readDone \subseteq Directions /\ shut \subseteq Sides
    /\ closed \subseteq Sides /\ broken \subseteq Sides
    /\ sent \in [Sides -> Nat]
    /\ taken \in [Directions -> Nat] /\ given \in [Directions -> Nat]

(* EOF is read behind the last byte, and from a peer that sends no more. *)
EofIsLast ==
    \A d \in Directions :
        /\ given[d] <= taken[d] /\ taken[d] <= sent[Src(d)]
        /\ d \in readDone => taken[d] = sent[Src(d)] /\ Src(d) \in closed \cup broken

(* A direction is past copying with nothing held, and done once its stream is shut. *)
PhasesInOrder ==
    \A d \in Directions :
        /\ transfer[d] # "Running" => d \in readDone /\ given[d] = taken[d]
        /\ transfer[d] = "Done" <=> Dst(d) \in shut
        /\ polled[d] = "ok" => transfer[d] = "Done"
        /\ result = "ok" => transfer[d] = "Done"

RelayInv == RelayTypeOK /\ EofIsLast /\ PhasesInOrder

LEMMA TwoDirections ==
  /\ \A d \in Directions : Src(d) \in Sides /\ Dst(d) \in Sides
  /\ \A d, e \in Directions : d # e => Src(d) # Src(e) /\ Dst(d) # Dst(e)
  /\ \A s \in Sides : \A d \in Directions : Dst(d) = s \/ Src(d) = s
  BY DEF Directions, Sides, Src, Dst

LEMMA RelayInvInit == Init => RelayInv
  BY TwoDirections DEF Init, RelayInv, RelayTypeOK, EofIsLast, PhasesInOrder

LEMMA PeersKeep ==
  ASSUME RelayInv, NEW s \in Sides,
         PeerSends(s) \/ PeerCloses(s) \/ PeerBreaks(s) \/ PeerDrains(s)
  PROVE  RelayInv'
  <1> USE TwoDirections
  <1>1. UNCHANGED relay /\ UNCHANGED kind
    BY Zenon DEF PeerSends, PeerCloses, PeerBreaks, PeerDrains
  <1>2. /\ closed \subseteq closed' /\ closed' \subseteq Sides
        /\ broken \subseteq broken' /\ broken' \subseteq Sides
    BY DEF PeerSends, PeerCloses, PeerBreaks, PeerDrains, RelayInv, RelayTypeOK
  <1>3. /\ sent' \in [Sides -> Nat] /\ \A t \in Sides : sent[t] <= sent'[t]
        /\ \A t \in Sides : t \in closed \cup broken => sent'[t] = sent[t]
    <2>1. CASE PeerSends(s)
      BY <2>1 DEF PeerSends, RelayInv, RelayTypeOK
    <2>2. CASE PeerCloses(s) \/ PeerBreaks(s) \/ PeerDrains(s)
      BY <2>2 DEF PeerCloses, PeerBreaks, PeerDrains, RelayInv, RelayTypeOK
    <2> QED
      BY <2>1, <2>2, Zenon
  <1>4. RelayTypeOK'
    BY <1>1, <1>2, <1>3, Zenon DEF relay, RelayInv, RelayTypeOK
  <1>5. EofIsLast'
    <2> SUFFICES ASSUME NEW d \in Directions
                 PROVE  /\ given[d] <= taken[d] /\ taken[d] <= sent'[Src(d)]
                        /\ d \in readDone => /\ taken[d] = sent'[Src(d)]
                                             /\ Src(d) \in closed' \cup broken'
      BY <1>1, Zenon DEF relay, EofIsLast
    <2>1. taken[d] \in Nat /\ sent[Src(d)] \in Nat /\ sent'[Src(d)] \in Nat
      BY <1>3, Zenon DEF RelayInv, RelayTypeOK
    <2> QED
      BY <1>2, <1>3, <2>1 DEF RelayInv, EofIsLast
  <1>6. PhasesInOrder'
    BY <1>1, Zenon DEF relay, RelayInv, PhasesInOrder
  <1> QED
    BY <1>4, <1>5, <1>6, Zenon DEF RelayInv

LEMMA TakeKeeps ==
  ASSUME RelayInv, NEW d \in Directions, Take(d)
  PROVE  RelayInv'
  <1> USE TwoDirections
  <1>1. /\ transfer[d] = "Running" /\ d \notin readDone /\ sent[Src(d)] - taken[d] > 0
        /\ taken' = [taken EXCEPT ![d] = @ + 1]
        /\ UNCHANGED <<transfer, turn, polled, result, readDone, given, shut>> /\ UNCHANGED peers
    BY Zenon DEF Take, Reads, Running, Unread
  <1>2. RelayTypeOK'
    BY <1>1 DEF peers, RelayInv, RelayTypeOK
  <1>3. EofIsLast'
    BY <1>1 DEF peers, RelayInv, RelayTypeOK, EofIsLast
  <1>4. PhasesInOrder'
    BY <1>1, Zenon DEF RelayInv, RelayTypeOK, PhasesInOrder
  <1> QED
    BY <1>2, <1>3, <1>4, Zenon DEF RelayInv

LEMMA ReadEofKeeps ==
  ASSUME RelayInv, NEW d \in Directions, ReadEof(d)
  PROVE  RelayInv'
  <1> USE TwoDirections
  <1>1. /\ sent[Src(d)] - taken[d] = 0 /\ Src(d) \in closed \cup broken
        /\ readDone' = readDone \cup {d}
        /\ UNCHANGED <<transfer, turn, polled, result, taken, given, shut>> /\ UNCHANGED peers
    BY Zenon DEF ReadEof, AtEof, Unread
  <1>2. RelayTypeOK'
    BY <1>1, Zenon DEF peers, RelayInv, RelayTypeOK
  <1>3. EofIsLast'
    <2>1. taken[d] = sent[Src(d)]
      BY <1>1 DEF RelayInv, RelayTypeOK
    <2> QED
      BY <1>1, <2>1, Zenon DEF peers, RelayInv, EofIsLast
  <1>4. PhasesInOrder'
    BY <1>1, Zenon DEF RelayInv, PhasesInOrder
  <1> QED
    BY <1>2, <1>3, <1>4, Zenon DEF RelayInv

LEMMA GiveKeeps ==
  ASSUME RelayInv, NEW d \in Directions, Give(d)
  PROVE  RelayInv'
  <1> USE TwoDirections
  <1>1. /\ transfer[d] = "Running" /\ taken[d] - given[d] > 0
        /\ given' = [given EXCEPT ![d] = @ + 1]
        /\ UNCHANGED <<transfer, polled, result, readDone, taken, shut, kind, sent, closed, broken>>
    BY Zenon DEF Give, Running, Held
  <1>2. RelayTypeOK'
    BY <1>1 DEF RelayInv, RelayTypeOK
  <1>3. EofIsLast'
    BY <1>1 DEF RelayInv, RelayTypeOK, EofIsLast
  <1>4. PhasesInOrder'
    BY <1>1, Zenon DEF RelayInv, RelayTypeOK, PhasesInOrder
  <1> QED
    BY <1>2, <1>3, <1>4, Zenon DEF RelayInv

LEMMA CopyDoneKeeps ==
  ASSUME RelayInv, NEW d \in Directions, CopyDone(d)
  PROVE  RelayInv'
  <1> USE TwoDirections
  <1>1. /\ transfer[d] = "Running" /\ d \in readDone /\ taken[d] - given[d] = 0
        /\ transfer' = [transfer EXCEPT ![d] = "ShuttingDown"]
        /\ UNCHANGED <<polled, result, readDone, taken, given, shut>> /\ UNCHANGED peers
    BY Zenon DEF CopyDone, Running, Held
  <1>2. given[d] = taken[d]
    BY <1>1 DEF RelayInv, RelayTypeOK
  <1>3. RelayTypeOK'
    BY <1>1, Zenon DEF peers, RelayInv, RelayTypeOK
  <1>4. EofIsLast'
    BY <1>1, Zenon DEF peers, RelayInv, EofIsLast
  <1>5. PhasesInOrder'
    BY <1>1, <1>2, Zenon DEF RelayInv, RelayTypeOK, PhasesInOrder
  <1> QED
    BY <1>3, <1>4, <1>5, Zenon DEF RelayInv

LEMMA ShutdownKeeps ==
  ASSUME RelayInv, NEW d \in Directions, Shutdown(d)
  PROVE  RelayInv'
  <1> USE TwoDirections
  <1>1. /\ transfer[d] = "ShuttingDown" /\ shut' = shut \cup {Dst(d)}
        /\ transfer' = [transfer EXCEPT ![d] = "Done"]
        /\ UNCHANGED <<polled, result, readDone, taken, given, kind, sent, closed, broken>>
    BY Zenon DEF Shutdown
  <1>2. RelayTypeOK'
    BY <1>1 DEF RelayInv, RelayTypeOK
  <1>3. EofIsLast'
    BY <1>1, Zenon DEF RelayInv, EofIsLast
  <1>4. PhasesInOrder'
    BY <1>1, Zenon DEF RelayInv, RelayTypeOK, PhasesInOrder
  <1> QED
    BY <1>2, <1>3, <1>4, Zenon DEF RelayInv

LEMMA ReturnsKeep ==
  ASSUME RelayInv, NEW d \in Directions,
         DirectionPending(d) \/ DirectionFails(d) \/ DirectionDone(d)
  PROVE  RelayInv'
  <1> USE TwoDirections
  <1>1. PICK r \in {"pending", "ok", "err"} :
            /\ Returns(d, r)
            /\ r = "ok" => transfer[d] = "Done"
    BY Zenon DEF DirectionPending, DirectionFails, DirectionDone
  <1>2. /\ polled' = [polled EXCEPT ![d] = r]
        /\ UNCHANGED <<transfer, result, readDone, taken, given, shut>> /\ UNCHANGED peers
    BY <1>1, Zenon DEF Returns
  <1>3. RelayTypeOK'
    BY <1>2, Zenon DEF peers, RelayInv, RelayTypeOK
  <1>4. EofIsLast'
    BY <1>2, Zenon DEF peers, RelayInv, EofIsLast
  <1>5. PhasesInOrder'
    BY <1>1, <1>2, Zenon DEF RelayInv, RelayTypeOK, PhasesInOrder
  <1> QED
    BY <1>3, <1>4, <1>5, Zenon DEF RelayInv

LEMMA MatchKeeps ==
  ASSUME RelayInv, Match
  PROVE  RelayInv'
  <1> USE TwoDirections
  <1>1. /\ polled' = [d \in Directions |-> "none"]
        /\ result' = IF \E d \in Directions : polled[d] = "err" THEN "err"
                     ELSE IF \A d \in Directions : polled[d] = "ok" THEN "ok" ELSE "none"
        /\ UNCHANGED <<transfer, readDone, taken, given, shut>> /\ UNCHANGED peers
    BY Zenon DEF Match
  <1>2. RelayTypeOK'
    BY <1>1, Zenon DEF peers, RelayInv, RelayTypeOK
  <1>3. EofIsLast'
    BY <1>1, Zenon DEF peers, RelayInv, EofIsLast
  <1>4. result' = "ok" => \A d \in Directions : polled[d] = "ok"
    BY <1>1, Zenon
  <1>5. PhasesInOrder'
    BY <1>1, <1>4, Zenon DEF RelayInv, PhasesInOrder
  <1> QED
    BY <1>2, <1>3, <1>5, Zenon DEF RelayInv

LEMMA RelayInvNext == RelayInv /\ [Next]_vars => RelayInv'
  <1> SUFFICES ASSUME RelayInv, [Next]_vars PROVE RelayInv'
    BY Zenon
  <1>1. CASE PeerStep
    BY <1>1, PeersKeep, Zenon DEF PeerStep
  <1>2. CASE Match
    BY <1>2, MatchKeeps, Zenon
  <1>3. CASE Poll
    BY <1>3, Zenon DEF Poll, RelayInv, RelayTypeOK, EofIsLast, PhasesInOrder
  <1>4. ASSUME NEW d \in Directions,
               Take(d) \/ ReadEof(d) \/ Give(d) \/ CopyDone(d) \/ Shutdown(d)
        PROVE  RelayInv'
    BY <1>4, TakeKeeps, ReadEofKeeps, GiveKeeps, CopyDoneKeeps, ShutdownKeeps, Zenon
  <1>5. ASSUME NEW d \in Directions,
               DirectionPending(d) \/ DirectionFails(d) \/ DirectionDone(d)
        PROVE  RelayInv'
    BY <1>5, ReturnsKeep, Zenon
  <1>6. CASE UNCHANGED vars
    BY <1>6, Zenon DEF vars, relay, peers, RelayInv, RelayTypeOK, EofIsLast, PhasesInOrder
  <1> QED
    BY <1>1, <1>2, <1>3, <1>4, <1>5, <1>6, Zenon DEF Next, PollStep

LEMMA RelayInvAlways == Spec => []RelayInv
  BY RelayInvInit, RelayInvNext, PTL DEF Spec

(* A stream is shut down only after every byte received for it was written to it       *)
(* (copy_bidirectional.rs:191-196), for every size of buffers and windows.             *)
THEOREM ShutIsAfterData == Spec => []ShutAfterData
  <1>1. RelayInv => ShutAfterData
    BY Zenon DEF RelayInv, EofIsLast, PhasesInOrder, ShutAfterData
  <1> QED
    BY <1>1, RelayInvAlways, PTL

(* When the relay returns Ok, both directions carried everything and both streams were *)
(* shut down (copy_bidirectional.rs:236-239), for every size of buffers and windows.   *)
THEOREM OkComplete == Spec => []OkIsComplete
  <1>1. RelayInv => OkIsComplete
    BY Zenon DEF RelayInv, EofIsLast, PhasesInOrder, OkIsComplete
  <1> QED
    BY <1>1, RelayInvAlways, PTL
==============================================================================
