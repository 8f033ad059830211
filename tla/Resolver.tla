------------------------------ MODULE Resolver ------------------------------
(* Resolver::resolve (resolver.rs): host names through the system's resolver, with   *)
(* a cache of bounded size whose entries are used for CACHE_TTL.  The lock on the     *)
(* cache is not held during a lookup, so lookups of several callers overlap.  An      *)
(* address is the version of the name's record that the lookup saw: of the addresses  *)
(* of a record, lookup_host always takes the first after sorting.  IP literals never  *)
(* come here.                                                                         *)
EXTENDS Integers, Sequences

CONSTANTS
    Names,        \* host names with their ports, the keys of the cache
    Callers,      \* tasks that resolve names
    CacheSize,    \* CACHE_SIZE
    Ttl,          \* CACHE_TTL, in ticks
    LookupLimit,  \* external: ticks a lookup of the system's resolver may take
    MaxTime,      \* bound: ticks
    Changing,     \* bound: the names whose record changes
    MaxChanges    \* bound: changes of a name's record

ASSUME ResolverAssumption ==
    CacheSize \in Nat \ {0} /\ Ttl \in Nat \ {0} /\ LookupLimit \in Nat /\ MaxTime \in Nat

VARIABLES
    time,         \* the clock
    changes,      \* when each name's record changed: its version is the length
    cache,        \* LruCache, most recently used first
    call          \* what each caller is doing

resolverVars == <<time, changes, cache, call>>

NoCall == [st |-> "idle"]

ResolverInit ==
    /\ time = 0
    /\ changes = [n \in Names |-> <<>>]
    /\ cache = <<>>
    /\ call = [c \in Callers |-> NoCall]

(* Time passes; a lookup that has lasted LookupLimit ends first. *)
ResolverTick ==
    /\ time < MaxTime
    /\ \A c \in Callers : call[c].st \in {"asked", "seen"} => time - call[c].started < LookupLimit
    /\ time' = time + 1
    /\ UNCHANGED <<changes, cache, call>>

RecordChanges(n) ==
    /\ n \in Changing /\ Len(changes[n]) < MaxChanges
    /\ changes' = [changes EXCEPT ![n] = Append(@, time)]
    /\ UNCHANGED <<time, cache, call>>

(* LruCache::get moves an entry to the front, LruCache::put inserts one there and      *)
(* drops the last one if there are too many.  A name has one entry at most.            *)
Places(n) == {i \in DOMAIN cache : cache[i].name = n}
Where(n) == CHOOSE i \in Places(n) : TRUE
Removed(s, i) == SubSeq(s, 1, i - 1) \o SubSeq(s, i + 1, Len(s))
Others(n) == IF Places(n) = {} THEN cache ELSE Removed(cache, Where(n))
Promoted(n) == IF Places(n) = {} THEN cache ELSE <<cache[Where(n)]>> \o Others(n)
PutFirst(e) ==
    LET all == <<e>> \o Others(e.name)
    IN  SubSeq(all, 1, IF Len(all) > CacheSize THEN CacheSize ELSE Len(all))

(* Mutant: the age of an entry is not looked at. *)
FreshAlways(e) == TRUE
Fresh(e) == time - e.inserted < Ttl

(* The cache holds a fresh answer, or a lookup is started.  An entry that is not       *)
(* fresh stays where it is.                                                            *)
Resolve(c, n) ==
    /\ call[c].st = "idle"
    /\ cache' = Promoted(n)
    /\ call' = [call EXCEPT ![c] =
           IF Places(n) # {} /\ Fresh(cache[Where(n)])
           THEN [st |-> "answered", name |-> n, at |-> time,
                 addr |-> cache[Where(n)].addr]
           ELSE [st |-> "asked", name |-> n, started |-> time]]
    /\ UNCHANGED <<time, changes>>

(* External: the name server answers with the record of that moment. *)
LookupSees(c) ==
    /\ call[c].st = "asked"
    /\ call' = [call EXCEPT ![c] = [st |-> "seen", name |-> @.name, started |-> @.started,
                                    addr |-> Len(changes[@.name])]]
    /\ UNCHANGED <<time, changes, cache>>

(* The caller's task goes on: the answer is cached and returned. *)
LookupReturns(c) ==
    /\ call[c].st = "seen"
    /\ cache' = PutFirst([name |-> call[c].name, addr |-> call[c].addr, inserted |-> time])
    /\ call' = [call EXCEPT ![c] = [st |-> "answered", name |-> @.name, at |-> time, addr |-> @.addr]]
    /\ UNCHANGED <<time, changes>>

LookupFails(c) ==
    /\ call[c].st = "asked"
    /\ call' = [call EXCEPT ![c] = NoCall]
    /\ UNCHANGED <<time, changes, cache>>

(* The caller uses the answer and may resolve again. *)
UseAnswer(c) ==
    /\ call[c].st = "answered"
    /\ call' = [call EXCEPT ![c] = NoCall]
    /\ UNCHANGED <<time, changes, cache>>

ResolverNext ==
    \/ ResolverTick
    \/ \E n \in Names : RecordChanges(n)
    \/ \E c \in Callers : \/ \E n \in Names : Resolve(c, n)
                          \/ LookupSees(c) \/ LookupReturns(c) \/ LookupFails(c) \/ UseAnswer(c)

ResolverSpec == ResolverInit /\ [][ResolverNext]_resolverVars

(***************************************************************************)
(* Properties.                                                             *)
(***************************************************************************)

(* An answer of resolve, cached or not, was the name's record at some moment of the    *)
(* last CACHE_TTL and the time one lookup takes, however lookups of several callers    *)
(* overlap: a slow one may put an older answer over a newer one, and for CACHE_TTL     *)
(* more, but never for longer.                                                         *)
AnswersAreRecent ==
    \A c \in Callers : call[c].st = "answered" =>
        LET changed == changes[call[c].name]
        IN  \/ call[c].addr = Len(changed)
            \/ changed[call[c].addr + 1] > call[c].at - Ttl - LookupLimit
=============================================================================
