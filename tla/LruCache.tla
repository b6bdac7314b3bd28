------------------------------ MODULE LruCache ------------------------------
(***************************************************************************)
(* internal/cache/cache.go: the generic LRU + TTL cache every other part   *)
(* of the server keeps its metadata, stream URLs and segments in.          *)
(*                                                                         *)
(* A Cache is a map `entries' and a list `lru' of the same keys, most      *)
(* recently used first, both guarded by one mutex: every operation is one  *)
(* critical section, hence one action, except GetWithLoader, which gives   *)
(* the mutex up while the caller's loader runs.                            *)
(*                                                                         *)
(* A list element is identified with the key stored in it.  Time is kept   *)
(* relative: an entry records the time it still has to live, which Tick    *)
(* decrements.  It is 0 at the instant `now = expiry' and Past after it.   *)
(* Hit, miss and eviction counters are left out.                           *)
(***************************************************************************)
EXTENDS Integers, Sequences, FiniteSets

CONSTANTS
    Keys,        \* valid (non-empty) cache keys
    Values,      \* what is stored under them
    MaxSize,     \* Config.MaxSize, 0 meaning unlimited
    DefaultTTL,  \* Config.DefaultTTL, 0 meaning no expiration
    MaxTTL,      \* the largest ttl a caller passes
    Clients,     \* goroutines inside GetWithLoader
    Zero         \* the zero value a lookup that misses returns

ASSUME SizeAssumption == MaxSize \in Nat
ASSUME TTLAssumption == MaxTTL \in Nat /\ DefaultTTL \in 0..MaxTTL
ASSUME ZeroAssumption == Zero \notin Values

VARIABLES
    entries,     \* the map: key -> [value, life], a function on the cached keys
    lru,         \* the list of keys, front (most recently used) first
    running,     \* the cleanup goroutine has not been stopped
    loading,     \* client -> the call it has a loader running for, or Idle
    result       \* the last lookup to return: its value, and whether it counts as a use

vars == <<entries, lru, running, loading, result>>

Past == -1            \* time.Now().After(expiry)
Forever == MaxTTL + 1 \* expiry.IsZero()
Lives == Past..Forever
Nothing == [value |-> Zero, use |-> FALSE]
Used(v) == [value |-> v, use |-> TRUE]
Seen(v) == [value |-> v, use |-> FALSE]
Answers == [value : Values \cup {Zero}, use : BOOLEAN]
Idle == [key |-> Zero, ttl |-> 0]
TTLs == -1..MaxTTL    \* a negative ttl stands for every negative duration
Cached == DOMAIN entries

(* The two expiry tests of the code.  They disagree when now = expiry. *)
Expired(e) == e.life = Past
StillValid(e) == e.life > 0

(* The life of an entry stored with ttl: 0 asks for the default, and an    *)
(* entry whose ttl is not positive never expires.                          *)
LifeFor(ttl) ==
    LET t == IF ttl = 0 THEN DefaultTTL ELSE ttl
    IN  IF t > 0 THEN t ELSE Forever

(***************************************************************************)
(* The list operations of container/list the cache uses.                   *)
(***************************************************************************)
Position(s, k) == CHOOSE i \in 1..Len(s) : s[i] = k

Unlink(s, k) ==
    LET p == Position(s, k)
    IN  [i \in 1..(Len(s) - 1) |-> IF i < p THEN s[i] ELSE s[i + 1]]

PushFront(s, k) ==
    [i \in 1..(Len(s) + 1) |-> IF i = 1 THEN k ELSE s[i - 1]]

\* Mutant: a lookup forgets to move the key to the front.
MoveToFrontForgotten(s, k) == s

MoveToFront(s, k) == PushFront(Unlink(s, k), k)

(* The lists that hold the keys of S, a part of s, in the order they have  *)
(* in s: there is exactly one.                                             *)
Subsequences(s, S) ==
    {t \in [1..Cardinality(S) -> S] :
        \A i, j \in 1..Cardinality(S) :
            i < j => Position(s, t[i]) < Position(s, t[j])}

Without(f, k) == [x \in DOMAIN f \ {k} |-> f[x]]
With(f, k, e) == [x \in DOMAIN f \cup {k} |-> IF x = k THEN e ELSE f[x]]

(***************************************************************************)
(* Storing under the lock: what Set, GetOrSet and the tail of              *)
(* GetWithLoader share.  An existing entry is removed, the new one goes to *)
(* the front, and one key, the oldest, is evicted when the list is over    *)
(* its size.                                                               *)
(***************************************************************************)
ListWith(k) == PushFront(IF k \in Cached THEN Unlink(lru, k) ELSE lru, k)

OverCapacity(s) == MaxSize > 0 /\ Len(s) > MaxSize

Oldest(s) == s[Len(s)]

Store(k, v, ttl) ==
    LET e == [value |-> v, life |-> LifeFor(ttl)]
        s == ListWith(k)
    IN  IF OverCapacity(s)
        THEN /\ lru' = Unlink(s, Oldest(s))
             /\ entries' = Without(With(entries, k, e), Oldest(s))
        ELSE /\ lru' = s
             /\ entries' = With(entries, k, e)

(* removeEntry for a key that is cached. *)
RemoveEntry(k) ==
    /\ entries' = Without(entries, k)
    /\ lru' = Unlink(lru, k)

-----------------------------------------------------------------------------

Init ==
    /\ entries = << >>
    /\ lru = << >>
    /\ running \in BOOLEAN   \* CleanupInterval > 0
    /\ loading = [c \in Clients |-> Idle]
    /\ result = Nothing

(* Get: a miss, a hit, or an expired entry that is removed. *)
Get(k) ==
    /\ \/ /\ k \notin Cached
          /\ result' = Nothing
          /\ UNCHANGED <<entries, lru>>
       \/ /\ k \in Cached
          /\ Expired(entries[k])
          /\ RemoveEntry(k)
          /\ result' = Nothing
       \/ /\ k \in Cached
          /\ ~Expired(entries[k])
          /\ lru' = MoveToFront(lru, k)
          /\ result' = Used(entries[k].value)
          /\ UNCHANGED entries
    /\ UNCHANGED <<running, loading>>

(* Peek reports a live entry and leaves the list alone. *)
Peek(k) ==
    /\ result' = IF k \in Cached /\ ~Expired(entries[k])
                 THEN Seen(entries[k].value) ELSE Nothing
    /\ UNCHANGED <<entries, lru, running, loading>>

Set(k, v, ttl) ==
    /\ Store(k, v, ttl)
    /\ UNCHANGED <<running, loading, result>>

GetOrSet(k, v, ttl) ==
    /\ IF k \in Cached /\ StillValid(entries[k])
       THEN /\ lru' = MoveToFront(lru, k)
            /\ result' = Used(entries[k].value)
            /\ UNCHANGED entries
       ELSE /\ Store(k, v, ttl)
            /\ result' = Used(v)
    /\ UNCHANGED <<running, loading>>

(* GetWithLoader up to the call of the loader: a hit returns, anything     *)
(* else drops what is there and leaves the lock.                           *)
GetWithLoader(c, k, ttl) ==
    /\ loading[c] = Idle
    /\ IF k \in Cached /\ StillValid(entries[k])
       THEN /\ lru' = MoveToFront(lru, k)
            /\ result' = Used(entries[k].value)
            /\ UNCHANGED <<entries, loading>>
       ELSE /\ IF k \in Cached THEN RemoveEntry(k) ELSE UNCHANGED <<entries, lru>>
            /\ loading' = [loading EXCEPT ![c] = [key |-> k, ttl |-> ttl]]
            /\ UNCHANGED result
    /\ UNCHANGED running

(* The loader returned v: it is stored, whatever happened to the key since. *)
LoaderDone(c, v) ==
    /\ loading[c] # Idle
    /\ Store(loading[c].key, v, loading[c].ttl)
    /\ loading' = [loading EXCEPT ![c] = Idle]
    /\ result' = Used(v)
    /\ UNCHANGED running

(* The loader failed: the error is returned and nothing is cached. *)
LoaderFailed(c) ==
    /\ loading[c] # Idle
    /\ loading' = [loading EXCEPT ![c] = Idle]
    /\ result' = Nothing
    /\ UNCHANGED <<entries, lru, running>>

Delete(k) ==
    /\ IF k \in Cached THEN RemoveEntry(k) ELSE UNCHANGED <<entries, lru>>
    /\ UNCHANGED <<running, loading, result>>

Clear ==
    /\ entries' = << >>
    /\ lru' = << >>
    /\ UNCHANGED <<running, loading, result>>

\* Mutant: the map is cleaned, the list is not.
CleanupMapOnly ==
    /\ running
    /\ entries' = [k \in {x \in Cached : ~Expired(entries[x])} |-> entries[k]]
    /\ UNCHANGED <<lru, running, loading, result>>

\* Mutant: only a full cache is cleaned.
CleanupWhenFull ==
    /\ running
    /\ Len(lru) = MaxSize
    /\ LET live == {k \in Cached : ~Expired(entries[k])}
       IN  /\ entries' = [k \in live |-> entries[k]]
           /\ lru' \in Subsequences(lru, live)
    /\ UNCHANGED <<running, loading, result>>

(* One tick of cleanupLoop: every expired entry leaves map and list. *)
CleanupExpired ==
    /\ running
    /\ LET live == {k \in Cached : ~Expired(entries[k])}
       IN  /\ entries' = [k \in live |-> entries[k]]
           /\ lru' \in Subsequences(lru, live)
    /\ UNCHANGED <<running, loading, result>>

(* Stop, up to the moment the loop takes the closed channel and returns. *)
Stop ==
    /\ running' = FALSE
    /\ UNCHANGED <<entries, lru, loading, result>>

(* Time passes for every entry that has an expiry. *)
Tick ==
    /\ entries' = [k \in Cached |->
           [entries[k] EXCEPT !.life =
               IF @ \in {Past, Forever} THEN @ ELSE @ - 1]]
    /\ UNCHANGED <<lru, running, loading, result>>

Next ==
    \/ \E k \in Keys : Get(k) \/ Peek(k) \/ Delete(k)
    \/ \E k \in Keys, v \in Values, ttl \in TTLs : Set(k, v, ttl) \/ GetOrSet(k, v, ttl)
    \/ \E c \in Clients, k \in Keys, ttl \in TTLs : GetWithLoader(c, k, ttl)
    \/ \E c \in Clients, v \in Values : LoaderDone(c, v)
    \/ \E c \in Clients : LoaderFailed(c)
    \/ Clear \/ CleanupExpired \/ Stop \/ Tick

Spec == Init /\ [][Next]_vars

(* cleanupLoop's ticker fires as long as the loop runs.  No fairness on     *)
(* anything a user of the cache does.                                      *)
FairSpec == Spec /\ WF_vars(CleanupExpired)

-----------------------------------------------------------------------------

TypeOK ==
    /\ Cached \subseteq Keys
    /\ entries \in [Cached -> [value : Values, life : Lives]]
    /\ running \in BOOLEAN
    /\ loading \in [Clients -> [key : Keys, ttl : TTLs] \cup {Idle}]
    /\ result \in Answers

(* s lists the keys of S, each once. *)
Lists(s, S) ==
    /\ s \in Seq(Keys)
    /\ {s[i] : i \in 1..Len(s)} = S
    /\ \A i, j \in 1..Len(s) : s[i] = s[j] => i = j

(* The list and the map hold the same keys, each once: no operation, and   *)
(* none that ran between the two halves of a GetWithLoader, leaves a list  *)
(* element without entry or an entry no eviction can reach.                *)
ListMatchesMap == Lists(lru, Cached)

(* A bounded cache never grows past MaxSize: evictOldest, which removes    *)
(* one key, is enough after every way of storing one.                      *)
WithinCapacity == MaxSize > 0 => Len(lru) <= MaxSize

(* cleanupExpired gets rid of every expired entry, those included that      *)
(* nobody asks for again, unless the cleanup was stopped: again and again   *)
(* no expired entry is left.                                                *)
ExpiredEntriesLeave == []<>(running => \A k \in Cached : ~Expired(entries[k]))

(* The cache keeps the promise of RecencyCache: the list order is the      *)
(* recency relation, and every operation, the late store of a loader       *)
(* included, is one of the promised steps.                                 *)
Promise == INSTANCE RecencyCache WITH
    content <- entries,
    newer <- {<<lru[ij[1]], lru[ij[2]]>> :
                 ij \in {q \in (1..Len(lru)) \X (1..Len(lru)) : q[1] < q[2]}},
    Capacity <- MaxSize,
    MaxLife <- Forever

KeepsPromise == Promise!Spec

=============================================================================
