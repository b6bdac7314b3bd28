---------------------------- MODULE CacheProofs ----------------------------
(***************************************************************************)
(* For every set of keys, every size and every ttl: the cache's list and   *)
(* map stay the same set of keys and stay within MaxSize, and every step is*)
(* one RecencyCache allows, with the keys in use in order of their use for *)
(* the list, and for the map and its deadlines what is still alive.        *)
(*                                                                         *)
(* For every set of tracks and albums, any requests, clears and failures:  *)
(* Tidal's metadata cache, which has such a cache in front of a buffer and *)
(* a table, finds what was buffered last.                                  *)
(***************************************************************************)
EXTENDS Caches, FiniteSetTheorems, SequenceTheorems, TLAPS

(* Where a listed key stands. *)
LEMMA PositionOfKey ==
    ASSUME NEW s, NEW S, Lists(s, S), NEW k \in S
    PROVE  Position(s, k) \in 1..Len(s) /\ s[Position(s, k)] = k
<1>1. PICK i \in 1..Len(s) : s[i] = k
  BY DEF Lists
<1> QED
  BY <1>1 DEF Position

(* Unlinking a key from a list of S gives a list of the other keys. *)
LEMMA UnlinkLists ==
    ASSUME NEW s, NEW S, Lists(s, S), NEW k \in S
    PROVE  Lists(Unlink(s, k), S \ {k}) /\ Len(Unlink(s, k)) = Len(s) - 1
<1> DEFINE p == Position(s, k)
           t == Unlink(s, k)
<1>1. p \in 1..Len(s) /\ s[p] = k
  BY PositionOfKey
<1>2. s \in Seq(Keys) /\ Len(s) \in Nat /\ s \in [1..Len(s) -> Keys]
  BY DEF Lists
<1> HIDE DEF p
<1>3. t = [i \in 1..(Len(s) - 1) |-> IF i < p THEN s[i] ELSE s[i + 1]]
  BY DEF t, p, Unlink
<1> HIDE DEF t
<1>4. \A i \in 1..(Len(s) - 1) : t[i] \in Keys
  BY <1>1, <1>2, <1>3
<1>5. t \in Seq(Keys) /\ Len(t) = Len(s) - 1
  <2>1. Len(s) - 1 \in Nat
    BY <1>1, <1>2
  <2>2. t \in [1..(Len(s) - 1) -> Keys]
    BY <1>3, <1>4
  <2> QED
    BY <2>1, <2>2
<1>6. \A i, j \in 1..Len(s) : s[i] = s[j] => i = j
  BY DEF Lists
<1>7. \A i, j \in 1..Len(t) : t[i] = t[j] => i = j
  <2> SUFFICES ASSUME NEW i \in 1..Len(t), NEW j \in 1..Len(t), t[i] = t[j]
               PROVE  i = j
    OBVIOUS
  <2>1. t[i] = s[IF i < p THEN i ELSE i + 1] /\ t[j] = s[IF j < p THEN j ELSE j + 1]
    BY <1>3, <1>5
  <2>2. /\ (IF i < p THEN i ELSE i + 1) \in 1..Len(s)
        /\ (IF j < p THEN j ELSE j + 1) \in 1..Len(s)
    BY <1>1, <1>2, <1>5
  <2>3. (IF i < p THEN i ELSE i + 1) = (IF j < p THEN j ELSE j + 1)
    BY <2>1, <2>2, <1>6
  <2> QED
    BY <2>3, <1>1, <1>2, <1>5
<1>8. {t[i] : i \in 1..Len(t)} = S \ {k}
  <2>1. \A x \in S \ {k} : \E i \in 1..Len(t) : t[i] = x
    <3> SUFFICES ASSUME NEW x \in S \ {k} PROVE \E i \in 1..Len(t) : t[i] = x
      OBVIOUS
    <3>1. PICK i \in 1..Len(s) : s[i] = x
      BY DEF Lists
    <3>2. i # p
      BY <3>1, <1>1
    <3>3. CASE i < p
      BY <3>3, <3>1, <1>1, <1>2, <1>3, <1>5
    <3>4. CASE i > p
      <4>1. i - 1 \in 1..Len(t) /\ ~(i - 1 < p) /\ (i - 1) + 1 = i
        BY <3>4, <1>1, <1>2, <1>5
      <4>2. t[i - 1] = s[(i - 1) + 1]
        BY <4>1, <1>3, <1>5
      <4> QED
        BY <4>1, <4>2, <3>1
    <3> QED
      BY <3>2, <3>3, <3>4, <1>1, <1>2
  <2>2. \A i \in 1..Len(t) : t[i] \in S \ {k}
    <3> SUFFICES ASSUME NEW i \in 1..Len(t) PROVE t[i] \in S \ {k}
      OBVIOUS
    <3> DEFINE q == IF i < p THEN i ELSE i + 1
    <3>1. t[i] = s[q] /\ q \in 1..Len(s) /\ q # p
      BY <1>1, <1>2, <1>3, <1>5
    <3> HIDE DEF q
    <3>2. s[q] \in S
      BY <3>1 DEF Lists
    <3>3. s[q] # k
      BY <3>1, <1>1, <1>6
    <3> QED
      BY <3>1, <3>2, <3>3
  <2> QED
    BY <2>1, <2>2
<1> QED
  BY <1>5, <1>7, <1>8 DEF Lists, t

(* Pushing a key that is not listed lists it too, at the front. *)
LEMMA PushFrontLists ==
    ASSUME NEW s, NEW S, Lists(s, S), NEW k \in Keys, k \notin S
    PROVE  /\ Lists(PushFront(s, k), S \cup {k})
           /\ Len(PushFront(s, k)) = Len(s) + 1
           /\ PushFront(s, k)[1] = k
<1> DEFINE t == PushFront(s, k)
<1>1. s \in Seq(Keys) /\ Len(s) \in Nat /\ s \in [1..Len(s) -> Keys]
  BY DEF Lists
<1>2. t = [i \in 1..(Len(s) + 1) |-> IF i = 1 THEN k ELSE s[i - 1]]
  BY DEF PushFront
<1> HIDE DEF t
<1>3. t \in Seq(Keys) /\ Len(t) = Len(s) + 1
  <2>1. \A i \in 1..(Len(s) + 1) : t[i] \in Keys
    BY <1>1, <1>2
  <2>2. t \in [1..(Len(s) + 1) -> Keys] /\ Len(s) + 1 \in Nat
    BY <1>1, <1>2, <2>1
  <2> QED
    BY <2>2
<1>4. t[1] = k /\ 1 \in 1..Len(t)
  BY <1>1, <1>2, <1>3
<1>5. \A i \in 1..Len(t) : i # 1 => i - 1 \in 1..Len(s) /\ t[i] = s[i - 1]
  BY <1>1, <1>2, <1>3
<1>6. \A i \in 1..Len(s) : s[i] \in S
  BY DEF Lists
<1>7. \A i, j \in 1..Len(t) : t[i] = t[j] => i = j
  <2> SUFFICES ASSUME NEW i \in 1..Len(t), NEW j \in 1..Len(t), t[i] = t[j]
               PROVE  i = j
    OBVIOUS
  <2>1. CASE i = 1 \/ j = 1
    BY <2>1, <1>4, <1>5, <1>6
  <2>2. CASE i # 1 /\ j # 1
    <3>1. i - 1 = j - 1
      BY <2>2, <1>5 DEF Lists
    <3> QED
      BY <3>1, <1>1, <1>3
  <2> QED
    BY <2>1, <2>2
<1>8. {t[i] : i \in 1..Len(t)} = S \cup {k}
  <2>1. \A i \in 1..Len(t) : t[i] \in S \cup {k}
    BY <1>4, <1>5, <1>6
  <2>2. \A x \in S : \E i \in 1..Len(t) : t[i] = x
    <3> SUFFICES ASSUME NEW x \in S PROVE \E i \in 1..Len(t) : t[i] = x
      OBVIOUS
    <3>1. PICK j \in 1..Len(s) : s[j] = x
      BY DEF Lists
    <3>2. j + 1 \in 1..Len(t) /\ j + 1 # 1 /\ (j + 1) - 1 = j
      BY <1>1, <1>3
    <3> QED
      BY <3>1, <3>2, <1>5
  <2> QED
    BY <2>1, <2>2, <1>4
<1> QED
  BY <1>3, <1>4, <1>7, <1>8 DEF Lists, t

(* A list of S is as long as S is large. *)
LEMMA ListLength ==
    ASSUME NEW s, NEW S, Lists(s, S)
    PROVE  IsFiniteSet(S) /\ Cardinality(S) = Len(s)
<1>1. Len(s) \in Nat /\ s \in [1..Len(s) -> Keys]
  BY DEF Lists
<1>2. s \in [1..Len(s) -> S]
  BY <1>1 DEF Lists
<1>3. s \in Bijection(1..Len(s), S)
  BY <1>2 DEF Lists, Bijection, Injection, Surjection, IsInjective
<1>4. ExistsBijection(1..Len(s), S)
  BY <1>3 DEF ExistsBijection
<1>5. IsFiniteSet(1..Len(s)) /\ Cardinality(1..Len(s)) = Len(s)
  BY <1>1, FS_Interval
<1> QED
  BY <1>4, <1>5, FS_Bijection

(* What cleanupExpired leaves is a list of the entries it keeps. *)
LEMMA SubsequenceLists ==
    ASSUME NEW s, NEW S, Lists(s, S), NEW L \in SUBSET S,
           NEW t \in Subsequences(s, L)
    PROVE  Lists(t, L) /\ Len(t) <= Len(s)
<1>1. IsFiniteSet(S) /\ Cardinality(S) = Len(s)
  BY ListLength
<1>2. IsFiniteSet(L) /\ Cardinality(L) <= Cardinality(S)
  BY <1>1, FS_Subset
<1> DEFINE n == Cardinality(L)
<1>3. n \in Nat
  BY <1>2, FS_CardinalityType
<1>4. /\ t \in [1..n -> L]
      /\ \A i, j \in 1..n : i < j => Position(s, t[i]) < Position(s, t[j])
  BY DEF Subsequences
<1>5. S \subseteq Keys
  BY DEF Lists
<1> HIDE DEF n
<1>6. \A i \in 1..n : Position(s, t[i]) \in Int
  <2>1. \A k \in S : Position(s, k) \in 1..Len(s)
    BY PositionOfKey
  <2> QED
    BY <1>4, <2>1
<1>7. \A i, j \in 1..n : t[i] = t[j] => i = j
  BY <1>3, <1>4, <1>6
<1>8. t \in Seq(Keys) /\ Len(t) = n
  <2>1. t \in [1..n -> Keys]
    BY <1>4, <1>5
  <2> QED
    BY <2>1, <1>3
<1>9. t \in Injection(1..n, L)
  BY <1>4, <1>7 DEF Injection, IsInjective
<1>10. Cardinality(1..n) = n
  BY <1>3, FS_Interval
<1>11. t \in Surjection(1..n, L)
  BY <1>2, <1>9, <1>10, FS_Injection DEF n
<1>12. {t[i] : i \in 1..n} = L
  BY <1>4, <1>11 DEF Surjection
<1>13. Len(t) <= Len(s)
  BY <1>1, <1>2, <1>8 DEF n
<1> QED
  BY <1>7, <1>8, <1>12, <1>13 DEF Lists

(* Moving a listed key to the front lists the same keys. *)
LEMMA MoveToFrontLists ==
    ASSUME NEW s, NEW S, Lists(s, S), NEW k \in S
    PROVE  Lists(MoveToFront(s, k), S) /\ Len(MoveToFront(s, k)) = Len(s)
<1>1. k \in Keys /\ Len(s) \in Nat
  BY DEF Lists
<1>2. Lists(Unlink(s, k), S \ {k}) /\ Len(Unlink(s, k)) = Len(s) - 1
  BY UnlinkLists
<1>3. (S \ {k}) \cup {k} = S
  OBVIOUS
<1> QED
  BY <1>1, <1>2, <1>3, PushFrontLists DEF MoveToFront

-----------------------------------------------------------------------------

(* The invariant, inductive as it stands. *)
Inv == TypeOK /\ ListMatchesMap /\ WithinCapacity

(* The part of it that entries and list carry; the other variables are     *)
(* typed by what an action assigns them.                                   *)
Shape ==
    /\ Cached \subseteq Keys
    /\ entries \in [Cached -> [value : Values, life : Lives]]
    /\ ListMatchesMap
    /\ WithinCapacity

LEMMA RemoveEntryShape ==
    ASSUME Shape, NEW k \in Cached, RemoveEntry(k)
    PROVE  Shape'
<1>1. Lists(Unlink(lru, k), Cached \ {k}) /\ Len(Unlink(lru, k)) = Len(lru) - 1
  BY UnlinkLists DEF Shape, ListMatchesMap
<1>2. Cached' = Cached \ {k} /\ lru' = Unlink(lru, k)
  BY DEF RemoveEntry, Without, Cached
<1>3. entries' \in [Cached' -> [value : Values, life : Lives]]
  BY <1>2 DEF Shape, RemoveEntry, Without, Cached
<1>4. ListMatchesMap'
  BY <1>1, <1>2 DEF ListMatchesMap, Lists
<1>5. Len(lru) \in Nat
  BY DEF Shape, ListMatchesMap, Lists
<1>6. WithinCapacity'
  BY <1>1, <1>2, <1>5, SizeAssumption DEF Shape, WithinCapacity
<1> QED
  BY <1>2, <1>3, <1>4, <1>6 DEF Shape

LEMMA LifeForType ==
    ASSUME NEW ttl \in TTLs
    PROVE  LifeFor(ttl) \in Lives
BY TTLAssumption DEF LifeFor, TTLs, Lives, Past, Forever

(* Every way of storing keeps the shape: a store adds one key at most, and *)
(* the one eviction takes it back.                                         *)
LEMMA StoreShape ==
    ASSUME Shape, NEW k \in Keys, NEW v \in Values, NEW ttl \in TTLs, Store(k, v, ttl)
    PROVE  Shape'
<1> DEFINE e == [value |-> v, life |-> LifeFor(ttl)]
           s == ListWith(k)
           f == With(entries, k, e)
           All == Cached \cup {k}
<1> HIDE DEF s, All
<1>1. Lists(lru, Cached) /\ Len(lru) \in Nat
  BY DEF Shape, ListMatchesMap, Lists
<1>2. Lists(s, All) /\ Len(s) \in {Len(lru), Len(lru) + 1} /\ s[1] = k /\ Len(s) >= 1
  <2>1. CASE k \in Cached
    <3>1. Lists(Unlink(lru, k), Cached \ {k}) /\ Len(Unlink(lru, k)) = Len(lru) - 1
      BY <1>1, <2>1, UnlinkLists
    <3>2. /\ Lists(PushFront(Unlink(lru, k), k), (Cached \ {k}) \cup {k})
          /\ Len(PushFront(Unlink(lru, k), k)) = (Len(lru) - 1) + 1
          /\ PushFront(Unlink(lru, k), k)[1] = k
      BY <3>1, PushFrontLists
    <3>3. (Cached \ {k}) \cup {k} = All /\ s = PushFront(Unlink(lru, k), k)
      BY <2>1 DEF ListWith, s, All
    <3>4. Len(lru) >= 1
      BY <1>1, <2>1 DEF Lists
    <3>5. (Len(lru) - 1) + 1 = Len(lru)
      BY <1>1
    <3>6. Len(s) = Len(lru)
      BY <3>2, <3>3, <3>5
    <3>7. Lists(s, All) /\ s[1] = k
      BY <3>2, <3>3
    <3> QED
      BY <3>4, <3>6, <3>7
  <2>2. CASE k \notin Cached
    <3>1. /\ Lists(PushFront(lru, k), All)
          /\ Len(PushFront(lru, k)) = Len(lru) + 1
          /\ PushFront(lru, k)[1] = k
      BY <1>1, <2>2, PushFrontLists DEF All
    <3>2. s = PushFront(lru, k)
      BY <2>2 DEF ListWith, s
    <3> QED
      BY <3>1, <3>2, <1>1
  <2> QED
    BY <2>1, <2>2
<1>3. f \in [All -> [value : Values, life : Lives]] /\ DOMAIN f = All
  BY LifeForType DEF With, Shape, Cached, All
<1> HIDE DEF f
<1>4. All \subseteq Keys
  BY DEF All, Shape
<1>5. MaxSize > 0 => Len(lru) <= MaxSize
  BY DEF Shape, WithinCapacity
<1>6. CASE OverCapacity(s)
  <2> DEFINE d == Oldest(s)
  <2>1. d \in All
    BY <1>2, <1>1 DEF Oldest, Lists
  <2>2. Lists(Unlink(s, d), All \ {d}) /\ Len(Unlink(s, d)) = Len(s) - 1
    BY <1>2, <2>1, UnlinkLists
  <2>3. lru' = Unlink(s, d) /\ entries' = Without(f, d)
    BY <1>6 DEF Store, s, f
  <2>4. Cached' = All \ {d} /\ entries' \in [All \ {d} -> [value : Values, life : Lives]]
    BY <2>3, <1>3 DEF Without, Cached
  <2>5. ListMatchesMap'
    BY <2>2, <2>3, <2>4 DEF ListMatchesMap, Lists
  <2>6. WithinCapacity'
    BY <2>2, <2>3, <1>1, <1>2, <1>5, SizeAssumption DEF WithinCapacity
  <2> QED
    BY <2>4, <2>5, <2>6, <1>4 DEF Shape
<1>7. CASE ~OverCapacity(s)
  <2>1. lru' = s /\ entries' = f /\ Cached' = All
    BY <1>3, <1>7 DEF Store, s, f, Cached
  <2>2. ListMatchesMap'
    BY <2>1, <1>2 DEF ListMatchesMap, Lists
  <2>3. WithinCapacity'
    BY <2>1, <1>1, <1>2, <1>7, SizeAssumption DEF WithinCapacity, OverCapacity
  <2> QED
    BY <2>1, <2>2, <2>3, <1>3, <1>4 DEF Shape
<1> QED
  BY <1>6, <1>7

LEMMA AnswerTypes ==
    /\ Nothing \in Answers
    /\ \A v \in Values : Used(v) \in Answers /\ Seen(v) \in Answers
BY DEF Nothing, Used, Seen, Answers

LEMMA FrameShape ==
    ASSUME Shape, UNCHANGED <<entries, lru>>
    PROVE  Shape'
BY DEF Shape, ListMatchesMap, WithinCapacity, Lists, Cached

LEMMA StepKeepsInv ==
    ASSUME Inv, [Next]_vars
    PROVE  Inv'
<1> USE DEF Inv
<1> USE AnswerTypes
<1>1. Shape
  BY DEF TypeOK, Shape
<1>2. Lists(lru, Cached) /\ Len(lru) \in Nat
  BY DEF ListMatchesMap, Lists
<1>3. ASSUME NEW k \in Keys, Get(k) PROVE Inv'
  <2>1. CASE k \notin Cached
    <3>1. UNCHANGED <<entries, lru, running, loading>> /\ result' = Nothing
      BY <1>3, <2>1 DEF Get
    <3> QED
      BY <1>1, <3>1, FrameShape DEF TypeOK, Shape
  <2>2. CASE k \in Cached /\ Expired(entries[k])
    <3>1. Shape'
      BY <1>1, <1>3, <2>2, RemoveEntryShape DEF Get
    <3> QED
      BY <1>3, <2>2, <3>1 DEF Get, TypeOK, Shape
  <2>3. CASE k \in Cached /\ ~Expired(entries[k])
    <3>1. lru' = MoveToFront(lru, k) /\ entries' = entries
          /\ running' = running /\ loading' = loading /\ result' = Used(entries[k].value)
      BY <1>3, <2>3 DEF Get
    <3>2. Lists(lru', Cached') /\ Len(lru') = Len(lru)
      BY <1>2, <2>3, <3>1, MoveToFrontLists DEF Cached
    <3>3. ListMatchesMap' /\ WithinCapacity'
      BY <3>2 DEF ListMatchesMap, WithinCapacity, Lists
    <3> QED
      BY <2>3, <3>1, <3>3 DEF TypeOK, Cached
  <2> QED
    BY <2>1, <2>2, <2>3
<1>4. ASSUME NEW k \in Keys, Peek(k) PROVE Inv'
  <2>1. result' \in Answers
    BY <1>4 DEF Peek, TypeOK
  <2> QED
    BY <1>1, <1>4, <2>1, FrameShape DEF Peek, TypeOK, Shape
<1>5. ASSUME NEW k \in Keys, Delete(k) PROVE Inv'
  <2>1. CASE k \in Cached
    <3>1. Shape'
      BY <1>1, <1>5, <2>1, RemoveEntryShape DEF Delete
    <3> QED
      BY <1>5, <3>1 DEF Delete, TypeOK, Shape
  <2>2. CASE k \notin Cached
    BY <1>1, <1>5, <2>2, FrameShape DEF Delete, TypeOK, Shape
  <2> QED
    BY <2>1, <2>2
<1>6. ASSUME NEW k \in Keys, NEW v \in Values, NEW ttl \in TTLs, Set(k, v, ttl) PROVE Inv'
  <2>1. Shape'
    BY <1>1, <1>6, StoreShape DEF Set
  <2> QED
    BY <1>6, <2>1 DEF Set, TypeOK, Shape
<1>7. ASSUME NEW k \in Keys, NEW v \in Values, NEW ttl \in TTLs, GetOrSet(k, v, ttl)
      PROVE  Inv'
  <2>1. CASE k \in Cached /\ StillValid(entries[k])
    <3>1. lru' = MoveToFront(lru, k) /\ entries' = entries
          /\ running' = running /\ loading' = loading /\ result' = Used(entries[k].value)
      BY <1>7, <2>1 DEF GetOrSet
    <3>2. Lists(lru', Cached') /\ Len(lru') = Len(lru)
      BY <1>2, <2>1, <3>1, MoveToFrontLists DEF Cached
    <3>3. ListMatchesMap' /\ WithinCapacity'
      BY <3>2 DEF ListMatchesMap, WithinCapacity, Lists
    <3> QED
      BY <2>1, <3>1, <3>3 DEF TypeOK, Cached
  <2>2. CASE ~(k \in Cached /\ StillValid(entries[k]))
    <3>1. Shape'
      BY <1>1, <1>7, <2>2, StoreShape DEF GetOrSet
    <3> QED
      BY <1>7, <2>2, <3>1 DEF GetOrSet, TypeOK, Shape
  <2> QED
    BY <2>1, <2>2
<1>8. ASSUME NEW c \in Clients, NEW k \in Keys, NEW ttl \in TTLs, GetWithLoader(c, k, ttl)
      PROVE  Inv'
  <2>1. CASE k \in Cached /\ StillValid(entries[k])
    <3>1. lru' = MoveToFront(lru, k) /\ entries' = entries
          /\ running' = running /\ loading' = loading /\ result' = Used(entries[k].value)
      BY <1>8, <2>1 DEF GetWithLoader
    <3>2. Lists(lru', Cached') /\ Len(lru') = Len(lru)
      BY <1>2, <2>1, <3>1, MoveToFrontLists DEF Cached
    <3>3. ListMatchesMap' /\ WithinCapacity'
      BY <3>2 DEF ListMatchesMap, WithinCapacity, Lists
    <3> QED
      BY <2>1, <3>1, <3>3 DEF TypeOK, Cached
  <2>2. CASE ~(k \in Cached /\ StillValid(entries[k]))
    <3>1. /\ IF k \in Cached THEN RemoveEntry(k) ELSE UNCHANGED <<entries, lru>>
          /\ loading' = [loading EXCEPT ![c] = [key |-> k, ttl |-> ttl]]
          /\ result' = result /\ running' = running
      BY <1>8, <2>2 DEF GetWithLoader
    <3>2. Shape'
      <4>1. CASE k \in Cached
        BY <1>1, <3>1, <4>1, RemoveEntryShape
      <4>2. CASE k \notin Cached
        BY <1>1, <3>1, <4>2, FrameShape
      <4> QED
        BY <4>1, <4>2
    <3>3. loading' \in [Clients -> [key : Keys, ttl : TTLs] \cup {Idle}]
      BY <3>1 DEF TypeOK
    <3> QED
      BY <3>1, <3>2, <3>3 DEF TypeOK, Shape
  <2> QED
    BY <2>1, <2>2
<1>9. ASSUME NEW c \in Clients, NEW v \in Values, LoaderDone(c, v) PROVE Inv'
  <2>1. loading[c].key \in Keys /\ loading[c].ttl \in TTLs
    BY <1>9 DEF LoaderDone, TypeOK
  <2>2. Shape'
    BY <1>1, <1>9, <2>1, StoreShape DEF LoaderDone
  <2> QED
    BY <1>9, <2>2 DEF LoaderDone, TypeOK, Shape
<1>10. ASSUME NEW c \in Clients, LoaderFailed(c) PROVE Inv'
  <2>1. loading' \in [Clients -> [key : Keys, ttl : TTLs] \cup {Idle}]
    BY <1>10 DEF LoaderFailed, TypeOK
  <2> QED
    BY <1>1, <1>10, <2>1, FrameShape DEF LoaderFailed, TypeOK, Shape
<1>11. CASE Clear
  <2>1. Cached' = {} /\ lru' = << >> /\ entries' = << >>
    BY <1>11 DEF Clear, Cached
  <2>2. Lists(lru', Cached') /\ Len(lru') = 0
    BY <2>1 DEF Lists
  <2>3. entries' \in [Cached' -> [value : Values, life : Lives]]
    BY <2>1
  <2>4. ListMatchesMap' /\ WithinCapacity'
    BY <2>2, SizeAssumption DEF ListMatchesMap, WithinCapacity, Lists
  <2> QED
    BY <1>11, <2>1, <2>3, <2>4 DEF Clear, TypeOK
<1>12. CASE CleanupExpired
  <2> DEFINE live == {k \in Cached : ~Expired(entries[k])}
  <2>1. entries' = [k \in live |-> entries[k]] /\ lru' \in Subsequences(lru, live)
        /\ running' = running /\ loading' = loading /\ result' = result
    BY <1>12 DEF CleanupExpired
  <2>2. live \subseteq Cached
    OBVIOUS
  <2>3. Lists(lru', live) /\ Len(lru') <= Len(lru)
    BY <1>2, <2>1, <2>2, SubsequenceLists
  <2>4. Cached' = live
    BY <2>1 DEF Cached
  <2>5. ListMatchesMap' /\ WithinCapacity'
    BY <1>2, <2>3, <2>4, SizeAssumption DEF ListMatchesMap, WithinCapacity, Lists
  <2>6. Cached' \subseteq Keys /\ entries' \in [Cached' -> [value : Values, life : Lives]]
    BY <2>1, <2>2, <2>4 DEF TypeOK
  <2> QED
    BY <2>1, <2>5, <2>6 DEF TypeOK
<1>13. CASE Stop
  <2>1. running' \in BOOLEAN
    BY <1>13 DEF Stop
  <2> QED
    BY <1>1, <1>13, <2>1, FrameShape DEF Stop, TypeOK, Shape
<1>14. CASE Tick
  <2>1. Cached' = Cached /\ lru' = lru /\ running' = running
        /\ loading' = loading /\ result' = result
    BY <1>14 DEF Tick, Cached
  <2>2. \A k \in Cached : entries'[k] \in [value : Values, life : Lives]
    <3> SUFFICES ASSUME NEW k \in Cached PROVE entries'[k] \in [value : Values, life : Lives]
      OBVIOUS
    <3>1. entries[k] \in [value : Values, life : Lives]
      BY DEF TypeOK
    <3>2. entries'[k] = [entries[k] EXCEPT !.life =
               IF @ \in {Past, Forever} THEN @ ELSE @ - 1]
      BY <1>14 DEF Tick
    <3>3. (IF entries[k].life \in {Past, Forever} THEN entries[k].life
           ELSE entries[k].life - 1) \in Lives
      BY <3>1, TTLAssumption DEF Lives, Past, Forever
    <3> QED
      BY <3>1, <3>2, <3>3
  <2>3. entries' \in [Cached -> [value : Values, life : Lives]]
    BY <1>14, <2>2 DEF Tick
  <2> QED
    BY SMTT(60), <2>1, <2>3 DEF TypeOK, ListMatchesMap, WithinCapacity, Lists
<1>15. CASE UNCHANGED vars
  BY <1>1, <1>15, FrameShape DEF vars, TypeOK, Shape
<1> QED
  BY <1>3, <1>4, <1>5, <1>6, <1>7, <1>8, <1>9, <1>10, <1>11, <1>12, <1>13,
     <1>14, <1>15 DEF Next

(* Every reachable state of the cache: typed, list and map in step, and    *)
(* never more than MaxSize keys.                                           *)
THEOREM CacheStaysConsistent == Spec => [](TypeOK /\ ListMatchesMap /\ WithinCapacity)
<1>1. Init => Inv
  <2> SUFFICES ASSUME Init PROVE Inv
    OBVIOUS
  <2>1. Cached = {} /\ lru = << >> /\ entries = << >>
    BY DEF Init, Cached
  <2>2. Lists(lru, Cached)
    BY <2>1 DEF Lists
  <2>3. entries \in [Cached -> [value : Values, life : Lives]]
    BY <2>1
  <2>4. ListMatchesMap /\ WithinCapacity
    BY <2>1, <2>2, SizeAssumption DEF ListMatchesMap, WithinCapacity
  <2>5. TypeOK
    BY <2>1, <2>3, AnswerTypes DEF Init, TypeOK
  <2> QED
    BY <2>4, <2>5 DEF Inv
<1>2. Inv /\ [Next]_vars => Inv'
  BY StepKeepsInv
<1> QED
  BY <1>1, <1>2, PTL DEF Spec, Inv

-----------------------------------------------------------------------------
(* The recency relation of RecencyCache, read off a list: which key stands *)
(* before which.                                                           *)
Order(s) == {<<s[ij[1]], s[ij[2]]>> : ij \in {q \in (1..Len(s)) \X (1..Len(s)) : q[1] < q[2]}}
Before(s, a, b) == \E i, j \in 1..Len(s) : i < j /\ s[i] = a /\ s[j] = b

(* The pairs of a list of S are pairs of S. *)
LEMMA OrderPairs ==
    ASSUME NEW s, NEW S, Lists(s, S)
    PROVE  /\ Order(s) \subseteq S \X S
           /\ \A a, b : <<a, b>> \in Order(s) <=> Before(s, a, b)
<1>1. \A i \in 1..Len(s) : s[i] \in S
  BY DEF Lists
<1>2. ASSUME NEW i \in 1..Len(s), NEW j \in 1..Len(s), i < j
      PROVE  <<s[i], s[j]>> \in Order(s)
  <2> DEFINE ij == <<i, j>>
  <2>1. ij \in {q \in (1..Len(s)) \X (1..Len(s)) : q[1] < q[2]} /\ <<s[i], s[j]>> = <<s[ij[1]], s[ij[2]]>>
    BY <1>2
  <2> QED
    BY <2>1 DEF Order
<1>3. \A e \in Order(s) : \E i, j \in 1..Len(s) : i < j /\ e = <<s[i], s[j]>>
  BY DEF Order
<1>4. Order(s) \subseteq S \X S
  BY <1>1, <1>3
<1>5. ASSUME NEW a, NEW b
      PROVE  <<a, b>> \in Order(s) <=> Before(s, a, b)
  BY <1>2, <1>3 DEF Before
<1> QED
  BY <1>4, <1>5

(* Two relations on S with the same pairs are the same. *)
LEMMA SameRelation ==
    ASSUME NEW S, NEW Q \in SUBSET (S \X S), NEW R \in SUBSET (S \X S),
           \A a, b \in S : <<a, b>> \in Q <=> <<a, b>> \in R
    PROVE  Q = R
OBVIOUS

(* Unlinking a key takes the pairs it is in. *)
LEMMA UnlinkOrder ==
    ASSUME NEW s, NEW S, Lists(s, S), NEW k \in S
    PROVE  Order(Unlink(s, k)) = Order(s) \cap ((S \ {k}) \X (S \ {k}))
<1> DEFINE p == Position(s, k)
           t == Unlink(s, k)
           T == S \ {k}
<1>1. p \in 1..Len(s) /\ s[p] = k
  BY PositionOfKey
<1>2. Len(s) \in Nat /\ (\A i, j \in 1..Len(s) : s[i] = s[j] => i = j)
  BY DEF Lists
<1>3. t = [i \in 1..(Len(s) - 1) |-> IF i < p THEN s[i] ELSE s[i + 1]]
  BY DEF Unlink
<1>4. Lists(t, T) /\ Len(t) = Len(s) - 1
  BY UnlinkLists
<1> HIDE DEF p, t
<1>5. ASSUME NEW a \in T, NEW b \in T, Before(t, a, b)
      PROVE  Before(s, a, b)
  <2>1. PICK i, j \in 1..Len(t) : i < j /\ t[i] = a /\ t[j] = b
    BY <1>5 DEF Before
  <2> DEFINE m == IF i < p THEN i ELSE i + 1
             n == IF j < p THEN j ELSE j + 1
  <2>2. m \in 1..Len(s) /\ n \in 1..Len(s) /\ m < n
    BY <1>1, <1>2, <1>4, <2>1
  <2>3. s[m] = a /\ s[n] = b
    BY <1>3, <1>4, <2>1
  <2> QED
    BY <2>2, <2>3 DEF Before
<1>6. ASSUME NEW a \in T, NEW b \in T, Before(s, a, b)
      PROVE  Before(t, a, b)
  <2>1. PICK i, j \in 1..Len(s) : i < j /\ s[i] = a /\ s[j] = b
    BY <1>6 DEF Before
  <2>2. i # p /\ j # p
    BY <1>1, <2>1
  <2> DEFINE m == IF i < p THEN i ELSE i - 1
             n == IF j < p THEN j ELSE j - 1
  <2>3. m \in 1..Len(t) /\ n \in 1..Len(t) /\ m < n
    BY <1>1, <1>2, <1>4, <2>1, <2>2
  <2>4. t[m] = a /\ t[n] = b
    BY <1>1, <1>2, <1>3, <1>4, <2>1, <2>2, <2>3
  <2> QED
    BY <2>3, <2>4 DEF Before
<1>7. Order(t) \subseteq T \X T /\ \A a, b : <<a, b>> \in Order(t) <=> Before(t, a, b)
  BY <1>4, OrderPairs
<1>8. \A a, b : <<a, b>> \in Order(s) <=> Before(s, a, b)
  BY OrderPairs
<1>9. \A a, b \in T : <<a, b>> \in Order(t) <=> <<a, b>> \in Order(s) \cap (T \X T)
  BY <1>5, <1>6, <1>7, <1>8
<1>10. Order(t) = Order(s) \cap (T \X T)
  BY <1>7, <1>9, SameRelation
<1> QED
  BY <1>10 DEF t

(* A key pushed to the front stands before all others. *)
LEMMA PushFrontOrder ==
    ASSUME NEW s, NEW S, Lists(s, S), NEW k \in Keys \ S
    PROVE  Order(PushFront(s, k)) = Order(s) \cup ({k} \X S)
<1> DEFINE t == PushFront(s, k)
           T == S \cup {k}
<1>1. Len(s) \in Nat /\ S = {s[i] : i \in 1..Len(s)}
  BY DEF Lists
<1>2. t = [i \in 1..(Len(s) + 1) |-> IF i = 1 THEN k ELSE s[i - 1]]
  BY DEF PushFront
<1>3. Lists(t, T) /\ Len(t) = Len(s) + 1
  BY PushFrontLists
<1> HIDE DEF t
<1>4. ASSUME NEW a \in T, NEW b \in T, Before(t, a, b)
      PROVE  Before(s, a, b) \/ (a = k /\ b \in S)
  <2>1. PICK i, j \in 1..Len(t) : i < j /\ t[i] = a /\ t[j] = b
    BY <1>4 DEF Before
  <2>2. j # 1 /\ j - 1 \in 1..Len(s) /\ s[j - 1] = b
    BY <1>1, <1>2, <1>3, <2>1
  <2>3. CASE i = 1
    <3>1. a = k
      BY <1>1, <1>2, <2>1, <2>3
    <3> QED
      BY <1>1, <2>2, <3>1
  <2>4. CASE i # 1
    <3>1. i - 1 \in 1..Len(s) /\ i - 1 < j - 1 /\ s[i - 1] = a
      BY <1>1, <1>2, <1>3, <2>1, <2>4
    <3> QED
      BY <2>2, <3>1 DEF Before
  <2> QED
    BY <2>3, <2>4
<1>5. ASSUME NEW a, NEW b, Before(s, a, b)
      PROVE  Before(t, a, b)
  <2>1. PICK i, j \in 1..Len(s) : i < j /\ s[i] = a /\ s[j] = b
    BY <1>5 DEF Before
  <2>2. /\ i + 1 \in 1..Len(t) /\ j + 1 \in 1..Len(t) /\ i + 1 < j + 1
        /\ t[i + 1] = a /\ t[j + 1] = b
    BY <1>1, <1>2, <1>3, <2>1
  <2> QED
    BY <2>2 DEF Before
<1>6. ASSUME NEW b \in S
      PROVE  Before(t, k, b)
  <2>1. PICK j \in 1..Len(s) : s[j] = b
    BY <1>1, <1>6
  <2>2. 1 \in 1..Len(t) /\ j + 1 \in 1..Len(t) /\ 1 < j + 1 /\ t[1] = k /\ t[j + 1] = b
    BY <1>1, <1>2, <1>3, <2>1
  <2> QED
    BY <2>2 DEF Before
<1>7. Order(t) \subseteq T \X T /\ \A a, b : <<a, b>> \in Order(t) <=> Before(t, a, b)
  BY <1>3, OrderPairs
<1>8. Order(s) \subseteq S \X S /\ \A a, b : <<a, b>> \in Order(s) <=> Before(s, a, b)
  BY OrderPairs
<1>9. \A a, b \in T : <<a, b>> \in Order(t) <=> <<a, b>> \in Order(s) \cup ({k} \X S)
  BY <1>4, <1>5, <1>6, <1>7, <1>8
<1>10. Order(s) \cup ({k} \X S) \subseteq T \X T
  BY <1>8
<1>11. Order(t) = Order(s) \cup ({k} \X S)
  BY <1>7, <1>9, <1>10, SameRelation
<1> QED
  BY <1>11 DEF t

(* FirstAmong, as a relation R on keys gives it. *)
First(R, k, S) == (R \cap ((S \ {k}) \X (S \ {k}))) \cup ({k} \X (S \ {k}))

LEMMA MoveToFrontOrder ==
    ASSUME NEW s, NEW S, Lists(s, S), NEW k \in S
    PROVE  Order(MoveToFront(s, k)) = First(Order(s), k, S)
<1>1. Lists(Unlink(s, k), S \ {k}) /\ k \in Keys \ (S \ {k})
  <2>1. k \in Keys
    BY DEF Lists
  <2> QED
    BY <2>1, UnlinkLists
<1>2. Order(Unlink(s, k)) = Order(s) \cap ((S \ {k}) \X (S \ {k}))
  BY UnlinkOrder
<1> QED
  BY <1>1, <1>2, PushFrontOrder DEF MoveToFront, First

(* What cleanupExpired leaves keeps its order. *)
LEMMA SubsequenceOrder ==
    ASSUME NEW s, NEW S, Lists(s, S), NEW L \in SUBSET S, NEW t \in Subsequences(s, L)
    PROVE  Order(t) = Order(s) \cap (L \X L)
<1>1. Lists(t, L)
  BY SubsequenceLists
<1>2. Len(t) \in Nat /\ Len(s) \in Nat /\ L = {t[i] : i \in 1..Len(t)}
  BY <1>1 DEF Lists
<1>3. Len(t) = Cardinality(L)
  BY <1>1, ListLength
<1>4. \A i, j \in 1..Len(t) : i < j => Position(s, t[i]) < Position(s, t[j])
  BY <1>3 DEF Subsequences
<1>5. \A a \in L : Position(s, a) \in 1..Len(s) /\ s[Position(s, a)] = a
  BY PositionOfKey
<1>6. ASSUME NEW a \in L, NEW b \in L, Before(t, a, b)
      PROVE  Before(s, a, b)
  <2>1. PICK i, j \in 1..Len(t) : i < j /\ t[i] = a /\ t[j] = b
    BY <1>6 DEF Before
  <2>2. Position(s, a) < Position(s, b)
    BY <1>4, <2>1
  <2> QED
    BY <1>5, <2>2 DEF Before
<1>7. ASSUME NEW a \in L, NEW b \in L, Before(s, a, b)
      PROVE  Before(t, a, b)
  <2>1. PICK m, n \in 1..Len(s) : m < n /\ s[m] = a /\ s[n] = b
    BY <1>7 DEF Before
  <2>2. m = Position(s, a) /\ n = Position(s, b)
    BY <1>5, <2>1 DEF Lists
  <2>3. PICK i, j \in 1..Len(t) : t[i] = a /\ t[j] = b
    BY <1>2
  <2>4. ~(j < i) /\ i # j
    BY <1>2, <1>4, <2>1, <2>2, <2>3
  <2>5. i < j
    BY <1>2, <2>3, <2>4
  <2> QED
    BY <2>3, <2>5 DEF Before
<1>8. Order(t) \subseteq L \X L /\ \A a, b : <<a, b>> \in Order(t) <=> Before(t, a, b)
  BY <1>1, OrderPairs
<1>9. \A a, b : <<a, b>> \in Order(s) <=> Before(s, a, b)
  BY OrderPairs
<1>10. \A a, b \in L : <<a, b>> \in Order(t) <=> <<a, b>> \in Order(s) \cap (L \X L)
  BY <1>6, <1>7, <1>8, <1>9
<1> QED
  BY <1>8, <1>10, SameRelation

-----------------------------------------------------------------------------
(* Every step of the cache is a step RecencyCache promises.                *)
Pairs == {<<lru[ij[1]], lru[ij[2]]>> : ij \in {q \in (1..Len(lru)) \X (1..Len(lru)) : q[1] < q[2]}}

LEMMA PairsOfList == Pairs = Order(lru) /\ Pairs' = Order(lru')
BY DEF Pairs, Order

LEMMA HitIsPromised ==
    ASSUME Shape, NEW k \in Cached, entries[k].life >= 0, lru' = MoveToFront(lru, k),
           result' = Used(entries[k].value), UNCHANGED entries
    PROVE  Promise!Hit(k)
<1>1. Order(lru') = First(Order(lru), k, Cached)
  BY MoveToFrontOrder DEF Shape, ListMatchesMap
<1>2. Promise!FirstAmong(k, Promise!Held) = First(Pairs, k, Cached)
  BY DEF Promise!FirstAmong, Promise!Among, Promise!Held, First, Cached, Pairs
<1>3. Pairs' = Promise!FirstAmong(k, Promise!Held)
  BY <1>1, <1>2, PairsOfList
<1> QED
  BY <1>3 DEF Promise!Hit, Promise!Held, Promise!Answer, Used, Cached, Pairs

LEMMA RemovalIsPromised ==
    ASSUME Shape, NEW k \in Cached, RemoveEntry(k)
    PROVE  /\ entries' = Promise!Keep(Promise!Held \ {k})
           /\ Pairs' = Promise!Among(Promise!Held \ {k})
<1>1. Order(lru') = Order(lru) \cap ((Cached \ {k}) \X (Cached \ {k}))
  BY UnlinkOrder DEF Shape, ListMatchesMap, RemoveEntry
<1>2. entries' = Promise!Keep(Promise!Held \ {k})
  BY DEF RemoveEntry, Without, Promise!Keep, Promise!Held, Cached
<1>3. Promise!Among(Promise!Held \ {k}) = Pairs \cap ((Cached \ {k}) \X (Cached \ {k}))
  BY DEF Promise!Among, Promise!Held, Cached, Pairs
<1> QED
  BY <1>1, <1>2, <1>3, PairsOfList

LEMMA StayingIsKeeping ==
    ASSUME Shape
    PROVE  entries = Promise!Keep(Promise!Held) /\ Pairs = Promise!Among(Promise!Held)
<1>1. Order(lru) \subseteq Cached \X Cached
  BY OrderPairs DEF Shape, ListMatchesMap
<1>2. Promise!Among(Promise!Held) = Pairs \cap (Cached \X Cached)
  BY DEF Promise!Among, Promise!Held, Cached, Pairs
<1>3. entries = Promise!Keep(Promise!Held)
  BY DEF Shape, Promise!Keep, Promise!Held, Cached
<1> QED
  BY <1>1, <1>2, <1>3, PairsOfList

(* The last of a list comes after all the others. *)
LEMMA OldestIsLast ==
    ASSUME NEW s, NEW S, Lists(s, S), Len(s) > 0
    PROVE  Oldest(s) \in S /\ \A x \in S \ {Oldest(s)} : <<x, Oldest(s)>> \in Order(s)
<1>1. Len(s) \in Nat /\ S = {s[i] : i \in 1..Len(s)}
  BY DEF Lists
<1>2. Len(s) \in 1..Len(s) /\ Oldest(s) = s[Len(s)]
  BY <1>1 DEF Oldest
<1>3. ASSUME NEW x \in S \ {Oldest(s)}
      PROVE  <<x, Oldest(s)>> \in Order(s)
  <2>1. PICK i \in 1..Len(s) : s[i] = x
    BY <1>1
  <2>2. i < Len(s)
    BY <1>1, <1>2, <1>3, <2>1
  <2>3. Before(s, x, Oldest(s))
    BY <1>2, <2>1, <2>2 DEF Before
  <2> QED
    BY <2>3, OrderPairs
<1> QED
  BY <1>1, <1>2, <1>3

LEMMA LifeIsPositive ==
    ASSUME NEW ttl \in TTLs
    PROVE  LifeFor(ttl) \in 1..Forever
BY TTLAssumption DEF LifeFor, TTLs, Forever

(* Storing a key: it is the most recent, and what had to leave for it was  *)
(* the least recent.                                                       *)
LEMMA StoreIsPromised ==
    ASSUME Shape, NEW k \in Keys, NEW v \in Values, NEW ttl \in TTLs, Store(k, v, ttl),
           result' \in {result, Used(v)}
    PROVE  Promise!Store(k, v, LifeFor(ttl))
<1> DEFINE all == Cached \cup {k}
           order == Promise!FirstAmong(k, all)
           e == [value |-> v, life |-> LifeFor(ttl)]
           s == ListWith(k)
           d == Oldest(s)
           full == MaxSize > 0 /\ Cardinality(all) > MaxSize
<1>1. Lists(lru, Cached)
  BY DEF Shape, ListMatchesMap
<1>2. Lists(s, all) /\ Order(s) = order
  <2>1. order = First(Order(lru), k, all)
    BY PairsOfList DEF Promise!FirstAmong, Promise!Among, First, Pairs
  <2>2. CASE k \in Cached
    <3>1. s = MoveToFront(lru, k) /\ all = Cached
      BY <2>2 DEF ListWith, MoveToFront
    <3> HIDE DEF s, order
    <3> QED
      BY <1>1, <2>1, <2>2, <3>1, MoveToFrontLists, MoveToFrontOrder
  <2>3. CASE k \notin Cached
    <3>1. s = PushFront(lru, k)
      BY <2>3 DEF ListWith
    <3>2. Order(s) = Order(lru) \cup ({k} \X Cached)
      BY <1>1, <2>3, <3>1, PushFrontOrder
    <3>3. Order(lru) \subseteq Cached \X Cached /\ all \ {k} = Cached
      BY <1>1, <2>3, OrderPairs
    <3>4. Lists(s, all)
      BY <1>1, <2>3, <3>1, PushFrontLists
    <3> HIDE DEF s, order
    <3> QED
      BY <2>1, <3>2, <3>3, <3>4 DEF First
  <2> QED
    BY <2>2, <2>3
<1>3. Len(s) \in Nat /\ Cardinality(all) = Len(s) /\ s[1] = k /\ (\A i, j \in 1..Len(s) : s[i] = s[j] => i = j)
  <2>1. s[1] = k
    BY <1>1, UnlinkLists DEF ListWith, PushFront, Lists
  <2>2. Len(s) \in Nat /\ (\A i, j \in 1..Len(s) : s[i] = s[j] => i = j)
    BY <1>2 DEF Lists
  <2>3. Cardinality(all) = Len(s)
    BY <1>2, ListLength
  <2> QED
    BY <2>1, <2>2, <2>3
<1>4. OverCapacity(s) <=> full
  BY <1>3 DEF OverCapacity
<1>5. /\ OverCapacity(s) => lru' = Unlink(s, d) /\ entries' = Without(With(entries, k, e), d)
      /\ ~OverCapacity(s) => lru' = s /\ entries' = With(entries, k, e)
  BY DEF Store
<1>6. result' \in {result, Promise!Answer(v, TRUE)}
  BY DEF Used, Promise!Answer
<1>7. Promise!Held = Cached
  BY DEF Promise!Held, Cached
<1> DEFINE Stored(S) == [x \in S |-> IF x = k THEN e ELSE entries[x]]
           Made(S) == /\ entries' = Stored(S)
                      /\ Pairs' = order \cap (S \X S)
           Leaves(S) == IF full THEN \E x \in all \ {k} : S = all \ {x} /\ \A y \in S : <<y, x>> \in order
                                ELSE S = all
<1>8. Promise!Cardinality(all) = Cardinality(all)
  BY Zenon DEF Promise!Cardinality, Cardinality
<1>9. ASSUME NEW S \in SUBSET all, Leaves(S), Made(S)
       PROVE  Promise!Store(k, v, LifeFor(ttl))
  BY <1>6, <1>7, <1>9, <1>8, Zenon DEF Promise!Store, Pairs
<1>10. CASE full
  <2>1. d \in all /\ \A x \in all \ {d} : <<x, d>> \in order
    BY <1>2, <1>3, <1>10, SizeAssumption, OldestIsLast
  <2>2. d # k
    <3>1. Len(s) > 1 /\ d = s[Len(s)]
      BY <1>3, <1>10, SizeAssumption DEF Oldest
    <3>2. 1 \in 1..Len(s) /\ Len(s) \in 1..Len(s) /\ Len(s) # 1
      BY <1>3, <3>1
    <3>3. s[Len(s)] # s[1]
      BY <1>3, <3>2
    <3> QED
      BY <1>3, <3>1, <3>3
  <2>3. lru' = Unlink(s, d) /\ entries' = Without(With(entries, k, e), d)
    BY <1>4, <1>5, <1>10
  <2>4. Order(Unlink(s, d)) = Order(s) \cap ((all \ {d}) \X (all \ {d}))
    BY <1>2, <2>1, UnlinkOrder
  <2>5. Pairs' = order \cap ((all \ {d}) \X (all \ {d}))
    BY <1>2, <2>3, <2>4, PairsOfList
  <2>6. entries' = Stored(all \ {d})
    <3>1. With(entries, k, e) = [x \in all |-> IF x = k THEN e ELSE entries[x]]
      BY DEF With, Cached
    <3> QED
      BY <2>3, <3>1 DEF Without
  <2> DEFINE S == all \ {d}
  <2>7. Made(S) /\ S \in SUBSET all
    BY <2>5, <2>6
  <2>8. Leaves(S)
    BY <1>10, <2>1, <2>2
  <2> HIDE DEF Made, Leaves, S
  <2> QED
    BY <1>9, <2>7, <2>8
<1>11. CASE ~full
  <2>1. lru' = s /\ entries' = With(entries, k, e)
    BY <1>4, <1>5, <1>11
  <2>2. order \subseteq all \X all
    BY <1>2, OrderPairs
  <2>3. Pairs' = order \cap (all \X all)
    BY <1>2, <2>1, <2>2, PairsOfList
  <2>4. entries' = Stored(all)
    BY <2>1 DEF With, Cached
  <2>5. Made(all) /\ Leaves(all) /\ all \in SUBSET all
    BY <1>11, <2>3, <2>4
  <2> HIDE DEF Made, Leaves
  <2> QED
    BY <1>9, <2>5
<1> QED
  BY <1>10, <1>11

LEMMA StepIsPromised ==
    ASSUME Inv, [Next]_vars
    PROVE  [Promise!Next]_(Promise!avars)
<1>1. Shape
  BY DEF Inv, TypeOK, Shape
<1>2. entries = Promise!Keep(Promise!Held) /\ Pairs = Promise!Among(Promise!Held) /\ Promise!Held = Cached
  BY <1>1, StayingIsKeeping DEF Promise!Held, Cached
<1>3. ASSUME UNCHANGED <<entries, lru, result>>
      PROVE  [Promise!Next]_(Promise!avars)
  <2>1. Pairs' = Pairs
    BY <1>3 DEF Pairs
  <2> QED
    BY <1>3, <2>1 DEF Promise!avars, Pairs
<1>4. \A j \in Cached : j \in Keys /\ entries[j].life \in Lives
  BY <1>1 DEF Shape
<1>5. \A j \in Cached : /\ Expired(entries[j]) => entries[j].life < 0
                        /\ ~Expired(entries[j]) => entries[j].life >= 0
                        /\ StillValid(entries[j]) => entries[j].life >= 0
  BY <1>4, TTLAssumption DEF Expired, StillValid, Lives, Past, Forever
<1>6. Nothing = Promise!Nothing
  BY DEF Nothing, Promise!Nothing, Promise!Answer
<1>7. ASSUME NEW k \in Keys, Promise!Hit(k) \/ Promise!Look(k) \/ Promise!Miss(k)
      PROVE  Promise!Next
  BY <1>7 DEF Promise!Next
<1>8. ASSUME NEW k \in Keys, NEW v \in Values, NEW ttl \in TTLs, Store(k, v, ttl), result' \in {result, Used(v)}
      PROVE  Promise!Next
  BY <1>1, <1>8, StoreIsPromised, LifeIsPositive DEF Promise!Next
<1>9. ASSUME NEW k \in Cached, RemoveEntry(k), UNCHANGED result
      PROVE  Promise!Next
  <2>1. Promise!Drop({k})
    BY <1>1, <1>9, RemovalIsPromised DEF Promise!Drop, Pairs
  <2>2. {k} \in SUBSET Promise!Held
    BY <1>2
  <2> QED
    BY <2>1, <2>2 DEF Promise!Next
<1>10. ASSUME NEW k \in Keys, Get(k) PROVE Promise!Next
  <2>1. CASE k \notin Cached
    <3>1. UNCHANGED <<entries, lru>> /\ result' = Nothing
      BY <1>10, <2>1 DEF Get
    <3>2. entries' = Promise!Keep(Promise!Held) /\ Pairs' = Promise!Among(Promise!Held)
      <4>1. Pairs' = Pairs
        BY <3>1 DEF Pairs
      <4> QED
        BY <1>2, <3>1, <4>1
    <3>3. Promise!Miss(k)
      BY <1>2, <1>6, <2>1, <3>1, <3>2 DEF Promise!Miss, Pairs
    <3> QED
      BY <1>7, <3>3
  <2>2. CASE k \in Cached /\ Expired(entries[k])
    <3>1. RemoveEntry(k) /\ result' = Nothing
      BY <1>10, <2>2 DEF Get
    <3>2. Promise!Miss(k)
      BY <1>1, <1>2, <1>5, <1>6, <2>2, <3>1, RemovalIsPromised DEF Promise!Miss, Pairs
    <3> QED
      BY <1>7, <3>2
  <2>3. CASE k \in Cached /\ ~Expired(entries[k])
    <3>1. Promise!Hit(k)
      BY <1>1, <1>5, <1>10, <2>3, HitIsPromised DEF Get
    <3> QED
      BY <1>7, <3>1
  <2> QED
    BY <2>1, <2>2, <2>3
<1>11. ASSUME NEW k \in Keys, Peek(k) PROVE Promise!Next
  <2>1. entries' = entries /\ lru' = lru /\ Pairs' = Pairs
    BY <1>11 DEF Peek, Pairs
  <2>2. CASE k \in Cached /\ ~Expired(entries[k])
    <3>1. result' = Promise!Answer(entries[k].value, FALSE)
      BY <1>11, <2>2 DEF Peek, Seen, Promise!Answer
    <3>2. Promise!Look(k)
      BY <1>2, <1>5, <2>1, <2>2, <3>1 DEF Promise!Look, Pairs
    <3> QED
      BY <1>7, <3>2
  <2>3. CASE ~(k \in Cached /\ ~Expired(entries[k]))
    <3>1. result' = Nothing
      BY <1>11, <2>3 DEF Peek
    <3>2. k \in Cached => entries[k].life < 0
      BY <1>5, <2>3
    <3>3. Promise!Miss(k)
      BY <1>2, <1>6, <2>1, <3>1, <3>2 DEF Promise!Miss, Pairs
    <3> QED
      BY <1>7, <3>3
  <2> QED
    BY <2>2, <2>3
<1>12. ASSUME NEW k \in Keys, Delete(k) PROVE [Promise!Next]_(Promise!avars)
  BY <1>3, <1>9, <1>12 DEF Delete
<1>13. ASSUME NEW k \in Keys, NEW v \in Values, NEW ttl \in TTLs, Set(k, v, ttl) PROVE Promise!Next
  BY <1>8, <1>13 DEF Set
<1>14. ASSUME NEW k \in Keys, NEW v \in Values, NEW ttl \in TTLs, GetOrSet(k, v, ttl) PROVE Promise!Next
  <2>1. CASE k \in Cached /\ StillValid(entries[k])
    <3>1. Promise!Hit(k)
      BY <1>1, <1>5, <1>14, <2>1, HitIsPromised DEF GetOrSet
    <3> QED
      BY <1>7, <3>1
  <2>2. CASE ~(k \in Cached /\ StillValid(entries[k]))
    BY <1>8, <1>14, <2>2 DEF GetOrSet
  <2> QED
    BY <2>1, <2>2
<1>15. ASSUME NEW c \in Clients, NEW k \in Keys, NEW ttl \in TTLs, GetWithLoader(c, k, ttl)
       PROVE  [Promise!Next]_(Promise!avars)
  <2>1. CASE k \in Cached /\ StillValid(entries[k])
    <3>1. Promise!Hit(k)
      BY <1>1, <1>5, <1>15, <2>1, HitIsPromised DEF GetWithLoader
    <3> QED
      BY <1>7, <3>1
  <2>2. CASE ~(k \in Cached /\ StillValid(entries[k]))
    <3>1. (IF k \in Cached THEN RemoveEntry(k) ELSE UNCHANGED <<entries, lru>>) /\ UNCHANGED result
      BY <1>15, <2>2 DEF GetWithLoader
    <3> QED
      BY <1>3, <1>9, <3>1
  <2> QED
    BY <2>1, <2>2
<1>16. ASSUME NEW c \in Clients, NEW v \in Values, LoaderDone(c, v) PROVE Promise!Next
  <2>1. loading[c].key \in Keys /\ loading[c].ttl \in TTLs
    BY <1>16 DEF LoaderDone, Inv, TypeOK
  <2> QED
    BY <1>8, <1>16, <2>1 DEF LoaderDone
<1>17. ASSUME NEW c \in Clients, LoaderFailed(c) PROVE Promise!Next
  <2>1. Pairs' = Pairs
    BY <1>17 DEF LoaderFailed, Pairs
  <2>2. Promise!Fail
    BY <1>6, <1>17, <2>1 DEF LoaderFailed, Promise!Fail, Pairs
  <2> QED
    BY <2>2 DEF Promise!Next
<1>18. CASE Clear
  <2>1. Pairs' = {} /\ entries' = << >>
    <3>1. Len(lru') = 0 /\ entries' = << >>
      BY <1>18 DEF Clear
    <3> QED
      BY <3>1 DEF Pairs
  <2>2. Promise!Keep(Promise!Held \ Promise!Held) = << >>
    BY DEF Promise!Keep
  <2>3. Promise!Among(Promise!Held \ Promise!Held) = {}
    BY DEF Promise!Among
  <2>4. ASSUME NEW S, S = Promise!Held
        PROVE  Promise!Next
    <3>1. Promise!Drop(S)
      BY <1>18, <2>1, <2>2, <2>3, <2>4 DEF Clear, Promise!Drop, Pairs
    <3> QED
      BY <2>4, <3>1 DEF Promise!Next
  <2> QED
    BY <2>4
<1>19. CASE CleanupExpired
  <2> DEFINE live == {k \in Cached : ~Expired(entries[k])}
             dead == Cached \ live
  <2>1. entries' = [k \in live |-> entries[k]] /\ lru' \in Subsequences(lru, live) /\ UNCHANGED result
    BY <1>19 DEF CleanupExpired
  <2>2. live \in SUBSET Cached /\ Cached \ dead = live /\ dead \in SUBSET Cached
    OBVIOUS
  <2> HIDE DEF live, dead
  <2>3. Order(lru') = Order(lru) \cap (live \X live)
    BY <1>1, <2>1, <2>2, SubsequenceOrder DEF Shape, ListMatchesMap
  <2>4. Pairs' = Promise!Among(Promise!Held \ dead)
    BY <1>2, <2>2, <2>3, PairsOfList DEF Promise!Among, Pairs
  <2>5. entries' = Promise!Keep(Promise!Held \ dead)
    BY <1>2, <2>1, <2>2 DEF Promise!Keep
  <2>6. ASSUME NEW S, S = dead
        PROVE  Promise!Next
    <3>1. Promise!Drop(S)
      BY <2>1, <2>4, <2>5, <2>6 DEF Promise!Drop, Pairs
    <3> QED
      BY <1>2, <2>2, <2>6, <3>1 DEF Promise!Next
  <2> QED
    BY <2>6
<1>20. CASE Tick
  <2>1. Pairs' = Pairs
    BY <1>20 DEF Tick, Pairs
  <2>2. Promise!Age
    BY <1>20, <2>1 DEF Tick, Promise!Age, Promise!Held, Cached, Past, Pairs
  <2> QED
    BY <2>2 DEF Promise!Next
<1>21. Stop \/ UNCHANGED vars => UNCHANGED <<entries, lru, result>>
  BY DEF Stop, vars
<1> QED
  BY <1>3, <1>10, <1>11, <1>12, <1>13, <1>14, <1>15, <1>16, <1>17, <1>18, <1>19, <1>20, <1>21 DEF Next

(* The cache keeps the promise of RecencyCache (cache.go:140, 195, 235,    *)
(* 309): whatever operations follow each other and wherever the two halves *)
(* of a GetWithLoader fall, every step is a hit, a look, a miss, a store   *)
(* that evicts the least recent key at most, a drop or the passing of time.*)
THEOREM CacheKeepsPromise == Spec => KeepsPromise
<1>1. Init => Promise!Init
  <2>1. Init => Pairs = {}
    BY DEF Init, Pairs
  <2>2. Init => entries = << >> /\ result = Nothing
    BY DEF Init
  <2>3. Nothing = Promise!Nothing
    BY DEF Nothing, Promise!Nothing, Promise!Answer
  <2> QED
    BY <2>1, <2>2, <2>3 DEF Promise!Init, Pairs
<1>2. Spec => []Inv
  BY CacheStaysConsistent, PTL DEF Inv
<1>3. Inv /\ [Next]_vars => [Promise!Next]_(Promise!avars)
  BY StepIsPromised
<1> QED
  BY <1>1, <1>2, <1>3, PTL DEF Spec, KeepsPromise, Promise!Spec

-----------------------------------------------------------------------------
(***************************************************************************)
(* Tidal's metadata cache.  Only the types of its tiers and the request's  *)
(* documents have to be carried along: a store puts its document in front  *)
(* of the three tiers, the swap and the commit move one tier's documents to*)
(* the next, and whatever else takes a document away changes `latest' too. *)
(***************************************************************************)
RequestSteps == {"idle", "lru", "recheck", "refresh", "pending", "disk", "warm", "api", "store", "buffer", "done"}
ToStore == [key : Tidal!Cacheable, doc : Tidal!Docs]
TidalRequests == [at : RequestSteps, op : Tidal!Ops \cup {"none"}, key : Tidal!Cacheable \cup {Zero},
                  doc : Tidal!Slot, todo : Seq(ToStore)]

TiersTyped ==
    /\ memory \in [Tidal!Cacheable -> Tidal!Slot] /\ pending \in [Tidal!Cacheable -> Tidal!Slot]
    /\ batch \in [Tidal!Cacheable -> Tidal!Slot] /\ disk \in [Tidal!Cacheable -> Tidal!Slot]
CatalogTyped == catalog \in [Tidal!Cacheable -> 0..MaxVersion] /\ era \in 0..MaxClears

(* What a request has in hand.  An answer to GetAlbumInfo has its items.   *)
Sensible(r) ==
    /\ r \in TidalRequests
    /\ r.at \notin {"idle", "done"} => r.key \in Tidal!Cacheable
    /\ r.at \in {"store", "buffer"} => r.todo # << >>
    /\ r.at \in {"recheck", "refresh", "warm"} => r.doc # Zero
    /\ r.at \in {"recheck", "refresh"} => r.op = "track"
    /\ r.op = "album" /\ r.at \in {"warm", "store", "buffer", "done"} /\ r.doc # Zero => r.doc.full

ClientsOk == DOMAIN client = Requests /\ \A c \in Requests : Sensible(client[c])

TidalTiers == TiersTyped /\ CatalogTyped /\ Tidal!NothingBufferedIsLost
TidalInv == TidalTiers /\ ClientsOk

-----------------------------------------------------------------------------
LEMMA SeqOfSubset ==
    ASSUME NEW s \in Seq(Tracks)
    PROVE  s \in Seq(Tidal!Cacheable)
<1>1. \A i \in 1..Len(s) : s[i] \in Tidal!Cacheable
  BY DEF Tidal!Cacheable
<1> QED
  BY <1>1, SeqDef

(* An album's items, in the order they are cached in.                      *)
LEMMA ItemsAreTracks ==
    ASSUME Tidal!KeysAssumption, NEW k, NEW full
    PROVE  Tidal!ItemsOf(k, full) \in Seq(Tracks)
<1>0. IsFiniteSet(Tracks)
  BY DEF Tidal!KeysAssumption, Tidal!IsFiniteSet, IsFiniteSet
<1>1. Cardinality(Tracks) \in Nat /\ Bijection(1..Cardinality(Tracks), Tracks) # {}
  BY <1>0, FS_CardinalityType DEF ExistsBijection
<1>4. Tidal!Cardinality(Tracks) = Cardinality(Tracks)
  BY DEF Tidal!Cardinality, Cardinality
<1>2. PICK f \in [1..Cardinality(Tracks) -> Tracks] : IsInjective(f)
  BY <1>1 DEF Bijection, Injection, Surjection
<1>3. Tidal!SetToSeq(Tracks) \in [1..Cardinality(Tracks) -> Tracks]
  BY <1>2, <1>4 DEF Tidal!SetToSeq, Tidal!IsInjective, IsInjective
<1> QED
  BY <1>1, <1>3 DEF Tidal!ItemsOf

LEMMA FetchedIsADoc ==
    ASSUME Tidal!KeysAssumption, CatalogTyped, NEW k \in Tidal!Cacheable, NEW full \in BOOLEAN
    PROVE  Tidal!Fetched(k, full) \in Tidal!Docs /\ Tidal!Fetched(k, full) # Zero /\ Tidal!Fetched(k, full).full = full
BY DEF Tidal!Fetched, CatalogTyped, Tidal!Docs, Tidal!KeysAssumption

-----------------------------------------------------------------------------
(* Requests                                                                *)

LEMMA RestOfEntries ==
    ASSUME NEW s \in Seq(ToStore), s # << >>, Len(s) # 1
    PROVE  Tail(s) \in Seq(ToStore) /\ Tail(s) # << >>
<1> DEFINE n == Len(s)
           m == Len(Tail(s))
<1>1. n \in Nat \ {0}
  BY EmptySeq, Zenon
<1>2. Tail(s) \in Seq(ToStore) /\ m = n - 1
  BY HeadTailProperties
<1> HIDE DEF n, m
<1>3. m # 0
  <2>1. n # 1
    BY DEF n
  <2> QED
    BY <1>1, <1>2, <2>1
<1>4. Tail(s) # << >>
  BY <1>3, EmptySeq DEF m
<1> QED
  BY <1>2, <1>4

LEMMA IdleIsSensible == Sensible(Tidal!Idle)
BY EmptySeq DEF Sensible, Tidal!Idle, TidalRequests, RequestSteps, Tidal!Slot, Tidal!Ops

LEMMA OneCallChanges ==
    ASSUME ClientsOk, NEW c \in Requests, NEW r, client' = [client EXCEPT ![c] = r], Sensible(r)
    PROVE  ClientsOk'
BY DEF ClientsOk

LEMMA GoesTo ==
    ASSUME ClientsOk, NEW c \in Requests, NEW step \in RequestSteps \ {"idle", "done"}, NEW doc \in Tidal!Slot,
           Tidal!Goto(c, step, doc),
           client[c].key \in Tidal!Cacheable,
           step \in {"store", "buffer"} => client[c].todo # << >>,
           step \in {"recheck", "refresh", "warm"} => doc # Zero,
           step \in {"recheck", "refresh"} => client[c].op = "track",
           client[c].op = "album" /\ step \in {"warm", "store", "buffer"} /\ doc # Zero => doc.full
    PROVE  ClientsOk'
<1> DEFINE r == [client[c] EXCEPT !.at = step, !.doc = doc]
<1>1. client[c] \in TidalRequests
  BY DEF ClientsOk, Sensible
<1>2. /\ r \in TidalRequests /\ r.at = step /\ r.doc = doc
      /\ r.key = client[c].key /\ r.todo = client[c].todo /\ r.op = client[c].op
  BY <1>1 DEF TidalRequests
<1>3. Sensible(r)
  BY <1>2 DEF Sensible
<1>4. client' = [client EXCEPT ![c] = r]
  BY DEF Tidal!Goto
<1> QED
  BY <1>3, <1>4, OneCallChanges

LEMMA Replies ==
    ASSUME ClientsOk, NEW c \in Requests, NEW doc \in Tidal!Slot, Tidal!Reply(c, doc),
           client[c].op = "album" /\ doc # Zero => doc.full
    PROVE  ClientsOk'
<1> DEFINE r == [Tidal!Idle EXCEPT !.at = "done", !.op = client[c].op, !.doc = doc]
<1>1. client[c].op \in Tidal!Ops \cup {"none"}
  BY DEF ClientsOk, Sensible, TidalRequests
<1>2. Tidal!Idle \in TidalRequests
  BY IdleIsSensible DEF Sensible
<1>3. r \in TidalRequests /\ r.at = "done" /\ r.op = client[c].op /\ r.doc = doc
  BY <1>1, <1>2 DEF TidalRequests, RequestSteps
<1>5. Sensible(r)
  BY <1>3 DEF Sensible
<1>4. client' = [client EXCEPT ![c] = r]
  BY DEF Tidal!Reply
<1> QED
  BY <1>4, <1>5, OneCallChanges

LEMMA StepClients ==
    ASSUME Tidal!KeysAssumption, TidalInv, TidalTiers, Tidal!Next
    PROVE  ClientsOk'
<1> USE DEF Tidal!At
<1>0. /\ ClientsOk /\ \A c \in Requests : Sensible(client[c]) /\ client[c] \in TidalRequests
      /\ \A k \in Tidal!Cacheable : memory[k] \in Tidal!Slot /\ pending[k] \in Tidal!Slot /\ disk[k] \in Tidal!Slot
      /\ Zero \in Tidal!Slot
  BY DEF TidalInv, TidalTiers, ClientsOk, Sensible, TiersTyped, Tidal!Slot
<1>1. ASSUME NEW c \in Requests, NEW op \in Tidal!Ops \ {"listing"}, NEW k \in Tidal!Cacheable, Tidal!Start(c, op, k)
      PROVE  ClientsOk'
  <2> DEFINE r == [Tidal!Idle EXCEPT !.at = "lru", !.op = op, !.key = k]
  <2>1. r \in TidalRequests /\ r.at = "lru" /\ r.key = k
    <3>1. Tidal!Idle \in TidalRequests
      BY IdleIsSensible DEF Sensible
    <3> QED
      BY <3>1 DEF TidalRequests, RequestSteps
  <2>2. Sensible(r)
    BY <2>1 DEF Sensible
  <2> QED
    BY <1>0, <1>1, <2>2, OneCallChanges DEF Tidal!Start
<1>2. ASSUME NEW c \in Requests, Tidal!CheckLRU(c) PROVE ClientsOk'
  <2> DEFINE r == client[c]
  <2>1. r.key \in Tidal!Cacheable /\ memory[r.key] \in Tidal!Slot
    BY <1>0, <1>2 DEF Tidal!CheckLRU, Sensible
  <2>2. CASE Tidal!Complete(r.op, memory[r.key]) /\ r.op = "track"
    <3>1. Tidal!Goto(c, "recheck", memory[r.key]) /\ memory[r.key] # Zero
      BY <1>2, <2>2 DEF Tidal!CheckLRU, Tidal!Complete
    <3> QED
      BY <1>0, <2>1, <2>2, <3>1, GoesTo DEF RequestSteps
  <2>3. CASE Tidal!Complete(r.op, memory[r.key]) /\ r.op # "track"
    <3>1. Tidal!Reply(c, memory[r.key]) /\ (r.op = "album" => memory[r.key].full)
      BY <1>2, <2>3 DEF Tidal!CheckLRU, Tidal!Complete
    <3> QED
      BY <1>0, <2>1, <3>1, Replies
  <2>4. CASE ~Tidal!Complete(r.op, memory[r.key])
    <3>1. PICK step \in {"disk", "pending"} : Tidal!Goto(c, step, Zero)
      BY <1>2, <2>4 DEF Tidal!CheckLRU
    <3> QED
      BY <1>0, <2>1, <3>1, GoesTo DEF RequestSteps
  <2> QED
    BY <2>2, <2>3, <2>4
<1>3. ASSUME NEW c \in Requests, Tidal!Recheck(c) PROVE ClientsOk'
  <2>1. client[c].key \in Tidal!Cacheable /\ client[c].op = "track" /\ client[c].doc \in Tidal!Slot
    BY <1>0, <1>3 DEF Tidal!Recheck, Sensible, TidalRequests
  <2>2. CASE pending[client[c].key] # Zero
    BY <1>0, <1>3, <2>1, <2>2, GoesTo DEF Tidal!Recheck, RequestSteps
  <2>3. CASE pending[client[c].key] = Zero
    BY <1>0, <1>3, <2>1, <2>3, Replies DEF Tidal!Recheck
  <2> QED
    BY <2>2, <2>3
<1>4. ASSUME NEW c \in Requests, Tidal!Refresh(c) \/ Tidal!Warm(c) PROVE ClientsOk'
  <2>1. client[c].doc \in Tidal!Slot /\ (client[c].op = "album" => client[c].doc.full) /\ Tidal!Reply(c, client[c].doc)
    BY <1>0, <1>4 DEF Tidal!Refresh, Tidal!Warm, Sensible, TidalRequests
  <2> QED
    BY <1>0, <2>1, Replies
<1>5. ASSUME NEW c \in Requests, Tidal!CheckPending(c) PROVE ClientsOk'
  <2> DEFINE r == client[c]
  <2>1. r.key \in Tidal!Cacheable /\ pending[r.key] \in Tidal!Slot
    BY <1>0, <1>5 DEF Tidal!CheckPending, Sensible
  <2>2. CASE Tidal!Complete(r.op, pending[r.key])
    <3>1. Tidal!Reply(c, pending[r.key]) /\ (r.op = "album" => pending[r.key].full)
      BY <1>5, <2>2 DEF Tidal!CheckPending, Tidal!Complete
    <3> QED
      BY <1>0, <2>1, <3>1, Replies
  <2>3. CASE ~Tidal!Complete(r.op, pending[r.key])
    <3>1. Tidal!Goto(c, "disk", Zero)
      BY <1>5, <2>3 DEF Tidal!CheckPending
    <3> QED
      BY <1>0, <2>1, <3>1, GoesTo DEF RequestSteps
  <2> QED
    BY <2>2, <2>3
<1>6. ASSUME NEW c \in Requests, Tidal!CheckDisk(c) PROVE ClientsOk'
  <2> DEFINE r == client[c]
  <2>1. r.key \in Tidal!Cacheable /\ disk[r.key] \in Tidal!Slot
    BY <1>0, <1>6 DEF Tidal!CheckDisk, Sensible
  <2>2. CASE Tidal!Complete(r.op, disk[r.key])
    <3>1. Tidal!Goto(c, "warm", disk[r.key]) /\ disk[r.key] # Zero /\ (r.op = "album" => disk[r.key].full)
      BY <1>6, <2>2 DEF Tidal!CheckDisk, Tidal!Complete
    <3> QED
      BY <1>0, <2>1, <3>1, GoesTo DEF RequestSteps
  <2>3. CASE ~Tidal!Complete(r.op, disk[r.key]) /\ r.op = "backfill"
    <3>1. Tidal!Reply(c, Zero)
      BY <1>6, <2>3 DEF Tidal!CheckDisk
    <3> QED
      BY <1>0, <3>1, Replies
  <2>4. CASE ~Tidal!Complete(r.op, disk[r.key]) /\ r.op # "backfill"
    <3>1. Tidal!Goto(c, "api", Zero)
      BY <1>6, <2>4 DEF Tidal!CheckDisk
    <3> QED
      BY <1>0, <2>1, <3>1, GoesTo DEF RequestSteps
  <2> QED
    BY <2>2, <2>3, <2>4
<1>7. ASSUME NEW c \in Requests, Tidal!Fetch(c) PROVE ClientsOk'
  <2> DEFINE k == client[c].key
             items == Tidal!ItemsOf(k, TRUE)
             docs == [i \in 1..Len(items) |-> [key |-> items[i], doc |-> Tidal!Fetched(items[i], TRUE)]]
             whole == [key |-> k, doc |-> Tidal!Fetched(k, TRUE)]
             r == [client[c] EXCEPT !.at = "store", !.doc = Tidal!Fetched(k, TRUE), !.todo = Append(docs, whole)]
  <2>1. k \in Tidal!Cacheable /\ client[c] \in TidalRequests
    BY <1>0, <1>7 DEF Tidal!Fetch, Sensible
  <2>2. items \in Seq(Tidal!Cacheable)
    <3>1. items \in Seq(Tracks)
      BY ItemsAreTracks
    <3> QED
      BY <3>1, SeqOfSubset
  <2>3. docs \in Seq(ToStore)
    <3> HIDE DEF items
    <3>1. \A i \in 1..Len(items) : items[i] \in Tidal!Cacheable
      BY <2>2
    <3>2. \A i \in 1..Len(items) : Tidal!Fetched(items[i], TRUE) \in Tidal!Docs
      BY <3>1, FetchedIsADoc DEF TidalInv, TidalTiers
    <3>3. \A i \in 1..Len(items) : docs[i] \in ToStore
      BY <3>1, <3>2 DEF ToStore
    <3>4. Len(items) \in Nat
      BY <2>2
    <3>5. docs \in [1..Len(items) -> ToStore]
      BY <3>3
    <3> HIDE DEF docs
    <3> QED
      BY <3>4, <3>5
  <2>4. whole \in ToStore /\ Tidal!Fetched(k, TRUE) \in Tidal!Slot /\ Tidal!Fetched(k, TRUE).full
    BY <2>1, FetchedIsADoc DEF TidalInv, TidalTiers, ToStore, Tidal!Slot
  <2>5. Append(docs, whole) \in Seq(ToStore) /\ Append(docs, whole) # << >>
    <3> HIDE DEF docs, whole
    <3>1. Len(Append(docs, whole)) = Len(docs) + 1 /\ Len(docs) \in Nat
      BY <2>3, <2>4
    <3> QED
      BY <2>3, <2>4, <3>1
  <2>6. Sensible(r)
    <3> DEFINE todo == Append(docs, whole)
               doc == Tidal!Fetched(k, TRUE)
    <3> HIDE DEF todo, doc
    <3>1. doc \in Tidal!Slot /\ doc.full /\ todo \in Seq(ToStore) /\ todo # << >>
      BY <2>4, <2>5 DEF doc, todo
    <3>2. r = [client[c] EXCEPT !.at = "store", !.doc = doc, !.todo = todo]
      BY DEF doc, todo
    <3> HIDE DEF r
    <3>3. r \in TidalRequests /\ r.at = "store" /\ r.key = k /\ r.doc = doc /\ r.todo = todo
      BY <2>1, <3>1, <3>2 DEF TidalRequests, RequestSteps
    <3> QED
      BY <2>1, <3>1, <3>3 DEF Sensible
  <2>7. client' = [client EXCEPT ![c] = r]
    BY <1>7 DEF Tidal!Fetch
  <2> HIDE DEF r
  <2> QED
    BY <1>0, <2>6, <2>7, OneCallChanges
<1>8. ASSUME NEW c \in Requests, Tidal!FetchFails(c) PROVE ClientsOk'
  BY <1>0, <1>8, Replies DEF Tidal!FetchFails
<1>9. ASSUME NEW c \in Requests, NEW k \in Tidal!Cacheable, Tidal!Listing(c, k) PROVE ClientsOk'
  <2> DEFINE doc == Tidal!Fetched(k, k \in Tracks)
             r == [at |-> "store", op |-> "listing", key |-> k, doc |-> doc, todo |-> <<[key |-> k, doc |-> doc]>>]
  <2>1. doc \in Tidal!Docs
    <3>1. (k \in Tracks) \in BOOLEAN
      OBVIOUS
    <3> QED
      BY <3>1, FetchedIsADoc DEF TidalInv, TidalTiers
  <2>2. client' = [client EXCEPT ![c] = r]
    BY <1>9 DEF Tidal!Listing
  <2> HIDE DEF doc
  <2>3. Sensible(r)
    <3>1. [key |-> k, doc |-> doc] \in ToStore
      BY <2>1 DEF ToStore
    <3>2. <<[key |-> k, doc |-> doc]>> \in Seq(ToStore) /\ <<[key |-> k, doc |-> doc]>> # << >>
      BY <3>1
    <3> QED
      BY <2>1, <3>2 DEF Sensible, TidalRequests, RequestSteps, Tidal!Ops, Tidal!Slot
  <2> QED
    BY <1>0, <2>2, <2>3, OneCallChanges
<1>10. ASSUME NEW c \in Requests, Tidal!StoreLRU(c) PROVE ClientsOk'
  <2>1. /\ client[c].key \in Tidal!Cacheable /\ client[c].todo # << >> /\ client[c].doc \in Tidal!Slot
        /\ client[c].op = "album" /\ client[c].doc # Zero => client[c].doc.full
    BY <1>0, <1>10 DEF Tidal!StoreLRU, Sensible, TidalRequests
  <2>2. Tidal!Goto(c, "buffer", client[c].doc)
    BY <1>10 DEF Tidal!StoreLRU
  <2> QED
    BY <1>0, <2>1, <2>2, GoesTo DEF RequestSteps
<1>11. ASSUME NEW c \in Requests, Tidal!StorePending(c) PROVE ClientsOk'
  <2> DEFINE r == client[c]
  <2>1. /\ r \in TidalRequests /\ r.key \in Tidal!Cacheable /\ r.doc \in Tidal!Slot
        /\ r.todo # << >> /\ r.todo \in Seq(ToStore)
        /\ r.op = "album" /\ r.doc # Zero => r.doc.full
    BY <1>0, <1>11 DEF Tidal!StorePending, Sensible, TidalRequests
  <2>2. CASE Len(r.todo) = 1
    BY <1>0, <1>11, <2>1, <2>2, Replies DEF Tidal!StorePending
  <2>3. CASE Len(r.todo) # 1
    <3> DEFINE n == [r EXCEPT !.at = "store", !.todo = Tail(@)]
    <3>1. Tail(r.todo) \in Seq(ToStore) /\ Tail(r.todo) # << >>
      BY <2>1, <2>3, RestOfEntries
    <3>2. n = [r EXCEPT !.at = "store", !.todo = Tail(r.todo)]
      OBVIOUS
    <3> DEFINE rest == Tail(r.todo)
    <3> HIDE DEF rest, r
    <3>5. n \in TidalRequests /\ n.at = "store" /\ n.op = r.op /\ n.key = r.key /\ n.doc = r.doc /\ n.todo = rest
      BY <2>1, <3>1, <3>2 DEF TidalRequests, RequestSteps, rest
    <3>3. Sensible(n)
      BY <2>1, <3>1, <3>5 DEF Sensible, rest
    <3>4. client' = [client EXCEPT ![c] = n]
      BY <1>11, <2>3, Zenon DEF Tidal!StorePending, r
    <3> HIDE DEF n
    <3> QED
      BY <1>0, <3>3, <3>4, OneCallChanges
  <2> QED
    BY <2>2, <2>3
<1>12. ASSUME NEW c \in Requests, Tidal!Return(c) PROVE ClientsOk'
  BY <1>0, <1>12, IdleIsSensible, OneCallChanges DEF Tidal!Return
<1>13. ASSUME Tidal!Crash PROVE ClientsOk'
  BY <1>13, IdleIsSensible DEF Tidal!Crash, ClientsOk
<1>14. ASSUME UNCHANGED client PROVE ClientsOk'
  BY <1>0, <1>14 DEF ClientsOk
<1>15. Tidal!FlushSwap \/ Tidal!FlushCommit \/ Tidal!FlushFails
          \/ (\E k \in Tidal!Cacheable : Tidal!Evict(k) \/ Tidal!ExpireRow(k) \/ Tidal!CatalogChanges(k))
          \/ Tidal!ClearAllCache \/ Tidal!ClearAll => UNCHANGED client
  BY DEF Tidal!FlushSwap, Tidal!FlushCommit, Tidal!FlushFails, Tidal!Evict, Tidal!ExpireRow, Tidal!CatalogChanges,
         Tidal!ClearAllCache, Tidal!ClearAll
<1> QED
  BY <1>1, <1>2, <1>3, <1>4, <1>5, <1>6, <1>7, <1>8, <1>9, <1>10, <1>11, <1>12, <1>13, <1>14, <1>15
     DEF Tidal!Next, Tidal!Request

-----------------------------------------------------------------------------
(* The tiers                                                               *)

LEMMA MergeTyped ==
    ASSUME NEW f \in [Tidal!Cacheable -> Tidal!Slot], NEW g \in [Tidal!Cacheable -> Tidal!Slot]
    PROVE  Tidal!Merge(f, g) \in [Tidal!Cacheable -> Tidal!Slot]
BY DEF Tidal!Merge

LEMMA MergeNowhere ==
    ASSUME NEW f \in [Tidal!Cacheable -> Tidal!Slot]
    PROVE  Tidal!Merge(Tidal!Nowhere, f) = f /\ Tidal!Merge(f, Tidal!Nowhere) = f
BY DEF Tidal!Merge, Tidal!Nowhere

LEMMA NowhereTyped == Tidal!Nowhere \in [Tidal!Cacheable -> Tidal!Slot]
BY DEF Tidal!Nowhere, Tidal!Slot

LEMMA StepTiers ==
    ASSUME Tidal!KeysAssumption, TidalInv, TidalTiers, Tidal!Next
    PROVE  TidalTiers'
<1> USE DEF Tidal!At, Tidal!tiers, Tidal!environment, TidalTiers
<1>0. /\ TiersTyped /\ CatalogTyped /\ Tidal!NothingBufferedIsLost /\ ClientsOk
      /\ memory \in [Tidal!Cacheable -> Tidal!Slot] /\ pending \in [Tidal!Cacheable -> Tidal!Slot]
      /\ batch \in [Tidal!Cacheable -> Tidal!Slot] /\ disk \in [Tidal!Cacheable -> Tidal!Slot]
      /\ Tidal!Merge(batch, disk) \in [Tidal!Cacheable -> Tidal!Slot]
      /\ Tidal!Merge(pending, Tidal!Merge(batch, disk)) = latest
      /\ Tidal!Nowhere \in [Tidal!Cacheable -> Tidal!Slot]
      /\ \A c \in Requests : Sensible(client[c]) /\ client[c] \in TidalRequests
      /\ Zero \in Tidal!Slot
  BY MergeTyped, NowhereTyped DEF TidalInv, TidalTiers, TiersTyped, ClientsOk, Sensible,
         Tidal!NothingBufferedIsLost, Tidal!Slot
<1>1. ASSUME UNCHANGED <<Tidal!tiers, latest, catalog, era>>
      PROVE  TidalTiers'
  BY <1>0, <1>1 DEF TiersTyped, CatalogTyped, Tidal!NothingBufferedIsLost, Tidal!Merge
<1>2. ASSUME NEW c \in Requests,
             \/ \E op \in Tidal!Ops, k \in Tidal!Cacheable : Tidal!Start(c, op, k)
             \/ Tidal!CheckLRU(c) \/ Tidal!Recheck(c) \/ Tidal!CheckPending(c) \/ Tidal!CheckDisk(c)
             \/ Tidal!Fetch(c) \/ Tidal!FetchFails(c) \/ Tidal!Return(c)
             \/ \E k \in Tidal!Cacheable : Tidal!Listing(c, k)
      PROVE  TidalTiers'
  BY <1>1, <1>2 DEF Tidal!Start, Tidal!CheckLRU, Tidal!Recheck, Tidal!CheckPending, Tidal!CheckDisk,
       Tidal!Fetch, Tidal!FetchFails, Tidal!Return, Tidal!Listing
<1>3. ASSUME UNCHANGED <<pending, batch, disk, latest, era>>, memory' \in [Tidal!Cacheable -> Tidal!Slot],
             catalog' \in [Tidal!Cacheable -> 0..MaxVersion]
      PROVE  TidalTiers'
  BY <1>0, <1>3 DEF TiersTyped, CatalogTyped, Tidal!NothingBufferedIsLost, Tidal!Merge
<1>4. ASSUME NEW c \in Requests, Tidal!Refresh(c) \/ Tidal!Warm(c) \/ Tidal!StoreLRU(c)
      PROVE  TidalTiers'
  <2>1. \E k \in Tidal!Cacheable, doc \in Tidal!Slot : memory' = [memory EXCEPT ![k] = doc]
    <3>1. CASE Tidal!Refresh(c) \/ Tidal!Warm(c)
      BY <1>0, <3>1 DEF Tidal!Refresh, Tidal!Warm, Sensible, TidalRequests
    <3>2. CASE Tidal!StoreLRU(c)
      <4>1. client[c].todo \in Seq(ToStore) /\ client[c].todo # << >>
        BY <1>0, <3>2 DEF Tidal!StoreLRU, Sensible, TidalRequests
      <4>2. Head(client[c].todo) \in ToStore
        BY <4>1
      <4>3. Head(client[c].todo).key \in Tidal!Cacheable /\ Head(client[c].todo).doc \in Tidal!Slot
        BY <4>2 DEF ToStore, Tidal!Slot
      <4> QED
        BY <3>2, <4>3 DEF Tidal!StoreLRU
    <3> QED
      BY <1>4, <3>1, <3>2
  <2>2. memory' \in [Tidal!Cacheable -> Tidal!Slot] /\ UNCHANGED <<pending, batch, disk, latest, catalog, era>>
    BY <1>0, <1>4, <2>1 DEF Tidal!Refresh, Tidal!Warm, Tidal!StoreLRU
  <2> QED
    BY <1>0, <1>3, <2>2 DEF CatalogTyped
<1>5. ASSUME NEW c \in Requests, Tidal!StorePending(c)
      PROVE  TidalTiers'
  <2> DEFINE item == Head(client[c].todo)
             k == item.key
             doc == item.doc
  <2>1. client[c].todo \in Seq(ToStore) /\ client[c].todo # << >>
    BY <1>0, <1>5 DEF Tidal!StorePending, Sensible, TidalRequests
  <2>2. item \in ToStore
    BY <2>1
  <2>3. k \in Tidal!Cacheable /\ doc \in Tidal!Slot /\ doc # Zero
    BY <2>2 DEF ToStore, Tidal!Slot, Tidal!KeysAssumption
  <2>4. pending' = [pending EXCEPT ![k] = doc] /\ latest' = [latest EXCEPT ![k] = doc]
        /\ UNCHANGED <<memory, batch, disk, catalog, era>>
    BY <1>5 DEF Tidal!StorePending
  <2> HIDE DEF item, k, doc
  <2> DEFINE behind == Tidal!Merge(batch, disk)
  <2> HIDE DEF behind
  <2>8. Tidal!Merge(pending, behind) = latest /\ behind \in [Tidal!Cacheable -> Tidal!Slot]
    BY <1>0 DEF behind
  <2>9. Tidal!Merge([pending EXCEPT ![k] = doc], behind) = [Tidal!Merge(pending, behind) EXCEPT ![k] = doc]
    <3>1. pending \in [Tidal!Cacheable -> Tidal!Slot]
      BY <1>0
    <3>2. \A f \in [Tidal!Cacheable -> Tidal!Slot], g \in [Tidal!Cacheable -> Tidal!Slot] :
              Tidal!Merge([f EXCEPT ![k] = doc], g) = [Tidal!Merge(f, g) EXCEPT ![k] = doc]
      BY <2>3 DEF Tidal!Merge
    <3> QED
      BY <2>8, <3>1, <3>2
  <2>5. Tidal!Merge(pending', Tidal!Merge(batch, disk)) = latest'
    BY <2>4, <2>8, <2>9 DEF behind
  <2>6. Tidal!NothingBufferedIsLost'
    BY <2>4, <2>5 DEF Tidal!NothingBufferedIsLost, Tidal!Merge
  <2>7. TiersTyped' /\ CatalogTyped'
    BY <1>0, <2>3, <2>4 DEF TiersTyped, CatalogTyped
  <2> QED
    BY <2>6, <2>7
(* The flusher, what tiers lose, and the clear.                            *)
<1>6. ASSUME pending' \in [Tidal!Cacheable -> Tidal!Slot], batch' \in [Tidal!Cacheable -> Tidal!Slot],
             disk' \in [Tidal!Cacheable -> Tidal!Slot],
             memory' \in [Tidal!Cacheable -> Tidal!Slot], era' \in 0..MaxClears, UNCHANGED catalog,
             Tidal!Merge(pending', Tidal!Merge(batch', disk')) = latest'
      PROVE  TidalTiers'
  BY <1>0, <1>6 DEF TiersTyped, CatalogTyped, Tidal!NothingBufferedIsLost, Tidal!Merge
<1>7. era \in 0..MaxClears
  BY <1>0 DEF CatalogTyped
<1>8. Tidal!FlushSwap => TidalTiers'
  <2> SUFFICES ASSUME Tidal!FlushSwap PROVE TidalTiers'
    OBVIOUS
  <2>1. Tidal!Merge(Tidal!Nowhere, disk) = disk
    BY <1>0, MergeNowhere
  <2>2. Tidal!Merge(pending', Tidal!Merge(batch', disk')) = latest'
    <3>1. Tidal!Merge(Tidal!Nowhere, Tidal!Merge(pending, disk)) = Tidal!Merge(pending, disk)
      BY <1>0, MergeTyped, MergeNowhere
    <3> QED
      BY <1>0, <2>1, <3>1 DEF Tidal!FlushSwap
  <2> QED
    BY <1>0, <1>6, <1>7, <2>2 DEF Tidal!FlushSwap
<1>9. Tidal!FlushCommit => TidalTiers'
  BY <1>0, <1>6, <1>7, MergeNowhere DEF Tidal!FlushCommit
<1>10. Tidal!FlushFails => TidalTiers'
  BY <1>0, <1>6, <1>7, MergeNowhere DEF Tidal!FlushFails
<1>11. ASSUME NEW k \in Tidal!Cacheable, Tidal!Evict(k) PROVE TidalTiers'
  BY <1>0, <1>6, <1>7, <1>11 DEF Tidal!Evict
<1>12. ASSUME NEW k \in Tidal!Cacheable, Tidal!ExpireRow(k) PROVE TidalTiers'
  <2>1. disk' \in [Tidal!Cacheable -> Tidal!Slot]
    BY <1>0, <1>12 DEF Tidal!ExpireRow
  <2> QED
    BY <1>0, <1>6, <1>7, <1>12, <2>1 DEF Tidal!ExpireRow
<1>13. ASSUME NEW k \in Tidal!Cacheable, Tidal!CatalogChanges(k) PROVE TidalTiers'
  <2>1. catalog[k] \in 0..MaxVersion /\ catalog[k] + 1 \in 0..MaxVersion
    BY <1>0, <1>13 DEF Tidal!CatalogChanges, CatalogTyped, Tidal!KeysAssumption
  <2>2. catalog' \in [Tidal!Cacheable -> 0..MaxVersion]
    BY <1>0, <1>13, <2>1 DEF Tidal!CatalogChanges, CatalogTyped
  <2> QED
    BY <1>0, <1>3, <1>13, <2>2 DEF Tidal!CatalogChanges
<1>14. Tidal!Crash => TidalTiers'
  BY <1>0, <1>6, <1>7, MergeNowhere DEF Tidal!Crash
<1>15. Tidal!ClearAllCache => TidalTiers'
  <2>1. Tidal!ClearAllCache => era' \in 0..MaxClears
    BY <1>7 DEF Tidal!ClearAllCache, Tidal!KeysAssumption
  <2> QED
    BY <1>0, <1>6, <2>1, MergeNowhere DEF Tidal!ClearAllCache
<1>16. Tidal!ClearAll => TidalTiers'
  BY <1>0, <1>6, <1>7 DEF Tidal!ClearAll
<1> QED
  BY <1>2, <1>4, <1>5, <1>8, <1>9, <1>10, <1>11, <1>12, <1>13, <1>14, <1>15, <1>16 DEF Tidal!Next, Tidal!Request

-----------------------------------------------------------------------------
LEMMA TidalInitially == ASSUME Tidal!KeysAssumption PROVE Tidal!Init => TidalInv
<1> SUFFICES ASSUME Tidal!Init PROVE TidalInv
  OBVIOUS
<1>1. TiersTyped /\ Tidal!NothingBufferedIsLost
  BY NowhereTyped, MergeNowhere DEF Tidal!Init, TiersTyped, Tidal!NothingBufferedIsLost
<1>2. CatalogTyped
  BY DEF Tidal!Init, CatalogTyped, Tidal!KeysAssumption
<1>3. ClientsOk
  BY IdleIsSensible DEF Tidal!Init, ClientsOk
<1> QED
  BY <1>1, <1>2, <1>3 DEF TidalInv, TidalTiers

LEMMA TidalInvariance == ASSUME Tidal!KeysAssumption PROVE Tidal!Spec => []TidalInv
<1>1. Tidal!Init => TidalInv
  BY TidalInitially
<1>2. TidalInv /\ [Tidal!Next]_(Tidal!vars) => TidalInv'
  <2>1. CASE Tidal!Next
    BY <2>1, StepClients, StepTiers DEF TidalInv, TidalTiers
  <2>2. CASE UNCHANGED Tidal!vars
    BY <2>2 DEF Tidal!vars, TidalInv, TidalTiers, TiersTyped, CatalogTyped, ClientsOk,
           Tidal!NothingBufferedIsLost, Tidal!Merge
  <2> QED
    BY <2>1, <2>2
<1> QED
  BY <1>1, <1>2, PTL DEF Tidal!Spec

(* storeCache, flushBuffer: whatever requests, flusher, clear and crash do *)
(* in between, a document that was buffered is in buffer, batch or table.  *)
THEOREM BufferedIsKept == ASSUME Tidal!KeysAssumption PROVE Tidal!Spec => []Tidal!NothingBufferedIsLost
<1>1. TidalInv => Tidal!NothingBufferedIsLost
  BY DEF TidalInv, TidalTiers
<1> QED
  BY <1>1, TidalInvariance, PTL

(* GetAlbumInfo never answers with an album that lacks its items.          *)
THEOREM AlbumsHaveItems == ASSUME Tidal!KeysAssumption PROVE Tidal!Spec => []Tidal!AlbumsAreComplete
<1>1. TidalInv => Tidal!AlbumsAreComplete
  BY DEF TidalInv, TidalTiers, ClientsOk, Sensible, Tidal!AlbumsAreComplete, Tidal!At
<1> QED
  BY <1>1, TidalInvariance, PTL

-----------------------------------------------------------------------------
(* In the composition, where the LRU cache has its turn.                   *)
LEMMA TidalTakesPart == CachesSpec => Tidal!Spec
<1>1. CachesInit => Tidal!Init
  BY DEF CachesInit
<1>2. [CachesNext]_allVars => [Tidal!Next]_(Tidal!vars)
  <2> SUFFICES ASSUME [CachesNext]_allVars PROVE [Tidal!Next]_(Tidal!vars)
    OBVIOUS
  <2>1. CASE TidalStep
    BY <2>1 DEF TidalStep
  <2>2. CASE UNCHANGED tidal
    BY <2>2 DEF tidal, Tidal!vars
  <2> QED
    BY <2>1, <2>2 DEF CachesNext, LruStep, allVars
<1> QED
  BY <1>1, <1>2, PTL DEF CachesSpec, Tidal!Spec

(* Whatever requests, flusher, clear and crash do in between, a document   *)
(* that was buffered is in buffer, batch or table.                         *)
THEOREM TidalKeepsWhatIsBuffered == ASSUME Tidal!KeysAssumption PROVE CachesSpec => []NothingBufferedIsLost
BY TidalTakesPart, BufferedIsKept, PTL DEF NothingBufferedIsLost

(* No answer to GetAlbumInfo lacks the album's items.                      *)
THEOREM TidalAlbumsAreComplete == ASSUME Tidal!KeysAssumption PROVE CachesSpec => []AlbumsAreComplete
BY TidalTakesPart, AlbumsHaveItems, PTL DEF AlbumsAreComplete

=============================================================================
