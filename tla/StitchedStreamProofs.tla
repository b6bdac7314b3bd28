------------------------ MODULE StitchedStreamProofs ------------------------
(***************************************************************************)
(* For all sessions, tracks, numbers of workers and of prefetched segments:*)
(* a client gets the segments in their order and without a gap, and a track*)
(* that is reported to be complete is.                                     *)
(*                                                                         *)
(* HLS: what was sent, what is in the pipe to ffmpeg and what is still to  *)
(* be written are the track's first segments, up to the next one.  DASH:   *)
(* every segment has been sent, has arrived, is in the channel or has yet  *)
(* to be fetched by the one worker whose turn it is, and only one of these.*)
(***************************************************************************)
EXTENDS Streams, FiniteSetTheorems, SequenceTheorems, WellFoundedInduction, TLAPS

N == Cardinality(Fetchers)

HlsSteps == {"init", "first", "head", "write", "loop", "join"}
Writing == {"write", "loop", "join"}
CallFields == {"at", "pos", "next", "todo"}
Outcomes == {"nil", "error", "panic"}
Answers == [seg : Int, ok : BOOLEAN]

-----------------------------------------------------------------------------
(* The invariant: of a track whose first media segment is f, with l        *)
(* segments before it, and whose last one is the last                      *)

Nth(f, l, i) == IF i <= l THEN 0 ELSE f + i - 1 - l

(* q has the segments that come after the first k.                         *)
Runs(q, f, l, k) == q \in Seq(Int) /\ \A i \in 1..Len(q) : q[i] = Nth(f, l, k + i)

(* What a client got so far.                                               *)
Ordered(q, f, l, last) == Runs(q, f, l, 0) /\ Len(q) <= l + last - f + 1

(* HLS: a call r with ffmpeg x, of which the client got q.                 *)
Sending(r, q, x, away, f, l, last) ==
    r.at \in Writing =>
        /\ r.todo \in Seq(Int) /\ r.next \in (f + 1)..(last + 1)
        /\ IF r.at = "write" THEN r.todo # <<>> ELSE r.todo = <<>>
        /\ r.at = "join" => r.next = last + 1
        /\ x.ffmpeg \in {"none", "up", "gone"} /\ (x.ffmpeg = "none" => x.pipe = <<>>)
        /\ x.ffmpeg # "gone" =>
            /\ Runs(x.pipe, f, l, Len(q)) /\ Runs(r.todo, f, l, Len(q) + Len(x.pipe))
            /\ Len(q) + Len(x.pipe) + Len(r.todo) = r.next - f + l
        /\ x.ffmpeg = "gone" => away \/ (r.at = "join" /\ Len(q) = l + last - f + 1)

(* DASH: the segments a worker is to fetch.                                *)
Turn(f, w) == {f + w - 1 + k * N : k \in Nat}

(* A segment that has been fetched: sent, kept or in the channel.          *)
Has(n, kept, channel, i) == i < n \/ i \in kept \/ \E j \in DOMAIN channel : channel[j].seg = i

Due(n, kept, channel, workers, f, last) ==
    /\ channel \in Seq(Answers)
    /\ kept \subseteq (n + 1)..last
    /\ \A j \in DOMAIN channel : channel[j].seg \in n..last /\ channel[j].seg \notin kept
    /\ \A i, j \in DOMAIN channel : channel[i].seg = channel[j].seg => i = j
    /\ \A w \in Fetchers : workers[w].at # "done" =>
        /\ workers[w].seg \in Turn(f, w) /\ workers[w].seg <= last /\ workers[w].ok \in BOOLEAN
        /\ \A i \in Turn(f, w) : i <= last /\ Has(n, kept, channel, i) => i < workers[w].seg

(* Nothing is left out.                                                    *)
AllComes(n, kept, channel, workers, f, last) ==
    \A i \in f..last :
        \/ Has(n, kept, channel, i)
        \/ \E w \in Fetchers : workers[w].at # "done" /\ i \in Turn(f, w) /\ workers[w].seg <= i

Lead(s) == IF Stream!Track(s).init THEN 1 ELSE 0
Total(s) == Lead(s) + Stream!Track(s).last - Stream!First(s) + 1

Collecting(s) ==
    IF Stream!At(s, "collect")
    THEN /\ call[s].next \in Stream!First(s)..(Stream!Track(s).last + 1) /\ Len(Stream!Audio(s)) = call[s].next - Stream!First(s)
         /\ Due(call[s].next, arrived[s], collected[s], dash[s], Stream!First(s), Stream!Track(s).last)
         /\ s \notin gone => AllComes(call[s].next, arrived[s], collected[s], dash[s], Stream!First(s), Stream!Track(s).last)
    ELSE collected[s] = <<>> /\ arrived[s] = {} /\ \A w \in Fetchers : dash[s][w].at = "done"

Known(s) ==
    /\ DOMAIN call[s] = CallFields /\ call[s].at \in {"idle", "left", "manifest", "collect"} \cup HlsSteps
    /\ call[s].pos \in 0..Len(plan[s].tracks) /\ (call[s].at \notin {"idle", "left"} => call[s].pos > 0)
    /\ call[s].at \in HlsSteps => Stream!Track(s).kind = "hls"
    /\ call[s].at = "init" => Stream!Track(s).init
    /\ call[s].at = "collect" => Stream!Track(s).kind = "dash"
    /\ call[s].at = "head" => Stream!First(s) <= Stream!Track(s).last
    /\ sent[s] \in Seq(Int) /\ ended[s] \in Seq(Outcomes)
    /\ call[s].at \in {"manifest", "init", "first", "head"} => sent[s] = <<>> /\ call[s].todo = <<>>
    /\ DOMAIN remux[s] = {"ffmpeg", "pipe"} /\ (call[s].at \notin Writing => remux[s] = Stream!NoPipe)
    /\ DOMAIN dash[s] = Fetchers

Delivered(s) == call[s].pos > 0 => Ordered(Stream!Audio(s), Stream!First(s), Lead(s), Stream!Track(s).last)

Complete(s) ==
    call[s].at = "idle" /\ call[s].pos > 0 /\ s \notin gone /\ ended[s][Len(ended[s])] = "nil" => Len(Stream!Audio(s)) = Total(s)

SessionOk(s) ==
    /\ Known(s) /\ Delivered(s) /\ Collecting(s) /\ Complete(s)
    /\ Sending(call[s], Stream!Audio(s), remux[s], s \in gone, Stream!First(s), Lead(s), Stream!Track(s).last)

Typed ==
    /\ plan \in Scenarios
    /\ DOMAIN call = Sessions /\ DOMAIN sent = Sessions /\ DOMAIN ended = Sessions /\ DOMAIN remux = Sessions
    /\ DOMAIN dash = Sessions /\ DOMAIN collected = Sessions /\ DOMAIN arrived = Sessions

IInv == Typed /\ \A s \in Sessions : SessionOk(s)

-----------------------------------------------------------------------------
(* Runs of segments                                                        *)

LEMMA RunOfOne ==
    ASSUME NEW f, NEW l, NEW k, NEW x \in Int, x = Nth(f, l, k + 1)
    PROVE  Runs(<<x>>, f, l, k) /\ Len(<<x>>) = 1
BY DEF Runs

LEMMA RunOfNone ==
    ASSUME NEW f, NEW l, NEW k
    PROVE  Runs(<<>>, f, l, k) /\ Len(<<>>) = 0
BY DEF Runs

LEMMA RunGoesOn ==
    ASSUME NEW f, NEW l, NEW k \in Int, NEW p, NEW q, Runs(p, f, l, k), Runs(q, f, l, k + Len(p))
    PROVE  Runs(p \o q, f, l, k) /\ Len(p \o q) = Len(p) + Len(q)
<1>1. p \in Seq(Int) /\ q \in Seq(Int)
  BY DEF Runs
<1>2. p \o q \in Seq(Int) /\ Len(p \o q) = Len(p) + Len(q) /\ Len(p) \in Nat /\ Len(q) \in Nat
  BY <1>1
<1>3. ASSUME NEW i \in 1..Len(p \o q)
      PROVE  (p \o q)[i] = Nth(f, l, k + i)
  <2>1. CASE i <= Len(p)
    <3>1. (p \o q)[i] = p[i] /\ i \in 1..Len(p)
      BY <1>1, <1>2, <2>1
    <3> QED
      BY <3>1 DEF Runs
  <2>2. CASE i > Len(p)
    <3>1. (p \o q)[i] = q[i - Len(p)] /\ i - Len(p) \in 1..Len(q)
      BY <1>1, <1>2, <2>2
    <3>2. q[i - Len(p)] = Nth(f, l, (k + Len(p)) + (i - Len(p)))
      BY <3>1 DEF Runs
    <3>3. (k + Len(p)) + (i - Len(p)) = k + i
      BY <1>2
    <3> QED
      BY <3>1, <3>2, <3>3
  <2> QED
    BY <1>2, <2>1, <2>2
<1> QED
  BY <1>2, <1>3 DEF Runs

LEMMA RunWithoutFirst ==
    ASSUME NEW f, NEW l, NEW k \in Int, NEW q, Runs(q, f, l, k), q # <<>>
    PROVE  /\ Runs(Tail(q), f, l, k + 1) /\ Len(Tail(q)) = Len(q) - 1 /\ Len(q) \in Nat \ {0}
           /\ Head(q) = Nth(f, l, k + 1) /\ Head(q) \in Int
<1>1. q \in Seq(Int)
  BY DEF Runs
<1>2. Tail(q) \in Seq(Int) /\ Len(Tail(q)) = Len(q) - 1 /\ Len(q) \in Nat \ {0}
  BY <1>1
<1>3. Head(q) = q[1] /\ Head(q) \in Int /\ 1 \in 1..Len(q)
  BY <1>1, <1>2
<1>4. ASSUME NEW i \in 1..Len(Tail(q))
      PROVE  Tail(q)[i] = Nth(f, l, (k + 1) + i)
  <2>1. Tail(q)[i] = q[i + 1] /\ i + 1 \in 1..Len(q)
    BY <1>1, <1>2
  <2>2. q[i + 1] = Nth(f, l, k + (i + 1))
    BY <2>1 DEF Runs
  <2>3. k + (i + 1) = (k + 1) + i
    OBVIOUS
  <2> QED
    BY <2>1, <2>2, <2>3
<1> QED
  BY <1>2, <1>3, <1>4 DEF Runs

(* What is heard of what was sent.                                         *)
Heard(q) == IF q # <<>> /\ Head(q) = Stream!Torn THEN Tail(q) ELSE q

LEMMA HeardGrows ==
    ASSUME NEW p \in Seq(Int), NEW q \in Seq(Int), q # <<>> => Head(q) # Stream!Torn
    PROVE  p \o q \in Seq(Int) /\ Heard(p) \in Seq(Int) /\ Heard(p \o q) = Heard(p) \o q
<1>1. CASE p = <<>>
  <2>1. p \o q = q
    BY <1>1
  <2> QED
    BY <1>1, <2>1 DEF Heard
<1>2. CASE p # <<>>
  <2>1. p \o q # <<>> /\ Head(p \o q) = Head(p) /\ p \o q \in Seq(Int) /\ Tail(p) \in Seq(Int)
    BY <1>2
  <2>2. Tail(p \o q) = Tail(p) \o q
    BY <1>2
  <2> QED
    BY <1>2, <2>1, <2>2 DEF Heard
<1> QED
  BY <1>1, <1>2

LEMMA HeardTorn ==
    ASSUME NEW q \in Seq(Int)
    PROVE  <<Stream!Torn>> \o q \in Seq(Int) /\ Heard(<<Stream!Torn>> \o q) = q
<1>1. Stream!Torn \in Int
  BY DEF Stream!Torn
<1>2. <<Stream!Torn>> \in Seq(Int) /\ Tail(<<Stream!Torn>>) = <<>>
  BY <1>1
<1>3. <<Stream!Torn>> \o q # <<>> /\ Head(<<Stream!Torn>> \o q) = Stream!Torn /\ Tail(<<Stream!Torn>> \o q) = q
  BY <1>1, <1>2
<1> QED
  BY <1>2, <1>3 DEF Heard

-----------------------------------------------------------------------------
(* Tracks                                                                  *)

LEMMA TracksKnown ==
    ASSUME Stream!StreamAssumption, plan \in Scenarios, NEW s \in Sessions, call[s].pos \in 1..Len(plan[s].tracks)
    PROVE  /\ Stream!Track(s) \in Stream!Songs /\ Stream!Track(s).last \in Nat /\ Stream!Track(s).init \in BOOLEAN /\ Stream!Track(s).kind \in {"hls", "dash"}
           /\ Stream!First(s) \in Nat /\ Lead(s) \in {0, 1} /\ Stream!First(s) <= Stream!Track(s).last + 1 /\ Stream!First(s) >= Lead(s)
           /\ Stream!Track(s).kind = "dash" => Lead(s) = 0 /\ Stream!First(s) = Stream!Start(s) /\ Stream!First(s) <= Stream!Track(s).last
<1>1. plan[s].offset \in Nat /\ plan[s].tracks \in Seq(Stream!Songs)
  BY DEF Stream!StreamAssumption
<1>2. Stream!Track(s) \in Stream!Songs
  BY <1>1 DEF Stream!Track
<1>3. /\ Stream!Track(s).last \in Nat /\ Stream!Track(s).init \in BOOLEAN /\ Stream!Track(s).kind \in {"hls", "dash"}
      /\ Stream!Track(s).kind = "dash" => ~ Stream!Track(s).init
  BY <1>2 DEF Stream!Songs
<1>4. Stream!Start(s) \in Nat /\ Stream!Start(s) <= Stream!Track(s).last
  BY <1>1, <1>3 DEF Stream!Start
<1>5. /\ Stream!First(s) \in Nat /\ Stream!First(s) <= Stream!Track(s).last + 1 /\ Stream!First(s) >= Lead(s)
      /\ ~ Stream!Track(s).init => Stream!First(s) = Stream!Start(s)
  BY <1>3, <1>4 DEF Stream!First, Stream!Greatest, Lead
<1> QED
  BY <1>2, <1>3, <1>4, <1>5 DEF Lead

-----------------------------------------------------------------------------
(* DASH: whose turn it is                                                  *)

LEMMA Sizes ==
    ASSUME NEW S
    PROVE  Stream!Cardinality(S) = Cardinality(S) /\ (Stream!IsFiniteSet(S) <=> IsFiniteSet(S))
BY Zenon DEF Stream!Cardinality, Cardinality, Stream!IsFiniteSet, IsFiniteSet

LEMMA WorkersAreNumbered ==
    ASSUME Stream!StreamAssumption
    PROVE  N \in Nat \ {0} /\ Fetchers = 1..N
<1>1. N \in Nat
  BY Sizes, FS_CardinalityType DEF Stream!StreamAssumption, N
<1>2. N # 0
  BY Sizes DEF Stream!StreamAssumption, N
<1> QED
  BY <1>1, <1>2, Sizes DEF Stream!StreamAssumption, N

LEMMA Rounds ==
    ASSUME NEW n \in Nat \ {0}, NEW k \in Nat, NEW m \in Nat, k < m
    PROVE  k * n \in Nat /\ m * n \in Nat /\ m * n >= k * n + n
<1> DEFINE d == m - k - 1
<1>1. d \in Nat /\ m = k + 1 + d
  OBVIOUS
<1> HIDE DEF d
<1>2. m * n = k * n + n + d * n
  BY <1>1
<1>3. d * n \in Nat /\ k * n \in Nat /\ m * n \in Nat
  BY <1>1
<1> QED
  BY <1>2, <1>3

LEMMA TurnsDiffer ==
    ASSUME N \in Nat \ {0}, NEW f \in Nat, NEW w \in 1..N, NEW v \in 1..N, NEW i \in Turn(f, w), i \in Turn(f, v)
    PROVE  w = v
<1>1. PICK k \in Nat : i = f + w - 1 + k * N
  BY DEF Turn
<1>2. PICK m \in Nat : i = f + v - 1 + m * N
  BY DEF Turn
<1>3. k * N \in Nat /\ m * N \in Nat
  OBVIOUS
<1>4. CASE k = m
  BY <1>1, <1>2, <1>3, <1>4
<1>5. CASE k < m
  <2>1. m * N >= k * N + N
    BY <1>5, Rounds
  <2> QED
    BY <1>1, <1>2, <1>3, <2>1
<1>6. CASE m < k
  <2>1. k * N >= m * N + N
    BY <1>6, Rounds
  <2> QED
    BY <1>1, <1>2, <1>3, <2>1
<1> QED
  BY <1>4, <1>5, <1>6

LEMMA NextTurn ==
    ASSUME N \in Nat \ {0}, NEW f \in Nat, NEW w \in 1..N, NEW i \in Turn(f, w)
    PROVE  i \in Nat /\ i >= f /\ i + N \in Turn(f, w) /\ \A j \in Turn(f, w) : j \in Nat /\ (j > i => j >= i + N)
<1>1. PICK k \in Nat : i = f + w - 1 + k * N
  BY DEF Turn
<1>2. k * N \in Nat
  OBVIOUS
<1>3. i \in Nat /\ i >= f
  BY <1>1, <1>2
<1>4. i + N \in Turn(f, w)
  <2> DEFINE m == k + 1
  <2>1. m \in Nat /\ m * N = k * N + N
    OBVIOUS
  <2> HIDE DEF m
  <2>2. i + N = f + w - 1 + m * N
    BY <1>1, <1>2, <2>1
  <2> QED
    BY <2>1, <2>2 DEF Turn
<1>5. ASSUME NEW j \in Turn(f, w)
      PROVE  j \in Nat /\ (j > i => j >= i + N)
  <2>1. PICK m \in Nat : j = f + w - 1 + m * N
    BY DEF Turn
  <2>2. m * N \in Nat
    OBVIOUS
  <2>3. CASE m > k
    <3>1. m * N >= k * N + N
      BY <2>3, Rounds
    <3> QED
      BY <1>1, <1>2, <2>1, <2>2, <3>1
  <2>4. CASE m = k
    BY <1>1, <1>2, <2>1, <2>4
  <2>5. CASE m < k
    <3>1. k * N >= m * N + N
      BY <2>5, Rounds
    <3> QED
      BY <1>1, <1>2, <2>1, <2>2, <3>1
  <2> QED
    BY <2>3, <2>4, <2>5
<1> QED
  BY <1>3, <1>4, <1>5

(* A worker's first segment.                                               *)
LEMMA FirstTurn ==
    ASSUME N \in Nat \ {0}, NEW f \in Nat, NEW w \in 1..N
    PROVE  f + w - 1 \in Turn(f, w) /\ \A i \in Turn(f, w) : i >= f + w - 1
<1>1. f + w - 1 \in Turn(f, w)
  <2>1. f + w - 1 = f + w - 1 + 0 * N
    OBVIOUS
  <2> QED
    BY <2>1 DEF Turn
<1>2. ASSUME NEW k \in Nat
      PROVE  f + w - 1 + k * N >= f + w - 1
  <2>1. k * N \in Nat
    OBVIOUS
  <2> QED
    BY <2>1
<1> QED
  BY <1>1, <1>2 DEF Turn

LEMMA SmallestNumber ==
    ASSUME NEW S, S \subseteq Nat, S # {}
    PROVE  \E m \in S : \A x \in S : m <= x
<1>1. PICK m \in S : \A x \in S : ~ (<<x, m>> \in OpToRel(<, Nat))
  BY NatLessThanWellFounded, WFMin
<1>2. \A x \in S : ~ (x < m)
  BY <1>1 DEF OpToRel
<1> QED
  BY <1>2

(* Every segment is some worker's: the smallest that were not would come   *)
(* a round after one that is.                                              *)
LEMMA SomeonesTurn ==
    ASSUME N \in Nat \ {0}, NEW f \in Nat, NEW i \in Nat, i >= f
    PROVE  \E w \in 1..N : i \in Turn(f, w)
<1> DEFINE Nobodys == {j \in Nat : j >= f /\ \A w \in 1..N : j \notin Turn(f, w)}
<1>1. SUFFICES ASSUME Nobodys # {} PROVE FALSE
  OBVIOUS
<1>2. PICK m \in Nobodys : \A x \in Nobodys : m <= x
  <2>1. Nobodys \subseteq Nat
    OBVIOUS
  <2> HIDE DEF Nobodys
  <2> QED
    BY <1>1, <2>1, SmallestNumber
<1>3. CASE m < f + N
  <2>1. m - f + 1 \in 1..N /\ f + (m - f + 1) - 1 = m
    BY <1>2, <1>3
  <2> QED
    BY <1>2, <2>1, FirstTurn
<1>4. CASE m >= f + N
  <2>1. m - N \in Nat /\ m - N >= f /\ m - N < m /\ (m - N) + N = m
    BY <1>2, <1>4
  <2>2. m - N \notin Nobodys
    BY <1>2, <2>1
  <2>3. PICK w \in 1..N : m - N \in Turn(f, w)
    BY <2>1, <2>2
  <2>4. m \in Turn(f, w)
    BY <2>1, <2>3, NextTurn
  <2> QED
    BY <1>2, <2>4
<1> QED
  BY <1>2, <1>3, <1>4

-----------------------------------------------------------------------------
(* DASH: what the workers and the collector leave of the invariant         *)

LEMMA DueAtFirst ==
    ASSUME Stream!StreamAssumption, NEW f \in Nat, NEW last \in Nat, NEW workers, DOMAIN workers = Fetchers,
           \A w \in Fetchers : workers[w] = [at |-> IF f + w - 1 > last THEN "done" ELSE "fetch", seg |-> f + w - 1, ok |-> TRUE]
    PROVE  Due(f, {}, <<>>, workers, f, last) /\ AllComes(f, {}, <<>>, workers, f, last)
<1>1. N \in Nat \ {0} /\ Fetchers = 1..N
  BY WorkersAreNumbered
<1>2. \A i : Has(f, {}, <<>>, i) => i < f
  BY DEF Has
<1>3. ASSUME NEW w \in Fetchers, workers[w].at # "done"
      PROVE  /\ workers[w].seg \in Turn(f, w) /\ workers[w].seg <= last /\ workers[w].ok \in BOOLEAN
             /\ \A i \in Turn(f, w) : ~ (i < f)
  <2>1. workers[w].seg = f + w - 1 /\ workers[w].ok = TRUE /\ ~ (f + w - 1 > last)
    BY <1>3
  <2>2. f + w - 1 \in Turn(f, w)
    BY <1>1, FirstTurn
  <2>3. \A i \in Turn(f, w) : i \in Nat /\ i >= f
    BY <1>1, NextTurn
  <2>4. \A i \in Turn(f, w) : ~ (i < f)
    BY <2>3
  <2>5. f + w - 1 <= last
    BY <1>1, <2>1
  <2> QED
    BY <2>1, <2>2, <2>4, <2>5
<1>4. Due(f, {}, <<>>, workers, f, last)
  BY <1>2, <1>3 DEF Due
<1>5. ASSUME NEW i \in f..last
      PROVE  \E w \in Fetchers : workers[w].at # "done" /\ i \in Turn(f, w) /\ workers[w].seg <= i
  <2>1. PICK w \in Fetchers : i \in Turn(f, w)
    <3>1. i \in Nat /\ i >= f
      OBVIOUS
    <3> QED
      BY <1>1, <3>1, SomeonesTurn
  <2>2. i >= f + w - 1
    BY <1>1, <2>1, FirstTurn
  <2>3. workers[w].at = "fetch" /\ workers[w].seg = f + w - 1
    BY <1>1, <2>2
  <2> QED
    BY <2>1, <2>2, <2>3
<1> QED
  BY <1>4, <1>5 DEF AllComes

(* A worker puts its result into the channel and turns to its next segment.*)
Sends(w, channel, workers, more, then, last) ==
    /\ workers[w].at = "send" /\ DOMAIN workers = Fetchers /\ DOMAIN then = Fetchers
    /\ more = Append(channel, [seg |-> workers[w].seg, ok |-> workers[w].ok])
    /\ \A v \in Fetchers \ {w} : then[v] = workers[v]
    /\ then[w].at = (IF workers[w].seg + N > last THEN "done" ELSE "fetch")
    /\ then[w].seg = workers[w].seg + N /\ then[w].ok = TRUE

LEMMA DueAfterSend ==
    ASSUME Stream!StreamAssumption, NEW f \in Nat, NEW last \in Nat, NEW n \in f..(last + 1), NEW kept, NEW channel,
           NEW workers, NEW w \in Fetchers, Due(n, kept, channel, workers, f, last),
           NEW more, NEW then, Sends(w, channel, workers, more, then, last)
    PROVE  /\ Due(n, kept, more, then, f, last)
           /\ AllComes(n, kept, channel, workers, f, last) => AllComes(n, kept, more, then, f, last)
<1>0. /\ workers[w].at = "send" /\ more = Append(channel, [seg |-> workers[w].seg, ok |-> workers[w].ok])
      /\ \A v \in Fetchers \ {w} : then[v] = workers[v]
      /\ then[w].at = (IF workers[w].seg + N > last THEN "done" ELSE "fetch")
      /\ then[w].seg = workers[w].seg + N /\ then[w].ok = TRUE
  BY DEF Sends
<1> DEFINE x == workers[w].seg
           this == [seg |-> x, ok |-> workers[w].ok]
<1>1. N \in Nat \ {0} /\ Fetchers = 1..N
  BY WorkersAreNumbered
<1>2. x \in Turn(f, w) /\ x <= last /\ workers[w].ok \in BOOLEAN /\ \A i \in Turn(f, w) : i <= last /\ Has(n, kept, channel, i) => i < x
  BY <1>0 DEF Due
<1>3. x \in Nat /\ x >= f /\ x + N \in Turn(f, w) /\ \A j \in Turn(f, w) : j \in Nat /\ (j > x => j >= x + N)
  BY <1>1, <1>2, NextTurn
<1>4. ~ Has(n, kept, channel, x)
  BY <1>2, <1>3
<1>5. this \in Answers /\ this.seg = x /\ channel \in Seq(Answers)
  BY <1>2, <1>3 DEF Answers, Due
<1> HIDE DEF x, this
<1>6. /\ more \in Seq(Answers) /\ Len(channel) \in Nat /\ DOMAIN channel = 1..Len(channel) /\ DOMAIN more = 1..(Len(channel) + 1)
      /\ (\A j \in DOMAIN channel : more[j] = channel[j]) /\ more[Len(channel) + 1] = this
  BY <1>0, <1>5 DEF this, x
<1>7. \A i : Has(n, kept, more, i) <=> Has(n, kept, channel, i) \/ i = x
  BY <1>5, <1>6 DEF Has
<1>8. \A j \in DOMAIN more : more[j].seg \in n..last /\ more[j].seg \notin kept
  <2>1. x \in n..last /\ x \notin kept
    BY <1>2, <1>3, <1>4 DEF Has, x
  <2> QED
    BY <1>5, <1>6, <2>1 DEF Due
<1>9. \A i, j \in DOMAIN more : more[i].seg = more[j].seg => i = j
  <2>1. \A j \in DOMAIN channel : channel[j].seg # x
    BY <1>4 DEF Has
  <2> QED
    BY <1>5, <1>6, <2>1 DEF Due
<1>10. ASSUME NEW v \in Fetchers, then[v].at # "done"
       PROVE  /\ then[v].seg \in Turn(f, v) /\ then[v].seg <= last /\ then[v].ok \in BOOLEAN
              /\ \A i \in Turn(f, v) : i <= last /\ Has(n, kept, more, i) => i < then[v].seg
  <2>1. CASE v = w
    <3>1. then[v].seg = x + N /\ x + N <= last /\ then[v].ok = TRUE
      BY <1>0, <1>1, <1>2, <1>3, <1>10, <2>1 DEF x
    <3>2. ASSUME NEW i \in Turn(f, v), i <= last, Has(n, kept, more, i)
          PROVE  i < x + N
      <4>1. i = x \/ i < x
        BY <1>2, <1>7, <2>1, <3>2 DEF x
      <4> QED
        BY <1>1, <1>3, <2>1, <3>2, <4>1
    <3> QED
      BY <1>3, <2>1, <3>1, <3>2
  <2>2. CASE v # w
    <3>1. then[v] = workers[v]
      BY <1>0, <2>2
    <3>2. x \notin Turn(f, v)
      BY <1>1, <1>2, <2>2, TurnsDiffer DEF x
    <3> QED
      BY <1>7, <1>10, <3>1, <3>2 DEF Due
  <2> QED
    BY <2>1, <2>2
<1>11. Due(n, kept, more, then, f, last)
  BY <1>6, <1>8, <1>9, <1>10 DEF Due
<1>12. ASSUME AllComes(n, kept, channel, workers, f, last), NEW i \in f..last, ~ Has(n, kept, more, i)
       PROVE  \E v \in Fetchers : then[v].at # "done" /\ i \in Turn(f, v) /\ then[v].seg <= i
  <2>1. PICK v \in Fetchers : workers[v].at # "done" /\ i \in Turn(f, v) /\ workers[v].seg <= i
    BY <1>7, <1>12 DEF AllComes
  <2>2. CASE v = w
    <3>1. i > x
      BY <1>3, <1>7, <1>12, <2>1, <2>2 DEF x
    <3>2. i >= x + N
      BY <1>3, <2>1, <2>2, <3>1
    <3>3. then[v].at = "fetch" /\ then[v].seg = x + N
      BY <1>0, <1>1, <1>3, <2>2, <3>2 DEF x
    <3> QED
      BY <2>1, <3>2, <3>3
  <2>3. CASE v # w
    BY <1>0, <2>1, <2>3
  <2> QED
    BY <2>2, <2>3
<1> QED
  BY <1>11, <1>12 DEF AllComes

(* The collector takes a result and writes what is due: what has arrived   *)
(* from the next segment on, up to the first that is missing.              *)
LEMMA DueAfterCollect ==
    ASSUME Stream!StreamAssumption, NEW f \in Nat, NEW last \in Nat, NEW n \in f..(last + 1), NEW kept, NEW channel, NEW workers,
           Due(n, kept, channel, workers, f, last), channel # <<>>,
           NEW have, have = kept \cup {Head(channel).seg},
           NEW due, due = {i \in have : n..i \subseteq have},
           NEW next, next = n + Cardinality(due)
    PROVE  /\ next \in n..(last + 1) /\ Cardinality(due) \in Nat
           /\ Due(next, have \ due, Tail(channel), workers, f, last)
           /\ AllComes(n, kept, channel, workers, f, last) => AllComes(next, have \ due, Tail(channel), workers, f, last)
<1> DEFINE h == Head(channel).seg
           rest == Tail(channel)
<1>1. /\ channel \in Seq(Answers) /\ Len(channel) \in Nat \ {0} /\ DOMAIN channel = 1..Len(channel)
      /\ rest \in Seq(Answers) /\ DOMAIN rest = 1..(Len(channel) - 1)
      /\ Head(channel) = channel[1] /\ \A j \in DOMAIN rest : rest[j] = channel[j + 1]
  BY DEF Due
<1>2. h = channel[1].seg /\ 1 \in DOMAIN channel
  BY <1>1
<1>3. h \in n..last /\ h \notin kept /\ kept \subseteq (n + 1)..last
  BY <1>2 DEF Due
<1>4. \A j \in DOMAIN rest : /\ rest[j].seg \in n..last /\ rest[j].seg \notin kept /\ rest[j].seg # h
                             /\ \A i \in DOMAIN rest : rest[i].seg = rest[j].seg => i = j
  <2>1. \A j \in DOMAIN rest : j + 1 \in DOMAIN channel /\ j + 1 # 1 /\ rest[j].seg = channel[j + 1].seg
    BY <1>1
  <2>2. ASSUME NEW j \in DOMAIN rest, NEW i \in DOMAIN rest, rest[i].seg = rest[j].seg
        PROVE  i = j
    <3>1. i + 1 = j + 1
      BY <2>1, <2>2 DEF Due
    <3> QED
      BY <1>1, <3>1
  <2>3. ASSUME NEW j \in DOMAIN rest
        PROVE  rest[j].seg \in n..last /\ rest[j].seg \notin kept /\ rest[j].seg # h
    BY <1>2, <2>1 DEF Due
  <2> QED
    BY <2>2, <2>3
<1>5. have = kept \cup {h} /\ have \subseteq n..last
  <2>1. have = kept \cup {h}
    OBVIOUS
  <2>2. (n + 1)..last \subseteq n..last
    OBVIOUS
  <2> HIDE DEF h
  <2> QED
    BY <1>3, <2>1, <2>2
<1> HIDE DEF h, rest
<1>6. PICK m \in {i \in n..(last + 1) : i \notin have} : \A i \in {j \in n..(last + 1) : j \notin have} : m <= i
  <2> DEFINE missing == {i \in n..(last + 1) : i \notin have}
  <2>1. missing \subseteq Nat
    OBVIOUS
  <2>2. last + 1 \in missing
    BY <1>5
  <2> HIDE DEF missing
  <2>3. PICK m \in missing : \A i \in missing : m <= i
    BY <2>1, <2>2, SmallestNumber
  <2> QED
    BY <2>3 DEF missing
<1>7. due = n..(m - 1)
  <2>1. ASSUME NEW i \in have, n..i \subseteq have
        PROVE  i \in n..(m - 1)
    <3>1. i \in n..last
      BY <1>5
    <3>2. m \notin n..i
      BY <1>6, <2>1
    <3> QED
      BY <1>6, <3>1, <3>2
  <2>2. ASSUME NEW i \in n..(m - 1)
        PROVE  i \in have
    <3>1. i \in n..(last + 1) /\ ~ (m <= i)
      BY <1>6
    <3> QED
      BY <1>6, <3>1
  <2>3. ASSUME NEW i \in n..(m - 1)
        PROVE  n..i \subseteq have
    <3>1. \A j \in n..i : j \in n..(m - 1)
      BY <1>6
    <3> QED
      BY <2>2, <3>1
  <2> QED
    BY <2>1, <2>2, <2>3
<1>8. Cardinality(due) = m - n /\ m - n \in Nat
  <2>1. n \in Int /\ m - 1 \in Int /\ n <= m
    BY <1>6
  <2>2. Cardinality(n..(m - 1)) = IF n > m - 1 THEN 0 ELSE (m - 1) - n + 1
    BY <2>1, FS_Interval
  <2>3. Cardinality(n..(m - 1)) = m - n /\ m - n \in Nat
    BY <2>1, <2>2
  <2> QED
    BY <1>7, <2>3
<1>9. next = m /\ m \in n..(last + 1)
  BY <1>6, <1>8
<1>10. have \ due \subseteq (m + 1)..last /\ \A i \in n..(m - 1) : i \in have
  <2>1. ASSUME NEW i \in have, i \notin due
        PROVE  i \in (m + 1)..last
    <3>1. i \in n..last /\ i # m /\ i \notin n..(m - 1)
      BY <1>5, <1>6, <1>7, <2>1
    <3> QED
      BY <1>6, <3>1
  <2>2. \A i \in n..(m - 1) : i \in have
    BY <1>7
  <2> QED
    BY <2>1, <2>2
<1>11. ASSUME NEW i \in Int
       PROVE  Has(m, have \ due, rest, i) <=> Has(n, kept, channel, i)
  <2>1. (\E j \in DOMAIN channel : channel[j].seg = i) <=> i = h \/ \E j \in DOMAIN rest : rest[j].seg = i
    <3>1. \A j \in DOMAIN channel : j = 1 \/ (j - 1 \in DOMAIN rest /\ rest[j - 1] = channel[j])
      BY <1>1 DEF rest
    <3>2. \A j \in DOMAIN rest : j + 1 \in DOMAIN channel /\ rest[j] = channel[j + 1]
      BY <1>1 DEF rest
    <3> QED
      BY <1>2, <3>1, <3>2
  <2>2. i < m <=> i < n \/ i \in due
    BY <1>6, <1>7
  <2>3. due \subseteq have
    OBVIOUS
  <2> QED
    BY <1>5, <2>1, <2>2, <2>3 DEF Has
<1>12. Due(m, have \ due, rest, workers, f, last)
  <2>1. rest \in Seq(Answers)
    BY <1>1 DEF rest
  <2>2. ASSUME NEW j \in DOMAIN rest
        PROVE  rest[j].seg \in m..last /\ rest[j].seg \notin have \ due
    <3>1. rest[j].seg \in n..last /\ rest[j].seg \notin have
      BY <1>4, <1>5
    <3>2. rest[j].seg \notin n..(m - 1)
      BY <1>10, <3>1
    <3> QED
      BY <1>6, <3>1, <3>2
  <2>3. ASSUME NEW w \in Fetchers, workers[w].at # "done"
        PROVE  /\ workers[w].seg \in Turn(f, w) /\ workers[w].seg <= last /\ workers[w].ok \in BOOLEAN
               /\ \A i \in Turn(f, w) : i <= last /\ Has(m, have \ due, rest, i) => i < workers[w].seg
    <3>1. \A i \in Turn(f, w) : i \in Int
      BY WorkersAreNumbered, NextTurn
    <3> QED
      BY <1>11, <2>3, <3>1 DEF Due
  <2> QED
    BY <1>4, <1>10, <2>1, <2>2, <2>3 DEF Due
<1>13. AllComes(n, kept, channel, workers, f, last) => AllComes(m, have \ due, rest, workers, f, last)
  BY <1>11 DEF AllComes
<1> QED
  BY <1>8, <1>9, <1>12, <1>13 DEF rest

-----------------------------------------------------------------------------
(* Sessions                                                                *)

LEMMA SameTrack ==
    ASSUME UNCHANGED plan, NEW s, call'[s].pos = call[s].pos
    PROVE  Stream!Track(s)' = Stream!Track(s) /\ Stream!First(s)' = Stream!First(s) /\ Lead(s)' = Lead(s) /\ Total(s)' = Total(s) /\ Stream!Start(s)' = Stream!Start(s)
<1>1. Stream!Track(s)' = Stream!Track(s)
  BY DEF Stream!Track
<1>2. Stream!Start(s)' = Stream!Start(s)
  BY <1>1 DEF Stream!Start
<1>3. Stream!First(s)' = Stream!First(s)
  BY <1>1, <1>2 DEF Stream!First
<1> QED
  BY <1>1, <1>2, <1>3 DEF Lead, Total

(* Nothing changes but what is this session's.                             *)
Only(s) ==
    /\ plan' = plan /\ gone \subseteq gone'
    /\ DOMAIN call' = Sessions /\ DOMAIN sent' = Sessions /\ DOMAIN ended' = Sessions /\ DOMAIN remux' = Sessions
    /\ DOMAIN dash' = Sessions /\ DOMAIN collected' = Sessions /\ DOMAIN arrived' = Sessions
    /\ \A d \in Sessions \ {s} :
        /\ call'[d] = call[d] /\ sent'[d] = sent[d] /\ ended'[d] = ended[d] /\ remux'[d] = remux[d]
        /\ dash'[d] = dash[d] /\ collected'[d] = collected[d] /\ arrived'[d] = arrived[d]

(* What only its client's leaving touches.                                 *)
LEMMA Untouched ==
    ASSUME IInv, NEW d \in Sessions, plan' = plan, gone \subseteq gone',
           call'[d] = call[d], sent'[d] = sent[d], ended'[d] = ended[d], remux'[d] = remux[d],
           dash'[d] = dash[d], collected'[d] = collected[d], arrived'[d] = arrived[d]
    PROVE  SessionOk(d)'
<1>1. Stream!Track(d)' = Stream!Track(d) /\ Stream!First(d)' = Stream!First(d) /\ Lead(d)' = Lead(d) /\ Total(d)' = Total(d)
  BY SameTrack
<1>2. Stream!Audio(d)' = Stream!Audio(d)
  BY DEF Stream!Audio
<1>3. SessionOk(d) /\ (d \in gone => d \in gone')
  BY DEF IInv
<1>4. Known(d)'
  BY <1>1, <1>3 DEF SessionOk, Known
<1>5. Delivered(d)' /\ Complete(d)'
  BY <1>1, <1>2, <1>3 DEF SessionOk, Delivered, Complete
<1>6. Collecting(d)'
  BY <1>1, <1>2, <1>3 DEF SessionOk, Collecting, Stream!At
<1>7. Sending(call[d], Stream!Audio(d), remux[d], d \in gone, Stream!First(d), Lead(d), Stream!Track(d).last)'
  BY <1>1, <1>2, <1>3 DEF SessionOk, Sending
<1> QED
  BY <1>4, <1>5, <1>6, <1>7 DEF SessionOk

LEMMA OthersStay ==
    ASSUME IInv, NEW s \in Sessions, Only(s), SessionOk(s)'
    PROVE  IInv'
<1>1. Typed'
  BY DEF IInv, Typed, Only
<1>2. ASSUME NEW d \in Sessions \ {s}
      PROVE  SessionOk(d)'
  BY Untouched DEF Only
<1> QED
  BY <1>1, <1>2 DEF IInv

LEMMA AllStay ==
    ASSUME IInv, UNCHANGED <<plan, call, sent, ended, remux, Stream!dashVars>>, gone \subseteq gone'
    PROVE  IInv'
<1>1. Typed'
  BY DEF IInv, Typed, Stream!dashVars
<1>2. \A d \in Sessions : SessionOk(d)'
  BY Untouched DEF Stream!dashVars
<1> QED
  BY <1>1, <1>2 DEF IInv

(* The track a session is at.                                              *)
LEMMA Here ==
    ASSUME Stream!StreamAssumption, IInv, NEW s \in Sessions, call[s].pos > 0
    PROVE  /\ SessionOk(s) /\ Known(s) /\ Collecting(s) /\ Complete(s)
           /\ Sending(call[s], Stream!Audio(s), remux[s], s \in gone, Stream!First(s), Lead(s), Stream!Track(s).last)
           /\ Stream!Track(s).last \in Nat /\ Stream!Track(s).init \in BOOLEAN /\ Stream!Track(s).kind \in {"hls", "dash"}
           /\ Stream!First(s) \in Nat /\ Lead(s) \in {0, 1} /\ Stream!First(s) <= Stream!Track(s).last + 1 /\ Stream!First(s) >= Lead(s)
           /\ Stream!Track(s).kind = "dash" => Lead(s) = 0 /\ Stream!First(s) = Stream!Start(s) /\ Stream!First(s) <= Stream!Track(s).last
           /\ Stream!Audio(s) = Heard(sent[s]) /\ Ordered(Heard(sent[s]), Stream!First(s), Lead(s), Stream!Track(s).last)
           /\ Heard(sent[s]) \in Seq(Int) /\ call[s].pos \in 1..Len(plan[s].tracks)
<1>1. SessionOk(s) /\ plan \in Scenarios
  BY DEF IInv, Typed
<1>2. plan[s].tracks \in Seq(Stream!Songs)
  BY <1>1 DEF Stream!StreamAssumption
<1>3. call[s].pos \in 1..Len(plan[s].tracks)
  BY <1>1, <1>2 DEF SessionOk, Known
<1>4. Stream!Audio(s) = Heard(sent[s])
  BY DEF Stream!Audio, Heard
<1>5. Ordered(Heard(sent[s]), Stream!First(s), Lead(s), Stream!Track(s).last)
  BY <1>1, <1>4 DEF SessionOk, Delivered
<1>6. Heard(sent[s]) \in Seq(Int)
  BY <1>5 DEF Ordered, Runs
<1> QED
  BY <1>1, <1>3, <1>4, <1>5, <1>6, TracksKnown DEF SessionOk

(* A step of an HLS call.                                                  *)
LEMMA HlsStep ==
    ASSUME Stream!StreamAssumption, IInv, NEW s \in Sessions, Only(s), call[s].pos > 0,
           call[s].at \notin {"idle", "left", "collect"}, Stream!Track(s).kind = "hls",
           DOMAIN call'[s] = CallFields, call'[s].pos = call[s].pos, call'[s].at \in HlsSteps,
           call'[s].at = "init" => Stream!Track(s).init, call'[s].at = "head" => Stream!First(s) <= Stream!Track(s).last,
           sent'[s] \in Seq(Int), call'[s].at \in {"init", "first", "head"} => sent'[s] = <<>> /\ call'[s].todo = <<>>,
           Ordered(Heard(sent'[s]), Stream!First(s), Lead(s), Stream!Track(s).last),
           ended'[s] = ended[s], DOMAIN remux'[s] = {"ffmpeg", "pipe"}, call'[s].at \notin Writing => remux'[s] = Stream!NoPipe,
           dash'[s] = dash[s], collected'[s] = collected[s], arrived'[s] = arrived[s],
           Sending(call'[s], Heard(sent'[s]), remux'[s], s \in gone', Stream!First(s), Lead(s), Stream!Track(s).last)
    PROVE  IInv'
<1>1. Stream!Track(s)' = Stream!Track(s) /\ Stream!First(s)' = Stream!First(s) /\ Lead(s)' = Lead(s) /\ plan' = plan
  BY SameTrack DEF Only
<1>2. Stream!Audio(s)' = Heard(sent'[s])
  BY DEF Stream!Audio, Heard
<1>3. Known(s) /\ Collecting(s) /\ call[s].pos \in 1..Len(plan[s].tracks)
  BY Here
<1>4. Known(s)'
  BY <1>1, <1>3 DEF Known, HlsSteps
<1>5. Delivered(s)'
  BY <1>1, <1>2 DEF Delivered
<1>6. Complete(s)'
  BY DEF Complete, HlsSteps
<1>7. Collecting(s)'
  BY <1>3 DEF Collecting, HlsSteps, Stream!At
<1>8. Sending(call[s], Stream!Audio(s), remux[s], s \in gone, Stream!First(s), Lead(s), Stream!Track(s).last)'
  BY <1>1, <1>2
<1> QED
  BY <1>4, <1>5, <1>6, <1>7, <1>8, OthersStay DEF SessionOk

(* A step of a DASH call.                                                  *)
LEMMA DashStep ==
    ASSUME Stream!StreamAssumption, IInv, NEW s \in Sessions, Only(s), call[s].pos > 0,
           call[s].at \in {"manifest", "collect"}, Stream!Track(s).kind = "dash",
           DOMAIN call'[s] = CallFields, call'[s].pos = call[s].pos, call'[s].at = "collect",
           sent'[s] \in Seq(Int), Ordered(Heard(sent'[s]), Stream!First(s), Lead(s), Stream!Track(s).last),
           ended'[s] = ended[s], remux'[s] = remux[s], DOMAIN dash'[s] = Fetchers,
           call'[s].next \in Stream!First(s)..(Stream!Track(s).last + 1), Len(Heard(sent'[s])) = call'[s].next - Stream!First(s),
           Due(call'[s].next, arrived'[s], collected'[s], dash'[s], Stream!First(s), Stream!Track(s).last),
           s \notin gone' => AllComes(call'[s].next, arrived'[s], collected'[s], dash'[s], Stream!First(s), Stream!Track(s).last)
    PROVE  IInv'
<1>1. Stream!Track(s)' = Stream!Track(s) /\ Stream!First(s)' = Stream!First(s) /\ Lead(s)' = Lead(s) /\ plan' = plan
  BY SameTrack DEF Only
<1>2. Stream!Audio(s)' = Heard(sent'[s])
  BY DEF Stream!Audio, Heard
<1>3. Known(s) /\ call[s].pos \in 1..Len(plan[s].tracks)
  BY Here
<1>4. Known(s)'
  BY <1>1, <1>3 DEF Known, HlsSteps, Writing
<1>5. Delivered(s)'
  BY <1>1, <1>2 DEF Delivered
<1>6. Complete(s)'
  BY DEF Complete
<1>7. Collecting(s)'
  BY <1>1, <1>2 DEF Collecting, Stream!At
<1>8. Sending(call[s], Stream!Audio(s), remux[s], s \in gone, Stream!First(s), Lead(s), Stream!Track(s).last)'
  BY DEF Sending, Writing
<1> QED
  BY <1>4, <1>5, <1>6, <1>7, <1>8, OthersStay DEF SessionOk

(* A call returns.                                                         *)
LEMMA Returned ==
    ASSUME Stream!StreamAssumption, IInv, NEW s \in Sessions, call[s].pos > 0, NEW verdict \in Outcomes,
           Stream!Return(s, verdict), UNCHANGED sent,
           verdict = "nil" /\ s \notin gone => Len(Stream!Audio(s)) = Total(s)
    PROVE  IInv'
<1>1. Typed /\ Known(s) /\ call[s].pos \in 1..Len(plan[s].tracks) /\ Delivered(s)
  BY Here DEF IInv, SessionOk
<1>2. /\ DOMAIN call' = Sessions /\ call'[s].at = "idle" /\ call'[s].pos = call[s].pos /\ DOMAIN call'[s] = CallFields
      /\ \A d \in Sessions \ {s} : call'[d] = call[d]
  BY <1>1 DEF Stream!Return, Stream!Goto, Typed, Known
<1>3. Only(s)
  BY <1>1, <1>2 DEF Stream!Return, Typed, Only
<1>4. /\ plan' = plan /\ gone' = gone /\ sent' = sent /\ ended'[s] = Append(ended[s], verdict) /\ remux'[s] = Stream!NoPipe
      /\ dash'[s] = Stream!NoPool /\ collected'[s] = <<>> /\ arrived'[s] = {}
  BY <1>1 DEF Stream!Return, Typed
<1>5. Stream!Track(s)' = Stream!Track(s) /\ Stream!First(s)' = Stream!First(s) /\ Lead(s)' = Lead(s) /\ Total(s)' = Total(s) /\ Stream!Audio(s)' = Stream!Audio(s)
  BY <1>2, <1>4, SameTrack DEF Stream!Audio
<1>6. ended'[s] \in Seq(Outcomes) /\ ended'[s][Len(ended'[s])] = verdict
  BY <1>1, <1>4 DEF Known
<1>7. Known(s)'
  BY <1>1, <1>2, <1>4, <1>6 DEF Known, HlsSteps, Writing, Stream!NoPipe, Stream!NoPool
<1>8. Delivered(s)'
  BY <1>1, <1>2, <1>5 DEF Delivered
<1>9. Complete(s)'
  BY <1>4, <1>5, <1>6 DEF Complete
<1>10. Collecting(s)'
  BY <1>2, <1>4 DEF Collecting, Stream!At, Stream!NoPool
<1>11. Sending(call[s], Stream!Audio(s), remux[s], s \in gone, Stream!First(s), Lead(s), Stream!Track(s).last)'
  BY <1>2 DEF Sending, Writing
<1> QED
  BY <1>3, <1>7, <1>8, <1>9, <1>10, <1>11, OthersStay DEF SessionOk

LEMMA Initially ==
    ASSUME Stream!StreamAssumption, Stream!Init
    PROVE  IInv
<1>1. Typed
  BY DEF Stream!Init, Typed
<1>2. ASSUME NEW s \in Sessions
      PROVE  SessionOk(s)
  <2>1. /\ DOMAIN call[s] = CallFields /\ call[s].at = "idle" /\ call[s].pos = 0
        /\ sent[s] = <<>> /\ ended[s] = <<>> /\ remux[s] = Stream!NoPipe /\ dash[s] = Stream!NoPool
        /\ collected[s] = <<>> /\ arrived[s] = {}
    BY DEF Stream!Init, CallFields
  <2>2. plan[s].tracks \in Seq(Stream!Songs)
    BY <1>1 DEF Typed, Stream!StreamAssumption
  <2>3. Known(s)
    BY <2>1, <2>2 DEF Known, HlsSteps, Writing, Stream!NoPipe, Stream!NoPool
  <2>4. Collecting(s)
    BY <2>1 DEF Collecting, Stream!At, Stream!NoPool
  <2> QED
    BY <2>1, <2>3, <2>4 DEF SessionOk, Delivered, Complete, Sending, Writing
<1> QED
  BY <1>1, <1>2 DEF IInv

-----------------------------------------------------------------------------
(* The handlers                                                            *)

LEMMA BeginKeeps ==
    ASSUME Stream!StreamAssumption, IInv, NEW s \in Sessions, Stream!Begin(s)
    PROVE  IInv'
<1>1. Typed /\ SessionOk(s) /\ plan \in Scenarios
  BY DEF IInv, Typed
<1>2. plan[s].tracks \in Seq(Stream!Songs)
  BY <1>1 DEF Stream!StreamAssumption
<1>3. /\ DOMAIN call' = Sessions /\ call'[s] = [at |-> "manifest", pos |-> call[s].pos + 1, next |-> 0, todo |-> <<>>]
      /\ \A d \in Sessions \ {s} : call'[d] = call[d]
      /\ DOMAIN sent' = Sessions /\ sent'[s] = <<>> /\ \A d \in Sessions \ {s} : sent'[d] = sent[d]
  BY <1>1 DEF Stream!Begin, Typed
<1>4. Only(s)
  BY <1>1, <1>3 DEF Stream!Begin, Only, Typed, Stream!dashVars
<1>5. /\ plan' = plan /\ gone' = gone /\ ended'[s] = ended[s] /\ remux'[s] = remux[s] /\ dash'[s] = dash[s]
      /\ collected'[s] = collected[s] /\ arrived'[s] = arrived[s] /\ call[s].at = "idle"
  BY DEF Stream!Begin, Stream!dashVars, Stream!At
<1>6. call'[s].pos \in 1..Len(plan[s].tracks)
  BY <1>1, <1>2, <1>3 DEF Stream!Begin, SessionOk, Known
<1>7. Stream!Track(s)' \in Stream!Songs /\ plan'[s].offset \in Nat
  BY <1>1, <1>2, <1>5, <1>6 DEF Stream!Track, Stream!StreamAssumption
<1>8. Stream!Track(s)'.last \in Nat /\ Stream!Track(s)'.init \in BOOLEAN /\ (Stream!Track(s)'.kind = "dash" => ~ Stream!Track(s)'.init)
  BY <1>7 DEF Stream!Songs
<1>9. Stream!Start(s)' \in Nat /\ Stream!Start(s)' <= Stream!Track(s)'.last
  BY <1>7, <1>8 DEF Stream!Start
<1>10. Stream!First(s)' \in Nat /\ Stream!First(s)' <= Stream!Track(s)'.last + 1 /\ Lead(s)' \in {0, 1}
  BY <1>8, <1>9 DEF Stream!First, Stream!Greatest, Lead
<1>11. Stream!Audio(s)' = <<>>
  BY <1>3 DEF Stream!Audio
<1>12. Known(s)'
  BY <1>1, <1>3, <1>5, <1>6 DEF SessionOk, Known, HlsSteps, Writing, CallFields
<1>13. Delivered(s)'
  BY <1>8, <1>10, <1>11, RunOfNone DEF Delivered, Ordered
<1>14. Collecting(s)' /\ Complete(s)'
  BY <1>1, <1>3, <1>5 DEF SessionOk, Collecting, Complete, Stream!At
<1>15. Sending(call[s], Stream!Audio(s), remux[s], s \in gone, Stream!First(s), Lead(s), Stream!Track(s).last)'
  BY <1>3 DEF Sending, Writing
<1> QED
  BY <1>4, <1>12, <1>13, <1>14, <1>15, OthersStay DEF SessionOk

LEMMA LeaveKeeps ==
    ASSUME Stream!StreamAssumption, IInv, NEW s \in Sessions, Stream!Leave(s)
    PROVE  IInv'
<1>1. Typed /\ SessionOk(s)
  BY DEF IInv
<1>2. /\ DOMAIN call' = Sessions /\ call'[s].at = "left" /\ call'[s].pos = call[s].pos /\ DOMAIN call'[s] = CallFields
      /\ \A d \in Sessions \ {s} : call'[d] = call[d]
  BY <1>1 DEF Stream!Leave, Stream!Goto, Typed, SessionOk, Known
<1>3. Only(s)
  BY <1>1, <1>2 DEF Stream!Leave, Only, Typed, Stream!dashVars
<1>4. /\ plan' = plan /\ sent'[s] = sent[s] /\ ended'[s] = ended[s] /\ remux'[s] = remux[s] /\ dash'[s] = dash[s]
      /\ collected'[s] = collected[s] /\ arrived'[s] = arrived[s] /\ call[s].at = "idle"
  BY DEF Stream!Leave, Stream!dashVars, Stream!At
<1>5. Stream!Track(s)' = Stream!Track(s) /\ Stream!First(s)' = Stream!First(s) /\ Lead(s)' = Lead(s) /\ Stream!Audio(s)' = Stream!Audio(s)
  BY <1>2, <1>4, SameTrack DEF Stream!Audio
<1>6. Known(s)'
  BY <1>1, <1>2, <1>4, <1>5 DEF SessionOk, Known, HlsSteps, Writing
<1>7. Delivered(s)' /\ Complete(s)'
  BY <1>1, <1>2, <1>5 DEF SessionOk, Delivered, Complete
<1>8. Collecting(s)'
  BY <1>1, <1>2, <1>4 DEF SessionOk, Collecting, Stream!At
<1>9. Sending(call[s], Stream!Audio(s), remux[s], s \in gone, Stream!First(s), Lead(s), Stream!Track(s).last)'
  BY <1>2 DEF Sending, Writing
<1> QED
  BY <1>3, <1>6, <1>7, <1>8, <1>9, OthersStay DEF SessionOk

LEMMA ManifestReadKeeps ==
    ASSUME Stream!StreamAssumption, IInv, NEW s \in Sessions, Stream!ManifestRead(s)
    PROVE  IInv'
<1>1. Typed /\ call[s].at = "manifest" /\ call[s].pos > 0
  BY DEF IInv, SessionOk, Known, Stream!ManifestRead, Stream!At
<1>2. /\ plan' = plan /\ gone' = gone /\ sent' = sent /\ ended' = ended /\ remux' = remux /\ collected' = collected /\ arrived' = arrived
      /\ DOMAIN call' = Sessions /\ call'[s].pos = call[s].pos /\ DOMAIN call'[s] = CallFields
      /\ \A d \in Sessions \ {s} : call'[d] = call[d]
  BY <1>1, Here DEF Stream!ManifestRead, Stream!Goto, Typed, Known, CallFields
<1>3. Known(s) /\ sent[s] = <<>> /\ call[s].todo = <<>> /\ Heard(sent[s]) = <<>> /\ remux[s] = Stream!NoPipe
  BY <1>1, Here DEF Known, Writing, Heard
<1>4. CASE Stream!Track(s).kind = "dash"
  <2> DEFINE f == Stream!First(s)
             last == Stream!Track(s).last
  <2>1. /\ DOMAIN dash' = Sessions /\ DOMAIN dash'[s] = Fetchers /\ \A d \in Sessions \ {s} : dash'[d] = dash[d]
        /\ \A w \in Fetchers : dash'[s][w] = [at |-> IF f + w - 1 > last THEN "done" ELSE "fetch", seg |-> f + w - 1, ok |-> TRUE]
    BY <1>1, <1>4, Here DEF Stream!ManifestRead, Typed
  <2>2. call'[s].at = "collect" /\ call'[s].next = f
    BY <1>1, <1>4, Here DEF Stream!ManifestRead, Typed, Known, CallFields
  <2>3. f \in Nat /\ last \in Nat /\ f <= last + 1 /\ Ordered(<<>>, f, Lead(s), last)
    BY <1>1, <1>3, Here
  <2>4. Only(s)
    BY <1>1, <1>2, <2>1 DEF Only, Typed
  <2>5. collected[s] = <<>> /\ arrived[s] = {}
    BY <1>1, Here DEF Collecting, Stream!At
  <2> HIDE DEF f, last
  <2>6. Due(f, {}, <<>>, dash'[s], f, last) /\ AllComes(f, {}, <<>>, dash'[s], f, last)
    BY <2>1, <2>3, DueAtFirst
  <2>7. f \in f..(last + 1) /\ Len(<<>>) = f - f /\ <<>> \in Seq(Int)
    BY <2>3
  <2> QED
    BY <1>1, <1>2, <1>3, <1>4, <2>1, <2>2, <2>3, <2>4, <2>5, <2>6, <2>7, DashStep DEF f, last
<1>5. CASE Stream!Track(s).kind # "dash"
  <2>1. Stream!Track(s).kind = "hls" /\ Ordered(<<>>, Stream!First(s), Lead(s), Stream!Track(s).last) /\ <<>> \in Seq(Int)
    BY <1>1, <1>3, <1>5, Here
  <2>2. dash' = dash /\ call'[s].at = (IF Stream!Track(s).init THEN "init" ELSE "first") /\ call'[s].todo = <<>>
    BY <1>1, <1>3, <1>5 DEF Stream!ManifestRead, Stream!Goto, Typed, Known, CallFields
  <2>3. Only(s)
    BY <1>1, <1>2, <2>2 DEF Only, Typed
  <2>4. Sending(call'[s], Heard(sent'[s]), remux'[s], s \in gone', Stream!First(s), Lead(s), Stream!Track(s).last)
    BY <2>2 DEF Sending, Writing
  <2>5. call'[s].at \in HlsSteps /\ (call'[s].at = "init" => Stream!Track(s).init) /\ call'[s].at \notin Writing \cup {"head"}
    BY <2>2 DEF HlsSteps, Writing
  <2>6. DOMAIN Stream!NoPipe = {"ffmpeg", "pipe"}
    BY DEF Stream!NoPipe
  <2> QED
    BY <1>1, <1>2, <1>3, <2>1, <2>2, <2>3, <2>4, <2>5, <2>6, HlsStep
<1> QED
  BY <1>4, <1>5

LEMMA FailuresKeep ==
    ASSUME Stream!StreamAssumption, IInv, NEW s \in Sessions,
           Stream!ManifestFails(s) \/ Stream!NoMediaSegment(s) \/ Stream!FetchFails(s) \/ Stream!ClientGone(s) \/ Stream!CollectFails(s)
    PROVE  IInv'
<1>1. call[s].at \notin {"idle", "left"} /\ UNCHANGED sent
  BY DEF Stream!ManifestFails, Stream!NoMediaSegment, Stream!FetchFails, Stream!ClientGone, Stream!CollectFails, Stream!At
<1>2. call[s].pos > 0
  BY <1>1 DEF IInv, SessionOk, Known
<1>3. Stream!Return(s, "error") \/ Stream!Return(s, "panic")
  BY DEF Stream!ManifestFails, Stream!NoMediaSegment, Stream!FetchFails, Stream!ClientGone, Stream!CollectFails
<1> QED
  BY <1>1, <1>2, <1>3, Returned DEF Outcomes

(* Nothing is left to be written when the loop has come to its end.        *)
LEMMA JoinKeeps ==
    ASSUME Stream!StreamAssumption, IInv, NEW s \in Sessions, Stream!Join(s)
    PROVE  IInv'
<1>1. call[s].at = "join" /\ UNCHANGED sent /\ Stream!Return(s, "nil") /\ remux[s].ffmpeg \in {"none", "gone"}
  BY DEF Stream!Join, Stream!At
<1>2. call[s].pos > 0
  BY <1>1 DEF IInv, SessionOk, Known
<1> DEFINE q == Stream!Audio(s)
           x == remux[s]
           f == Stream!First(s)
           l == Lead(s)
           last == Stream!Track(s).last
<1>3. /\ Sending(call[s], q, x, s \in gone, f, l, last) /\ Total(s) = l + last - f + 1
      /\ q \in Seq(Int) /\ f \in Nat /\ l \in Nat /\ last \in Nat
  BY <1>2, Here DEF Total
<1> HIDE DEF q, x, f, l, last
<1>4. CASE x.ffmpeg = "none"
  <2>1. x.pipe = <<>> /\ call[s].todo = <<>> /\ call[s].next = last + 1 /\ Len(q) + Len(x.pipe) + Len(call[s].todo) = call[s].next - f + l
    BY <1>1, <1>3, <1>4 DEF Sending, Writing
  <2>2. Len(q) \in Nat
    BY <1>3
  <2>3. Len(q) = Total(s)
    BY <1>3, <2>1, <2>2
  <2> QED
    BY <1>1, <1>2, <2>3, Returned DEF Outcomes, q
<1>5. CASE x.ffmpeg = "gone"
  <2>1. s \in gone \/ Len(q) = Total(s)
    BY <1>1, <1>3, <1>5 DEF Sending, Writing
  <2> QED
    BY <1>1, <1>2, <2>1, Returned DEF Outcomes, q
<1> QED
  BY <1>1, <1>4, <1>5 DEF x

(* The channel is closed when no worker is left.                           *)
LEMMA CollectedKeeps ==
    ASSUME Stream!StreamAssumption, IInv, NEW s \in Sessions, Stream!Collected(s)
    PROVE  IInv'
<1>1. call[s].at = "collect" /\ UNCHANGED sent /\ Stream!Return(s, "nil")
  BY DEF Stream!Collected, Stream!At
<1>2. call[s].pos > 0
  BY <1>1 DEF IInv, SessionOk, Known
<1> DEFINE n == call[s].next
           f == Stream!First(s)
           last == Stream!Track(s).last
<1>3. /\ n \in f..(last + 1) /\ Len(Stream!Audio(s)) = n - f /\ f \in Nat /\ last \in Nat /\ Total(s) = last - f + 1
      /\ Due(n, arrived[s], collected[s], dash[s], f, last)
      /\ s \notin gone => AllComes(n, arrived[s], collected[s], dash[s], f, last)
  BY <1>1, <1>2, Here DEF Collecting, Total, Known, Stream!At
<1>4. n > last \/ (collected[s] = <<>> /\ \A w \in Fetchers : dash[s][w].at = "done")
  BY DEF Stream!Collected
<1> HIDE DEF n, f, last
<1>5. ASSUME s \notin gone
      PROVE  n = last + 1
  <2>1. CASE n > last
    BY <1>3, <2>1
  <2>2. CASE n <= last
    <3>1. collected[s] = <<>> /\ \A w \in Fetchers : dash[s][w].at = "done"
      BY <1>3, <1>4, <2>2
    <3>2. n \in f..last
      BY <1>3, <2>2
    <3>3. Has(n, arrived[s], collected[s], n)
      BY <1>3, <1>5, <3>1, <3>2 DEF AllComes
    <3>4. n \notin arrived[s]
      <4>1. arrived[s] \subseteq (n + 1)..last
        BY <1>3 DEF Due
      <4> QED
        BY <1>3, <4>1
    <3> QED
      BY <1>3, <3>1, <3>3, <3>4 DEF Has
  <2> QED
    BY <1>3, <2>1, <2>2
<1>6. s \notin gone => Len(Stream!Audio(s)) = Total(s)
  BY <1>3, <1>5
<1> QED
  BY <1>1, <1>2, <1>6, Returned DEF Outcomes

-----------------------------------------------------------------------------
(* HLS: the first segments                                                 *)

LEMMA FetchFirstKeeps ==
    ASSUME Stream!StreamAssumption, IInv, NEW s \in Sessions, Stream!FetchInit(s) \/ Stream!FetchFirst(s)
    PROVE  IInv'
<1>1. Typed /\ Known(s) /\ call[s].at \in {"init", "first"}
  BY DEF IInv, SessionOk, Stream!FetchInit, Stream!FetchFirst, Stream!At
<1>2. call[s].pos > 0 /\ Stream!Track(s).kind = "hls" /\ sent[s] = <<>> /\ call[s].todo = <<>> /\ remux[s] = Stream!NoPipe
  BY <1>1 DEF Known, HlsSteps, Writing
<1>3. /\ plan' = plan /\ gone' = gone /\ sent' = sent /\ ended' = ended /\ remux' = remux /\ dash' = dash
      /\ collected' = collected /\ arrived' = arrived
      /\ DOMAIN call' = Sessions /\ call'[s].pos = call[s].pos /\ DOMAIN call'[s] = CallFields
      /\ \A d \in Sessions \ {s} : call'[d] = call[d]
      /\ call'[s].at \in {"first", "head"} /\ (call'[s].at = "head" => Stream!First(s) <= Stream!Track(s).last) /\ call'[s].todo = <<>>
  <2>1. CASE Stream!FetchInit(s)
    BY <1>1, <1>2, <2>1 DEF Stream!FetchInit, Stream!Goto, Typed, Known, Stream!dashVars, CallFields
  <2>2. CASE Stream!FetchFirst(s)
    BY <1>1, <1>2, <2>2 DEF Stream!FetchFirst, Stream!Goto, Typed, Known, Stream!dashVars, CallFields
  <2> QED
    BY <2>1, <2>2
<1>4. Only(s)
  BY <1>1, <1>3 DEF Only, Typed
<1>5. Ordered(Heard(sent'[s]), Stream!First(s), Lead(s), Stream!Track(s).last) /\ sent'[s] \in Seq(Int)
  BY <1>1, <1>2, <1>3, Here DEF Known
<1>6. Sending(call'[s], Heard(sent'[s]), remux'[s], s \in gone', Stream!First(s), Lead(s), Stream!Track(s).last)
  BY <1>3 DEF Sending, Writing
<1>7. DOMAIN Stream!NoPipe = {"ffmpeg", "pipe"}
  BY DEF Stream!NoPipe
<1>8. call'[s].at \in HlsSteps /\ call'[s].at # "init" /\ call'[s].at \notin Writing
  BY <1>3 DEF HlsSteps, Writing
<1> QED
  BY <1>1, <1>2, <1>3, <1>4, <1>5, <1>6, <1>7, <1>8, HlsStep

LEMMA HeadWithInitKeeps ==
    ASSUME Stream!StreamAssumption, IInv, NEW s \in Sessions, NEW started \in BOOLEAN, Stream!HeadWithInit(s, started)
    PROVE  IInv'
<1>1. Typed /\ Known(s) /\ call[s].at = "head" /\ Stream!Track(s).init
  BY DEF IInv, SessionOk, Stream!HeadWithInit, Stream!At
<1>2. call[s].pos > 0 /\ Stream!Track(s).kind = "hls" /\ sent[s] = <<>> /\ call[s].todo = <<>> /\ remux[s] = Stream!NoPipe /\ Stream!First(s) <= Stream!Track(s).last
  BY <1>1 DEF Known, HlsSteps, Writing
<1> DEFINE f == Stream!First(s)
           last == Stream!Track(s).last
<1>3. f \in Nat /\ last \in Nat /\ f <= last /\ Lead(s) = 1 /\ Ordered(<<>>, f, 1, last)
  BY <1>1, <1>2, Here DEF Lead, Heard
<1>4. /\ plan' = plan /\ gone' = gone /\ sent' = sent /\ ended' = ended /\ dash' = dash
      /\ collected' = collected /\ arrived' = arrived
      /\ DOMAIN call' = Sessions /\ call'[s].pos = call[s].pos /\ DOMAIN call'[s] = CallFields
      /\ \A d \in Sessions \ {s} : call'[d] = call[d]
      /\ call'[s].at = "write" /\ call'[s].todo = <<0, f>> /\ call'[s].next = f + 1
  BY <1>1 DEF Stream!HeadWithInit, Typed, Known, Stream!dashVars, CallFields
<1>5. /\ DOMAIN remux' = Sessions /\ (\A d \in Sessions \ {s} : remux'[d] = remux[d])
      /\ DOMAIN remux'[s] = {"ffmpeg", "pipe"} /\ remux'[s].ffmpeg \in {"none", "up"} /\ remux'[s].pipe = <<>>
  BY <1>1, <1>2 DEF Stream!HeadWithInit, Typed, Stream!NoPipe
<1>6. Only(s)
  BY <1>1, <1>4, <1>5 DEF Only, Typed
<1> HIDE DEF f, last
<1>7. Runs(<<0, f>>, f, 1, 0) /\ Len(<<0, f>>) = 2
  <2>1. <<0, f>> \in Seq(Int) /\ Len(<<0, f>>) = 2 /\ <<0, f>>[1] = 0 /\ <<0, f>>[2] = f
    BY <1>3
  <2>2. Nth(f, 1, 1) = 0 /\ Nth(f, 1, 2) = f
    BY <1>3 DEF Nth
  <2>3. ASSUME NEW i \in 1..2
        PROVE  <<0, f>>[i] = Nth(f, 1, 0 + i)
    <3>1. i = 1 \/ i = 2
      OBVIOUS
    <3> QED
      BY <2>1, <2>2, <3>1
  <2> QED
    BY <2>1, <2>3 DEF Runs
<1>8. Sending(call'[s], <<>>, remux'[s], s \in gone', f, 1, last)
  <2>1. Runs(<<>>, f, 1, 0) /\ Len(<<>>) = 0
    BY RunOfNone
  <2>2. <<0, f>> \in Seq(Int) /\ f + 1 \in (f + 1)..(last + 1) /\ <<0, f>> # <<>>
    BY <1>3
  <2> QED
    BY <1>3, <1>4, <1>5, <1>7, <2>1, <2>2 DEF Sending, Writing
<1>9. Heard(sent'[s]) = <<>> /\ <<>> \in Seq(Int)
  BY <1>2, <1>4 DEF Heard
<1>10. call'[s].at \in HlsSteps /\ call'[s].at \in Writing
  BY <1>4 DEF HlsSteps, Writing
<1> QED
  BY <1>1, <1>2, <1>3, <1>4, <1>5, <1>6, <1>8, <1>9, <1>10, HlsStep DEF f, last

(* What is written of the first segment before the tagger fails is Torn.   *)
LEMMA HeadTaggedKeeps ==
    ASSUME Stream!StreamAssumption, IInv, NEW s \in Sessions, NEW torn \in BOOLEAN, Stream!HeadTagged(s, torn)
    PROVE  IInv'
<1>1. Typed /\ Known(s) /\ call[s].at = "head" /\ ~ Stream!Track(s).init
  BY DEF IInv, SessionOk, Stream!HeadTagged, Stream!At
<1>2. call[s].pos > 0 /\ Stream!Track(s).kind = "hls" /\ sent[s] = <<>> /\ call[s].todo = <<>> /\ remux[s] = Stream!NoPipe /\ Stream!First(s) <= Stream!Track(s).last
  BY <1>1 DEF Known, HlsSteps, Writing
<1> DEFINE f == Stream!First(s)
           last == Stream!Track(s).last
<1>3. f \in Nat /\ last \in Nat /\ f <= last /\ Lead(s) = 0
  BY <1>1, <1>2, Here DEF Lead
<1>4. /\ plan' = plan /\ gone' = gone /\ ended' = ended /\ dash' = dash /\ remux' = remux
      /\ collected' = collected /\ arrived' = arrived
      /\ DOMAIN call' = Sessions /\ call'[s].pos = call[s].pos /\ DOMAIN call'[s] = CallFields
      /\ \A d \in Sessions \ {s} : call'[d] = call[d]
      /\ call'[s].at = "loop" /\ call'[s].todo = call[s].todo /\ call'[s].next = f + 1
      /\ DOMAIN sent' = Sessions /\ \A d \in Sessions \ {s} : sent'[d] = sent[d]
  BY <1>1 DEF Stream!HeadTagged, Typed, Known, Stream!dashVars, CallFields
<1>5. sent'[s] = (IF torn THEN <<Stream!Torn>> ELSE <<>>) \o <<f>>
  BY <1>1 DEF Stream!HeadTagged, Typed
<1>6. Only(s)
  BY <1>1, <1>4 DEF Only, Typed
<1> HIDE DEF f, last
<1>7. <<f>> \in Seq(Int) /\ Runs(<<f>>, f, 0, 0) /\ Len(<<f>>) = 1
  <2>1. f = Nth(f, 0, 0 + 1)
    BY <1>3 DEF Nth
  <2> QED
    BY <1>3, <2>1, RunOfOne
<1>8. Heard(sent'[s]) = <<f>> /\ sent'[s] \in Seq(Int)
  <2>1. CASE torn
    BY <1>5, <1>7, <2>1, HeardTorn
  <2>2. CASE ~ torn
    <3>1. sent'[s] = <<f>>
      BY <1>5, <1>7, <2>2
    <3>2. f # Stream!Torn
      BY <1>3 DEF Stream!Torn
    <3> QED
      BY <1>7, <3>1, <3>2 DEF Heard
  <2> QED
    BY <2>1, <2>2
<1>9. Ordered(<<f>>, f, 0, last)
  BY <1>3, <1>7 DEF Ordered
<1>10. Sending(call'[s], <<f>>, remux'[s], s \in gone', f, 0, last)
  <2>1. /\ remux'[s].ffmpeg = "none" /\ remux'[s].pipe = <<>> /\ <<>> \in Seq(Int) /\ f + 1 \in (f + 1)..(last + 1)
        /\ call'[s].todo = <<>>
    BY <1>2, <1>3, <1>4 DEF Stream!NoPipe
  <2>2. Runs(<<>>, f, 0, Len(<<f>>)) /\ Len(<<>>) = 0 /\ Runs(<<>>, f, 0, Len(<<f>>) + Len(<<>>))
    BY RunOfNone
  <2> QED
    BY <1>3, <1>4, <1>7, <2>1, <2>2 DEF Sending, Writing
<1>11. DOMAIN Stream!NoPipe = {"ffmpeg", "pipe"} /\ call'[s].at \in HlsSteps /\ call'[s].at \in Writing
  BY <1>4 DEF Stream!NoPipe, HlsSteps, Writing
<1> QED
  BY <1>1, <1>2, <1>3, <1>4, <1>6, <1>8, <1>9, <1>10, <1>11, HlsStep DEF f, last

-----------------------------------------------------------------------------
(* HLS: writing, and ffmpeg                                                *)

LEMMA NthIsSegment ==
    ASSUME NEW f \in Nat, NEW l \in {0, 1}, f >= l, NEW i \in Nat \ {0}
    PROVE  Nth(f, l, i) \in Nat /\ Nth(f, l, i) # Stream!Torn
BY DEF Nth, Stream!Torn

LEMMA OneMore ==
    ASSUME NEW q \in Seq(Int), NEW x \in Int
    PROVE  Append(q, x) = q \o <<x>> /\ <<x>> \in Seq(Int) /\ <<x>> # <<>> /\ Head(<<x>>) = x
<1>1. Append(q, x) = q \o <<x>>
  BY AppendIsConcat
<1>2. <<x>> \in Seq(Int) /\ <<x>> # <<>> /\ Head(<<x>>) = x
  OBVIOUS
<1> QED
  BY <1>1, <1>2

LEMMA Emptied ==
    ASSUME NEW q \in Seq(Int), q # <<>>
    PROVE  Tail(q) \in Seq(Int) /\ (Tail(q) = <<>> <=> Len(q) = 1)
<1>1. Tail(q) \in Seq(Int) /\ Len(Tail(q)) = Len(q) - 1 /\ Len(q) \in Nat
  OBVIOUS
<1>2. \A p \in Seq(Int) : p = <<>> <=> Len(p) = 0
  BY EmptySeq
<1>3. Tail(q) = <<>> <=> Len(Tail(q)) = 0
  BY <1>1, <1>2
<1>4. Len(Tail(q)) = 0 <=> Len(q) = 1
  BY <1>1
<1> QED
  BY <1>1, <1>3, <1>4

LEMMA Writes ==
    ASSUME Stream!StreamAssumption, IInv, NEW s \in Sessions, call[s].at \in Writing
    PROVE  /\ Typed /\ Known(s) /\ call[s].pos > 0 /\ Stream!Track(s).kind = "hls"
           /\ Sending(call[s], Heard(sent[s]), remux[s], s \in gone, Stream!First(s), Lead(s), Stream!Track(s).last)
           /\ Stream!First(s) \in Nat /\ Stream!Track(s).last \in Nat /\ Lead(s) \in {0, 1} /\ Stream!First(s) >= Lead(s)
           /\ Runs(Heard(sent[s]), Stream!First(s), Lead(s), 0) /\ Heard(sent[s]) \in Seq(Int) /\ Len(Heard(sent[s])) \in Nat
           /\ Ordered(Heard(sent[s]), Stream!First(s), Lead(s), Stream!Track(s).last) /\ sent[s] \in Seq(Int)
           /\ call[s].todo \in Seq(Int) /\ call[s].next \in (Stream!First(s) + 1)..(Stream!Track(s).last + 1)
<1>1. Typed /\ Known(s)
  BY DEF IInv, SessionOk
<1>2. call[s].pos > 0 /\ Stream!Track(s).kind = "hls" /\ sent[s] \in Seq(Int)
  BY <1>1 DEF Known, HlsSteps, Writing
<1>3. Sending(call[s], Heard(sent[s]), remux[s], s \in gone, Stream!First(s), Lead(s), Stream!Track(s).last) /\ Ordered(Heard(sent[s]), Stream!First(s), Lead(s), Stream!Track(s).last)
      /\ Stream!First(s) \in Nat /\ Stream!Track(s).last \in Nat /\ Lead(s) \in {0, 1} /\ Stream!First(s) >= Lead(s) /\ Heard(sent[s]) \in Seq(Int)
  BY <1>2, Here
<1>4. Runs(Heard(sent[s]), Stream!First(s), Lead(s), 0) /\ Len(Heard(sent[s])) \in Nat
  BY <1>3 DEF Ordered
<1>5. call[s].todo \in Seq(Int) /\ call[s].next \in (Stream!First(s) + 1)..(Stream!Track(s).last + 1)
  BY <1>3 DEF Sending
<1> QED
  BY <1>1, <1>2, <1>3, <1>4, <1>5

(* What is written is taken off the list.                                  *)
LEMMA WrittenIs ==
    ASSUME Typed, NEW s \in Sessions, Known(s), Stream!Written(s), call[s].at = "write"
    PROVE  /\ DOMAIN call' = Sessions /\ (\A d \in Sessions \ {s} : call'[d] = call[d])
           /\ DOMAIN call'[s] = CallFields /\ call'[s].pos = call[s].pos /\ call'[s].next = call[s].next
           /\ call'[s].todo = Tail(call[s].todo) /\ call'[s].at = IF Len(call[s].todo) = 1 THEN "loop" ELSE "write"
BY DEF Typed, Known, Stream!Written, CallFields

LEMMA WriteToClientKeeps ==
    ASSUME Stream!StreamAssumption, IInv, NEW s \in Sessions, Stream!WriteToClient(s)
    PROVE  IInv'
<1>1. call[s].at = "write" /\ call[s].at \in Writing /\ remux[s].ffmpeg = "none"
  BY DEF Stream!WriteToClient, Stream!At, Writing
<1> DEFINE f == Stream!First(s)
           l == Lead(s)
           last == Stream!Track(s).last
           q == Heard(sent[s])
           todo == call[s].todo
           n == call[s].next
           h == Head(todo)
<1>2. /\ Typed /\ Known(s) /\ call[s].pos > 0 /\ Stream!Track(s).kind = "hls"
      /\ Sending(call[s], q, remux[s], s \in gone, f, l, last) /\ Runs(q, f, l, 0)
      /\ f \in Nat /\ last \in Nat /\ l \in {0, 1} /\ f >= l /\ q \in Seq(Int) /\ Len(q) \in Nat
      /\ sent[s] \in Seq(Int)
  BY <1>1, Writes
<1>3. /\ DOMAIN call' = Sessions /\ (\A d \in Sessions \ {s} : call'[d] = call[d])
      /\ DOMAIN call'[s] = CallFields /\ call'[s].pos = call[s].pos /\ call'[s].next = n
      /\ call'[s].todo = Tail(todo) /\ call'[s].at = IF Len(todo) = 1 THEN "loop" ELSE "write"
  BY <1>1, <1>2, WrittenIs DEF Stream!WriteToClient
<1>4. /\ plan' = plan /\ gone' = gone /\ ended' = ended /\ dash' = dash /\ remux' = remux
      /\ collected' = collected /\ arrived' = arrived
      /\ DOMAIN sent' = Sessions /\ (\A d \in Sessions \ {s} : sent'[d] = sent[d]) /\ sent'[s] = Append(sent[s], h)
  BY <1>2 DEF Stream!WriteToClient, Typed, Stream!dashVars
<1>5. Only(s)
  BY <1>2, <1>3, <1>4 DEF Only, Typed
<1>6. /\ todo # <<>> /\ n \in (f + 1)..(last + 1) /\ remux[s].pipe = <<>>
      /\ Runs(todo, f, l, Len(q)) /\ Len(q) + Len(todo) = n - f + l
  <2>1. Len(<<>>) = 0 /\ Len(q) + 0 = Len(q)
    BY <1>2
  <2>2. Sending(call[s], q, remux[s], s \in gone, f, l, last)
    BY <1>2
  <2> HIDE DEF q, f, l, last
  <2>3. remux[s].pipe = <<>> /\ Runs(todo, f, l, Len(q) + Len(<<>>)) /\ Len(q) + Len(<<>>) + Len(todo) = n - f + l /\ todo # <<>> /\ n \in (f + 1)..(last + 1)
    BY <1>1, <2>2 DEF Sending, Writing
  <2> QED
    BY <2>1, <2>3
<1>7. DOMAIN remux[s] = {"ffmpeg", "pipe"} /\ call'[s].at \in HlsSteps /\ call'[s].at \in Writing /\ call'[s].at \in {"loop", "write"}
  BY <1>2, <1>3 DEF Known, HlsSteps, Writing
<1>8. /\ Runs(Tail(todo), f, l, Len(q) + 1) /\ Len(Tail(todo)) = Len(todo) - 1 /\ Len(todo) \in Nat \ {0}
      /\ h = Nth(f, l, Len(q) + 1) /\ h \in Int
  <2>1. Len(q) \in Int /\ Runs(todo, f, l, Len(q)) /\ todo # <<>>
    BY <1>2, <1>6
  <2> HIDE DEF f, l, q, todo
  <2> QED
    BY <2>1, RunWithoutFirst
<1>9. sent' [s] = sent[s] \o <<h>> /\ (h # Stream!Torn /\ h \in Int => sent'[s] \in Seq(Int) /\ Heard(sent'[s]) = q \o <<h>>)
  <2>1. ASSUME h \in Int
        PROVE  sent'[s] = sent[s] \o <<h>> /\ <<h>> \in Seq(Int) /\ Head(<<h>>) = h
    <3>1. \A x \in Int : Append(sent[s], x) = sent[s] \o <<x>> /\ <<x>> \in Seq(Int) /\ Head(<<x>>) = x
      BY <1>2, OneMore
    <3> HIDE DEF h
    <3> QED
      BY <1>4, <2>1, <3>1
  <2>2. h \in Int
    BY <1>8
  <2> QED
    BY <1>2, <2>1, <2>2, HeardGrows
<1> HIDE DEF f, l, last, q, todo, n
<1>10. h # Stream!Torn
  <2>1. Len(q) + 1 \in Nat \ {0}
    BY <1>2
  <2> QED
    BY <1>2, <1>8, <2>1, NthIsSegment
<1>11. Runs(<<h>>, f, l, Len(q)) /\ Len(<<h>>) = 1
  BY <1>8, RunOfOne
<1>12. Runs(q \o <<h>>, f, l, 0) /\ Len(q \o <<h>>) = Len(q) + 1
  <2>1. 0 + Len(q) = Len(q)
    BY <1>2
  <2> QED
    BY <1>2, <1>11, <2>1, RunGoesOn
<1>13. Ordered(q \o <<h>>, f, l, last)
  BY <1>2, <1>6, <1>8, <1>12 DEF Ordered
<1>14. Sending(call'[s], q \o <<h>>, remux[s], s \in gone', f, l, last)
  <2>1. Tail(todo) \in Seq(Int) /\ (Tail(todo) = <<>> <=> Len(todo) = 1)
    BY <1>6, Emptied DEF Runs
  <2>2. Runs(<<>>, f, l, Len(q \o <<h>>)) /\ Len(<<>>) = 0
    BY RunOfNone
  <2>3. /\ Len(q \o <<h>>) + Len(<<>>) = Len(q) + 1
        /\ Len(q \o <<h>>) + Len(<<>>) + Len(Tail(todo)) = n - f + l
    BY <1>2, <1>6, <1>8, <1>12, <2>2
  <2> QED
    BY <1>1, <1>3, <1>6, <1>7, <1>8, <2>1, <2>2, <2>3 DEF Sending, Writing
<1> QED
  BY <1>1, <1>2, <1>3, <1>4, <1>5, <1>7, <1>9, <1>8, <1>10, <1>13, <1>14, HlsStep DEF f, l, last, q, Writing

LEMMA WriteToPipeKeeps ==
    ASSUME Stream!StreamAssumption, IInv, NEW s \in Sessions, Stream!WriteToPipe(s)
    PROVE  IInv'
<1>1. call[s].at = "write" /\ call[s].at \in Writing /\ remux[s].ffmpeg = "up" /\ remux[s].pipe = <<>>
  BY DEF Stream!WriteToPipe, Stream!At, Writing
<1> DEFINE f == Stream!First(s)
           l == Lead(s)
           last == Stream!Track(s).last
           q == Heard(sent[s])
           todo == call[s].todo
           n == call[s].next
           h == Head(todo)
<1>2. /\ Typed /\ Known(s) /\ call[s].pos > 0 /\ Stream!Track(s).kind = "hls"
      /\ Sending(call[s], q, remux[s], s \in gone, f, l, last) /\ Ordered(q, f, l, last)
      /\ f \in Nat /\ last \in Nat /\ l \in {0, 1} /\ f >= l /\ q \in Seq(Int) /\ Len(q) \in Nat
      /\ sent[s] \in Seq(Int)
  BY <1>1, Writes
<1>3. /\ DOMAIN call' = Sessions /\ (\A d \in Sessions \ {s} : call'[d] = call[d])
      /\ DOMAIN call'[s] = CallFields /\ call'[s].pos = call[s].pos /\ call'[s].next = n
      /\ call'[s].todo = Tail(todo) /\ call'[s].at = IF Len(todo) = 1 THEN "loop" ELSE "write"
  BY <1>1, <1>2, WrittenIs DEF Stream!WriteToPipe
<1>4. /\ plan' = plan /\ gone' = gone /\ ended' = ended /\ dash' = dash /\ sent' = sent
      /\ collected' = collected /\ arrived' = arrived
      /\ DOMAIN remux' = Sessions /\ (\A d \in Sessions \ {s} : remux'[d] = remux[d])
      /\ DOMAIN remux'[s] = {"ffmpeg", "pipe"} /\ remux'[s].ffmpeg = "up" /\ remux'[s].pipe = <<h>>
  BY <1>1, <1>2 DEF Stream!WriteToPipe, Typed, Known, Stream!dashVars
<1>5. Only(s)
  BY <1>2, <1>3, <1>4 DEF Only, Typed
<1>6. /\ todo # <<>> /\ n \in (f + 1)..(last + 1)
      /\ Runs(todo, f, l, Len(q)) /\ Len(q) + Len(todo) = n - f + l
  <2>1. Len(<<>>) = 0 /\ Len(q) + 0 = Len(q)
    BY <1>2
  <2>2. Sending(call[s], q, remux[s], s \in gone, f, l, last)
    BY <1>2
  <2> HIDE DEF q, f, l, last
  <2>3. Runs(todo, f, l, Len(q) + Len(<<>>)) /\ Len(q) + Len(<<>>) + Len(todo) = n - f + l /\ todo # <<>> /\ n \in (f + 1)..(last + 1)
    BY <1>1, <2>2 DEF Sending, Writing
  <2> QED
    BY <2>1, <2>3
<1>7. call'[s].at \in HlsSteps /\ call'[s].at \in Writing /\ call'[s].at \in {"loop", "write"}
  BY <1>3 DEF HlsSteps, Writing
<1> HIDE DEF f, l, last, q, todo, n
<1>8. /\ Runs(Tail(todo), f, l, Len(q) + 1) /\ Len(Tail(todo)) = Len(todo) - 1 /\ Len(todo) \in Nat \ {0}
      /\ h = Nth(f, l, Len(q) + 1) /\ h \in Int
  BY <1>2, <1>6, RunWithoutFirst
<1>9. Runs(<<h>>, f, l, Len(q)) /\ Len(<<h>>) = 1
  BY <1>8, RunOfOne
<1>10. Sending(call'[s], q, remux'[s], s \in gone', f, l, last)
  <2>1. Tail(todo) \in Seq(Int) /\ (Tail(todo) = <<>> <=> Len(todo) = 1)
    BY <1>6, Emptied DEF Runs
  <2>2. Len(q) + Len(<<h>>) = Len(q) + 1 /\ Len(q) + Len(<<h>>) + Len(Tail(todo)) = n - f + l
    BY <1>2, <1>6, <1>8, <1>9
  <2> QED
    BY <1>1, <1>3, <1>4, <1>6, <1>7, <1>8, <1>9, <2>1, <2>2 DEF Sending, Writing
<1> QED
  BY <1>1, <1>2, <1>3, <1>4, <1>5, <1>7, <1>10, HlsStep DEF f, l, last, q, Writing

LEMMA NextIsNth ==
    ASSUME NEW f \in Int, NEW l \in Int, NEW n \in Int, n > f
    PROVE  n = Nth(f, l, (n - f + l) + 1) /\ (n - f + l) + 1 = n + 1 - f + l
<1>1. ~ ((n - f + l) + 1 <= l) /\ f + ((n - f + l) + 1) - 1 - l = n
  OBVIOUS
<1> QED
  BY <1>1 DEF Nth

LEMMA SumIsBounded ==
    ASSUME NEW a \in Nat, NEW b \in Nat, NEW c \in Nat, NEW f \in Int, NEW l \in Int, NEW last \in Int, NEW n \in Int,
           a + b + c = n - f + l, n <= last + 1
    PROVE  a + b <= l + last - f + 1
OBVIOUS

LEMMA LoopKeeps ==
    ASSUME Stream!StreamAssumption, IInv, NEW s \in Sessions, Stream!NextSegment(s) \/ Stream!LoopEnds(s)
    PROVE  IInv'
<1>1. call[s].at = "loop" /\ call[s].at \in Writing
  BY DEF Stream!NextSegment, Stream!LoopEnds, Stream!At, Writing
<1> DEFINE f == Stream!First(s)
           l == Lead(s)
           last == Stream!Track(s).last
           q == Heard(sent[s])
           x == remux[s]
           n == call[s].next
<1>2. /\ Typed /\ Known(s) /\ call[s].pos > 0 /\ Stream!Track(s).kind = "hls"
      /\ Sending(call[s], q, x, s \in gone, f, l, last) /\ Ordered(q, f, l, last)
      /\ f \in Nat /\ last \in Nat /\ l \in {0, 1} /\ f >= l /\ q \in Seq(Int) /\ Len(q) \in Nat
      /\ sent[s] \in Seq(Int) /\ n \in (f + 1)..(last + 1)
  BY <1>1, Writes
<1>3. /\ plan' = plan /\ gone' = gone /\ ended' = ended /\ dash' = dash /\ sent' = sent
      /\ collected' = collected /\ arrived' = arrived /\ remux' = remux
      /\ DOMAIN call' = Sessions /\ (\A d \in Sessions \ {s} : call'[d] = call[d])
      /\ DOMAIN call'[s] = CallFields /\ call'[s].pos = call[s].pos
  <2>1. CASE Stream!NextSegment(s)
    BY <1>2, <2>1 DEF Stream!NextSegment, Typed, Known, Stream!dashVars, CallFields
  <2>2. CASE Stream!LoopEnds(s)
    BY <1>2, <2>2 DEF Stream!LoopEnds, Stream!Goto, Typed, Known, Stream!dashVars, CallFields
  <2> QED
    BY <2>1, <2>2
<1>4. Only(s)
  BY <1>2, <1>3 DEF Only, Typed
<1>5. DOMAIN x = {"ffmpeg", "pipe"}
  BY <1>2 DEF Known
<1>6. \/ n <= last /\ call'[s].at = "write" /\ call'[s].todo = <<n>> /\ call'[s].next = n + 1
      \/ n > last /\ call'[s].at = "join" /\ call'[s].todo = call[s].todo /\ call'[s].next = n
  <2>1. CASE Stream!NextSegment(s)
    BY <1>2, <2>1 DEF Stream!NextSegment, Typed, Known, CallFields
  <2>2. CASE Stream!LoopEnds(s)
    BY <1>2, <2>2 DEF Stream!LoopEnds, Stream!Goto, Typed, Known, CallFields
  <2> QED
    BY <2>1, <2>2
<1> HIDE DEF f, l, last, q, x, n
<1>7. /\ call[s].todo = <<>> /\ x.ffmpeg \in {"none", "up", "gone"} /\ (x.ffmpeg = "none" => x.pipe = <<>>)
      /\ x.ffmpeg # "gone" =>
            /\ Runs(x.pipe, f, l, Len(q)) /\ Runs(<<>>, f, l, Len(q) + Len(x.pipe))
            /\ Len(q) + Len(x.pipe) + Len(<<>>) = n - f + l
      /\ x.ffmpeg = "gone" => s \in gone
  BY <1>1, <1>2 DEF Sending, n, Writing
<1>8. Len(<<>>) = 0 /\ <<>> \in Seq(Int) /\ (x.ffmpeg # "gone" => Len(x.pipe) \in Nat)
  BY <1>7 DEF Runs
<1>9. Sending(call'[s], q, x, s \in gone', f, l, last)
  <2>0. f \in Int /\ l \in Int /\ n \in Int /\ n > f
    BY <1>2
  <2>1. CASE n <= last
    <3>1. call'[s].at = "write" /\ call'[s].todo = <<n>> /\ call'[s].next = n + 1 /\ n + 1 \in (f + 1)..(last + 1) /\ n \in Int
      BY <1>2, <1>6, <2>1
    <3>2. <<n>> \in Seq(Int) /\ <<n>> # <<>>
      BY <3>1
    <3>3. ASSUME x.ffmpeg # "gone"
          PROVE  Runs(<<n>>, f, l, Len(q) + Len(x.pipe)) /\ Len(<<n>>) = 1 /\ Len(q) + Len(x.pipe) + Len(<<n>>) = n + 1 - f + l
      <4>1. Len(q) + Len(x.pipe) = n - f + l
        BY <1>2, <1>7, <1>8, <3>3
      <4>2. n = Nth(f, l, (n - f + l) + 1)
        BY <2>0, NextIsNth
      <4>3. Runs(<<n>>, f, l, n - f + l) /\ Len(<<n>>) = 1
        BY <3>1, <4>2, RunOfOne
      <4>4. (n - f + l) + 1 = n + 1 - f + l
        BY <2>0, NextIsNth
      <4> QED
        BY <4>1, <4>3, <4>4
    <3>4. (x.ffmpeg # "gone" => Runs(x.pipe, f, l, Len(q))) /\ (x.ffmpeg = "gone" => s \in gone')
      BY <1>3, <1>7
    <3>5. x.ffmpeg \in {"none", "up", "gone"} /\ (x.ffmpeg = "none" => x.pipe = <<>>)
      BY <1>7
    <3> DEFINE r == call'[s]
    <3>6. r.at = "write" /\ r.todo \in Seq(Int) /\ r.todo # <<>> /\ r.next \in (f + 1)..(last + 1)
      BY <3>1, <3>2
    <3>7. x.ffmpeg # "gone" => Runs(r.todo, f, l, Len(q) + Len(x.pipe)) /\ Len(q) + Len(x.pipe) + Len(r.todo) = r.next - f + l
      <4>1. r.todo = <<n>> /\ r.next = n + 1
        BY <3>1
      <4> HIDE DEF r
      <4>2. Len(r.todo) = Len(<<n>>)
        BY <4>1
      <4>3. ASSUME x.ffmpeg # "gone"
            PROVE  Runs(r.todo, f, l, Len(q) + Len(x.pipe))
        BY <3>3, <4>1, <4>3
      <4>4. ASSUME x.ffmpeg # "gone"
            PROVE  Len(q) + Len(x.pipe) + Len(r.todo) = r.next - f + l
        BY <1>2, <1>8, <2>0, <3>3, <4>1, <4>2, <4>4
      <4> QED
        BY <4>3, <4>4
    <3> HIDE DEF r
    <3>8. Sending(r, q, x, s \in gone', f, l, last)
      BY <3>4, <3>5, <3>6, <3>7 DEF Sending
    <3> QED
      BY <3>8 DEF r
  <2>2. CASE n > last
    <3>1. call'[s].at = "join" /\ call'[s].todo = <<>> /\ call'[s].next = n /\ n = last + 1
      BY <1>2, <1>6, <1>7, <2>2
    <3> QED
      BY <1>2, <1>3, <1>7, <1>8, <3>1 DEF Sending
  <2> QED
    BY <1>2, <2>1, <2>2
<1>10. call'[s].at \in HlsSteps /\ call'[s].at \in Writing /\ call'[s].at \in {"write", "join"} /\ call[s].at \notin {"idle", "left", "collect"}
  BY <1>1, <1>6 DEF HlsSteps, Writing
<1> QED
  BY <1>2, <1>3, <1>4, <1>5, <1>9, <1>10, HlsStep DEF f, l, last, q, x

LEMMA ForwardKeeps ==
    ASSUME Stream!StreamAssumption, IInv, NEW s \in Sessions, Stream!Forward(s)
    PROVE  IInv'
<1>1. remux[s].ffmpeg = "up" /\ remux[s].pipe # <<>>
  BY DEF Stream!Forward
<1>2. call[s].at \in Writing
  BY <1>1 DEF IInv, SessionOk, Known, Stream!NoPipe
<1> DEFINE f == Stream!First(s)
           l == Lead(s)
           last == Stream!Track(s).last
           q == Heard(sent[s])
           pipe == remux[s].pipe
           n == call[s].next
<1>3. /\ Typed /\ Known(s) /\ call[s].pos > 0 /\ Stream!Track(s).kind = "hls"
      /\ Sending(call[s], q, remux[s], s \in gone, f, l, last) /\ Runs(q, f, l, 0)
      /\ f \in Nat /\ last \in Nat /\ l \in {0, 1} /\ f >= l /\ q \in Seq(Int) /\ Len(q) \in Nat
      /\ sent[s] \in Seq(Int) /\ n \in (f + 1)..(last + 1)
  BY <1>2, Writes
<1>4. /\ plan' = plan /\ gone' = gone /\ ended' = ended /\ dash' = dash /\ call' = call
      /\ collected' = collected /\ arrived' = arrived
      /\ DOMAIN remux' = Sessions /\ (\A d \in Sessions \ {s} : remux'[d] = remux[d])
      /\ DOMAIN remux'[s] = {"ffmpeg", "pipe"} /\ remux'[s].ffmpeg = "up" /\ remux'[s].pipe = <<>>
      /\ DOMAIN sent' = Sessions /\ (\A d \in Sessions \ {s} : sent'[d] = sent[d]) /\ sent'[s] = sent[s] \o pipe
  BY <1>1, <1>3 DEF Stream!Forward, Typed, Known, Stream!dashVars
<1>5. Only(s)
  BY <1>3, <1>4 DEF Only, Typed
<1> HIDE DEF f, l, last, q, pipe, n
<1>6. /\ Runs(pipe, f, l, Len(q)) /\ Runs(call[s].todo, f, l, Len(q) + Len(pipe))
      /\ Len(q) + Len(pipe) + Len(call[s].todo) = n - f + l
      /\ call[s].todo \in Seq(Int) /\ (IF call[s].at = "write" THEN call[s].todo # <<>> ELSE call[s].todo = <<>>)
      /\ call[s].at = "join" => n = last + 1
  BY <1>1, <1>2, <1>3 DEF Sending, pipe, n
<1>7. pipe \in Seq(Int) /\ Len(pipe) \in Nat /\ Len(call[s].todo) \in Nat
  BY <1>6 DEF Runs
<1>8. Head(pipe) # Stream!Torn
  <2>1. Head(pipe) = Nth(f, l, Len(q) + 1)
    BY <1>1, <1>3, <1>6, RunWithoutFirst DEF pipe
  <2>2. Len(q) + 1 \in Nat \ {0}
    BY <1>3
  <2> QED
    BY <1>3, <2>1, <2>2, NthIsSegment
<1>9. sent'[s] \in Seq(Int) /\ Heard(sent'[s]) = q \o pipe
  BY <1>3, <1>4, <1>7, <1>8, HeardGrows DEF q
<1>10. Runs(q \o pipe, f, l, 0) /\ Len(q \o pipe) = Len(q) + Len(pipe)
  <2>1. 0 + Len(q) = Len(q)
    BY <1>3
  <2> QED
    BY <1>3, <1>6, <2>1, RunGoesOn
<1>11. Ordered(q \o pipe, f, l, last)
  <2>1. n \in Int /\ n <= last + 1 /\ f \in Int /\ l \in Int /\ last \in Int
    BY <1>3
  <2>2. Len(q) + Len(pipe) <= l + last - f + 1
    BY <1>3, <1>6, <1>7, <2>1, SumIsBounded
  <2> QED
    BY <1>10, <2>2 DEF Ordered
<1>12. Sending(call'[s], q \o pipe, remux'[s], s \in gone', f, l, last)
  <2>1. Runs(<<>>, f, l, Len(q \o pipe)) /\ Len(<<>>) = 0
    BY RunOfNone
  <2>2. Len(q \o pipe) + Len(<<>>) = Len(q) + Len(pipe)
    BY <1>3, <1>7, <1>10, <2>1
  <2> QED
    BY <1>3, <1>4, <1>6, <2>1, <2>2 DEF Sending, n
<1>13. call[s].at \in HlsSteps /\ call[s].at \notin {"idle", "left", "collect", "init", "first", "head"} /\ DOMAIN call[s] = CallFields
  BY <1>2, <1>3 DEF HlsSteps, Writing, Known
<1> QED
  BY <1>2, <1>3, <1>4, <1>5, <1>9, <1>11, <1>12, <1>13, HlsStep DEF f, l, last

LEMMA RemuxEndsKeeps ==
    ASSUME Stream!StreamAssumption, IInv, NEW s \in Sessions, Stream!RemuxEnds(s)
    PROVE  IInv'
<1>1. remux[s].ffmpeg = "up" /\ (s \in gone \/ (call[s].at = "join" /\ remux[s].pipe = <<>>))
  BY DEF Stream!RemuxEnds, Stream!At
<1>2. call[s].at \in Writing
  BY <1>1 DEF IInv, SessionOk, Known, Stream!NoPipe
<1> DEFINE f == Stream!First(s)
           l == Lead(s)
           last == Stream!Track(s).last
           q == Heard(sent[s])
           n == call[s].next
<1>3. /\ Typed /\ Known(s) /\ call[s].pos > 0 /\ Stream!Track(s).kind = "hls"
      /\ Sending(call[s], q, remux[s], s \in gone, f, l, last) /\ Ordered(q, f, l, last)
      /\ f \in Nat /\ last \in Nat /\ l \in {0, 1} /\ q \in Seq(Int) /\ Len(q) \in Nat
      /\ sent[s] \in Seq(Int) /\ n \in (f + 1)..(last + 1)
  BY <1>2, Writes
<1>4. /\ plan' = plan /\ gone' = gone /\ ended' = ended /\ dash' = dash /\ call' = call /\ sent' = sent
      /\ collected' = collected /\ arrived' = arrived
      /\ DOMAIN remux' = Sessions /\ (\A d \in Sessions \ {s} : remux'[d] = remux[d])
      /\ DOMAIN remux'[s] = {"ffmpeg", "pipe"} /\ remux'[s].ffmpeg = "gone"
  BY <1>1, <1>3 DEF Stream!RemuxEnds, Typed, Known, Stream!dashVars
<1>5. Only(s)
  BY <1>3, <1>4 DEF Only, Typed
<1>6. Sending(call'[s], q, remux'[s], s \in gone', f, l, last)
  <2> HIDE DEF f, l, last, q
  <2>1. s \in gone \/ (call[s].at = "join" /\ Len(q) = l + last - f + 1)
    <3>1. CASE call[s].at = "join" /\ remux[s].pipe = <<>>
      <4>1. Len(<<>>) = 0 /\ call[s].todo = <<>> /\ Len(q) + Len(<<>>) + Len(<<>>) = (last + 1) - f + l
        BY <1>1, <1>2, <1>3, <3>1 DEF Sending
      <4> QED
        BY <1>3, <3>1, <4>1
    <3> QED
      BY <1>1, <3>1
  <2> QED
    BY <1>2, <1>3, <1>4, <2>1 DEF Sending
<1>7. call[s].at \in HlsSteps /\ call[s].at \notin {"idle", "left", "collect", "init", "first", "head"} /\ DOMAIN call[s] = CallFields
  BY <1>2, <1>3 DEF HlsSteps, Writing, Known
<1> QED
  BY <1>2, <1>3, <1>4, <1>5, <1>6, <1>7, HlsStep DEF f, l, last, q

(* The prefetcher only touches the cache; a client's leaving is seen later.*)
LEMMA OthersKeep ==
    ASSUME IInv, NEW s \in Sessions, (\E ok \in BOOLEAN : Stream!Prefetch(s, ok)) \/ Stream!ClientLeaves(s)
    PROVE  IInv'
<1>1. UNCHANGED <<plan, call, sent, ended, remux, Stream!dashVars>> /\ gone \subseteq gone'
  BY DEF Stream!Prefetch, Stream!ClientLeaves
<1> QED
  BY <1>1, AllStay

-----------------------------------------------------------------------------
(* DASH                                                                    *)

LEMMA Collects ==
    ASSUME Stream!StreamAssumption, IInv, NEW s \in Sessions, call[s].at = "collect"
    PROVE  /\ Typed /\ Known(s) /\ call[s].pos > 0 /\ Stream!Track(s).kind = "dash" /\ remux[s] = Stream!NoPipe
           /\ Stream!First(s) \in Nat /\ Stream!Track(s).last \in Nat /\ Lead(s) = 0 /\ sent[s] \in Seq(Int)
           /\ Runs(Heard(sent[s]), Stream!First(s), 0, 0) /\ Ordered(Heard(sent[s]), Stream!First(s), 0, Stream!Track(s).last)
           /\ call[s].next \in Stream!First(s)..(Stream!Track(s).last + 1) /\ Len(Heard(sent[s])) = call[s].next - Stream!First(s)
           /\ Due(call[s].next, arrived[s], collected[s], dash[s], Stream!First(s), Stream!Track(s).last)
           /\ s \notin gone => AllComes(call[s].next, arrived[s], collected[s], dash[s], Stream!First(s), Stream!Track(s).last)
<1>1. Typed /\ Known(s)
  BY DEF IInv, SessionOk
<1>2. call[s].pos > 0 /\ Stream!Track(s).kind = "dash" /\ sent[s] \in Seq(Int) /\ remux[s] = Stream!NoPipe
  BY <1>1 DEF Known, Writing
<1>3. /\ Stream!First(s) \in Nat /\ Stream!Track(s).last \in Nat /\ Lead(s) = 0 /\ Stream!Audio(s) = Heard(sent[s])
      /\ Ordered(Heard(sent[s]), Stream!First(s), 0, Stream!Track(s).last) /\ Collecting(s)
  BY <1>2, Here
<1> QED
  BY <1>1, <1>2, <1>3 DEF Ordered, Collecting, Stream!At

(* A step of a worker.                                                     *)
LEMMA WorkerStep ==
    ASSUME Stream!StreamAssumption, IInv, NEW s \in Sessions, call[s].at = "collect",
           UNCHANGED <<plan, call, sent, ended, gone, remux, arrived>>,
           DOMAIN collected' = Sessions, \A d \in Sessions \ {s} : collected'[d] = collected[d],
           DOMAIN dash' = Sessions, \A d \in Sessions \ {s} : dash'[d] = dash[d], DOMAIN dash'[s] = Fetchers,
           Due(call[s].next, arrived[s], collected'[s], dash'[s], Stream!First(s), Stream!Track(s).last),
           s \notin gone => AllComes(call[s].next, arrived[s], collected'[s], dash'[s], Stream!First(s), Stream!Track(s).last)
    PROVE  IInv'
<1>1. /\ Typed /\ call[s].pos > 0 /\ Stream!Track(s).kind = "dash" /\ DOMAIN call[s] = CallFields /\ sent[s] \in Seq(Int)
      /\ Ordered(Heard(sent[s]), Stream!First(s), Lead(s), Stream!Track(s).last)
      /\ call[s].next \in Stream!First(s)..(Stream!Track(s).last + 1) /\ Len(Heard(sent[s])) = call[s].next - Stream!First(s)
  BY Collects DEF Known
<1>2. Only(s)
  BY <1>1 DEF Only, Typed
<1> QED
  BY <1>1, <1>2, DashStep

LEMMA WorkersKeep ==
    ASSUME Stream!StreamAssumption, IInv, NEW s \in Sessions, NEW w \in Fetchers,
           (\E ok \in BOOLEAN : Stream!WorkerFetches(s, w, ok)) \/ Stream!WorkerSends(s, w) \/ Stream!WorkerQuits(s, w)
    PROVE  IInv'
<1> DEFINE n == call[s].next
           f == Stream!First(s)
           last == Stream!Track(s).last
           kept == arrived[s]
           channel == collected[s]
           workers == dash[s]
<1>1. Typed /\ DOMAIN workers = Fetchers /\ workers[w].at # "done"
  BY DEF IInv, SessionOk, Known, Stream!WorkerFetches, Stream!WorkerSends, Stream!WorkerQuits
<1>2. call[s].at = "collect"
  BY <1>1 DEF IInv, SessionOk, Collecting, Stream!At
<1>3. /\ n \in f..(last + 1) /\ f \in Nat /\ last \in Nat
      /\ Due(n, kept, channel, workers, f, last)
      /\ s \notin gone => AllComes(n, kept, channel, workers, f, last)
  BY <1>2, Collects
<1>4. ASSUME NEW ok \in BOOLEAN, Stream!WorkerFetches(s, w, ok)
      PROVE  IInv'
  <2>1. /\ UNCHANGED <<plan, call, sent, ended, gone, remux, collected, arrived>> /\ DOMAIN dash' = Sessions /\ DOMAIN dash'[s] = Fetchers
        /\ \A d \in Sessions \ {s} : dash'[d] = dash[d]
        /\ \A v \in Fetchers \ {w} : dash'[s][v] = workers[v]
        /\ dash'[s][w] = [at |-> "send", seg |-> workers[w].seg, ok |-> ok]
    BY <1>1, <1>4 DEF Stream!WorkerFetches, Typed
  <2>2. \A v \in Fetchers : /\ dash'[s][v].seg = workers[v].seg /\ (dash'[s][v].at = "done" <=> workers[v].at = "done")
                            /\ dash'[s][v].ok = workers[v].ok \/ dash'[s][v].ok \in BOOLEAN
    BY <1>1, <2>1
  <2> DEFINE then == dash'[s]
  <2> HIDE DEF then, n, f, last, kept, channel, workers
  <2>3. Due(n, kept, channel, then, f, last)
    BY <1>3, <2>2 DEF Due, then, workers
  <2>4. s \notin gone => AllComes(n, kept, channel, then, f, last)
    BY <1>3, <2>2 DEF AllComes, then, workers
  <2> QED
    BY <1>1, <1>2, <2>1, <2>3, <2>4, WorkerStep DEF then, n, f, last, kept, channel, Typed
<1>5. CASE Stream!WorkerSends(s, w)
  <2> DEFINE then == dash'[s]
             more == collected'[s]
  <2>1. /\ UNCHANGED <<plan, call, sent, ended, gone, remux, arrived>> /\ DOMAIN dash' = Sessions /\ DOMAIN then = Fetchers
        /\ \A d \in Sessions \ {s} : dash'[d] = dash[d]
        /\ \A v \in Fetchers \ {w} : then[v] = workers[v]
    BY <1>1, <1>5 DEF Stream!WorkerSends, Typed
  <2>2. then[w].at = (IF workers[w].seg + N > last THEN "done" ELSE "fetch") /\ then[w].seg = workers[w].seg + N /\ then[w].ok = TRUE
    BY <1>1, <1>5, Sizes DEF Stream!WorkerSends, Typed, N
  <2>3. /\ DOMAIN collected' = Sessions /\ \A d \in Sessions \ {s} : collected'[d] = collected[d]
        /\ more = Append(channel, [seg |-> workers[w].seg, ok |-> workers[w].ok])
    BY <1>1, <1>5 DEF Stream!WorkerSends, Typed
  <2>4. workers[w].at = "send"
    BY <1>5 DEF Stream!WorkerSends
  <2> HIDE DEF then, more, n, f, last, kept, channel, workers
  <2>5. Due(n, kept, more, then, f, last) /\ (AllComes(n, kept, channel, workers, f, last) => AllComes(n, kept, more, then, f, last))
    <3>1. Sends(w, channel, workers, more, then, last)
      BY <1>1, <2>1, <2>2, <2>3, <2>4 DEF Sends
    <3> QED
      BY <1>3, <3>1, DueAfterSend
  <2>6. s \notin gone => AllComes(n, kept, more, then, f, last)
    BY <1>3, <2>5
  <2> QED
    BY <1>2, <2>1, <2>3, <2>5, <2>6, WorkerStep DEF then, more, n, f, last, kept
<1>6. CASE Stream!WorkerQuits(s, w)
  <2> DEFINE then == dash'[s]
  <2>1. /\ UNCHANGED <<plan, call, sent, ended, gone, remux, collected, arrived>> /\ DOMAIN dash' = Sessions /\ DOMAIN then = Fetchers
        /\ \A d \in Sessions \ {s} : dash'[d] = dash[d]
        /\ \A v \in Fetchers \ {w} : then[v] = workers[v]
        /\ s \in gone
    BY <1>1, <1>6 DEF Stream!WorkerQuits, Typed
  <2>2. then[w] = [workers[w] EXCEPT !.at = "done"]
    BY <1>1, <1>6 DEF Stream!WorkerQuits, Typed
  <2>3. then[w].at = "done" \/ then[w] = workers[w]
    BY <2>2
  <2> HIDE DEF then, n, f, last, kept, channel, workers
  <2>4. Due(n, kept, channel, then, f, last)
    <3>1. \A v \in Fetchers : then[v].at = "done" \/ then[v] = workers[v]
      BY <2>1, <2>3
    <3> QED
      BY <1>3, <3>1 DEF Due
  <2> QED
    BY <1>1, <1>2, <2>1, <2>4, WorkerStep DEF then, n, f, last, kept, channel, Typed
<1> QED
  BY <1>4, <1>5, <1>6

LEMMA CollectKeeps ==
    ASSUME Stream!StreamAssumption, IInv, NEW s \in Sessions, NEW torn \in BOOLEAN, Stream!Collect(s, torn)
    PROVE  IInv'
<1> DEFINE n == call[s].next
           f == Stream!First(s)
           last == Stream!Track(s).last
           kept == arrived[s]
           channel == collected[s]
           workers == dash[s]
           have == kept \cup {Head(channel).seg}
           due == {i \in have : n..i \subseteq have}
           k == Cardinality(due)
           run == [i \in 1..k |-> n + i - 1]
           q == Heard(sent[s])
<1>1. call[s].at = "collect" /\ channel # <<>> /\ (torn => sent[s] = <<>> /\ due # {})
  BY DEF Stream!Collect, Stream!At
<1>2. /\ Typed /\ Known(s) /\ call[s].pos > 0 /\ Stream!Track(s).kind = "dash" /\ remux[s] = Stream!NoPipe
      /\ f \in Nat /\ last \in Nat /\ Lead(s) = 0 /\ sent[s] \in Seq(Int) /\ Runs(q, f, 0, 0)
      /\ n \in f..(last + 1) /\ Len(q) = n - f
      /\ Due(n, kept, channel, workers, f, last)
      /\ s \notin gone => AllComes(n, kept, channel, workers, f, last)
  BY <1>1, Collects
<1>3. /\ plan' = plan /\ ended' = ended /\ gone' = gone /\ remux' = remux /\ dash' = dash
      /\ DOMAIN call' = Sessions /\ (\A d \in Sessions \ {s} : call'[d] = call[d])
      /\ DOMAIN call'[s] = CallFields /\ call'[s].pos = call[s].pos /\ call'[s].at = "collect" /\ call'[s].next = n + k
      /\ DOMAIN collected' = Sessions /\ (\A d \in Sessions \ {s} : collected'[d] = collected[d]) /\ collected'[s] = Tail(channel)
  BY <1>1, <1>2, Sizes DEF Stream!Collect, Typed, Known, CallFields
<1>4. /\ DOMAIN sent' = Sessions /\ (\A d \in Sessions \ {s} : sent'[d] = sent[d])
      /\ DOMAIN arrived' = Sessions /\ (\A d \in Sessions \ {s} : arrived'[d] = arrived[d]) /\ arrived'[s] = have \ due
  BY <1>1, <1>2, Sizes DEF Stream!Collect, Typed
<1>5. sent'[s] = (sent[s] \o (IF torn THEN <<Stream!Torn>> ELSE <<>>)) \o run
  BY <1>1, <1>2, Sizes DEF Stream!Collect, Typed
<1>6. Only(s)
  BY <1>2, <1>3, <1>4 DEF Only, Typed
<1> HIDE DEF n, f, last, kept, channel, workers, q
<1>7. /\ n + k \in n..(last + 1) /\ k \in Nat
      /\ Due(n + k, have \ due, Tail(channel), workers, f, last)
      /\ AllComes(n, kept, channel, workers, f, last) => AllComes(n + k, have \ due, Tail(channel), workers, f, last)
  <2>1. \A x, y, z : (x = have /\ y = {i \in x : n..i \subseteq x} /\ z = n + Cardinality(y))
           => /\ z \in n..(last + 1) /\ Cardinality(y) \in Nat
              /\ Due(z, x \ y, Tail(channel), workers, f, last)
              /\ AllComes(n, kept, channel, workers, f, last) => AllComes(z, x \ y, Tail(channel), workers, f, last)
    BY <1>1, <1>2, DueAfterCollect
  <2> QED
    BY <2>1
<1> HIDE DEF have, due, k
<1>8. Runs(run, f, 0, Len(q)) /\ Len(run) = k /\ run \in Seq(Int) /\ (run # <<>> => Head(run) # Stream!Torn)
  <2>1. run \in Seq(Int) /\ Len(run) = k /\ \A i \in 1..k : run[i] = n + i - 1
    BY SMTT(60), <1>2, <1>7
  <2>2. \A i \in 1..k : n + i - 1 = Nth(f, 0, Len(q) + i)
    BY <1>2, <1>7 DEF Nth
  <2>3. Runs(run, f, 0, Len(q))
    BY <2>1, <2>2 DEF Runs
  <2>4. ASSUME run # <<>>
        PROVE  Head(run) # Stream!Torn
    <3>1. k # 0 /\ Head(run) = run[1]
      BY <2>1, <2>4
    <3>2. 1 \in 1..k /\ n + 1 - 1 \in Nat
      BY <1>2, <1>7, <3>1
    <3> QED
      BY <2>1, <3>1, <3>2 DEF Stream!Torn
  <2> QED
    BY <2>1, <2>3, <2>4
<1> HIDE DEF run
<1>9. sent'[s] \in Seq(Int) /\ Heard(sent'[s]) = q \o run
  <2>1. CASE torn
    <3>1. sent[s] = <<>> /\ q = <<>>
      BY <1>1, <2>1 DEF q, Heard
    <3>2. <<>> \o <<Stream!Torn>> = <<Stream!Torn>> /\ <<>> \o run = run
      <4>1. Stream!Torn \in Int
        BY DEF Stream!Torn
      <4> QED
        BY <1>8, <4>1, ConcatEmptySeq
    <3>3. sent'[s] = <<Stream!Torn>> \o run
      BY <1>5, <2>1, <3>1, <3>2
    <3> QED
      BY <1>8, <3>1, <3>2, <3>3, HeardTorn
  <2>2. CASE ~ torn
    <3>1. sent'[s] = sent[s] \o run
      BY <1>2, <1>5, <2>2, ConcatEmptySeq
    <3> QED
      BY <1>2, <1>8, <3>1, HeardGrows DEF q
  <2> QED
    BY <2>1, <2>2
<1>10. Runs(q \o run, f, 0, 0) /\ Len(q \o run) = Len(q) + k
  <2>1. 0 + Len(q) = Len(q) /\ 0 \in Int
    BY <1>2
  <2>2. Runs(run, f, 0, 0 + Len(q))
    BY <1>8, <2>1
  <2>3. Runs(q \o run, f, 0, 0) /\ Len(q \o run) = Len(q) + Len(run)
    BY SMTT(60), <1>2, <2>1, <2>2, RunGoesOn
  <2> QED
    BY <1>8, <2>3
<1>11. /\ n + k \in f..(last + 1) /\ Len(q \o run) = (n + k) - f
       /\ Ordered(q \o run, f, 0, last)
  BY <1>2, <1>7, <1>10 DEF Ordered
<1> QED
  BY <1>1, <1>2, <1>3, <1>4, <1>6, <1>7, <1>9, <1>11, DashStep DEF f, last, workers, Known

-----------------------------------------------------------------------------

LEMMA StepKeeps ==
    ASSUME Stream!StreamAssumption, IInv, Stream!Next
    PROVE  IInv'
<1>1. PICK s \in Sessions : Stream!Main(s) \/ Stream!Background(s) \/ Stream!ClientLeaves(s)
  BY DEF Stream!Next
<1>2. CASE Stream!Main(s)
  <2>1. CASE Stream!Begin(s) \/ Stream!Leave(s) \/ Stream!ManifestRead(s)
    BY <2>1, BeginKeeps, LeaveKeeps, ManifestReadKeeps
  <2>2. CASE Stream!ManifestFails(s) \/ Stream!NoMediaSegment(s) \/ Stream!FetchFails(s) \/ Stream!ClientGone(s) \/ Stream!CollectFails(s)
    BY <2>2, FailuresKeep
  <2>3. CASE Stream!FetchInit(s) \/ Stream!FetchFirst(s)
    BY <2>3, FetchFirstKeeps
  <2>4. CASE \E b \in BOOLEAN : Stream!HeadWithInit(s, b) \/ Stream!HeadTagged(s, b) \/ Stream!Collect(s, b)
    BY <2>4, HeadWithInitKeeps, HeadTaggedKeeps, CollectKeeps
  <2>5. CASE Stream!WriteToClient(s) \/ Stream!WriteToPipe(s) \/ Stream!NextSegment(s) \/ Stream!LoopEnds(s)
    BY <2>5, WriteToClientKeeps, WriteToPipeKeeps, LoopKeeps
  <2>6. CASE Stream!Join(s) \/ Stream!Collected(s)
    BY <2>6, JoinKeeps, CollectedKeeps
  <2> QED
    BY <1>2, <2>1, <2>2, <2>3, <2>4, <2>5, <2>6 DEF Stream!Main
<1>3. CASE Stream!Background(s)
  BY <1>3, OthersKeep, ForwardKeeps, RemuxEndsKeeps, WorkersKeep DEF Stream!Background
<1>4. CASE Stream!ClientLeaves(s)
  BY <1>4, OthersKeep
<1> QED
  BY <1>1, <1>2, <1>3, <1>4

LEMMA Invariance ==
    ASSUME Stream!StreamAssumption
    PROVE  Stream!Spec => []IInv
<1>1. Stream!Init => IInv
  BY Initially
<1>2. IInv /\ [Stream!Next]_(Stream!vars) => IInv'
  <2>1. CASE Stream!Next
    BY <2>1, StepKeeps
  <2>2. ASSUME IInv, UNCHANGED Stream!vars
        PROVE  IInv'
    BY <2>2, AllStay DEF Stream!vars, Stream!dashVars
  <2> QED
    BY <2>1, <2>2
<1> QED
  BY <1>1, <1>2, PTL DEF Stream!Spec

-----------------------------------------------------------------------------
(* What is proved                                                          *)

LEMMA RunsAgree ==
    ASSUME NEW f, NEW l, NEW p, NEW q, Runs(p, f, l, 0), Runs(q, f, l, 0), Len(p) <= Len(q)
    PROVE  p = SubSeq(q, 1, Len(p)) /\ (Len(p) = Len(q) => p = q)
<1>1. p \in Seq(Int) /\ q \in Seq(Int) /\ Len(p) \in Nat /\ Len(q) \in Nat
  BY DEF Runs
<1>2. \A i \in 1..Len(p) : p[i] = q[i]
  BY <1>1 DEF Runs
<1>3. SubSeq(q, 1, Len(p)) \in Seq(Int) /\ Len(SubSeq(q, 1, Len(p))) = Len(p) /\ \A i \in 1..Len(p) : SubSeq(q, 1, Len(p))[i] = q[i]
  BY <1>1
<1>4. p = SubSeq(q, 1, Len(p))
  BY <1>1, <1>2, <1>3, SeqEqual
<1>5. Len(p) = Len(q) => p = q
  BY <1>1, <1>2, SeqEqual
<1> QED
  BY <1>4, <1>5

LEMMA WholeIsRun ==
    ASSUME Stream!StreamAssumption, IInv, NEW s \in Sessions, call[s].pos > 0
    PROVE  Runs(Stream!Whole(s), Stream!First(s), Lead(s), 0) /\ Len(Stream!Whole(s)) = Total(s)
<1> DEFINE f == Stream!First(s)
           l == Lead(s)
           last == Stream!Track(s).last
           m == last - f + 1
           lead == IF Stream!Track(s).init /\ Stream!Track(s).kind = "hls" THEN <<0>> ELSE <<>>
           media == [i \in 1..m |-> f + i - 1]
<1>1. /\ f \in Nat /\ l \in {0, 1} /\ last \in Nat /\ f <= last + 1 /\ Stream!Track(s).kind \in {"hls", "dash"}
      /\ Stream!Track(s).kind = "dash" => l = 0
  BY Here
<1>2. Stream!Whole(s) = lead \o media /\ Total(s) = l + m
  BY <1>1 DEF Stream!Whole, Total
<1>3. lead = (IF l = 1 THEN <<0>> ELSE <<>>)
  BY <1>1 DEF Lead
<1>4. m \in Nat
  BY <1>1
<1> HIDE DEF f, l, last, lead
<1>5. Runs(lead, f, l, 0) /\ Len(lead) = l
  <2>1. CASE l = 1
    <3>1. 0 = Nth(f, l, 0 + 1)
      BY <2>1 DEF Nth
    <3> QED
      BY <1>3, <2>1, <3>1, RunOfOne
  <2>2. CASE l = 0
    BY <1>3, <2>2, RunOfNone
  <2> QED
    BY <1>1, <2>1, <2>2
<1> HIDE DEF m
<1>6. Runs(media, f, l, l) /\ Len(media) = m
  <2>1. media \in Seq(Int) /\ Len(media) = m /\ \A i \in 1..m : media[i] = f + i - 1
    BY <1>1, <1>4
  <2>2. \A i \in 1..m : f + i - 1 = Nth(f, l, l + i)
    BY <1>1, <1>4 DEF Nth
  <2> QED
    BY <2>1, <2>2 DEF Runs
<1> HIDE DEF media
<1>7. 0 + Len(lead) = l /\ 0 \in Int
  BY <1>1, <1>5
<1>8. Runs(lead \o media, f, l, 0) /\ Len(lead \o media) = l + m
  <2>1. Runs(media, f, l, 0 + Len(lead))
    BY <1>6, <1>7
  <2> QED
    BY <1>5, <1>6, <1>7, <2>1, RunGoesOn
<1> QED
  BY <1>2, <1>8 DEF f, l

LEMMA Promised ==
    ASSUME Stream!StreamAssumption, IInv
    PROVE  Stream!SentInOrder /\ Stream!CompleteOrError
<1>1. ASSUME NEW s \in Sessions, call[s].pos > 0
      PROVE  /\ Stream!Audio(s) = SubSeq(Stream!Whole(s), 1, Len(Stream!Audio(s)))
             /\ Len(Stream!Audio(s)) = Total(s) => Stream!Audio(s) = Stream!Whole(s)
  <2>1. Runs(Stream!Whole(s), Stream!First(s), Lead(s), 0) /\ Len(Stream!Whole(s)) = Total(s)
    BY <1>1, WholeIsRun
  <2>2. Runs(Stream!Audio(s), Stream!First(s), Lead(s), 0) /\ Len(Stream!Audio(s)) <= Total(s)
    BY <1>1, Here DEF Ordered, Total
  <2> QED
    BY <2>1, <2>2, RunsAgree
<1>2. Stream!SentInOrder
  BY <1>1 DEF Stream!SentInOrder
<1>3. ASSUME NEW s \in Sessions, Stream!At(s, "idle"), call[s].pos > 0, s \notin gone, ended[s][Len(ended[s])] = "nil"
      PROVE  Stream!Audio(s) = Stream!Whole(s)
  <2>1. Complete(s)
    BY <1>3, Here
  <2> QED
    BY <1>1, <1>3, <2>1 DEF Complete, Stream!At
<1> QED
  BY <1>2, <1>3 DEF Stream!CompleteOrError

(* Whatever the segment cache holds, however far the prefetcher is, in     *)
(* whatever order the DASH workers answer, and wherever fetching, ffmpeg   *)
(* or the client gives up: what a client got of a track are its first      *)
(* segments, in order and each once (downloader.go's loop and collector).  *)
THEOREM StreamsAreInOrder == ASSUME Stream!StreamAssumption PROVE Stream!Spec => []Stream!SentInOrder
<1>1. IInv => Stream!SentInOrder
  BY Promised
<1> QED
  BY <1>1, Invariance, PTL

(* A call that returns nil to a client that is still there has sent the    *)
(* whole track: no result of a worker, nothing in the pipe to ffmpeg and no*)
(* segment of the loop is left behind.                                     *)
THEOREM NilMeansComplete == ASSUME Stream!StreamAssumption PROVE Stream!Spec => []Stream!CompleteOrError
<1>1. IInv => Stream!CompleteOrError
  BY Promised
<1> QED
  BY <1>1, Invariance, PTL

-----------------------------------------------------------------------------
(* In the composition, where the other ways to send audio have their turn. *)
LEMMA SessionsTakePart == StreamsSpec => Stream!Spec
<1>1. StreamsInit => Stream!Init
  BY DEF StreamsInit
<1>2. [StreamsNext]_all => [Stream!Next]_(Stream!vars)
  <2> SUFFICES ASSUME [StreamsNext]_all PROVE [Stream!Next]_(Stream!vars)
    OBVIOUS
  <2>1. CASE SessionStep
    BY <2>1 DEF SessionStep
  <2>2. CASE UNCHANGED sessionVars
    BY <2>2 DEF sessionVars, Stream!vars, Stream!dashVars, Stream!cacheVars
  <2> QED
    BY <2>1, <2>2 DEF StreamsNext, StitchStep, DownloadStep, SessionStep, ResidentStep, all
<1> QED
  BY <1>1, <1>2, PTL DEF StreamsSpec, Stream!Spec

(* What a client got of a track are its first segments, in order and each  *)
(* once.                                                                   *)
THEOREM SessionsAreInOrder == ASSUME Stream!StreamAssumption PROVE StreamsSpec => []SentInOrder
BY SessionsTakePart, StreamsAreInOrder, PTL DEF SentInOrder

(* A track reported to be complete is, unless its client has left.         *)
THEOREM SessionsAreComplete == ASSUME Stream!StreamAssumption PROVE StreamsSpec => []CompleteOrError
BY SessionsTakePart, NilMeansComplete, PTL DEF CompleteOrError

=============================================================================
