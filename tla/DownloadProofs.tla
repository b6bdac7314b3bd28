--------------------------- MODULE DownloadProofs ----------------------------
(***************************************************************************)
(* For every set of playlists, every number of workers and every capacity  *)
(* of the channels: what Stitch does is what OrderedStream promises.       *)
(*                                                                         *)
(* Two hypotheses.  Stitch replaces a worker count of zero, so there is a  *)
(* worker; and every playlist has an init segment or is started later, for *)
(* otherwise nextToWrite passes a segment that nobody has written.         *)
(*                                                                         *)
(* And what DownloadTrack makes of it, through two pipes, ffmpeg and the   *)
(* tagger: the client gets the segments in that order, and nothing after   *)
(* the call has returned.                                                  *)
(***************************************************************************)
EXTENDS Streams, SequenceTheorems, TLAPS

-----------------------------------------------------------------------------
(* Where a segment may be on its way from the producer to the writer.      *)
Elems(s) == {s[n] : n \in 1..Len(s)}

InQueue(n) == n \in Elems(queue)
InWorkers(n) == \E w \in Workers : worker[w].at \in {"downloading", "sending"} /\ worker[w].seg = n
InResults(n) == \E m \in 1..Len(results) : results[m].seg = n

(* What is written is the beginning of the plan: in the pool's phase, up   *)
(* to nextToWrite.                                                         *)
UpFront == IF input.hasInit THEN 2 ELSE 0
OutFollowsPlan ==
    /\ Len(out) <= Len(Plan(input))
    /\ \A n \in 1..Len(out) : out[n] = Plan(input)[n]
OutIsCurrent ==
    /\ pc \in {"fetchInit", "fetchFirst", "writeInit"} => input.hasInit /\ Len(out) = 0
    /\ pc = "writeFirst" => input.hasInit /\ Len(out) = 1
    /\ pc = "startPool" => Len(out) = UpFront
    /\ pc \in {"receive", "drain"} =>
           /\ StartAt(input) <= nextToWrite
           /\ nextToWrite <= input.len
           /\ Len(out) = nextToWrite - StartAt(input) + UpFront
    /\ pc = "receive" => nextToWrite < input.len /\ nextToWrite \notin buffer

(* Only segments that were asked for are under way.                        *)
Before == {"fetchInit", "fetchFirst", "writeInit", "writeFirst", "startPool"}
PoolWaits ==
    /\ toQueue = 0 /\ buffer = {} /\ queue = << >> /\ results = << >>
    /\ ~queueClosed /\ ~resultsClosed
    /\ \A w \in Workers : worker[w].at = "idle"
AskedFor ==
    /\ toQueue <= input.len
    /\ \A n \in buffer : n < toQueue
    /\ \A n \in Elems(queue) : n < toQueue
    /\ \A w \in Workers : worker[w].at \in {"downloading", "sending"} => worker[w].seg < toQueue
    /\ \A m \in 1..Len(results) : results[m].seg < toQueue

(* While nobody was told to stop, no segment is dropped: whatever the      *)
(* producer has passed on and nobody has written is somewhere, and the     *)
(* channels are closed when they have served their purpose only.           *)
NothingDropped ==
    \A n \in Nat : nextToWrite <= n /\ n < toQueue =>
        n \in buffer \/ InQueue(n) \/ InWorkers(n) \/ InResults(n)
ClosedInTime ==
    /\ queueClosed => toQueue = input.len
    /\ \A w \in Workers : worker[w].at = "exited" => queueClosed /\ queue = << >>
    /\ resultsClosed => \A w \in Workers : worker[w].at = "exited"

IInv ==
    /\ TypeOK
    /\ OutFollowsPlan /\ OutIsCurrent
    /\ pc \in Before => PoolWaits
    /\ pc # "returned" => AskedFor
    /\ pc # "returned" /\ ~cancelled => ClosedInTime
    /\ pc \in {"receive", "drain"} /\ ~cancelled => NothingDropped

-----------------------------------------------------------------------------
(* A channel: what is put at its end, and what is taken from its front.    *)
LEMMA AppendElems ==
    ASSUME NEW S, NEW s \in Seq(S), NEW e \in S
    PROVE  /\ Append(s, e) \in Seq(S) /\ Len(Append(s, e)) = Len(s) + 1
           /\ Append(s, e)[Len(s) + 1] = e
           /\ \A n \in 1..Len(s) : Append(s, e)[n] = s[n]
           /\ Elems(Append(s, e)) = Elems(s) \cup {e}
<1>1. /\ Append(s, e) \in Seq(S) /\ Len(Append(s, e)) = Len(s) + 1
      /\ Append(s, e)[Len(s) + 1] = e
      /\ \A n \in 1..Len(s) : Append(s, e)[n] = s[n]
  OBVIOUS
<1>2. 1..Len(Append(s, e)) = 1..Len(s) \cup {Len(s) + 1}
  BY <1>1
<1> QED
  BY <1>1, <1>2 DEF Elems

LEMMA ElemsBelong ==
    ASSUME NEW S, NEW s \in Seq(S)
    PROVE  \A n \in 1..Len(s) : s[n] \in S
OBVIOUS

LEMMA TailElems ==
    ASSUME NEW S, NEW s \in Seq(S), s # << >>
    PROVE  /\ Tail(s) \in Seq(S) /\ Len(Tail(s)) = Len(s) - 1 /\ Len(s) \in Nat \ {0}
           /\ Head(s) = s[1] /\ Head(s) \in S
           /\ \A n \in 1..Len(Tail(s)) : Tail(s)[n] = s[n + 1]
           /\ Elems(s) = Elems(Tail(s)) \cup {Head(s)}
<1>1. /\ Tail(s) \in Seq(S) /\ Len(Tail(s)) = Len(s) - 1 /\ Len(s) \in Nat \ {0}
      /\ Head(s) = s[1] /\ Head(s) \in S
      /\ \A n \in 1..Len(Tail(s)) : Tail(s)[n] = s[n + 1]
  OBVIOUS
<1>2. \A n \in 1..Len(s) : n = 1 \/ (n - 1 \in 1..Len(Tail(s)) /\ s[n] = Tail(s)[n - 1])
  BY <1>1
<1>3. \A n \in 1..Len(Tail(s)) : n + 1 \in 1..Len(s)
  BY <1>1
<1>4. Elems(s) \subseteq Elems(Tail(s)) \cup {Head(s)}
  BY <1>1, <1>2 DEF Elems
<1>5. Elems(Tail(s)) \cup {Head(s)} \subseteq Elems(s)
  <2>1. 1 \in 1..Len(s)
    BY <1>1
  <2> QED
    BY <1>1, <1>3, <2>1 DEF Elems
<1> QED
  BY <1>1, <1>4, <1>5

(* A playlist: where its plan begins and ends.                             *)
LEMMA PlanShape ==
    ASSUME TypeOK, FirstIsWritten
    PROVE  /\ input.len \in Nat \ {0} /\ FirstMedia(input) \in Nat
           /\ StartAt(input) \in Nat /\ 0 < StartAt(input) /\ StartAt(input) <= input.len
           /\ Plan(input) \in Seq(Nat)
           /\ Len(Plan(input)) = input.len - StartAt(input) + UpFront
           /\ input.hasInit => Plan(input)[1] = 0 /\ Plan(input)[2] = FirstMedia(input)
           /\ \A n \in Nat : StartAt(input) <= n /\ n < input.len =>
                  Plan(input)[n - StartAt(input) + UpFront + 1] = n
<1> DEFINE media == input.len - FirstMedia(input)
<1>1. /\ input \in [len : Nat \ {0}, hasInit : BOOLEAN, start : Nat]
      /\ FirstMedia(input) < input.len
      /\ input.hasInit \/ input.start > 0
  BY InputsAssumption DEF TypeOK, FirstIsWritten
<1>2. FirstMedia(input) \in Nat \ {0} /\ media \in Nat \ {0} /\ input.len \in Nat \ {0}
  BY <1>1 DEF FirstMedia
<1>3. CASE input.hasInit
  <2>1. StartAt(input) = FirstMedia(input) + 1 /\ UpFront = 2
    BY <1>3 DEF StartAt, UpFront
  <2>2. Plan(input) = [n \in 1..(media + 1) |-> IF n = 1 THEN 0 ELSE FirstMedia(input) + n - 2]
    BY <1>3 DEF Plan
  <2>3. Plan(input) \in Seq(Nat) /\ Len(Plan(input)) = media + 1
    <3>1. media + 1 \in Nat
      BY <1>2
    <3>2. \A n \in 1..(media + 1) : (IF n = 1 THEN 0 ELSE FirstMedia(input) + n - 2) \in Nat
      BY <1>2
    <3>3. Plan(input) \in [1..(media + 1) -> Nat]
      BY <2>2, <3>2
    <3> QED
      BY <3>1, <3>3
  <2> HIDE DEF media
  <2>4. \A n \in Nat : StartAt(input) <= n /\ n < input.len =>
            /\ n - StartAt(input) + UpFront + 1 \in 1..(media + 1)
            /\ n - StartAt(input) + UpFront + 1 # 1
            /\ FirstMedia(input) + (n - StartAt(input) + UpFront + 1) - 2 = n
    BY <1>1, <1>2, <2>1 DEF media
  <2>5. \A n \in Nat : StartAt(input) <= n /\ n < input.len =>
            Plan(input)[n - StartAt(input) + UpFront + 1] = n
    BY <2>2, <2>4
  <2>6. Plan(input)[1] = 0 /\ Plan(input)[2] = FirstMedia(input)
    BY <1>2, <2>2
  <2>7. Len(Plan(input)) = input.len - StartAt(input) + UpFront
    BY <1>2, <2>1, <2>3 DEF media
  <2> QED
    BY <1>1, <1>2, <2>1, <2>3, <2>5, <2>6, <2>7
<1>4. CASE ~input.hasInit
  <2>1. StartAt(input) = FirstMedia(input) /\ UpFront = 0
    BY <1>2, <1>4 DEF StartAt, UpFront
  <2>2. Plan(input) = [n \in 1..media |-> FirstMedia(input) + n - 1]
    BY <1>4 DEF Plan
  <2>3. Plan(input) \in Seq(Nat) /\ Len(Plan(input)) = media
    <3>1. \A n \in 1..media : FirstMedia(input) + n - 1 \in Nat
      BY <1>2
    <3>2. Plan(input) \in [1..media -> Nat]
      BY <2>2, <3>1
    <3> QED
      BY <1>2, <3>2
  <2> HIDE DEF media
  <2>4. \A n \in Nat : StartAt(input) <= n /\ n < input.len =>
            /\ n - StartAt(input) + UpFront + 1 \in 1..media
            /\ FirstMedia(input) + (n - StartAt(input) + UpFront + 1) - 1 = n
    BY <1>1, <1>2, <2>1 DEF media
  <2>5. \A n \in Nat : StartAt(input) <= n /\ n < input.len =>
            Plan(input)[n - StartAt(input) + UpFront + 1] = n
    BY <2>2, <2>4
  <2>6. Len(Plan(input)) = input.len - StartAt(input) + UpFront
    BY <1>2, <2>1, <2>3 DEF media
  <2> QED
    BY <1>1, <1>2, <1>4, <2>1, <2>3, <2>5, <2>6
<1> QED
  BY <1>3, <1>4

-----------------------------------------------------------------------------
(* Type correctness.                                                       *)
LEMMA TypeHolds == Init => TypeOK
<1> SUFFICES ASSUME Init PROVE TypeOK
  OBVIOUS
<1>1. Idle \in [at : {"idle", "downloading", "sending", "exited"}, seg : Nat, ok : BOOLEAN]
  BY DEF Idle
<1>2. worker \in [Workers -> [at : {"idle", "downloading", "sending", "exited"}, seg : Nat, ok : BOOLEAN]]
  BY <1>1 DEF Init
<1>3. << >> \in Seq(Nat) /\ << >> \in Seq([seg : Nat, ok : BOOLEAN])
  OBVIOUS
<1>4. pc \in {"fetchInit", "startPool"}
  BY DEF Init
<1> QED
  BY <1>2, <1>3, <1>4 DEF Init, TypeOK

LEMMA TypeStep == ASSUME TypeOK, [Next]_vars PROVE TypeOK'
<1> USE DEF TypeOK, Running, Return, caller, pool
<1> DEFINE States == [at : {"idle", "downloading", "sending", "exited"}, seg : Nat, ok : BOOLEAN]
<1>0. \A s \in {"idle", "downloading", "sending", "exited"}, n \in Nat, b \in BOOLEAN :
          Busy(s, n, b) \in States /\ Idle \in States
  BY DEF Busy, Idle
<1>1. CASE Caller
  <2>1. CASE FetchInit \/ FetchFirst \/ CallerFails
    BY <2>1 DEF FetchInit, FetchFirst, CallerFails
  <2>2. CASE WriteInit
    BY <2>2 DEF WriteInit
  <2>3. CASE WriteFirst
    <3>1. FirstMedia(input) \in Nat
      BY InputsAssumption DEF FirstMedia
    <3> QED
      BY <2>3, <3>1 DEF WriteFirst
  <2>4. CASE StartPool
    <3>1. StartAt(input) \in Nat
      BY InputsAssumption DEF FirstMedia, StartAt
    <3> QED
      BY <2>4, <3>1 DEF StartPool
  <2>5. CASE Receive
    <3>1. Tail(results) \in Seq([seg : Nat, ok : BOOLEAN]) /\ Head(results) \in [seg : Nat, ok : BOOLEAN]
      BY <2>5, TailElems DEF Receive
    <3> QED
      BY ZenonT(60), <2>5, <3>1 DEF Receive
  <2>6. CASE WriteNext
    BY <2>6 DEF WriteNext
  <2>7. CASE Drained \/ ResultsEnd
    BY <2>7 DEF Drained, ResultsEnd
  <2> QED
    BY <1>1, <2>1, <2>2, <2>3, <2>4, <2>5, <2>6, <2>7 DEF Caller
<1>2. CASE Produce
  BY <1>2 DEF Produce
<1>3. CASE ProducerEnds \/ CloseResults \/ Cancel
  BY <1>3 DEF ProducerEnds, CloseResults, Cancel
<1>4. ASSUME NEW w \in Workers, Work(w) PROVE TypeOK'
  <2>1. CASE Take(w)
    <3>1. Tail(queue) \in Seq(Nat) /\ Head(queue) \in Nat
      BY <2>1, TailElems DEF Take
    <3> QED
      BY <2>1, <3>1, <1>0 DEF Take
  <2>2. ASSUME NEW ok \in BOOLEAN, Downloaded(w, ok) PROVE TypeOK'
    BY <2>2, <1>0 DEF Downloaded
  <2>3. CASE Send(w)
    <3>1. [seg |-> worker[w].seg, ok |-> worker[w].ok] \in [seg : Nat, ok : BOOLEAN]
      OBVIOUS
    <3>2. results' \in Seq([seg : Nat, ok : BOOLEAN])
      BY <2>3, <3>1, AppendElems DEF Send
    <3>3. worker' \in [Workers -> States]
      BY <2>3, <1>0 DEF Send
    <3> QED
      BY <2>3, <3>2, <3>3 DEF Send
  <2>4. CASE WorkerQuits(w) \/ WorkerEnds(w)
    <3>1. worker' = [worker EXCEPT ![w] = Busy("exited", 0, FALSE)]
      BY <2>4 DEF WorkerQuits, WorkerEnds
    <3>2. Busy("exited", 0, FALSE) \in States
      BY <1>0
    <3>3. worker' \in [Workers -> States]
      BY <3>1, <3>2
    <3> QED
      BY <2>4, <3>3 DEF WorkerQuits, WorkerEnds
  <2> QED
    BY <1>4, <2>1, <2>2, <2>3, <2>4 DEF Work
<1>5. CASE UNCHANGED vars
  BY <1>5 DEF vars
<1> QED
  BY <1>1, <1>2, <1>3, <1>4, <1>5 DEF Next

-----------------------------------------------------------------------------
(* The writer.                                                             *)
LEMMA WriteExtends ==
    ASSUME TypeOK, OutFollowsPlan, UNCHANGED input, Len(out) < Len(Plan(input)),
           NEW n \in Nat, n = Plan(input)[Len(out) + 1], out' = Append(out, n)
    PROVE  OutFollowsPlan' /\ Len(out') = Len(out) + 1
<1>1. out \in Seq(Nat) /\ Len(out) \in Nat
  BY DEF TypeOK
<1>2. /\ Len(out') = Len(out) + 1 /\ out'[Len(out) + 1] = n
      /\ \A m \in 1..Len(out) : out'[m] = out[m]
  BY <1>1, AppendElems
<1>3. \A m \in 1..Len(out') : m = Len(out) + 1 \/ m \in 1..Len(out)
  BY <1>1, <1>2
<1>4. Plan(input)' = Plan(input)
  BY DEF Plan, FirstMedia
<1>5. Len(Plan(input)) \in Nat => Len(out') <= Len(Plan(input))
  BY <1>1, <1>2
<1>6. \A m \in 1..Len(out') : out'[m] = Plan(input)[m]
  BY <1>2, <1>3 DEF OutFollowsPlan
<1> QED
  BY <1>1, <1>2, <1>4, <1>6 DEF OutFollowsPlan

LEMMA OutStep ==
    ASSUME FirstIsWritten, IInv, [Next]_vars
    PROVE  OutFollowsPlan' /\ OutIsCurrent'
<1> DEFINE N == input.len
           S == StartAt(input)
           U == UpFront
<1>1. /\ N \in Nat \ {0} /\ S \in Nat /\ 0 < S /\ S <= N /\ U \in {0, 2}
      /\ Plan(input) \in Seq(Nat) /\ Len(Plan(input)) = N - S + U
      /\ input.hasInit => U = 2 /\ Plan(input)[1] = 0 /\ Plan(input)[2] = FirstMedia(input)
      /\ \A n \in Nat : S <= n /\ n < N => Plan(input)[n - S + U + 1] = n
  BY PlanShape DEF IInv, UpFront
<1>2. /\ input' = input => Plan(input)' = Plan(input) /\ StartAt(input)' = S /\ UpFront' = U
                           /\ FirstMedia(input) \in Nat
  BY <1>1, PlanShape DEF Plan, StartAt, FirstMedia, UpFront, IInv
<1>3. Len(out) \in Nat /\ nextToWrite \in Nat /\ out \in Seq(Nat)
  BY DEF IInv, TypeOK
<1>4. TypeOK /\ OutFollowsPlan /\ OutIsCurrent
  BY DEF IInv
<1> USE DEF Running, Return, caller, pool
<1> HIDE DEF N, S, U
<1>5. CASE FetchInit \/ FetchFirst
  BY <1>2, <1>4, <1>5 DEF FetchInit, FetchFirst, OutFollowsPlan, OutIsCurrent
<1>6. CASE WriteInit
  <2>1. input.hasInit /\ Len(out) = 0 /\ UNCHANGED input /\ out' = Append(out, 0) /\ pc' = "writeFirst"
    BY <1>4, <1>6 DEF WriteInit, OutIsCurrent
  <2>2. Len(out) < Len(Plan(input)) /\ Plan(input)[Len(out) + 1] = 0
    BY <1>1, <2>1
  <2>3. OutFollowsPlan' /\ Len(out') = 1
    BY <1>4, <2>1, <2>2, WriteExtends
  <2> QED
    BY <2>1, <2>3 DEF OutIsCurrent
<1>7. CASE WriteFirst
  <2>1. input.hasInit /\ Len(out) = 1 /\ UNCHANGED input /\ pc' = "startPool"
        /\ out' = Append(out, FirstMedia(input))
    BY <1>4, <1>7 DEF WriteFirst, OutIsCurrent
  <2>2. Len(out) < Len(Plan(input)) /\ Plan(input)[Len(out) + 1] = FirstMedia(input)
    BY <1>1, <2>1
  <2>3. OutFollowsPlan' /\ Len(out') = 2
    BY <1>2, <1>4, <2>1, <2>2, WriteExtends
  <2> QED
    BY <1>1, <1>2, <2>1, <2>3 DEF OutIsCurrent, U
<1>8. CASE CallerFails
  BY <1>2, <1>4, <1>8 DEF CallerFails, OutFollowsPlan, OutIsCurrent
<1>9. CASE StartPool
  <2>1. buffer = {} /\ UNCHANGED <<input, buffer, out>> /\ Len(out) = U /\ nextToWrite' = S
    BY <1>4, <1>9 DEF StartPool, OutIsCurrent, IInv, PoolWaits, Before, S, U
  <2>2. pc' = "returned" \/ (pc' = "receive" /\ S < N)
    BY <1>1, <1>9 DEF StartPool, S, N
  <2>3. OutFollowsPlan'
    BY <1>2, <1>4, <2>1 DEF OutFollowsPlan
  <2> QED
    BY <1>1, <1>2, <2>1, <2>2, <2>3 DEF OutIsCurrent, S, N, U
<1>10. CASE Receive
  <2>1. UNCHANGED <<input, out, nextToWrite>> /\ pc = "receive" /\ pc' \in {"drain", "returned"}
    BY <1>10 DEF Receive
  <2> QED
    BY <1>2, <1>4, <2>1 DEF OutIsCurrent, OutFollowsPlan, S, U
<1>11. CASE WriteNext
  <2>1. /\ UNCHANGED <<input, pc>> /\ pc = "drain" /\ nextToWrite' = nextToWrite + 1
        /\ out' = Append(out, nextToWrite) /\ nextToWrite \in buffer
    BY <1>11 DEF WriteNext
  <2>2. nextToWrite < N /\ S <= nextToWrite /\ Len(out) = nextToWrite - S + U
    <3>1. nextToWrite < toQueue /\ toQueue <= N /\ toQueue \in Nat
      BY <2>1 DEF IInv, AskedFor, TypeOK, N
    <3> QED
      BY <1>1, <1>3, <1>4, <2>1, <3>1 DEF OutIsCurrent, S, U
  <2>3. Len(out) < Len(Plan(input)) /\ Plan(input)[Len(out) + 1] = nextToWrite
    BY <1>1, <1>3, <2>2
  <2>4. OutFollowsPlan' /\ Len(out') = Len(out) + 1
    BY <1>3, <1>4, <2>1, <2>3, WriteExtends
  <2>5. S <= nextToWrite' /\ nextToWrite' <= N /\ Len(out') = nextToWrite' - S + U
    BY <1>1, <1>3, <2>1, <2>2, <2>4
  <2> QED
    BY <1>2, <2>1, <2>4, <2>5 DEF OutIsCurrent, N, S, U
<1>12. CASE Drained
  <2>1. UNCHANGED <<input, out, nextToWrite, buffer>> /\ pc = "drain" /\ nextToWrite \notin buffer
        /\ (pc' = "returned" \/ (pc' = "receive" /\ ~(nextToWrite >= N)))
    BY <1>12 DEF Drained, N
  <2>2. S <= nextToWrite /\ nextToWrite <= N /\ Len(out) = nextToWrite - S + U
    BY <1>4, <2>1 DEF OutIsCurrent, S, U, N
  <2>3. OutFollowsPlan'
    BY <1>2, <1>4, <2>1 DEF OutFollowsPlan
  <2> QED
    BY SMTT(60), <1>1, <1>2, <1>3, <2>1, <2>2, <2>3 DEF OutIsCurrent, S, U, N
<1>13. CASE ResultsEnd
  BY <1>2, <1>4, <1>13 DEF ResultsEnd, OutFollowsPlan, OutIsCurrent
<1>14. CASE UNCHANGED <<input, pc, nextToWrite, buffer, out>>
  BY <1>2, <1>4, <1>14 DEF OutFollowsPlan, OutIsCurrent, S, U
<1>15. (Produce \/ ProducerEnds \/ CloseResults \/ Cancel \/ (\E w \in Workers : Work(w)) \/ UNCHANGED vars)
            => UNCHANGED <<input, pc, nextToWrite, buffer, out>>
  BY DEF Produce, ProducerEnds, CloseResults, Cancel, Work, Take, Downloaded, Send, WorkerQuits,
         WorkerEnds, vars
<1> QED
  BY <1>5, <1>6, <1>7, <1>8, <1>9, <1>10, <1>11, <1>12, <1>13, <1>14, <1>15 DEF Next, Caller

-----------------------------------------------------------------------------
(* The pool.                                                               *)
LEMMA WaitsStep ==
    ASSUME IInv, [Next]_vars, pc' \in Before
    PROVE  PoolWaits'
<1> USE DEF Running, Return, caller, pool, Before, Started, IInv, TypeOK, PoolWaits
<1>1. CASE Caller
  BY <1>1 DEF Caller, FetchInit, FetchFirst, WriteInit, WriteFirst, CallerFails, StartPool, Receive,
              WriteNext, Drained, ResultsEnd
<1>2. CASE Produce \/ ProducerEnds \/ CloseResults
  <2>1. pc' = pc /\ toQueue > 0
    BY <1>2 DEF Produce, ProducerEnds, CloseResults
  <2> QED
    BY <2>1
<1>5. CASE Cancel
  BY <1>5 DEF Cancel
<1>3. ASSUME NEW w \in Workers, Work(w) PROVE PoolWaits'
  BY <1>3 DEF Work, Take, Downloaded, Send, WorkerQuits, WorkerEnds
<1>4. CASE UNCHANGED vars
  BY <1>4 DEF vars
<1> QED
  BY <1>1, <1>2, <1>3, <1>4, <1>5 DEF Next

LEMMA AskedForStep ==
    ASSUME FirstIsWritten, IInv, [Next]_vars, pc' # "returned"
    PROVE  AskedFor'
<1> USE DEF Running, Return, caller, pool
<1>0. TypeOK /\ TypeOK' /\ (pc # "returned" => AskedFor) /\ (pc \in Before => PoolWaits)
  BY TypeStep DEF IInv
<1>1. CASE Caller
  <2>1. pc # "returned"
    BY <1>1, <1>0 DEF Caller, FetchInit, FetchFirst, WriteInit, WriteFirst, CallerFails, StartPool, Receive,
              WriteNext, Drained, ResultsEnd, TypeOK
  <2>2. CASE FetchInit \/ FetchFirst \/ WriteInit \/ WriteFirst \/ CallerFails \/ Drained \/ ResultsEnd
    BY <1>0, <2>1, <2>2 DEF FetchInit, FetchFirst, WriteInit, WriteFirst, CallerFails, Drained, ResultsEnd, AskedFor
  <2>3. CASE StartPool
    <3>1. PoolWaits /\ pc \in Before
      BY <1>0, <2>3 DEF StartPool, Before
    <3>2. toQueue' \in {0, StartAt(input)} /\ StartAt(input) <= input.len /\ 0 <= input.len
      BY <1>0, <2>3, <3>1, PlanShape DEF StartPool, PoolWaits
    <3>3. UNCHANGED <<input, buffer, queue, worker, results>>
      BY <2>3 DEF StartPool
    <3>4. toQueue' <= input'.len
      BY <3>2, <3>3
    <3> QED
      BY <3>1, <3>3, <3>4 DEF AskedFor, PoolWaits, Elems
  <2>4. CASE Receive
    <3>1. /\ UNCHANGED <<input, toQueue, queue, worker>>
          /\ buffer' = buffer \cup {Head(results).seg} /\ results' = Tail(results) /\ results # << >>
      BY <2>4 DEF Receive
    <3>2. /\ Head(results) = results[1] /\ 1 \in 1..Len(results)
          /\ \A m \in 1..Len(results') : m + 1 \in 1..Len(results) /\ results'[m] = results[m + 1]
      BY <1>0, <3>1, TailElems DEF TypeOK
    <3> QED
      BY <1>0, <2>1, <3>1, <3>2 DEF AskedFor
  <2>5. CASE WriteNext
    BY <1>0, <2>1, <2>5 DEF WriteNext, AskedFor
  <2> QED
    BY <1>1, <2>2, <2>3, <2>4, <2>5 DEF Caller
<1>2. CASE Produce
  <2>1. /\ UNCHANGED <<input, pc, buffer, worker, results>> /\ toQueue < input.len
        /\ queue' = Append(queue, toQueue) /\ toQueue' = toQueue + 1
    BY <1>2 DEF Produce
  <2>2. queue \in Seq(Nat) /\ toQueue \in Nat /\ input.len \in Nat
    BY <1>0, PlanShape DEF TypeOK
  <2>3. Elems(queue') = Elems(queue) \cup {toQueue}
    BY <2>1, <2>2, AppendElems
  <2>4. toQueue' <= input.len /\ \A n \in Nat : n < toQueue => n < toQueue'
    BY <2>1, <2>2
  <2>5. Elems(queue) \subseteq Nat
    BY <2>2 DEF Elems
  <2>6. \A n \in Elems(queue') : n < toQueue'
    BY <1>0, <2>1, <2>2, <2>3, <2>4, <2>5 DEF AskedFor
  <2>7. \A m \in 1..Len(results) : results[m].seg \in Nat
    <3>1. results \in Seq([seg : Nat, ok : BOOLEAN])
      BY <1>0 DEF TypeOK
    <3>2. \A m \in 1..Len(results) : results[m] \in [seg : Nat, ok : BOOLEAN]
      BY <3>1, ElemsBelong
    <3> QED
      BY <3>2
  <2>8. \A w \in Workers : worker[w].seg \in Nat
    BY <1>0 DEF TypeOK
  <2>9. buffer \subseteq Nat
    BY <1>0 DEF TypeOK
  <2> QED
    BY <1>0, <2>1, <2>4, <2>6, <2>7, <2>8, <2>9 DEF AskedFor
<1>3. CASE ProducerEnds \/ CloseResults \/ Cancel
  BY <1>0, <1>3 DEF ProducerEnds, CloseResults, Cancel, AskedFor
<1>4. ASSUME NEW w \in Workers, Work(w) PROVE AskedFor'
  <2>1. CASE Take(w)
    <3>1. /\ UNCHANGED <<input, pc, buffer, results, toQueue>> /\ queue # << >> /\ queue' = Tail(queue)
          /\ worker' = [worker EXCEPT ![w] = Busy("downloading", Head(queue), FALSE)]
      BY <2>1 DEF Take
    <3>2. Elems(queue) = Elems(queue') \cup {Head(queue)}
      BY <1>0, <3>1, TailElems DEF TypeOK
    <3>3. worker'[w].seg = Head(queue) /\ \A v \in Workers \ {w} : worker'[v] = worker[v]
      BY <1>0, <3>1 DEF Busy, TypeOK
    <3> QED
      BY <1>0, <3>1, <3>2, <3>3 DEF AskedFor
  <2>2. ASSUME NEW ok \in BOOLEAN, Downloaded(w, ok) PROVE AskedFor'
    BY <1>0, <2>2 DEF Downloaded, AskedFor, TypeOK, Busy
  <2>3. CASE Send(w)
    <3>1. /\ UNCHANGED <<input, pc, buffer, queue, toQueue>> /\ worker[w].at = "sending"
          /\ worker' = [worker EXCEPT ![w] = Idle]
          /\ results' = Append(results, [seg |-> worker[w].seg, ok |-> worker[w].ok])
      BY <2>3 DEF Send
    <3>2. [seg |-> worker[w].seg, ok |-> worker[w].ok] \in [seg : Nat, ok : BOOLEAN]
      BY <1>0 DEF TypeOK
    <3>3. /\ Len(results) \in Nat /\ Len(results') = Len(results) + 1
          /\ results'[Len(results) + 1].seg = worker[w].seg
          /\ \A m \in 1..Len(results) : results'[m] = results[m]
      BY <1>0, <3>1, <3>2, AppendElems DEF TypeOK
    <3>4. \A m \in 1..Len(results') : m \in 1..Len(results) \/ m = Len(results) + 1
      BY <3>3
    <3>5. \A v \in Workers : worker'[v] = worker[v] \/ worker'[v].at = "idle"
      BY <1>0, <3>1 DEF TypeOK, Idle
    <3>6. worker[w].seg < toQueue /\ AskedFor
      BY <1>0, <3>1 DEF AskedFor
    <3>7. \A m \in 1..Len(results') : results'[m].seg < toQueue
      BY <3>3, <3>4, <3>6 DEF AskedFor
    <3>8. \A v \in Workers : worker'[v].at \in {"downloading", "sending"} => worker'[v].seg < toQueue
      BY <3>5, <3>6 DEF AskedFor
    <3> QED
      BY <3>1, <3>6, <3>7, <3>8 DEF AskedFor
  <2>4. CASE WorkerQuits(w) \/ WorkerEnds(w)
    <3>1. UNCHANGED <<input, pc, buffer, queue, toQueue, results>>
          /\ worker' = [worker EXCEPT ![w] = Busy("exited", 0, FALSE)]
      BY <2>4 DEF WorkerQuits, WorkerEnds
    <3> QED
      BY <1>0, <3>1 DEF AskedFor, TypeOK, Busy
  <2> QED
    BY <1>4, <2>1, <2>2, <2>3, <2>4 DEF Work
<1>5. CASE UNCHANGED vars
  BY <1>0, <1>5 DEF vars, AskedFor
<1> QED
  BY <1>1, <1>2, <1>3, <1>4, <1>5 DEF Next

(* Without a stop, channels are closed in order, ...                       *)
LEMMA ClosedStep ==
    ASSUME FirstIsWritten, IInv, [Next]_vars, pc' # "returned", ~cancelled'
    PROVE  ClosedInTime'
<1> USE DEF Running, Return, caller, pool
<1>0. TypeOK /\ TypeOK' /\ (pc \in Before => PoolWaits)
      /\ (pc # "returned" => AskedFor) /\ (pc # "returned" /\ ~cancelled => ClosedInTime)
  BY TypeStep DEF IInv
<1>1. pc # "returned" /\ ~cancelled /\ ~Stopped
  <2>1. pc # "returned" /\ ~cancelled
    BY <1>0 DEF Next, Caller, FetchInit, FetchFirst, WriteInit, WriteFirst, CallerFails, StartPool, Receive,
              WriteNext, Drained, ResultsEnd, Produce, ProducerEnds, CloseResults, Cancel, Work, Take,
              Downloaded, Send, WorkerQuits, WorkerEnds, TypeOK, vars
  <2> QED
    BY <1>0, <2>1 DEF TypeOK, Stopped
<1>2. ClosedInTime /\ AskedFor
  BY <1>0, <1>1
<1>3. CASE StartPool
  <2>1. PoolWaits /\ UNCHANGED <<queueClosed, resultsClosed, worker>>
    BY <1>0, <1>3 DEF StartPool, Before
  <2> QED
    BY <2>1 DEF ClosedInTime, PoolWaits
<1>4. CASE Caller /\ ~StartPool
  BY <1>2, <1>4 DEF Caller, FetchInit, FetchFirst, WriteInit, WriteFirst, CallerFails, Receive, WriteNext,
                    Drained, ResultsEnd, ClosedInTime
<1>5. CASE Produce
  BY <1>2, <1>5 DEF Produce, ClosedInTime
<1>6. CASE ProducerEnds
  BY <1>1, <1>2, <1>6 DEF ProducerEnds, ClosedInTime
<1>7. CASE CloseResults
  BY <1>2, <1>7 DEF CloseResults, ClosedInTime
<1>8. ASSUME NEW w \in Workers, Work(w) PROVE ClosedInTime'
  <2>1. CASE Take(w)
    BY <1>0, <1>2, <2>1 DEF Take, ClosedInTime, Busy, TypeOK
  <2>2. ASSUME NEW ok \in BOOLEAN, Downloaded(w, ok) PROVE ClosedInTime'
    BY <1>0, <1>2, <2>2 DEF Downloaded, ClosedInTime, Busy, TypeOK
  <2>3. CASE Send(w)
    BY <1>0, <1>2, <2>3 DEF Send, ClosedInTime, Idle, TypeOK
  <2>4. CASE WorkerEnds(w)
    BY <1>0, <1>2, <2>4 DEF WorkerEnds, ClosedInTime, Busy, TypeOK
  <2>5. ~WorkerQuits(w)
    BY <1>1 DEF WorkerQuits
  <2> QED
    BY <1>8, <2>1, <2>2, <2>3, <2>4, <2>5 DEF Work
<1>9. CASE Cancel \/ UNCHANGED vars
  BY <1>2, <1>9 DEF Cancel, vars, ClosedInTime
<1> QED
  BY <1>3, <1>4, <1>5, <1>6, <1>7, <1>8, <1>9 DEF Next

(* ... and no segment is dropped on its way.                               *)
LEMMA DroppedStep ==
    ASSUME FirstIsWritten, IInv, [Next]_vars, pc' \in {"receive", "drain"}, ~cancelled'
    PROVE  NothingDropped'
<1> USE DEF Running, Return, caller, pool
<1>0. TypeOK /\ TypeOK' /\ (pc \in Before => PoolWaits)
      /\ (pc \in {"receive", "drain"} /\ ~cancelled => NothingDropped)
  BY TypeStep DEF IInv
<1>1. CASE StartPool
  <2>1. nextToWrite' = toQueue' /\ toQueue' \in Nat
    BY <1>0, <1>1 DEF StartPool, TypeOK
  <2> QED
    BY <2>1 DEF NothingDropped
<1>2. ASSUME ~StartPool
      PROVE  pc \in {"receive", "drain"} /\ ~cancelled /\ outcome = "running"
  BY <1>0, <1>2 DEF Next, Caller, FetchInit, FetchFirst, WriteInit, WriteFirst, CallerFails, Receive,
              WriteNext, Drained, ResultsEnd, Produce, ProducerEnds, CloseResults, Cancel, Work, Take,
              Downloaded, Send, WorkerQuits, WorkerEnds, TypeOK, vars
<1> SUFFICES ASSUME ~StartPool, NEW n \in Nat, nextToWrite' <= n, n < toQueue'
             PROVE  n \in buffer' \/ InQueue(n)' \/ InWorkers(n)' \/ InResults(n)'
  BY <1>1 DEF NothingDropped
<1>3. nextToWrite <= n /\ n < toQueue => n \in buffer \/ InQueue(n) \/ InWorkers(n) \/ InResults(n)
  BY <1>0, <1>2 DEF NothingDropped
<1>4. CASE Caller
  <2>1. CASE Receive
    <3>1. /\ UNCHANGED <<nextToWrite, toQueue, queue, worker>>
          /\ buffer' = buffer \cup {Head(results).seg} /\ results' = Tail(results) /\ results # << >>
      BY <2>1 DEF Receive
    <3>2. /\ Head(results) = results[1] /\ Len(results') = Len(results) - 1 /\ Len(results) \in Nat
          /\ \A m \in 1..Len(results') : results'[m] = results[m + 1]
      BY <1>0, <3>1, TailElems DEF TypeOK
    <3>3. \A m \in 1..Len(results) : m = 1 \/ (m - 1 \in 1..Len(results') /\ results[m] = results'[m - 1])
      BY <3>2
    <3>4. InResults(n) => n \in buffer' \/ InResults(n)'
      BY <3>1, <3>2, <3>3 DEF InResults
    <3> QED
      BY <1>3, <3>1, <3>4 DEF InQueue, InWorkers
  <2>2. CASE WriteNext
    <3>1. /\ UNCHANGED <<toQueue, queue, worker, results>> /\ nextToWrite' = nextToWrite + 1
          /\ buffer' = buffer \ {nextToWrite} /\ nextToWrite \in Nat
      BY <1>0, <2>2 DEF WriteNext, TypeOK
    <3>2. nextToWrite <= n /\ n # nextToWrite
      BY <3>1
    <3> QED
      BY <1>3, <3>1, <3>2 DEF InQueue, InWorkers, InResults
  <2>3. CASE Drained \/ ResultsEnd \/ CallerFails
    BY <1>3, <2>3 DEF Drained, ResultsEnd, CallerFails, InQueue, InWorkers, InResults
  <2> QED
    BY <1>2, <1>4, <2>1, <2>2, <2>3 DEF Caller, FetchInit, FetchFirst, WriteInit, WriteFirst
<1>5. CASE Produce
  <2>1. /\ UNCHANGED <<nextToWrite, buffer, worker, results>>
        /\ queue' = Append(queue, toQueue) /\ toQueue' = toQueue + 1
    BY <1>5 DEF Produce
  <2>2. queue \in Seq(Nat) /\ toQueue \in Nat
    BY <1>0 DEF TypeOK
  <2>3. Elems(queue') = Elems(queue) \cup {toQueue}
    BY <2>1, <2>2, AppendElems
  <2>4. n < toQueue \/ n = toQueue
    BY <2>1, <2>2
  <2> QED
    BY <1>3, <2>1, <2>3, <2>4 DEF InQueue, InWorkers, InResults
<1>6. CASE ProducerEnds \/ CloseResults \/ Cancel \/ UNCHANGED vars
  BY <1>3, <1>6 DEF ProducerEnds, CloseResults, Cancel, vars, InQueue, InWorkers, InResults
<1>7. ASSUME NEW w \in Workers, Work(w)
      PROVE  n \in buffer' \/ InQueue(n)' \/ InWorkers(n)' \/ InResults(n)'
  <2>1. CASE Take(w)
    <3>1. /\ UNCHANGED <<nextToWrite, toQueue, buffer, results>> /\ queue # << >> /\ queue' = Tail(queue)
          /\ worker' = [worker EXCEPT ![w] = Busy("downloading", Head(queue), FALSE)]
          /\ worker[w].at = "idle"
      BY <2>1 DEF Take
    <3>2. Elems(queue) = Elems(queue') \cup {Head(queue)}
      BY <1>0, <3>1, TailElems DEF TypeOK
    <3>3. worker'[w].seg = Head(queue) /\ worker'[w].at = "downloading"
          /\ \A v \in Workers \ {w} : worker'[v] = worker[v]
      BY <1>0, <3>1 DEF Busy, TypeOK
    <3>4. InWorkers(n) => InWorkers(n)'
      BY <3>1, <3>3 DEF InWorkers
    <3>5. InQueue(n) => InQueue(n)' \/ InWorkers(n)'
      BY <3>2, <3>3 DEF InQueue, InWorkers
    <3> QED
      BY <1>3, <3>1, <3>4, <3>5 DEF InResults
  <2>2. ASSUME NEW ok \in BOOLEAN, Downloaded(w, ok)
        PROVE  n \in buffer' \/ InQueue(n)' \/ InWorkers(n)' \/ InResults(n)'
    BY <1>0, <1>3, <2>2 DEF Downloaded, TypeOK, Busy, InQueue, InWorkers, InResults
  <2>3. CASE Send(w)
    <3>1. /\ UNCHANGED <<nextToWrite, toQueue, buffer, queue>>
          /\ worker' = [worker EXCEPT ![w] = Idle]
          /\ results' = Append(results, [seg |-> worker[w].seg, ok |-> worker[w].ok])
      BY <2>3 DEF Send
    <3>2. [seg |-> worker[w].seg, ok |-> worker[w].ok] \in [seg : Nat, ok : BOOLEAN]
      BY <1>0 DEF TypeOK
    <3>3. /\ Len(results) \in Nat /\ Len(results') = Len(results) + 1
          /\ results'[Len(results) + 1].seg = worker[w].seg
          /\ \A m \in 1..Len(results) : results'[m] = results[m]
      BY <1>0, <3>1, <3>2, AppendElems DEF TypeOK
    <3>4. InResults(n) => InResults(n)'
      <4>1. \A m \in 1..Len(results) : m \in 1..Len(results')
        BY <3>3
      <4> QED
        BY <3>3, <4>1 DEF InResults
    <3>5. worker[w].seg = n => InResults(n)'
      <4>1. Len(results) + 1 \in 1..Len(results')
        BY <3>3
      <4> QED
        BY <3>3, <4>1 DEF InResults
    <3>6. \A v \in Workers \ {w} : worker'[v] = worker[v]
      BY <1>0, <3>1 DEF TypeOK
    <3>7. InWorkers(n) => InWorkers(n)' \/ InResults(n)'
      BY <3>5, <3>6 DEF InWorkers
    <3> QED
      BY <1>3, <3>1, <3>4, <3>7 DEF InQueue
  <2>4. CASE WorkerEnds(w)
    BY <1>0, <1>3, <2>4 DEF WorkerEnds, TypeOK, Busy, InQueue, InWorkers, InResults
  <2>5. ~WorkerQuits(w)
    BY <1>2 DEF WorkerQuits, Stopped
  <2> QED
    BY <1>7, <2>1, <2>2, <2>3, <2>4, <2>5 DEF Work
<1> QED
  BY <1>4, <1>5, <1>6, <1>7 DEF Next

-----------------------------------------------------------------------------
(* The inductive invariant.                                                *)
LEMMA InvHolds == ASSUME FirstIsWritten, Init PROVE IInv
<1>1. TypeOK
  BY TypeHolds
<1>2. out = << >> /\ Len(out) = 0 /\ Len(Plan(input)) \in Nat
  BY <1>1, PlanShape DEF Init
<1>3. OutFollowsPlan
  BY <1>2 DEF OutFollowsPlan
<1>4. pc = (IF input.hasInit THEN "fetchInit" ELSE "startPool")
  BY DEF Init
<1>5. OutIsCurrent
  BY <1>2, <1>4 DEF OutIsCurrent, UpFront
<1>6. PoolWaits
  BY DEF Init, PoolWaits, Idle
<1>7. AskedFor
  <2>1. 0 <= input.len
    BY <1>1, PlanShape
  <2> QED
    BY <1>6, <2>1 DEF AskedFor, PoolWaits, Elems
<1>8. ClosedInTime
  BY <1>6 DEF ClosedInTime, PoolWaits
<1> QED
  BY <1>1, <1>3, <1>4, <1>5, <1>6, <1>7, <1>8 DEF IInv

LEMMA InvStep == ASSUME FirstIsWritten, IInv, [Next]_vars PROVE IInv'
<1>1. TypeOK'
  BY TypeStep DEF IInv
<1> QED
  BY <1>1, OutStep, WaitsStep, AskedForStep, ClosedStep, DroppedStep DEF IInv

-----------------------------------------------------------------------------
(* A nil return because the results ended: only after a cancellation.  As  *)
(* long as nobody is told to stop, the segment that is waited for is still *)
(* under way when the channels are closed.                                 *)
LEMMA EndedEarly ==
    ASSUME SomeWorker, IInv, ResultsEnd
    PROVE  cancelled
<1> SUFFICES ASSUME ~cancelled PROVE FALSE
  OBVIOUS
<1>1. pc = "receive" /\ results = << >> /\ resultsClosed
  BY DEF ResultsEnd, Running
<1>2. TypeOK /\ ClosedInTime /\ NothingDropped /\ OutIsCurrent
  BY <1>1 DEF IInv
<1>3. \A w \in Workers : worker[w].at = "exited"
  BY <1>1, <1>2 DEF ClosedInTime
<1>4. queue = << >> /\ toQueue = input.len
  BY <1>2, <1>3 DEF ClosedInTime, SomeWorker
<1>5. nextToWrite \in Nat /\ nextToWrite <= nextToWrite /\ nextToWrite < toQueue /\ nextToWrite \notin buffer
  BY <1>1, <1>2, <1>4 DEF OutIsCurrent, TypeOK
<1>6. ~InQueue(nextToWrite) /\ ~InResults(nextToWrite) /\ ~InWorkers(nextToWrite)
  BY <1>1, <1>3, <1>4 DEF InQueue, InResults, InWorkers, Elems
<1> QED
  BY <1>2, <1>5, <1>6 DEF NothingDropped

(* Every step is a step of the promise, or none.                           *)
LEMMA StepKeepsPromise ==
    ASSUME FirstIsWritten, SomeWorker, IInv, [Next]_vars
    PROVE  [Promise!Next]_(Promise!vars)
<1> USE DEF Running, Return, caller, pool
<1>0. TypeOK /\ TypeOK' /\ OutFollowsPlan /\ OutIsCurrent
  BY TypeStep DEF IInv
<1>1. input' = input
  BY DEF Next, Caller, FetchInit, FetchFirst, WriteInit, WriteFirst, CallerFails, StartPool, Receive,
         WriteNext, Drained, ResultsEnd, Produce, ProducerEnds, CloseResults, Cancel, Work, Take,
         Downloaded, Send, WorkerQuits, WorkerEnds, vars
<1>2. Plan(input)' = Plan(input)
  BY <1>1 DEF Plan, FirstMedia
<1>3. /\ input.len \in Nat /\ StartAt(input) \in Nat /\ UpFront \in Nat
      /\ Plan(input) \in Seq(Nat) /\ Len(Plan(input)) = input.len - StartAt(input) + UpFront
      /\ out \in Seq(Nat)
  BY <1>0, PlanShape DEF TypeOK, UpFront
<1>4. ASSUME NEW n \in Nat, out' = Append(out, n), UNCHANGED <<outcome, cancelled>>, outcome = "running"
      PROVE  Promise!Next
  <2>1. Len(out') = Len(out) + 1 /\ Len(out) \in Nat /\ out'[Len(out) + 1] = n
    BY <1>3, <1>4, AppendElems
  <2>2. Len(out') <= Len(Plan(input)) /\ \A m \in 1..Len(out') : out'[m] = Plan(input)[m]
    BY <1>2, OutStep DEF OutFollowsPlan
  <2>3. Len(out) + 1 \in 1..Len(out')
    BY <2>1
  <2>4. Len(out) < Len(Plan(input)) /\ n = Plan(input)[Len(out) + 1]
    BY SMTT(60), <1>3, <2>1, <2>2, <2>3
  <2> QED
    BY <1>2, <1>4, <2>4 DEF Promise!Next, Promise!Write
<1>5. ASSUME Len(out) = Len(Plan(input))
      PROVE  out = Plan(input)
  <2>1. \A m \in 1..Len(out) : out[m] = Plan(input)[m]
    BY <1>0 DEF OutFollowsPlan
  <2>2. out \in [1..Len(out) -> Nat] /\ Plan(input) \in [1..Len(out) -> Nat]
    BY SMTT(60), <1>3, <1>5
  <2> QED
    BY <2>1, <2>2
<1>6. ASSUME UNCHANGED <<out, cancelled>>, outcome = "running", outcome' = "nil",
             out = Plan(input) \/ cancelled
      PROVE  Promise!Next
  BY <1>2, <1>6 DEF Promise!Next, Promise!Succeed
<1>7. ASSUME UNCHANGED <<out, cancelled>>, outcome = "running", outcome' = "error"
      PROVE  Promise!Next
  BY <1>2, <1>7 DEF Promise!Next, Promise!Fail
<1>8. ASSUME UNCHANGED <<out, cancelled, outcome>>
      PROVE  UNCHANGED Promise!vars
  BY <1>2, <1>8 DEF Promise!vars
<1>9. CASE Caller
  <2>1. CASE FetchInit \/ FetchFirst
    BY <1>8, <2>1 DEF FetchInit, FetchFirst
  <2>2. CASE WriteInit
    BY <1>4, <2>2 DEF WriteInit
  <2>3. CASE WriteFirst
    <3>1. FirstMedia(input) \in Nat
      BY <1>0, PlanShape
    <3> QED
      BY <1>4, <2>3, <3>1 DEF WriteFirst
  <2>4. CASE CallerFails
    BY <1>7, <2>4 DEF CallerFails
  <2>5. CASE StartPool
    <3>1. CASE StartAt(input) >= input.len
      <4>1. Len(out) = UpFront /\ StartAt(input) = input.len
        BY <1>0, <2>5, <3>1, PlanShape DEF StartPool, OutIsCurrent
      <4>2. out = Plan(input)
        BY <1>3, <1>5, <4>1
      <4> QED
        BY <1>6, <2>5, <3>1, <4>2 DEF StartPool
    <3>2. CASE ~(StartAt(input) >= input.len)
      BY <1>8, <2>5, <3>2 DEF StartPool
    <3> QED
      BY <3>1, <3>2
  <2>6. CASE Receive
    BY <1>7, <1>8, <2>6 DEF Receive
  <2>7. CASE WriteNext
    BY <1>0, <1>4, <2>7 DEF WriteNext, TypeOK
  <2>8. CASE Drained
    <3>1. CASE nextToWrite >= input.len
      <4>1. nextToWrite = input.len /\ Len(out) = nextToWrite - StartAt(input) + UpFront
        BY <1>0, <1>3, <2>8, <3>1 DEF Drained, OutIsCurrent, TypeOK
      <4>2. out = Plan(input)
        BY <1>3, <1>5, <4>1
      <4> QED
        BY <1>6, <2>8, <3>1, <4>2 DEF Drained
    <3>2. CASE ~(nextToWrite >= input.len)
      BY <1>8, <2>8, <3>2 DEF Drained
    <3> QED
      BY <3>1, <3>2
  <2>9. CASE ResultsEnd
    BY <1>6, <2>9, EndedEarly DEF ResultsEnd
  <2> QED
    BY <1>9, <2>1, <2>2, <2>3, <2>4, <2>5, <2>6, <2>7, <2>8, <2>9 DEF Caller
<1>10. CASE Cancel
  BY <1>2, <1>10 DEF Cancel, Promise!Next, Promise!Cancel
<1>11. CASE Produce \/ ProducerEnds \/ CloseResults \/ (\E w \in Workers : Work(w)) \/ UNCHANGED vars
  BY <1>8, <1>11 DEF Produce, ProducerEnds, CloseResults, Work, Take, Downloaded, Send, WorkerQuits,
                     WorkerEnds, vars
<1> QED
  BY <1>9, <1>10, <1>11 DEF Next

(* hls.Stitch, whatever its goroutines do: the segments of the playlist    *)
(* are written in order and without a gap, and a nil return means that all *)
(* were written or that the caller gave up.                                *)
THEOREM StitchKeepsPromise ==
    ASSUME FirstIsWritten, SomeWorker
    PROVE  Spec => KeepsPromise
<1>1. Init => IInv
  BY InvHolds
<1>2. IInv /\ [Next]_vars => IInv'
  BY InvStep
<1>3. Init => Promise!Init
  BY DEF Init, Promise!Init
<1>4. IInv /\ [Next]_vars => [Promise!Next]_(Promise!vars)
  BY StepKeepsPromise
<1> QED
  BY <1>1, <1>2, <1>3, <1>4, PTL DEF Spec, KeepsPromise, Promise!Spec

-----------------------------------------------------------------------------
(***************************************************************************)
(* DownloadTrack, which stitches into ffmpeg and lets a goroutine pass on  *)
(* what ffmpeg writes.                                                     *)
(***************************************************************************)
(* How chunks move from one stage to the next                              *)

LEMMA PutLast ==
    ASSUME NEW x \in Seq(Nat), NEW i \in Seq(Nat), NEW e \in Nat
    PROVE  x \o Append(i, e) = Append(x \o i, e)
<1>1. <<e>> \in Seq(Nat) /\ x \o i \in Seq(Nat)
  OBVIOUS
<1>2. Append(i, e) = i \o <<e>> /\ Append(x \o i, e) = (x \o i) \o <<e>>
  BY <1>1, AppendIsConcat
<1>3. (x \o i) \o <<e>> = x \o (i \o <<e>>)
  BY <1>1, ConcatAssociative
<1> QED
  BY <1>2, <1>3

Passes(x, c, i) ==
    /\ (x \o Append(c, Head(i))) \o Tail(i) = (x \o c) \o i
    /\ Append(c, Head(i)) \in Seq(Nat) /\ Tail(i) \in Seq(Nat)

LEMMA PassedOn ==
    ASSUME NEW x \in Seq(Nat), NEW c \in Seq(Nat), NEW i \in Seq(Nat), i # << >>
    PROVE  Passes(x, c, i)
<1> DEFINE h == Head(i)
           t == Tail(i)
<1>1. h \in Nat /\ t \in Seq(Nat) /\ i \in Seq(Nat) /\ <<h>> \in Seq(Nat) /\ x \o c \in Seq(Nat)
  OBVIOUS
<1>2. i = <<h>> \o t
  <2>1. Len(i) \in Nat /\ 1 \in 1..Len(i) /\ Len(i) \in 1..Len(i) /\ h = i[1]
    BY EmptySeq
  <2>2. SubSeq(i, 1, Len(i)) = <<i[1]>> \o SubSeq(i, 2, Len(i))
    BY <2>1, SubSeqRecursiveFirst
  <2>3. SubSeq(i, 1, Len(i)) = i /\ SubSeq(i, 2, Len(i)) = t
    BY SubSeqFull, TailIsSubSeq
  <2> QED
    BY <2>1, <2>2, <2>3
<1> HIDE DEF h, t
<1>3. Append(c, h) \in Seq(Nat) /\ x \o Append(c, h) = (x \o c) \o <<h>>
  <2>1. x \o Append(c, h) = Append(x \o c, h)
    BY <1>1, PutLast
  <2>2. Append(x \o c, h) = (x \o c) \o <<h>>
    BY <1>1, AppendIsConcat
  <2> QED
    BY <1>1, <2>1, <2>2
<1>4. ((x \o c) \o <<h>>) \o t = (x \o c) \o (<<h>> \o t)
  BY SMTT(60), <1>1, ConcatAssociative
<1>5. Append(c, h) \in Seq(Nat) /\ t \in Seq(Nat) /\ (x \o Append(c, h)) \o t = (x \o c) \o i
  BY <1>1, <1>2, <1>3, <1>4
<1> QED
  BY <1>5 DEF h, t, Passes

(* The first chunks of a track                                             *)
Begins(s, p) == Len(s) <= Len(p) /\ \A n \in 1..Len(s) : s[n] = p[n]

LEMMA BeginsIsPrefix ==
    ASSUME NEW s \in Seq(Nat), NEW p \in Seq(Nat), Begins(s, p)
    PROVE  s = SubSeq(p, 1, Len(s))
<1> DEFINE t == SubSeq(p, 1, Len(s))
<1>1. Len(s) \in Nat /\ Len(p) \in Nat /\ Len(s) <= Len(p)
  BY DEF Begins
<1>2. \A n \in 1..Len(s) : p[n] \in Nat
  BY <1>1
<1>3. t \in Seq(Nat) /\ Len(t) = Len(s) /\ \A n \in 1..Len(s) : t[n] = p[n]
  BY <1>1, <1>2, SubSeqProperties
<1> HIDE DEF t
<1>4. s = t
  BY <1>1, <1>3, SeqEqual DEF Begins
<1> QED
  BY <1>4 DEF t

LEMMA BeginsOfWhole ==
    ASSUME NEW s \in Seq(Nat), NEW r \in Seq(Nat), NEW p \in Seq(Nat), Begins(s \o r, p)
    PROVE  Begins(s, p)
<1>1. /\ Len(s) \in Nat /\ Len(r) \in Nat /\ Len(p) \in Nat /\ Len(s \o r) = Len(s) + Len(r)
      /\ \A n \in 1..Len(s) : (s \o r)[n] = s[n]
  OBVIOUS
<1>2. \A n \in 1..Len(s) : n \in 1..Len(s \o r)
  BY <1>1
<1> QED
  BY <1>1, <1>2 DEF Begins

LEMMA BeginsOneMore ==
    ASSUME NEW s \in Seq(Nat), NEW p \in Seq(Nat), Begins(s, p), Len(s) < Len(p)
    PROVE  /\ p[Len(s) + 1] \in Nat
           /\ Append(s, p[Len(s) + 1]) \in Seq(Nat) /\ Begins(Append(s, p[Len(s) + 1]), p)
           /\ Append(s, p[Len(s) + 1])[Len(Append(s, p[Len(s) + 1]))] = p[Len(s) + 1]
<1> DEFINE e == p[Len(s) + 1]
<1>1. Len(s) \in Nat /\ Len(p) \in Nat
  OBVIOUS
<1>2. e \in Nat
  BY <1>1
<1>3. /\ Append(s, e) \in Seq(Nat) /\ Len(Append(s, e)) = Len(s) + 1
      /\ \A n \in 1..Len(s) : Append(s, e)[n] = s[n]
      /\ Append(s, e)[Len(s) + 1] = e
  BY <1>2, AppendProperties
<1> DEFINE a == Append(s, e)
<1> HIDE DEF a
<1>4. \A n \in 1..Len(a) : n \in 1..Len(s) \/ n = Len(s) + 1
  BY <1>1, <1>3 DEF a
<1>5. Begins(a, p)
  BY <1>1, <1>3, <1>4 DEF Begins, a
<1> QED
  BY <1>2, <1>3, <1>5 DEF a

-----------------------------------------------------------------------------
(* The invariant.  Once the context is cancelled ffmpeg drops what it has, *)
(* but then nothing more is delivered.                                     *)
PipesTyped ==
    /\ track \in Seq(Nat) /\ pipedOut \in Seq(Nat) /\ delivered \in Seq(Nat) /\ tagged \in Seq(Nat)
    /\ stdout \in Seq(Nat) /\ chunk \in Seq(Nat) /\ stdin \in Seq(Nat) /\ piped \in BOOLEAN
Way == (((delivered \o tagged) \o stdout) \o chunk) \o stdin
OnTheWay ==
    /\ Begins(pipedOut, track) /\ Begins(delivered, track)
    /\ ~piped => delivered = pipedOut
    /\ piped /\ ~left => Way = pipedOut
Joined ==
    /\ ~piped => tagger = "none" /\ main \in {"stitch", "returned"}
    /\ main = "returned" => tagger # "reading"

DownloadInv == PipesTyped /\ OnTheWay /\ Joined

LEMMA StepDelivers ==
    ASSUME DownloadInv, Download!Next
    PROVE  PipesTyped' /\ OnTheWay'
<1> USE DEF PipesTyped, Download!stitch, Download!pipes
<1>0. /\ PipesTyped /\ OnTheWay /\ Joined
      /\ track \in Seq(Nat) /\ pipedOut \in Seq(Nat) /\ delivered \in Seq(Nat) /\ tagged \in Seq(Nat)
      /\ stdout \in Seq(Nat) /\ chunk \in Seq(Nat) /\ stdin \in Seq(Nat)
      /\ Begins(pipedOut, track) /\ Begins(delivered, track)
      /\ delivered \o tagged \in Seq(Nat) /\ (delivered \o tagged) \o stdout \in Seq(Nat)
      /\ ((delivered \o tagged) \o stdout) \o chunk \in Seq(Nat)
      /\ << >> \in Seq(Nat)
  BY DEF DownloadInv, OnTheWay
<1>1. CASE Download!StitchWrites
  <2> DEFINE e == track[Len(pipedOut) + 1]
  <2>1. /\ e \in Nat /\ pipedOut' = Append(pipedOut, e) /\ pipedOut' \in Seq(Nat)
        /\ Begins(pipedOut', track) /\ pipedOut'[Len(pipedOut')] = e
        /\ UNCHANGED track
    BY <1>0, <1>1, BeginsOneMore DEF Download!StitchWrites, Download!Stitch!Write
  <2>2. CASE piped
    <3>1. stdin' = Append(stdin, e) /\ UNCHANGED <<delivered, tagged, stdout, chunk, left, piped>>
      BY <1>1, <2>1, <2>2 DEF Download!StitchWrites, Download!Stitch!Write
    <3>2. ~left => Way' = pipedOut'
      <4> DEFINE x == ((delivered \o tagged) \o stdout) \o chunk
      <4>1. x \in Seq(Nat) /\ (~left => x \o stdin = pipedOut)
        BY <1>0, <2>2 DEF OnTheWay, Way
      <4>2. Way' = x \o Append(stdin, e)
        BY <3>1 DEF Way
      <4> HIDE DEF x, e
      <4>3. x \o Append(stdin, e) = Append(x \o stdin, e)
        BY SMTT(60), <1>0, <2>1, <4>1, PutLast
      <4> QED
        BY <2>1, <4>1, <4>2, <4>3
    <3>3. stdin' \in Seq(Nat)
      BY <1>0, <2>1, <3>1
    <3> QED
      BY <1>0, <2>1, <2>2, <3>1, <3>2, <3>3 DEF OnTheWay
  <2>3. CASE ~piped
    <3>1. delivered' = Append(delivered, e) /\ UNCHANGED <<stdin, tagged, stdout, chunk, left, piped>>
      BY <1>1, <2>1, <2>3 DEF Download!StitchWrites, Download!Stitch!Write
    <3>2. delivered' = pipedOut'
      BY <1>0, <2>1, <2>3, <3>1 DEF OnTheWay
    <3> QED
      BY <1>0, <2>1, <2>3, <3>1, <3>2 DEF OnTheWay
  <2> QED
    BY <1>0, <2>2, <2>3
<1>2. ASSUME UNCHANGED <<track, pipedOut, delivered, tagged, stdout, chunk, stdin, piped>>, left => left'
      PROVE  PipesTyped' /\ OnTheWay'
  BY <1>0, <1>2 DEF OnTheWay, Way
<1>3. CASE Download!StitchEnds \/ Download!CloseStdin \/ Download!WaitFFmpeg \/ Download!JoinTagger
          \/ Download!TaggerEnds \/ Download!ClientLeaves
  BY <1>2, <1>3 DEF Download!StitchEnds, Download!CloseStdin, Download!WaitFFmpeg,
       Download!JoinTagger, Download!TaggerEnds, Download!ClientLeaves,
       Download!Stitch!Succeed, Download!Stitch!Fail, Download!Stitch!Cancel
(* A stage takes the next chunk of the one before it.                      *)
<1>4. ASSUME UNCHANGED <<track, pipedOut, piped, left>>, piped /\ ~left => Way' = Way,
             UNCHANGED delivered, tagged' \in Seq(Nat), stdout' \in Seq(Nat), chunk' \in Seq(Nat), stdin' \in Seq(Nat)
      PROVE  PipesTyped' /\ OnTheWay'
  BY <1>0, <1>4 DEF OnTheWay
<1>5. CASE Download!FFmpegReads
  <2> DEFINE x == (delivered \o tagged) \o stdout
  <2>1. Passes(x, chunk, stdin)
    <3> HIDE DEF x
    <3>1. x \in Seq(Nat) /\ stdin # << >>
      BY <1>0, <1>5 DEF x, Download!FFmpegReads
    <3> QED
      BY <1>0, <3>1, PassedOn
  <2>2. Way' = Way
    BY <1>5, <2>1 DEF Download!FFmpegReads, Way, Passes
  <2> QED
    BY <1>0, <1>4, <1>5, <2>1, <2>2 DEF Download!FFmpegReads, Passes
<1>6. CASE Download!FFmpegWrites
  <2> DEFINE x == delivered \o tagged
  <2>1. Passes(x, stdout, chunk)
    <3> HIDE DEF x
    <3>1. x \in Seq(Nat) /\ chunk # << >>
      BY <1>0, <1>6 DEF x, Download!FFmpegWrites
    <3> QED
      BY <1>0, <3>1, PassedOn
  <2>2. Way' = Way
    BY <1>6, <2>1 DEF Download!FFmpegWrites, Way, Passes
  <2> QED
    BY <1>0, <1>4, <1>6, <2>1, <2>2 DEF Download!FFmpegWrites, Passes
<1>7. CASE Download!FFmpegExits
  <2>1. ~left => chunk = << >>
    BY <1>7 DEF Download!FFmpegExits
  <2>2. ~left => Way' = Way
    BY <1>7, <2>1 DEF Download!FFmpegExits, Way
  <2> QED
    BY <1>0, <1>4, <1>7, <2>2 DEF Download!FFmpegExits
<1>8. CASE Download!TaggerReads
  <2>1. tagged = << >> /\ stdout # << >> /\ tagged' = <<Head(stdout)>> /\ stdout' = Tail(stdout)
    BY <1>8 DEF Download!TaggerReads
  <2>2. Passes(delivered, tagged, stdout)
    BY <1>0, <2>1, PassedOn
  <2>3. Append(tagged, Head(stdout)) = <<Head(stdout)>>
    BY <2>1
  <2>4. Way' = Way
    BY <1>8, <2>1, <2>2, <2>3 DEF Download!TaggerReads, Way, Passes
  <2> QED
    BY <1>0, <1>4, <1>8, <2>1, <2>2, <2>3, <2>4 DEF Download!TaggerReads, Passes
<1>9. CASE Download!TaggerWrites
  <2>1. piped /\ ~left
    BY <1>0, <1>9 DEF Download!TaggerWrites, Joined
  <2>2. /\ delivered' = delivered \o tagged /\ tagged' = << >>
        /\ UNCHANGED <<track, pipedOut, left, piped, stdin, stdout, chunk>>
    BY <1>9 DEF Download!TaggerWrites
  <2>3. (delivered \o tagged) \o << >> = delivered \o tagged
    BY <1>0, ConcatEmptySeq
  <2>4. Way' = Way
    BY <2>2, <2>3 DEF Way
  <2>5. Begins(delivered', track)
    <3> DEFINE d == delivered \o tagged
    <3>1. Way = ((d \o stdout) \o chunk) \o stdin /\ d \in Seq(Nat) /\ d \o stdout \in Seq(Nat)
      BY <1>0 DEF Way
    <3> HIDE DEF d
    <3>2. (d \o stdout) \o chunk \in Seq(Nat)
      BY <1>0, <3>1
    <3>3. Begins(((d \o stdout) \o chunk) \o stdin, track)
      BY <1>0, <2>1, <3>1 DEF OnTheWay
    <3>4. Begins((d \o stdout) \o chunk, track)
      BY <1>0, <3>2, <3>3, BeginsOfWhole
    <3>5. Begins(d \o stdout, track)
      BY <1>0, <3>1, <3>4, BeginsOfWhole
    <3>6. Begins(d, track)
      BY <1>0, <3>1, <3>5, BeginsOfWhole
    <3> QED
      BY <2>2, <3>6 DEF d
  <2> QED
    BY <1>0, <2>1, <2>2, <2>4, <2>5 DEF OnTheWay
<1> QED
  BY <1>1, <1>3, <1>5, <1>6, <1>7, <1>8, <1>9 DEF Download!Next, Download!Main, Download!FFmpeg, Download!Tagger

LEMMA StepJoins ==
    ASSUME DownloadInv, Download!Next
    PROVE  Joined'
<1> USE DEF DownloadInv, PipesTyped, Joined, Download!stitch, Download!pipes
<1>1. CASE Download!Main
  BY <1>1 DEF Download!Main, Download!StitchWrites, Download!StitchEnds, Download!CloseStdin,
       Download!WaitFFmpeg, Download!JoinTagger
<1>2. CASE Download!FFmpeg
  BY <1>2 DEF Download!FFmpeg, Download!FFmpegReads, Download!FFmpegWrites, Download!FFmpegExits
<1>3. CASE Download!Tagger
  BY <1>3 DEF Download!Tagger, Download!TaggerReads, Download!TaggerWrites, Download!TaggerEnds
<1>4. CASE Download!ClientLeaves
  BY <1>4 DEF Download!ClientLeaves
<1> QED
  BY <1>1, <1>2, <1>3, <1>4 DEF Download!Next

LEMMA DownloadInitially == ASSUME Download!DownloadAssumption PROVE Download!Init => DownloadInv
<1> SUFFICES ASSUME Download!Init PROVE DownloadInv
  OBVIOUS
<1>1. PipesTyped
  BY EmptySeq DEF Download!Init, PipesTyped, Download!Stitch!Init, Download!DownloadAssumption
<1>2. Begins(<< >>, track)
  BY <1>1, EmptySeq DEF Begins, PipesTyped
<1>3. Way = << >>
  BY DEF Download!Init, Way
<1>4. Joined
  BY DEF Download!Init, Joined
<1> QED
  BY <1>1, <1>2, <1>3, <1>4 DEF DownloadInv, OnTheWay, Download!Init, Download!Stitch!Init

LEMMA DownloadInvariance == ASSUME Download!DownloadAssumption PROVE Download!Spec => []DownloadInv
<1>1. Download!Init => DownloadInv
  BY DownloadInitially
<1>2. DownloadInv /\ [Download!Next]_(Download!vars) => DownloadInv'
  <2>1. CASE Download!Next
    BY <2>1, StepDelivers, StepJoins DEF DownloadInv
  <2>2. CASE UNCHANGED Download!vars
    BY <2>2 DEF Download!vars, Download!stitch, Download!pipes, DownloadInv, PipesTyped, OnTheWay, Way, Joined
  <2> QED
    BY <2>1, <2>2
<1> QED
  BY <1>1, <1>2, PTL DEF Download!Spec

(* DownloadTrack: what the client has is the beginning of the track, and   *)
(* what was stitched and not delivered is on its way to the client, in     *)
(* order.                                                                  *)
THEOREM TracksArriveInOrder == ASSUME Download!DownloadAssumption PROVE Download!Spec => []Download!DeliveredInOrder
<1>1. DownloadInv => Download!DeliveredInOrder
  <2> SUFFICES ASSUME DownloadInv PROVE Download!DeliveredInOrder
    OBVIOUS
  <2>1. delivered = SubSeq(track, 1, Len(delivered))
    BY BeginsIsPrefix DEF DownloadInv, PipesTyped, OnTheWay
  <2>2. piped /\ ~left => delivered \o tagged \o stdout \o chunk \o stdin = pipedOut
    BY DEF DownloadInv, OnTheWay, Way
  <2> QED
    BY <2>1, <2>2 DEF DownloadInv, OnTheWay, Download!DeliveredInOrder
<1> QED
  BY <1>1, DownloadInvariance, PTL

(* DownloadTrack: nobody writes to the response once the call returned.    *)
THEOREM NothingAfterReturn == ASSUME Download!DownloadAssumption PROVE Download!Spec => Download!SilentAfterReturn
<1>1. DownloadInv /\ [Download!Next]_(Download!vars) => [main = "returned" => delivered' = delivered]_(Download!vars)
  <2> SUFFICES ASSUME DownloadInv, [Download!Next]_(Download!vars), main = "returned" PROVE delivered' = delivered
    OBVIOUS
  <2>1. tagger # "reading"
    BY DEF DownloadInv, Joined
  <2>2. CASE Download!Next
    BY <2>1, <2>2 DEF Download!Next, Download!Main, Download!FFmpeg, Download!Tagger,
         Download!StitchWrites, Download!StitchEnds, Download!CloseStdin, Download!WaitFFmpeg,
         Download!JoinTagger, Download!FFmpegReads, Download!FFmpegWrites,
         Download!FFmpegExits, Download!TaggerReads, Download!TaggerWrites,
         Download!TaggerEnds, Download!ClientLeaves
  <2>3. CASE UNCHANGED Download!vars
    BY <2>3 DEF Download!vars
  <2> QED
    BY <2>2, <2>3
<1> QED
  BY <1>1, DownloadInvariance, PTL DEF Download!Spec, Download!SilentAfterReturn

-----------------------------------------------------------------------------
(* In the composition, where the other ways to send audio have their turn. *)
LEMMA DownloadsTakePart == StreamsSpec => Download!Spec
<1>1. StreamsInit => Download!Init
  BY DEF StreamsInit
<1>2. [StreamsNext]_all => [Download!Next]_(Download!vars)
  <2> SUFFICES ASSUME [StreamsNext]_all PROVE [Download!Next]_(Download!vars)
    OBVIOUS
  <2>1. CASE DownloadStep
    BY <2>1 DEF DownloadStep
  <2>2. CASE UNCHANGED downloadVars
    BY <2>2 DEF downloadVars, Download!vars, Download!stitch, Download!pipes
  <2> QED
    BY <2>1, <2>2 DEF StreamsNext, StitchStep, DownloadStep, SessionStep, ResidentStep, all
<1> QED
  BY <1>1, <1>2, PTL DEF StreamsSpec, Download!Spec

(* What the client of a download has is a prefix of its track, what is     *)
(* between Stitch and the client is what is to come.                       *)
THEOREM DownloadsArriveInOrder == ASSUME Download!DownloadAssumption PROVE StreamsSpec => []DeliveredInOrder
BY DownloadsTakePart, TracksArriveInOrder, PTL DEF DeliveredInOrder

(* After a download has returned nobody writes to its response.            *)
THEOREM DownloadsEndSilently == ASSUME Download!DownloadAssumption PROVE StreamsSpec => SilentAfterReturn
BY DownloadsTakePart, NothingAfterReturn, PTL DEF SilentAfterReturn

=============================================================================
