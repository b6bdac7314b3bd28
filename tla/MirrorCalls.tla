----------------------------- MODULE MirrorCalls -----------------------------
(***************************************************************************)
(* provider/tidal/client.go: the four ways in which a call is sent to the  *)
(* mirrors.  "get" tries one after the other, "gather" asks several and    *)
(* collects what comes, "shotgun" asks batch after batch until one of them *)
(* succeeds, and "stream" races for a stream URL, one mirror first, then   *)
(* batches that overlap.                                                   *)
(*                                                                         *)
(* Task i of a call is its request to the i-th mirror.  Its result waits   *)
(* in a channel; results are received in any order, as they may have been  *)
(* sent in any.  What a call adds to its mirrors' health is the subject of *)
(* MirrorManager.                                                          *)
(***************************************************************************)
EXTENDS Naturals, FiniteSets

CONSTANTS
    Callers,      \* goroutines that call
    Sizes,        \* how many mirrors may be in rotation when a call begins
    BatchSize,    \* requests of a batch
    GatherLimit,  \* mirrors a search asks
    Tries         \* mirrors a plain call tries

CallsAssumption ==
    /\ Sizes \subseteq Nat /\ IsFiniteSet(Sizes) /\ Sizes # {}
    /\ BatchSize \in Nat \ {0} /\ GatherLimit \in Nat \ {0} /\ Tries \in Nat \ {0}

VARIABLES
    call,  \* caller -> its call
    task   \* caller -> task -> where it is

Least(a, b) == IF a < b THEN a ELSE b
Most == Tries + (CHOOSE n \in Sizes : \A k \in Sizes : k <= n)
Tasks == 1..Most

NoCall == [kind |-> "none", at |-> "rest", n |-> 0, sent |-> 0, got |-> 0, best |-> 0]
NoTasks == [i \in Tasks |-> "off"]

CallsInit == call = [c \in Callers |-> NoCall] /\ task = [c \in Callers |-> NoTasks]

CallAt(c, step) == call[c].at = step
Kind(c) == call[c].kind
Resting(c) == call[c].at = "rest"
Ended(c) == call[c].at \in {"answered", "failed", "left"}

(* What a task offers: the first of every two asks for HLS, which is what  *)
(* a stream waits for, the second for a single file, which is preferred    *)
(* when nothing is exact (isBetterResult).                                 *)
Exact(c, i) == Kind(c) # "stream" \/ i % 2 = 1
Better(c, i) == IF call[c].best = 0 \/ (i % 2 = 0 /\ call[c].best % 2 = 1) THEN i ELSE call[c].best

Launch(c, first, last) ==
    task' = [task EXCEPT ![c] = [i \in Tasks |-> IF i \in first..last THEN "running" ELSE @[i]]]

(* Batches of a stream and of a shotgun, everybody at once for a search.   *)
FirstBatch(kind, n) ==
    CASE kind = "stream" -> 1
      [] kind = "gather" -> Least(GatherLimit, n)
      [] kind = "shotgun" -> Least(BatchSize, n)
      [] kind = "get" -> 1

(* A plain call goes to the list, the others to mirrors in rotation.       *)
Begin(c, kind, listed) ==
    /\ Resting(c)
    /\ \E n \in IF listed THEN Sizes ELSE {0} :
           LET m == IF kind = "get" THEN Tries ELSE IF kind = "gather" THEN Least(GatherLimit, n) ELSE n
           IN  IF m = 0
               THEN /\ call' = [call EXCEPT ![c] = [NoCall EXCEPT !.kind = kind, !.at = "failed"]]
                    /\ UNCHANGED task
               ELSE /\ call' = [call EXCEPT ![c] =
                          [NoCall EXCEPT !.kind = kind, !.n = m, !.sent = FirstBatch(kind, n),
                                         !.at = IF kind = "stream" THEN "fast" ELSE "wait"]]
                    /\ Launch(c, 1, FirstBatch(kind, n))

(* An error that may pass with another mirror matters to a plain call only.*)
Results(c) == {"ok", "final"} \cup (IF Kind(c) = "get" THEN {"passing"} ELSE {})

(* Mutant: the channel has no buffer, so that a result needs its receiver. *)
AnswerUnbuffered(c, i) ==
    /\ task[c][i] = "running" /\ ~Ended(c)
    /\ \E result \in Results(c) : task' = [task EXCEPT ![c][i] = result]
    /\ UNCHANGED call

(* A task ends: with an answer, or with an error, which may be passing.    *)
(* The channel has room for all of them; when the call has ended, its      *)
(* context is cancelled and nobody receives the result any more.           *)
Answer(c, i) ==
    /\ task[c][i] = "running"
    /\ IF Ended(c) THEN task' = [task EXCEPT ![c][i] = "off"]
       ELSE \E result \in Results(c) : task' = [task EXCEPT ![c][i] = result]
    /\ UNCHANGED call

Finish(c, how, best) ==
    call' = [call EXCEPT ![c] = [NoCall EXCEPT !.kind = Kind(c), !.at = how, !.n = call[c].n, !.best = best]]

Received(c, i) == task' = [task EXCEPT ![c][i] = "off"]

(* executeStreamTask on the best mirror, with a short timeout; if it fails *)
(* the race begins, and begins with the same mirror again.                 *)
FastPath(c) ==
    /\ CallAt(c, "fast") /\ task[c][1] \in Results(c)
    /\ IF task[c][1] = "ok" THEN Finish(c, "answered", 1) /\ Received(c, 1)
       ELSE /\ call' = [call EXCEPT ![c].at = "wait", ![c].sent = Least(BatchSize, call[c].n)]
            /\ Launch(c, 1, Least(BatchSize, call[c].n))

(* Mutant: the request of the fast path is counted as one of the race.     *)
RaceOverEarly(c, sent, got, best) ==
    (sent >= call[c].n /\ best # 0) \/ got + 1 >= call[c].n

(* The race is over when everybody was asked and somebody has answered, or *)
(* when all have.                                                          *)
RaceOver(c, sent, got, best) ==
    (sent >= call[c].n /\ best # 0) \/ got >= call[c].n

RaceGoesOn(c, sent, got, best) ==
    IF RaceOver(c, sent, got, best)
    THEN Finish(c, IF best # 0 THEN "answered" ELSE "failed", best)
    ELSE call' = [call EXCEPT ![c].sent = sent, ![c].got = got, ![c].best = best]

Race(c, i) ==
    /\ CallAt(c, "wait") /\ Kind(c) = "stream" /\ task[c][i] \in Results(c)
    /\ Received(c, i)
    /\ IF task[c][i] = "ok" /\ Exact(c, i) THEN Finish(c, "answered", i)
       ELSE RaceGoesOn(c, call[c].sent, call[c].got + 1,
                       IF task[c][i] = "ok" THEN Better(c, i) ELSE call[c].best)

(* A hundred and fifty milliseconds without a winner: the next batch.      *)
Hedge(c) ==
    /\ CallAt(c, "wait") /\ Kind(c) = "stream" /\ call[c].sent < call[c].n
    /\ LET sent == Least(call[c].sent + BatchSize, call[c].n)
       IN  Launch(c, call[c].sent + 1, sent) /\ RaceGoesOn(c, sent, call[c].got, call[c].best)

(* A search collects until all have answered or failed, or until a quarter *)
(* of a second after the first answer.                                     *)
Collect(c, i) ==
    /\ CallAt(c, "wait") /\ Kind(c) = "gather" /\ task[c][i] \in Results(c)
    /\ Received(c, i)
    /\ LET best == IF task[c][i] = "ok" THEN i ELSE call[c].best
       IN  IF call[c].got + 1 = call[c].n
           THEN Finish(c, IF best # 0 THEN "answered" ELSE "failed", best)
           ELSE call' = [call EXCEPT ![c].got = @ + 1, ![c].best = best]

GraceOver(c) ==
    /\ CallAt(c, "wait") /\ Kind(c) = "gather" /\ call[c].best # 0
    /\ Finish(c, "answered", call[c].best) /\ UNCHANGED task

(* A batch: the first that succeeds wins, the next batch follows when all  *)
(* of this one have failed.                                                *)
Batch(c, i) ==
    /\ CallAt(c, "wait") /\ Kind(c) = "shotgun" /\ task[c][i] \in Results(c)
    /\ LET got == call[c].got + 1
           sent == Least(call[c].sent + BatchSize, call[c].n)
       IN  \/ task[c][i] = "ok" /\ Finish(c, "answered", i) /\ Received(c, i)
           \/ /\ task[c][i] # "ok" /\ got < call[c].sent
              /\ call' = [call EXCEPT ![c].got = got] /\ Received(c, i)
           \/ /\ task[c][i] # "ok" /\ got = call[c].sent
              /\ IF got = call[c].n THEN Finish(c, "failed", 0) /\ Received(c, i)
                 ELSE /\ call' = [call EXCEPT ![c].got = got, ![c].sent = sent]
                      /\ task' = [task EXCEPT ![c] = [j \in Tasks |->
                             IF j = i THEN "off" ELSE IF j \in got + 1 .. sent THEN "running" ELSE @[j]]]

(* apiGetWithRetry: another mirror for errors that may pass, no more for   *)
(* others.                                                                 *)
Retry(c, i) ==
    /\ CallAt(c, "wait") /\ Kind(c) = "get" /\ task[c][i] \in Results(c)
    /\ IF task[c][i] = "passing" /\ i < call[c].n
       THEN /\ call' = [call EXCEPT ![c].sent = i + 1]
            /\ task' = [task EXCEPT ![c][i] = "off", ![c][i + 1] = "running"]
       ELSE /\ Received(c, i)
            /\ IF task[c][i] = "ok" THEN Finish(c, "answered", i) ELSE Finish(c, "failed", 0)

(* The caller's context is done; a search returns what it has.             *)
Leaves(c) ==
    /\ CallAt(c, "wait") \/ CallAt(c, "fast")
    /\ IF Kind(c) = "gather" /\ call[c].best # 0 THEN Finish(c, "answered", call[c].best)
       ELSE Finish(c, "left", 0)
    /\ UNCHANGED task

CallGoesOn(c) ==
    \/ FastPath(c) \/ Hedge(c) \/ GraceOver(c) \/ Leaves(c)
    \/ \E i \in Tasks : Race(c, i) \/ Collect(c, i) \/ Batch(c, i) \/ Retry(c, i)

TasksGoOn(c) == \E i \in Tasks : Answer(c, i)

(***************************************************************************)
(* Properties of calls.                                                    *)
(***************************************************************************)
(* A call whose caller has not left fails only when every mirror it had to *)
(* ask has: no answer is lost in the channel, none is forgotten between    *)
(* batches, and none counted twice (getStreamURLFromMirrorPool,            *)
(* gatherFromMirrors, shotgunRequest).                                     *)
NoAnswerLost ==
    \A c \in Callers :
        CallAt(c, "failed") => call[c].best = 0 /\ \A i \in Tasks : task[c][i] # "ok"

(* Whoever won or left, what is still under way comes to its end, though   *)
(* nobody receives its result.                                             *)
NothingRuns == \A c \in Callers, i \in Tasks : task[c][i] # "running"
=============================================================================
