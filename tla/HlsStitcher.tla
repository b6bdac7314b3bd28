----------------------------- MODULE HlsStitcher -----------------------------
(***************************************************************************)
(* internal/media/hls/stitcher.go: Stitch downloads the segments of an HLS *)
(* playlist in parallel and writes them to one writer in playlist order.   *)
(*                                                                         *)
(* A producer puts segment numbers into a bounded channel, workers take    *)
(* them, download and put the outcome into a second bounded channel, and   *)
(* the caller's goroutine puts what arrives back in order.  Whoever is     *)
(* told to stop - the caller's context is cancelled, a download or a write *)
(* fails - must not leave one of the others blocked on a channel for ever. *)
(*                                                                         *)
(* Segments are numbers; the segment cache, retries and back-off are part  *)
(* of the download step, which succeeds or fails.                          *)
(***************************************************************************)
EXTENDS Naturals, Sequences, FiniteSets

CONSTANTS
    Inputs,     \* playlists and start positions: [len, hasInit, start]
    Workers,    \* opts.WorkerCount goroutines
    QueueCap,   \* opts.PrefetchWindow, the capacity of segmentQueue
    ResultCap   \* the capacity of results, twice the workers

FirstMedia(i) == IF i.hasInit /\ i.start <= 1 THEN 1 ELSE i.start

ASSUME InputsAssumption ==
    \A i \in Inputs :
        /\ i \in [len : Nat \ {0}, hasInit : BOOLEAN, start : Nat]
        /\ FirstMedia(i) < i.len
ASSUME CapacityAssumption == QueueCap \in Nat \ {0} /\ ResultCap \in Nat \ {0}

\* What the promise rests on.  Stitch replaces a worker count of zero; and
\* without an init segment it must start later, for nextToWrite begins at 1.
SomeWorker == Workers # {}
FirstIsWritten == \A i \in Inputs : i.hasInit \/ i.start > 0

VARIABLES
    input,         \* the call's segments and startIdx
    pc,            \* what the caller's goroutine is doing
    nextToWrite,   \* the segment to be written next
    buffer,        \* segments that came before their turn
    out,           \* segments written, in order
    outcome,       \* "running", or what Stitch returned
    cancelled,     \* the caller's context is cancelled
    toQueue,       \* the producer's next segment
    queue, queueClosed,
    worker,        \* worker -> what it is doing, and the segment it has
    results, resultsClosed

vars == <<input, pc, nextToWrite, buffer, out, outcome, cancelled, toQueue,
          queue, queueClosed, worker, results, resultsClosed>>
caller == <<pc, nextToWrite, buffer, out, outcome>>
pool == <<toQueue, queue, queueClosed, worker, results, resultsClosed>>

Idle == [at |-> "idle", seg |-> 0, ok |-> FALSE]
Busy(step, seg, ok) == [at |-> step, seg |-> seg, ok |-> ok]

(* prefetchCtx: cancelled with the caller's, and when Stitch returns.      *)
Stopped == cancelled \/ outcome # "running"

Running(step) == pc = step /\ outcome = "running"

(* The writing starts at the first media segment; the init segment and the *)
(* first media segment, if there is an init segment, are written up front. *)
StartAt(i) == IF ~i.hasInit /\ FirstMedia(i) > 0 THEN FirstMedia(i) ELSE FirstMedia(i) + 1

Init ==
    /\ input \in Inputs
    /\ pc = IF input.hasInit THEN "fetchInit" ELSE "startPool"
    /\ nextToWrite = 0 /\ buffer = {} /\ out = << >>
    /\ outcome = "running" /\ cancelled = FALSE
    /\ toQueue = 0 /\ queue = << >> /\ queueClosed = FALSE
    /\ worker = [w \in Workers |-> Idle]
    /\ results = << >> /\ resultsClosed = FALSE

-----------------------------------------------------------------------------
(* The caller's goroutine up to the first two writes.                      *)

Return(result) ==
    /\ outcome' = result
    /\ pc' = "returned"

FetchInit ==
    /\ Running("fetchInit")
    /\ pc' = "fetchFirst"
    /\ UNCHANGED <<input, nextToWrite, buffer, out, outcome, cancelled, pool>>

FetchFirst ==
    /\ Running("fetchFirst")
    /\ pc' = "writeInit"
    /\ UNCHANGED <<input, nextToWrite, buffer, out, outcome, cancelled, pool>>

WriteInit ==
    /\ Running("writeInit")
    /\ out' = Append(out, 0)
    /\ pc' = "writeFirst"
    /\ UNCHANGED <<input, nextToWrite, buffer, outcome, cancelled, pool>>

WriteFirst ==
    /\ Running("writeFirst")
    /\ out' = Append(out, FirstMedia(input))
    /\ pc' = "startPool"
    /\ UNCHANGED <<input, nextToWrite, buffer, outcome, cancelled, pool>>

(* A download, onInit or a write fails. *)
CallerFails ==
    /\ pc \in {"fetchInit", "fetchFirst", "writeInit", "writeFirst"} \/ (pc = "drain" /\ nextToWrite \in buffer)
    /\ outcome = "running"
    /\ Return("error")
    /\ UNCHANGED <<input, nextToWrite, buffer, out, cancelled, pool>>

StartPool ==
    /\ Running("startPool")
    /\ nextToWrite' = StartAt(input)
    /\ IF StartAt(input) >= input.len
       THEN Return("nil") /\ UNCHANGED toQueue
       ELSE pc' = "receive" /\ toQueue' = StartAt(input) /\ UNCHANGED outcome
    /\ UNCHANGED <<input, buffer, out, cancelled, queue, queueClosed, worker,
                   results, resultsClosed>>

-----------------------------------------------------------------------------
(* The pool.  Its goroutines are started by StartPool.                     *)

Started == toQueue > 0

Produce ==
    /\ Started /\ ~queueClosed
    /\ toQueue < input.len /\ Len(queue) < QueueCap
    /\ queue' = Append(queue, toQueue)
    /\ toQueue' = toQueue + 1
    /\ UNCHANGED <<input, caller, cancelled, queueClosed, worker, results, resultsClosed>>

ProducerEnds ==
    /\ Started /\ ~queueClosed
    /\ toQueue = input.len \/ Stopped
    /\ queueClosed' = TRUE
    /\ UNCHANGED <<input, caller, cancelled, toQueue, queue, worker, results, resultsClosed>>

Take(w) ==
    /\ Started
    /\ worker[w].at = "idle" /\ queue # << >>
    /\ worker' = [worker EXCEPT ![w] = Busy("downloading", Head(queue), FALSE)]
    /\ queue' = Tail(queue)
    /\ UNCHANGED <<input, caller, cancelled, toQueue, queueClosed, results, resultsClosed>>

Downloaded(w, ok) ==
    /\ worker[w].at = "downloading"
    /\ worker' = [worker EXCEPT ![w] = Busy("sending", worker[w].seg, ok)]
    /\ UNCHANGED <<input, caller, cancelled, toQueue, queue, queueClosed, results, resultsClosed>>

Send(w) ==
    /\ worker[w].at = "sending"
    /\ Len(results) < ResultCap
    /\ results' = Append(results, [seg |-> worker[w].seg, ok |-> worker[w].ok])
    /\ worker' = [worker EXCEPT ![w] = Idle]
    /\ UNCHANGED <<input, caller, cancelled, toQueue, queue, queueClosed, resultsClosed>>

(* The worker's select finds prefetchCtx done, and takes that branch.      *)
WorkerQuits(w) ==
    /\ worker[w].at = "sending" /\ Stopped
    /\ worker' = [worker EXCEPT ![w] = Busy("exited", 0, FALSE)]
    /\ UNCHANGED <<input, caller, cancelled, toQueue, queue, queueClosed, results, resultsClosed>>

WorkerEnds(w) ==
    /\ worker[w].at = "idle" /\ queue = << >> /\ queueClosed
    /\ worker' = [worker EXCEPT ![w] = Busy("exited", 0, FALSE)]
    /\ UNCHANGED <<input, caller, cancelled, toQueue, queue, queueClosed, results, resultsClosed>>

\* Mutant: the results of a call that was told to stop are not closed.
CloseResultsWhenComplete ==
    /\ Started /\ ~resultsClosed /\ ~Stopped
    /\ \A w \in Workers : worker[w].at = "exited"
    /\ resultsClosed' = TRUE
    /\ UNCHANGED <<input, caller, cancelled, toQueue, queue, queueClosed, worker, results>>

CloseResults ==
    /\ Started /\ ~resultsClosed
    /\ \A w \in Workers : worker[w].at = "exited"
    /\ resultsClosed' = TRUE
    /\ UNCHANGED <<input, caller, cancelled, toQueue, queue, queueClosed, worker, results>>

-----------------------------------------------------------------------------
(* The caller's goroutine puts the results in order.                       *)

Receive ==
    /\ Running("receive") /\ results # << >>
    /\ results' = Tail(results)
    /\ IF Head(results).ok
       THEN /\ buffer' = buffer \cup {Head(results).seg}
            /\ pc' = "drain" /\ UNCHANGED outcome
       ELSE Return("error") /\ UNCHANGED buffer
    /\ UNCHANGED <<input, nextToWrite, out, cancelled, toQueue, queue, queueClosed,
                   worker, resultsClosed>>

WriteNext ==
    /\ Running("drain") /\ nextToWrite \in buffer
    /\ out' = Append(out, nextToWrite)
    /\ buffer' = buffer \ {nextToWrite}
    /\ nextToWrite' = nextToWrite + 1
    /\ UNCHANGED <<input, pc, outcome, cancelled, pool>>

\* Mutant: an off-by-one in the end test.
DrainedEarly ==
    /\ Running("drain") /\ nextToWrite \notin buffer
    /\ IF nextToWrite >= input.len - 1
       THEN Return("nil")
       ELSE pc' = "receive" /\ UNCHANGED outcome
    /\ UNCHANGED <<input, nextToWrite, buffer, out, cancelled, pool>>

Drained ==
    /\ Running("drain") /\ nextToWrite \notin buffer
    /\ IF nextToWrite >= input.len
       THEN Return("nil")
       ELSE pc' = "receive" /\ UNCHANGED outcome
    /\ UNCHANGED <<input, nextToWrite, buffer, out, cancelled, pool>>

(* The results are closed before all segments came: a nil return.          *)
ResultsEnd ==
    /\ Running("receive") /\ results = << >> /\ resultsClosed
    /\ Return("nil")
    /\ UNCHANGED <<input, nextToWrite, buffer, out, cancelled, pool>>

(* The client hangs up, or the server's write timeout expires. *)
Cancel ==
    /\ ~cancelled
    /\ cancelled' = TRUE
    /\ UNCHANGED <<input, caller, pool>>

Caller ==
    \/ FetchInit \/ FetchFirst \/ WriteInit \/ WriteFirst \/ CallerFails \/ StartPool
    \/ Receive \/ WriteNext \/ Drained \/ ResultsEnd

Work(w) ==
    \/ Take(w) \/ Send(w) \/ WorkerQuits(w) \/ WorkerEnds(w)
    \/ \E ok \in BOOLEAN : Downloaded(w, ok)

Next ==
    \/ Caller \/ Produce \/ ProducerEnds \/ CloseResults \/ Cancel
    \/ \E w \in Workers : Work(w)

Spec == Init /\ [][Next]_vars

(* Goroutines that can go on do; a download has a timeout and three tries, *)
(* and a write to a client that is gone fails.                             *)
FairSpec ==
    /\ Spec
    /\ WF_vars(Caller) /\ WF_vars(Produce \/ ProducerEnds) /\ WF_vars(CloseResults)
    /\ \A w \in Workers : WF_vars(Work(w))

-----------------------------------------------------------------------------

TypeOK ==
    /\ input \in Inputs
    /\ pc \in {"fetchInit", "fetchFirst", "writeInit", "writeFirst", "startPool",
               "receive", "drain", "returned"}
    /\ nextToWrite \in Nat /\ toQueue \in Nat
    /\ buffer \subseteq Nat
    /\ out \in Seq(Nat)
    /\ outcome \in {"running", "nil", "error"} /\ cancelled \in BOOLEAN
    /\ (outcome = "running") = (pc # "returned")
    /\ queue \in Seq(Nat) /\ queueClosed \in BOOLEAN
    /\ worker \in [Workers -> [at : {"idle", "downloading", "sending", "exited"},
                               seg : Nat, ok : BOOLEAN]]
    /\ results \in Seq([seg : Nat, ok : BOOLEAN]) /\ resultsClosed \in BOOLEAN

(* The segments a call is to write: the init segment, then the media       *)
(* segments from the first one on.                                         *)
Plan(i) ==
    LET media == i.len - FirstMedia(i)
    IN  IF i.hasInit
        THEN [n \in 1..(media + 1) |-> IF n = 1 THEN 0 ELSE FirstMedia(i) + n - 2]
        ELSE [n \in 1..media |-> FirstMedia(i) + n - 1]

Promise == INSTANCE OrderedStream WITH
    Plans <- {Plan(i) : i \in Inputs}, plan <- Plan(input)

(* The promise the caller relies on. *)
KeepsPromise == Promise!Spec

=============================================================================
