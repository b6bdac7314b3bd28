--------------------------- MODULE ResidentWorker ---------------------------
(***************************************************************************)
(* provider/spotify/worker.go and provider/ytmusic/client.go: streams that *)
(* a resident Python process resolves.  Both clients keep one process, ask *)
(* it one question a line under a mutex, read the answer on a goroutine of *)
(* its own, and let requests for the same track share one job.             *)
(*                                                                         *)
(* They differ in how a request may end: Spotify's heeds its context while *)
(* it waits for the answer, YouTube's does not; YouTube's falls back to    *)
(* the command line and keeps the URL for an hour, Spotify's finds the     *)
(* decrypted file on disk.                                                 *)
(*                                                                         *)
(* Two goroutines that read one bufio.Reader are a data race: which of     *)
(* them gets a line is left open, and the line may be lost.                *)
(***************************************************************************)
EXTENDS Integers, Sequences, FiniteSets

CONSTANTS
    Requests,   \* calls of Resolve or GetStreamURL, one track each
    Tracks,
    Wanted,     \* request -> the track it is for
    NoOne,      \* no request
    Failed,     \* an error instead of a stream
    Switches    \* how often SetActiveAccount is called

WorkerAssumption ==
    /\ Wanted \in [Requests -> Tracks]
    /\ NoOne \notin Requests \cup Tracks /\ Failed \notin Tracks

VARIABLES
    client,     \* "spotify" | "youtube"
    process,    \* the resident process: "none" | "up" | "dead"
    usable,     \* w.available; c.workerCmd # nil
    asked,      \* lines in the process's stdin
    answers,    \* lines in its stdout
    readers,    \* requests whose goroutine waits in ReadString on its stdout
    astray,     \* a request has left while its answer was outstanding
    holder,     \* the request that holds w.mu or c.workerMu
    inFlight,   \* track -> the request that leads the job for it, or NoOne
    job,        \* request -> the result its job was closed with, or NoOne
    req,        \* request -> where it is, whom it follows, its result
    stored,     \* the tracks with a file on disk or an entry in streamCache
    switched    \* calls of SetActiveAccount so far

workerVars == <<process, usable, asked, answers, readers, astray>>
vars == <<client, workerVars, holder, inFlight, job, req, stored, switched>>

At(r, step) == req[r].at = step
Goto(r, step) == req' = [req EXCEPT ![r].at = step]
Ends(r, result) == req' = [req EXCEPT ![r].at = "ended", ![r].got = result]

Init ==
    /\ client \in {"spotify", "youtube"}
    /\ process = "none" /\ usable = FALSE
    /\ asked = <<>> /\ answers = <<>> /\ readers = {} /\ astray = FALSE
    /\ holder = NoOne
    /\ inFlight = [t \in Tracks |-> NoOne]
    /\ job = [r \in Requests |-> NoOne]
    /\ req = [r \in Requests |-> [at |-> "new", leader |-> NoOne, got |-> NoOne]]
    /\ stored = {}
    /\ switched = 0

(***************************************************************************)
(* The way in: what is stored is served, a request for a track somebody is *)
(* resolving waits for that job, any other one leads a job of its own.     *)
(* Between the two looks the track may have been stored and the job gone.  *)
(***************************************************************************)
ServeStored(r) ==
    /\ At(r, "new") /\ Wanted[r] \in stored
    /\ Ends(r, Wanted[r])
    /\ UNCHANGED <<client, workerVars, holder, inFlight, job, stored, switched>>

Enter(r) ==
    /\ At(r, "new")
    /\ LET leader == inFlight[Wanted[r]]
       IN  IF leader = NoOne
           THEN /\ Goto(r, "leads")
                /\ inFlight' = [inFlight EXCEPT ![Wanted[r]] = r]
           ELSE /\ req' = [req EXCEPT ![r].at = "follows", ![r].leader = leader]
                /\ UNCHANGED inFlight
    /\ UNCHANGED <<client, workerVars, holder, job, stored, switched>>

Follow(r) ==
    /\ At(r, "follows") /\ job[req[r].leader] # NoOne
    /\ Ends(r, job[req[r].leader])
    /\ UNCHANGED <<client, workerVars, holder, inFlight, job, stored, switched>>

(* A follower's context ends: its client has gone. *)
FollowerLeaves(r) ==
    /\ At(r, "follows")
    /\ Ends(r, Failed)
    /\ UNCHANGED <<client, workerVars, holder, inFlight, job, stored, switched>>

(***************************************************************************)
(* The leader, under the mutex.  ensureWorkerLocked starts a process if    *)
(* there is none to use; goroutines that still read from an older one get  *)
(* its end of file.                                                        *)
(***************************************************************************)
Usable == usable /\ process # "none"

\* What the failure of the worker means: an error, or the command line.
AfterFailure == IF client = "youtube" THEN "cli" ELSE "publishes"

Fails(r) == req' = [req EXCEPT ![r].at = AfterFailure, ![r].got = Failed]

Lock(r) ==
    /\ At(r, "leads") /\ holder = NoOne
    /\ holder' = r
    /\ Goto(r, "locked")
    /\ UNCHANGED <<client, workerVars, inFlight, job, stored, switched>>

StartWorker(r) ==
    /\ At(r, "locked") /\ ~Usable
    /\ process' = "up" /\ usable' = TRUE
    /\ asked' = <<>> /\ answers' = <<>> /\ readers' = {} /\ astray' = FALSE
    /\ UNCHANGED <<client, holder, inFlight, job, req, stored, switched>>

WorkerDoesNotStart(r) ==
    /\ At(r, "locked") /\ ~Usable
    /\ holder' = NoOne
    /\ Fails(r)
    /\ UNCHANGED <<client, workerVars, inFlight, job, stored, switched>>

Ask(r) ==
    /\ At(r, "locked") /\ Usable /\ process = "up"
    /\ asked' = Append(asked, Wanted[r])
    /\ readers' = readers \cup {r}
    /\ Goto(r, "asked")
    /\ UNCHANGED <<client, process, usable, answers, astray, holder, inFlight, job, stored, switched>>

(* The process is killed and given up: Spotify's client marks it, so that  *)
(* the next request starts another; YouTube's forgets it.                  *)
Discard ==
    /\ process' = IF client = "youtube" THEN "none" ELSE "dead"
    /\ usable' = FALSE
    /\ UNCHANGED <<asked, answers, readers, astray>>

(* The write or the read fails because the process is gone. *)
WorkerIsGone(r) ==
    /\ \/ At(r, "locked") /\ Usable
       \/ At(r, "asked") /\ r \in readers /\ answers = <<>>
    /\ process = "dead"
    /\ Discard
    /\ holder' = NoOne
    /\ Fails(r)
    /\ UNCHANGED <<client, inFlight, job, stored, switched>>

\* Mutant: the process that was too slow is kept.
TimeoutKeepsProcess(r) ==
    /\ At(r, "asked")
    /\ holder' = NoOne
    /\ Fails(r)
    /\ UNCHANGED <<client, workerVars, inFlight, job, stored, switched>>

(* No answer within 35 or 8 seconds. *)
Timeout(r) ==
    /\ At(r, "asked")
    /\ Discard
    /\ holder' = NoOne
    /\ Fails(r)
    /\ UNCHANGED <<client, inFlight, job, stored, switched>>

(* Spotify only: the leader's context ends.  The process is neither killed *)
(* nor marked, and the goroutine goes on reading.                          *)
Abandon(r) ==
    /\ client = "spotify" /\ At(r, "asked")
    /\ astray' = TRUE
    /\ holder' = NoOne
    /\ Fails(r)
    /\ UNCHANGED <<client, process, usable, asked, answers, readers, inFlight, job, stored, switched>>

(* A goroutine reads the next line; if its request has left, nobody gets   *)
(* what it read.                                                           *)
ReadLine(r) ==
    /\ r \in readers /\ answers # <<>>
    /\ answers' = Tail(answers)
    /\ readers' = readers \ {r}
    /\ IF ~At(r, "asked")
       THEN UNCHANGED <<req, holder>>
       ELSE /\ holder' = NoOne
            /\ IF Head(answers) = Failed THEN Fails(r)
               ELSE req' = [req EXCEPT ![r].at = "resolved", ![r].got = Head(answers)]
    /\ UNCHANGED <<client, process, usable, asked, astray, inFlight, job, stored, switched>>

(* Two goroutines in one bufio.Reader: the second overwrites what the      *)
(* first has put in the buffer.                                            *)
LoseLine ==
    /\ Cardinality(readers) > 1 /\ answers # <<>>
    /\ answers' = Tail(answers)
    /\ UNCHANGED <<client, process, usable, asked, readers, astray, holder, inFlight, job, req, stored, switched>>

(* resolveViaCLI: yt-dlp is run for this track, in the leader's context. *)
CommandLine(r, ok) ==
    /\ At(r, "cli")
    /\ req' = [req EXCEPT ![r].at = IF ok THEN "resolved" ELSE "publishes",
                          ![r].got = IF ok THEN Wanted[r] ELSE Failed]
    /\ UNCHANGED <<client, workerVars, holder, inFlight, job, stored, switched>>

(* YouTube keeps the URL under the track that was asked for. *)
Store(r) ==
    /\ At(r, "resolved")
    /\ stored' = IF client = "youtube" THEN stored \cup {Wanted[r]} ELSE stored
    /\ Goto(r, "publishes")
    /\ UNCHANGED <<client, workerVars, holder, inFlight, job, switched>>

(* The deferred end of a job: the result is published, then the job taken  *)
(* out of the map.  A request that arrives in between gets the result.     *)
Publish(r) ==
    /\ At(r, "publishes")
    /\ job' = [job EXCEPT ![r] = req[r].got]
    /\ Goto(r, "retires")
    /\ UNCHANGED <<client, workerVars, holder, inFlight, stored, switched>>

Retire(r) ==
    /\ At(r, "retires")
    /\ inFlight' = [inFlight EXCEPT ![Wanted[r]] = NoOne]
    /\ Goto(r, "ended")
    /\ UNCHANGED <<client, workerVars, holder, job, stored, switched>>

(***************************************************************************)
(* Around the requests.                                                    *)
(***************************************************************************)

(* SetActiveAccount, under the mutex: the process is recycled. *)
SetActiveAccount ==
    /\ client = "youtube" /\ switched < Switches /\ holder = NoOne
    /\ switched' = switched + 1
    /\ process' = "none" /\ usable' = FALSE
    /\ UNCHANGED <<client, asked, answers, readers, astray, holder, inFlight, job, req, stored>>

(* The script: it answers its questions in order, and Spotify's has stored *)
(* the file by then.                                                       *)
Answer(ok) ==
    /\ process = "up" /\ asked # <<>>
    /\ asked' = Tail(asked)
    /\ answers' = Append(answers, IF ok THEN Head(asked) ELSE Failed)
    /\ stored' = IF ok /\ client = "spotify" THEN stored \cup {Head(asked)} ELSE stored
    /\ UNCHANGED <<client, process, usable, readers, astray, holder, inFlight, job, req, switched>>

ProcessDies ==
    /\ process = "up"
    /\ process' = "dead" /\ asked' = <<>>
    /\ UNCHANGED <<client, usable, answers, readers, astray, holder, inFlight, job, req, stored, switched>>

Expire(t) ==
    /\ client = "youtube" /\ t \in stored
    /\ stored' = stored \ {t}
    /\ UNCHANGED <<client, workerVars, holder, inFlight, job, req, switched>>

Step(r) ==
    \/ ServeStored(r) \/ Enter(r) \/ Follow(r) \/ Lock(r) \/ StartWorker(r)
    \/ WorkerDoesNotStart(r) \/ Ask(r) \/ WorkerIsGone(r) \/ Timeout(r) \/ ReadLine(r)
    \/ Store(r) \/ Publish(r) \/ Retire(r)
    \/ \E ok \in BOOLEAN : CommandLine(r, ok)

Next ==
    \/ \E r \in Requests : Step(r) \/ FollowerLeaves(r) \/ Abandon(r)
    \/ \E ok \in BOOLEAN : Answer(ok)
    \/ LoseLine \/ ProcessDies \/ SetActiveAccount
    \/ \E t \in Tracks : Expire(t)

Spec == Init /\ [][Next]_vars

(* Goroutines run and timeouts fire; nothing is assumed of the process,    *)
(* the accounts or the clients.                                            *)
FairSpec == Spec /\ \A r \in Requests : WF_vars(Step(r))

-----------------------------------------------------------------------------

(* The next line of a process is the answer to the last question asked of  *)
(* it, and one goroutine alone waits for it: what a process owes a request *)
(* that has timed out, or has been recycled under, dies with it.  Followers*)
(* are given the job of their own track.                                   *)
RightStream ==
    \A r \in Requests :
        /\ At(r, "asked") /\ ~astray =>
              /\ readers = {r}
              /\ asked \o answers \in {<<>>, <<Wanted[r]>>, <<Failed>>}
        /\ At(r, "follows") => Wanted[req[r].leader] = Wanted[r]

(* No request gets the stream of another track ("Resolve decrypts and      *)
(* downloads a track ..., returning the file path"), whoever gave up       *)
(* before it.                                                              *)
RightStreamAlways == \A r \in Requests : req[r].got \in {NoOne, Failed, Wanted[r]}

=============================================================================
