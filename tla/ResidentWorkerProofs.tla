------------------------- MODULE ResidentWorkerProofs -------------------------
(***************************************************************************)
(* For any requests and tracks: what the answers of a resident process are *)
(* the answers to.                                                         *)
(***************************************************************************)
EXTENDS Streams, FiniteSetTheorems, TLAPS

Steps == {"new", "leads", "follows", "locked", "asked", "cli", "resolved", "publishes", "retires", "ended"}
Records == [at : Steps, leader : Requests \cup {NoOne}, got : Tracks \cup {NoOne, Failed}]

ProcessTyped ==
    /\ client \in {"spotify", "youtube"}
    /\ process \in {"none", "up", "dead"} /\ usable \in BOOLEAN
    /\ asked \in Seq(Tracks) /\ answers \in Seq(Tracks \cup {Failed}) /\ readers \subseteq Requests
    /\ astray \in BOOLEAN
RequestsTyped ==
    /\ req \in [Requests -> Records]
    /\ inFlight \in [Tracks -> Requests \cup {NoOne}]
    /\ job \in [Requests -> Tracks \cup {NoOne, Failed}]
    /\ stored \subseteq Tracks
Typed == ProcessTyped /\ RequestsTyped /\ holder \in Requests \cup {NoOne}

(* The mutex is held by the one request that starts, asks or waits.        *)
OneHolds == \A r \in Requests : req[r].at \in {"locked", "asked"} <=> holder = r

Empty == asked = <<>> /\ answers = <<>> /\ readers = {}

(* What is on its way between a request and the process.                   *)
OneLine(r) ==
    /\ readers = {r}
    /\ \/ asked \in {<<>>, <<Wanted[r]>>} /\ answers = <<>>
       \/ asked = <<>> /\ answers \in {<<Wanted[r]>>, <<Failed>>}

(* While nobody has left, a process that is kept owes nobody an answer but *)
(* the request that waits; YouTube's requests never leave.                 *)
NothingOwed ==
    /\ \A r \in Requests : req[r].at = "asked" /\ ~astray => OneLine(r)
    /\ ~astray /\ Resident!Usable /\ (\A r \in Requests : req[r].at # "asked") => Empty
    /\ client = "youtube" => ~astray

(* A job is found under the track it is for.                               *)
JobsOfTracks ==
    /\ \A t \in Tracks : inFlight[t] # NoOne => Wanted[inFlight[t]] = t
    /\ \A r \in Requests : req[r].at = "follows" => req[r].leader \in Requests /\ Wanted[req[r].leader] = Wanted[r]

(* What YouTube's requests and jobs have is nothing, an error, or the      *)
(* stream of the track that was asked for.                                 *)
OwnTrack ==
    client = "youtube" =>
        \A r \in Requests : /\ req[r].got \in {NoOne, Failed, Wanted[r]}
                            /\ job[r] \in {NoOne, Failed, Wanted[r]}

IInv == Typed /\ OneHolds /\ NothingOwed /\ JobsOfTracks /\ OwnTrack

-----------------------------------------------------------------------------
(* Steps of requests, and what each does to the request itself.            *)
LEMMA MovesTyped ==
    ASSUME Typed, NEW r \in Requests, NEW step \in Steps
    PROVE  /\ req' = [req EXCEPT ![r].at = step] => req' \in [Requests -> Records]
           /\ \A got \in Tracks \cup {NoOne, Failed} :
                  req' = [req EXCEPT ![r].at = step, ![r].got = got] => req' \in [Requests -> Records]
           /\ \A l \in Requests :
                  req' = [req EXCEPT ![r].at = step, ![r].leader = l] => req' \in [Requests -> Records]
<1> DEFINE x == [req[r] EXCEPT !.at = step]
<1>1. req \in [Requests -> Records] /\ x \in Records
  <2>1. req \in [Requests -> Records] /\ req[r] \in Records
    BY DEF Typed, RequestsTyped
  <2> QED
    BY <2>1 DEF Records
<1>2. \A got \in Tracks \cup {NoOne, Failed} : [x EXCEPT !.got = got] \in Records
  <2> HIDE DEF x
  <2> QED
    BY <1>1 DEF Records
<1>3. \A l \in Requests : [x EXCEPT !.leader = l] \in Records
  <2> HIDE DEF x
  <2> QED
    BY <1>1 DEF Records
<1>4. ASSUME req' = [req EXCEPT ![r].at = step]
      PROVE  req' \in [Requests -> Records]
  <2>1. req' = [req EXCEPT ![r] = x]
    BY <1>4
  <2> HIDE DEF x
  <2> QED
    BY <1>1, <2>1
<1>5. ASSUME NEW got \in Tracks \cup {NoOne, Failed}, req' = [req EXCEPT ![r].at = step, ![r].got = got]
      PROVE  req' \in [Requests -> Records]
  <2>1. req' = [req EXCEPT ![r] = [x EXCEPT !.got = got]]
    BY <1>5
  <2> HIDE DEF x
  <2> QED
    BY <1>1, <1>2, <2>1
<1>6. ASSUME NEW l \in Requests, req' = [req EXCEPT ![r].at = step, ![r].leader = l]
      PROVE  req' \in [Requests -> Records]
  <2>1. req' = [req EXCEPT ![r] = [x EXCEPT !.leader = l]]
    BY <1>6
  <2> HIDE DEF x
  <2> QED
    BY <1>1, <1>3, <2>1
<1> QED
  BY <1>4, <1>5, <1>6

LEMMA StepNames ==
    "new" \in Steps /\ "leads" \in Steps /\ "follows" \in Steps /\ "locked" \in Steps /\ "asked" \in Steps
    /\ "cli" \in Steps /\ "resolved" \in Steps /\ "publishes" \in Steps /\ "retires" \in Steps /\ "ended" \in Steps
BY DEF Steps

LEMMA GoesTyped ==
    ASSUME Typed, NEW r \in Requests
    PROVE  /\ \A step \in Steps : Resident!Goto(r, step) => req' \in [Requests -> Records]
           /\ \A got \in Tracks \cup {NoOne, Failed} : Resident!Ends(r, got) => req' \in [Requests -> Records]
           /\ Resident!Fails(r) => req' \in [Requests -> Records]
<1>1. \A step \in Steps : Resident!Goto(r, step) => req' \in [Requests -> Records]
  BY MovesTyped DEF Resident!Goto
<1>2. ASSUME NEW got \in Tracks \cup {NoOne, Failed}, Resident!Ends(r, got)
      PROVE  req' \in [Requests -> Records]
  <2> DEFINE step == "ended"
  <2>1. step \in Steps /\ req' = [req EXCEPT ![r].at = step, ![r].got = got]
    BY <1>2, StepNames DEF Resident!Ends
  <2> HIDE DEF step
  <2> QED
    BY <2>1, MovesTyped
<1>3. ASSUME Resident!Fails(r)
      PROVE  req' \in [Requests -> Records]
  <2>1. Resident!AfterFailure \in Steps /\ req' = [req EXCEPT ![r].at = Resident!AfterFailure, ![r].got = Failed]
    BY <1>3, StepNames DEF Resident!AfterFailure, Resident!Fails
  <2> QED
    BY <2>1, MovesTyped
<1> QED
  BY <1>1, <1>2, <1>3

LEMMA ResolvedTyped ==
    ASSUME Typed, NEW r \in Requests, NEW got \in Tracks \cup {NoOne, Failed},
           \/ req' = [req EXCEPT ![r].at = "resolved", ![r].got = got]
           \/ req' = [req EXCEPT ![r].at = "publishes", ![r].got = got]
    PROVE  req' \in [Requests -> Records]
<1>1. PICK step \in Steps : req' = [req EXCEPT ![r].at = step, ![r].got = got]
  BY StepNames
<1> QED
  BY <1>1, MovesTyped

(* Lines that are appended, read or dropped.                               *)
LEMMA Lines ==
    ASSUME NEW S, NEW q \in Seq(S), NEW e \in S
    PROVE  /\ Append(q, e) \in Seq(S) /\ <<>> \in Seq(S)
           /\ q # <<>> => Head(q) \in S /\ Tail(q) \in Seq(S)
OBVIOUS

LEMMA RequestTyped ==
    ASSUME Resident!WorkerAssumption, Typed, JobsOfTracks, NEW r \in Requests, Resident!Step(r) \/ Resident!FollowerLeaves(r) \/ Resident!Abandon(r)
    PROVE  req' \in [Requests -> Records]
<1>1. Wanted[r] \in Tracks /\ NoOne \notin Requests \cup Tracks /\ Failed \notin Tracks
  BY DEF Resident!WorkerAssumption
<1>2. CASE Resident!ServeStored(r) \/ Resident!FollowerLeaves(r)
  BY <1>1, <1>2, GoesTyped DEF Resident!ServeStored, Resident!FollowerLeaves
<1>3. CASE Resident!Enter(r)
  <2>1. inFlight[Wanted[r]] \in Requests \cup {NoOne}
    BY <1>1 DEF Typed, RequestsTyped
  <2>2. CASE inFlight[Wanted[r]] = NoOne
    BY <1>3, <2>2, GoesTyped, StepNames DEF Resident!Enter
  <2>3. CASE inFlight[Wanted[r]] # NoOne
    <3> DEFINE step == "follows"
               l == inFlight[Wanted[r]]
    <3>1. step \in Steps /\ l \in Requests /\ req' = [req EXCEPT ![r].at = step, ![r].leader = l]
      BY <1>3, <2>1, <2>3, StepNames DEF Resident!Enter
    <3> HIDE DEF step, l
    <3> QED
      BY <3>1, MovesTyped
  <2> QED
    BY <2>2, <2>3
<1>4. CASE Resident!Follow(r)
  <2>1. req[r].leader \in Requests
    BY <1>4 DEF Resident!Follow, Resident!At, JobsOfTracks
  <2>2. job[req[r].leader] \in Tracks \cup {NoOne, Failed}
    BY <2>1 DEF Typed, RequestsTyped
  <2> QED
    BY <1>4, <2>2, GoesTyped DEF Resident!Follow
<1>5. CASE Resident!Lock(r) \/ Resident!Retire(r) \/ Resident!Ask(r) \/ Resident!Store(r) \/ Resident!Publish(r)
  BY <1>5, GoesTyped, StepNames DEF Resident!Lock, Resident!Retire, Resident!Ask, Resident!Store, Resident!Publish
<1>6. CASE Resident!StartWorker(r)
  BY <1>6 DEF Resident!StartWorker, Typed, RequestsTyped
<1>7. CASE Resident!WorkerDoesNotStart(r) \/ Resident!Abandon(r) \/ Resident!WorkerIsGone(r) \/ Resident!Timeout(r)
  BY <1>7, GoesTyped DEF Resident!WorkerDoesNotStart, Resident!Abandon, Resident!WorkerIsGone, Resident!Timeout
<1>8. CASE Resident!ReadLine(r)
  <2>1. Head(answers) \in Tracks \cup {Failed}
    BY <1>8, Lines DEF Resident!ReadLine, Typed, ProcessTyped
  <2>2. CASE req' = req
    BY <2>2 DEF Typed, RequestsTyped
  <2>3. CASE Resident!Fails(r)
    BY <2>3, GoesTyped
  <2>4. CASE req' = [req EXCEPT ![r].at = "resolved", ![r].got = Head(answers)]
    BY <2>1, <2>4, ResolvedTyped
  <2> QED
    BY <1>8, <2>2, <2>3, <2>4 DEF Resident!ReadLine
<1>9. ASSUME NEW ok \in BOOLEAN, Resident!CommandLine(r, ok)
      PROVE  req' \in [Requests -> Records]
  <2>1. \/ req' = [req EXCEPT ![r].at = "resolved", ![r].got = Wanted[r]]
        \/ req' = [req EXCEPT ![r].at = "publishes", ![r].got = Failed]
    BY <1>9 DEF Resident!CommandLine
  <2> QED
    BY <1>1, <2>1, ResolvedTyped
<1> QED
  BY <1>2, <1>3, <1>4, <1>5, <1>6, <1>7, <1>8, <1>9 DEF Resident!Step

LEMMA ProcessTypedStep ==
    ASSUME Resident!WorkerAssumption, Typed, [Resident!Next]_(Resident!vars)
    PROVE  ProcessTyped'
<1>1. \A r \in Requests : Wanted[r] \in Tracks
  BY DEF Resident!WorkerAssumption
<1>2. ASSUME UNCHANGED <<client, Resident!workerVars>> PROVE ProcessTyped'
  BY <1>2 DEF Resident!workerVars, Typed, ProcessTyped
<1>3. ASSUME NEW r \in Requests, Resident!Step(r) \/ Resident!FollowerLeaves(r) \/ Resident!Abandon(r)
      PROVE  ProcessTyped'
  <2>1. CASE UNCHANGED <<client, Resident!workerVars>>
    BY <1>2, <2>1
  <2>2. CASE Resident!StartWorker(r)
    <3>1. <<>> \in Seq(Tracks) /\ <<>> \in Seq(Tracks \cup {Failed})
      OBVIOUS
    <3>2. asked' = <<>> /\ answers' = <<>> /\ readers' = {} /\ process' = "up" /\ usable' = TRUE
          /\ astray' = FALSE /\ client' = client
      BY <2>2 DEF Resident!StartWorker
    <3> QED
      BY <3>1, <3>2 DEF Typed, ProcessTyped
  <2>3. CASE Resident!Ask(r)
    <3>1. Append(asked, Wanted[r]) \in Seq(Tracks)
      BY <1>1, Lines DEF Typed, ProcessTyped
    <3> QED
      BY <2>3, <3>1 DEF Resident!Ask, Typed, ProcessTyped
  <2>4. CASE Resident!WorkerIsGone(r) \/ Resident!Timeout(r)
    BY <2>4 DEF Resident!WorkerIsGone, Resident!Timeout, Resident!Discard, Typed, ProcessTyped
  <2>5. CASE Resident!Abandon(r)
    BY <2>5 DEF Resident!Abandon, Typed, ProcessTyped
  <2>6. CASE Resident!ReadLine(r)
    <3>1. Tail(answers) \in Seq(Tracks \cup {Failed})
      BY <2>6, Lines DEF Resident!ReadLine, Typed, ProcessTyped
    <3> QED
      BY <2>6, <3>1 DEF Resident!ReadLine, Typed, ProcessTyped
  <2> QED
    BY <1>3, <2>1, <2>2, <2>3, <2>4, <2>5, <2>6 DEF Resident!Step, Resident!FollowerLeaves, Resident!ServeStored, Resident!Enter, Resident!Follow, Resident!Lock,
          Resident!WorkerDoesNotStart, Resident!Store, Resident!Publish, Resident!Retire, Resident!CommandLine
<1>4. ASSUME NEW ok \in BOOLEAN, Resident!Answer(ok)
      PROVE  ProcessTyped'
  <2>1. Head(asked) \in Tracks /\ Tail(asked) \in Seq(Tracks)
    BY <1>4, Lines DEF Resident!Answer, Typed, ProcessTyped
  <2>2. Append(answers, IF ok THEN Head(asked) ELSE Failed) \in Seq(Tracks \cup {Failed})
    BY <2>1, Lines DEF Typed, ProcessTyped
  <2> QED
    BY <1>4, <2>1, <2>2 DEF Resident!Answer, Typed, ProcessTyped
<1>5. CASE Resident!LoseLine
  <2>1. Tail(answers) \in Seq(Tracks \cup {Failed})
    BY <1>5, Lines DEF Resident!LoseLine, Typed, ProcessTyped
  <2> QED
    BY <1>5, <2>1 DEF Resident!LoseLine, Typed, ProcessTyped
<1>6. CASE Resident!ProcessDies \/ Resident!SetActiveAccount
  <2>1. <<>> \in Seq(Tracks)
    OBVIOUS
  <2> QED
    BY <1>6, <2>1 DEF Resident!ProcessDies, Resident!SetActiveAccount, Typed, ProcessTyped
<1>7. CASE (\E t \in Tracks : Resident!Expire(t)) \/ UNCHANGED Resident!vars
  BY <1>2, <1>7 DEF Resident!Expire, Resident!vars
<1> QED
  BY <1>3, <1>4, <1>5, <1>6, <1>7 DEF Resident!Next

LEMMA TypedStep ==
    ASSUME Resident!WorkerAssumption, Typed, JobsOfTracks, [Resident!Next]_(Resident!vars)
    PROVE  Typed'
<1>1. Wanted \in [Requests -> Tracks]
  BY DEF Resident!WorkerAssumption
<1>2. /\ req \in [Requests -> Records] /\ inFlight \in [Tracks -> Requests \cup {NoOne}]
      /\ job \in [Requests -> Tracks \cup {NoOne, Failed}] /\ stored \subseteq Tracks
      /\ holder \in Requests \cup {NoOne}
  BY DEF Typed, RequestsTyped
<1>3. ASSUME NEW r \in Requests, Resident!Step(r) \/ Resident!FollowerLeaves(r) \/ Resident!Abandon(r)
      PROVE  RequestsTyped' /\ holder' \in Requests \cup {NoOne}
  <2>1. req' \in [Requests -> Records]
    BY <1>3, RequestTyped
  <2>2. inFlight' \in [Tracks -> Requests \cup {NoOne}]
    BY <1>1, <1>2, <1>3 DEF Resident!Step, Resident!FollowerLeaves, Resident!Abandon, Resident!ServeStored, Resident!Enter, Resident!Follow, Resident!Lock, Resident!StartWorker,
          Resident!WorkerDoesNotStart, Resident!Ask, Resident!WorkerIsGone, Resident!Timeout, Resident!ReadLine, Resident!Store, Resident!Publish, Resident!Retire, Resident!CommandLine
  <2>3. job' \in [Requests -> Tracks \cup {NoOne, Failed}]
    <3>1. req[r].got \in Tracks \cup {NoOne, Failed}
      BY <1>2 DEF Records
    <3> QED
      BY <1>2, <1>3, <3>1 DEF Resident!Step, Resident!FollowerLeaves, Resident!Abandon, Resident!ServeStored, Resident!Enter, Resident!Follow, Resident!Lock, Resident!StartWorker,
            Resident!WorkerDoesNotStart, Resident!Ask, Resident!WorkerIsGone, Resident!Timeout, Resident!ReadLine, Resident!Store, Resident!Publish, Resident!Retire, Resident!CommandLine
  <2>4. stored' \subseteq Tracks
    <3>1. CASE Resident!Store(r)
      <4>1. stored' = stored \cup {Wanted[r]} \/ stored' = stored
        BY <3>1 DEF Resident!Store
      <4> QED
        BY <1>1, <1>2, <4>1
    <3>2. CASE ~Resident!Store(r)
      <4>1. stored' = stored
        BY <1>3, <3>2 DEF Resident!Step, Resident!FollowerLeaves, Resident!Abandon, Resident!ServeStored, Resident!Enter, Resident!Follow, Resident!Lock, Resident!StartWorker,
              Resident!WorkerDoesNotStart, Resident!Ask, Resident!WorkerIsGone, Resident!Timeout, Resident!ReadLine, Resident!Publish, Resident!Retire, Resident!CommandLine
      <4> QED
        BY <1>2, <4>1
    <3> QED
      BY <3>1, <3>2
  <2>5. holder' \in Requests \cup {NoOne}
    BY <1>2, <1>3 DEF Resident!Step, Resident!FollowerLeaves, Resident!Abandon, Resident!ServeStored, Resident!Enter, Resident!Follow, Resident!Lock, Resident!StartWorker,
          Resident!WorkerDoesNotStart, Resident!Ask, Resident!WorkerIsGone, Resident!Timeout, Resident!ReadLine, Resident!Store, Resident!Publish, Resident!Retire, Resident!CommandLine
  <2> QED
    BY <2>1, <2>2, <2>3, <2>4, <2>5 DEF RequestsTyped
<1>4. ASSUME NEW ok \in BOOLEAN, Resident!Answer(ok)
      PROVE  RequestsTyped' /\ holder' \in Requests \cup {NoOne}
  <2>1. Head(asked) \in Tracks
    BY <1>4, Lines DEF Resident!Answer, Typed, ProcessTyped
  <2> QED
    BY <1>2, <1>4, <2>1 DEF Resident!Answer, RequestsTyped
<1>5. CASE Resident!LoseLine \/ Resident!ProcessDies \/ Resident!SetActiveAccount \/ (\E t \in Tracks : Resident!Expire(t)) \/ UNCHANGED Resident!vars
  <2>1. UNCHANGED <<req, inFlight, job, holder>> /\ stored' \subseteq stored
    BY <1>5 DEF Resident!LoseLine, Resident!ProcessDies, Resident!SetActiveAccount, Resident!Expire, Resident!vars
  <2>2. RequestsTyped' /\ holder' \in Requests \cup {NoOne}
    BY <1>2, <2>1 DEF RequestsTyped
  <2> QED
    BY <2>2, ProcessTypedStep DEF Typed
<1> QED
  BY <1>3, <1>4, <1>5, ProcessTypedStep DEF Resident!Next, Typed, RequestsTyped

-----------------------------------------------------------------------------
(* What a step of a request does to it and to the others.                  *)
Waits == {"locked", "asked"}

LEMMA OnlyOneMoves ==
    ASSUME Typed, NEW r \in Requests, Resident!Step(r) \/ Resident!FollowerLeaves(r) \/ Resident!Abandon(r)
    PROVE  \A q \in Requests \ {r} : req'[q] = req[q]
<1>1. req \in [Requests -> Records]
  BY DEF Typed, RequestsTyped
<1>2. CASE Resident!ReadLine(r)
  BY <1>1, <1>2 DEF Resident!ReadLine, Resident!Fails
<1>3. CASE Resident!Enter(r)
  BY <1>1, <1>3 DEF Resident!Enter, Resident!Goto
<1>4. ASSUME NEW ok \in BOOLEAN, Resident!CommandLine(r, ok)
      PROVE  \A q \in Requests \ {r} : req'[q] = req[q]
  BY <1>1, <1>4 DEF Resident!CommandLine
<1>5. CASE Resident!ServeStored(r) \/ Resident!Follow(r) \/ Resident!FollowerLeaves(r)
  BY <1>1, <1>5 DEF Resident!ServeStored, Resident!Follow, Resident!FollowerLeaves, Resident!Ends
<1>6. CASE Resident!Lock(r) \/ Resident!Ask(r) \/ Resident!Store(r) \/ Resident!Publish(r) \/ Resident!Retire(r)
  BY <1>1, <1>6 DEF Resident!Lock, Resident!Ask, Resident!Store, Resident!Publish, Resident!Retire, Resident!Goto
<1>7. CASE Resident!StartWorker(r)
  BY <1>7 DEF Resident!StartWorker
<1>8. CASE Resident!WorkerDoesNotStart(r) \/ Resident!Abandon(r) \/ Resident!WorkerIsGone(r) \/ Resident!Timeout(r)
  BY <1>1, <1>8 DEF Resident!WorkerDoesNotStart, Resident!Abandon, Resident!WorkerIsGone, Resident!Timeout, Resident!Fails
<1> QED
  BY <1>2, <1>3, <1>4, <1>5, <1>6, <1>7, <1>8 DEF Resident!Step

LEMMA Moves ==
    ASSUME Typed, NEW r \in Requests
    PROVE  /\ \A step : Resident!Goto(r, step) => req'[r].at = step /\ req'[r].leader = req[r].leader /\ req'[r].got = req[r].got
           /\ \A got : Resident!Ends(r, got) => req'[r].at = "ended" /\ req'[r].got = got
           /\ Resident!Fails(r) => req'[r].at \in {"cli", "publishes"} /\ req'[r].got = Failed
<1>1. req \in [Requests -> Records] /\ req[r] \in Records
  BY DEF Typed, RequestsTyped
<1>2. \A step : Resident!Goto(r, step) => req'[r].at = step /\ req'[r].leader = req[r].leader /\ req'[r].got = req[r].got
  BY <1>1 DEF Resident!Goto, Records
<1>3. \A got : Resident!Ends(r, got) => req'[r].at = "ended" /\ req'[r].got = got
  BY <1>1 DEF Resident!Ends, Records
<1>4. Resident!Fails(r) => req'[r].at \in {"cli", "publishes"} /\ req'[r].got = Failed
  BY <1>1 DEF Resident!Fails, Resident!AfterFailure, Records
<1> QED
  BY <1>2, <1>3, <1>4

-----------------------------------------------------------------------------
(* The mutex.                                                              *)
LEMMA HoldsStep ==
    ASSUME Resident!WorkerAssumption, Typed, OneHolds, [Resident!Next]_(Resident!vars)
    PROVE  OneHolds'
<1>1. NoOne \notin Requests /\ holder \in Requests \cup {NoOne} /\ req \in [Requests -> Records]
  BY DEF Resident!WorkerAssumption, Typed, RequestsTyped
<1>2. ASSUME NEW r \in Requests, Resident!Step(r) \/ Resident!FollowerLeaves(r) \/ Resident!Abandon(r)
      PROVE  OneHolds'
  <2>1. \A q \in Requests \ {r} : req'[q] = req[q]
    BY <1>2, OnlyOneMoves
  <2>2. \/ req[r].at \notin Waits /\ req'[r].at \notin Waits /\ holder' = holder
        \/ req[r].at \notin Waits /\ holder = NoOne /\ req'[r].at \in Waits /\ holder' = r
        \/ req[r].at \in Waits /\ req'[r].at \in Waits /\ holder' = holder
        \/ req[r].at \in Waits /\ req'[r].at \notin Waits /\ holder' = NoOne
        \/ req' = req /\ holder' = holder
    <3>1. CASE Resident!ServeStored(r) \/ Resident!Follow(r) \/ Resident!FollowerLeaves(r)
      BY <3>1, Moves DEF Resident!ServeStored, Resident!Follow, Resident!FollowerLeaves, Resident!At, Waits
    <3>2. CASE Resident!Enter(r)
      BY <1>1, <3>2 DEF Resident!Enter, Resident!Goto, Resident!At, Waits, Records
    <3>3. CASE Resident!Lock(r)
      BY <3>3, Moves DEF Resident!Lock, Resident!At, Waits
    <3>4. CASE Resident!StartWorker(r)
      BY <3>4 DEF Resident!StartWorker
    <3>5. CASE Resident!WorkerDoesNotStart(r) \/ Resident!WorkerIsGone(r) \/ Resident!Timeout(r) \/ Resident!Abandon(r)
      BY <3>5, Moves DEF Resident!WorkerDoesNotStart, Resident!WorkerIsGone, Resident!Timeout, Resident!Abandon, Resident!At, Waits
    <3>6. CASE Resident!Ask(r)
      BY <3>6, Moves DEF Resident!Ask, Resident!At, Waits
    <3>7. CASE Resident!ReadLine(r)
      <4>1. CASE Resident!At(r, "asked")
        <5>1. holder' = NoOne /\ (Resident!Fails(r) \/ req' = [req EXCEPT ![r].at = "resolved", ![r].got = Head(answers)])
          BY <3>7, <4>1 DEF Resident!ReadLine
        <5>2. req'[r].at \notin Waits
          BY <1>1, <5>1, Moves DEF Waits, Records
        <5> QED
          BY <4>1, <5>1, <5>2 DEF Resident!At, Waits
      <4>2. CASE ~Resident!At(r, "asked")
        BY <3>7, <4>2 DEF Resident!ReadLine
      <4> QED
        BY <4>1, <4>2
    <3>8. ASSUME NEW ok \in BOOLEAN, Resident!CommandLine(r, ok)
          PROVE  req[r].at \notin Waits /\ req'[r].at \notin Waits /\ holder' = holder
      BY <1>1, <3>8 DEF Resident!CommandLine, Resident!At, Waits, Records
    <3>9. CASE Resident!Store(r) \/ Resident!Publish(r) \/ Resident!Retire(r)
      BY <3>9, Moves DEF Resident!Store, Resident!Publish, Resident!Retire, Resident!At, Waits
    <3> QED
      BY <1>2, <3>1, <3>2, <3>3, <3>4, <3>5, <3>6, <3>7, <3>8, <3>9 DEF Resident!Step
  <2> QED
    BY <1>1, <2>1, <2>2 DEF OneHolds, Waits
<1>3. CASE UNCHANGED <<req, holder>>
  BY <1>3 DEF OneHolds
<1> QED
  BY <1>2, <1>3 DEF Resident!Next, Resident!Answer, Resident!LoseLine, Resident!ProcessDies, Resident!SetActiveAccount, Resident!Expire, Resident!vars

-----------------------------------------------------------------------------
(* Jobs.                                                                   *)
LEMMA JobsStep ==
    ASSUME Resident!WorkerAssumption, Typed, JobsOfTracks, [Resident!Next]_(Resident!vars)
    PROVE  JobsOfTracks'
<1>1. /\ NoOne \notin Requests /\ req \in [Requests -> Records] /\ inFlight \in [Tracks -> Requests \cup {NoOne}]
      /\ Wanted \in [Requests -> Tracks]
  BY DEF Resident!WorkerAssumption, Typed, RequestsTyped
<1>2. ASSUME NEW r \in Requests, Resident!Step(r) \/ Resident!FollowerLeaves(r) \/ Resident!Abandon(r)
      PROVE  JobsOfTracks'
  <2>1. \A q \in Requests \ {r} : req'[q] = req[q]
    BY <1>2, OnlyOneMoves
  <2>2. \/ req'[r].at # "follows"
        \/ req'[r] = req[r]
        \/ req'[r].leader \in Requests /\ req'[r].leader = inFlight[Wanted[r]]
    <3>1. CASE Resident!ServeStored(r) \/ Resident!Follow(r) \/ Resident!FollowerLeaves(r)
      BY <3>1, Moves DEF Resident!ServeStored, Resident!Follow, Resident!FollowerLeaves
    <3>2. CASE Resident!Enter(r)
      <4>1. inFlight[Wanted[r]] \in Requests \cup {NoOne}
        BY <1>1
      <4>2. CASE inFlight[Wanted[r]] = NoOne
        BY <3>2, <4>2, Moves DEF Resident!Enter
      <4>3. CASE inFlight[Wanted[r]] # NoOne
        BY <1>1, <3>2, <4>1, <4>3 DEF Resident!Enter, Records
      <4> QED
        BY <4>2, <4>3
    <3>3. CASE Resident!Lock(r) \/ Resident!Ask(r) \/ Resident!Store(r) \/ Resident!Publish(r) \/ Resident!Retire(r)
      BY <3>3, Moves DEF Resident!Lock, Resident!Ask, Resident!Store, Resident!Publish, Resident!Retire
    <3>4. CASE Resident!StartWorker(r)
      BY <3>4 DEF Resident!StartWorker
    <3>5. CASE Resident!WorkerDoesNotStart(r) \/ Resident!WorkerIsGone(r) \/ Resident!Timeout(r) \/ Resident!Abandon(r)
      BY <3>5, Moves DEF Resident!WorkerDoesNotStart, Resident!WorkerIsGone, Resident!Timeout, Resident!Abandon
    <3>6. CASE Resident!ReadLine(r)
      <4>1. req' = req \/ Resident!Fails(r) \/ req' = [req EXCEPT ![r].at = "resolved", ![r].got = Head(answers)]
        BY <3>6 DEF Resident!ReadLine
      <4> QED
        BY <1>1, <4>1, Moves DEF Records
    <3>7. ASSUME NEW ok \in BOOLEAN, Resident!CommandLine(r, ok)
          PROVE  req'[r].at # "follows"
      BY <1>1, <3>7 DEF Resident!CommandLine, Records
    <3> QED
      BY <1>2, <3>1, <3>2, <3>3, <3>4, <3>5, <3>6, <3>7 DEF Resident!Step
  <2>3. \A q \in Requests : req'[q].at = "follows" => req'[q].leader \in Requests /\ Wanted[req'[q].leader] = Wanted[q]
    BY <1>1, <2>1, <2>2 DEF JobsOfTracks
  <2>4. \A t \in Tracks : inFlight'[t] # NoOne => Wanted[inFlight'[t]] = t
    <3>1. CASE inFlight' = [inFlight EXCEPT ![Wanted[r]] = r] \/ inFlight' = [inFlight EXCEPT ![Wanted[r]] = NoOne]
      BY <1>1, <3>1 DEF JobsOfTracks
    <3>2. CASE UNCHANGED inFlight
      BY <3>2 DEF JobsOfTracks
    <3> QED
      BY <1>2, <3>1, <3>2 DEF Resident!Step, Resident!FollowerLeaves, Resident!Abandon, Resident!ServeStored, Resident!Enter, Resident!Follow, Resident!Lock, Resident!StartWorker,
            Resident!WorkerDoesNotStart, Resident!Ask, Resident!WorkerIsGone, Resident!Timeout, Resident!ReadLine, Resident!Store, Resident!Publish, Resident!Retire, Resident!CommandLine
  <2> QED
    BY <2>3, <2>4 DEF JobsOfTracks
<1>3. CASE UNCHANGED <<req, inFlight>>
  BY <1>3 DEF JobsOfTracks
<1> QED
  BY <1>2, <1>3 DEF Resident!Next, Resident!Answer, Resident!LoseLine, Resident!ProcessDies, Resident!SetActiveAccount, Resident!Expire, Resident!vars

-----------------------------------------------------------------------------
(* What is owed.                                                           *)
LEMMA NobodyElse ==
    ASSUME Resident!WorkerAssumption, OneHolds, NEW r \in Requests, holder \in {r, NoOne}
    PROVE  \A q \in Requests \ {r} : req[q].at \notin Waits
BY DEF Resident!WorkerAssumption, OneHolds, Waits

LEMMA AskedStep ==
    ASSUME Resident!WorkerAssumption, Typed, OneHolds, NothingOwed, NEW r \in Requests,
           Resident!StartWorker(r) \/ Resident!Ask(r) \/ Resident!WorkerIsGone(r) \/ Resident!Timeout(r) \/ Resident!Abandon(r) \/ Resident!ReadLine(r)
    PROVE  NothingOwed'
<1>1. req \in [Requests -> Records] /\ readers \subseteq Requests
  BY DEF Typed, RequestsTyped, ProcessTyped
<1>2. \A q \in Requests \ {r} : req'[q] = req[q]
  BY OnlyOneMoves DEF Resident!Step
<1>3. CASE Resident!StartWorker(r)
  <2>1. Empty' /\ astray' = FALSE /\ req' = req
    BY <1>3 DEF Resident!StartWorker, Empty
  <2>2. \A q \in Requests : req'[q].at # "asked"
    <3>1. req[r].at = "locked" /\ holder = r
      BY <1>3 DEF Resident!StartWorker, Resident!At, OneHolds
    <3> QED
      BY <2>1, <3>1, NobodyElse DEF Waits
  <2> QED
    BY <2>1, <2>2 DEF NothingOwed
<1>4. CASE Resident!Ask(r)
  <2>1. req[r].at = "locked" /\ holder = r /\ Resident!Usable
    BY <1>4 DEF Resident!Ask, Resident!At, OneHolds
  <2>2. \A q \in Requests \ {r} : req[q].at \notin Waits
    BY <2>1, NobodyElse
  <2>3. req'[r].at = "asked" /\ astray' = astray /\ client' = client
    BY <1>4, Moves DEF Resident!Ask
  <2>4. ~astray => OneLine(r)'
    <3>1. SUFFICES ASSUME ~astray PROVE OneLine(r)'
      OBVIOUS
    <3>2. Empty
      BY <2>1, <2>2, <3>1 DEF NothingOwed, Waits
    <3>3. asked' = <<Wanted[r]>> /\ answers' = <<>> /\ readers' = {r}
      BY <1>4, <3>2 DEF Resident!Ask, Empty
    <3> QED
      BY <3>3 DEF OneLine
  <2> QED
    BY <1>2, <2>2, <2>3, <2>4 DEF NothingOwed, Waits
<1>5. CASE Resident!WorkerIsGone(r) \/ Resident!Timeout(r)
  <2>1. usable' = FALSE /\ astray' = astray /\ client' = client /\ req'[r].at \in {"cli", "publishes"}
    BY <1>5, Moves DEF Resident!WorkerIsGone, Resident!Timeout, Resident!Discard
  <2>2. req[r].at \in Waits
    BY <1>5 DEF Resident!WorkerIsGone, Resident!Timeout, Resident!At, Waits
  <2>3. \A q \in Requests \ {r} : req[q].at \notin Waits
    BY <2>2, NobodyElse DEF OneHolds, Waits
  <2>4. ~(Resident!Usable')
    BY <2>1 DEF Resident!Usable
  <2> QED
    BY <1>2, <2>1, <2>3, <2>4 DEF NothingOwed, Waits
<1>6. CASE Resident!Abandon(r)
  BY <1>6 DEF Resident!Abandon, NothingOwed
<1>7. CASE Resident!ReadLine(r) /\ astray
  BY <1>7 DEF Resident!ReadLine, NothingOwed
<1>8. CASE Resident!ReadLine(r) /\ ~astray /\ Resident!At(r, "asked")
  <2>1. OneLine(r) /\ r \in readers /\ answers # <<>>
    BY <1>8 DEF Resident!ReadLine, Resident!At, NothingOwed
  <2>2. asked = <<>> /\ Tail(answers) = <<>> /\ readers \ {r} = {}
    <3>1. asked = <<>> /\ readers = {r} /\ \E x : answers = <<x>>
      BY <2>1 DEF OneLine
    <3> QED
      BY <3>1
  <2>3. Empty'
    BY <1>8, <2>2 DEF Resident!ReadLine, Empty
  <2>4. Resident!Fails(r) \/ req' = [req EXCEPT ![r].at = "resolved", ![r].got = Head(answers)]
    BY <1>8 DEF Resident!ReadLine
  <2>5. req'[r].at # "asked"
    BY <1>1, <2>4, Moves DEF Records
  <2>6. \A q \in Requests \ {r} : req[q].at \notin Waits
    BY <1>8, NobodyElse DEF OneHolds, Resident!At, Waits
  <2>7. client' = client /\ astray' = astray
    BY <1>8 DEF Resident!ReadLine
  <2> QED
    BY <1>2, <2>3, <2>5, <2>6, <2>7 DEF NothingOwed, Waits
<1>9. CASE Resident!ReadLine(r) /\ ~astray /\ ~Resident!At(r, "asked")
  <2>1. UNCHANGED <<client, process, usable, asked, astray, req>> /\ r \in readers /\ r \notin readers'
    BY <1>9 DEF Resident!ReadLine
  <2>2. \A q \in Requests : req[q].at # "asked"
    <3>1. ASSUME NEW q \in Requests, req[q].at = "asked" PROVE FALSE
      <4>1. readers = {q} /\ q # r
        BY <1>9, <3>1 DEF NothingOwed, OneLine, Resident!At
      <4> QED
        BY <2>1, <4>1
    <3> QED
      BY <3>1
  <2>3. ~Resident!Usable
    BY <1>9, <2>1, <2>2 DEF NothingOwed, Empty
  <2>4. ~(Resident!Usable')
    BY <2>1, <2>3 DEF Resident!Usable
  <2> QED
    BY <2>1, <2>2, <2>4 DEF NothingOwed
<1> QED
  BY <1>3, <1>4, <1>5, <1>6, <1>7, <1>8, <1>9

LEMMA OwedStep ==
    ASSUME Resident!WorkerAssumption, Typed, OneHolds, NothingOwed, [Resident!Next]_(Resident!vars)
    PROVE  NothingOwed'
<1>1. req \in [Requests -> Records] /\ asked \in Seq(Tracks) /\ NoOne \notin Requests
  BY DEF Typed, RequestsTyped, ProcessTyped, Resident!WorkerAssumption
<1>2. ASSUME UNCHANGED <<client, Resident!workerVars>>,
             \A q \in Requests : req'[q].at = "asked" <=> req[q].at = "asked"
      PROVE  NothingOwed'
  <2>1. UNCHANGED <<asked, answers, readers, astray, process, usable, client>>
    BY <1>2 DEF Resident!workerVars
  <2>2. Resident!Usable' = Resident!Usable
    BY <2>1 DEF Resident!Usable
  <2> QED
    BY <1>2, <2>1, <2>2 DEF NothingOwed, OneLine, Empty
<1>3. ASSUME NEW r \in Requests, Resident!Step(r) \/ Resident!FollowerLeaves(r) \/ Resident!Abandon(r)
      PROVE  NothingOwed'
  <2>1. CASE Resident!StartWorker(r) \/ Resident!Ask(r) \/ Resident!WorkerIsGone(r) \/ Resident!Timeout(r) \/ Resident!Abandon(r) \/ Resident!ReadLine(r)
    BY <2>1, AskedStep
  <2>2. CASE ~(Resident!StartWorker(r) \/ Resident!Ask(r) \/ Resident!WorkerIsGone(r) \/ Resident!Timeout(r) \/ Resident!Abandon(r) \/ Resident!ReadLine(r))
    <3>1. UNCHANGED <<client, Resident!workerVars>>
      BY <1>3, <2>2 DEF Resident!Step, Resident!FollowerLeaves, Resident!ServeStored, Resident!Enter, Resident!Follow, Resident!Lock, Resident!WorkerDoesNotStart, Resident!Store,
            Resident!Publish, Resident!Retire, Resident!CommandLine
    <3>2. req[r].at # "asked" /\ req'[r].at # "asked"
      <4>1. CASE Resident!ServeStored(r) \/ Resident!Follow(r) \/ Resident!FollowerLeaves(r)
        BY <4>1, Moves DEF Resident!ServeStored, Resident!Follow, Resident!FollowerLeaves, Resident!At
      <4>2. CASE Resident!Enter(r)
        BY <1>1, <4>2 DEF Resident!Enter, Resident!Goto, Resident!At, Records
      <4>3. CASE Resident!Lock(r) \/ Resident!Store(r) \/ Resident!Publish(r) \/ Resident!Retire(r)
        BY <4>3, Moves DEF Resident!Lock, Resident!Store, Resident!Publish, Resident!Retire, Resident!At
      <4>4. CASE Resident!WorkerDoesNotStart(r)
        BY <4>4, Moves DEF Resident!WorkerDoesNotStart, Resident!At
      <4>5. ASSUME NEW ok \in BOOLEAN, Resident!CommandLine(r, ok)
            PROVE  req[r].at # "asked" /\ req'[r].at # "asked"
        BY <1>1, <4>5 DEF Resident!CommandLine, Resident!At, Records
      <4> QED
        BY <1>3, <2>2, <4>1, <4>2, <4>3, <4>4, <4>5 DEF Resident!Step
    <3>3. \A q \in Requests \ {r} : req'[q] = req[q]
      BY <1>3, OnlyOneMoves
    <3> QED
      BY <1>2, <3>1, <3>2, <3>3
  <2> QED
    BY <2>1, <2>2
<1>4. ASSUME NEW ok \in BOOLEAN, Resident!Answer(ok)
      PROVE  NothingOwed'
  <2>1. /\ asked # <<>> /\ asked' = Tail(asked)
        /\ answers' = Append(answers, IF ok THEN Head(asked) ELSE Failed)
        /\ UNCHANGED <<client, process, usable, readers, astray, req>>
    BY <1>4 DEF Resident!Answer
  <2>2. ASSUME NEW q \in Requests, req[q].at = "asked", ~astray
        PROVE  OneLine(q)'
    <3>1. asked = <<Wanted[q]>> /\ answers = <<>> /\ readers = {q}
      BY <2>1, <2>2 DEF NothingOwed, OneLine
    <3>2. asked' = <<>> /\ answers' \in {<<Wanted[q]>>, <<Failed>>} /\ readers' = {q}
      BY <2>1, <3>1
    <3> QED
      BY <3>2 DEF OneLine
  <2>3. (Resident!Usable' <=> Resident!Usable) /\ ~Empty
    BY <2>1 DEF Resident!Usable, Empty
  <2> QED
    BY <2>1, <2>2, <2>3 DEF NothingOwed
<1>5. CASE Resident!LoseLine
  <2>1. Cardinality(readers) > 1 /\ UNCHANGED <<client, process, usable, asked, readers, astray, req>>
    <3>1. Resident!Cardinality(readers) = Cardinality(readers)
      BY Zenon DEF Resident!Cardinality, Cardinality
    <3> QED
      BY <1>5, <3>1 DEF Resident!LoseLine
  <2>2. readers # {} /\ \A q \in Requests : readers # {q}
    <3>1. Cardinality({}) = 0 /\ \A q : Cardinality({q}) = 1
      BY FS_EmptySet, FS_Singleton
    <3> HIDE DEF Cardinality
    <3> QED
      BY <2>1, <3>1
  <2>3. Resident!Usable' <=> Resident!Usable
    BY <2>1 DEF Resident!Usable
  <2> QED
    BY <2>1, <2>2, <2>3 DEF NothingOwed, OneLine, Empty
<1>6. CASE Resident!ProcessDies
  <2>1. asked' = <<>> /\ UNCHANGED <<client, usable, answers, readers, astray, req>>
    BY <1>6 DEF Resident!ProcessDies
  <2>2. Resident!Usable' => Resident!Usable
    BY <1>6 DEF Resident!ProcessDies, Resident!Usable
  <2> QED
    BY <2>1, <2>2 DEF NothingOwed, OneLine, Empty
<1>7. CASE Resident!SetActiveAccount
  <2>1. UNCHANGED <<client, asked, answers, readers, astray, req>>
    BY <1>7 DEF Resident!SetActiveAccount
  <2>2. ~(Resident!Usable')
    BY <1>7 DEF Resident!SetActiveAccount, Resident!Usable
  <2> QED
    BY <2>1, <2>2 DEF NothingOwed, OneLine
<1>8. CASE (\E t \in Tracks : Resident!Expire(t)) \/ UNCHANGED Resident!vars
  <2>1. UNCHANGED <<client, Resident!workerVars, req>>
    BY <1>8 DEF Resident!Expire, Resident!vars
  <2> QED
    BY <1>2, <2>1
<1> QED
  BY <1>3, <1>4, <1>5, <1>6, <1>7, <1>8 DEF Resident!Next

-----------------------------------------------------------------------------
(* What YouTube's requests are given.                                      *)
Own(r) == {NoOne, Failed, Wanted[r]}

LEMMA OwnStep ==
    ASSUME Resident!WorkerAssumption, Typed, OneHolds, NothingOwed, JobsOfTracks, OwnTrack, [Resident!Next]_(Resident!vars)
    PROVE  OwnTrack'
<1>1. SUFFICES ASSUME client' = "youtube" PROVE \A q \in Requests : req'[q].got \in Own(q) /\ job'[q] \in Own(q)
  BY DEF OwnTrack, Own
<1>2. client = "youtube"
  BY <1>1 DEF Resident!Next, Resident!Step, Resident!FollowerLeaves, Resident!Abandon, Resident!ServeStored, Resident!Enter, Resident!Follow, Resident!Lock, Resident!StartWorker, Resident!Discard,
        Resident!WorkerDoesNotStart, Resident!Ask, Resident!WorkerIsGone, Resident!Timeout, Resident!ReadLine, Resident!Store, Resident!Publish, Resident!Retire, Resident!CommandLine,
        Resident!Answer, Resident!LoseLine, Resident!ProcessDies, Resident!SetActiveAccount, Resident!Expire, Resident!vars
<1>3. \A q \in Requests : req[q].got \in Own(q) /\ job[q] \in Own(q)
  BY <1>2 DEF OwnTrack, Own
<1>4. req \in [Requests -> Records] /\ job \in [Requests -> Tracks \cup {NoOne, Failed}]
  BY DEF Typed, RequestsTyped
<1>5. ASSUME NEW r \in Requests, Resident!Step(r) \/ Resident!FollowerLeaves(r) \/ Resident!Abandon(r)
      PROVE  \A q \in Requests : req'[q].got \in Own(q) /\ job'[q] \in Own(q)
  <2>1. \A q \in Requests \ {r} : req'[q] = req[q]
    BY <1>5, OnlyOneMoves
  <2>2. req'[r].got \in Own(r)
    <3>1. CASE Resident!ServeStored(r) \/ Resident!FollowerLeaves(r)
      BY <3>1, Moves DEF Resident!ServeStored, Resident!FollowerLeaves, Own
    <3>2. CASE Resident!Follow(r)
      <4>1. req[r].leader \in Requests /\ Wanted[req[r].leader] = Wanted[r]
        BY <3>2 DEF Resident!Follow, Resident!At, JobsOfTracks
      <4>2. job[req[r].leader] \in Own(r)
        BY <1>3, <4>1 DEF Own
      <4> QED
        BY <3>2, <4>2, Moves DEF Resident!Follow
    <3>3. CASE Resident!Enter(r)
      <4>1. Resident!Goto(r, "leads") \/ req' = [req EXCEPT ![r].at = "follows", ![r].leader = inFlight[Wanted[r]]]
        BY <3>3 DEF Resident!Enter
      <4>2. req'[r].got = req[r].got
        BY <1>4, <4>1, Moves DEF Records
      <4> QED
        BY <1>3, <4>2
    <3>4. CASE Resident!Lock(r) \/ Resident!Ask(r) \/ Resident!Store(r) \/ Resident!Publish(r) \/ Resident!Retire(r)
      <4>1. req'[r].got = req[r].got
        BY <3>4, Moves DEF Resident!Lock, Resident!Ask, Resident!Store, Resident!Publish, Resident!Retire
      <4> QED
        BY <1>3, <4>1
    <3>5. CASE Resident!StartWorker(r)
      BY <1>3, <3>5 DEF Resident!StartWorker
    <3>6. CASE Resident!WorkerDoesNotStart(r) \/ Resident!WorkerIsGone(r) \/ Resident!Timeout(r) \/ Resident!Abandon(r)
      BY <3>6, Moves DEF Resident!WorkerDoesNotStart, Resident!WorkerIsGone, Resident!Timeout, Resident!Abandon, Own
    <3>7. CASE Resident!ReadLine(r)
      <4>1. CASE req' = req
        BY <1>3, <4>1
      <4>2. CASE Resident!Fails(r)
        BY <4>2, Moves DEF Own
      <4>3. CASE Resident!At(r, "asked") /\ req' = [req EXCEPT ![r].at = "resolved", ![r].got = Head(answers)]
        <5>1. OneLine(r) /\ answers # <<>>
          BY <1>2, <3>7, <4>3 DEF NothingOwed, Resident!ReadLine, Resident!At
        <5>2. Head(answers) \in {Failed, Wanted[r]}
          BY <5>1 DEF OneLine
        <5>3. req'[r].got = Head(answers)
          BY <1>4, <4>3 DEF Records
        <5> QED
          BY <5>2, <5>3 DEF Own
      <4> QED
        BY <3>7, <4>1, <4>2, <4>3 DEF Resident!ReadLine
    <3>8. ASSUME NEW ok \in BOOLEAN, Resident!CommandLine(r, ok)
          PROVE  req'[r].got \in Own(r)
      BY <1>4, <3>8 DEF Resident!CommandLine, Records, Own
    <3> QED
      BY <1>5, <3>1, <3>2, <3>3, <3>4, <3>5, <3>6, <3>7, <3>8 DEF Resident!Step
  <2>3. job' = job \/ job' = [job EXCEPT ![r] = req[r].got]
    BY <1>5 DEF Resident!Step, Resident!FollowerLeaves, Resident!Abandon, Resident!ServeStored, Resident!Enter, Resident!Follow, Resident!Lock, Resident!StartWorker,
          Resident!WorkerDoesNotStart, Resident!Ask, Resident!WorkerIsGone, Resident!Timeout, Resident!ReadLine, Resident!Store, Resident!Publish, Resident!Retire, Resident!CommandLine
  <2>4. \A q \in Requests : job'[q] \in Own(q)
    BY <1>3, <1>4, <2>3
  <2> QED
    BY <1>3, <2>1, <2>2, <2>4
<1>6. CASE UNCHANGED <<req, job>>
  BY <1>3, <1>6
<1> QED
  BY <1>5, <1>6 DEF Resident!Next, Resident!Answer, Resident!LoseLine, Resident!ProcessDies, Resident!SetActiveAccount, Resident!Expire, Resident!vars

-----------------------------------------------------------------------------
LEMMA Initially ==
    ASSUME Resident!WorkerAssumption, Resident!Init
    PROVE  IInv
<1>1. NoOne \notin Requests
  BY DEF Resident!WorkerAssumption
<1>2. Typed
  <2>1. ProcessTyped
    <3>1. <<>> \in Seq(Tracks) /\ <<>> \in Seq(Tracks \cup {Failed})
      OBVIOUS
    <3> QED
      BY <3>1 DEF Resident!Init, ProcessTyped
  <2>2. [at |-> "new", leader |-> NoOne, got |-> NoOne] \in Records
    BY StepNames DEF Records
  <2> QED
    BY <2>1, <2>2 DEF Resident!Init, Typed, RequestsTyped
<1>3. \A r \in Requests : req[r].at = "new" /\ req[r].got = NoOne /\ job[r] = NoOne
  BY DEF Resident!Init
<1>4. OneHolds /\ NothingOwed /\ JobsOfTracks /\ OwnTrack
  BY <1>1, <1>3 DEF Resident!Init, OneHolds, NothingOwed, Resident!Usable, JobsOfTracks, OwnTrack
<1> QED
  BY <1>2, <1>4 DEF IInv

LEMMA Inductive ==
    ASSUME Resident!WorkerAssumption, IInv, [Resident!Next]_(Resident!vars)
    PROVE  IInv'
BY TypedStep, HoldsStep, OwedStep, JobsStep, OwnStep DEF IInv

(* worker.go and client.go, the mutex and the map of jobs: the next line   *)
(* of a process answers the question of the one request that waits for it, *)
(* as long as no request has left an answer behind; and who follows a job  *)
(* follows one for its own track.                                          *)
THEOREM AnswersBelong ==
    ASSUME Resident!WorkerAssumption
    PROVE  Resident!Spec => []Resident!RightStream
<1>1. Resident!Init => IInv
  BY Initially
<1>2. IInv /\ [Resident!Next]_(Resident!vars) => IInv'
  BY Inductive
<1>3. IInv => Resident!RightStream
  <2> SUFFICES ASSUME IInv, NEW r \in Requests
               PROVE  /\ Resident!At(r, "asked") /\ ~astray =>
                             /\ readers = {r}
                             /\ asked \o answers \in {<<>>, <<Wanted[r]>>, <<Failed>>}
                      /\ Resident!At(r, "follows") => Wanted[req[r].leader] = Wanted[r]
    BY DEF Resident!RightStream
  <2>1. Resident!At(r, "follows") => Wanted[req[r].leader] = Wanted[r]
    BY DEF IInv, JobsOfTracks, Resident!At
  <2>2. CASE Resident!At(r, "asked") /\ ~astray
    <3>1. OneLine(r)
      BY <2>2 DEF IInv, NothingOwed, Resident!At
    <3>2. asked = <<>> \/ answers = <<>>
      BY <3>1 DEF OneLine
    <3>3. asked \o answers \in {asked, answers}
      BY <3>2 DEF IInv, Typed, ProcessTyped
    <3> QED
      BY <2>1, <3>1, <3>3 DEF OneLine
  <2> QED
    BY <2>1, <2>2
<1> QED
  BY <1>1, <1>2, <1>3, PTL DEF Resident!Spec

(* ytmusic/client.go, where no request leaves while its answer is          *)
(* outstanding: whoever times out, whichever process dies or is recycled,  *)
(* no request is ever given the stream of another track.                   *)
THEOREM NoOtherTrackOnYouTube ==
    ASSUME Resident!WorkerAssumption
    PROVE  Resident!Spec => [](client = "youtube" => Resident!RightStreamAlways)
<1>1. Resident!Init => IInv
  BY Initially
<1>2. IInv /\ [Resident!Next]_(Resident!vars) => IInv'
  BY Inductive
<1>3. IInv => (client = "youtube" => Resident!RightStreamAlways)
  BY DEF IInv, OwnTrack, Resident!RightStreamAlways
<1> QED
  BY <1>1, <1>2, <1>3, PTL DEF Resident!Spec
-----------------------------------------------------------------------------
(* In the composition, where the other ways to send audio have their turn. *)
LEMMA RequestsTakePart == StreamsSpec => Resident!Spec
<1>1. StreamsInit => Resident!Init
  BY DEF StreamsInit
<1>2. [StreamsNext]_all => [Resident!Next]_(Resident!vars)
  <2> SUFFICES ASSUME [StreamsNext]_all PROVE [Resident!Next]_(Resident!vars)
    OBVIOUS
  <2>1. CASE ResidentStep
    BY <2>1 DEF ResidentStep
  <2>2. CASE UNCHANGED residentVars
    BY <2>2 DEF residentVars, Resident!vars, Resident!workerVars
  <2> QED
    BY <2>1, <2>2 DEF StreamsNext, StitchStep, DownloadStep, SessionStep, ResidentStep, all
<1> QED
  BY <1>1, <1>2, PTL DEF StreamsSpec, Resident!Spec

(* The next line of the resident process is for the one request that waits *)
(* for it, as long as none has left its answer behind.                     *)
THEOREM RequestsGetTheirAnswers == ASSUME Resident!WorkerAssumption PROVE StreamsSpec => []RightStream
BY RequestsTakePart, AnswersBelong, PTL DEF RightStream

=============================================================================
