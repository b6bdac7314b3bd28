--------------------------- MODULE MirrorManager ---------------------------
(***************************************************************************)
(* provider/tidal/mirror_manager.go: the health state of the proxy mirrors *)
(* Tidal requests go through.                                              *)
(*                                                                         *)
(* A mirror is healthy, unhealthy or probing.  Its state and counters are  *)
(* atomics that request goroutines (ReportResult) and health check         *)
(* goroutines (checkMirror) read and write one at a time, so that a        *)
(* decision taken on one read may be carried out after somebody else's     *)
(* write: each load or store another goroutine can come between is a step. *)
(*                                                                         *)
(* Times are kept as time elapsed, up to `longer than the cooldown'.       *)
(* Latencies, scores and success rates order the mirrors that are in       *)
(* rotation and are left out.                                              *)
(***************************************************************************)
EXTENDS Integers, FiniteSets

CONSTANTS
    Mirrors,           \* URLs an administrator may list
    Requests,          \* goroutines that send requests through a mirror
    Checks,            \* health check goroutines (those of two rounds may overlap)
    FailureThreshold,  \* mm.failureThreshold
    Cooldown,          \* mm.cooldownDuration in ticks
    MayChange          \* the mirror list is edited while the server runs

ASSUME ThresholdAssumption == FailureThreshold \in Nat \ {0} /\ Cooldown \in Nat

VARIABLES
    listed,              \* mm.mirrors
    state,               \* mirror -> "healthy" | "unhealthy" | "probing"
    failCount,           \* mirror -> failures counted, up to FailureThreshold
    consecutiveSuccess,  \* mirror -> successful probes in a row, up to 2
    sinceFail,           \* mirror -> time since lastFail
    sinceCheckFail,      \* mirror -> time since lastHealthCheckFail
    up,                  \* mirror -> the server behind it works
    proc                 \* goroutine -> what it is doing, and for which mirror

mirrorVars == <<state, failCount, consecutiveSuccess, sinceFail, sinceCheckFail>>
vars == <<listed, mirrorVars, up, proc>>

Procs == Requests \cup Checks
Long == Cooldown + 1
Least(a, b) == IF a < b THEN a ELSE b
Idle == [at |-> "idle"]

Doing(p, step) == proc[p].at = step
Leave(p) == proc' = [proc EXCEPT ![p] = Idle]
Goto(p, step) == proc' = [proc EXCEPT ![p].at = step]

Init ==
    /\ listed = Mirrors
    /\ state = [m \in Mirrors |-> "healthy"]
    /\ failCount = [m \in Mirrors |-> 0]
    /\ consecutiveSuccess = [m \in Mirrors |-> 0]
    /\ sinceFail = [m \in Mirrors |-> Long]
    /\ sinceCheckFail = [m \in Mirrors |-> Long]
    /\ up = [m \in Mirrors |-> TRUE]
    /\ proc = [p \in Procs |-> Idle]

(***************************************************************************)
(* A request: it goes to a mirror in rotation, and its outcome is reported.*)
(***************************************************************************)
InRotation(m) == m \in listed /\ state[m] # "unhealthy"

SendRequest(p, m) ==
    /\ p \in Requests /\ Doing(p, "idle")
    /\ InRotation(m)
    /\ proc' = [proc EXCEPT ![p] = [at |-> "sent", m |-> m]]
    /\ UNCHANGED <<listed, mirrorVars, up>>

(* ReportResult, an API rejection or a cancelled request: no penalty. *)
RequestDenied(p) ==
    /\ Doing(p, "sent")
    /\ Leave(p)
    /\ UNCHANGED <<listed, mirrorVars, up>>

RequestSucceeds(p) ==
    /\ Doing(p, "sent") /\ up[proc[p].m]
    /\ Goto(p, "succeeded")
    /\ UNCHANGED <<listed, mirrorVars, up>>

(* The error of a request of the stream race that names neither 429, nor   *)
(* 500 to 504, nor a timeout: filterMirrorError makes it no error at all,  *)
(* be it the cancellation of a loser or a refused connection, and what     *)
(* follows is the report of a success.                                     *)
Forgiven(p) ==
    /\ Doing(p, "sent")
    /\ Goto(p, "forgiven")
    /\ UNCHANGED <<listed, mirrorVars, up>>

(* ReportResult, any other error: it is counted, and it breaks the circuit *)
(* if it is a 429 or the count has reached the threshold.                  *)
RequestFails(p, limited) ==
    /\ Doing(p, "sent") /\ (limited \/ ~up[proc[p].m])
    /\ LET m == proc[p].m
           count == Least(failCount[m] + 1, FailureThreshold)
       IN  /\ failCount' = [failCount EXCEPT ![m] = count]
           /\ sinceFail' = [sinceFail EXCEPT ![m] = 0]
           /\ IF limited \/ count = FailureThreshold THEN Goto(p, "break") ELSE Leave(p)
    /\ UNCHANGED <<listed, state, consecutiveSuccess, sinceCheckFail, up>>

Break(p) ==
    /\ Doing(p, "break")
    /\ IF state[proc[p].m] = "healthy" THEN Goto(p, "trip") ELSE Leave(p)
    /\ UNCHANGED <<listed, mirrorVars, up>>

Trip(p) ==
    /\ Doing(p, "trip")
    /\ state' = [state EXCEPT ![proc[p].m] = "unhealthy"]
    /\ Leave(p)
    /\ UNCHANGED <<listed, failCount, consecutiveSuccess, sinceFail, sinceCheckFail, up>>

(* ReportResult, a success: the count is reset ...                         *)
ResetFailures(p) ==
    /\ proc[p].at \in {"succeeded", "forgiven"}
    /\ failCount' = [failCount EXCEPT ![proc[p].m] = 0]
    /\ Goto(p, "recover")
    /\ UNCHANGED <<listed, state, consecutiveSuccess, sinceFail, sinceCheckFail, up>>

(* ... and the state read: unhealthy becomes probing once the last failed  *)
(* request is a cooldown ago, probing becomes healthy.                     *)
Recover(p) ==
    /\ Doing(p, "recover")
    /\ LET m == proc[p].m
       IN  CASE state[m] = "unhealthy" /\ sinceFail[m] > Cooldown -> Goto(p, "toProbing")
             [] state[m] = "probing" -> Goto(p, "toHealthy")
             [] OTHER -> Leave(p)
    /\ UNCHANGED <<listed, mirrorVars, up>>

Promote(p) ==
    /\ proc[p].at \in {"toProbing", "toHealthy"}
    /\ state' = [state EXCEPT ![proc[p].m] =
           IF Doing(p, "toProbing") THEN "probing" ELSE "healthy"]
    /\ Leave(p)
    /\ UNCHANGED <<listed, failCount, consecutiveSuccess, sinceFail, sinceCheckFail, up>>

(***************************************************************************)
(* A health check.  Every mirror in the list is checked again and again,   *)
(* a healthy one on a fifth of the rounds.                                 *)
(***************************************************************************)
StartCheckHealthy(p, m) ==   \* Mutant: the test that skips healthy mirrors is inverted.
    /\ p \in Checks /\ Doing(p, "idle")
    /\ m \in listed /\ state[m] = "healthy"
    /\ proc' = [proc EXCEPT ![p] = [at |-> "probe", m |-> m]]
    /\ UNCHANGED <<listed, mirrorVars, up>>

StartCheck(p, m) ==
    /\ p \in Checks /\ Doing(p, "idle")
    /\ m \in listed
    /\ proc' = [proc EXCEPT ![p] = [at |-> "probe", m |-> m]]
    /\ UNCHANGED <<listed, mirrorVars, up>>

\* Mutant: a failed check of a healthy mirror is not counted.
CheckFailsUncounted(p) ==
    /\ Doing(p, "probe") /\ ~up[proc[p].m]
    /\ LET m == proc[p].m
       IN  /\ sinceCheckFail' = [sinceCheckFail EXCEPT ![m] = 0]
           /\ consecutiveSuccess' = [consecutiveSuccess EXCEPT ![m] = 0]
    /\ Leave(p)
    /\ UNCHANGED <<listed, state, failCount, sinceFail, up>>

CheckFails(p) ==
    /\ Doing(p, "probe") /\ ~up[proc[p].m]
    /\ LET m == proc[p].m
       IN  /\ sinceCheckFail' = [sinceCheckFail EXCEPT ![m] = 0]
           /\ consecutiveSuccess' = [consecutiveSuccess EXCEPT ![m] = 0]
    /\ Goto(p, "checkFailed")
    /\ UNCHANGED <<listed, state, failCount, sinceFail, up>>

CountCheckFailure(p) ==
    /\ Doing(p, "checkFailed")
    /\ LET m == proc[p].m
       IN  IF state[m] = "healthy"
           THEN /\ failCount' = [failCount EXCEPT ![m] = Least(@ + 1, FailureThreshold)]
                /\ Goto(p, "checkThreshold")
           ELSE Leave(p) /\ UNCHANGED failCount
    /\ UNCHANGED <<listed, state, consecutiveSuccess, sinceFail, sinceCheckFail, up>>

CheckThreshold(p) ==
    /\ Doing(p, "checkThreshold")
    /\ IF failCount[proc[p].m] >= FailureThreshold THEN Goto(p, "trip") ELSE Leave(p)
    /\ UNCHANGED <<listed, mirrorVars, up>>

CheckSucceeds(p) ==
    /\ Doing(p, "probe") /\ up[proc[p].m]
    /\ LET m == proc[p].m
           row == Least(consecutiveSuccess[m] + 1, 2)
       IN  /\ consecutiveSuccess' = [consecutiveSuccess EXCEPT ![m] = row]
           /\ proc' = [proc EXCEPT ![p] = [at |-> "checked", m |-> m, row |-> row]]
    /\ UNCHANGED <<listed, state, failCount, sinceFail, sinceCheckFail, up>>

(* An unhealthy mirror whose last failed check is a cooldown ago is put on *)
(* probation, one on probation is passed at its second success in a row,   *)
(* and the success is then reported like that of a request.                *)
Checked(p) ==
    /\ Doing(p, "checked")
    /\ LET m == proc[p].m
       IN  proc' = [proc EXCEPT ![p] = [m |-> m, at |->
               CASE state[m] = "unhealthy" /\ sinceCheckFail[m] > Cooldown -> "enterProbing"
                 [] state[m] = "probing" /\ proc[p].row >= 2 -> "passed"
                 [] OTHER -> "succeeded"]]
    /\ UNCHANGED <<listed, mirrorVars, up>>

EnterProbing(p) ==
    /\ Doing(p, "enterProbing")
    /\ state' = [state EXCEPT ![proc[p].m] = "probing"]
    /\ consecutiveSuccess' = [consecutiveSuccess EXCEPT ![proc[p].m] = 1]
    /\ Goto(p, "succeeded")
    /\ UNCHANGED <<listed, failCount, sinceFail, sinceCheckFail, up>>

Passed(p) ==
    /\ Doing(p, "passed")
    /\ state' = [state EXCEPT ![proc[p].m] = "healthy"]
    /\ failCount' = [failCount EXCEPT ![proc[p].m] = 0]
    /\ Goto(p, "succeeded")
    /\ UNCHANGED <<listed, consecutiveSuccess, sinceFail, sinceCheckFail, up>>

(***************************************************************************)
(* UpdateMirrors: a mirror that stays in the list keeps its statistics, a  *)
(* new one starts healthy.  A goroutine that still works on a mirror that  *)
(* was removed works on an object nobody will look at again.               *)
(***************************************************************************)
Fresh(f, new, v) == [m \in Mirrors |-> IF m \in new THEN v ELSE f[m]]

UpdateMirrors(S) ==
    /\ MayChange /\ S # listed
    /\ listed' = S
    /\ LET new == S \ listed
       IN  /\ state' = Fresh(state, new, "healthy")
           /\ failCount' = Fresh(failCount, new, 0)
           /\ consecutiveSuccess' = Fresh(consecutiveSuccess, new, 0)
           /\ sinceFail' = Fresh(sinceFail, new, Long)
           /\ sinceCheckFail' = Fresh(sinceCheckFail, new, Long)
    /\ proc' = [p \in Procs |->
           IF Doing(p, "idle") \/ proc[p].m \in S THEN proc[p] ELSE Idle]
    /\ UNCHANGED up

Elapse(f) == [m \in Mirrors |-> Least(f[m] + 1, Long)]

Tick ==
    /\ sinceFail' = Elapse(sinceFail)
    /\ sinceCheckFail' = Elapse(sinceCheckFail)
    /\ UNCHANGED <<listed, state, failCount, consecutiveSuccess, up, proc>>

(* External: the server behind a mirror goes down or comes back. *)
ServerChanges(m) ==
    /\ up' = [up EXCEPT ![m] = ~@]
    /\ UNCHANGED <<listed, mirrorVars, proc>>

(* What a goroutine that has begun does next. *)
Proceed(p) ==
    \/ RequestDenied(p) \/ RequestSucceeds(p) \/ Forgiven(p)
    \/ \E limited \in BOOLEAN : RequestFails(p, limited)
    \/ Break(p) \/ Trip(p) \/ ResetFailures(p) \/ Recover(p) \/ Promote(p)
    \/ CheckFails(p) \/ CountCheckFailure(p) \/ CheckThreshold(p)
    \/ CheckSucceeds(p) \/ Checked(p) \/ EnterProbing(p) \/ Passed(p)

Next ==
    \/ \E p \in Procs : Proceed(p)
    \/ \E p \in Procs, m \in Mirrors : SendRequest(p, m) \/ StartCheck(p, m)
    \/ \E S \in SUBSET Mirrors : UpdateMirrors(S)
    \/ \E m \in Mirrors : ServerChanges(m)
    \/ Tick

Spec == Init /\ [][Next]_vars

(* Every request and every probe has a timeout, so goroutines get on; the  *)
(* health check ticker never stops, and a healthy mirror is skipped with   *)
(* probability 0.8 only, so every listed mirror is checked again; time     *)
(* passes.  Nothing is assumed of the servers.                             *)
FairSpec ==
    /\ Spec
    /\ \A p \in Procs : WF_vars(Proceed(p))
    /\ \A m \in Mirrors : WF_vars(\E p \in Checks : StartCheck(p, m))
    /\ WF_vars(Tick)

-----------------------------------------------------------------------------

Steps == {"idle", "sent", "break", "trip", "succeeded", "forgiven", "recover",
          "toProbing", "toHealthy", "probe", "checkFailed", "checkThreshold", "checked",
          "enterProbing", "passed"}

TypeOK ==
    /\ listed \subseteq Mirrors
    /\ state \in [Mirrors -> {"healthy", "unhealthy", "probing"}]
    /\ failCount \in [Mirrors -> 0..FailureThreshold]
    /\ consecutiveSuccess \in [Mirrors -> 0..2]
    /\ sinceFail \in [Mirrors -> 0..Long] /\ sinceCheckFail \in [Mirrors -> 0..Long]
    /\ up \in [Mirrors -> BOOLEAN]
    /\ \A p \in Procs : /\ proc[p].at \in Steps
                        /\ ~Doing(p, "idle") => proc[p].m \in listed

(* A mirror whose server is back, and stays, gets back into rotation as a  *)
(* healthy one, and again after every setback: no interleaving of reports  *)
(* and checks parks it outside for good.                                   *)
BackInRotation ==
    \A m \in Mirrors :
        <>[](up[m] /\ m \in listed) => []<>(state[m] = "healthy")

(* A mirror whose server is gone for good stops being a healthy one, even  *)
(* if no request ever reports it, and late reports of earlier successes    *)
(* do not bring it back for good.  Requests that keep being forgiven do:   *)
(* the code reports them as successes.                                     *)
ForgivenAt(m) == \E p \in Requests : Doing(p, "forgiven") /\ proc[p].m = m

OutOfRotation ==
    \A m \in Mirrors :
        <>[](~up[m] /\ m \in listed /\ ~ForgivenAt(m)) => <>[](state[m] # "healthy")
=============================================================================
