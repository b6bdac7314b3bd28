--------------------------- MODULE DeezerAccounts ---------------------------
(***************************************************************************)
(* provider/deezer (client.go, account.go, worker.go) with the accounts in *)
(* the database and the admin's handlers: one track that is asked for by   *)
(* several requests, downloaded with one account after another and kept as *)
(* a file, while accounts lose their subscription, requests report that,   *)
(* an hourly worker checks them and the admin edits them.                  *)
(*                                                                         *)
(* A statement on the database, a critical section of the pool and a call  *)
(* to Deezer are a step each.  Accounts have one of two tiers, "paid" for  *)
(* lossless; which of the eligible ones the rotating index picks is left   *)
(* open, for all requests of the server advance it.  No mirror is          *)
(* configured, and a stream filter is.                                     *)
(***************************************************************************)
EXTENDS Naturals, FiniteSets

CONSTANTS
    Accounts,   \* subscriptions, with the id of their row
    Managed,    \* the accounts that change at Deezer and that the admin edits
    Requests,   \* calls of GetStreamURL for the track
    Wants,      \* what they ask for: "lossless", "lossy"
    None,       \* no row, no mutex, no holder
    MaxChanges, \* bound: how often a subscription changes at Deezer
    MaxEdits    \* bound: edits of the admin

ASSUME DeezerAssumption ==
    /\ None \notin Accounts \cup Requests /\ IsFiniteSet(Accounts)
    /\ None \notin [active : BOOLEAN, tier : {"paid", "free"}]
    /\ Managed \subseteq Accounts /\ Wants \subseteq {"lossless", "lossy"}
    /\ MaxChanges \in Nat /\ MaxEdits \in Nat

VARIABLES
    service, \* account -> "paid", "free" or "expired": what Deezer grants
    row,     \* account -> [active, tier] or None: deezer_accounts
    session, \* account -> [pooled, active, tier, seen]: its latest session
    files,   \* which of "flac" and "mp3" the cache directory has
    entry,   \* downloadLocks[track]: a mutex, named for who made it, or None
    holder,  \* mutex -> the request that has locked it, or None
    req,     \* request -> where it is
    keeper,  \* "worker" or "admin" -> where its round or edit is
    changes, \* changes of subscriptions so far
    edits    \* edits so far

locks == <<entry, holder>>
vars == <<service, row, session, files, locks, req, keeper, changes, edits>>

Keepers == {"worker", "admin"}
Nobody == [a \in {} |-> "paid"]
Resting == [at |-> "idle", acc |-> None, copy |-> None, verdict |-> "none", list |-> Nobody]
Waiting == [at |-> "start", want |-> "lossless", mutex |-> None,
            left |-> 0, acc |-> None, error |-> "none"]

Init ==
    /\ service = [a \in Accounts |-> "paid"]
    /\ row = [a \in Accounts |-> [active |-> TRUE, tier |-> "paid"]]
    /\ session = [a \in Accounts |->
                     [pooled |-> TRUE, active |-> TRUE, tier |-> "paid", seen |-> "none"]]
    /\ files = {} /\ entry = None
    /\ holder = [m \in Requests |-> None]
    /\ req = [r \in Requests |-> Waiting]
    /\ keeper = [k \in Keepers |-> Resting]
    /\ changes = 0 /\ edits = 0

(***************************************************************************)
(* The pool.  A session that left it keeps its state for the request that  *)
(* still uses it; seen is the plan it learnt with its tokens, or "none".   *)
(***************************************************************************)
Usable(a) == session[a].pooled /\ session[a].active
Active == {a \in Accounts : Usable(a)}
Lossless == {a \in Active : session[a].tier = "paid"}

(* GetNextAccount: an account of the tier, or any when there is none.  HIGH*)
(* wants the better tier as well: its choice is among those of "lossy".    *)
Eligible(want) == IF want = "lossless" /\ Lossless # {} THEN Lossless ELSE Active

(* SyncAccounts keeps the session of an account that is still listed.      *)
Synced(list) == [a \in Accounts |->
    IF a \in DOMAIN list
    THEN [pooled |-> TRUE, active |-> TRUE, tier |-> list[a],
          seen |-> IF session[a].pooled THEN session[a].seen ELSE "none"]
    ELSE [session[a] EXCEPT !.pooled = FALSE]]

(***************************************************************************)
(* A request.                                                              *)
(***************************************************************************)
At(r, step) == req[r].at = step
Go(r, step) == req' = [req EXCEPT ![r].at = step]
others == <<service, row, keeper, changes, edits>>

(* A file in the cache answers the request.                                *)
Cached(want) == "flac" \in files \/ ("mp3" \in files /\ (want = "lossy" \/ Lossless = {}))

Start(r, want) ==
    /\ At(r, "start")
    /\ req' = IF Cached(want) \/ Active = {} THEN [req EXCEPT ![r].at = "done"]
              ELSE [req EXCEPT ![r].want = want, ![r].at = "enter"]
    /\ UNCHANGED <<session, files, locks, others>>

(* LoadOrStore finds the mutex of the track or leaves one for it; ...      *)
Enter(r) ==
    /\ At(r, "enter")
    /\ entry' = IF entry = None THEN r ELSE entry
    /\ req' = [req EXCEPT ![r].at = "lock", ![r].mutex = entry']
    /\ UNCHANGED <<session, files, holder, others>>

(* ... under it, the cache is looked at again.                             *)
Lock(r) ==
    /\ At(r, "lock") /\ holder[req[r].mutex] = None
    /\ holder' = [holder EXCEPT ![req[r].mutex] = r]
    /\ req' = IF Cached(req[r].want) THEN [req EXCEPT ![r].at = "unlock"]
              ELSE [req EXCEPT ![r].at = "try", ![r].left = Cardinality(Active)]
    /\ UNCHANGED <<session, files, entry, others>>

\* Mutant: an attempt that fails is not counted.
GetNextAccountForever(r, a) ==
    /\ At(r, "try") /\ req[r].left > 0 /\ a \in Eligible(req[r].want)
    /\ req' = [req EXCEPT ![r].acc = a, ![r].at = "token"]
    /\ UNCHANGED <<session, files, locks, others>>

GetNextAccount(r, a) ==
    /\ At(r, "try") /\ req[r].left > 0 /\ a \in Eligible(req[r].want)
    /\ req' = [req EXCEPT ![r].acc = a, ![r].left = @ - 1, ![r].at = "token"]
    /\ UNCHANGED <<session, files, locks, others>>

(* No attempt is left, or no account: an MP3 of earlier will do, or none.  *)
GiveUp(r) ==
    /\ At(r, "try") /\ (req[r].left = 0 \/ Active = {})
    /\ Go(r, "unlock")
    /\ UNCHANGED <<session, files, locks, others>>

(* EnsureSession with the answers Deezer may give: what it returns, and    *)
(* what the session has seen after it.  Calls fail for other reasons, too. *)
Ensure(a) ==
    IF session[a].seen # "none" THEN {[error |-> "none", seen |-> session[a].seen]}
    ELSE {[error |-> "other", seen |-> "none"]} \cup
         (IF service[a] = "expired" THEN {[error |-> "fatal", seen |-> "none"]}
          ELSE {[error |-> IF service[a] = "free" /\ session[a].tier = "paid"
                           THEN "degraded" ELSE "none", seen |-> service[a]]})

\* Mutant: any error is held against the account.
AfterBlame(r, error, step) ==
    [req[r] EXCEPT !.error = error, !.at = IF error = "none" THEN step ELSE "mark"]

(* MarkError has work to do for an error that tells of the subscription;   *)
(* for another one, the loop goes on with the next attempt.                *)
After(r, error, step) ==
    [req[r] EXCEPT !.error = IF error = "other" THEN "none" ELSE error,
                   !.acc = IF error = "other" THEN None ELSE @,
                   !.at = IF error = "none" THEN step ELSE IF error = "other" THEN "try" ELSE "mark"]

(* GetTrackToken: a session Deezer no longer knows is fetched anew, which  *)
(* fails as well when the account has expired.                             *)
GetTrackToken(r) ==
    /\ At(r, "token")
    /\ LET a == req[r].acc IN
       \E e \in Ensure(a), refused \in BOOLEAN :
           LET error == IF e.error # "none" THEN e.error
                        ELSE IF service[a] = "expired" THEN "fatal"
                        ELSE IF refused THEN "other" ELSE "none"
           IN  /\ session' = [session EXCEPT ![a].seen = IF error = "fatal" THEN "none" ELSE e.seen]
               /\ req' = [req EXCEPT ![r] = After(r, error, "media")]
    /\ UNCHANGED <<files, locks, others>>

(* GetMediaURL: lossless if the plan seen has it.  An account that has     *)
(* lost it since is refused, with an error that MarkError does not read;   *)
(* one that has expired may lose its tokens over it.                       *)
GetMediaURL(r, a, e, ext) ==
    /\ At(r, "media") /\ a = req[r].acc /\ e \in Ensure(a)
    /\ e.error = "none" /\ service[a] # "expired"
    /\ ext = "flac" => req[r].want = "lossless" /\ e.seen = "paid" /\ service[a] = "paid"
    /\ session' = [session EXCEPT ![a].seen = e.seen]

NoMediaURL(r) ==
    /\ At(r, "media")
    /\ LET a == req[r].acc IN
       \E e \in Ensure(a), kept \in BOOLEAN :
           /\ kept \/ (e.error = "none" /\ service[a] = "expired")
           /\ session' = [session EXCEPT ![a].seen = IF kept THEN e.seen ELSE "none"]
           /\ req' = [req EXCEPT ![r] = After(r, IF e.error = "none" THEN "other" ELSE e.error, "media")]
    /\ UNCHANGED <<files, locks, others>>

(* Download, decrypt and check into a file of its own, then rename it: the *)
(* file is there at once and whole, or the attempt has failed.             *)
Fetch(r) ==
    /\ \E a \in Accounts, ext \in {"flac", "mp3"} : \E e \in Ensure(a) :
        /\ GetMediaURL(r, a, e, ext)
        /\ files' = files \cup {ext}
    /\ req' = [req EXCEPT ![r].at = "unlock", ![r].acc = None]
    /\ UNCHANGED <<locks, others>>

(* MarkError, in the pool ...                                              *)
MarkInPool(r) ==
    /\ At(r, "mark")
    /\ LET a == req[r].acc IN
       session' = IF ~session[a].pooled THEN session
                  ELSE [session EXCEPT ![a].active = FALSE,
                            ![a].tier = IF req[r].error = "degraded" THEN "free" ELSE @]
    /\ Go(r, "markRow")
    /\ UNCHANGED <<files, locks, others>>

(* ... and in the database.                                                *)
Deactivate(a, degraded) ==
    row' = IF row[a] = None THEN row
           ELSE [row EXCEPT ![a].active = FALSE, ![a].tier = IF degraded THEN "free" ELSE @]

MarkRow(r) ==
    /\ At(r, "markRow")
    /\ Deactivate(req[r].acc, req[r].error = "degraded")
    /\ req' = [req EXCEPT ![r].at = "try", ![r].acc = None, ![r].error = "none"]
    /\ UNCHANGED <<service, session, files, locks, keeper, changes, edits>>

(* The client has gone: the calls in progress fail, and nobody is blamed.  *)
Cancelled(r) ==
    /\ req[r].at \in {"token", "media"}
    /\ req' = [req EXCEPT ![r].at = "unlock", ![r].acc = None]
    /\ UNCHANGED <<session, files, locks, others>>

(* The deferred function: unlock, ...                                      *)
Unlock(r) ==
    /\ At(r, "unlock")
    /\ holder' = [holder EXCEPT ![req[r].mutex] = None]
    /\ Go(r, "forget")
    /\ UNCHANGED <<session, files, entry, others>>

(* ... then drop whatever mutex the track has now.                         *)
Forget(r) ==
    /\ At(r, "forget")
    /\ entry' = None
    /\ req' = [req EXCEPT ![r] = [Waiting EXCEPT !.at = "done"]]
    /\ UNCHANGED <<session, files, holder, others>>

Proceed(r) ==
    \/ Enter(r) \/ Lock(r) \/ GiveUp(r) \/ GetTrackToken(r) \/ NoMediaURL(r) \/ Fetch(r)
    \/ \E a \in Accounts : GetNextAccount(r, a)
    \/ MarkInPool(r) \/ MarkRow(r) \/ Unlock(r) \/ Forget(r)

Request(r) == Proceed(r) \/ Cancelled(r) \/ \E want \in Wants : Start(r, want)

(***************************************************************************)
(* The worker's round: read all accounts, ask Deezer about each active one *)
(* and write down what follows, then list the active rows and sync.  list  *)
(* holds the tiers of the accounts still to ask, later those to sync.      *)
(***************************************************************************)
Turn(k, step) == keeper[k].at = step
quiet == <<service, files, locks, req, changes>>
Rows == {a \in Accounts : row[a] # None}
Listed == [a \in {b \in Rows : row[b].active} |-> row[a].tier]
Without(list, a) == [b \in DOMAIN list \ {a} |-> list[b]]

ReadRows ==
    /\ Turn("worker", "idle") /\ Rows # {}
    /\ keeper' = [keeper EXCEPT !["worker"].at = "ask", !["worker"].list = Listed]
    /\ UNCHANGED <<quiet, row, session, edits>>

ValidateARL(a, verdict) ==
    /\ Turn("worker", "ask") /\ keeper["worker"].list # Nobody
    /\ a = CHOOSE b \in DOMAIN keeper["worker"].list : TRUE
    /\ keeper' = [keeper EXCEPT !["worker"].at = "write", !["worker"].acc = a,
                                !["worker"].verdict = verdict]
    /\ UNCHANGED <<quiet, row, session, edits>>

SetTier(a, tier) == row' = IF row[a] = None THEN row ELSE [row EXCEPT ![a].tier = tier]

\* Mutant: a healthy account is saved as the worker had read it, active.
WriteVerdictWhole ==
    /\ Turn("worker", "write")
    /\ LET w == keeper["worker"] IN
       /\ CASE w.verdict = "error" -> UNCHANGED row
            [] w.verdict = "expired" -> Deactivate(w.acc, FALSE)
            [] w.verdict = "free" /\ w.list[w.acc] = "paid" -> Deactivate(w.acc, TRUE)
            [] OTHER -> row' = [row EXCEPT ![w.acc] = [active |-> TRUE, tier |-> w.verdict]]
       /\ keeper' = [keeper EXCEPT !["worker"] =
                        [Resting EXCEPT !.at = "ask", !.list = Without(w.list, w.acc)]]
    /\ UNCHANGED <<quiet, session, edits>>

\* Mutant: an expired account gets its error written down and stays active.
WriteVerdictOnly ==
    /\ Turn("worker", "write")
    /\ LET w == keeper["worker"] IN
       /\ CASE w.verdict \in {"error", "expired"} -> UNCHANGED row
            [] w.verdict = "free" /\ w.list[w.acc] = "paid" -> Deactivate(w.acc, TRUE)
            [] OTHER -> SetTier(w.acc, w.verdict)
       /\ keeper' = [keeper EXCEPT !["worker"] =
                        [Resting EXCEPT !.at = "ask", !.list = Without(w.list, w.acc)]]
    /\ UNCHANGED <<quiet, session, edits>>

WriteVerdict ==
    /\ Turn("worker", "write")
    /\ LET w == keeper["worker"] IN
       /\ CASE w.verdict = "error" -> UNCHANGED row
            [] w.verdict = "expired" -> Deactivate(w.acc, FALSE)
            [] w.verdict = "free" /\ w.list[w.acc] = "paid" -> Deactivate(w.acc, TRUE)
            [] OTHER -> SetTier(w.acc, w.verdict)
       /\ keeper' = [keeper EXCEPT !["worker"] =
                        [Resting EXCEPT !.at = "ask", !.list = Without(w.list, w.acc)]]
    /\ UNCHANGED <<quiet, session, edits>>

(* The worker lists when it has asked about all, the admin after an edit.  *)
ListActive(k) ==
    /\ Turn(k, IF k = "worker" THEN "ask" ELSE "list") /\ keeper[k].list = Nobody
    /\ keeper' = [keeper EXCEPT ![k] = [Resting EXCEPT !.at = "sync", !.list = Listed]]
    /\ UNCHANGED <<quiet, row, session, edits>>

\* Mutant: an account that is in the pool keeps its session as it is.
SyncNewOnly(k) ==
    /\ Turn(k, "sync")
    /\ session' = [a \in Accounts |-> IF Usable(a) THEN session[a] ELSE Synced(keeper[k].list)[a]]
    /\ keeper' = [keeper EXCEPT ![k] = Resting]
    /\ UNCHANGED <<quiet, row, edits>>

SyncAccounts(k) ==
    /\ Turn(k, "sync")
    /\ session' = Synced(keeper[k].list)
    /\ keeper' = [keeper EXCEPT ![k] = Resting]
    /\ UNCHANGED <<quiet, row, edits>>

Worker ==
    \/ ReadRows \/ WriteVerdict \/ ListActive("worker") \/ SyncAccounts("worker")
    \/ \E a \in Accounts : \E verdict \in {service[a], "error"} : ValidateARL(a, verdict)

(***************************************************************************)
(* The admin edits one account at a time.                                  *)
(***************************************************************************)
Edit(step, a) ==
    /\ Turn("admin", "idle") /\ edits < MaxEdits /\ edits' = edits + 1
    /\ keeper' = [keeper EXCEPT !["admin"].at = step, !["admin"].acc = a]

Toggle(a, active) ==
    /\ Edit("list", a)
    /\ row' = IF row[a] = None THEN row ELSE [row EXCEPT ![a].active = active]
    /\ UNCHANGED <<quiet, session>>

Delete(a) ==
    /\ Edit("list", a)
    /\ row' = [row EXCEPT ![a] = None]
    /\ UNCHANGED <<quiet, session>>

(* Adding an ARL whose account is there: all columns are saved, active.    *)
Renew(a) ==
    /\ row[a] # None /\ service[a] # "expired"
    /\ Edit("reset", a)
    /\ row' = [row EXCEPT ![a] = [active |-> TRUE, tier |-> service[a]]]
    /\ UNCHANGED <<quiet, session>>

(* Refreshing: load the row, ask Deezer, ...                               *)
Load(a) ==
    /\ row[a] # None /\ Turn("admin", "idle") /\ edits < MaxEdits
    /\ edits' = edits + 1
    /\ keeper' = [keeper EXCEPT !["admin"].at = "ask", !["admin"].acc = a,
                                !["admin"].copy = row[a]]
    /\ UNCHANGED <<quiet, row, session>>

Revalidate ==
    /\ Turn("admin", "ask")
    /\ LET a == keeper["admin"].acc IN
       keeper' = IF service[a] = "expired" THEN [keeper EXCEPT !["admin"] = Resting]
                 ELSE [keeper EXCEPT !["admin"].at = "update", !["admin"].verdict = service[a]]
    /\ UNCHANGED <<quiet, row, session, edits>>

(* ... write the plan, and the loaded row when the name has changed, ...   *)
UpdatePlan ==
    /\ Turn("admin", "update")
    /\ SetTier(keeper["admin"].acc, keeper["admin"].verdict)
    /\ \/ keeper' = [keeper EXCEPT !["admin"].at = "save"]
       \/ keeper' = [keeper EXCEPT !["admin"] =
                        [Resting EXCEPT !.at = "reset", !.acc = keeper["admin"].acc]]
    /\ UNCHANGED <<quiet, session, edits>>

SaveCopy ==
    /\ Turn("admin", "save")
    /\ row' = [row EXCEPT ![keeper["admin"].acc] = keeper["admin"].copy]
    /\ keeper' = [keeper EXCEPT !["admin"].at = "reset"]
    /\ UNCHANGED <<quiet, session, edits>>

(* ... and drop the tokens of the session, if the pool has one.            *)
ResetAccountSession ==
    /\ Turn("admin", "reset")
    /\ LET a == keeper["admin"].acc IN
       session' = IF session[a].pooled THEN [session EXCEPT ![a].seen = "none"] ELSE session
    /\ keeper' = [keeper EXCEPT !["admin"] = [Resting EXCEPT !.at = "list"]]
    /\ UNCHANGED <<quiet, row, edits>>

Continue ==
    \/ Revalidate \/ UpdatePlan \/ SaveCopy \/ ResetAccountSession
    \/ ListActive("admin") \/ SyncAccounts("admin")

Admin ==
    \/ Continue
    \/ \E a \in Managed :
        \/ \E active \in BOOLEAN : Toggle(a, active)
        \/ Delete(a) \/ Renew(a) \/ Load(a)

(***************************************************************************)
(* Deezer: a subscription changes; tokens are too old after six hours,     *)
(* which only tells when they show another plan than Deezer would now.     *)
(***************************************************************************)
Resubscribe(a, plan) ==
    /\ changes < MaxChanges /\ plan # service[a]
    /\ service' = [service EXCEPT ![a] = plan]
    /\ changes' = changes + 1
    /\ UNCHANGED <<row, session, files, locks, req, keeper, edits>>

Elapse(a) ==
    /\ session[a].seen \notin {"none", service[a]}
    /\ session' = [session EXCEPT ![a].seen = "none"]
    /\ UNCHANGED <<row, quiet, keeper, edits>>

Deezer == \E a \in Managed :
    Elapse(a) \/ \E plan \in {"paid", "free", "expired"} : Resubscribe(a, plan)

Next == (\E r \in Requests : Request(r)) \/ Worker \/ Admin \/ Deezer

Spec == Init /\ [][Next]_vars

(* Calls return, the ticker ticks, and Deezer answers the worker sometimes.*)
FairSpec ==
    /\ Spec
    /\ \A r \in Requests : WF_vars(Proceed(r))
    /\ WF_vars(Worker) /\ WF_vars(Continue)
    /\ \A a \in Accounts : SF_vars(ValidateARL(a, service[a]))

(***************************************************************************)
(* Properties.                                                             *)
(***************************************************************************)
Tiers == {"paid", "free"}
Errors == {"none", "other", "fatal", "degraded"}
Records == [active : BOOLEAN, tier : Tiers]
Steps == {"start", "enter", "lock", "try", "token", "media", "mark", "markRow",
          "unlock", "forget", "done"}

(* The type of every variable; a mutex is held by one that asked for it.   *)
TypeOK ==
    /\ service \in [Accounts -> Tiers \cup {"expired"}]
    /\ row \in [Accounts -> Records \cup {None}]
    /\ session \in [Accounts -> [pooled : BOOLEAN, active : BOOLEAN, tier : Tiers,
                                 seen : Tiers \cup {"none"}]]
    /\ files \subseteq {"flac", "mp3"} /\ entry \in Requests \cup {None}
    /\ \A m \in Requests : holder[m] # None => req[holder[m]].mutex = m
    /\ req \in [Requests -> [at : Steps, want : {"lossless", "lossy"}, mutex : Requests \cup {None},
                             left : 0 .. Cardinality(Accounts), acc : Accounts \cup {None},
                             error : Errors]]
    /\ \A k \in Keepers : DOMAIN keeper[k].list \subseteq Accounts
    /\ changes \in 0 .. MaxChanges /\ edits \in 0 .. MaxEdits

(* As long as Deezer and the admin have left all accounts alone, none of   *)
(* them leaves the rotation: not for a call that fails, a track that an    *)
(* account cannot have, a broken download or a client that hangs up.       *)
HealthyAccountsStay ==
    changes = 0 /\ edits = 0 => \A a \in Accounts : Usable(a) /\ row[a].active

(* An account that was taken out of use comes back by an edit of the admin *)
(* only, never by a round of the worker that had read it before.           *)
DeactivationSticks ==
    [][\A a \in Accounts :
        row[a] # None /\ row'[a] # None /\ ~row[a].active /\ row'[a].active
            => edits' # edits \/ Turn("admin", "save")]_vars

Disabled(a) == row[a] = None \/ ~row[a].active

(* Once the admin is done, an account that has expired is out of the       *)
(* rotation for good, whatever raced with its deactivation, as long as     *)
(* some row is left for the worker to do a round.                          *)
LostAccountLeaves ==
    \A a \in Managed : <>[](service[a] = "expired" /\ Rows # {}) => <>[]~Usable(a)

(* The pool follows the table, although lists are read and synced in two   *)
(* steps by two actors and requests change both: with rows left, what is   *)
(* disabled in the table for good leaves the pool, and what is enabled for *)
(* good is used.                                                           *)
PoolFollowsTable ==
    \A a \in Managed :
        /\ <>[](Disabled(a) /\ Rows # {}) => <>[]~Usable(a)
        /\ <>[]~Disabled(a) => <>[]Usable(a)

(* A request that waits for its turn on the track gets it and returns.     *)
RequestsEnd == \A r \in Requests : req[r].at = "enter" ~> req[r].at = "done"

(* "Serialize concurrent downloads for the same track" (client.go:424): no *)
(* two requests try accounts for it at a time.                             *)
Downloading(r) == req[r].at \in {"try", "token", "media", "mark", "markRow"}
DownloadsSerialized == \A r, s \in Requests : Downloading(r) /\ Downloading(s) => r = s
=============================================================================
