------------------------------ MODULE TidalPool ------------------------------
(***************************************************************************)
(* provider/tidal/client.go (Pool) and setupTokenManager of tidal.go: from *)
(* a request for a stream or for metadata to Tidal's accounts and to the   *)
(* mirrors, with the worker that renews tokens and the admin's edits of    *)
(* the accounts.  How a call is sent to the mirrors is MirrorCalls; what   *)
(* Tidal answers is left to Tidal.                                         *)
(*                                                                         *)
(* A token matters for three things: the account it is of, how long it     *)
(* lives, and whether it is one that was given on the command line, for    *)
(* only those are in userTokens.  Life is 2 (fresh), 1 (less than thirty   *)
(* minutes, due for the worker) or 0 (less than five, due for a request,   *)
(* or over).                                                               *)
(***************************************************************************)
EXTENDS Naturals, FiniteSets

CONSTANTS
    Accounts,   \* ids of rows, in the order in which they were created
    Requests,   \* goroutines of requests
    Scenarios,  \* what the requests may be for, which accounts there are, and
                \* what else goes on: edits of the admin, changes of a plan,
                \* tokens that grow old, and edits of the list of mirrors
    Changing,   \* accounts whose plan and token change and that the admin edits
    Sizes, BatchSize, GatherLimit, Tries  \* see MirrorCalls

Tiers == {10, 50, 80}  \* QualityTierFree, -High, -Lossless
Asks == {"lossless", "high", "info", "search", "playlist", "nothing"}

ASSUME PoolAssumption ==
    /\ Accounts \subseteq Nat /\ IsFiniteSet(Accounts) /\ Changing \subseteq Accounts
    /\ Scenarios \subseteq [asks : [Requests -> Asks], linked : SUBSET Accounts,
                             edits : Nat, changes : Nat, ageing : BOOLEAN, lists : Nat]

VARIABLES
    row,         \* table tidal_accounts
    plan,        \* what Tidal grants each account
    userTokens,  \* accounts whose token of the command line is in rotation
    known,       \* accounts that token is registered for (tokenToAccountID)
    demoted,     \* demotedAccountIDs
    handlers,    \* degraded handlers that run
    refreshMu,   \* who holds the mutex of the token manager
    streamCache, \* the URL of the last seconds, by the quality it was asked in
    instances,   \* is any mirror listed, and who has the pool's lock p.mu
    req,         \* request -> where it is
    keeper,      \* worker and admin
    left,        \* what remains of edits and changes, and whether tokens age
    call, task   \* see MirrorCalls

Calls == INSTANCE MirrorCalls WITH Callers <- Requests

ASSUME MirrorsAssumption == Calls!CallsAssumption

table == <<row, plan, left>>
tokens == <<userTokens, known, demoted, handlers>>
vars == <<table, tokens, refreshMu, streamCache, instances, req, keeper, call, task>>

NoRow == [in |-> FALSE, active |-> FALSE, tier |-> 10, life |-> 0, cli |-> FALSE]
Free == "free"
None == 0
Keepers == {"worker", "admin"}
AtRest == [at |-> "rest", acc |-> None, todo |-> {}, tier |-> 10]

Wants(r) == IF req[r].for = "lossless" THEN 80 ELSE 50
Listens == {"lossless", "high"}

(* A token as the code holds it: a copy of its row, with the id.           *)
Copy(a) == [acc |-> a, tier |-> row[a].tier, life |-> row[a].life, cli |-> row[a].cli]
Active(tier) == {a \in Accounts : row[a].in /\ row[a].active /\ row[a].tier >= tier}

(* ORDER BY quality_tier DESC, created_at ASC                              *)
First(copies) ==
    CHOOSE c \in copies : \A d \in copies : c.tier > d.tier \/ (c.tier = d.tier /\ c.acc <= d.acc)

Linked(tier, cli) == [in |-> TRUE, active |-> TRUE, tier |-> tier, life |-> 2, cli |-> cli]

Init ==
    \E s \in Scenarios :
        /\ row \in [Accounts -> {NoRow, Linked(50, FALSE), Linked(80, FALSE), Linked(80, TRUE)}]
        /\ \A a \in Accounts : row[a].in <=> a \in s.linked
        /\ \A a \in s.linked \ Changing : row[a] = Linked(80, FALSE)
        /\ plan = [a \in Accounts |-> row[a].tier]
        /\ userTokens = {a \in Accounts : row[a].cli}
        /\ known = {} /\ demoted = {} /\ handlers = {}
        /\ refreshMu = Free /\ streamCache = "none"
        /\ req = [r \in Requests |-> [for |-> s.asks[r], at |-> "rest", todo |-> {}, have |-> {},
                                      good |-> {}, from |-> "none"]]
        /\ left = [edits |-> s.edits, changes |-> s.changes, ageing |-> s.ageing, lists |-> s.lists]
        /\ instances = [listed |-> TRUE, mu |-> "free"]
        /\ keeper = [k \in Keepers |-> AtRest]
        /\ Calls!CallsInit

(***************************************************************************)
(* Tidal's side, and time.                                                 *)
(***************************************************************************)
(* No request counts on an account that was changed while it ran.          *)
NotGood(a, reqs) == [r \in Requests |-> [reqs[r] EXCEPT !.good = @ \ {a}]]

PlanChanges(a) ==
    /\ a \in Changing /\ left.changes > 0
    /\ \E tier \in Tiers \ {plan[a]} : plan' = [plan EXCEPT ![a] = tier]
    /\ left' = [left EXCEPT !.changes = @ - 1]
    /\ req' = NotGood(a, req)
    /\ UNCHANGED <<row, tokens, refreshMu, streamCache, keeper, instances, call, task>>

Age(a) ==
    /\ a \in Changing /\ left.ageing /\ row[a].in /\ row[a].life > 0
    /\ row' = [row EXCEPT ![a].life = @ - 1]
    /\ req' = IF row[a].life = 1 THEN NotGood(a, req) ELSE req
    /\ UNCHANGED <<plan, left, tokens, refreshMu, streamCache, keeper, instances, call, task>>

ExpireStream ==
    /\ streamCache # "none" /\ streamCache' = "none"
    /\ UNCHANGED <<table, tokens, refreshMu, req, keeper, instances, call, task>>

(***************************************************************************)
(* What is learnt about tokens.                                            *)
(***************************************************************************)
(* UpdateTidalAccountTokens: nothing happens if the row is gone.           *)
Renewed(a) == IF row[a].in THEN [row EXCEPT ![a].life = 2, ![a].cli = FALSE] ELSE row

(* reportTokenAuthFailure                                                  *)
ReportAuth(t) ==
    /\ userTokens' = IF t.cli THEN userTokens \ {t.acc} ELSE userTokens
    /\ UNCHANGED <<known, demoted, handlers>>

(* reportTokenSubscriptionFailure: a token that is not in userTokens is    *)
(* not looked up, and an account is reported once.                         *)
ReportDegraded(t) ==
    IF ~(t.cli /\ t.acc \in userTokens) THEN UNCHANGED tokens
    ELSE /\ userTokens' = userTokens \ {t.acc}
         /\ known' = known \ {t.acc}
         /\ demoted' = demoted \cup (known \cap {t.acc})
         /\ handlers' = handlers \cup ((known \cap {t.acc}) \ demoted)

(* The degraded handler: MarkTidalAccountAsFree.                           *)
Demote(a) ==
    /\ a \in handlers
    /\ handlers' = handlers \ {a}
    /\ row' = IF row[a].in THEN [row EXCEPT ![a].tier = 10, ![a].active = FALSE] ELSE row
    /\ req' = NotGood(a, req)
    /\ UNCHANGED <<plan, left, userTokens, known, demoted, refreshMu, streamCache, keeper, instances, call, task>>

(***************************************************************************)
(* GetStreamURL and the tokens it asks the token manager for.              *)
(***************************************************************************)
Goes(r, step) == req' = [req EXCEPT ![r].at = step]
Is(r, step) == req[r].at = step

(* Mutant: the cached URL serves whatever quality is asked for.            *)
CachedAnyQuality(r) == streamCache # "none"

(* A URL of the last ten seconds in this quality or a better one.          *)
Cached(r) == streamCache = "lossless" \/ (streamCache = "high" /\ req[r].for = "high")

CacheHit(r) ==
    /\ Is(r, "rest") /\ req[r].for \in Listens /\ Cached(r)
    /\ req' = [req EXCEPT ![r].at = "url", ![r].from = streamCache]
    /\ UNCHANGED <<table, tokens, refreshMu, streamCache, keeper, instances, call, task>>

(* The lister: lossless accounts first for paid qualities, and any paying  *)
(* account if there is none; any paying account for the others.            *)
Listed(r) == IF Wants(r) = 80 /\ Active(80) # {} THEN Active(80) ELSE Active(50)

Served(a, r) == plan[a] >= Wants(r) /\ row[a].tier >= Wants(r) /\ row[a].life > 0

ListTokens(r) ==
    /\ Is(r, "rest") /\ req[r].for \in Listens /\ ~Cached(r)
    /\ req' = [req EXCEPT ![r].at = "tokens", ![r].todo = {Copy(a) : a \in Listed(r)},
                          ![r].good = {a \in Listed(r) : Served(a, r)}]
    /\ UNCHANGED <<table, tokens, refreshMu, streamCache, keeper, instances, call, task>>

(* getTokenForAccounts: the token is taken as it is, or the mutex is taken *)
(* and the row read again, for someone may have renewed it in between; a   *)
(* row that is no longer listed stays as it was read before.               *)
Hold(r, t) ==
    /\ req' = [req EXCEPT ![r].at = "tokens", ![r].todo = @ \ {First(@)}, ![r].have = @ \cup {t}]
    /\ known' = IF t.cli THEN known \cup {t.acc} ELSE known
    /\ UNCHANGED <<userTokens, demoted, handlers>>

TakeToken(r) ==
    /\ Is(r, "tokens") /\ req[r].todo # {} /\ First(req[r].todo).life > 0
    /\ Hold(r, First(req[r].todo))
    /\ UNCHANGED <<table, refreshMu, streamCache, keeper, instances, call, task>>

ReadAgain(t) == IF t.acc \in Active(50) THEN [Copy(t.acc) EXCEPT !.tier = t.tier] ELSE t

TakeOldToken(r) ==
    /\ Is(r, "tokens") /\ req[r].todo # {} /\ First(req[r].todo).life = 0 /\ refreshMu = Free
    /\ LET t == First(req[r].todo)
       IN  IF ReadAgain(t).life > 0
           THEN Hold(r, ReadAgain(t)) /\ UNCHANGED refreshMu
           ELSE /\ refreshMu' = r /\ UNCHANGED tokens
                /\ req' = [req EXCEPT ![r].at = "renew", ![r].todo = (@ \ {t}) \cup {ReadAgain(t)}]
    /\ UNCHANGED <<table, streamCache, keeper, instances, call, task>>

RenewToken(r) ==
    /\ Is(r, "renew")
    /\ refreshMu' = Free
    /\ LET t == First(req[r].todo)
       IN  \/ Hold(r, [t EXCEPT !.life = 2, !.cli = FALSE]) /\ row' = Renewed(t.acc)
           \/ Hold(r, t) /\ UNCHANGED row
    /\ UNCHANGED <<plan, left, streamCache, keeper, instances, call, task>>

(* Mutant: a request gives up at the first account that fails.             *)
DropAll(r) ==
    req' = [req EXCEPT ![r].at = "tokens", ![r].have = {}, ![r].good = @ \ {First(req[r].have).acc}]

(* The next account's turn; the request could not count on this one.       *)
Drop(r) ==
    req' = [req EXCEPT ![r].at = "tokens", ![r].have = @ \ {First(@)},
                       ![r].good = @ \ {First(req[r].have).acc}]

Ends(r, how, from) ==
    req' = [req EXCEPT ![r].at = how, ![r].todo = {}, ![r].have = {}, ![r].good = {}, ![r].from = from]

Trying(r) == Is(r, "tokens") /\ req[r].todo = {} /\ req[r].have # {}

(* fetchDirectTidalStream succeeds: Tidal grants what is asked for.  The   *)
(* first of its two calls may have called the account degraded.            *)
Granted(r) ==
    /\ Trying(r) /\ req[r].for \in Listens
    /\ LET t == First(req[r].have)
       IN  /\ plan[t.acc] >= Wants(r)
           /\ streamCache' = req[r].for
           /\ Ends(r, "url", req[r].for)
           /\ \/ UNCHANGED tokens
              \/ req[r].for = "lossless" /\ ReportDegraded(t)
    /\ UNCHANGED <<table, refreshMu, keeper, instances, call, task>>

(* It fails: for a reason of its own, or since the token is over.          *)
Fails(r) ==
    /\ Trying(r) /\ req[r].for \in Listens
    /\ Drop(r)
    /\ \/ UNCHANGED tokens
       \/ First(req[r].have).life = 0 /\ ReportAuth(First(req[r].have))
    /\ UNCHANGED <<table, refreshMu, streamCache, keeper, instances, call, task>>

(* Tidal does not allow this quality, or offers a preview, or a lower one. *)
Refused(r) ==
    /\ Trying(r) /\ req[r].for \in Listens
    /\ Goes(r, "refused")
    /\ UNCHANGED <<table, tokens, refreshMu, streamCache, keeper, instances, call, task>>

Report(r) ==
    /\ Is(r, "refused")
    /\ ReportDegraded(First(req[r].have))
    /\ Drop(r)
    /\ UNCHANGED <<table, refreshMu, streamCache, keeper, instances, call, task>>

(* No account is left: an error for a paid quality, the mirrors for others.*)
TokensSpent(r) == Is(r, "tokens") /\ req[r].todo = {} /\ req[r].have = {}

GiveUp(r) ==
    /\ TokensSpent(r) /\ req[r].for = "lossless" /\ Goes(r, "failed")
    /\ UNCHANGED <<table, tokens, refreshMu, streamCache, keeper, instances, call, task>>

CallKind(r) ==
    CASE req[r].for = "high" -> "stream"
      [] req[r].for = "info" -> "get"
      [] req[r].for = "search" -> "gather"
      [] req[r].for = "playlist" -> "shotgun"

(* With no mirror in the list, a plain call divides by the length of the   *)
(* list while it holds the read lock of the pool: the panic is recovered,  *)
(* the lock is not released.  A writer that comes then waits for good, and *)
(* everybody who wants the lock waits behind it.                           *)
Panics(r) == req[r].for = "info" /\ ~instances.listed
PoolStuck == instances.mu = "stuck"

AskMirrors(r) ==
    /\ \/ TokensSpent(r) /\ req[r].for = "high"
       \/ Is(r, "rest") /\ req[r].for \in {"info", "search", "playlist"}
    /\ PoolStuck => req[r].for = "playlist"
    /\ \/ /\ Panics(r) /\ Ends(r, "failed", "none")
          /\ instances' = [instances EXCEPT !.mu = "leaked"] /\ UNCHANGED <<call, task>>
       \/ /\ ~Panics(r) /\ Calls!Begin(r, CallKind(r), instances.listed) /\ Goes(r, "mirrors")
          /\ UNCHANGED instances
    /\ UNCHANGED <<table, tokens, refreshMu, streamCache, keeper>>

(* SetInstances, when the admin or the discovery has changed the list.     *)
SetInstances ==
    /\ left.lists > 0 /\ ~PoolStuck
    /\ left' = [left EXCEPT !.lists = @ - 1]
    /\ instances' = IF instances.mu = "leaked" THEN [instances EXCEPT !.mu = "stuck"]
                    ELSE [instances EXCEPT !.listed = ~@]
    /\ UNCHANGED <<row, plan, tokens, refreshMu, streamCache, req, keeper, call, task>>

MirrorsAnswer(r) ==
    /\ Is(r, "mirrors") /\ Calls!Ended(r)
    /\ LET answered == Calls!CallAt(r, "answered")
       IN  \/ req[r].for = "high" /\ answered /\ Ends(r, "url", "high") /\ streamCache' = "high"
           \/ ~answered /\ req[r].for # "info" /\ Ends(r, "failed", "none") /\ UNCHANGED streamCache
           \/ answered /\ req[r].for # "high" /\ Ends(r, "known", "none") /\ UNCHANGED streamCache
           \/ ~answered /\ req[r].for = "info" /\ Goes(r, "user token") /\ UNCHANGED streamCache
    /\ UNCHANGED <<table, tokens, refreshMu, keeper, instances, call, task>>

(* getUserToken for a direct call: some paying account's, else one of the  *)
(* command line's, else none; whichever it is, the call may fail.          *)
UserToken(r) ==
    /\ Is(r, "user token")
    /\ IF Active(50) # {}
       THEN \E a \in Active(50) : req' = [req EXCEPT ![r].at = "tokens", ![r].todo = {Copy(a)}]
       ELSE \E how \in {"known", "failed"} : Ends(r, how, "none")
    /\ UNCHANGED <<table, tokens, refreshMu, streamCache, keeper, instances, call, task>>

AskTidal(r) ==
    /\ Trying(r) /\ req[r].for = "info"
    /\ \E how \in {"known", "failed"} : Ends(r, how, "none")
    /\ UNCHANGED <<table, tokens, refreshMu, streamCache, keeper, instances, call, task>>

(***************************************************************************)
(* The worker (refreshAll) and the admin's edits.                          *)
(***************************************************************************)
At(k, step) == keeper[k].at = step
Stands(k, step) == keeper' = [keeper EXCEPT ![k].at = step]
Newest(set) == CHOOSE a \in set : \A b \in set : a >= b

RoundBegins ==
    /\ At("worker", "rest")
    /\ LET due == {a \in Accounts : row[a].in /\ row[a].active /\ row[a].life < 2}
       IN  /\ due # {}
           /\ keeper' = [keeper EXCEPT !["worker"] = [AtRest EXCEPT !.at = "round", !.todo = due]]
    /\ UNCHANGED <<table, tokens, refreshMu, streamCache, req, instances, call, task>>

Onward(todo) == [AtRest EXCEPT !.at = IF todo = {} THEN "rest" ELSE "round", !.todo = todo]

(* The row is read again under the mutex; a row that is gone is due as the *)
(* copy was.                                                               *)
LockRow ==
    /\ At("worker", "round") /\ refreshMu = Free
    /\ LET a == Newest(keeper["worker"].todo)
           rest == keeper["worker"].todo \ {a}
       IN  IF row[a].in /\ (~row[a].active \/ row[a].life = 2)
           THEN /\ keeper' = [keeper EXCEPT !["worker"] = Onward(rest)]
                /\ UNCHANGED refreshMu
           ELSE /\ keeper' = [keeper EXCEPT !["worker"] =
                      [AtRest EXCEPT !.at = "renew", !.acc = a, !.todo = rest]]
                /\ refreshMu' = "worker"
    /\ UNCHANGED <<table, tokens, streamCache, req, instances, call, task>>

(* The end of an account's turn: the worker unlocks.                       *)
TurnOver(k) ==
    /\ keeper' = [keeper EXCEPT ![k] = Onward(keeper[k].todo)]
    /\ refreshMu' = IF k = "worker" THEN Free ELSE refreshMu

(* RefreshAccessToken, and the new token's write.                          *)
Renews(k) ==
    /\ At(k, "renew")
    /\ row' = Renewed(keeper[k].acc)
    /\ Stands(k, "ask")
    /\ UNCHANGED <<plan, left, tokens, refreshMu, streamCache, req, instances, call, task>>

(* Mutant: the plan is not asked for when a token is renewed.              *)
SkipsSubscription(k) ==
    /\ At(k, "ask") /\ TurnOver(k)
    /\ UNCHANGED <<table, tokens, streamCache, req, instances, call, task>>

(* FetchAccountSubscription                                                *)
AsksSubscription(k) ==
    /\ At(k, "ask")
    /\ keeper' = [keeper EXCEPT ![k].at = "write", ![k].tier = plan[keeper[k].acc]]
    /\ UNCHANGED <<table, tokens, refreshMu, streamCache, req, instances, call, task>>

TidalFails(k) ==
    /\ At(k, "renew") \/ At(k, "ask")
    /\ TurnOver(k)
    /\ UNCHANGED <<table, tokens, streamCache, req, instances, call, task>>

(* UpdateTidalAccountSubscription                                          *)
WritesSubscription(k) ==
    /\ At(k, "write") /\ TurnOver(k)
    /\ LET a == keeper[k].acc
       IN  /\ row' = IF row[a].in THEN [row EXCEPT ![a].tier = keeper[k].tier] ELSE row
           /\ req' = IF row[a].tier > keeper[k].tier THEN NotGood(a, req) ELSE req
    /\ UNCHANGED <<plan, left, tokens, streamCache, instances, call, task>>

Edit(a) ==
    /\ a \in Changing /\ left.edits > 0 /\ At("admin", "rest")
    /\ left' = [left EXCEPT !.edits = @ - 1]

Changes(a, to) == row' = [row EXCEPT ![a] = to] /\ req' = NotGood(a, req)

ToggleAccount(a) ==
    /\ Edit(a) /\ row[a].in
    /\ Changes(a, [row[a] EXCEPT !.active = ~@])
    /\ UNCHANGED <<plan, tokens, refreshMu, streamCache, keeper, instances, call, task>>

DeleteAccount(a) ==
    /\ Edit(a) /\ row[a].in
    /\ Changes(a, NoRow)
    /\ UNCHANGED <<plan, tokens, refreshMu, streamCache, keeper, instances, call, task>>

(* An account is linked; where its plan cannot be read, a default is       *)
(* stored.                                                                 *)
AddAccount(a) ==
    /\ Edit(a) /\ ~row[a].in
    /\ \E tier \in {plan[a], 50, 10} :
           Changes(a, [in |-> TRUE, active |-> TRUE, tier |-> tier, life |-> 2, cli |-> FALSE])
    /\ UNCHANGED <<plan, tokens, refreshMu, streamCache, keeper, instances, call, task>>

(* The admin's refresh takes the worker's steps without the mutex.         *)
RefreshAccount(a) ==
    /\ Edit(a) /\ row[a].in
    /\ keeper' = [keeper EXCEPT !["admin"] = [AtRest EXCEPT !.at = "renew", !.acc = a]]
    /\ UNCHANGED <<row, plan, tokens, refreshMu, streamCache, req, instances, call, task>>

(***************************************************************************)
(* The specification.                                                      *)
(***************************************************************************)
PoolStep(r) ==
    \/ CacheHit(r) \/ ListTokens(r) \/ TakeToken(r) \/ TakeOldToken(r) \/ RenewToken(r)
    \/ Granted(r) \/ Fails(r) \/ Refused(r) \/ Report(r) \/ GiveUp(r)
    \/ AskMirrors(r) \/ MirrorsAnswer(r) \/ UserToken(r) \/ AskTidal(r)

MirrorStep ==
    /\ \E r \in Requests : Calls!CallGoesOn(r) \/ Calls!TasksGoOn(r)
    /\ UNCHANGED <<table, tokens, refreshMu, streamCache, instances, req, keeper>>

WorkerStep ==
    \/ RoundBegins \/ LockRow
    \/ Renews("worker") \/ AsksSubscription("worker") \/ TidalFails("worker") \/ WritesSubscription("worker")

AdminStep ==
    Renews("admin") \/ AsksSubscription("admin") \/ TidalFails("admin") \/ WritesSubscription("admin")

Next ==
    \/ \E r \in Requests : PoolStep(r)
    \/ MirrorStep
    \/ \E a \in Accounts : PlanChanges(a) \/ Age(a) \/ Demote(a)
    \/ \E a \in Changing : ToggleAccount(a) \/ DeleteAccount(a) \/ AddAccount(a) \/ RefreshAccount(a)
    \/ WorkerStep \/ AdminStep \/ ExpireStream \/ SetInstances

(* Every goroutine goes on, and a mutex that is free again and again is    *)
(* got: requests, mirrors and the admin have a bounded number of steps.    *)
GoesOn ==
    \/ \E r \in Requests : PoolStep(r)
    \/ MirrorStep \/ AdminStep
    \/ \E a \in Accounts : Demote(a)

(* The worker's ticker ticks and tokens grow old; a round of the worker    *)
(* begins only when one has.  Tidal answers the worker about an account if *)
(* it is asked again and again.                                            *)
Fairness ==
    /\ SF_vars(GoesOn)
    /\ WF_vars(WorkerStep \/ \E a \in Changing : Age(a))
    /\ \A a \in Changing :
           /\ SF_vars(Renews("worker") /\ keeper["worker"].acc = a)
           /\ SF_vars(AsksSubscription("worker") /\ keeper["worker"].acc = a)

Spec == Init /\ [][Next]_vars /\ Fairness

(***************************************************************************)
(* Properties.                                                             *)
(***************************************************************************)
(* A request for a paid quality fails only when nobody could have served   *)
(* it: every account that was listed, entitled and valid throughout was    *)
(* asked and had a failure of its own (GetStreamURL's loop, FIX C).        *)
NoGoodAccountOverlooked == \A r \in Requests : Is(r, "failed") => req[r].good = {}

(* Nobody who asks for lossless is given a URL of lower quality, whatever  *)
(* others asked for in the seconds before (the micro-cache).               *)
PaidStaysPaid == \A r \in Requests : Is(r, "url") /\ req[r].for = "lossless" => req[r].from = "lossless"

(* Every request ends: nobody keeps the token manager's mutex (all returns *)
(* of getTokenForAccounts and refreshAll), and no call waits for mirrors   *)
(* that have answered; unless the pool's lock was lost to a panic.  No     *)
(* goroutine of a call outlives it for long.                               *)
RequestsEnd ==
    <>[](/\ Calls!NothingRuns
         /\ PoolStuck \/ \A r \in Requests : req[r].for # "nothing" => req[r].at \in {"url", "known", "failed"})

(* What Tidal grants is what the row says in the end, for an account that  *)
(* stays active: a plan that lapses leaves the rotation, one that is       *)
(* bought comes in, though reports of requests, the worker and the admin   *)
(* write the same row with what they knew before.                          *)
TierFollowsPlan ==
    \A a \in Changing : (<>[](row[a].in /\ row[a].active)) => <>[](row[a].tier = plan[a])

(* What client.go:186-207 says of a token that Tidal refuses: the account  *)
(* is demoted and skipped.                                                 *)
RefusedAccountsLeave ==
    \A r \in Requests, a \in Accounts :
        (Is(r, "refused") /\ First(req[r].have).acc = a) ~> ~(row[a].in /\ row[a].active)

(* NoAnswerLost of the calls it makes.                                     *)
NoAnswerLost == Calls!NoAnswerLost
=============================================================================
