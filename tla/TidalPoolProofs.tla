--------------------------- MODULE TidalPoolProofs ---------------------------
(***************************************************************************)
(* For any accounts, requests and mirrors: what a request to the pool and  *)
(* a call to the mirrors may come to.                                      *)
(***************************************************************************)
EXTENDS TidalPool, FiniteSetTheorems, WellFoundedInduction, TLAPS

-----------------------------------------------------------------------------
(* Calls to the mirrors.                                                   *)
Most == Calls!Most
Tasks == Calls!Tasks
CallRecords ==
    [kind : {"none", "stream", "get", "gather", "shotgun"},
     at : {"rest", "fast", "wait", "answered", "failed", "left"},
     n : 0..Most, sent : 0..Most, got : Nat, best : Nat]
TaskLists == [Tasks -> {"off", "running", "ok", "final", "passing"}]

(* The tasks of a list whose result nobody has received.                   *)
Pending(t) == {i \in Tasks : t[i] # "off"}

(* A call k knows how many of its requests have not been received yet, and *)
(* those are among the ones that were sent.  A plain call has one at most. *)
Counted(k, pending) ==
    /\ k.at = "wait" /\ k.kind # "get" =>
           /\ pending \subseteq 1..k.sent
           /\ k.got <= k.sent /\ k.sent <= k.n
           /\ Cardinality(pending) = k.sent - k.got
    /\ k.at = "wait" /\ k.kind = "get" => pending \subseteq {k.sent} /\ k.sent <= k.n
    /\ k.at = "fast" => pending \subseteq {1} /\ k.best = 0 /\ k.got = 0
    /\ k.at \in {"wait", "fast"} => k.n > 0 /\ k.sent > 0 /\ k.kind # "none"
    /\ k.at = "fast" => k.kind = "stream"
    /\ k.at = "rest" => pending = {}
    /\ k.at = "failed" => pending = {} /\ k.best = 0

CallsInv ==
    /\ call \in [Requests -> CallRecords] /\ task \in [Requests -> TaskLists]
    /\ \A c \in Requests : Counted(call[c], Pending(task[c]))

-----------------------------------------------------------------------------
(* Requests.                                                               *)
Tokens == [acc : Accounts, tier : Tiers, life : 0..2, cli : BOOLEAN]
Rows == [in : BOOLEAN, active : BOOLEAN, tier : Tiers, life : 0..2, cli : BOOLEAN]
Records ==
    [for : Asks,
     at : {"rest", "url", "tokens", "renew", "refused", "mirrors", "user token", "known", "failed"},
     todo : SUBSET Tokens, have : SUBSET Tokens, good : SUBSET Accounts,
     from : {"none", "lossless", "high"}]
Places ==
    {k \in [at : {"rest", "round", "renew", "ask", "write"}, acc : Accounts \cup {None},
             todo : SUBSET Accounts, tier : Tiers] :
        /\ k.at = "round" => k.todo # {}
        /\ k.at \in {"renew", "ask", "write"} => k.acc \in Accounts}
TableTyped ==
    /\ row \in [Accounts -> Rows] /\ plan \in [Accounts -> Tiers]
    /\ keeper \in [Keepers -> Places]
Typed ==
    /\ TableTyped
    /\ streamCache \in {"none", "lossless", "high"}
    /\ req \in [Requests -> Records]
    /\ \A r \in Requests : req[r].at = "renew" => req[r].todo # {}

(* The accounts that a request has still to ask.                           *)
Ahead(r) == {t.acc : t \in req[r].todo \cup req[r].have}
NobodySkipped(r) ==
    /\ req[r].good \subseteq Ahead(r)
    /\ req[r].at = "failed" => req[r].good = {}
    /\ req[r].at = "user token" => req[r].for = "info"
    /\ req[r].for \notin Listens => req[r].good = {}

(* The URL a request was given is of the quality it asked for.             *)
RightQuality(r) == req[r].at = "url" /\ req[r].for = "lossless" => req[r].from = "lossless"

PoolInv == Typed /\ \A r \in Requests : NobodySkipped(r) /\ RightQuality(r)

-----------------------------------------------------------------------------
(* Natural numbers are well ordered.                                       *)
LEMMA LeastOfNaturals ==
    ASSUME NEW S, S \subseteq Nat, S # {}
    PROVE  \E n \in S : \A m \in S : n <= m
<1>1. IsWellFoundedOn(OpToRel(<, Nat), Nat)
  BY NatLessThanWellFounded
<1>2. PICK n \in S : \A m \in S : ~(<<m, n>> \in OpToRel(<, Nat))
  BY <1>1, WFMin
<1>3. \A m \in S : ~(m < n)
  BY <1>2 DEF OpToRel
<1> QED
  BY <1>3

(* The accounts' order: a list of tokens that is not empty has a first.    *)
LEMMA FirstIsOne ==
    ASSUME NEW S, S \subseteq Tokens, S # {}
    PROVE  First(S) \in S
<1>1. PICK tier \in Tiers : (\E c \in S : c.tier = tier) /\ (\A d \in S : tier >= d.tier)
  <2>1. \A d \in S : d.tier \in {10, 50, 80}
    BY DEF Tokens, Tiers
  <2>2. CASE \E c \in S : c.tier = 80
    BY <2>1, <2>2 DEF Tiers
  <2>3. CASE (\E c \in S : c.tier = 50) /\ ~(\E c \in S : c.tier = 80)
    BY <2>1, <2>3 DEF Tiers
  <2>4. CASE ~(\E c \in S : c.tier = 50) /\ ~(\E c \in S : c.tier = 80)
    BY <2>1, <2>4 DEF Tiers
  <2> QED
    BY <2>2, <2>3, <2>4
<1> DEFINE Best == {d \in S : d.tier = tier}
           Ids == {d.acc : d \in Best}
<1>2. Ids \subseteq Nat /\ Ids # {}
  <2>1. \A d \in Best : d.acc \in Nat
    BY PoolAssumption DEF Tokens
  <2> QED
    BY <1>1, <2>1
<1>3. PICK id \in Ids : \A n \in Ids : id <= n
  BY <1>2, LeastOfNaturals
<1>4. PICK c \in S : c.tier = tier /\ c.acc = id
  BY <1>3
<1>5. \A d \in S : c.tier > d.tier \/ (c.tier = d.tier /\ c.acc <= d.acc)
  <2> SUFFICES ASSUME NEW d \in S PROVE c.tier > d.tier \/ (c.tier = d.tier /\ c.acc <= d.acc)
    OBVIOUS
  <2>1. c.tier >= d.tier /\ c.tier \in Nat /\ d.tier \in Nat
    BY <1>1, <1>4 DEF Tokens, Tiers
  <2>2. d.tier = c.tier => d.acc \in Ids
    BY <1>4
  <2> QED
    BY <1>3, <1>4, <2>1, <2>2
<1> QED
  BY <1>5 DEF First

(* A set of accounts that is not empty has a newest one.                   *)
LEMMA GreatestOfFinite ==
    ASSUME NEW S, IsFiniteSet(S), S \subseteq Nat, S # {}
    PROVE  \E n \in S : \A m \in S : n >= m
<1> DEFINE Bad == {X \in SUBSET S : X # {} /\ ~(\E n \in X : \A m \in X : n >= m)}
<1>1. SUFFICES ASSUME Bad # {} PROVE FALSE
  OBVIOUS
<1>2. Bad \subseteq FiniteSubsetsOf(S)
  BY FS_Subset DEF FiniteSubsetsOf
<1>3. IsWellFoundedOn(StrictSubsetOrdering(S), FiniteSubsetsOf(S))
  BY FS_StrictSubsetOrderingWellFounded
<1>4. PICK X \in Bad : \A Y \in Bad : ~(<<Y, X>> \in StrictSubsetOrdering(S))
  BY <1>1, <1>2, <1>3, WFMin
<1>5. PICK x \in X : TRUE
  OBVIOUS
<1>6. X \ {x} \notin Bad
  <2>1. X \ {x} \subseteq X /\ X \ {x} # X /\ X \subseteq S
    OBVIOUS
  <2> QED
    BY <1>4, <2>1 DEF StrictSubsetOrdering
<1>7. CASE X \ {x} = {}
  <2>1. \A m \in X : x >= m
    BY <1>7
  <2> QED
    BY <2>1
<1>8. CASE X \ {x} # {}
  <2>1. PICK n \in X \ {x} : \A m \in X \ {x} : n >= m
    BY <1>6, <1>8
  <2>2. n \in Nat /\ x \in Nat /\ X \subseteq Nat
    OBVIOUS
  <2>3. CASE n >= x
    BY <2>1, <2>3
  <2>4. CASE x >= n
    <3>1. \A m \in X : x >= m
      BY <2>1, <2>2, <2>4
    <3> QED
      BY <3>1
  <2> QED
    BY <2>2, <2>3, <2>4
<1> QED
  BY <1>7, <1>8

LEMMA NewestIsOne ==
    ASSUME NEW S, S \subseteq Accounts, S # {}
    PROVE  Newest(S) \in S
<1>1. IsFiniteSet(S) /\ S \subseteq Nat
  BY PoolAssumption, FS_Subset
<1>2. \E n \in S : \A m \in S : n >= m
  BY <1>1, GreatestOfFinite
<1> QED
  BY <1>2 DEF Newest

-----------------------------------------------------------------------------
(* Type correctness of the pool's part.                                    *)
LEMMA ReadAgainTyped ==
    ASSUME Typed, NEW t \in Tokens
    PROVE  ReadAgain(t) \in Tokens /\ ReadAgain(t).acc = t.acc
<1>1. CASE t.acc \in Active(50)
  <2>1. Copy(t.acc) \in Tokens /\ Copy(t.acc).acc = t.acc
    BY DEF Typed, TableTyped, Tokens, Rows, Copy
  <2> QED
    BY <1>1, <2>1 DEF ReadAgain, Tokens
<1>2. CASE t.acc \notin Active(50)
  BY <1>2 DEF ReadAgain
<1> QED
  BY <1>1, <1>2

(* What a step of a request does to it.                                    *)
LEMMA RequestTyped ==
    ASSUME Typed, NEW r \in Requests, PoolStep(r)
    PROVE  req' \in [Requests -> Records]
<1>1. req \in [Requests -> Records] /\ req[r] \in Records
  BY DEF Typed
<1>2. ASSUME NEW t \in Tokens, Hold(r, t)
      PROVE  req' \in [Requests -> Records]
  BY <1>1, <1>2 DEF Hold, Records
<1>3. ASSUME NEW how \in {"url", "known", "failed"}, NEW from \in {"none", "lossless", "high"},
             Ends(r, how, from)
      PROVE  req' \in [Requests -> Records]
  BY <1>1, <1>3 DEF Ends, Records
<1>4. ASSUME Drop(r)
      PROVE  req' \in [Requests -> Records]
  BY <1>1, <1>4 DEF Drop, Records
<1>5. ASSUME NEW step \in {"refused", "failed", "mirrors", "user token"}, Goes(r, step)
      PROVE  req' \in [Requests -> Records]
  BY <1>1, <1>5 DEF Goes, Records
<1>6. \A a \in Accounts : Copy(a) \in Tokens
  BY DEF Typed, TableTyped, Copy, Rows, Tokens
<1>7. req[r].todo # {} => First(req[r].todo) \in req[r].todo /\ First(req[r].todo) \in Tokens
  BY <1>1, FirstIsOne DEF Records
<1>8. CASE CacheHit(r)
  <2>1. streamCache \in {"none", "lossless", "high"}
    BY DEF Typed
  <2> QED
    BY <1>1, <1>8, <2>1 DEF CacheHit, Records
<1>9. CASE ListTokens(r)
  <2>1. Listed(r) \subseteq Accounts
    BY DEF Listed, Active
  <2>2. {Copy(a) : a \in Listed(r)} \in SUBSET Tokens /\ {a \in Listed(r) : Served(a, r)} \in SUBSET Accounts
    BY <1>6, <2>1
  <2> QED
    BY <1>1, <1>9, <2>2 DEF ListTokens, Records
<1>10. CASE TakeToken(r)
  BY <1>2, <1>7, <1>10 DEF TakeToken
<1>11. CASE TakeOldToken(r)
  <2> DEFINE t == First(req[r].todo)
  <2>1. ReadAgain(t) \in Tokens
    BY <1>7, <1>11, ReadAgainTyped DEF TakeOldToken
  <2>2. CASE ReadAgain(t).life > 0
    BY <1>2, <1>11, <2>1, <2>2 DEF TakeOldToken
  <2>3. CASE ~(ReadAgain(t).life > 0)
    <3> DEFINE todo == (req[r].todo \ {t}) \cup {ReadAgain(t)}
    <3>1. todo \in SUBSET Tokens
      BY <1>1, <2>1 DEF Records
    <3>2. req' = [req EXCEPT ![r].at = "renew", ![r].todo = todo]
      BY <1>11, <2>3 DEF TakeOldToken
    <3> HIDE DEF todo
    <3> QED
      BY <1>1, <3>1, <3>2 DEF Records
  <2> QED
    BY <2>2, <2>3
<1>12. CASE RenewToken(r)
  <2> DEFINE t == First(req[r].todo)
  <2>1. t \in Tokens /\ [t EXCEPT !.life = 2, !.cli = FALSE] \in Tokens
    <3>1. t \in Tokens
      BY <1>7, <1>12 DEF RenewToken, Typed, Is
    <3>2. ASSUME NEW u \in Tokens PROVE [u EXCEPT !.life = 2, !.cli = FALSE] \in Tokens
      <4>1. [u EXCEPT !.life = 2] \in Tokens
        BY DEF Tokens
      <4>2. \A v \in Tokens : [v EXCEPT !.cli = FALSE] \in Tokens
        BY DEF Tokens
      <4> QED
        BY <4>1, <4>2
    <3> QED
      BY <3>1, <3>2
  <2> QED
    BY <1>2, <1>12, <2>1 DEF RenewToken
<1>13. CASE Granted(r)
  <2>1. req[r].for \in {"none", "lossless", "high"}
    BY <1>13 DEF Granted, Listens
  <2> QED
    BY <1>3, <1>13, <2>1 DEF Granted
<1>14. CASE Fails(r) \/ Report(r)
  BY <1>4, <1>14 DEF Fails, Report
<1>15. CASE Refused(r) \/ GiveUp(r)
  BY <1>5, <1>15 DEF Refused, GiveUp
<1>16. CASE AskMirrors(r)
  BY <1>3, <1>5, <1>16 DEF AskMirrors
<1>17. CASE MirrorsAnswer(r)
  BY <1>3, <1>5, <1>17 DEF MirrorsAnswer
<1>18. CASE UserToken(r)
  <2>1. ASSUME NEW a \in Active(50), req' = [req EXCEPT ![r].at = "tokens", ![r].todo = {Copy(a)}]
        PROVE  req' \in [Requests -> Records]
    <3>1. {Copy(a)} \in SUBSET Tokens
      BY <1>6 DEF Active
    <3> QED
      BY <1>1, <2>1, <3>1 DEF Records
  <2> QED
    BY <1>3, <1>18, <2>1 DEF UserToken
<1>19. CASE AskTidal(r)
  BY <1>3, <1>19 DEF AskTidal
<1> QED
  BY <1>8, <1>9, <1>10, <1>11, <1>12, <1>13, <1>14, <1>15, <1>16, <1>17, <1>18, <1>19 DEF PoolStep

(* A step of a request keeps the accounts it may count on ahead of it, and *)
(* gives a URL of the quality it asks for, or a better one.                *)
LEMMA RequestStep ==
    ASSUME Typed, NEW r \in Requests, NobodySkipped(r), PoolStep(r), RightQuality(r)
    PROVE  /\ \A s \in Requests \ {r} : req'[s] = req[s]
           /\ NobodySkipped(r)' /\ RightQuality(r)'
           /\ req'[r].at = "renew" => req'[r].todo # {}
<1> DEFINE Goal ==
      /\ \A s \in Requests \ {r} : req'[s] = req[s]
      /\ NobodySkipped(r)' /\ RightQuality(r)'
      /\ req'[r].at = "renew" => req'[r].todo # {}
<1>1. req \in [Requests -> Records] /\ req[r] \in Records
  BY DEF Typed
<1>2. ASSUME NEW t \in Tokens, t.acc = First(req[r].todo).acc, Hold(r, t)
      PROVE  Goal
  <2> DEFINE first == First(req[r].todo)
  <2>1. /\ req'[r].todo = req[r].todo \ {first} /\ req'[r].have = req[r].have \cup {t}
        /\ req'[r].good = req[r].good /\ req'[r].for = req[r].for /\ req'[r].at = "tokens"
        /\ \A s \in Requests \ {r} : req'[s] = req[s]
    BY <1>1, <1>2 DEF Hold, Records
  <2> HIDE DEF first
  <2>2. t.acc = first.acc
    BY <1>2 DEF first
  <2>3. ASSUME NEW u \in req[r].todo \cup req[r].have
        PROVE  \E v \in req'[r].todo \cup req'[r].have : v.acc = u.acc
    BY <2>1, <2>2
  <2>4. Ahead(r) \subseteq Ahead(r)'
    BY <2>3 DEF Ahead
  <2> QED
    BY <2>1, <2>4 DEF NobodySkipped, RightQuality
<1>3. ASSUME NEW how, NEW from, Ends(r, how, from),
             how # "user token" /\ how # "renew",
             how = "url" /\ req[r].for = "lossless" => from = "lossless"
      PROVE  Goal
  <2>1. /\ req'[r].todo = {} /\ req'[r].have = {} /\ req'[r].good = {} /\ req'[r].for = req[r].for
        /\ req'[r].at = how /\ req'[r].from = from
        /\ \A s \in Requests \ {r} : req'[s] = req[s]
    BY <1>1, <1>3 DEF Ends, Records
  <2> QED
    BY <1>3, <2>1 DEF NobodySkipped, RightQuality, Ahead
<1>4. ASSUME Drop(r)
      PROVE  Goal
  <2> DEFINE first == First(req[r].have)
  <2>1. /\ req'[r].todo = req[r].todo /\ req'[r].have = req[r].have \ {first}
        /\ req'[r].good = req[r].good \ {first.acc} /\ req'[r].for = req[r].for /\ req'[r].at = "tokens"
        /\ \A s \in Requests \ {r} : req'[s] = req[s]
    BY <1>1, <1>4 DEF Drop, Records
  <2> HIDE DEF first
  <2>2. req'[r].good \subseteq Ahead(r)'
    BY <2>1 DEF Ahead, NobodySkipped
  <2> QED
    BY <2>1, <2>2 DEF NobodySkipped, RightQuality
<1>5. ASSUME NEW step \in {"refused", "failed", "mirrors", "user token"}, Goes(r, step),
             step = "failed" => req[r].good = {},
             step = "user token" => req[r].for = "info"
      PROVE  Goal
  <2>1. /\ req'[r].todo = req[r].todo /\ req'[r].have = req[r].have
        /\ req'[r].good = req[r].good /\ req'[r].for = req[r].for /\ req'[r].at = step
        /\ \A s \in Requests \ {r} : req'[s] = req[s]
    BY <1>1, <1>5 DEF Goes, Records
  <2> QED
    BY <1>5, <2>1 DEF NobodySkipped, RightQuality, Ahead
<1>6. req[r].todo # {} => First(req[r].todo) \in req[r].todo /\ First(req[r].todo) \in Tokens
  BY <1>1, FirstIsOne DEF Records
<1>7. TokensSpent(r) => req[r].good = {}
  BY DEF TokensSpent, NobodySkipped, Ahead
<1>8. CASE CacheHit(r)
  <2>1. /\ req'[r].todo = req[r].todo /\ req'[r].have = req[r].have
        /\ req'[r].good = req[r].good /\ req'[r].for = req[r].for /\ req'[r].at = "url"
        /\ req'[r].from = streamCache
        /\ \A s \in Requests \ {r} : req'[s] = req[s]
    BY <1>1, <1>8 DEF CacheHit, Records
  <2>2. req[r].for = "lossless" => streamCache = "lossless"
    BY <1>8 DEF CacheHit, Cached
  <2> QED
    BY <2>1, <2>2 DEF NobodySkipped, RightQuality, Ahead
<1>9. CASE ListTokens(r)
  <2>1. /\ req'[r].todo = {Copy(a) : a \in Listed(r)} /\ req'[r].have = req[r].have
        /\ req'[r].good \subseteq Listed(r) /\ req'[r].for = req[r].for /\ req'[r].at = "tokens"
        /\ req[r].for \in Listens
        /\ \A s \in Requests \ {r} : req'[s] = req[s]
    BY <1>1, <1>9 DEF ListTokens, Records
  <2>2. \A a \in Listed(r) : Copy(a).acc = a
    BY DEF Copy
  <2>3. req'[r].good \subseteq Ahead(r)'
    BY <2>1, <2>2 DEF Ahead
  <2> QED
    BY <2>1, <2>3 DEF NobodySkipped, RightQuality
<1>10. CASE TakeToken(r)
  BY <1>2, <1>6, <1>10 DEF TakeToken
<1>11. CASE TakeOldToken(r)
  <2> DEFINE t == First(req[r].todo)
  <2>1. t \in Tokens /\ ReadAgain(t) \in Tokens /\ ReadAgain(t).acc = t.acc
    BY <1>6, <1>11, ReadAgainTyped DEF TakeOldToken
  <2>2. CASE ReadAgain(t).life > 0
    BY <1>2, <1>11, <2>1, <2>2 DEF TakeOldToken
  <2>3. CASE ~(ReadAgain(t).life > 0)
    <3>1. req' = [req EXCEPT ![r].at = "renew", ![r].todo = (@ \ {t}) \cup {ReadAgain(t)}]
      BY <1>11, <2>3 DEF TakeOldToken
    <3> HIDE DEF t
    <3>2. /\ req'[r].todo = (req[r].todo \ {t}) \cup {ReadAgain(t)} /\ req'[r].have = req[r].have
          /\ req'[r].good = req[r].good /\ req'[r].for = req[r].for /\ req'[r].at = "renew"
          /\ \A s \in Requests \ {r} : req'[s] = req[s]
      BY <1>1, <3>1 DEF Records
    <3>3. ASSUME NEW u \in req[r].todo \cup req[r].have
          PROVE  \E v \in req'[r].todo \cup req'[r].have : v.acc = u.acc
      BY <2>1, <3>2
    <3>4. Ahead(r) \subseteq Ahead(r)'
      BY <3>3 DEF Ahead
    <3> QED
      BY <3>2, <3>4 DEF NobodySkipped, RightQuality
  <2> QED
    BY <2>2, <2>3
<1>12. CASE RenewToken(r)
  <2> DEFINE t == First(req[r].todo)
  <2>1. t \in Tokens
    BY <1>6, <1>12 DEF RenewToken, Typed, Is
  <2>2. \A u \in Tokens : [u EXCEPT !.life = 2] \in Tokens /\ [u EXCEPT !.life = 2].acc = u.acc
    BY DEF Tokens
  <2>3. \A u \in Tokens : [u EXCEPT !.cli = FALSE] \in Tokens /\ [u EXCEPT !.cli = FALSE].acc = u.acc
    BY DEF Tokens
  <2>4. [t EXCEPT !.life = 2, !.cli = FALSE] \in Tokens /\ [t EXCEPT !.life = 2, !.cli = FALSE].acc = t.acc
    BY <2>1, <2>2, <2>3
  <2> QED
    BY <1>2, <1>12, <2>1, <2>4 DEF RenewToken
<1>13. CASE Granted(r)
  BY <1>3, <1>13 DEF Granted
<1>14. CASE Fails(r) \/ Report(r)
  BY <1>4, <1>14 DEF Fails, Report
<1>15. CASE Refused(r)
  BY <1>5, <1>15 DEF Refused
<1>16. CASE GiveUp(r)
  BY <1>5, <1>7, <1>16 DEF GiveUp
<1>17. CASE AskMirrors(r)
  BY <1>3, <1>5, <1>17 DEF AskMirrors
<1>18. CASE MirrorsAnswer(r)
  BY <1>3, <1>5, <1>18 DEF MirrorsAnswer
<1>19. CASE UserToken(r)
  <2>1. ASSUME NEW a \in Active(50), req' = [req EXCEPT ![r].at = "tokens", ![r].todo = {Copy(a)}]
        PROVE  Goal
    <3>1. /\ req'[r].good = req[r].good /\ req'[r].for = req[r].for /\ req'[r].at = "tokens"
          /\ \A s \in Requests \ {r} : req'[s] = req[s]
      BY <1>1, <2>1 DEF Records
    <3>2. req[r].good = {}
      BY <1>19 DEF UserToken, Is, NobodySkipped, Listens
    <3> QED
      BY <3>1, <3>2 DEF NobodySkipped, RightQuality
  <2> QED
    BY <1>3, <1>19, <2>1 DEF UserToken
<1>20. CASE AskTidal(r)
  BY <1>3, <1>20 DEF AskTidal
<1> QED
  BY <1>8, <1>9, <1>10, <1>11, <1>12, <1>13, <1>14, <1>15, <1>16, <1>17, <1>18, <1>19, <1>20 DEF PoolStep

-----------------------------------------------------------------------------
(* The table, the worker and the admin.                                    *)
LEMMA RenewedTyped ==
    ASSUME TableTyped, NEW a
    PROVE  Renewed(a) \in [Accounts -> Rows]
<1>1. ASSUME NEW b \in Accounts PROVE [row[b] EXCEPT !.life = 2, !.cli = FALSE] \in Rows
  <2>1. \A x \in Rows : [x EXCEPT !.life = 2] \in Rows
    BY DEF Rows
  <2>2. \A x \in Rows : [x EXCEPT !.cli = FALSE] \in Rows
    BY DEF Rows
  <2>3. row[b] \in Rows
    BY DEF TableTyped
  <2> QED
    BY <2>1, <2>2, <2>3
<1> QED
  BY <1>1 DEF Renewed, TableTyped

LEMMA TableStep ==
    ASSUME TableTyped, Next
    PROVE  TableTyped'
<1>1. row \in [Accounts -> Rows] /\ plan \in [Accounts -> Tiers]
      /\ keeper \in [Keepers -> Places]
  BY DEF TableTyped
<1>2. \A todo \in SUBSET Accounts : Onward(todo) \in Places
  BY DEF AtRest, Onward, Places, Tiers, None
<1>3. ASSUME NEW r \in Requests, PoolStep(r)
      PROVE  TableTyped'
  <2>1. CASE RenewToken(r)
    BY <2>1, RenewedTyped DEF RenewToken, TableTyped
  <2>2. CASE ~RenewToken(r)
    BY <1>3, <2>2 DEF PoolStep, CacheHit, ListTokens, TakeToken, TakeOldToken, Granted, Fails, Refused,
                      Report, GiveUp, AskMirrors, MirrorsAnswer, UserToken, AskTidal, table, TableTyped
  <2> QED
    BY <2>1, <2>2
<1>4. CASE MirrorStep \/ ExpireStream \/ SetInstances
  BY <1>4 DEF MirrorStep, ExpireStream, SetInstances, table, TableTyped
<1>5. ASSUME NEW a \in Accounts, PlanChanges(a) \/ Age(a) \/ Demote(a)
      PROVE  TableTyped'
  <2>1. CASE PlanChanges(a)
    BY <1>1, <2>1 DEF PlanChanges, TableTyped
  <2>2. CASE Age(a)
    <3>1. \A x \in Rows : x.life > 0 => [x EXCEPT !.life = @ - 1] \in Rows
      BY DEF Rows
    <3> QED
      BY <1>1, <2>2, <3>1 DEF Age, TableTyped
  <2>3. CASE Demote(a)
    <3>1. \A x \in Rows : [x EXCEPT !.tier = 10] \in Rows
      BY DEF Rows, Tiers
    <3>2. \A x \in Rows : [x EXCEPT !.active = FALSE] \in Rows
      BY DEF Rows
    <3> QED
      BY <1>1, <2>3, <3>1, <3>2 DEF Demote, TableTyped
  <2> QED
    BY <1>5, <2>1, <2>2, <2>3
<1>6. ASSUME NEW a \in Changing, ToggleAccount(a) \/ DeleteAccount(a) \/ AddAccount(a) \/ RefreshAccount(a)
      PROVE  TableTyped'
  <2>0. a \in Accounts
    BY PoolAssumption
  <2>1. ASSUME NEW to \in Rows, Changes(a, to), UNCHANGED <<plan, keeper>>
        PROVE  TableTyped'
    BY <1>1, <2>0, <2>1 DEF Changes, TableTyped
  <2>2. CASE ToggleAccount(a)
    <3>1. \A x \in Rows : [x EXCEPT !.active = ~@] \in Rows
      BY DEF Rows
    <3> QED
      BY <1>1, <2>0, <2>1, <2>2, <3>1 DEF ToggleAccount
  <2>3. CASE DeleteAccount(a)
    <3>1. NoRow \in Rows
      BY DEF NoRow, Rows, Tiers
    <3> QED
      BY <2>1, <2>3, <3>1 DEF DeleteAccount
  <2>4. CASE AddAccount(a)
    <3>1. \A tier \in {plan[a], 50, 10} :
              [in |-> TRUE, active |-> TRUE, tier |-> tier, life |-> 2, cli |-> FALSE] \in Rows
      BY <1>1, <2>0 DEF Rows, Tiers
    <3> QED
      BY <2>1, <2>4, <3>1 DEF AddAccount
  <2>5. CASE RefreshAccount(a)
    <3>1. [AtRest EXCEPT !.at = "renew", !.acc = a] \in Places
      BY <2>0 DEF AtRest, Places, Tiers
    <3> QED
      BY <1>1, <2>5, <3>1 DEF RefreshAccount, TableTyped
  <2> QED
    BY <1>6, <2>2, <2>3, <2>4, <2>5
<1>7. ASSUME NEW k \in Keepers,
             Renews(k) \/ AsksSubscription(k) \/ TidalFails(k) \/ WritesSubscription(k)
      PROVE  TableTyped'
  <2>0. keeper[k] \in Places
    BY <1>1
  <2>1. CASE Renews(k)
    <3>1. [keeper[k] EXCEPT !.at = "ask"] \in Places
      BY <2>0, <2>1 DEF Renews, At, Places
    <3> QED
      BY <1>1, <2>1, <3>1, RenewedTyped DEF Renews, Stands, TableTyped
  <2>2. CASE AsksSubscription(k)
    <3>1. plan[keeper[k].acc] \in Tiers
      BY <1>1, <2>0, <2>2 DEF AsksSubscription, At, Places
    <3>2. [keeper[k] EXCEPT !.at = "write", !.tier = plan[keeper[k].acc]] \in Places
      BY <2>0, <2>2, <3>1 DEF AsksSubscription, At, Places
    <3> QED
      BY <1>1, <2>2, <3>2 DEF AsksSubscription, TableTyped, table
  <2>3. ASSUME TurnOver(k) PROVE keeper' \in [Keepers -> Places]
    <3>1. Onward(keeper[k].todo) \in Places
      BY <1>2, <2>0 DEF Places
    <3> QED
      BY <1>1, <2>3, <3>1 DEF TurnOver
  <2>4. CASE TidalFails(k)
    BY <1>1, <2>3, <2>4 DEF TidalFails, TableTyped, table
  <2>5. CASE WritesSubscription(k)
    <3>1. \A x \in Rows : [x EXCEPT !.tier = keeper[k].tier] \in Rows
      BY <2>0 DEF Rows, Places
    <3> QED
      BY <1>1, <2>3, <2>5, <3>1 DEF WritesSubscription, TableTyped
  <2> QED
    BY <1>7, <2>1, <2>2, <2>4, <2>5
<1>8. CASE RoundBegins
  <2> DEFINE due == {a \in Accounts : row[a].in /\ row[a].active /\ row[a].life < 2}
  <2>1. due # {} => [AtRest EXCEPT !.at = "round", !.todo = due] \in Places
    BY DEF AtRest, Places, Tiers
  <2> QED
    BY <1>1, <1>8, <2>1 DEF RoundBegins, TableTyped, table
<1>9. CASE LockRow
  <2> DEFINE todo == keeper["worker"].todo
             a == Newest(todo)
             rest == todo \ {a}
  <2>1. todo \subseteq Accounts /\ todo # {}
    BY <1>1, <1>9 DEF LockRow, At, Keepers, Places
  <2>2. a \in Accounts /\ rest \in SUBSET Accounts
    BY <2>1, NewestIsOne
  <2>3. Onward(rest) \in Places /\ [AtRest EXCEPT !.at = "renew", !.acc = a, !.todo = rest] \in Places
    BY <1>2, <2>2 DEF AtRest, Places, Tiers
  <2> QED
    BY <1>1, <1>9, <2>3 DEF LockRow, TableTyped, table, Keepers
<1> QED
  BY <1>3, <1>4, <1>5, <1>6, <1>7, <1>8, <1>9 DEF Next, WorkerStep, AdminStep, Keepers

LEMMA NotGoodStep ==
    ASSUME PoolInv, NEW a, req' = req \/ req' = NotGood(a, req)
    PROVE  /\ req' \in [Requests -> Records]
           /\ \A r \in Requests : NobodySkipped(r)' /\ RightQuality(r)'
           /\ \A r \in Requests : req'[r].at = "renew" => req'[r].todo # {}
<1>1. req \in [Requests -> Records] /\ \A r \in Requests : req[r].at = "renew" => req[r].todo # {}
  BY DEF PoolInv, Typed
<1>2. CASE req' = req
  BY <1>1, <1>2 DEF PoolInv, NobodySkipped, RightQuality, Ahead
<1>3. CASE req' = NotGood(a, req)
  <2>1. ASSUME NEW r \in Requests
        PROVE  /\ req'[r] \in Records
               /\ req'[r].good = req[r].good \ {a} /\ req'[r].for = req[r].for /\ req'[r].at = req[r].at
               /\ req'[r].from = req[r].from /\ req'[r].todo = req[r].todo /\ req'[r].have = req[r].have
    <3>1. req'[r] = [req[r] EXCEPT !.good = @ \ {a}] /\ req[r] \in Records
      BY <1>1, <1>3 DEF NotGood
    <3> QED
      BY <3>1 DEF Records
  <2>2. req' \in [Requests -> Records]
    BY <1>3, <2>1 DEF NotGood
  <2>3. \A r \in Requests : NobodySkipped(r)' /\ RightQuality(r)'
    BY ZenonT(60), <2>1 DEF PoolInv, NobodySkipped, RightQuality, Ahead
  <2> QED
    BY <1>1, <2>1, <2>2, <2>3
<1> QED
  BY <1>2, <1>3

LEMMA StepPool ==
    ASSUME PoolInv, [Next]_vars
    PROVE  PoolInv'
<1>1. TableTyped' /\ streamCache' \in {"none", "lossless", "high"}
  <2>1. CASE UNCHANGED vars
    BY <2>1 DEF vars, table, PoolInv, Typed, TableTyped
  <2>2. CASE Next
    <3>1. TableTyped'
      BY <2>2, TableStep DEF PoolInv, Typed
    <3>2. streamCache' \in {"none", "lossless", "high"}
      BY ZenonT(60), <2>2 DEF PoolInv, Typed, Listens, Next, PoolStep, CacheHit, ListTokens, TakeToken, TakeOldToken,
            RenewToken, Granted, Fails, Refused, Report, GiveUp, AskMirrors, MirrorsAnswer, UserToken,
            AskTidal, MirrorStep, ExpireStream, SetInstances, PlanChanges, Age, Demote, ToggleAccount,
            DeleteAccount, AddAccount, RefreshAccount, WorkerStep, AdminStep, RoundBegins, LockRow, Renews,
            AsksSubscription, TidalFails, WritesSubscription
    <3> QED
      BY <3>1, <3>2
  <2> QED
    BY <2>1, <2>2
<1>2. ASSUME NEW r \in Requests, PoolStep(r)
      PROVE  PoolInv'
  <2>1. req' \in [Requests -> Records]
    BY <1>2, RequestTyped DEF PoolInv
  <2>2. /\ \A s \in Requests \ {r} : req'[s] = req[s]
        /\ NobodySkipped(r)' /\ RightQuality(r)'
        /\ req'[r].at = "renew" => req'[r].todo # {}
    BY <1>2, RequestStep DEF PoolInv
  <2>3. \A s \in Requests \ {r} : NobodySkipped(s)' /\ RightQuality(s)'
    BY <2>2 DEF PoolInv, NobodySkipped, RightQuality, Ahead
  <2>4. \A s \in Requests : req'[s].at = "renew" => req'[s].todo # {}
    BY <2>2 DEF PoolInv, Typed
  <2> QED
    BY <1>1, <2>1, <2>2, <2>3, <2>4 DEF PoolInv, Typed
<1>3. ASSUME NEW a, req' = req \/ req' = NotGood(a, req)
      PROVE  PoolInv'
  <2>1. Typed' /\ \A r \in Requests : NobodySkipped(r)' /\ RightQuality(r)'
    BY <1>1, <1>3, NotGoodStep DEF Typed
  <2> QED
    BY <2>1 DEF PoolInv
<1>4. CASE MirrorStep \/ ExpireStream \/ SetInstances \/ UNCHANGED vars
  BY <1>3, <1>4 DEF MirrorStep, ExpireStream, SetInstances, vars
<1>5. ASSUME NEW a \in Accounts, PlanChanges(a) \/ Age(a) \/ Demote(a)
      PROVE  PoolInv'
  BY <1>3, <1>5 DEF PlanChanges, Age, Demote
<1>6. ASSUME NEW a \in Changing, ToggleAccount(a) \/ DeleteAccount(a) \/ AddAccount(a) \/ RefreshAccount(a)
      PROVE  PoolInv'
  BY <1>3, <1>6 DEF ToggleAccount, DeleteAccount, AddAccount, RefreshAccount, Changes
<1>7. ASSUME NEW k \in Keepers,
             Renews(k) \/ AsksSubscription(k) \/ TidalFails(k) \/ WritesSubscription(k)
      PROVE  PoolInv'
  BY <1>3, <1>7 DEF Renews, AsksSubscription, TidalFails, WritesSubscription
<1>8. CASE RoundBegins \/ LockRow
  BY <1>3, <1>8 DEF RoundBegins, LockRow
<1> QED
  BY <1>2, <1>4, <1>5, <1>6, <1>7, <1>8 DEF Next, WorkerStep, AdminStep, Keepers

LEMMA PoolInitially == ASSUME Init PROVE PoolInv
<1>1. PICK s \in Scenarios :
        /\ row \in [Accounts -> {NoRow, Linked(50, FALSE), Linked(80, FALSE), Linked(80, TRUE)}]
        /\ plan = [a \in Accounts |-> row[a].tier]
        /\ req = [r \in Requests |-> [for |-> s.asks[r], at |-> "rest", todo |-> {}, have |-> {},
                                      good |-> {}, from |-> "none"]]
  BY DEF Init
<1>2. {NoRow, Linked(50, FALSE), Linked(80, FALSE), Linked(80, TRUE)} \subseteq Rows
  BY DEF NoRow, Linked, Rows, Tiers
<1>3. row \in [Accounts -> Rows] /\ plan \in [Accounts -> Tiers]
  BY ZenonT(60), <1>1, <1>2 DEF Rows
<1>4. keeper \in [Keepers -> Places]
  <2>1. AtRest \in Places /\ keeper = [k \in Keepers |-> AtRest]
    BY DEF Init, AtRest, Places, Tiers, None
  <2> QED
    BY <2>1
<1>5. \A r \in Requests : s.asks[r] \in Asks
  BY PoolAssumption
<1>6. req \in [Requests -> Records]
  BY <1>1, <1>5 DEF Records
<1>7. streamCache = "none"
  BY DEF Init
<1>8. ASSUME NEW r \in Requests
      PROVE  NobodySkipped(r) /\ RightQuality(r) /\ req[r].at # "renew"
  BY <1>1 DEF NobodySkipped, RightQuality, Ahead
<1> QED
  BY <1>3, <1>4, <1>6, <1>7, <1>8 DEF PoolInv, Typed, TableTyped

(* client.go, GetStreamURL's loop over the accounts: whatever the worker,  *)
(* the admin, Tidal and the other requests do meanwhile, a request fails   *)
(* only when each account that could have served it all the time was asked *)
(* and had a failure of its own.                                           *)
THEOREM NobodyIsOverlooked == Spec => []NoGoodAccountOverlooked
<1>1. Init => PoolInv
  BY PoolInitially
<1>2. PoolInv /\ [Next]_vars => PoolInv'
  BY StepPool
<1>3. PoolInv => NoGoodAccountOverlooked
  BY DEF PoolInv, NobodySkipped, NoGoodAccountOverlooked, Is
<1> QED
  BY <1>1, <1>2, <1>3, PTL DEF Spec

(* client.go's micro-cache and fallbacks: a request for lossless is given  *)
(* a lossless URL or none.                                                 *)
THEOREM LosslessIsLossless == Spec => []PaidStaysPaid
<1>1. Init => PoolInv
  BY PoolInitially
<1>2. PoolInv /\ [Next]_vars => PoolInv'
  BY StepPool
<1>3. PoolInv => PaidStaysPaid
  BY DEF PoolInv, RightQuality, PaidStaysPaid, Is
<1> QED
  BY <1>1, <1>2, <1>3, PTL DEF Spec

-----------------------------------------------------------------------------
(* Calls: counting what has not been received.                             *)
LEMMA MostIsNatural ==
    ASSUME Calls!CallsAssumption
    PROVE  Most \in Nat /\ Tries <= Most /\ \A n \in Sizes : n <= Most
<1>1. \E n \in Sizes : \A k \in Sizes : k <= n
  <2>1. IsFiniteSet(Sizes) /\ Sizes \subseteq Nat /\ Sizes # {}
    BY DEF Calls!CallsAssumption, Calls!IsFiniteSet, IsFiniteSet
  <2>2. PICK n \in Sizes : \A m \in Sizes : n >= m
    BY <2>1, GreatestOfFinite
  <2>3. \A m \in Sizes : m <= n
    BY <2>1, <2>2
  <2> QED
    BY <2>3
<1> DEFINE top == CHOOSE n \in Sizes : \A k \in Sizes : k <= n
<1>2. top \in Sizes /\ \A k \in Sizes : k <= top
  BY <1>1
<1>3. Most = Tries + top
  BY DEF Most, Calls!Most
<1> HIDE DEF top
<1>4. Tries \in Nat /\ top \in Nat /\ Sizes \subseteq Nat
  BY <1>2 DEF Calls!CallsAssumption
<1> QED
  BY <1>2, <1>3, <1>4

LEMMA InIntervalFinite ==
    ASSUME NEW s \in Nat, NEW P, P \subseteq 1..s
    PROVE  IsFiniteSet(P)
<1>1. IsFiniteSet(1..s)
  BY FS_Interval
<1> QED
  BY <1>1, FS_Subset

LEMMA OneReceived ==
    ASSUME NEW s \in Nat, NEW g \in Nat, NEW P, P \subseteq 1..s, Cardinality(P) = s - g, NEW i \in P
    PROVE  Cardinality(P \ {i}) = s - (g + 1) /\ g + 1 <= s /\ P \ {i} \subseteq 1..s
<1>1. IsFiniteSet(P)
  BY InIntervalFinite
<1>2. Cardinality(P) \in Nat /\ Cardinality(P) # 0 /\ Cardinality(P \ {i}) = Cardinality(P) - 1
  BY <1>1, FS_CardinalityType, FS_EmptySet, FS_RemoveElement
<1> QED
  BY <1>2

LEMMA MoreSent ==
    ASSUME NEW s \in Nat, NEW g \in Nat, NEW P, P \subseteq 1..s, Cardinality(P) = s - g,
           NEW t \in Nat, s <= t
    PROVE  Cardinality(P \cup (s + 1 .. t)) = t - g /\ P \cup (s + 1 .. t) \subseteq 1..t
<1>1. IsFiniteSet(P) /\ IsFiniteSet(s + 1 .. t) /\ Cardinality(s + 1 .. t) = t - s
  <2>1. IsFiniteSet(P)
    BY InIntervalFinite
  <2>2. IsFiniteSet(s + 1 .. t) /\ Cardinality(s + 1 .. t) = IF s + 1 > t THEN 0 ELSE t - (s + 1) + 1
    BY FS_Interval
  <2> QED
    BY <2>1, <2>2
<1>2. P \cap (s + 1 .. t) = {}
  OBVIOUS
<1>3. Cardinality(P \cup (s + 1 .. t)) = (s - g) + (t - s) - 0
  <2>1. Cardinality(P \cup (s + 1 .. t)) =
            Cardinality(P) + Cardinality(s + 1 .. t) - Cardinality(P \cap (s + 1 .. t))
    BY <1>1, FS_Union
  <2> QED
    BY <1>1, <1>2, <2>1, FS_EmptySet
<1> QED
  BY <1>3

LEMMA AllReceived ==
    ASSUME NEW s \in Nat, NEW g \in Nat, NEW P, P \subseteq 1..s, Cardinality(P) = s - g, g >= s
    PROVE  P = {}
<1>1. IsFiniteSet(P)
  BY InIntervalFinite
<1>2. Cardinality(P) \in Nat
  BY <1>1, FS_CardinalityType
<1>3. Cardinality(P) = 0
  BY <1>2
<1> QED
  BY <1>1, <1>3, FS_EmptySet

(* What receiving and sending do to the tasks of a list.                   *)
LEMMA Received ==
    ASSUME NEW t \in TaskLists, NEW i \in Tasks
    PROVE  [t EXCEPT ![i] = "off"] \in TaskLists /\ Pending([t EXCEPT ![i] = "off"]) = Pending(t) \ {i}
BY DEF TaskLists, Pending

LEMMA Sent ==
    ASSUME NEW t \in TaskLists, NEW R, R \subseteq Tasks,
           NEW u, u = [j \in Tasks |-> IF j \in R THEN "running" ELSE t[j]]
    PROVE  u \in TaskLists /\ Pending(u) = Pending(t) \cup R
BY DEF TaskLists, Pending

(* One call changes at a time.                                             *)
LEMMA OneCall ==
    ASSUME CallsInv, NEW c \in Requests, NEW k \in CallRecords, NEW t \in TaskLists,
           call' = [call EXCEPT ![c] = k], task' = [task EXCEPT ![c] = t], Counted(k, Pending(t))
    PROVE  CallsInv'
<1>1. call' \in [Requests -> CallRecords] /\ task' \in [Requests -> TaskLists]
  BY DEF CallsInv
<1>2. ASSUME NEW d \in Requests
      PROVE  Counted(call'[d], Pending(task'[d]))
  <2>1. CASE d = c
    BY <2>1 DEF CallsInv
  <2>2. CASE d # c
    <3>1. call'[d] = call[d] /\ task'[d] = task[d]
      BY <2>2 DEF CallsInv
    <3> QED
      BY <3>1 DEF CallsInv
  <2> QED
    BY <2>1, <2>2
<1> QED
  BY <1>1, <1>2 DEF CallsInv, Pending, Counted

(* A call that ends keeps the invariant, unless it fails too early.        *)
LEMMA CallEnds ==
    ASSUME CallsInv, Calls!CallsAssumption, NEW c \in Requests, NEW t \in TaskLists, NEW how, NEW best \in Nat,
           Calls!Finish(c, how, best), task' = [task EXCEPT ![c] = t],
           how \in {"answered", "left"} \/ (how = "failed" /\ best = 0 /\ Pending(t) = {})
    PROVE  CallsInv'
<1> DEFINE k == [Calls!NoCall EXCEPT !.kind = call[c].kind, !.at = how, !.n = call[c].n, !.best = best]
<1>1. k \in CallRecords
  <2>1. call[c] \in CallRecords /\ 0 \in 0..Most
    BY MostIsNatural DEF CallsInv
  <2> QED
    BY <2>1 DEF CallRecords, Calls!NoCall
<1>2. Counted(k, Pending(t))
  BY DEF Counted, Calls!NoCall
<1>3. call' = [call EXCEPT ![c] = k]
  BY DEF Calls!Finish, Calls!Kind
<1> QED
  BY <1>1, <1>2, <1>3, OneCall

LEMMA BeginStep ==
    ASSUME CallsInv, Calls!CallsAssumption, NEW c \in Requests,
           NEW kind \in {"stream", "get", "gather", "shotgun"}, NEW listed, Calls!Begin(c, kind, listed)
    PROVE  CallsInv'
<1>1. call[c] \in CallRecords /\ task[c] \in TaskLists /\ Pending(task[c]) = {}
  BY DEF CallsInv, Counted, Calls!Begin, Calls!Resting
<1> DEFINE Asked(n) == IF kind = "get" THEN Tries
                       ELSE IF kind = "gather" THEN Calls!Least(GatherLimit, n) ELSE n
           First1(n) == Calls!FirstBatch(kind, n)
<1>2. PICK n \in IF listed THEN Sizes ELSE {0} :
         \/ /\ Asked(n) = 0
            /\ call' = [call EXCEPT ![c] = [Calls!NoCall EXCEPT !.kind = kind, !.at = "failed"]]
            /\ UNCHANGED task
         \/ /\ Asked(n) # 0
            /\ call' = [call EXCEPT ![c] =
                   [Calls!NoCall EXCEPT !.kind = kind, !.n = Asked(n), !.sent = First1(n),
                                        !.at = IF kind = "stream" THEN "fast" ELSE "wait"]]
            /\ Calls!Launch(c, 1, First1(n))
  BY DEF Calls!Begin
<1>3. n \in Nat /\ n <= Most /\ Most \in Nat /\ Tries <= Most
  <2>1. Most \in Nat /\ Tries <= Most /\ \A x \in Sizes : x <= Most
    BY MostIsNatural
  <2>2. Sizes \subseteq Nat
    BY DEF Calls!CallsAssumption
  <2> QED
    BY <1>2, <2>1, <2>2
<1>4. CASE Asked(n) = 0
  <2> DEFINE k == [kind |-> kind, at |-> "failed", n |-> 0, sent |-> 0, got |-> 0, best |-> 0]
  <2>1. k \in CallRecords
    BY <1>3 DEF CallRecords
  <2>2. Counted(k, Pending(task[c]))
    BY <1>1 DEF Counted
  <2>3. call' = [call EXCEPT ![c] = k] /\ task' = [task EXCEPT ![c] = task[c]]
    BY ZenonT(60), <1>2, <1>4 DEF CallsInv, Calls!NoCall
  <2> QED
    BY <1>1, <2>1, <2>2, <2>3, OneCall
<1>5. CASE Asked(n) # 0
  <2> DEFINE m == Asked(n)
             s == First1(n)
             k == [kind |-> kind, at |-> IF kind = "stream" THEN "fast" ELSE "wait",
                   n |-> m, sent |-> s, got |-> 0, best |-> 0]
             t == [j \in Tasks |-> IF j \in 1..s THEN "running" ELSE task[c][j]]
  <2>1. /\ m \in Nat /\ s \in Nat /\ 0 < s /\ s <= m /\ m <= Most
        /\ kind \in {"get", "stream"} => s = 1
    BY <1>3, <1>5 DEF Calls!CallsAssumption, Calls!FirstBatch, Calls!Least
  <2> HIDE DEF m, s
  <2>2. 1..s \subseteq Tasks
    BY <1>3, <2>1 DEF Tasks, Calls!Tasks, Most
  <2>3. t \in TaskLists /\ Pending(t) = 1..s
    BY <1>1, <2>2 DEF TaskLists, Pending
  <2>4. Cardinality(1..s) = s
    BY <2>1, FS_Interval
  <2> HIDE DEF t
  <2>5. k \in CallRecords
    BY <1>3, <2>1 DEF CallRecords
  <2>6. Counted(k, Pending(t))
    BY <2>1, <2>3, <2>4 DEF Counted
  <2>7. call' = [call EXCEPT ![c] = k] /\ task' = [task EXCEPT ![c] = t]
    BY <1>2, <1>5 DEF m, s, t, Calls!Launch, Calls!NoCall, Tasks
  <2> QED
    BY <2>3, <2>5, <2>6, <2>7, OneCall
<1> QED
  BY <1>4, <1>5

(* A result that is received is in some call's list.                       *)
LEMMA Arrived ==
    ASSUME CallsInv, NEW c \in Requests, NEW i \in Tasks, task[c][i] \in Calls!Results(c)
    PROVE  /\ call[c] \in CallRecords /\ task[c] \in TaskLists /\ Counted(call[c], Pending(task[c]))
           /\ i \in Pending(task[c])
           /\ Calls!Received(c, i) <=> task' = [task EXCEPT ![c] = [task[c] EXCEPT ![i] = "off"]]
           /\ [task[c] EXCEPT ![i] = "off"] \in TaskLists
           /\ Pending([task[c] EXCEPT ![i] = "off"]) = Pending(task[c]) \ {i}
<1>1. call[c] \in CallRecords /\ task[c] \in TaskLists /\ Counted(call[c], Pending(task[c]))
  BY DEF CallsInv
<1>2. task[c][i] # "off"
  BY DEF Calls!Results
<1>3. i \in Pending(task[c])
  BY <1>2 DEF Pending
<1> QED
  BY <1>1, <1>3, Received DEF Calls!Received

(* A call that waits on.                                                   *)
LEMMA CallWaits ==
    ASSUME CallsInv, NEW c \in Requests, call[c].at \in {"wait", "fast"}, NEW t \in TaskLists,
           NEW k \in CallRecords, k.kind = call[c].kind, k.at = "wait", k.n = call[c].n, k.sent \in 1..k.n,
           call' = [call EXCEPT ![c] = k], task' = [task EXCEPT ![c] = t],
           IF k.kind = "get" THEN Pending(t) \subseteq {k.sent}
           ELSE Pending(t) \subseteq 1..k.sent /\ k.got <= k.sent /\ Cardinality(Pending(t)) = k.sent - k.got
    PROVE  CallsInv'
<1>1. call[c] \in CallRecords /\ Counted(call[c], Pending(task[c]))
  BY DEF CallsInv
<1>2. k.n > 0 /\ k.sent > 0 /\ k.sent <= k.n
  BY DEF CallRecords
<1>3. Counted(k, Pending(t))
  BY <1>1, <1>2 DEF Counted
<1> QED
  BY <1>3, OneCall

(* The steps of calls, one after the other.                                *)
LEMMA FastPathStep ==
    ASSUME CallsInv, Calls!CallsAssumption, NEW c \in Requests, Calls!FastPath(c)
    PROVE  CallsInv'
<1>1. /\ call[c] \in CallRecords /\ task[c] \in TaskLists /\ call[c].at = "fast"
      /\ Pending(task[c]) \subseteq {1} /\ call[c].best = 0 /\ call[c].got = 0
      /\ call[c].n > 0 /\ call[c].kind = "stream"
  BY DEF CallsInv, Counted, Calls!FastPath, Calls!CallAt
<1>2. Most \in Nat /\ call[c].n \in 0..Most
  BY <1>1, MostIsNatural DEF CallRecords
<1>3. 1 \in Tasks
  BY <1>1, <1>2 DEF Tasks, Calls!Tasks, Most
<1>4. CASE task[c][1] = "ok"
  <2>1. Calls!Finish(c, "answered", 1) /\ Calls!Received(c, 1)
    BY <1>4 DEF Calls!FastPath
  <2>2. [task[c] EXCEPT ![1] = "off"] \in TaskLists
    BY <1>1, <1>3, Received
  <2>3. task' = [task EXCEPT ![c] = [task[c] EXCEPT ![1] = "off"]]
    BY <2>1 DEF Calls!Received
  <2> QED
    BY <2>1, <2>2, <2>3, CallEnds
<1>5. CASE task[c][1] # "ok"
  <2> DEFINE s == Calls!Least(BatchSize, call[c].n)
             t == [j \in Tasks |-> IF j \in 1..s THEN "running" ELSE task[c][j]]
             k == [call[c] EXCEPT !.at = "wait", !.sent = s]
  <2>1. s \in 1..call[c].n
    BY <1>1, <1>2 DEF Calls!Least, Calls!CallsAssumption
  <2>2. 1..s \subseteq Tasks
    BY <1>2, <2>1 DEF Tasks, Calls!Tasks, Most
  <2>3. call' = [call EXCEPT ![c].at = "wait", ![c].sent = s] /\ task' = [task EXCEPT ![c] = t]
    BY <1>5 DEF Calls!FastPath, Calls!Launch, Tasks
  <2> HIDE DEF s
  <2>4. t \in TaskLists /\ Pending(t) = 1..s
    BY <1>1, <2>1, <2>2 DEF TaskLists, Pending
  <2>5. Cardinality(1..s) = s
    BY <2>1, FS_Interval
  <2>6. call' = [call EXCEPT ![c] = k]
    BY <2>3
  <2>7. /\ Pending(t) \subseteq 1..s /\ call[c].got <= s
        /\ Cardinality(Pending(t)) = s - call[c].got
    BY <1>1, <1>2, <2>1, <2>4, <2>5
  <2>8. /\ k \in CallRecords /\ k.kind = call[c].kind /\ k.at = "wait" /\ k.n = call[c].n
        /\ k.sent = s /\ k.got = call[c].got
    <3>1. s \in 0..Most
      BY <1>2, <2>1
    <3>2. \A x \in CallRecords : [x EXCEPT !.sent = s] \in CallRecords
      BY <3>1 DEF CallRecords
    <3>3. \A x \in CallRecords : [x EXCEPT !.at = "wait"] \in CallRecords
      BY DEF CallRecords
    <3>4. k = [[call[c] EXCEPT !.at = "wait"] EXCEPT !.sent = s]
      OBVIOUS
    <3>5. k.kind = call[c].kind /\ k.at = "wait" /\ k.n = call[c].n /\ k.sent = s /\ k.got = call[c].got
      BY <1>1 DEF CallRecords
    <3> HIDE DEF k
    <3> QED
      BY <1>1, <3>2, <3>3, <3>4, <3>5
  <2> HIDE DEF t, k
  <2> QED
    BY <1>1, <2>1, <2>3, <2>4, <2>6, <2>7, <2>8, CallWaits
<1> QED
  BY <1>4, <1>5

(* What counts when one more result, or none, is received in a race.       *)
LEMMA RaceStepOn ==
    ASSUME CallsInv, Calls!CallsAssumption, NEW c \in Requests, call[c].at = "wait", call[c].kind = "stream",
           NEW s \in 1..call[c].n, NEW g \in Nat, NEW b \in Nat, NEW t \in TaskLists,
           task' = [task EXCEPT ![c] = t], Calls!RaceGoesOn(c, s, g, b),
           Pending(t) \subseteq 1..s, g <= s, Cardinality(Pending(t)) = s - g
    PROVE  CallsInv'
<1>1. call[c] \in CallRecords /\ call[c].n \in 0..Most /\ Most \in Nat
  BY MostIsNatural DEF CallsInv, CallRecords
<1>2. CASE Calls!RaceOver(c, s, g, b)
  <2>1. Calls!Finish(c, IF b # 0 THEN "answered" ELSE "failed", b)
    BY <1>2 DEF Calls!RaceGoesOn
  <2>2. CASE b # 0
    BY <2>1, <2>2, CallEnds
  <2>3. CASE b = 0
    <3>1. g >= s
      BY <1>1, <1>2, <2>3 DEF Calls!RaceOver
    <3>2. Pending(t) = {}
      BY <1>1, <3>1, AllReceived
    <3> QED
      BY <2>1, <2>3, <3>2, CallEnds
  <2> QED
    BY <2>2, <2>3
<1>3. CASE ~Calls!RaceOver(c, s, g, b)
  <2> DEFINE k == [call[c] EXCEPT !.sent = s, !.got = g, !.best = b]
  <2>1. call' = [call EXCEPT ![c] = k]
    BY <1>3 DEF Calls!RaceGoesOn
  <2>2. s \in 0..Most
    BY <1>1 DEF CallRecords
  <2>3. k \in CallRecords /\ k.kind = call[c].kind /\ k.at = "wait" /\ k.n = call[c].n /\ k.sent = s /\ k.got = g
    BY <1>1, <2>2 DEF CallRecords
  <2> HIDE DEF k
  <2> QED
    BY <2>1, <2>3, CallWaits
<1> QED
  BY <1>2, <1>3

LEMMA OneArrived ==
    ASSUME CallsInv, Calls!CallsAssumption, NEW c \in Requests, NEW i \in Pending(task[c]),
           call[c].at = "wait", call[c].kind # "get"
    PROVE  /\ call[c].got + 1 <= call[c].sent /\ call[c].got + 1 \in Nat /\ call[c].sent \in 1..call[c].n
           /\ Cardinality(Pending(task[c]) \ {i}) = call[c].sent - (call[c].got + 1)
           /\ Pending(task[c]) \ {i} \subseteq 1..call[c].sent
<1> DEFINE P == Pending(task[c])
           s == call[c].sent
           g == call[c].got
<1>1. call[c] \in CallRecords /\ Counted(call[c], P)
  BY DEF CallsInv
<1>2. call[c].n \in 0..Most /\ s \in 0..Most /\ g \in Nat /\ Most \in Nat
  BY <1>1, MostIsNatural DEF CallRecords
<1>3. P \subseteq 1..s /\ s <= call[c].n /\ Cardinality(P) = s - g /\ s > 0
  BY <1>1 DEF Counted
<1>4. i \in P
  OBVIOUS
<1> HIDE DEF P, s, g
<1>5. s \in Nat
  BY <1>2
<1>6. Cardinality(P \ {i}) = s - (g + 1) /\ g + 1 <= s /\ P \ {i} \subseteq 1..s
  BY <1>2, <1>3, <1>4, <1>5, OneReceived
<1> QED
  BY <1>2, <1>3, <1>6 DEF P, s, g

LEMMA RaceStep ==
    ASSUME CallsInv, Calls!CallsAssumption, NEW c \in Requests, NEW i \in Tasks, Calls!Race(c, i)
    PROVE  CallsInv'
<1> DEFINE t == [task[c] EXCEPT ![i] = "off"]
<1>1. /\ call[c].at = "wait" /\ call[c].kind = "stream" /\ task[c][i] \in Calls!Results(c)
      /\ Calls!Received(c, i)
  BY DEF Calls!Race, Calls!CallAt, Calls!Kind
<1>2. /\ call[c] \in CallRecords /\ Counted(call[c], Pending(task[c])) /\ i \in Pending(task[c])
      /\ task' = [task EXCEPT ![c] = t] /\ t \in TaskLists /\ Pending(t) = Pending(task[c]) \ {i}
  BY <1>1, Arrived
<1> HIDE DEF t
<1>3. /\ call[c].n \in Nat /\ call[c].sent \in Nat /\ call[c].got \in Nat /\ call[c].best \in Nat
      /\ i \in Nat /\ Most \in Nat
  BY <1>2, MostIsNatural DEF CallRecords, Tasks, Calls!Tasks
<1>4. /\ Pending(task[c]) \subseteq 1..call[c].sent /\ call[c].sent <= call[c].n
      /\ Cardinality(Pending(task[c])) = call[c].sent - call[c].got /\ call[c].sent > 0
  BY <1>1, <1>2 DEF Counted
<1>5. CASE task[c][i] = "ok" /\ Calls!Exact(c, i)
  BY <1>2, <1>3, <1>5, CallEnds DEF Calls!Race
<1>6. CASE ~(task[c][i] = "ok" /\ Calls!Exact(c, i))
  <2> DEFINE b == IF task[c][i] = "ok" THEN Calls!Better(c, i) ELSE call[c].best
  <2>1. Calls!RaceGoesOn(c, call[c].sent, call[c].got + 1, b)
    BY <1>6 DEF Calls!Race
  <2>2. b \in Nat /\ call[c].sent \in 1..call[c].n
    BY <1>3, <1>4 DEF Calls!Better
  <2> HIDE DEF b
  <2>3. /\ Cardinality(Pending(t)) = call[c].sent - (call[c].got + 1)
        /\ call[c].got + 1 <= call[c].sent /\ Pending(t) \subseteq 1..call[c].sent
    <3>1. /\ Cardinality(Pending(task[c]) \ {i}) = call[c].sent - (call[c].got + 1)
          /\ call[c].got + 1 <= call[c].sent /\ Pending(task[c]) \ {i} \subseteq 1..call[c].sent
      BY <1>1, <1>2, OneArrived
    <3> QED
      BY <1>2, <3>1
  <2>4. call[c].got + 1 \in Nat
    BY <1>3
  <2> QED
    BY <1>1, <1>2, <2>1, <2>2, <2>3, <2>4, RaceStepOn
<1> QED
  BY <1>5, <1>6

LEMMA HedgeStep ==
    ASSUME CallsInv, Calls!CallsAssumption, NEW c \in Requests, Calls!Hedge(c)
    PROVE  CallsInv'
<1> DEFINE s == Calls!Least(call[c].sent + BatchSize, call[c].n)
           t == [j \in Tasks |-> IF j \in call[c].sent + 1 .. s THEN "running" ELSE task[c][j]]
<1>1. /\ call[c].at = "wait" /\ call[c].kind = "stream" /\ call[c].sent < call[c].n
      /\ Calls!RaceGoesOn(c, s, call[c].got, call[c].best) /\ task' = [task EXCEPT ![c] = t]
  BY DEF Calls!Hedge, Calls!CallAt, Calls!Kind, Calls!Launch, Tasks
<1>2. call[c] \in CallRecords /\ task[c] \in TaskLists /\ Counted(call[c], Pending(task[c]))
  BY DEF CallsInv
<1>3. /\ call[c].n \in 0..Most /\ call[c].sent \in Nat /\ call[c].got \in Nat /\ call[c].best \in Nat
      /\ Most \in Nat
  BY <1>2, MostIsNatural DEF CallRecords
<1>4. s \in 1..call[c].n /\ call[c].sent <= s
  BY <1>1, <1>3 DEF Calls!Least, Calls!CallsAssumption
<1> HIDE DEF s
<1>5. /\ Pending(task[c]) \subseteq 1..call[c].sent /\ call[c].got <= call[c].sent
      /\ Cardinality(Pending(task[c])) = call[c].sent - call[c].got
  BY <1>1, <1>2 DEF Counted
<1>6. call[c].sent + 1 .. s \subseteq Tasks
  BY <1>3, <1>4 DEF Tasks, Calls!Tasks, Most
<1>7. t \in TaskLists /\ Pending(t) = Pending(task[c]) \cup (call[c].sent + 1 .. s)
  BY <1>2, <1>6 DEF TaskLists, Pending
<1> HIDE DEF t
<1>8. Cardinality(Pending(t)) = s - call[c].got /\ Pending(t) \subseteq 1..s
  <2>1. s \in Nat
    BY <1>3, <1>4
  <2>2. /\ Cardinality(Pending(task[c]) \cup (call[c].sent + 1 .. s)) = s - call[c].got
        /\ Pending(task[c]) \cup (call[c].sent + 1 .. s) \subseteq 1..s
    BY <1>3, <1>4, <1>5, <2>1, MoreSent
  <2> QED
    BY <1>7, <2>2
<1>9. call[c].got <= s
  BY <1>3, <1>4, <1>5
<1> QED
  BY <1>1, <1>3, <1>4, <1>7, <1>8, <1>9, RaceStepOn

LEMMA CollectStep ==
    ASSUME CallsInv, Calls!CallsAssumption, NEW c \in Requests, NEW i \in Tasks, Calls!Collect(c, i)
    PROVE  CallsInv'
<1> DEFINE t == [task[c] EXCEPT ![i] = "off"]
<1>1. /\ call[c].at = "wait" /\ call[c].kind = "gather" /\ task[c][i] \in Calls!Results(c)
  BY DEF Calls!Collect, Calls!CallAt, Calls!Kind
<1>2. /\ call[c] \in CallRecords /\ Counted(call[c], Pending(task[c])) /\ i \in Pending(task[c])
      /\ Calls!Received(c, i) => task' = [task EXCEPT ![c] = t]
      /\ t \in TaskLists /\ Pending(t) = Pending(task[c]) \ {i}
  BY <1>1, Arrived
<1> HIDE DEF t
<1>3. /\ call[c].n \in 0..Most /\ call[c].sent \in 0..Most /\ call[c].got \in Nat /\ call[c].best \in Nat
      /\ call[c].sent \in Nat /\ i \in Nat /\ i \in 1..Most /\ Most \in Nat
  BY <1>2, MostIsNatural DEF CallRecords, Tasks, Calls!Tasks, Most
<1>4. /\ Pending(task[c]) \subseteq 1..call[c].sent /\ call[c].sent <= call[c].n
      /\ Cardinality(Pending(task[c])) = call[c].sent - call[c].got /\ call[c].sent > 0
      /\ call[c].got <= call[c].sent
  BY <1>1, <1>2 DEF Counted
<1>5. /\ Cardinality(Pending(t)) = call[c].sent - (call[c].got + 1)
      /\ call[c].got + 1 <= call[c].sent /\ Pending(t) \subseteq 1..call[c].sent
  <2>1. /\ Cardinality(Pending(task[c]) \ {i}) = call[c].sent - (call[c].got + 1)
        /\ call[c].got + 1 <= call[c].sent /\ Pending(task[c]) \ {i} \subseteq 1..call[c].sent
    BY <1>1, <1>2, OneArrived
  <2> QED
    BY <1>2, <2>1
<1>6. call[c].sent \in 1..call[c].n /\ call[c].got + 1 \in Nat
  BY <1>3, <1>4
<1>7. task' = [task EXCEPT ![c] = t]
  BY <1>2 DEF Calls!Collect
<1> DEFINE b == IF task[c][i] = "ok" THEN i ELSE call[c].best
<1>8. b \in Nat
  BY <1>3
<1>9. IF call[c].got + 1 = call[c].n THEN Calls!Finish(c, IF b # 0 THEN "answered" ELSE "failed", b)
      ELSE call' = [call EXCEPT ![c].got = @ + 1, ![c].best = b]
  BY DEF Calls!Collect
<1> HIDE DEF b
<1>10. CASE call[c].got + 1 = call[c].n /\ b # 0
  BY <1>2, <1>7, <1>8, <1>9, <1>10, CallEnds
<1>11. CASE call[c].got + 1 = call[c].n /\ b = 0
  <2>1. Pending(t) = {}
    <3>1. call[c].got + 1 >= call[c].sent
      BY <1>3, <1>4, <1>11
    <3> QED
      BY <1>3, <1>5, <1>6, <3>1, AllReceived
  <2> QED
    BY <1>2, <1>7, <1>8, <1>9, <1>11, <2>1, CallEnds
<1>12. CASE call[c].got + 1 # call[c].n
  <2> DEFINE k == [call[c] EXCEPT !.got = call[c].got + 1, !.best = b]
  <2>1. call' = [call EXCEPT ![c] = k]
    BY <1>9, <1>12
  <2>2. /\ k \in CallRecords /\ k.kind = call[c].kind /\ k.at = "wait" /\ k.n = call[c].n
        /\ k.sent = call[c].sent /\ k.got = call[c].got + 1
    BY <1>1, <1>2, <1>6, <1>8 DEF CallRecords
  <2> HIDE DEF k
  <2> QED
    BY <1>1, <1>2, <1>5, <1>6, <1>7, <2>1, <2>2, CallWaits
<1> QED
  BY <1>10, <1>11, <1>12

LEMMA BatchStep ==
    ASSUME CallsInv, Calls!CallsAssumption, NEW c \in Requests, NEW i \in Tasks, Calls!Batch(c, i)
    PROVE  CallsInv'
<1> DEFINE t == [task[c] EXCEPT ![i] = "off"]
<1>1. /\ call[c].at = "wait" /\ call[c].kind = "shotgun" /\ task[c][i] \in Calls!Results(c)
  BY DEF Calls!Batch, Calls!CallAt, Calls!Kind
<1>2. /\ call[c] \in CallRecords /\ Counted(call[c], Pending(task[c])) /\ i \in Pending(task[c])
      /\ Calls!Received(c, i) => task' = [task EXCEPT ![c] = t]
      /\ t \in TaskLists /\ Pending(t) = Pending(task[c]) \ {i}
  BY <1>1, Arrived
<1> HIDE DEF t
<1>3. /\ call[c].n \in 0..Most /\ call[c].sent \in 0..Most /\ call[c].got \in Nat /\ call[c].best \in Nat
      /\ call[c].sent \in Nat /\ i \in Nat /\ i \in 1..Most /\ Most \in Nat
  BY <1>2, MostIsNatural DEF CallRecords, Tasks, Calls!Tasks, Most
<1>4. /\ Pending(task[c]) \subseteq 1..call[c].sent /\ call[c].sent <= call[c].n
      /\ Cardinality(Pending(task[c])) = call[c].sent - call[c].got /\ call[c].sent > 0
      /\ call[c].got <= call[c].sent
  BY <1>1, <1>2 DEF Counted
<1>5. /\ Cardinality(Pending(t)) = call[c].sent - (call[c].got + 1)
      /\ call[c].got + 1 <= call[c].sent /\ Pending(t) \subseteq 1..call[c].sent
  <2>1. /\ Cardinality(Pending(task[c]) \ {i}) = call[c].sent - (call[c].got + 1)
        /\ call[c].got + 1 <= call[c].sent /\ Pending(task[c]) \ {i} \subseteq 1..call[c].sent
    BY <1>1, <1>2, OneArrived
  <2> QED
    BY <1>2, <2>1
<1>6. call[c].sent \in 1..call[c].n /\ call[c].got + 1 \in Nat
  BY <1>3, <1>4
<1> DEFINE got == call[c].got + 1
           s == Calls!Least(call[c].sent + BatchSize, call[c].n)
<1>7. CASE task[c][i] = "ok"
  <2>1. Calls!Finish(c, "answered", i) /\ Calls!Received(c, i)
    BY <1>7 DEF Calls!Batch
  <2> QED
    BY <1>2, <1>3, <2>1, CallEnds
<1>8. CASE task[c][i] # "ok" /\ got < call[c].sent
  <2> DEFINE k == [call[c] EXCEPT !.got = got]
  <2>1. call' = [call EXCEPT ![c] = k] /\ Calls!Received(c, i)
    BY <1>3, <1>8 DEF Calls!Batch
  <2>2. /\ k \in CallRecords /\ k.kind = call[c].kind /\ k.at = "wait" /\ k.n = call[c].n
        /\ k.sent = call[c].sent /\ k.got = call[c].got + 1
    BY <1>1, <1>2, <1>6 DEF CallRecords
  <2> HIDE DEF k
  <2> QED
    BY <1>1, <1>2, <1>5, <1>6, <2>1, <2>2, CallWaits
<1>9. CASE task[c][i] # "ok" /\ got = call[c].sent
  <2>1. Pending(t) = {}
    BY <1>3, <1>5, <1>6, <1>9, AllReceived
  <2>2. CASE got = call[c].n
    <3>1. Calls!Finish(c, "failed", 0) /\ Calls!Received(c, i)
      BY <1>3, <1>9, <2>2 DEF Calls!Batch
    <3> QED
      BY <1>2, <2>1, <3>1, CallEnds
  <2>3. CASE got # call[c].n
    <3> DEFINE u == [j \in Tasks |-> IF j = i THEN "off" ELSE IF j \in got + 1 .. s THEN "running" ELSE task[c][j]]
               k == [call[c] EXCEPT !.got = got, !.sent = s]
    <3>1. call' = [call EXCEPT ![c] = k] /\ task' = [task EXCEPT ![c] = u]
      <4>1. ~(got < call[c].sent)
        BY <1>3, <1>9
      <4>2. /\ call' = [call EXCEPT ![c].got = got, ![c].sent = s]
            /\ task' = [task EXCEPT ![c] = [j \in Calls!Tasks |->
                           IF j = i THEN "off" ELSE IF j \in got + 1 .. s THEN "running" ELSE @[j]]]
        BY <1>9, <2>3, <4>1 DEF Calls!Batch
      <4> HIDE DEF s, got
      <4> QED
        BY <4>2 DEF Tasks
    <3>2. s \in 1..call[c].n /\ s \in 0..Most /\ got < s /\ got \in Nat
      BY <1>3, <1>4, <1>6, <1>9, <2>3 DEF Calls!Least, Calls!CallsAssumption
    <3>3. i <= got
      BY <1>2, <1>3, <1>4, <1>9
    <3> HIDE DEF s, got
    <3>4. u \in TaskLists
      BY <1>2 DEF TaskLists, CallsInv
    <3>5. Pending(u) = got + 1 .. s
      <4>1. got + 1 .. s \subseteq Tasks
        BY <1>3, <3>2 DEF Tasks, Calls!Tasks, Most
      <4>2. \A j \in Tasks : j # i => task[c][j] = "off"
        BY <1>2, <2>1 DEF Pending
      <4>3. i \notin got + 1 .. s
        BY <1>3, <3>2, <3>3
      <4> QED
        BY <4>1, <4>2, <4>3 DEF Pending
    <3>6. Cardinality(Pending(u)) = s - got /\ Pending(u) \subseteq 1..s
      <4>1. Cardinality(got + 1 .. s) = s - (got + 1) + 1
        BY <3>2, FS_Interval
      <4>2. s - (got + 1) + 1 = s - got /\ got + 1 .. s \subseteq 1..s
        BY <1>3, <3>2
      <4> HIDE DEF u
      <4> QED
        BY <3>5, <4>1, <4>2
    <3>7. /\ k \in CallRecords /\ k.kind = call[c].kind /\ k.at = "wait" /\ k.n = call[c].n
          /\ k.sent = s /\ k.got = got
      BY <1>1, <1>2, <3>2 DEF CallRecords
    <3>8. got <= s
      BY <3>2
    <3> HIDE DEF k, u
    <3> QED
      BY <1>1, <3>1, <3>2, <3>4, <3>6, <3>7, <3>8, CallWaits
  <2> QED
    BY <2>2, <2>3
<1> QED
  BY <1>7, <1>8, <1>9 DEF Calls!Batch

LEMMA RetryStep ==
    ASSUME CallsInv, Calls!CallsAssumption, NEW c \in Requests, NEW i \in Tasks, Calls!Retry(c, i)
    PROVE  CallsInv'
<1> DEFINE t == [task[c] EXCEPT ![i] = "off"]
<1>1. /\ call[c].at = "wait" /\ call[c].kind = "get" /\ task[c][i] \in Calls!Results(c)
  BY DEF Calls!Retry, Calls!CallAt, Calls!Kind
<1>2. /\ call[c] \in CallRecords /\ Counted(call[c], Pending(task[c])) /\ i \in Pending(task[c])
      /\ Calls!Received(c, i) => task' = [task EXCEPT ![c] = t]
      /\ t \in TaskLists /\ Pending(t) = Pending(task[c]) \ {i}
  BY <1>1, Arrived
<1> HIDE DEF t
<1>3. /\ call[c].n \in 0..Most /\ call[c].sent \in 0..Most /\ call[c].got \in Nat /\ call[c].best \in Nat
      /\ call[c].sent \in Nat /\ i \in Nat /\ i \in 1..Most /\ Most \in Nat
  BY <1>2, MostIsNatural DEF CallRecords, Tasks, Calls!Tasks, Most
<1>4. Pending(task[c]) \subseteq {call[c].sent} /\ call[c].sent = i /\ Pending(t) = {}
  BY <1>1, <1>2 DEF Counted
<1>5. CASE task[c][i] = "passing" /\ i < call[c].n
  <2> DEFINE u == [task[c] EXCEPT ![i] = "off", ![i + 1] = "running"]
             k == [call[c] EXCEPT !.sent = i + 1]
  <2>1. call' = [call EXCEPT ![c] = k] /\ task' = [task EXCEPT ![c] = u]
    BY <1>5 DEF Calls!Retry
  <2>2. i + 1 \in 1..call[c].n /\ i + 1 \in 0..Most /\ i + 1 \in Tasks
    BY <1>3, <1>5 DEF Tasks, Calls!Tasks, Most
  <2>3. u = [t EXCEPT ![i + 1] = "running"]
    BY DEF t
  <2>4. u \in TaskLists /\ Pending(u) \subseteq {i + 1}
    BY <1>2, <1>4, <2>2, <2>3 DEF TaskLists, Pending
  <2>5. k \in CallRecords /\ k.kind = "get" /\ k.at = "wait" /\ k.n = call[c].n /\ k.sent = i + 1
    BY <1>1, <1>2, <2>2 DEF CallRecords
  <2> HIDE DEF k, u
  <2> QED
    BY <1>1, <2>1, <2>2, <2>4, <2>5, CallWaits
<1>6. CASE ~(task[c][i] = "passing" /\ i < call[c].n)
  <2>1. /\ Calls!Received(c, i)
        /\ Calls!Finish(c, "answered", i) \/ Calls!Finish(c, "failed", 0)
    BY <1>6 DEF Calls!Retry
  <2> QED
    BY <1>2, <1>3, <1>4, <2>1, CallEnds
<1> QED
  BY <1>5, <1>6

LEMMA EarlyEndStep ==
    ASSUME CallsInv, Calls!CallsAssumption, NEW c \in Requests, Calls!GraceOver(c) \/ Calls!Leaves(c)
    PROVE  CallsInv'
<1>1. call[c] \in CallRecords /\ task[c] \in TaskLists /\ call[c].best \in Nat
  BY DEF CallsInv, CallRecords
<1>2. task' = [task EXCEPT ![c] = task[c]]
  BY DEF Calls!GraceOver, Calls!Leaves, CallsInv
<1>3. Calls!Finish(c, "answered", call[c].best) \/ Calls!Finish(c, "left", 0)
  BY DEF Calls!GraceOver, Calls!Leaves
<1> QED
  BY <1>1, <1>2, <1>3, CallEnds

LEMMA AnswerStep ==
    ASSUME CallsInv, NEW c \in Requests, NEW i \in Tasks, Calls!Answer(c, i)
    PROVE  CallsInv'
<1>1. call[c] \in CallRecords /\ task[c] \in TaskLists /\ Counted(call[c], Pending(task[c]))
  BY DEF CallsInv
<1>2. task[c][i] = "running" /\ call' = [call EXCEPT ![c] = call[c]]
  BY DEF Calls!Answer, CallsInv
<1>3. CASE Calls!Ended(c)
  <2> DEFINE t == [task[c] EXCEPT ![i] = "off"]
  <2>1. task' = [task EXCEPT ![c] = t] /\ t \in TaskLists /\ Pending(t) = Pending(task[c]) \ {i}
    BY <1>1, <1>3, Received DEF Calls!Answer
  <2>2. Counted(call[c], Pending(t))
    BY <1>1, <1>3, <2>1 DEF Counted, Calls!Ended
  <2> HIDE DEF t
  <2> QED
    BY <1>1, <1>2, <2>1, <2>2, OneCall
<1>4. CASE ~Calls!Ended(c)
  <2>1. PICK result \in {"ok", "final", "passing"} : task' = [task EXCEPT ![c][i] = result]
    BY <1>4 DEF Calls!Answer, Calls!Results
  <2> DEFINE t == [task[c] EXCEPT ![i] = result]
  <2>2. task' = [task EXCEPT ![c] = t] /\ t \in TaskLists
    BY <1>1, <2>1 DEF TaskLists
  <2>3. Pending(t) = Pending(task[c])
    BY <1>1, <1>2 DEF Pending, TaskLists
  <2> HIDE DEF t
  <2> QED
    BY <1>1, <1>2, <2>2, <2>3, OneCall
<1> QED
  BY <1>3, <1>4

LEMMA StepCalls ==
    ASSUME CallsInv, Calls!CallsAssumption, [Next]_vars
    PROVE  CallsInv'
<1>1. ASSUME UNCHANGED <<call, task>> PROVE CallsInv'
  BY <1>1 DEF CallsInv
<1>2. ASSUME NEW c \in Requests, Calls!CallGoesOn(c) PROVE CallsInv'
  <2>1. CASE Calls!FastPath(c)
    BY <2>1, FastPathStep
  <2>2. CASE Calls!Hedge(c)
    BY <2>2, HedgeStep
  <2>3. CASE Calls!GraceOver(c) \/ Calls!Leaves(c)
    BY <2>3, EarlyEndStep
  <2>4. ASSUME NEW i \in Tasks, Calls!Race(c, i) \/ Calls!Collect(c, i) \/ Calls!Batch(c, i) \/ Calls!Retry(c, i)
        PROVE  CallsInv'
    BY <2>4, RaceStep, CollectStep, BatchStep, RetryStep
  <2> QED
    BY <1>2, <2>1, <2>2, <2>3, <2>4 DEF Calls!CallGoesOn, Tasks
<1>3. ASSUME NEW c \in Requests, Calls!TasksGoOn(c) PROVE CallsInv'
  BY <1>3, AnswerStep DEF Calls!TasksGoOn, Tasks
<1>4. ASSUME NEW r \in Requests, PoolStep(r) PROVE CallsInv'
  <2>1. CASE AskMirrors(r)
    <3>1. CASE UNCHANGED <<call, task>>
      BY <1>1, <3>1
    <3>2. CASE Calls!Begin(r, CallKind(r), instances.listed)
      <4>1. CallKind(r) \in {"stream", "get", "gather", "shotgun"}
        BY <2>1 DEF AskMirrors, CallKind
      <4> QED
        BY <3>2, <4>1, BeginStep
    <3> QED
      BY <2>1, <3>1, <3>2 DEF AskMirrors
  <2>2. CASE ~AskMirrors(r)
    <3>1. UNCHANGED <<call, task>>
      BY <1>4, <2>2 DEF PoolStep, CacheHit, ListTokens, TakeToken, TakeOldToken, RenewToken, Granted, Fails,
            Refused, Report, GiveUp, MirrorsAnswer, UserToken, AskTidal
    <3> QED
      BY <1>1, <3>1
  <2> QED
    BY <2>1, <2>2
<1>5. CASE MirrorStep
  BY <1>2, <1>3, <1>5 DEF MirrorStep
<1>6. CASE \/ \E a \in Accounts : PlanChanges(a) \/ Age(a) \/ Demote(a)
           \/ \E a \in Changing : ToggleAccount(a) \/ DeleteAccount(a) \/ AddAccount(a) \/ RefreshAccount(a)
           \/ WorkerStep \/ AdminStep \/ ExpireStream \/ SetInstances \/ UNCHANGED vars
  <2>1. UNCHANGED <<call, task>>
    BY <1>6 DEF PlanChanges, Age, Demote, ToggleAccount, DeleteAccount, AddAccount, RefreshAccount,
          WorkerStep, AdminStep, RoundBegins, LockRow, Renews, AsksSubscription, TidalFails,
          WritesSubscription, ExpireStream, SetInstances, vars
  <2> QED
    BY <1>1, <2>1
<1> QED
  BY <1>4, <1>5, <1>6 DEF Next

(* client.go, the four ways to call the mirrors: a call fails only when    *)
(* every mirror it asked has failed, however many are in rotation, in      *)
(* whatever order their results are sent, received and counted.            *)
THEOREM AllAnswersCount == Spec => []NoAnswerLost
<1>1. Init => CallsInv
  <2> SUFFICES ASSUME Init PROVE CallsInv
    OBVIOUS
  <2>1. call = [c \in Requests |-> Calls!NoCall] /\ task = [c \in Requests |-> Calls!NoTasks]
    BY DEF Init, Calls!CallsInit
  <2>2. Most \in Nat
    BY MirrorsAssumption, MostIsNatural
  <2>3. Calls!NoCall \in CallRecords /\ Calls!NoTasks \in TaskLists
    BY <2>2 DEF CallRecords, TaskLists, Calls!NoCall, Calls!NoTasks, Tasks
  <2>4. Pending(Calls!NoTasks) = {}
    BY DEF Pending, Calls!NoTasks, Tasks
  <2>5. Counted(Calls!NoCall, {})
    BY DEF Counted, Calls!NoCall
  <2> QED
    BY <2>1, <2>3, <2>4, <2>5 DEF CallsInv
<1>2. CallsInv /\ [Next]_vars => CallsInv'
  BY MirrorsAssumption, StepCalls
<1>3. CallsInv => NoAnswerLost
  BY DEF CallsInv, Counted, Pending, NoAnswerLost, Calls!NoAnswerLost, Calls!CallAt, Tasks
<1> QED
  BY <1>1, <1>2, <1>3, PTL DEF Spec
=============================================================================
