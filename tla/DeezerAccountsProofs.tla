------------------------ MODULE DeezerAccountsProofs ------------------------
(***************************************************************************)
(* For any accounts and requests: what may take an account out of use, and *)
(* what may bring it back.                                                 *)
(***************************************************************************)
EXTENDS DeezerAccounts, FiniteSetTheorems, TLAPS

ReqRecords ==
    [at : Steps, want : {"lossless", "lossy"}, mutex : Requests \cup {None}, left : Nat,
     acc : Accounts \cup {None}, error : Errors]
Sessions == [pooled : BOOLEAN, active : BOOLEAN, tier : Tiers, seen : Tiers \cup {"none"}]
Lists == UNION {[S -> Tiers] : S \in SUBSET Accounts}
Verdicts == {"paid", "free", "expired", "error", "none"}
KeeperRecords ==
    [at : {"idle", "ask", "write", "list", "sync", "update", "save", "reset"}, acc : Accounts \cup {None},
     copy : Records \cup {None}, verdict : Verdicts, list : Lists]

(* The variables have their types; whoever talks to Deezer does so for an  *)
(* account, and what is written down is a plan.                            *)
RequestsTyped ==
    /\ req \in [Requests -> ReqRecords] /\ entry \in Requests \cup {None}
    /\ \A r \in Requests : req[r].at \in {"token", "media", "mark", "markRow"} => req[r].acc \in Accounts
Fits(k, x) ==
    /\ k = "worker" /\ x.at = "write" => x.acc \in Accounts /\ x.verdict # "none"
    /\ k = "admin" /\ x.at \in {"ask", "update", "save", "reset"} => x.acc \in Accounts
    /\ k = "admin" /\ x.at \in {"ask", "update", "save"} => x.copy \in Records
    /\ k = "admin" /\ x.at = "update" => x.verdict \in Tiers
KeepersTyped ==
    /\ keeper \in [Keepers -> KeeperRecords]
    /\ \A k \in Keepers : Fits(k, keeper[k])
Typed ==
    /\ service \in [Accounts -> Tiers \cup {"expired"}]
    /\ row \in [Accounts -> Records \cup {None}]
    /\ session \in [Accounts -> Sessions]
    /\ RequestsTyped /\ KeepersTyped
    /\ changes \in Nat /\ edits \in Nat

(* Before anything changes at Deezer and before the first edit, the table, *)
(* the pool and what the worker has read or heard are as at the start, and *)
(* no request holds anything against an account.                           *)
Sound(a) == Usable(a) /\ session[a].tier = "paid" /\ session[a].seen \in {"none", "paid"}
Untouched(a) ==
    /\ service[a] = "paid" /\ Sound(a)
    /\ row[a] # None /\ row[a].active /\ row[a].tier = "paid"
Calm ==
    changes = 0 /\ edits = 0 =>
        /\ \A a \in Accounts : Untouched(a)
        /\ \A r \in Requests : req[r].at \notin {"mark", "markRow"}
        /\ keeper["admin"].at = "idle"
        /\ keeper["worker"].at = "write" => keeper["worker"].verdict \in {"paid", "error"}
        /\ keeper["worker"].at = "sync" => keeper["worker"].list = [a \in Accounts |-> "paid"]
        /\ keeper["worker"].at \in {"idle", "ask", "write", "sync"}

IInv == Typed /\ Calm


-----------------------------------------------------------------------------
(* What is written to the table.                                           *)
TableTyped == row \in [Accounts -> Records \cup {None}]
Sticks(a) == row[a] # None /\ row'[a] # None /\ ~row[a].active => ~row'[a].active

LEMMA RecordParts ==
    ASSUME NEW x \in Records
    PROVE  /\ \A tier \in Tiers : [x EXCEPT !.tier = tier] \in Records /\ [x EXCEPT !.tier = tier].active = x.active
           /\ \A active \in BOOLEAN : /\ [x EXCEPT !.active = active] \in Records
                                      /\ [x EXCEPT !.active = active].active = active
BY DEF Records

LEMMA NoRowIsRecord == None \notin Records
BY DeezerAssumption DEF Records, Tiers

LEMMA DeactivateTable ==
    ASSUME TableTyped, NEW b \in Accounts, NEW degraded \in BOOLEAN, Deactivate(b, degraded)
    PROVE  TableTyped' /\ \A a \in Accounts : Sticks(a)
<1>1. CASE row[b] = None
  BY <1>1 DEF Deactivate, TableTyped, Sticks
<1>2. CASE row[b] # None
  <2>1. row[b] \in Records
    BY <1>2 DEF TableTyped
  <2> DEFINE x == [row[b] EXCEPT !.active = FALSE]
             y == [x EXCEPT !.tier = IF degraded THEN "free" ELSE x.tier]
  <2>2. x \in Records /\ x.active = FALSE
    BY <2>1, RecordParts
  <2> HIDE DEF x
  <2>3. x.tier \in Tiers /\ "free" \in Tiers
    BY <2>2 DEF Records, Tiers
  <2>4. y \in Records /\ y.active = FALSE
    BY <2>2, <2>3, RecordParts
  <2>5. row' = [row EXCEPT ![b].active = FALSE, ![b].tier = IF degraded THEN "free" ELSE @]
    BY <1>2 DEF Deactivate
  <2>6. row' = [row EXCEPT ![b] = y]
    BY <2>1, <2>5 DEF x, Records
  <2> HIDE DEF y
  <2> QED
    BY <2>4, <2>6 DEF TableTyped, Sticks
<1> QED
  BY <1>1, <1>2

LEMMA SetTierTable ==
    ASSUME TableTyped, NEW b \in Accounts, NEW tier \in Tiers, SetTier(b, tier)
    PROVE  TableTyped' /\ \A a \in Accounts : Sticks(a)
<1>1. CASE row[b] = None
  BY <1>1 DEF SetTier, TableTyped, Sticks
<1>2. CASE row[b] # None
  <2>1. row[b] \in Records
    BY <1>2 DEF TableTyped
  <2> DEFINE x == [row[b] EXCEPT !.tier = tier]
  <2>2. x \in Records /\ x.active = row[b].active
    BY <2>1, RecordParts
  <2>3. row' = [row EXCEPT ![b] = x]
    BY <1>2 DEF SetTier
  <2> HIDE DEF x
  <2> QED
    BY <2>2, <2>3 DEF TableTyped, Sticks
<1> QED
  BY <1>1, <1>2

LEMMA CountsGrow ==
    ASSUME Typed, [Next]_vars
    PROVE  changes' \in Nat /\ changes' >= changes /\ edits' \in Nat /\ edits' >= edits
<1>1. changes \in Nat /\ edits \in Nat
  BY DEF Typed
<1>2. ASSUME NEW b \in Managed, NEW plan \in {"paid", "free", "expired"}, Resubscribe(b, plan)
      PROVE  changes' = changes + 1 /\ edits' = edits
  BY <1>2 DEF Resubscribe
<1>3. ASSUME NEW b \in Managed, Elapse(b)
      PROVE  changes' = changes /\ edits' = edits
  BY <1>3 DEF Elapse, quiet
<1>4. ASSUME NEW r \in Requests, Request(r)
      PROVE  changes' = changes /\ edits' = edits
  BY <1>4 DEF Request, Proceed, Start, Enter, Lock, GiveUp, GetTrackToken, NoMediaURL, Fetch,
        GetNextAccount, MarkInPool, MarkRow, Cancelled, Unlock, Forget, others
<1>5. Worker \/ Continue => changes' = changes /\ edits' = edits
  <2>1. Worker => changes' = changes /\ edits' = edits
    BY DEF Worker, ReadRows, ValidateARL, WriteVerdict, ListActive, SyncAccounts, quiet
  <2>2. Continue => changes' = changes /\ edits' = edits
    BY DEF Continue, Revalidate, UpdatePlan, SaveCopy, ResetAccountSession, ListActive, SyncAccounts, quiet
  <2> QED
    BY <2>1, <2>2
<1>6. ASSUME NEW b \in Managed, (\E active \in BOOLEAN : Toggle(b, active)) \/ Delete(b) \/ Renew(b) \/ Load(b)
      PROVE  changes' = changes /\ edits' = edits + 1
  BY <1>6 DEF Toggle, Delete, Renew, Load, Edit, quiet
<1>7. UNCHANGED vars => changes' = changes /\ edits' = edits
  BY DEF vars
<1> QED
  BY <1>1, <1>2, <1>3, <1>4, <1>5, <1>6, <1>7 DEF Next, Deezer, Admin

LEMMA TableStep ==
    ASSUME Typed, [Next]_vars
    PROVE  /\ TableTyped' /\ changes' \in Nat /\ edits' \in Nat
           /\ edits' # edits \/ Turn("admin", "save") \/ \A a \in Accounts : Sticks(a)
<1>1. TableTyped /\ changes \in Nat /\ edits \in Nat
  BY DEF Typed, TableTyped
<1>2. ASSUME UNCHANGED <<row, edits>>
      PROVE  TableTyped' /\ edits' \in Nat /\ \A a \in Accounts : Sticks(a)
  BY <1>1, <1>2 DEF TableTyped, Sticks
<1>3. changes' \in Nat
  BY CountsGrow
<1>4. ASSUME NEW r \in Requests, Request(r)
      PROVE  TableTyped' /\ edits' \in Nat /\ \A a \in Accounts : Sticks(a)
  <2>1. CASE MarkRow(r)
    <3>1. req[r].acc \in Accounts
      BY <2>1 DEF MarkRow, At, Typed, RequestsTyped
    <3>2. (req[r].error = "degraded") \in BOOLEAN /\ Deactivate(req[r].acc, req[r].error = "degraded") /\ edits' = edits
      BY <2>1 DEF MarkRow
    <3> QED
      BY <1>1, <3>1, <3>2, DeactivateTable
  <2>2. CASE ~MarkRow(r)
    <3>1. UNCHANGED <<row, edits>>
      BY <1>4, <2>2 DEF Request, Proceed, Start, Enter, Lock, GiveUp, GetTrackToken, NoMediaURL, Fetch,
            GetNextAccount, MarkInPool, Cancelled, Unlock, Forget, others
    <3> QED
      BY <1>2, <3>1
  <2> QED
    BY <2>1, <2>2
<1>5. CASE WriteVerdict
  <2> DEFINE w == keeper["worker"]
  <2>1. w.acc \in Accounts /\ w.verdict \in Verdicts /\ w.verdict # "none"
    BY <1>5 DEF WriteVerdict, Turn, Typed, KeepersTyped, Fits, Keepers, KeeperRecords
  <2>2. \/ UNCHANGED row
        \/ Deactivate(w.acc, FALSE)
        \/ Deactivate(w.acc, TRUE)
        \/ w.verdict \in Tiers /\ SetTier(w.acc, w.verdict)
    BY <1>5, <2>1 DEF WriteVerdict, Verdicts, Tiers
  <2>3. edits' = edits
    BY <1>5 DEF WriteVerdict
  <2> QED
    BY <1>1, <1>2, <1>3, <2>1, <2>2, <2>3, DeactivateTable, SetTierTable
<1>6. CASE UpdatePlan
  <2>1. /\ keeper["admin"].acc \in Accounts /\ keeper["admin"].verdict \in Tiers
        /\ SetTier(keeper["admin"].acc, keeper["admin"].verdict) /\ edits' = edits
    BY <1>6 DEF UpdatePlan, Turn, Typed, KeepersTyped, Fits, Keepers
  <2> QED
    BY <1>1, <1>3, <2>1, SetTierTable
<1>7. CASE SaveCopy
  <2>1. keeper["admin"].copy \in Records /\ keeper["admin"].acc \in Accounts /\ edits' = edits /\ Turn("admin", "save")
    BY <1>7 DEF SaveCopy, Turn, Typed, KeepersTyped, Fits, Keepers
  <2>2. TableTyped'
    BY <1>1, <1>7, <2>1 DEF SaveCopy, TableTyped
  <2> QED
    BY <1>1, <1>3, <2>1, <2>2
<1>8. ASSUME NEW b \in Managed, NEW active \in BOOLEAN, Toggle(b, active)
      PROVE  TableTyped' /\ edits' = edits + 1
  <2>1. b \in Accounts /\ edits' = edits + 1
    BY <1>8, DeezerAssumption DEF Toggle, Edit
  <2>2. CASE row[b] = None
    BY <1>1, <1>8, <2>1, <2>2 DEF Toggle, TableTyped
  <2>3. CASE row[b] # None
    <3>1. [row[b] EXCEPT !.active = active] \in Records
      BY <1>1, <2>1, <2>3, RecordParts DEF TableTyped
    <3>2. row' = [row EXCEPT ![b] = [row[b] EXCEPT !.active = active]]
      BY <1>8, <2>3 DEF Toggle
    <3> QED
      BY <1>1, <2>1, <3>1, <3>2 DEF TableTyped
  <2> QED
    BY <2>2, <2>3
<1>9. ASSUME NEW b \in Managed, Delete(b) \/ Renew(b) \/ Load(b)
      PROVE  TableTyped' /\ edits' = edits + 1
  <2>1. CASE Delete(b)
    BY <1>1, <2>1 DEF Delete, Edit, TableTyped
  <2>2. CASE Renew(b)
    <3>1. b \in Accounts /\ service[b] \in Tiers
      BY <2>2, DeezerAssumption DEF Renew, Typed
    <3>2. [active |-> TRUE, tier |-> service[b]] \in Records
      BY <3>1 DEF Records
    <3> QED
      BY <1>1, <2>2, <3>1, <3>2 DEF Renew, Edit, TableTyped
  <2>3. CASE Load(b)
    BY <1>1, <2>3 DEF Load, TableTyped
  <2> QED
    BY <1>9, <2>1, <2>2, <2>3
<1>10. ASSUME ReadRows \/ ListActive("worker") \/ SyncAccounts("worker")
              \/ (\E a \in Accounts : \E verdict \in {service[a], "error"} : ValidateARL(a, verdict))
              \/ Revalidate \/ ResetAccountSession \/ ListActive("admin") \/ SyncAccounts("admin")
              \/ Deezer \/ UNCHANGED vars
       PROVE  UNCHANGED <<row, edits>>
  BY <1>10 DEF ReadRows, ListActive, SyncAccounts, ValidateARL, Revalidate, ResetAccountSession, Deezer,
        Elapse, Resubscribe, quiet, vars
<1>11. edits + 1 \in Nat /\ edits + 1 # edits
  BY <1>1
<1> QED
  BY <1>2, <1>3, <1>4, <1>5, <1>6, <1>7, <1>8, <1>9, <1>10, <1>11 DEF Next, Worker, Admin, Continue

-----------------------------------------------------------------------------
(* A request moves: what it becomes has the type of a request, and what it *)
(* asks Deezer about is an account.                                        *)
Asks(x) == x.at \in {"token", "media", "mark", "markRow"}

LEMMA ReqParts ==
    ASSUME NEW x \in ReqRecords
    PROVE  /\ \A step \in Steps : [x EXCEPT !.at = step] \in ReqRecords
           /\ \A want \in {"lossless", "lossy"} : [x EXCEPT !.want = want] \in ReqRecords
           /\ \A m \in Requests \cup {None} : [x EXCEPT !.mutex = m] \in ReqRecords
           /\ \A n \in Nat : [x EXCEPT !.left = n] \in ReqRecords
           /\ \A a \in Accounts \cup {None} : [x EXCEPT !.acc = a] \in ReqRecords
           /\ \A error \in Errors : [x EXCEPT !.error = error] \in ReqRecords
<1>1. \A step \in Steps : [x EXCEPT !.at = step] \in ReqRecords
  BY DEF ReqRecords
<1>2. \A want \in {"lossless", "lossy"} : [x EXCEPT !.want = want] \in ReqRecords
  BY DEF ReqRecords
<1>3. \A m \in Requests \cup {None} : [x EXCEPT !.mutex = m] \in ReqRecords
  BY DEF ReqRecords
<1>4. \A n \in Nat : [x EXCEPT !.left = n] \in ReqRecords
  BY DEF ReqRecords
<1>5. \A a \in Accounts \cup {None} : [x EXCEPT !.acc = a] \in ReqRecords
  BY DEF ReqRecords
<1>6. \A error \in Errors : [x EXCEPT !.error = error] \in ReqRecords
  BY DEF ReqRecords
<1> QED
  BY <1>1, <1>2, <1>3, <1>4, <1>5, <1>6

LEMMA RequestMoves ==
    ASSUME RequestsTyped, NEW r \in Requests, NEW x \in ReqRecords, req' = [req EXCEPT ![r] = x],
           Asks(x) => x.acc \in Accounts, entry' \in Requests \cup {None}
    PROVE  RequestsTyped'
BY DEF RequestsTyped, Asks

LEMMA AnswersOfEnsure ==
    ASSUME Typed, NEW a \in Accounts, NEW e \in Ensure(a)
    PROVE  /\ e.error \in Errors /\ e.seen \in Tiers \cup {"none"}
           /\ service[a] = "paid" => e.error \in {"none", "other"}
           /\ service[a] = "paid" /\ session[a].seen \in {"none", "paid"} => e.seen \in {"none", "paid"}
<1>1. session[a].seen \in Tiers \cup {"none"} /\ service[a] \in Tiers \cup {"expired"}
  BY DEF Typed, Sessions
<1>2. CASE session[a].seen # "none"
  BY <1>1, <1>2 DEF Ensure, Errors
<1>3. CASE session[a].seen = "none"
  BY <1>1, <1>3 DEF Ensure, Errors, Tiers
<1> QED
  BY <1>2, <1>3

(* What an answer makes of a request.                                      *)
LEMMA AfterParts ==
    ASSUME Typed, NEW r \in Requests, NEW error \in Errors, NEW step \in {"media"}, req[r].acc \in Accounts
    PROVE  /\ After(r, error, step) \in ReqRecords
           /\ Asks(After(r, error, step)) => After(r, error, step).acc \in Accounts
           /\ error \in {"none", "other"} => After(r, error, step).at \in {"media", "try"}
<1>1. req[r] \in ReqRecords
  BY DEF Typed, RequestsTyped
<1>2. CASE error = "other"
  <2>1. After(r, error, step) = [req[r] EXCEPT !.error = "none", !.acc = None, !.at = "try"]
    BY <1>2 DEF After
  <2> QED
    BY <1>1, <1>2, <2>1 DEF ReqRecords, Steps, Errors, Asks
<1>3. CASE error # "other"
  <2>1. After(r, error, step) = [req[r] EXCEPT !.error = error, !.acc = req[r].acc,
                                               !.at = IF error = "none" THEN step ELSE "mark"]
    BY <1>3 DEF After
  <2> QED
    BY <1>1, <1>3, <2>1 DEF ReqRecords, Steps, Errors, Asks
<1> QED
  BY <1>2, <1>3

LEMMA ActiveAreCounted == Cardinality(Active) \in Nat
<1>1. IsFiniteSet(Accounts) /\ Active \subseteq Accounts
  BY DeezerAssumption DEF Active
<1> QED
  BY <1>1, FS_Subset, FS_CardinalityType

(* A step of a request: nobody is blamed while all accounts are paid for.  *)
Blames(r) == req[r].at \in {"mark", "markRow"}
AllPaid == \A a \in Accounts : service[a] = "paid"

LEMMA RequestStep ==
    ASSUME Typed, NEW r \in Requests, Request(r)
    PROVE  /\ RequestsTyped'
           /\ AllPaid /\ (\A s \in Requests : ~Blames(s)) => \A s \in Requests : ~Blames(s)'
<1> DEFINE q == req[r]
           Moved(x) == /\ x \in ReqRecords /\ req' = [req EXCEPT ![r] = x]
                       /\ Asks(x) => x.acc \in Accounts
           Mild(x) == AllPaid /\ q.at \notin {"mark", "markRow"} => x.at \notin {"mark", "markRow"}
<1>1. /\ q \in ReqRecords /\ RequestsTyped /\ req \in [Requests -> ReqRecords] /\ entry \in Requests \cup {None}
      /\ Asks(q) => q.acc \in Accounts
  BY DEF Typed, RequestsTyped, Asks
<1>2. ASSUME NEW x, Moved(x), Mild(x), entry' \in Requests \cup {None}
      PROVE  RequestsTyped' /\ (AllPaid /\ (\A s \in Requests : ~Blames(s)) => \A s \in Requests : ~Blames(s)')
  <2>1. RequestsTyped'
    BY <1>1, <1>2, RequestMoves
  <2>2. req'[r] = x /\ \A s \in Requests \ {r} : req'[s] = req[s]
    BY <1>1, <1>2
  <2>3. ASSUME AllPaid, \A s \in Requests : ~Blames(s), NEW s \in Requests
        PROVE  ~Blames(s)'
    BY <1>2, <2>2, <2>3 DEF Blames
  <2> QED
    BY <2>1, <2>3
<1>3. entry' = entry \/ Enter(r) \/ Forget(r)
  BY DEF Request, Proceed, Start, Lock, GiveUp, GetTrackToken, NoMediaURL, Fetch, GetNextAccount,
        MarkInPool, MarkRow, Cancelled, Unlock, others, locks
<1>4. entry' \in Requests \cup {None}
  BY <1>1, <1>3 DEF Enter, Forget
<1>5. ASSUME NEW want \in Wants, Start(r, want)
      PROVE  \E x : Moved(x) /\ Mild(x)
  <2>1. \/ req' = [req EXCEPT ![r] = [q EXCEPT !.at = "done"]]
        \/ req' = [req EXCEPT ![r] = [q EXCEPT !.want = want, !.at = "enter"]]
    BY <1>5 DEF Start
  <2>2. want \in {"lossless", "lossy"}
    BY DeezerAssumption
  <2>3. /\ [q EXCEPT !.at = "done"] \in ReqRecords /\ [q EXCEPT !.at = "done"].at = "done"
        /\ [q EXCEPT !.want = want, !.at = "enter"] \in ReqRecords
        /\ [q EXCEPT !.want = want, !.at = "enter"].at = "enter"
    BY <1>1, <2>2 DEF ReqRecords, Steps
  <2> QED
    BY <2>1, <2>3 DEF Asks
<1>6. CASE Enter(r)
  <2>1. req' = [req EXCEPT ![r] = [q EXCEPT !.at = "lock", !.mutex = entry']]
    BY <1>6 DEF Enter
  <2>2. [q EXCEPT !.at = "lock", !.mutex = entry'] \in ReqRecords /\ [q EXCEPT !.at = "lock", !.mutex = entry'].at = "lock"
    BY <1>1, <1>4 DEF ReqRecords, Steps
  <2> QED
    BY <1>2, <1>4, <2>1, <2>2 DEF Asks
<1>7. CASE Lock(r)
  <2>1. \/ req' = [req EXCEPT ![r] = [q EXCEPT !.at = "unlock"]]
        \/ req' = [req EXCEPT ![r] = [q EXCEPT !.at = "try", !.left = Cardinality(Active)]]
    BY <1>7 DEF Lock
  <2>2. /\ [q EXCEPT !.at = "unlock"] \in ReqRecords /\ [q EXCEPT !.at = "unlock"].at = "unlock"
        /\ [q EXCEPT !.at = "try", !.left = Cardinality(Active)] \in ReqRecords
        /\ [q EXCEPT !.at = "try", !.left = Cardinality(Active)].at = "try"
    BY <1>1, ActiveAreCounted DEF ReqRecords, Steps
  <2> QED
    BY <1>2, <1>4, <2>1, <2>2 DEF Asks
<1>8. ASSUME NEW a \in Accounts, GetNextAccount(r, a)
      PROVE  \E x : Moved(x) /\ Mild(x)
  <2>1. q.left - 1 \in Nat
    BY <1>1, <1>8 DEF GetNextAccount, ReqRecords
  <2> DEFINE n == q.left - 1
             x == [q EXCEPT !.acc = a, !.left = n, !.at = "token"]
  <2>2. req' = [req EXCEPT ![r] = x]
    BY <1>1, <1>8 DEF GetNextAccount, ReqRecords
  <2>3. n \in Nat
    BY <2>1
  <2> HIDE DEF n
  <2>4. x \in ReqRecords /\ x.at = "token" /\ x.acc = a
    BY <1>1, <2>3 DEF ReqRecords, Steps
  <2> QED
    BY <2>2, <2>4 DEF Asks
<1>9. CASE GiveUp(r) \/ Unlock(r)
  <2>1. PICK step \in {"unlock", "forget"} : req' = [req EXCEPT ![r] = [q EXCEPT !.at = step]]
    BY <1>9 DEF GiveUp, Unlock, Go
  <2>2. [q EXCEPT !.at = step] \in ReqRecords /\ [q EXCEPT !.at = step].at = step
    BY <1>1 DEF ReqRecords, Steps
  <2> QED
    BY <1>2, <1>4, <2>1, <2>2 DEF Asks
<1>10. CASE GetTrackToken(r)
  <2>1. q.acc \in Accounts
    BY <1>1, <1>10 DEF GetTrackToken, At, Asks
  <2>2. PICK e \in Ensure(q.acc), refused \in BOOLEAN :
            req' = [req EXCEPT ![r] = After(r, IF e.error # "none" THEN e.error
                                               ELSE IF service[q.acc] = "expired" THEN "fatal"
                                               ELSE IF refused THEN "other" ELSE "none", "media")]
    BY <1>10 DEF GetTrackToken
  <2> DEFINE error == IF e.error # "none" THEN e.error
                      ELSE IF service[q.acc] = "expired" THEN "fatal"
                      ELSE IF refused THEN "other" ELSE "none"
             x == After(r, error, "media")
  <2>3. error \in Errors /\ (AllPaid => error \in {"none", "other"})
    BY <2>1, AnswersOfEnsure DEF Errors, AllPaid
  <2> HIDE DEF error
  <2>4. /\ x \in ReqRecords /\ (Asks(x) => x.acc \in Accounts)
        /\ error \in {"none", "other"} => x.at \in {"media", "try"}
    BY <2>1, <2>3, AfterParts
  <2>5. req' = [req EXCEPT ![r] = x]
    BY <2>2 DEF error
  <2> HIDE DEF x
  <2> QED
    BY <1>2, <1>4, <2>3, <2>4, <2>5
<1>11. CASE NoMediaURL(r)
  <2>1. q.acc \in Accounts
    BY <1>1, <1>11 DEF NoMediaURL, At, Asks
  <2>2. PICK e \in Ensure(q.acc) :
            req' = [req EXCEPT ![r] = After(r, IF e.error = "none" THEN "other" ELSE e.error, "media")]
    BY <1>11 DEF NoMediaURL
  <2> DEFINE error == IF e.error = "none" THEN "other" ELSE e.error
             x == After(r, error, "media")
  <2>3. error \in Errors /\ (AllPaid => error \in {"none", "other"})
    BY <2>1, AnswersOfEnsure DEF Errors, AllPaid
  <2> HIDE DEF error
  <2>4. /\ x \in ReqRecords /\ (Asks(x) => x.acc \in Accounts)
        /\ error \in {"none", "other"} => x.at \in {"media", "try"}
    BY <2>1, <2>3, AfterParts
  <2>5. req' = [req EXCEPT ![r] = x]
    BY <2>2 DEF error
  <2> HIDE DEF x
  <2> QED
    BY <1>2, <1>4, <2>3, <2>4, <2>5
<1>12. CASE Fetch(r) \/ Cancelled(r)
  <2>1. req' = [req EXCEPT ![r] = [q EXCEPT !.at = "unlock", !.acc = None]]
    BY <1>12 DEF Fetch, Cancelled
  <2>2. [q EXCEPT !.at = "unlock", !.acc = None] \in ReqRecords /\ [q EXCEPT !.at = "unlock", !.acc = None].at = "unlock"
    BY <1>1 DEF ReqRecords, Steps
  <2> QED
    BY <1>2, <1>4, <2>1, <2>2 DEF Asks
<1>13. CASE MarkInPool(r)
  <2>1. req' = [req EXCEPT ![r] = [q EXCEPT !.at = "markRow"]] /\ q.at = "mark" /\ q.acc \in Accounts
    BY <1>1, <1>13 DEF MarkInPool, Go, At, Asks
  <2>2. [q EXCEPT !.at = "markRow"] \in ReqRecords /\ [q EXCEPT !.at = "markRow"].acc = q.acc
    BY <1>1 DEF ReqRecords, Steps
  <2> QED
    BY <1>2, <1>4, <2>1, <2>2
<1>14. CASE MarkRow(r)
  <2>1. req' = [req EXCEPT ![r] = [q EXCEPT !.at = "try", !.acc = None, !.error = "none"]]
    BY <1>14 DEF MarkRow
  <2>2. /\ [q EXCEPT !.at = "try", !.acc = None, !.error = "none"] \in ReqRecords
        /\ [q EXCEPT !.at = "try", !.acc = None, !.error = "none"].at = "try"
    BY <1>1 DEF ReqRecords, Steps, Errors
  <2> QED
    BY <1>2, <1>4, <2>1, <2>2 DEF Asks
<1>15. CASE Forget(r)
  <2>1. req' = [req EXCEPT ![r] = [Waiting EXCEPT !.at = "done"]]
    BY <1>15 DEF Forget
  <2>2. [Waiting EXCEPT !.at = "done"] \in ReqRecords /\ [Waiting EXCEPT !.at = "done"].at = "done"
    BY DEF Waiting, ReqRecords, Steps, Errors
  <2> QED
    BY <1>2, <1>4, <2>1, <2>2 DEF Asks
<1> HIDE DEF Moved, Mild
<1> QED
  BY <1>2, <1>4, <1>5, <1>6, <1>7, <1>8, <1>9, <1>10, <1>11, <1>12, <1>13, <1>14, <1>15 DEF Request, Proceed

-----------------------------------------------------------------------------
(* What a step makes of a session: it keeps its type, and as long as       *)
(* nothing has changed, it stays in the rotation.                          *)
SessionsTyped == session \in [Accounts -> Sessions]
AllSound == \A a \in Accounts : Sound(a)
AllUntouched == \A a \in Accounts : Untouched(a)

LEMMA SessionParts ==
    ASSUME NEW x \in Sessions, NEW seen \in Tiers \cup {"none"}
    PROVE  /\ [x EXCEPT !.seen = seen] \in Sessions /\ [x EXCEPT !.pooled = FALSE] \in Sessions
           /\ [x EXCEPT !.seen = seen].pooled = x.pooled /\ [x EXCEPT !.seen = seen].active = x.active
           /\ [x EXCEPT !.seen = seen].tier = x.tier /\ [x EXCEPT !.seen = seen].seen = seen
BY DEF Sessions

LEMMA SeenChanges ==
    ASSUME SessionsTyped, NEW b \in Accounts, NEW seen \in Tiers \cup {"none"},
           session' = [session EXCEPT ![b].seen = seen]
    PROVE  SessionsTyped' /\ (AllSound /\ seen \in {"none", "paid"} => AllSound')
<1> DEFINE x == [session[b] EXCEPT !.seen = seen]
<1>1. session[b] \in Sessions /\ session' = [session EXCEPT ![b] = x]
  BY DEF SessionsTyped
<1>2. /\ x \in Sessions /\ x.pooled = session[b].pooled /\ x.active = session[b].active
      /\ x.tier = session[b].tier /\ x.seen = seen
  BY <1>1, SessionParts
<1> HIDE DEF x
<1>3. SessionsTyped'
  BY <1>1, <1>2 DEF SessionsTyped
<1>4. session'[b] = x /\ \A a \in Accounts \ {b} : session'[a] = session[a]
  BY <1>1 DEF SessionsTyped
<1>5. ASSUME AllSound, seen \in {"none", "paid"}, NEW a \in Accounts
      PROVE  Sound(a)'
  BY <1>2, <1>4, <1>5 DEF AllSound, Sound, Usable
<1> QED
  BY <1>3, <1>5 DEF AllSound

LEMMA SyncedPool ==
    ASSUME SessionsTyped, NEW list \in Lists, session' = Synced(list)
    PROVE  SessionsTyped' /\ (AllSound /\ list = [a \in Accounts |-> "paid"] => AllSound')
<1> DEFINE seen(a) == IF session[a].pooled THEN session[a].seen ELSE "none"
<1>1. list \in [DOMAIN list -> Tiers]
  BY DEF Lists
<1>2. ASSUME NEW a \in Accounts
      PROVE  session'[a] \in Sessions
  <2>1. session[a] \in Sessions /\ seen(a) \in Tiers \cup {"none"}
    BY <1>2 DEF SessionsTyped, Sessions
  <2> HIDE DEF seen
  <2>2. CASE a \in DOMAIN list
    <3>1. session'[a] = [pooled |-> TRUE, active |-> TRUE, tier |-> list[a], seen |-> seen(a)]
      BY <1>2, <2>2 DEF Synced, seen
    <3>2. list[a] \in Tiers
      BY <1>1, <2>2
    <3> QED
      BY <2>1, <3>1, <3>2 DEF Sessions
  <2>3. CASE a \notin DOMAIN list
    <3>1. session'[a] = [session[a] EXCEPT !.pooled = FALSE]
      BY <1>2, <2>3 DEF Synced
    <3> QED
      BY <2>1, <3>1, SessionParts
  <2> QED
    BY <2>2, <2>3
<1>3. SessionsTyped'
  BY <1>2 DEF SessionsTyped, Synced
<1>4. ASSUME AllSound, list = [a \in Accounts |-> "paid"], NEW a \in Accounts
      PROVE  Sound(a)'
  <2>1. session'[a] = [pooled |-> TRUE, active |-> TRUE, tier |-> "paid", seen |-> seen(a)]
    BY <1>4 DEF Synced
  <2>2. seen(a) \in {"none", "paid"}
    BY <1>4 DEF AllSound, Sound, Usable
  <2> QED
    BY <2>1, <2>2 DEF Sound, Usable
<1> QED
  BY <1>3, <1>4 DEF AllSound

LEMMA MarkedPool ==
    ASSUME Typed, NEW r \in Requests, MarkInPool(r)
    PROVE  SessionsTyped'
<1> DEFINE a == req[r].acc
           d == req[r].error = "degraded"
<1>1. a \in Accounts /\ SessionsTyped
  BY DEF MarkInPool, At, Typed, RequestsTyped, SessionsTyped
<1>2. session' = IF ~session[a].pooled THEN session
                 ELSE [session EXCEPT ![a].active = FALSE, ![a].tier = IF d THEN "free" ELSE @]
  BY DEF MarkInPool
<1> HIDE DEF a, d
<1>3. session[a] \in Sessions
  BY <1>1 DEF SessionsTyped
<1> DEFINE x == [session[a] EXCEPT !.active = FALSE, !.tier = IF d THEN "free" ELSE session[a].tier]
<1>4. x \in Sessions
  BY <1>3 DEF Sessions, Tiers
<1>5. session' = session \/ session' = [session EXCEPT ![a] = x]
  BY <1>2, <1>3 DEF Sessions
<1> HIDE DEF x
<1> QED
  BY <1>1, <1>4, <1>5 DEF SessionsTyped

LEMMA SessionStep ==
    ASSUME IInv, [Next]_vars
    PROVE  SessionsTyped' /\ (changes = 0 /\ edits = 0 => AllSound')
<1>1. SessionsTyped /\ KeepersTyped /\ (changes = 0 /\ edits = 0 => AllSound /\ AllPaid)
  BY DEF IInv, Typed, SessionsTyped, Calm, Untouched, AllSound, AllPaid
<1>2. ASSUME UNCHANGED session
      PROVE  SessionsTyped' /\ (changes = 0 /\ edits = 0 => AllSound')
  BY <1>1, <1>2 DEF SessionsTyped, AllSound, Sound, Usable
<1>3. ASSUME NEW r \in Requests, GetTrackToken(r) \/ NoMediaURL(r) \/ Fetch(r)
      PROVE  SessionsTyped' /\ (changes = 0 /\ edits = 0 => AllSound')
  <2> DEFINE a == req[r].acc
  <2>1. a \in Accounts
    BY <1>3 DEF GetTrackToken, NoMediaURL, Fetch, GetMediaURL, At, IInv, Typed, RequestsTyped
  <2>2. PICK e \in Ensure(a) : \E x : session' = [session EXCEPT ![a].seen = x] /\ x \in {e.seen, "none"}
    BY <1>3, <2>1 DEF GetTrackToken, NoMediaURL, Fetch, GetMediaURL
  <2>3. PICK seen : session' = [session EXCEPT ![a].seen = seen] /\ seen \in {e.seen, "none"}
    BY <2>2
  <2>4. seen \in Tiers \cup {"none"} /\ (changes = 0 /\ edits = 0 => seen \in {"none", "paid"})
    BY <1>1, <2>1, <2>2, <2>3, AnswersOfEnsure DEF IInv, AllSound, AllPaid, Sound
  <2> HIDE DEF a
  <2> QED
    BY <1>1, <2>1, <2>3, <2>4, SeenChanges
<1>4. ASSUME NEW r \in Requests, MarkInPool(r)
      PROVE  SessionsTyped' /\ (changes = 0 /\ edits = 0 => AllSound')
  <2>1. ~(changes = 0 /\ edits = 0)
    BY <1>4 DEF MarkInPool, At, IInv, Calm
  <2> QED
    BY <1>4, <2>1, MarkedPool DEF IInv
<1>5. ASSUME NEW k \in Keepers, SyncAccounts(k)
      PROVE  SessionsTyped' /\ (changes = 0 /\ edits = 0 => AllSound')
  <2>1. keeper[k].list \in Lists /\ session' = Synced(keeper[k].list)
    BY <1>1, <1>5 DEF SyncAccounts, KeepersTyped, KeeperRecords
  <2>2. changes = 0 /\ edits = 0 => keeper[k].list = [a \in Accounts |-> "paid"]
    BY <1>5 DEF SyncAccounts, Turn, IInv, Calm, Keepers
  <2> QED
    BY <1>1, <2>1, <2>2, SyncedPool
<1>6. CASE ResetAccountSession
  <2>1. keeper["admin"].acc \in Accounts /\ ~(changes = 0 /\ edits = 0)
    BY <1>1, <1>6 DEF ResetAccountSession, Turn, KeepersTyped, Fits, Keepers, IInv, Calm
  <2>2. session' = session \/ session' = [session EXCEPT ![keeper["admin"].acc].seen = "none"]
    BY <1>6 DEF ResetAccountSession
  <2> QED
    BY <1>1, <1>2, <2>1, <2>2, SeenChanges
<1>7. ASSUME NEW a \in Managed, Elapse(a)
      PROVE  SessionsTyped' /\ (changes = 0 /\ edits = 0 => AllSound')
  <2>1. a \in Accounts /\ session' = [session EXCEPT ![a].seen = "none"]
    BY <1>7, DeezerAssumption DEF Elapse
  <2> QED
    BY <1>1, <2>1, SeenChanges
<1>8. ASSUME NEW a \in Managed, NEW plan, Resubscribe(a, plan)
      PROVE  UNCHANGED session
  BY <1>8 DEF Resubscribe
<1>9. ASSUME NEW r \in Requests, Request(r), ~GetTrackToken(r), ~NoMediaURL(r), ~Fetch(r), ~MarkInPool(r)
      PROVE  UNCHANGED session
  BY <1>9 DEF Request, Proceed, Start, Enter, Lock, GiveUp, GetNextAccount, MarkRow, Cancelled, Unlock, Forget
<1>10. ASSUME Worker, ~SyncAccounts("worker")
       PROVE  UNCHANGED session
  BY <1>10 DEF Worker, ReadRows, ValidateARL, WriteVerdict, ListActive
<1>11. ASSUME Admin, ~SyncAccounts("admin"), ~ResetAccountSession
       PROVE  UNCHANGED session
  BY <1>11 DEF Admin, Continue, Revalidate, UpdatePlan, SaveCopy, ListActive, Toggle, Delete, Renew, Load
<1>12. UNCHANGED vars => UNCHANGED session
  BY DEF vars
<1>13. "worker" \in Keepers /\ "admin" \in Keepers
  BY DEF Keepers
<1> QED
  BY <1>2, <1>3, <1>4, <1>5, <1>6, <1>7, <1>8, <1>9, <1>10, <1>11, <1>12, <1>13 DEF Next, Deezer

-----------------------------------------------------------------------------
(* A step of the worker or the admin.                                      *)
LEMMA ListedIsList ==
    ASSUME Typed
    PROVE  Listed \in Lists /\ (AllUntouched => Listed = [a \in Accounts |-> "paid"])
<1> DEFINE S == {b \in Rows : row[b].active}
<1>1. S \in SUBSET Accounts
  BY DEF Rows
<1>2. \A a \in S : row[a].tier \in Tiers
  BY NoRowIsRecord DEF Typed, Rows, Records
<1>3. Listed = [a \in S |-> row[a].tier]
  BY DEF Listed
<1>4. ASSUME AllUntouched
      PROVE  S = Accounts
  BY <1>4 DEF AllUntouched, Untouched, Rows
<1>5. ASSUME AllUntouched
      PROVE  Listed = [a \in Accounts |-> "paid"]
  BY <1>3, <1>4, <1>5 DEF AllUntouched, Untouched
<1> HIDE DEF S
<1>6. Listed \in [S -> Tiers]
  BY <1>2, <1>3
<1> QED
  BY <1>1, <1>5, <1>6 DEF Lists

LEMMA KeeperMoves ==
    ASSUME KeepersTyped, NEW k \in Keepers, NEW x \in KeeperRecords, Fits(k, x), keeper' = [keeper EXCEPT ![k] = x]
    PROVE  KeepersTyped'
<1>1. keeper' \in [Keepers -> KeeperRecords]
  BY DEF KeepersTyped
<1>2. ASSUME NEW l \in Keepers
      PROVE  Fits(l, keeper'[l])
  BY <1>2 DEF KeepersTyped
<1> QED
  BY <1>1, <1>2 DEF KeepersTyped, Fits

LEMMA RestingKeeper ==
    ASSUME NEW at \in {"idle", "ask", "sync"}, NEW list \in Lists
    PROVE  [Resting EXCEPT !.at = at, !.list = list] \in KeeperRecords
BY DEF Resting, KeeperRecords, Verdicts

LEMMA NobodyIsList == Nobody \in Lists /\ Resting \in KeeperRecords
<1>1. Nobody \in [{} -> Tiers]
  BY DEF Nobody
<1>2. Nobody \in Lists
  BY <1>1 DEF Lists
<1> QED
  BY <1>2 DEF Resting, KeeperRecords, Verdicts

LEMMA WithoutIsList ==
    ASSUME NEW list \in Lists, NEW a
    PROVE  Without(list, a) \in Lists
<1>1. PICK S \in SUBSET Accounts : list \in [S -> Tiers]
  BY DEF Lists
<1>2. Without(list, a) \in [S \ {a} -> Tiers]
  BY <1>1 DEF Without
<1> QED
  BY <1>2 DEF Lists

LEMMA ListOrSync ==
    ASSUME Typed, NEW k \in Keepers, ListActive(k) \/ SyncAccounts(k)
    PROVE  KeepersTyped'
<1>1. KeepersTyped
  BY DEF Typed
<1>2. CASE ListActive(k)
  <2> DEFINE x == [Resting EXCEPT !.at = "sync", !.list = Listed]
  <2>1. x \in KeeperRecords /\ x.at = "sync"
    BY RestingKeeper, ListedIsList DEF Resting
  <2>2. Fits(k, x)
    BY <2>1 DEF Fits
  <2>3. keeper' = [keeper EXCEPT ![k] = x]
    BY <1>2 DEF ListActive
  <2> HIDE DEF x
  <2> QED
    BY <1>1, <2>1, <2>2, <2>3, KeeperMoves
<1>3. CASE SyncAccounts(k)
  <2>1. Resting \in KeeperRecords /\ Fits(k, Resting) /\ keeper' = [keeper EXCEPT ![k] = Resting]
    BY <1>3, NobodyIsList DEF SyncAccounts, Resting, Fits
  <2> QED
    BY <1>1, <2>1, KeeperMoves
<1> QED
  BY <1>2, <1>3

LEMMA WorkerStep ==
    ASSUME Typed, Worker
    PROVE  KeepersTyped'
<1> DEFINE w == keeper["worker"]
<1>1. KeepersTyped /\ "worker" \in Keepers /\ w \in KeeperRecords /\ w.list \in Lists
  BY DEF Typed, KeepersTyped, Keepers, KeeperRecords
<1>2. CASE ReadRows
  <2> DEFINE x == [w EXCEPT !.at = "ask", !.list = Listed]
  <2>1. x \in KeeperRecords /\ x.at = "ask"
    BY <1>1, ListedIsList DEF KeeperRecords
  <2>2. Fits("worker", x)
    BY <2>1 DEF Fits
  <2>3. keeper' = [keeper EXCEPT !["worker"] = x]
    BY <1>1, <1>2 DEF ReadRows, KeeperRecords
  <2> HIDE DEF x
  <2> QED
    BY <1>1, <2>1, <2>2, <2>3, KeeperMoves
<1>3. ASSUME NEW a \in Accounts, NEW verdict \in {service[a], "error"}, ValidateARL(a, verdict)
      PROVE  KeepersTyped'
  <2> DEFINE x == [w EXCEPT !.at = "write", !.acc = a, !.verdict = verdict]
  <2>1. verdict \in Verdicts /\ verdict # "none"
    BY DEF Typed, Tiers, Verdicts
  <2>2. x \in KeeperRecords /\ x.at = "write" /\ x.acc = a /\ x.verdict = verdict
    BY <1>1, <2>1 DEF KeeperRecords
  <2>3. Fits("worker", x)
    BY <2>1, <2>2 DEF Fits
  <2>4. keeper' = [keeper EXCEPT !["worker"].at = "write", !["worker"].acc = a, !["worker"].verdict = verdict]
    BY <1>3 DEF ValidateARL
  <2>5. keeper' = [keeper EXCEPT !["worker"] = x]
    BY <1>1, <2>4 DEF KeeperRecords
  <2> HIDE DEF x
  <2> QED
    BY <1>1, <2>2, <2>3, <2>5, KeeperMoves
<1>4. CASE WriteVerdict
  <2> DEFINE list == Without(w.list, w.acc)
             x == [Resting EXCEPT !.at = "ask", !.list = list]
  <2>1. list \in Lists
    BY <1>1, WithoutIsList
  <2>2. keeper' = [keeper EXCEPT !["worker"] = x]
    BY <1>4 DEF WriteVerdict
  <2> HIDE DEF list
  <2>3. x \in KeeperRecords /\ x.at = "ask"
    BY <2>1, RestingKeeper DEF Resting
  <2>4. Fits("worker", x)
    BY <2>3 DEF Fits
  <2> HIDE DEF x
  <2> QED
    BY <1>1, <2>2, <2>3, <2>4, KeeperMoves
<1> QED
  BY <1>1, <1>2, <1>3, <1>4, ListOrSync DEF Worker

LEMMA AdminStep ==
    ASSUME Typed, Admin
    PROVE  KeepersTyped'
<1> DEFINE w == keeper["admin"]
<1>1. KeepersTyped /\ "admin" \in Keepers /\ w \in KeeperRecords /\ Fits("admin", w)
  BY DEF Typed, KeepersTyped, Keepers
<1>2. ASSUME NEW x \in KeeperRecords, Fits("admin", x), keeper' = [keeper EXCEPT !["admin"] = x]
      PROVE  KeepersTyped'
  BY <1>1, <1>2, KeeperMoves
<1>3. ASSUME NEW a \in Managed, NEW step \in {"list", "reset"}, Edit(step, a)
      PROVE  KeepersTyped'
  <2> DEFINE x == [w EXCEPT !.at = step, !.acc = a]
  <2>1. a \in Accounts
    BY DeezerAssumption
  <2>2. x \in KeeperRecords /\ x.at = step /\ x.acc = a
    BY <1>1, <2>1 DEF KeeperRecords
  <2>3. keeper' = [keeper EXCEPT !["admin"] = x]
    BY <1>1, <1>3 DEF Edit, KeeperRecords
  <2>4. Fits("admin", x)
    BY <2>1, <2>2 DEF Fits
  <2> HIDE DEF x
  <2> QED
    BY <1>2, <2>2, <2>3, <2>4
<1>4. ASSUME NEW a \in Managed, (\E active \in BOOLEAN : Toggle(a, active)) \/ Delete(a) \/ Renew(a)
      PROVE  KeepersTyped'
  BY <1>3, <1>4 DEF Toggle, Delete, Renew
<1>5. ASSUME NEW a \in Managed, Load(a)
      PROVE  KeepersTyped'
  <2> DEFINE copy == row[a]
             x == [w EXCEPT !.at = "ask", !.acc = a, !.copy = copy]
  <2>1. a \in Accounts /\ copy \in Records
    BY <1>5, DeezerAssumption DEF Load, Typed
  <2>2. keeper' = [keeper EXCEPT !["admin"] = x]
    BY <1>1, <1>5 DEF Load, KeeperRecords
  <2> HIDE DEF copy
  <2>3. x \in KeeperRecords /\ x.at = "ask" /\ x.acc = a /\ x.copy = copy
    BY <1>1, <2>1 DEF KeeperRecords
  <2>4. Fits("admin", x)
    BY <2>1, <2>3 DEF Fits
  <2> HIDE DEF x
  <2> QED
    BY <1>2, <2>2, <2>3, <2>4
<1>6. CASE Revalidate
  <2>1. w.acc \in Accounts /\ w.copy \in Records
    BY <1>1, <1>6 DEF Revalidate, Turn, Fits
  <2>2. CASE service[w.acc] = "expired"
    <3>1. Resting \in KeeperRecords /\ Fits("admin", Resting)
      BY NobodyIsList DEF Resting, Fits
    <3>2. keeper' = [keeper EXCEPT !["admin"] = Resting]
      BY <1>6, <2>2 DEF Revalidate
    <3> QED
      BY <1>2, <3>1, <3>2
  <2>3. CASE service[w.acc] # "expired"
    <3> DEFINE plan == service[w.acc]
               x == [w EXCEPT !.at = "update", !.verdict = plan]
    <3>1. plan \in Tiers
      BY <2>1, <2>3 DEF Typed
    <3>2. keeper' = [keeper EXCEPT !["admin"] = x]
      BY <1>1, <1>6, <2>3 DEF Revalidate, KeeperRecords
    <3> HIDE DEF plan
    <3>3. x \in KeeperRecords /\ x.at = "update" /\ x.acc = w.acc /\ x.copy = w.copy /\ x.verdict = plan
      BY <1>1, <3>1 DEF KeeperRecords, Verdicts, Tiers
    <3>4. Fits("admin", x)
      BY <2>1, <3>1, <3>3 DEF Fits
    <3> HIDE DEF x
    <3> QED
      BY <1>2, <3>2, <3>3, <3>4
  <2> QED
    BY <2>2, <2>3
<1>7. CASE UpdatePlan
  <2>1. w.acc \in Accounts /\ w.copy \in Records
    BY <1>1, <1>7 DEF UpdatePlan, Turn, Fits
  <2> DEFINE x == [w EXCEPT !.at = "save"]
             acc == w.acc
             y == [Resting EXCEPT !.at = "reset", !.acc = acc]
  <2>2. keeper' = [keeper EXCEPT !["admin"] = x] \/ keeper' = [keeper EXCEPT !["admin"] = y]
    BY <1>1, <1>7 DEF UpdatePlan, KeeperRecords
  <2>3. x \in KeeperRecords /\ x.at = "save" /\ x.acc = w.acc /\ x.copy = w.copy
    BY <1>1 DEF KeeperRecords
  <2>4. acc \in Accounts
    BY <2>1
  <2> HIDE DEF acc
  <2>5. y \in KeeperRecords /\ y.at = "reset" /\ y.acc = acc
    BY <2>4, NobodyIsList DEF Resting, KeeperRecords
  <2>6. Fits("admin", x) /\ Fits("admin", y)
    BY <2>1, <2>3, <2>4, <2>5 DEF Fits
  <2> HIDE DEF x, y
  <2> QED
    BY <1>2, <2>2, <2>3, <2>5, <2>6
<1>8. CASE SaveCopy
  <2> DEFINE x == [w EXCEPT !.at = "reset"]
  <2>1. x \in KeeperRecords /\ x.at = "reset" /\ x.acc = w.acc /\ w.acc \in Accounts
    BY <1>1, <1>8 DEF SaveCopy, Turn, Fits, KeeperRecords
  <2>2. Fits("admin", x)
    BY <2>1 DEF Fits
  <2>3. keeper' = [keeper EXCEPT !["admin"] = x]
    BY <1>1, <1>8 DEF SaveCopy, KeeperRecords
  <2> HIDE DEF x
  <2> QED
    BY <1>2, <2>1, <2>2, <2>3
<1>9. CASE ResetAccountSession
  <2> DEFINE x == [Resting EXCEPT !.at = "list"]
  <2>1. x \in KeeperRecords /\ x.at = "list"
    BY NobodyIsList DEF Resting, KeeperRecords
  <2>2. Fits("admin", x)
    BY <2>1 DEF Fits
  <2>3. keeper' = [keeper EXCEPT !["admin"] = x]
    BY <1>9 DEF ResetAccountSession
  <2> HIDE DEF x
  <2> QED
    BY <1>2, <2>1, <2>2, <2>3
<1> QED
  BY <1>1, <1>4, <1>5, <1>6, <1>7, <1>8, <1>9, ListOrSync DEF Admin, Continue

-----------------------------------------------------------------------------
(* The invariant, and what follows from it.                                *)
LEMMA TypedStep ==
    ASSUME IInv, [Next]_vars
    PROVE  Typed'
<1>1. Typed /\ SessionsTyped' /\ TableTyped' /\ changes' \in Nat /\ edits' \in Nat
  BY SessionStep, TableStep DEF IInv
<1>2. service' \in [Accounts -> Tiers \cup {"expired"}]
  <2>1. ASSUME NEW b \in Managed, NEW plan \in {"paid", "free", "expired"}, Resubscribe(b, plan)
        PROVE  service' \in [Accounts -> Tiers \cup {"expired"}]
    BY <1>1, <2>1 DEF Resubscribe, Typed, Tiers
  <2>2. ASSUME NEW r \in Requests, Request(r)
        PROVE  service' = service
    BY <2>2 DEF Request, Proceed, Start, Enter, Lock, GiveUp, GetTrackToken, NoMediaURL, Fetch,
          GetNextAccount, MarkInPool, MarkRow, Cancelled, Unlock, Forget, others
  <2>3. Worker => service' = service
    BY DEF Worker, ReadRows, ValidateARL, WriteVerdict, ListActive, SyncAccounts, quiet
  <2>4. Admin => service' = service
    BY DEF Admin, Continue, Revalidate, UpdatePlan, SaveCopy, ListActive, SyncAccounts, ResetAccountSession,
          Toggle, Delete, Renew, Load, quiet
  <2>5. \A b \in Managed : Elapse(b) => service' = service
    BY DEF Elapse, quiet
  <2>6. UNCHANGED vars => service' = service
    BY DEF vars
  <2> QED
    BY <1>1, <2>1, <2>2, <2>3, <2>4, <2>5, <2>6 DEF Next, Deezer, Typed
<1>3. RequestsTyped'
  <2>1. ASSUME UNCHANGED <<req, entry>>
        PROVE  RequestsTyped'
    BY <1>1, <2>1 DEF Typed, RequestsTyped
  <2>2. Worker => UNCHANGED <<req, entry>>
    BY DEF Worker, ReadRows, ValidateARL, WriteVerdict, ListActive, SyncAccounts, quiet, locks
  <2>3. Admin => UNCHANGED <<req, entry>>
    BY DEF Admin, Continue, Revalidate, UpdatePlan, SaveCopy, ListActive, SyncAccounts, ResetAccountSession,
          Toggle, Delete, Renew, Load, quiet, locks
  <2>4. Deezer => UNCHANGED <<req, entry>>
    BY DEF Deezer, Elapse, Resubscribe, quiet, locks
  <2>5. UNCHANGED vars => UNCHANGED <<req, entry>>
    BY DEF vars, locks
  <2> QED
    BY <1>1, <2>1, <2>2, <2>3, <2>4, <2>5, RequestStep DEF Next
<1>4. KeepersTyped'
  <2>1. ASSUME UNCHANGED keeper
        PROVE  KeepersTyped'
    BY <1>1, <2>1 DEF Typed, KeepersTyped, Fits
  <2>2. ASSUME NEW r \in Requests, Request(r)
        PROVE  UNCHANGED keeper
    BY <2>2 DEF Request, Proceed, Start, Enter, Lock, GiveUp, GetTrackToken, NoMediaURL, Fetch,
          GetNextAccount, MarkInPool, MarkRow, Cancelled, Unlock, Forget, others
  <2>3. Deezer => UNCHANGED keeper
    BY DEF Deezer, Elapse, Resubscribe
  <2>4. UNCHANGED vars => UNCHANGED keeper
    BY DEF vars
  <2> QED
    BY <1>1, <2>1, <2>2, <2>3, <2>4, WorkerStep, AdminStep DEF Next
<1> QED
  BY <1>1, <1>2, <1>3, <1>4 DEF Typed, SessionsTyped, TableTyped

LEMMA CalmStep ==
    ASSUME IInv, [Next]_vars
    PROVE  Calm'
<1> SUFFICES ASSUME changes' = 0, edits' = 0
             PROVE  /\ (\A a \in Accounts : Untouched(a))'
                    /\ (\A r \in Requests : req[r].at \notin {"mark", "markRow"})'
                    /\ (keeper["admin"].at = "idle")'
                    /\ (keeper["worker"].at = "write" => keeper["worker"].verdict \in {"paid", "error"})'
                    /\ (keeper["worker"].at = "sync" => keeper["worker"].list = [a \in Accounts |-> "paid"])'
                    /\ (keeper["worker"].at \in {"idle", "ask", "write", "sync"})'
  BY DEF Calm
<1>1. changes = 0 /\ edits = 0 /\ Typed
  BY CountsGrow DEF IInv, Typed
<1>2. /\ AllUntouched /\ AllSound /\ AllPaid
      /\ \A r \in Requests : ~Blames(r)
      /\ keeper["admin"].at = "idle"
      /\ keeper["worker"].at = "write" => keeper["worker"].verdict \in {"paid", "error"}
      /\ keeper["worker"].at = "sync" => keeper["worker"].list = [a \in Accounts |-> "paid"]
      /\ keeper["worker"].at \in {"idle", "ask", "write", "sync"}
  BY <1>1 DEF IInv, Calm, Untouched, AllUntouched, AllSound, AllPaid, Blames
<1>3. ~Admin
  <2>1. ~Continue
    BY <1>2 DEF Continue, Revalidate, UpdatePlan, SaveCopy, ResetAccountSession, ListActive, SyncAccounts, Turn
  <2>2. ASSUME NEW b \in Managed, (\E active \in BOOLEAN : Toggle(b, active)) \/ Delete(b) \/ Renew(b) \/ Load(b)
        PROVE  edits' = 1
    BY <1>1, <2>2 DEF Toggle, Delete, Renew, Load, Edit
  <2> QED
    BY <2>1, <2>2 DEF Admin
<1>4. \A b \in Managed : \A plan : ~Resubscribe(b, plan)
  BY <1>1 DEF Resubscribe
<1>5. (\E r \in Requests : Request(r)) \/ Worker \/ (\E b \in Managed : Elapse(b)) \/ UNCHANGED vars
  BY <1>3, <1>4 DEF Next, Deezer
<1>6. AllSound'
  BY <1>1, SessionStep
<1>7. UNCHANGED service
  <2>1. ASSUME NEW r \in Requests, Request(r)
        PROVE  UNCHANGED service
    BY <2>1 DEF Request, Proceed, Start, Enter, Lock, GiveUp, GetTrackToken, NoMediaURL, Fetch,
          GetNextAccount, MarkInPool, MarkRow, Cancelled, Unlock, Forget, others
  <2>2. Worker => UNCHANGED service
    BY DEF Worker, ReadRows, ValidateARL, WriteVerdict, ListActive, SyncAccounts, quiet
  <2> QED
    BY <1>5, <2>1, <2>2 DEF Elapse, quiet, vars
<1>8. ASSUME NEW a \in Accounts
      PROVE  (row[a] # None /\ row[a].active /\ row[a].tier = "paid")'
  <2>1. row[a] # None /\ row[a] \in Records /\ row[a].active /\ row[a].tier = "paid"
    BY <1>1, <1>2 DEF AllUntouched, Untouched, Typed
  <2>2. ASSUME NEW r \in Requests, Request(r)
        PROVE  UNCHANGED row
    BY <1>2, <2>2 DEF Request, Proceed, Start, Enter, Lock, GiveUp, GetTrackToken, NoMediaURL, Fetch,
          GetNextAccount, MarkInPool, MarkRow, At, Blames, Cancelled, Unlock, Forget, others
  <2>3. Worker => UNCHANGED row \/ WriteVerdict
    BY DEF Worker, ReadRows, ValidateARL, ListActive, SyncAccounts
  <2>4. CASE WriteVerdict
    <3> DEFINE b == keeper["worker"].acc
    <3>1. UNCHANGED row \/ SetTier(b, "paid")
      BY <1>2, <2>4 DEF WriteVerdict, Turn
    <3>2. b \in Accounts
      BY <1>1, <2>4 DEF WriteVerdict, Turn, Typed, KeepersTyped, Fits, Keepers
    <3> HIDE DEF b
    <3>3. CASE SetTier(b, "paid") /\ row[b] # None
      <4>1. row[b] \in Records
        BY <1>1, <3>2, <3>3 DEF Typed
      <4> DEFINE x == [row[b] EXCEPT !.tier = "paid"]
      <4>2. row' = [row EXCEPT ![b] = x]
        BY <3>3 DEF SetTier
      <4>3. x \in Records /\ x.tier = "paid" /\ x.active = row[b].active
        BY <4>1 DEF Records, Tiers
      <4> HIDE DEF x
      <4>4. a = b \/ row'[a] = row[a]
        BY <1>1, <4>2 DEF Typed
      <4>5. CASE a = b
        <5>1. row'[a] = x
          BY <1>1, <4>2, <4>5 DEF Typed
        <5> QED
          BY <2>1, <4>3, <4>5, <5>1, NoRowIsRecord
      <4> QED
        BY <2>1, <4>4, <4>5
    <3>4. CASE SetTier(b, "paid") /\ row[b] = None
      BY <2>1, <3>4 DEF SetTier
    <3> QED
      BY <2>1, <3>1, <3>3, <3>4
  <2> QED
    BY <1>5, <2>1, <2>2, <2>3, <2>4 DEF Elapse, vars
<1>9. (\A a \in Accounts : Untouched(a))'
  BY <1>2, <1>6, <1>7, <1>8 DEF AllPaid, AllSound, Untouched
<1>10. \A r \in Requests : ~Blames(r)'
  <2>1. (\E r \in Requests : Request(r)) => \A r \in Requests : ~Blames(r)'
    BY <1>1, <1>2, RequestStep
  <2>2. ASSUME UNCHANGED req
        PROVE  \A r \in Requests : ~Blames(r)'
    BY <1>2, <2>2 DEF Blames
  <2>3. Worker => UNCHANGED req
    BY DEF Worker, ReadRows, ValidateARL, WriteVerdict, ListActive, SyncAccounts, quiet
  <2> QED
    BY <1>5, <2>1, <2>2, <2>3 DEF Elapse, quiet, vars
<1>11. /\ (keeper["admin"].at = "idle")'
       /\ (keeper["worker"].at = "write" => keeper["worker"].verdict \in {"paid", "error"})'
       /\ (keeper["worker"].at = "sync" => keeper["worker"].list = [a \in Accounts |-> "paid"])'
       /\ (keeper["worker"].at \in {"idle", "ask", "write", "sync"})'
  <2> DEFINE w == keeper["worker"]
             Good(x) == /\ x.at = "write" => x.verdict \in {"paid", "error"}
                        /\ x.at = "sync" => x.list = [a \in Accounts |-> "paid"]
                        /\ x.at \in {"idle", "ask", "write", "sync"}
  <2>1. keeper \in [Keepers -> KeeperRecords] /\ w \in KeeperRecords
    BY <1>1 DEF Typed, KeepersTyped, Keepers
  <2>2. UNCHANGED keeper => keeper' = [keeper EXCEPT !["worker"] = w] /\ Good(w)
    BY <1>2, <2>1
  <2>3. ASSUME NEW r \in Requests, Request(r)
        PROVE  UNCHANGED keeper
    BY <2>3 DEF Request, Proceed, Start, Enter, Lock, GiveUp, GetTrackToken, NoMediaURL, Fetch,
          GetNextAccount, MarkInPool, MarkRow, Cancelled, Unlock, Forget, others
  <2>4. ASSUME ReadRows
        PROVE  \E x : keeper' = [keeper EXCEPT !["worker"] = x] /\ Good(x)
    <3>1. keeper' = [keeper EXCEPT !["worker"].at = "ask", !["worker"].list = Listed]
      BY <2>4 DEF ReadRows
    <3> DEFINE x == [w EXCEPT !.at = "ask", !.list = Listed]
    <3>2. keeper' = [keeper EXCEPT !["worker"] = x]
      BY <2>1, <3>1 DEF KeeperRecords
    <3>3. x.at = "ask"
      BY <2>1 DEF KeeperRecords
    <3> QED
      BY <3>2, <3>3
  <2>5. ASSUME NEW a \in Accounts, NEW verdict \in {service[a], "error"}, ValidateARL(a, verdict)
        PROVE  \E x : keeper' = [keeper EXCEPT !["worker"] = x] /\ Good(x)
    <3>1. keeper' = [keeper EXCEPT !["worker"].at = "write", !["worker"].acc = a, !["worker"].verdict = verdict]
      BY <2>5 DEF ValidateARL
    <3> DEFINE x == [w EXCEPT !.at = "write", !.acc = a, !.verdict = verdict]
    <3>2. keeper' = [keeper EXCEPT !["worker"] = x]
      BY <2>1, <3>1 DEF KeeperRecords
    <3>3. x.at = "write" /\ x.verdict = verdict /\ verdict \in {"paid", "error"}
      BY <1>2, <2>1 DEF KeeperRecords, AllPaid
    <3> QED
      BY <3>2, <3>3
  <2>6. ASSUME WriteVerdict
        PROVE  \E x : keeper' = [keeper EXCEPT !["worker"] = x] /\ Good(x)
    <3> DEFINE list == Without(w.list, w.acc)
               x == [Resting EXCEPT !.at = "ask", !.list = list]
    <3>1. keeper' = [keeper EXCEPT !["worker"] = x]
      BY <2>6 DEF WriteVerdict
    <3> HIDE DEF list
    <3>2. x.at = "ask"
      BY DEF Resting
    <3> QED
      BY <3>1, <3>2
  <2>7. ASSUME ListActive("worker")
        PROVE  \E x : keeper' = [keeper EXCEPT !["worker"] = x] /\ Good(x)
    <3> DEFINE list == Listed
               x == [Resting EXCEPT !.at = "sync", !.list = list]
    <3>1. keeper' = [keeper EXCEPT !["worker"] = x]
      BY <2>7 DEF ListActive
    <3>2. list = [a \in Accounts |-> "paid"]
      BY <1>1, <1>2, ListedIsList
    <3> HIDE DEF list
    <3>3. x.at = "sync" /\ x.list = list
      BY DEF Resting
    <3> QED
      BY <3>1, <3>2, <3>3
  <2>8. ASSUME SyncAccounts("worker")
        PROVE  \E x : keeper' = [keeper EXCEPT !["worker"] = x] /\ Good(x)
    <3>1. keeper' = [keeper EXCEPT !["worker"] = Resting] /\ Resting.at = "idle"
      BY <2>8 DEF SyncAccounts, Resting
    <3> QED
      BY <3>1
  <2>9. \E x : keeper' = [keeper EXCEPT !["worker"] = x] /\ Good(x)
    BY <1>5, <2>2, <2>3, <2>4, <2>5, <2>6, <2>7, <2>8 DEF Worker, Elapse, vars
  <2>10. PICK x : keeper' = [keeper EXCEPT !["worker"] = x] /\ Good(x)
    BY <2>9
  <2>11. keeper'["worker"] = x /\ keeper'["admin"] = keeper["admin"]
    BY <2>1, <2>10 DEF Keepers
  <2> QED
    BY <1>2, <2>10, <2>11
<1> QED
  BY <1>9, <1>10, <1>11 DEF Blames

(* The row of an account at the start.                                     *)
Fresh == [active |-> TRUE, tier |-> "paid"]

LEMMA Initially == Init => IInv
<1> SUFFICES ASSUME Init
             PROVE  IInv
  OBVIOUS
<1>1. Fresh \in Records /\ Fresh.active /\ Fresh.tier = "paid" /\ Fresh # None
  <2>1. Fresh \in Records /\ Fresh.active /\ Fresh.tier = "paid"
    BY DEF Fresh, Records, Tiers
  <2> QED
    BY <2>1, NoRowIsRecord
<1>2. row = [a \in Accounts |-> Fresh]
  BY DEF Init, Fresh
<1> DEFINE s0 == [pooled |-> TRUE, active |-> TRUE, tier |-> "paid", seen |-> "none"]
<1>3. s0 \in Sessions /\ s0.pooled /\ s0.active /\ s0.tier = "paid" /\ s0.seen = "none"
  BY DEF Sessions, Tiers
<1>4. session = [a \in Accounts |-> s0]
  BY DEF Init
<1> HIDE DEF s0
<1>5. Waiting \in ReqRecords /\ Waiting.at = "start"
  BY DEF Waiting, ReqRecords, Steps, Errors
<1>6. Resting \in KeeperRecords /\ Resting.at = "idle"
  BY NobodyIsList DEF Resting
<1>7. RequestsTyped
  BY <1>5 DEF Init, RequestsTyped
<1>8. KeepersTyped
  BY <1>6 DEF Init, KeepersTyped, Fits
<1>9. Typed
  BY <1>1, <1>2, <1>3, <1>4, <1>7, <1>8 DEF Init, Typed, Tiers
<1>10. \A a \in Accounts : Untouched(a)
  BY <1>1, <1>2, <1>3, <1>4 DEF Init, Untouched, Sound, Usable
<1>11. Calm
  BY <1>5, <1>6, <1>10 DEF Init, Calm, Keepers
<1> QED
  BY <1>9, <1>11 DEF IInv

LEMMA Invariance == Spec => []IInv
<1>1. IInv /\ [Next]_vars => IInv'
  BY TypedStep, CalmStep DEF IInv
<1> QED
  BY <1>1, Initially, PTL DEF Spec

(* As long as Deezer and the admin have left all accounts alone, all of    *)
(* them are used: whatever calls fail and however requests, their          *)
(* cancellations and the worker's rounds interleave (client.go:441,        *)
(* account.go:214, worker.go:66).                                          *)
THEOREM HealthyAccountsAreKept == Spec => []HealthyAccountsStay
<1>1. IInv => HealthyAccountsStay
  BY DEF IInv, Calm, Untouched, Sound, HealthyAccountsStay
<1> QED
  BY <1>1, Invariance, PTL

(* A row that is inactive is made active by an edit of the admin only: no  *)
(* request and no round of the worker does it, whatever they had read      *)
(* (worker.go:66, account.go:214).                                         *)
THEOREM DeactivationHolds == Spec => DeactivationSticks
<1>1. IInv /\ [Next]_vars =>
          [\A a \in Accounts : row[a] # None /\ row'[a] # None /\ ~row[a].active /\ row'[a].active
              => edits' # edits \/ Turn("admin", "save")]_vars
  BY TableStep DEF IInv, Sticks
<1> QED
  BY <1>1, Invariance, PTL DEF Spec, DeactivationSticks
=============================================================================
