--------------------------- MODULE SubsonicProofs ---------------------------
(***************************************************************************)
(* For all users, requests and plans of the library: the cached copy of a  *)
(* user's rows is current outside of a write and of a reading that a write *)
(* overlapped, a scrobble that was answered is in the library, the starred *)
(* list has all it owes, and who enumerates the library gets all of it.    *)
(* A search merges the best of what came.  For all providers and starts: a *)
(* lossy source is the last resort, and a switched-off provider is not     *)
(* asked.  For all pages of YouTube's: lists of tracks are in order, and a *)
(* match is the closest result that can be trusted.                        *)
(*                                                                         *)
(* The copy is stored from what a request read table by table, so the      *)
(* invariant follows that reading: a table that was read says what the     *)
(* database says, unless somebody wrote and has not deleted the copy yet,  *)
(* or deleted it while the request was reading.                            *)
(*                                                                         *)
(* Merges and matches are recursive functions along a list: that such a    *)
(* function exists, and that what holds at the beginning and passes on     *)
(* holds to the end, is proved from the well-foundedness of the numbers.   *)
(***************************************************************************)
EXTENDS Subsonic, FiniteSetTheorems, SequenceTheorems, WellFoundedInduction, TLAPS

Fields == {"at", "read", "due", "given"}

(* One row for each user or request.                                       *)
Typed ==
    /\ plan \in Plans
    /\ DOMAIN stars = Users /\ DOMAIN ratings = Users /\ DOMAIN plays = Users /\ DOMAIN prefs = Users
    /\ DOMAIN fill = Requests /\ DOMAIN job = Requests
    /\ \A r \in Requests : DOMAIN job[r] = Fields

-----------------------------------------------------------------------------
(* The invariant                                                           *)

(* What a request that fills the entry has read by then.                   *)
Tables(step) ==
    CASE step = "ratings" -> {"stars"}
      [] step = "plays" -> {"stars", "ratings"}
      [] step = "store" -> {"stars", "ratings", "plays"}
      [] OTHER -> {}
PartOf(rows, step) == [table \in Tables(step) |-> rows[table]]

Overtaken(u) == u \in overlapped \/ \E r \in Requests : User(r) = u /\ Wrote(r)

FillsAreCurrent ==
    \A r \in Requests :
        /\ ~ Filling(r) => fill[r] = Empty
        /\ Filling(r) => \/ fill[r] = PartOf(Snapshot(User(r)), job[r].at)
                         \/ Overtaken(User(r))

CopiesAreCurrent == \A u \in Users : prefs[u] \in {NoOne, Snapshot(u)} \/ Overtaken(u)

Playing == {"play", "play with album", "save", "save, then album", "album", "save album"}
Saved == {"album", "save album", "invalidate", "done"}

(* The steps that only one kind of request takes.                          *)
Fits(r, step) ==
    /\ step \in Playing => Op(r, "scrobble")
    /\ step = "naming" => Op(r, "star")
    /\ step \in {"albums", "artists"} => Op(r, "starred")

OwnSteps ==
    \A r \in Requests :
        /\ Fits(r, job[r].at)
        /\ job[r].at \in {"save", "save, then album"} => job[r].read \in Nat

PlaysCount == \A u \in Users : \A t \in DOMAIN plays[u] : plays[u][t] \in Nat \ {0}

ScrobblesSaved ==
    \A r \in Requests : Op(r, "scrobble") /\ job[r].at \in Saved => That(r) \in DOMAIN plays[User(r)]

ListedAreGiven == \A r \in Requests : Op(r, "starred") => job[r].due \subseteq job[r].given

IInv ==
    /\ Typed /\ FillsAreCurrent /\ CopiesAreCurrent
    /\ OwnSteps /\ PlaysCount /\ ScrobblesSaved /\ ListedAreGiven

-----------------------------------------------------------------------------
(* Where a step leads                                                      *)

Jumps(r, step) ==
    /\ DOMAIN job' = Requests
    /\ \A q \in Requests \ {r} : job'[q] = job[q]
    /\ DOMAIN job'[r] = Fields /\ job'[r].at = step

LEMMA ToJumps ==
    ASSUME Typed, NEW r \in Requests, NEW step, To(r, step)
    PROVE  /\ Jumps(r, step) /\ job'[r].read = job[r].read
           /\ job'[r].due = job[r].due /\ job'[r].given = job[r].given
BY DEF Typed, To, Jumps, Fields

LEMMA DoneJumps ==
    ASSUME Typed, NEW r \in Requests, Done(r)
    PROVE  Jumps(r, "done") /\ job'[r].due = job[r].due /\ job'[r].given = job[r].given
BY DEF Typed, Done, Jumps, Fields

(* The user of a request is a user.                                        *)
LEMMA UsersAsk ==
    ASSUME Typed, NEW r \in Requests
    PROVE  User(r) \in Users
BY PlansAssumption DEF Typed, User, Ask

(* Before the first table, nothing has been read.                          *)
LEMMA NothingRead ==
    ASSUME NEW rows
    PROVE  PartOf(rows, "stars") = Empty
<1>1. Tables("stars") = {}
  BY DEF Tables
<1> QED
  BY <1>1 DEF PartOf, Empty

(* A step of one request that leaves the copy, and what requests read for  *)
(* it, alone: either its user's rows stay too, or the request now counts   *)
(* as one that has written.                                                *)
LEMMA CopyStays ==
    ASSUME Typed, FillsAreCurrent, CopiesAreCurrent, plan' = plan, UNCHANGED prefVars,
           NEW r \in Requests, NEW step, Jumps(r, step),
           ~ Filling(r), step \notin {"ratings", "plays", "store"},
           \A u \in Users \ {User(r)} : Snapshot(u)' = Snapshot(u),
           \/ step \in {"invalidate", "album", "save album"}
           \/ ~ Wrote(r) /\ Snapshot(User(r))' = Snapshot(User(r))
    PROVE  FillsAreCurrent' /\ CopiesAreCurrent'
<1> USE DEF prefVars
<1>1. \A q \in Requests : User(q)' = User(q) /\ User(q) \in Users
  BY UsersAsk DEF User, Ask
<1>2. /\ \A q \in Requests \ {r} : Wrote(q)' = Wrote(q) /\ Filling(q)' = Filling(q) /\ job'[q].at = job[q].at
      /\ job'[r].at = step
  BY DEF Jumps, Wrote, Filling
<1>3. \A u \in Users : Overtaken(u) => Overtaken(u)'
  <2> SUFFICES ASSUME NEW u \in Users, u \notin overlapped,
                      NEW q \in Requests, User(q) = u, Wrote(q), q = r
               PROVE  Wrote(r)'
    BY <1>1, <1>2 DEF Overtaken
  <2> QED
    BY <1>2 DEF Wrote
<1>4. step \in {"invalidate", "album", "save album"} => Overtaken(User(r))'
  BY <1>1, <1>2 DEF Overtaken, Wrote
<1>5. \A u \in Users : Snapshot(u)' = Snapshot(u) \/ Overtaken(u)'
  BY <1>1, <1>4 DEF Snapshot
<1> HIDE DEF Snapshot, Overtaken
<1>6. CopiesAreCurrent'
  BY <1>3, <1>5 DEF CopiesAreCurrent
<1>7. FillsAreCurrent'
  <2> SUFFICES ASSUME NEW q \in Requests
               PROVE  /\ ~ Filling(q)' => fill'[q] = Empty
                      /\ Filling(q)' => \/ fill'[q] = PartOf(Snapshot(User(q))', job'[q].at)
                                        \/ Overtaken(User(q))'
    BY <1>1 DEF FillsAreCurrent, PartOf, Tables
  <2>1. CASE q # r
    BY <2>1, <1>1, <1>2, <1>3, <1>5 DEF FillsAreCurrent
  <2>2. CASE q = r
    <3>1. fill'[r] = Empty
      BY DEF FillsAreCurrent
    <3>2. PartOf(Snapshot(User(r))', "stars") = Empty
      BY NothingRead
    <3>3. Filling(r)' => job'[r].at = "stars"
      BY <1>2 DEF Filling
    <3> QED
      BY <2>2, <3>1, <3>2, <3>3
  <2> QED
    BY <2>1, <2>2
<1> QED
  BY <1>6, <1>7

(* What a step of one request has to keep of its own, for what is said of  *)
(* all requests to go on holding.                                          *)
KeepsItsOwn(r, step) ==
    /\ Fits(r, step)
    /\ step \in {"save", "save, then album"} => job'[r].read \in Nat
    /\ Op(r, "scrobble") /\ step \in Saved => That(r) \in DOMAIN plays'[User(r)]
    /\ Op(r, "starred") => job'[r].due \subseteq job'[r].given

LEMMA OthersKeepTheirs ==
    ASSUME IInv, plan' = plan, NEW r \in Requests, NEW step, Jumps(r, step), KeepsItsOwn(r, step),
           \A u \in Users : DOMAIN plays[u] \subseteq DOMAIN plays'[u]
    PROVE  OwnSteps' /\ ScrobblesSaved' /\ ListedAreGiven'
<1>1. \A q \in Requests : /\ User(q)' = User(q) /\ User(q) \in Users /\ That(q)' = That(q)
                          /\ \A op : Op(q, op)' = Op(q, op)
  BY UsersAsk DEF User, That, Op, Ask, IInv
<1>2. \A q \in Requests \ {r} : job'[q] = job[q]
  BY DEF Jumps
<1>3. job'[r].at = step
  BY DEF Jumps
<1>4. OwnSteps'
  BY ZenonT(60), <1>1, <1>2, <1>3 DEF OwnSteps, Fits, KeepsItsOwn, IInv, Op, Ask
<1>5. ScrobblesSaved'
  <2> SUFFICES ASSUME NEW q \in Requests, Op(q, "scrobble"), job'[q].at \in Saved
               PROVE  That(q) \in DOMAIN plays'[User(q)]
    BY DEF ScrobblesSaved, Op, That, User, Ask
  <2>1. CASE q = r
    BY <2>1, <1>3 DEF KeepsItsOwn
  <2>2. CASE q # r
    BY <2>2, <1>1, <1>2 DEF IInv, ScrobblesSaved
  <2> QED
    BY <2>1, <2>2
<1>6. ListedAreGiven'
  BY <1>1, <1>2, <1>3 DEF ListedAreGiven, KeepsItsOwn, IInv, Op, Ask
<1> QED
  BY <1>4, <1>5, <1>6

(* A step that changes no row the copy is of, and no copy.                 *)
LEMMA TablesStayed ==
    ASSUME IInv, plan' = plan, UNCHANGED <<stars, ratings, plays>>, UNCHANGED prefVars,
           NEW r \in Requests, NEW step, Jumps(r, step), KeepsItsOwn(r, step),
           ~ Filling(r), step \notin {"ratings", "plays", "store"},
           Wrote(r) => step \in {"invalidate", "album", "save album"}
    PROVE  IInv'
<1>1. \A u : Snapshot(u)' = Snapshot(u)
  BY DEF Snapshot
<1>2. User(r)' = User(r)
  BY DEF User, Ask
<1>3. Snapshot(User(r))' = Snapshot(User(r))
  BY <1>2 DEF Snapshot
<1>4. FillsAreCurrent' /\ CopiesAreCurrent'
  BY <1>1, <1>3, CopyStays DEF IInv
<1>5. OwnSteps' /\ ScrobblesSaved' /\ ListedAreGiven'
  BY OthersKeepTheirs
<1>6. Typed' /\ PlaysCount'
  BY DEF IInv, Typed, PlaysCount, Jumps, prefVars
<1> QED
  BY <1>4, <1>5, <1>6 DEF IInv

COROLLARY RowsStayed ==
    ASSUME IInv, plan' = plan, RowsStay, UNCHANGED prefVars,
           NEW r \in Requests, NEW step, Jumps(r, step), KeepsItsOwn(r, step),
           ~ Filling(r), step \notin {"ratings", "plays", "store"},
           Wrote(r) => step \in {"invalidate", "album", "save album"}
    PROVE  IInv'
BY TablesStayed DEF RowsStay, rowVars

(* A step that writes rows of its user, and counts as having written.      *)
LEMMA RowsWritten ==
    ASSUME IInv, plan' = plan, UNCHANGED prefVars,
           NEW r \in Requests, NEW step, Jumps(r, step), KeepsItsOwn(r, step),
           ~ Filling(r), step \in {"invalidate", "album", "save album"},
           DOMAIN stars' = Users, DOMAIN ratings' = Users, DOMAIN plays' = Users,
           \A u \in Users \ {User(r)} : stars'[u] = stars[u] /\ ratings'[u] = ratings[u] /\ plays'[u] = plays[u],
           \A u \in Users : DOMAIN plays[u] \subseteq DOMAIN plays'[u],
           PlaysCount'
    PROVE  IInv'
<1>1. \A u \in Users \ {User(r)} : Snapshot(u)' = Snapshot(u)
  BY DEF Snapshot
<1>2. FillsAreCurrent' /\ CopiesAreCurrent'
  BY <1>1, CopyStays DEF IInv
<1>3. OwnSteps' /\ ScrobblesSaved' /\ ListedAreGiven'
  BY OthersKeepTheirs
<1>4. Typed'
  BY DEF IInv, Typed, Jumps, prefVars
<1> QED
  BY <1>2, <1>3, <1>4 DEF IInv

-----------------------------------------------------------------------------
(* Steps that change no row                                                *)

LEMMA WarmKeeps ==
    ASSUME IInv, plan' = plan, NEW r \in Requests, Warm(r)
    PROVE  IInv'
<1> DEFINE step == IF prefs[User(r)] # NoOne THEN "handler" ELSE "stars"
<1>1. To(r, step) /\ RowsStay /\ UNCHANGED prefVars /\ At(r, "warm")
  BY DEF Warm
<1>2. step \in {"handler", "stars"}
  OBVIOUS
<1> HIDE DEF step
<1>3. Jumps(r, step) /\ job'[r].due = job[r].due /\ job'[r].given = job[r].given
  BY <1>1, ToJumps DEF IInv
<1>4. KeepsItsOwn(r, step)
  BY <1>2, <1>3 DEF KeepsItsOwn, Fits, Playing, Saved, IInv, ListedAreGiven
<1>5. ~ Filling(r) /\ ~ Wrote(r)
  BY <1>1 DEF At, Filling, Wrote
<1> QED
  BY <1>1, <1>2, <1>3, <1>4, <1>5, RowsStayed

LEMMA StarLooksKeeps ==
    ASSUME IInv, plan' = plan, NEW r \in Requests, StarLooks(r)
    PROVE  IInv'
<1> DEFINE step == IF That(r) \in stars[User(r)] THEN "invalidate" ELSE "naming"
<1>1. To(r, step) /\ RowsStay /\ UNCHANGED prefVars /\ At(r, "handler") /\ Op(r, "star")
  BY DEF StarLooks
<1>2. step \in {"invalidate", "naming"}
  OBVIOUS
<1> HIDE DEF step
<1>3. Jumps(r, step)
  BY <1>1, ToJumps DEF IInv
<1>4. KeepsItsOwn(r, step)
  BY <1>1, <1>2 DEF KeepsItsOwn, Fits, Playing, Op
<1>5. ~ Filling(r) /\ ~ Wrote(r)
  BY <1>1 DEF At, Filling, Wrote
<1> QED
  BY <1>1, <1>2, <1>3, <1>4, <1>5, RowsStayed

LEMMA IngestKeeps ==
    ASSUME IInv, plan' = plan, NEW r \in Requests, NEW known \in BOOLEAN, Ingest(r, known)
    PROVE  IInv'
<1> DEFINE step == IF known /\ That(r).prov = "td" THEN "play with album" ELSE "play"
<1>1. /\ To(r, step) /\ UNCHANGED <<stars, ratings, plays>> /\ UNCHANGED prefVars
      /\ At(r, "handler") /\ Op(r, "scrobble")
  BY DEF Ingest
<1>2. step \in {"play", "play with album"}
  OBVIOUS
<1> HIDE DEF step
<1>3. Jumps(r, step)
  BY <1>1, ToJumps DEF IInv
<1>4. KeepsItsOwn(r, step)
  BY <1>1, <1>2 DEF KeepsItsOwn, Fits, Saved, Op
<1>5. ~ Filling(r) /\ ~ Wrote(r)
  BY <1>1 DEF At, Filling, Wrote
<1> QED
  BY <1>1, <1>2, <1>3, <1>4, <1>5, TablesStayed

LEMMA ReadPlayKeeps ==
    ASSUME IInv, plan' = plan, NEW r \in Requests, ReadPlay(r)
    PROVE  IInv'
<1> DEFINE step == IF At(r, "play") THEN "save" ELSE "save, then album"
           count == Count(plays[User(r)], That(r))
<1>1. /\ job' = [job EXCEPT ![r] = [@ EXCEPT !.read = count, !.at = step]]
      /\ job[r].at \in {"play", "play with album"}
      /\ RowsStay /\ UNCHANGED prefVars
  BY DEF ReadPlay
<1>2. step \in {"save", "save, then album"}
  OBVIOUS
<1>3. count \in Nat
  BY UsersAsk DEF Count, IInv, PlaysCount
<1> HIDE DEF step, count
<1>4. Jumps(r, step) /\ job'[r].read = count
  BY <1>1 DEF Jumps, IInv, Typed, Fields
<1>5. Op(r, "scrobble")
  BY <1>1 DEF IInv, OwnSteps, Fits, Playing
<1>6. KeepsItsOwn(r, step)
  BY <1>2, <1>3, <1>4, <1>5 DEF KeepsItsOwn, Fits, Saved, Op
<1>7. ~ Filling(r) /\ ~ Wrote(r)
  BY <1>1 DEF Filling, Wrote
<1> QED
  BY <1>1, <1>2, <1>4, <1>6, <1>7, RowsStayed

LEMMA ReadAlbumStarKeeps ==
    ASSUME IInv, plan' = plan, NEW r \in Requests, ReadAlbumStar(r)
    PROVE  IInv'
<1>1. /\ At(r, "album") /\ RowsStay /\ UNCHANGED prefVars
      /\ \E step \in {"save album", "invalidate"} : Jumps(r, step)
  BY DEF ReadAlbumStar, Jumps, IInv, Typed, Fields
<1>2. PICK step \in {"save album", "invalidate"} : Jumps(r, step)
  BY <1>1
<1>3. Op(r, "scrobble") /\ That(r) \in DOMAIN plays[User(r)]
  BY <1>1 DEF At, IInv, OwnSteps, Fits, Playing, ScrobblesSaved, Saved
<1>4. KeepsItsOwn(r, step)
  BY <1>1, <1>2, <1>3 DEF KeepsItsOwn, Fits, Op, RowsStay, rowVars
<1>5. ~ Filling(r)
  BY <1>1 DEF At, Filling
<1> QED
  BY <1>1, <1>2, <1>4, <1>5, RowsStayed

LEMMA ApplyPrefsKeeps ==
    ASSUME IInv, plan' = plan, NEW r \in Requests, ApplyPrefs(r)
    PROVE  IInv'
<1>1. /\ At(r, "handler") /\ Op(r, "browse") /\ RowsStay /\ UNCHANGED prefVars
      /\ \/ Done(r)
         \/ job' = [job EXCEPT ![r].at = "stars", ![r].read = 1]
  BY DEF ApplyPrefs
<1>2. \E step \in {"done", "stars"} : Jumps(r, step)
  <2>1. CASE Done(r)
    BY <2>1, DoneJumps DEF IInv
  <2>2. CASE job' = [job EXCEPT ![r].at = "stars", ![r].read = 1]
    BY <2>2 DEF Jumps, IInv, Typed, Fields
  <2> QED
    BY <1>1, <2>1, <2>2
<1>3. PICK step \in {"done", "stars"} : Jumps(r, step)
  BY <1>2
<1>4. KeepsItsOwn(r, step)
  BY <1>1 DEF KeepsItsOwn, Fits, Playing, Op
<1>5. ~ Filling(r) /\ ~ Wrote(r)
  BY <1>1 DEF At, Filling, Wrote
<1> QED
  BY <1>1, <1>3, <1>4, <1>5, RowsStayed

(* What a kind owes of what is starred is what it gives.                   *)
LEMMA ListStarredKeeps ==
    ASSUME IInv, plan' = plan, NEW r \in Requests, NEW k \in Kinds, NEW fetched, ListStarred(r, k, fetched)
    PROVE  IInv'
<1> DEFINE mine == OfKind(k, stars[User(r)])
           due == IF k = "tracks" THEN mine ELSE mine \cap (fetched \cup named[User(r)])
           step == CASE k = "tracks" -> "albums" [] k = "albums" -> "artists" [] k = "artists" -> "done"
<1>1. /\ job[r].at \in {"handler", "albums", "artists"} /\ Op(r, "starred")
      /\ RowsStay /\ UNCHANGED prefVars
      /\ job' = [job EXCEPT ![r] = [at |-> step, read |-> 0, due |-> @.due \cup due,
                                    given |-> @.given \cup Give(r, k, fetched)]]
  BY DEF ListStarred, Kinds
<1>2. due \subseteq Give(r, k, fetched)
  BY DEF Give, GiveTracks, GiveAlbums, GiveArtists, Kinds
<1>3. step \in {"albums", "artists", "done"}
  BY DEF Kinds
<1> HIDE DEF due, step
<1>4. /\ Jumps(r, step) 
      /\ job'[r].due = job[r].due \cup due /\ job'[r].given = job[r].given \cup Give(r, k, fetched)
  BY <1>1 DEF Jumps, IInv, Typed, Fields
<1>5. job'[r].due \subseteq job'[r].given
  BY <1>1, <1>2, <1>4 DEF IInv, ListedAreGiven
<1>6. KeepsItsOwn(r, step)
  BY <1>1, <1>3, <1>5 DEF KeepsItsOwn, Fits, Playing, Op
<1>7. ~ Filling(r) /\ ~ Wrote(r)
  BY <1>1 DEF Filling, Wrote
<1> QED
  BY <1>1, <1>3, <1>4, <1>6, <1>7, RowsStayed

LEMMA SyncKeeps ==
    ASSUME IInv, plan' = plan, NEW r \in Requests, NEW missing, Sync(r, missing)
    PROVE  IInv'
<1>1. /\ At(r, "handler") /\ Op(r, "sync") /\ RowsStay /\ UNCHANGED prefVars
      /\ \E step \in {"done", "handler"} : Jumps(r, step)
  BY DEF Sync, Jumps, IInv, Typed, Fields
<1>2. PICK step \in {"done", "handler"} : Jumps(r, step)
  BY <1>1
<1>3. KeepsItsOwn(r, step)
  BY <1>1 DEF KeepsItsOwn, Fits, Playing, Op
<1>4. ~ Filling(r) /\ ~ Wrote(r)
  BY <1>1 DEF At, Filling, Wrote
<1> QED
  BY <1>1, <1>2, <1>3, <1>4, RowsStayed

-----------------------------------------------------------------------------
(* Steps that write                                                        *)

LEMMA StarCreatesKeeps ==
    ASSUME IInv, plan' = plan, NEW r \in Requests, NEW known \in BOOLEAN, StarCreates(r, known)
    PROVE  IInv'
<1>1. /\ At(r, "naming") /\ To(r, "invalidate")
      /\ stars' = [stars EXCEPT ![User(r)] = @ \cup {That(r)}]
      /\ UNCHANGED <<ratings, plays>> /\ UNCHANGED prefVars
  BY DEF StarCreates
<1>2. Jumps(r, "invalidate")
  BY <1>1, ToJumps DEF IInv
<1>3. KeepsItsOwn(r, "invalidate")
  BY <1>1 DEF IInv, OwnSteps, At, KeepsItsOwn, Fits, Playing, Op
<1>4. ~ Filling(r)
  BY <1>1 DEF At, Filling
<1>5. /\ DOMAIN stars' = Users /\ DOMAIN ratings' = Users /\ DOMAIN plays' = Users
      /\ \A u \in Users \ {User(r)} : stars'[u] = stars[u] /\ ratings'[u] = ratings[u] /\ plays'[u] = plays[u]
      /\ \A u \in Users : DOMAIN plays[u] \subseteq DOMAIN plays'[u]
      /\ PlaysCount'
  BY <1>1 DEF IInv, Typed, PlaysCount
<1> QED
  BY <1>1, <1>2, <1>3, <1>4, <1>5, RowsWritten

LEMMA UnstarKeeps ==
    ASSUME IInv, plan' = plan, NEW r \in Requests, Unstar(r)
    PROVE  IInv'
<1>1. /\ At(r, "handler") /\ Op(r, "unstar") /\ To(r, "invalidate")
      /\ stars' = [stars EXCEPT ![User(r)] = @ \ {That(r)}]
      /\ UNCHANGED <<ratings, plays>> /\ UNCHANGED prefVars
  BY DEF Unstar
<1>2. Jumps(r, "invalidate")
  BY <1>1, ToJumps DEF IInv
<1>3. KeepsItsOwn(r, "invalidate")
  BY <1>1 DEF KeepsItsOwn, Fits, Playing, Op
<1>4. ~ Filling(r)
  BY <1>1 DEF At, Filling
<1>5. /\ DOMAIN stars' = Users /\ DOMAIN ratings' = Users /\ DOMAIN plays' = Users
      /\ \A u \in Users \ {User(r)} : stars'[u] = stars[u] /\ ratings'[u] = ratings[u] /\ plays'[u] = plays[u]
      /\ \A u \in Users : DOMAIN plays[u] \subseteq DOMAIN plays'[u]
      /\ PlaysCount'
  BY <1>1 DEF IInv, Typed, PlaysCount
<1> QED
  BY <1>1, <1>2, <1>3, <1>4, <1>5, RowsWritten

LEMMA SetRatingKeeps ==
    ASSUME IInv, plan' = plan, NEW r \in Requests, SetRating(r)
    PROVE  IInv'
<1>1. /\ At(r, "handler") /\ Op(r, "rate") /\ To(r, "invalidate")
      /\ UNCHANGED <<stars, plays>> /\ UNCHANGED prefVars
  BY DEF SetRating
<1>2. Jumps(r, "invalidate")
  BY <1>1, ToJumps DEF IInv
<1>3. KeepsItsOwn(r, "invalidate")
  BY <1>1 DEF KeepsItsOwn, Fits, Playing, Op
<1>4. ~ Filling(r)
  BY <1>1 DEF At, Filling
<1>5. DOMAIN ratings' = Users /\ \A u \in Users \ {User(r)} : ratings'[u] = ratings[u]
  BY DEF SetRating, IInv, Typed
<1>6. /\ DOMAIN stars' = Users /\ DOMAIN plays' = Users
      /\ \A u \in Users \ {User(r)} : stars'[u] = stars[u] /\ plays'[u] = plays[u]
      /\ \A u \in Users : DOMAIN plays[u] \subseteq DOMAIN plays'[u]
      /\ PlaysCount'
  BY <1>1 DEF IInv, Typed, PlaysCount
<1> QED
  BY <1>1, <1>2, <1>3, <1>4, <1>5, <1>6, RowsWritten

(* The row is inserted or updated, or there is one already: either way the *)
(* track has been played once at least.                                    *)
LEMMA SavePlayKeeps ==
    ASSUME IInv, plan' = plan, NEW r \in Requests, SavePlay(r)
    PROVE  IInv'
<1> DEFINE step == IF At(r, "save") THEN "invalidate" ELSE "album"
<1>1. /\ job[r].at \in {"save", "save, then album"} /\ To(r, step)
      /\ UNCHANGED <<stars, ratings>> /\ UNCHANGED prefVars
      /\ \/ That(r) \in DOMAIN plays[User(r)] /\ plays' = plays
         \/ plays' = [plays EXCEPT ![User(r)] = With(@, That(r), job[r].read + 1)]
  BY DEF SavePlay
<1>2. step \in {"invalidate", "album"}
  OBVIOUS
<1> HIDE DEF step
<1>3. Jumps(r, step)
  BY <1>1, ToJumps DEF IInv
<1>4. Op(r, "scrobble") /\ job[r].read \in Nat
  BY <1>1 DEF IInv, OwnSteps, Fits, Playing
<1>5. ~ Filling(r)
  BY <1>1 DEF Filling
<1>6. /\ DOMAIN plays' = Users /\ That(r) \in DOMAIN plays'[User(r)]
      /\ \A u \in Users \ {User(r)} : plays'[u] = plays[u]
      /\ \A u \in Users : DOMAIN plays[u] \subseteq DOMAIN plays'[u]
      /\ PlaysCount'
  <2>1. CASE That(r) \in DOMAIN plays[User(r)] /\ plays' = plays
    BY <2>1 DEF IInv, Typed, PlaysCount
  <2>2. CASE plays' = [plays EXCEPT ![User(r)] = With(@, That(r), job[r].read + 1)]
    <3> DEFINE row == With(plays[User(r)], That(r), job[r].read + 1)
    <3>1. /\ DOMAIN row = DOMAIN plays[User(r)] \cup {That(r)}
          /\ row[That(r)] = job[r].read + 1
          /\ \A t \in DOMAIN row \ {That(r)} : row[t] = plays[User(r)][t]
      BY DEF With
    <3>2. \A t \in DOMAIN row : row[t] \in Nat \ {0}
      BY <3>1, <1>4, UsersAsk DEF IInv, PlaysCount
    <3>3. plays' = [plays EXCEPT ![User(r)] = row]
      BY <2>2
    <3> HIDE DEF row
    <3> QED
      BY <3>1, <3>2, <3>3, UsersAsk DEF IInv, Typed, PlaysCount
  <2> QED
    BY <1>1, <2>1, <2>2
<1>7. KeepsItsOwn(r, step)
  BY <1>2, <1>4, <1>6 DEF KeepsItsOwn, Fits, Op
<1>8. /\ DOMAIN stars' = Users /\ DOMAIN ratings' = Users
      /\ \A u \in Users \ {User(r)} : stars'[u] = stars[u] /\ ratings'[u] = ratings[u]
  BY <1>1 DEF IInv, Typed
<1> QED
  BY <1>1, <1>2, <1>3, <1>5, <1>6, <1>7, <1>8, RowsWritten

LEMMA SaveAlbumStarKeeps ==
    ASSUME IInv, plan' = plan, NEW r \in Requests, SaveAlbumStar(r)
    PROVE  IInv'
<1>1. /\ At(r, "save album") /\ To(r, "invalidate")
      /\ stars' = [stars EXCEPT ![User(r)] = @ \cup {AlbumOf(That(r))}]
      /\ UNCHANGED <<ratings, plays>> /\ UNCHANGED prefVars
  BY DEF SaveAlbumStar
<1>2. Jumps(r, "invalidate")
  BY <1>1, ToJumps DEF IInv
<1>3. Op(r, "scrobble") /\ That(r) \in DOMAIN plays[User(r)]
  BY <1>1 DEF At, IInv, OwnSteps, Fits, Playing, ScrobblesSaved, Saved
<1>4. KeepsItsOwn(r, "invalidate")
  BY <1>1, <1>3 DEF KeepsItsOwn, Fits, Playing, Op
<1>5. ~ Filling(r)
  BY <1>1 DEF At, Filling
<1> HIDE DEF AlbumOf
<1>6. /\ DOMAIN stars' = Users /\ DOMAIN ratings' = Users /\ DOMAIN plays' = Users
      /\ \A u \in Users \ {User(r)} : stars'[u] = stars[u] /\ ratings'[u] = ratings[u] /\ plays'[u] = plays[u]
      /\ \A u \in Users : DOMAIN plays[u] \subseteq DOMAIN plays'[u]
      /\ PlaysCount'
  BY <1>1 DEF IInv, Typed, PlaysCount
<1> QED
  BY <1>1, <1>2, <1>4, <1>5, <1>6, RowsWritten

-----------------------------------------------------------------------------
(* Steps that read for the copy, store it and delete it                    *)

(* One more table is read.                                                 *)
LEMMA ReadsOn ==
    ASSUME NEW rows, NEW step, NEW table, NEW next, Tables(next) = Tables(step) \cup {table}
    PROVE  With(PartOf(rows, step), table, rows[table]) = PartOf(rows, next)
BY DEF With, PartOf

(* When all have been read, it is the rows.                                *)
LEMMA AllRead ==
    ASSUME NEW u
    PROVE  PartOf(Snapshot(u), "store") = Snapshot(u)
<1>1. Tables("store") = {"stars", "ratings", "plays"}
  BY DEF Tables
<1> QED
  BY <1>1 DEF PartOf, Snapshot

(* A step of one request that changes no row, and what may become of its   *)
(* reading and of the copy.                                                *)
LEMMA FillMoves ==
    ASSUME IInv, plan' = plan, RowsStay, overlapped' = overlapped,
           NEW r \in Requests, NEW step, Jumps(r, step), KeepsItsOwn(r, step),
           ~ Wrote(r), DOMAIN fill' = Requests, DOMAIN prefs' = Users,
           \A q \in Requests \ {r} : fill'[q] = fill[q],
           IF Filling(r)'
           THEN fill'[r] = PartOf(Snapshot(User(r)), step) \/ Overtaken(User(r))
           ELSE fill'[r] = Empty,
           \A u \in Users : prefs'[u] \in {prefs[u], NoOne, Snapshot(u)} \/ Overtaken(u)
    PROVE  IInv'
<1> USE DEF RowsStay, rowVars
<1>1. \A q \in Requests : User(q)' = User(q) /\ User(q) \in Users
  BY UsersAsk DEF User, Ask, IInv
<1>2. /\ \A q \in Requests \ {r} : job'[q] = job[q]
      /\ \A q \in Requests \ {r} : Wrote(q)' = Wrote(q) /\ Filling(q)' = Filling(q)
      /\ job'[r].at = step
  BY DEF Jumps, Wrote, Filling
<1>3. \A u \in Users : Overtaken(u) => Overtaken(u)'
  <2> SUFFICES ASSUME NEW u \in Users, u \notin overlapped,
                      NEW q \in Requests, User(q) = u, Wrote(q), q # r
               PROVE  Wrote(q)' /\ User(q)' = u
    BY DEF Overtaken
  <2> QED
    BY <1>1, <1>2
<1>4. \A u \in Users : Snapshot(u)' = Snapshot(u)
  BY DEF Snapshot
<1> HIDE DEF RowsStay
<1>5. CopiesAreCurrent'
  <2> SUFFICES ASSUME NEW u \in Users
               PROVE  prefs'[u] \in {NoOne, Snapshot(u)'} \/ Overtaken(u)'
    BY DEF CopiesAreCurrent
  <2>1. prefs[u] \in {NoOne, Snapshot(u)} \/ Overtaken(u)
    BY DEF IInv, CopiesAreCurrent
  <2> HIDE DEF Snapshot, Overtaken
  <2> QED
    BY <2>1, <1>3, <1>4
<1>6. FillsAreCurrent'
  <2> SUFFICES ASSUME NEW q \in Requests
               PROVE  /\ ~ Filling(q)' => fill'[q] = Empty
                      /\ Filling(q)' => \/ fill'[q] = PartOf(Snapshot(User(q)), job'[q].at)
                                        \/ Overtaken(User(q))
    BY <1>1, <1>3, <1>4 DEF FillsAreCurrent, PartOf, Tables, Snapshot, RowsStay
  <2>1. CASE q = r
    BY <2>1, <1>2
  <2>2. CASE q # r
    BY <2>2, <1>2 DEF FillsAreCurrent, IInv
  <2> QED
    BY <2>1, <2>2
<1>7. OwnSteps' /\ ScrobblesSaved' /\ ListedAreGiven'
  BY OthersKeepTheirs DEF RowsStay
<1>8. Typed' /\ PlaysCount'
  BY DEF IInv, Typed, PlaysCount, Jumps, RowsStay
<1> QED
  BY <1>5, <1>6, <1>7, <1>8 DEF IInv

LEMMA ReadForKeeps ==
    ASSUME IInv, plan' = plan, NEW r \in Requests, NEW step, NEW table, NEW next,
           step \in {"stars", "ratings", "plays"}, next \in {"ratings", "plays", "store"},
           Tables(next) = Tables(step) \cup {table},
           ReadFor(r, step, table, next)
    PROVE  IInv'
<1> DEFINE rows == Snapshot(User(r))
<1>1. /\ At(r, step) /\ To(r, next) /\ RowsStay /\ UNCHANGED <<prefs, overlapped>>
      /\ fill' = [fill EXCEPT ![r] = With(@, table, rows[table])]
  BY DEF ReadFor
<1> HIDE DEF rows
<1>2. Jumps(r, next) /\ job'[r].due = job[r].due /\ job'[r].given = job[r].given
  BY <1>1, ToJumps DEF IInv
<1>3. KeepsItsOwn(r, next)
  BY <1>2 DEF KeepsItsOwn, Fits, Playing, Saved, IInv, ListedAreGiven
<1>4. Filling(r) /\ ~ Wrote(r)
  BY <1>1 DEF At, Filling, Wrote
<1>5. fill'[r] = With(fill[r], table, rows[table])
  BY <1>1 DEF IInv, Typed
<1>6. fill[r] = PartOf(rows, step) \/ Overtaken(User(r))
  BY <1>1, <1>4 DEF IInv, FillsAreCurrent, At, rows
<1>7. fill'[r] = PartOf(rows, next) \/ Overtaken(User(r))
  <2>1. With(PartOf(rows, step), table, rows[table]) = PartOf(rows, next)
    BY ReadsOn
  <2> QED
    BY <1>5, <1>6, <2>1
<1>8. Filling(r)'
  BY <1>2 DEF Filling, Jumps
<1>9. /\ DOMAIN fill' = Requests /\ DOMAIN prefs' = Users
      /\ \A q \in Requests \ {r} : fill'[q] = fill[q]
      /\ \A u \in Users : prefs'[u] = prefs[u]
  BY <1>1 DEF IInv, Typed
<1> QED
  BY <1>1, <1>2, <1>3, <1>4, <1>7, <1>8, <1>9, FillMoves DEF rows

LEMMA StorePrefsKeeps ==
    ASSUME IInv, plan' = plan, NEW r \in Requests, StorePrefs(r)
    PROVE  IInv'
<1>1. /\ At(r, "store") /\ To(r, "handler") /\ RowsStay /\ overlapped' = overlapped
      /\ prefs' = [prefs EXCEPT ![User(r)] = fill[r]]
      /\ fill' = [fill EXCEPT ![r] = Empty]
  BY DEF StorePrefs
<1>2. Jumps(r, "handler") /\ job'[r].due = job[r].due /\ job'[r].given = job[r].given
  BY <1>1, ToJumps DEF IInv
<1>3. KeepsItsOwn(r, "handler")
  BY <1>2 DEF KeepsItsOwn, Fits, Playing, Saved, IInv, ListedAreGiven
<1>4. Filling(r) /\ ~ Wrote(r) /\ ~ Filling(r)'
  BY <1>1, <1>2 DEF At, Filling, Wrote, Jumps
<1>5. fill[r] = Snapshot(User(r)) \/ Overtaken(User(r))
  BY <1>1, <1>4, AllRead DEF IInv, FillsAreCurrent, At
<1>6. /\ DOMAIN fill' = Requests /\ DOMAIN prefs' = Users /\ fill'[r] = Empty
      /\ \A q \in Requests \ {r} : fill'[q] = fill[q]
  BY <1>1 DEF IInv, Typed
<1>7. \A u \in Users : prefs'[u] \in {prefs[u], NoOne, Snapshot(u)} \/ Overtaken(u)
  <2> HIDE DEF Snapshot, Overtaken
  <2> QED
    BY <1>1, <1>5 DEF IInv, Typed
<1> QED
  BY <1>1, <1>2, <1>3, <1>4, <1>6, <1>7, FillMoves

(* Whoever still reads when the copy is deleted may have read too early.   *)
LEMMA InvalidateKeeps ==
    ASSUME IInv, plan' = plan, NEW r \in Requests, Invalidate(r)
    PROVE  IInv'
<1>1. /\ At(r, "invalidate") /\ Done(r) /\ RowsStay /\ fill' = fill
      /\ prefs' = [prefs EXCEPT ![User(r)] = NoOne]
      /\ overlapped' = IF \E q \in Requests : User(q) = User(r) /\ Filling(q)
                       THEN overlapped \cup {User(r)} ELSE overlapped \ {User(r)}
  BY DEF Invalidate
<1>2. Jumps(r, "done") /\ job'[r].due = job[r].due /\ job'[r].given = job[r].given
  BY <1>1, DoneJumps DEF IInv
<1>3. KeepsItsOwn(r, "done")
  BY <1>1, <1>2 DEF KeepsItsOwn, Fits, Playing, Saved, IInv, ListedAreGiven, ScrobblesSaved, At, RowsStay, rowVars
<1>4. \A q \in Requests : User(q)' = User(q) /\ User(q) \in Users
  BY UsersAsk DEF User, Ask, IInv
<1>5. /\ \A q \in Requests \ {r} : job'[q] = job[q]
      /\ \A q \in Requests \ {r} : (Wrote(q)' <=> Wrote(q))
      /\ \A q \in Requests : (Filling(q)' <=> Filling(q))
  <2>1. \A q \in Requests \ {r} : job'[q] = job[q]
    BY <1>2 DEF Jumps
  <2>2. ~ Filling(r) /\ ~ Filling(r)'
    BY <1>1, <1>2 DEF Filling, At, Jumps
  <2>3. \A q \in Requests \ {r} : (Wrote(q)' <=> Wrote(q)) /\ (Filling(q)' <=> Filling(q))
    BY <2>1 DEF Wrote, Filling
  <2> QED
    BY <2>1, <2>2, <2>3
<1>6. \A u \in Users \ {User(r)} : Overtaken(u) => Overtaken(u)'
  <2>1. \A u \in Users \ {User(r)} : u \in overlapped => u \in overlapped'
    BY <1>1
  <2> SUFFICES ASSUME NEW u \in Users \ {User(r)}, NEW q \in Requests, User(q) = u, Wrote(q)
               PROVE  User(q)' = u /\ Wrote(q)'
    BY <2>1 DEF Overtaken
  <2> QED
    BY <1>4, <1>5
<1>7. \A u \in Users : Snapshot(u)' = Snapshot(u)
  BY <1>1 DEF Snapshot, RowsStay, rowVars
<1>8. CopiesAreCurrent'
  <2> SUFFICES ASSUME NEW u \in Users
               PROVE  prefs'[u] \in {NoOne, Snapshot(u)'} \/ Overtaken(u)'
    BY DEF CopiesAreCurrent
  <2> HIDE DEF Snapshot, Overtaken
  <2>1. CASE u = User(r)
    BY <2>1, <1>1 DEF IInv, Typed
  <2>2. CASE u # User(r)
    <3>1. prefs'[u] = prefs[u]
      BY <2>2, <1>1 DEF IInv, Typed
    <3> QED
      BY <2>2, <3>1, <1>6, <1>7 DEF IInv, CopiesAreCurrent
  <2> QED
    BY <2>1, <2>2
<1>9. FillsAreCurrent'
  <2> SUFFICES ASSUME NEW q \in Requests
               PROVE  /\ ~ Filling(q)' => fill'[q] = Empty
                      /\ Filling(q)' => \/ fill'[q] = PartOf(Snapshot(User(q)), job'[q].at)
                                        \/ Overtaken(User(q))'
    BY <1>1, <1>4 DEF FillsAreCurrent, PartOf, Tables, Snapshot, RowsStay, rowVars
  <2>1. CASE ~ Filling(q)
    BY <2>1, <1>1, <1>5 DEF FillsAreCurrent, IInv
  <2>2. CASE Filling(q) /\ User(q) = User(r)
    <3>1. User(q) \in overlapped'
      BY <2>2, <1>1
    <3> QED
      BY <2>2, <3>1, <1>4, <1>5 DEF Overtaken
  <2>3. CASE Filling(q) /\ User(q) # User(r)
    <3>1. q # r /\ User(q) \in Users \ {User(r)}
      BY <2>3, <1>4
    <3>2. job'[q] = job[q] /\ fill'[q] = fill[q]
      BY <3>1, <1>1, <1>5
    <3>3. fill[q] = PartOf(Snapshot(User(q)), job[q].at) \/ Overtaken(User(q))
      BY <2>3 DEF FillsAreCurrent, IInv
    <3>4. Overtaken(User(q)) => Overtaken(User(q))'
      <4>1. ASSUME NEW u, u = User(q), Overtaken(u) PROVE Overtaken(u)'
        BY <4>1, <3>1, <1>6
      <4> QED
        BY <4>1, <1>4 DEF Overtaken
    <3> QED
      BY <2>3, <3>2, <3>3, <3>4, <1>5
  <2> QED
    BY <2>1, <2>2, <2>3
<1>10. OwnSteps' /\ ScrobblesSaved' /\ ListedAreGiven'
  BY <1>1, <1>2, <1>3, OthersKeepTheirs DEF RowsStay, rowVars
<1>11. Typed' /\ PlaysCount'
  BY <1>1, <1>2 DEF IInv, Typed, PlaysCount, Jumps, RowsStay, rowVars
<1> QED
  BY <1>8, <1>9, <1>10, <1>11 DEF IInv

LEMMA ExpirePrefsKeeps ==
    ASSUME IInv, plan' = plan, NEW u \in Users, ExpirePrefs(u)
    PROVE  IInv'
<1>1. /\ prefs' = [prefs EXCEPT ![u] = NoOne] /\ RowsStay
      /\ UNCHANGED <<plan, fill, overlapped, job>>
  BY DEF ExpirePrefs
<1> USE DEF RowsStay, rowVars
<1>2. Typed' /\ PlaysCount' /\ OwnSteps' /\ ScrobblesSaved' /\ ListedAreGiven'
  BY <1>1 DEF IInv, Typed, PlaysCount, OwnSteps, ScrobblesSaved, ListedAreGiven, Fits, Op, That, User, Ask
<1>3. FillsAreCurrent'
  BY ZenonT(60), <1>1 DEF IInv, FillsAreCurrent, Filling, Snapshot, User, Ask, Overtaken, Wrote, PartOf
<1>4. \A v \in Users : Snapshot(v)' = Snapshot(v) /\ Overtaken(v)' = Overtaken(v)
  BY <1>1 DEF Snapshot, Overtaken, User, Ask, Wrote
<1>5. CopiesAreCurrent'
  BY <1>1, <1>4 DEF IInv, Typed, CopiesAreCurrent
<1> QED
  BY <1>2, <1>3, <1>5 DEF IInv

-----------------------------------------------------------------------------
(* A client that enumerates the library                                    *)

(* What a client that enumerates still has to get is in the library, and   *)
(* comes after the pages it has got: as long as nothing leaves the library *)
(* a track only moves towards its end.                                     *)
Enumerating(r) == Op(r, "sync") /\ ~ Unstarring(User(r))
OnItsWay == {"warm", "stars", "ratings", "plays", "store", "handler"}

RowsFinite == \A u \in Users : IsFiniteSet(stars[u]) /\ IsFiniteSet(DOMAIN plays[u])

StillToCome(r) ==
    LET lib == GetVirtualLibraryTrackIDs(User(r))
    IN  \A t \in job[r].due \ job[r].given : t \in lib /\ Place(t, lib) >= job[r].read

SyncsHold ==
    \A r \in Requests : Enumerating(r) =>
        /\ job[r].at \in OnItsWay \cup {"done"} /\ job[r].read \in Nat
        /\ StillToCome(r)
        /\ At(r, "done") => job[r].due \subseteq job[r].given

SyncInv == IInv /\ RowsFinite /\ SyncsHold

LEMMA PlacesGrow ==
    ASSUME NEW more, IsFiniteSet(more), NEW ids \in SUBSET more, NEW t
    PROVE  /\ Place(t, ids) \in Nat /\ Place(t, more) \in Nat /\ Cardinality(more) \in Nat
           /\ Place(t, ids) <= Place(t, more) /\ Place(t, more) <= Cardinality(more)
<1> DEFINE few == {s \in ids : Uri(s) < Uri(t)}
           many == {s \in more : Uri(s) < Uri(t)}
<1>1. few \subseteq many /\ many \subseteq more
  OBVIOUS
<1>2. Place(t, ids) = Cardinality(few) /\ Place(t, more) = Cardinality(many)
  BY DEF Place
<1> HIDE DEF few, many
<1>3. IsFiniteSet(many) /\ Cardinality(many) <= Cardinality(more)
  BY <1>1, FS_Subset
<1>4. IsFiniteSet(few) /\ Cardinality(few) <= Cardinality(many)
  BY <1>1, <1>3, FS_Subset
<1> QED
  BY <1>2, <1>3, <1>4, FS_CardinalityType

LEMMA LibraryFinite ==
    ASSUME IInv, RowsFinite, NEW u \in Users
    PROVE  IsFiniteSet(GetVirtualLibraryTrackIDs(u))
<1>1. IsFiniteSet(plan.playlist) /\ IsFiniteSet(plan.known)
  BY LibraryAssumption DEF IInv, Typed
<1>2. IsFiniteSet(stars[u]) /\ IsFiniteSet(DOMAIN plays[u])
  BY DEF RowsFinite
<1>3. IsFiniteSet(OfKind("tracks", stars[u])) /\ IsFiniteSet(OfKind("tracks", plan.known))
  BY <1>1, <1>2, FS_Subset DEF OfKind
<1>4. IsFiniteSet(OfKind("tracks", stars[u]) \cup DOMAIN plays[u])
  BY <1>2, <1>3, FS_Union
<1>5. IsFiniteSet(UsersTracks(u))
  BY <1>1, <1>4, FS_Union DEF UsersTracks
<1> QED
  BY <1>3, <1>5, FS_Union DEF GetVirtualLibraryTrackIDs

(* Steps other than the client's own pages.                                *)
LEMMA LibraryGrows ==
    ASSUME SyncInv, IInv', RowsFinite', plan' = plan,
           \A u \in Users : ~ Unstarring(u) => stars[u] \subseteq stars'[u],
           \A u \in Users : DOMAIN plays[u] \subseteq DOMAIN plays'[u],
           \A r \in Requests : Enumerating(r) =>
               /\ job'[r].due = job[r].due /\ job'[r].given = job[r].given /\ job'[r].read = job[r].read
               /\ job'[r].at \in OnItsWay \/ job'[r].at = job[r].at
    PROVE  SyncsHold'
<1> SUFFICES ASSUME NEW r \in Requests, Enumerating(r)'
             PROVE  /\ job'[r].at \in OnItsWay \cup {"done"} /\ job'[r].read \in Nat
                    /\ StillToCome(r)'
                    /\ At(r, "done")' => job'[r].due \subseteq job'[r].given
  BY DEF SyncsHold
<1>1. Enumerating(r) /\ User(r)' = User(r) /\ User(r) \in Users
  BY UsersAsk DEF Enumerating, Unstarring, Op, User, Ask, SyncInv, IInv
<1>2. /\ job[r].at \in OnItsWay \cup {"done"} /\ job[r].read \in Nat /\ StillToCome(r)
      /\ At(r, "done") => job[r].due \subseteq job[r].given
  BY <1>1 DEF SyncInv, SyncsHold
<1>3. /\ job'[r].due = job[r].due /\ job'[r].given = job[r].given /\ job'[r].read = job[r].read
      /\ job'[r].at \in OnItsWay \/ job'[r].at = job[r].at
  BY <1>1
<1> DEFINE u == User(r)
           lib == GetVirtualLibraryTrackIDs(u)
           after == GetVirtualLibraryTrackIDs(u)'
<1>4. stars[u] \subseteq stars'[u] /\ DOMAIN plays[u] \subseteq DOMAIN plays'[u]
  BY <1>1 DEF Enumerating
<1>5. lib \subseteq after
  BY <1>1, <1>4 DEF GetVirtualLibraryTrackIDs, UsersTracks, OfKind
<1>6. IsFiniteSet(after)
  <2>1. ASSUME IInv', RowsFinite', NEW v \in Users PROVE IsFiniteSet(GetVirtualLibraryTrackIDs(v)')
    <3>1. plan.playlist' = plan.playlist /\ plan.known' = plan.known
      OBVIOUS
    <3>2. IsFiniteSet(plan.playlist) /\ IsFiniteSet(plan.known)
      BY LibraryAssumption DEF SyncInv, IInv, Typed
    <3>3. IsFiniteSet(OfKind("tracks", stars'[v])) /\ IsFiniteSet(OfKind("tracks", plan.known))
      BY <2>1, <3>2, FS_Subset DEF OfKind, RowsFinite
    <3>4. IsFiniteSet(OfKind("tracks", stars'[v]) \cup DOMAIN plays'[v])
      BY <2>1, <3>3, FS_Union DEF RowsFinite
    <3>5. IsFiniteSet(UsersTracks(v)')
      BY <3>2, <3>4, FS_Union DEF UsersTracks, OfKind
    <3> QED
      BY <3>3, <3>5, FS_Union DEF GetVirtualLibraryTrackIDs, OfKind
  <2> QED
    BY <1>1, <2>1
<1>7. \A t : Place(t, lib) <= Place(t, after) /\ Place(t, lib) \in Nat /\ Place(t, after) \in Nat
  BY <1>5, <1>6, PlacesGrow
<1>8. StillToCome(r)'
  <2> SUFFICES ASSUME NEW t \in job[r].due \ job[r].given
               PROVE  t \in after /\ Place(t, after) >= job[r].read
    BY <1>1, <1>3 DEF StillToCome, Place, Uri
  <2>1. t \in lib /\ Place(t, lib) >= job[r].read
    BY <1>2 DEF StillToCome
  <2> HIDE DEF lib, after
  <2> QED
    BY <2>1, <1>2, <1>5, <1>7
<1> QED
  BY <1>2, <1>3, <1>8 DEF At, OnItsWay

(* A page: what is still to come is behind it, and after the last one      *)
(* there is no place left for it.                                          *)
LEMMA PagesGoOn ==
    ASSUME SyncInv, plan' = plan, NEW r \in Requests, NEW missing, Sync(r, missing)
    PROVE  RowsFinite' /\ SyncsHold'
<1> DEFINE lib == GetVirtualLibraryTrackIDs(User(r))
           offset == job[r].read
           page == Page(lib, offset)
           due == IF offset = 0 THEN lib ELSE job[r].due
<1>1. /\ At(r, "handler") /\ Op(r, "sync") /\ RowsStay
      /\ job' = [job EXCEPT ![r] =
             [at |-> IF offset >= Cardinality(lib) THEN "done" ELSE "handler",
              read |-> offset + PageSize, due |-> due \ missing,
              given |-> @.given \cup (page \ missing)]]
  BY DEF Sync, BatchGetTracksByURI
<1>2. /\ \A q \in Requests \ {r} : job'[q] = job[q]
      /\ job'[r].read = offset + PageSize /\ job'[r].due = due \ missing
      /\ job'[r].given = job[r].given \cup (page \ missing)
      /\ job'[r].at = IF offset >= Cardinality(lib) THEN "done" ELSE "handler"
  BY <1>1 DEF SyncInv, IInv, Typed
<1>3. \A u : GetVirtualLibraryTrackIDs(u)' = GetVirtualLibraryTrackIDs(u)
  BY <1>1 DEF RowsStay, rowVars, GetVirtualLibraryTrackIDs, UsersTracks, OfKind
<1>4. \A q \in Requests : User(q)' = User(q) /\ (Enumerating(q)' <=> Enumerating(q))
  BY DEF User, Ask, Enumerating, Unstarring, Op
<1>5. RowsFinite'
  BY <1>1 DEF RowsStay, rowVars, SyncInv, RowsFinite
<1>6. User(r) \in Users
  BY UsersAsk DEF SyncInv, IInv
<1>7. IsFiniteSet(lib)
  BY <1>6, LibraryFinite DEF SyncInv
<1>8. \A t : Place(t, lib) \in Nat /\ Place(t, lib) <= Cardinality(lib) /\ Cardinality(lib) \in Nat
  BY <1>7, PlacesGrow
<1>9. PageSize \in Nat \ {0}
  BY PageAssumption
<1>10. ASSUME Enumerating(r)
       PROVE  /\ job'[r].at \in OnItsWay \cup {"done"} /\ job'[r].read \in Nat
              /\ \A t \in job'[r].due \ job'[r].given : t \in lib /\ Place(t, lib) >= job'[r].read
              /\ job'[r].at = "done" => job'[r].due \subseteq job'[r].given
  <2>1. offset \in Nat /\ \A t \in job[r].due \ job[r].given : t \in lib /\ Place(t, lib) >= offset
    BY <1>10 DEF SyncInv, SyncsHold, StillToCome
  <2>2. \A t \in job'[r].due \ job'[r].given : t \in lib /\ Place(t, lib) >= offset /\ t \notin page
    <3> SUFFICES ASSUME NEW t \in job'[r].due, t \notin job'[r].given
                 PROVE  t \in lib /\ Place(t, lib) >= offset /\ t \notin page
      OBVIOUS
    <3>1. t \in due /\ t \notin missing /\ t \notin page /\ t \notin job[r].given
      BY <1>2
    <3> HIDE DEF lib, page
    <3> QED
      BY <3>1, <2>1, <1>8
  <2>3. \A t \in job'[r].due \ job'[r].given : t \in lib /\ Place(t, lib) >= offset + PageSize
    <3> SUFFICES ASSUME NEW t \in job'[r].due \ job'[r].given
                 PROVE  t \in lib /\ Place(t, lib) >= offset + PageSize
      OBVIOUS
    <3>1. t \in lib /\ Place(t, lib) >= offset
          /\ ~ (offset <= Place(t, lib) /\ Place(t, lib) < offset + PageSize)
      BY <2>2 DEF Page
    <3> HIDE DEF lib
    <3> QED
      BY <3>1, <2>1, <1>8, <1>9
  <2>4. job'[r].at = "done" => job'[r].due \subseteq job'[r].given
    <3> SUFFICES ASSUME offset >= Cardinality(lib), NEW t \in job'[r].due \ job'[r].given
                 PROVE  FALSE
      BY <1>2
    <3> HIDE DEF lib, page, due
    <3> QED
      BY <2>1, <2>3, <1>8, <1>9
  <2> HIDE DEF lib, page, due
  <2> QED
    BY <1>2, <1>9, <2>1, <2>3, <2>4 DEF OnItsWay
<1>11. SyncsHold'
  <2> SUFFICES ASSUME NEW q \in Requests, Enumerating(q)
               PROVE  /\ job'[q].at \in OnItsWay \cup {"done"} /\ job'[q].read \in Nat
                      /\ StillToCome(q)'
                      /\ At(q, "done")' => job'[q].due \subseteq job'[q].given
    BY <1>4 DEF SyncsHold
  <2>1. CASE q = r
    <3>1. StillToCome(r)'
      BY <2>1, <1>3, <1>4, <1>10 DEF StillToCome, Place, Uri
    <3> QED
      BY <2>1, <3>1, <1>10 DEF At
  <2>2. CASE q # r
    <3>1. job'[q] = job[q]
      BY <2>2, <1>2
    <3>2. /\ job[q].at \in OnItsWay \cup {"done"} /\ job[q].read \in Nat /\ StillToCome(q)
          /\ At(q, "done") => job[q].due \subseteq job[q].given
      BY DEF SyncInv, SyncsHold
    <3>3. StillToCome(q)'
      BY <3>1, <3>2, <1>3, <1>4 DEF StillToCome, Place, Uri
    <3> QED
      BY <3>1, <3>2, <3>3 DEF At
  <2> QED
    BY <2>1, <2>2
<1> QED
  BY <1>5, <1>11

(* The rows after a step of somebody who enumerates nothing.               *)
LEMMA RowsGrow ==
    ASSUME SyncInv, plan' = plan, NEW r \in Requests,
           \/ RowsStay
           \/ \E known \in BOOLEAN : StarCreates(r, known) \/ Ingest(r, known)
           \/ Unstar(r) \/ SetRating(r) \/ SavePlay(r) \/ SaveAlbumStar(r)
    PROVE  /\ RowsFinite'
           /\ \A u \in Users : ~ Unstarring(u) => stars[u] \subseteq stars'[u]
           /\ \A u \in Users : DOMAIN plays[u] \subseteq DOMAIN plays'[u]
<1> USE DEF SyncInv, IInv, Typed
<1>1. User(r) \in Users
  BY UsersAsk
<1>2. CASE RowsStay \/ SetRating(r) \/ \E known \in BOOLEAN : Ingest(r, known)
  BY <1>2 DEF RowsStay, rowVars, SetRating, Ingest, RowsFinite
<1>3. ASSUME NEW x, stars' = [stars EXCEPT ![User(r)] = @ \cup {x}], plays' = plays
      PROVE  /\ RowsFinite'
             /\ \A u \in Users : ~ Unstarring(u) => stars[u] \subseteq stars'[u]
             /\ \A u \in Users : DOMAIN plays[u] \subseteq DOMAIN plays'[u]
  <2>1. \A u \in Users : stars'[u] = stars[u] \/ stars'[u] = stars[u] \cup {x}
    BY <1>3
  <2>2. \A u \in Users : IsFiniteSet(stars[u] \cup {x})
    BY FS_AddElement DEF RowsFinite
  <2> QED
    BY <1>3, <2>1, <2>2 DEF RowsFinite
<1>4. CASE (\E known \in BOOLEAN : StarCreates(r, known)) \/ SaveAlbumStar(r)
  BY <1>3, <1>4 DEF StarCreates, SaveAlbumStar
<1>5. CASE Unstar(r)
  <2>1. stars' = [stars EXCEPT ![User(r)] = @ \ {That(r)}] /\ plays' = plays /\ Unstarring(User(r))
    BY <1>5 DEF Unstar, Unstarring
  <2>2. \A u \in Users : stars'[u] \subseteq stars[u] /\ (u # User(r) => stars'[u] = stars[u])
    BY <2>1
  <2>3. RowsFinite'
    BY <2>1, <2>2, FS_Subset DEF RowsFinite
  <2> QED
    BY <2>1, <2>2, <2>3
<1>6. CASE SavePlay(r)
  <2>1. stars' = stars /\ (plays' = plays \/ plays' = [plays EXCEPT ![User(r)] = With(@, That(r), job[r].read + 1)])
    BY <1>6 DEF SavePlay
  <2>2. \A u \in Users : \/ DOMAIN plays'[u] = DOMAIN plays[u]
                         \/ DOMAIN plays'[u] = DOMAIN plays[u] \cup {That(r)}
    BY <2>1, <1>1 DEF With
  <2>3. \A u \in Users : IsFiniteSet(DOMAIN plays[u] \cup {That(r)})
    BY FS_AddElement DEF RowsFinite
  <2> QED
    BY <2>1, <2>2, <2>3 DEF RowsFinite
<1> QED
  BY <1>2, <1>4, <1>5, <1>6

(* Which steps a client that enumerates takes besides.                     *)
LEMMA SyncsGoOn ==
    ASSUME SyncInv, IInv', plan' = plan, LibraryNext
    PROVE  RowsFinite' /\ SyncsHold'
<1>1. ASSUME NEW r \in Requests, NEW missing, Sync(r, missing) PROVE RowsFinite' /\ SyncsHold'
  BY <1>1, PagesGoOn
<1>2. ASSUME NEW u \in Users, ExpirePrefs(u) PROVE RowsFinite' /\ SyncsHold'
  <2>1. RowsStay /\ job' = job
    BY <1>2 DEF ExpirePrefs
  <2>2. RowsFinite' /\ \A v \in Users : stars[v] \subseteq stars'[v] /\ DOMAIN plays[v] \subseteq DOMAIN plays'[v]
    BY <2>1 DEF RowsStay, rowVars, SyncInv, RowsFinite
  <2> QED
    BY <2>1, <2>2, LibraryGrows
<1>3. ASSUME NEW r \in Requests,
             \/ RowsStay
             \/ \E known \in BOOLEAN : StarCreates(r, known) \/ Ingest(r, known)
             \/ Unstar(r) \/ SetRating(r) \/ SavePlay(r) \/ SaveAlbumStar(r),
             \A q \in Requests \ {r} : job'[q] = job[q],
             Enumerating(r) =>
               /\ job'[r].due = job[r].due /\ job'[r].given = job[r].given /\ job'[r].read = job[r].read
               /\ job'[r].at \in OnItsWay \/ job'[r].at = job[r].at
      PROVE  RowsFinite' /\ SyncsHold'
  <2>1. /\ RowsFinite'
        /\ \A u \in Users : ~ Unstarring(u) => stars[u] \subseteq stars'[u]
        /\ \A u \in Users : DOMAIN plays[u] \subseteq DOMAIN plays'[u]
    BY <1>3, RowsGrow
  <2> QED
    BY <1>3, <2>1, LibraryGrows
<1>4. ASSUME NEW r \in Requests, NEW step \in OnItsWay, To(r, step), RowsStay PROVE RowsFinite' /\ SyncsHold'
  <2>1. Jumps(r, step) /\ job'[r].due = job[r].due /\ job'[r].given = job[r].given /\ job'[r].read = job[r].read
    BY <1>4, ToJumps DEF SyncInv, IInv
  <2> QED
    BY <1>3, <1>4, <2>1 DEF Jumps
<1>5. ASSUME NEW r \in Requests, Warm(r) \/ ReadStars(r) \/ ReadRatings(r) \/ ReadPlays(r) \/ StorePrefs(r)
      PROVE  RowsFinite' /\ SyncsHold'
  BY <1>4, <1>5 DEF Warm, ReadStars, ReadRatings, ReadPlays, ReadFor, StorePrefs, OnItsWay
<1>6. ASSUME NEW r \in Requests,
             \/ Invalidate(r) \/ StarLooks(r) \/ ReadPlay(r) \/ ReadAlbumStar(r) \/ ApplyPrefs(r)
             \/ \E known \in BOOLEAN : StarCreates(r, known) \/ Ingest(r, known)
             \/ Unstar(r) \/ SetRating(r) \/ SavePlay(r) \/ SaveAlbumStar(r)
             \/ \E k \in Kinds : \E fetched : ListStarred(r, k, fetched)
      PROVE  RowsFinite' /\ SyncsHold'
  <2>1. ~ Enumerating(r)
    <3> SUFFICES ASSUME Enumerating(r) PROVE FALSE
      OBVIOUS
    <3>1. job[r].at \in OnItsWay \cup {"done"} /\ Op(r, "sync")
      BY DEF SyncInv, SyncsHold, Enumerating
    <3> QED
      BY <1>6, <3>1 DEF OnItsWay, Op, At, Invalidate, StarLooks, ReadPlay, ReadAlbumStar, ApplyPrefs, StarCreates,
                        Ingest, Unstar, SetRating, SavePlay, SaveAlbumStar, ListStarred
  <2>2. \A q \in Requests \ {r} : job'[q] = job[q]
    BY <1>6 DEF SyncInv, IInv, Typed, To, Done, Invalidate, StarLooks, ReadPlay, ReadAlbumStar, ApplyPrefs,
                StarCreates,
                Ingest, Unstar, SetRating, SavePlay, SaveAlbumStar, ListStarred
  <2>3. \/ RowsStay
        \/ \E known \in BOOLEAN : StarCreates(r, known) \/ Ingest(r, known)
        \/ Unstar(r) \/ SetRating(r) \/ SavePlay(r) \/ SaveAlbumStar(r)
    BY <1>6 DEF Invalidate, StarLooks, ReadPlay, ReadAlbumStar, ApplyPrefs, ListStarred
  <2> QED
    BY <1>3, <2>1, <2>2, <2>3
<1> QED
  BY <1>1, <1>2, <1>5, <1>6 DEF LibraryNext, Work

-----------------------------------------------------------------------------
(* The theorems                                                            *)

(* A request takes one step, or an entry gets too old.                     *)
LEMMA LibraryKeeps ==
    ASSUME IInv, plan' = plan, LibraryNext
    PROVE  IInv'
<1>1. ASSUME NEW u \in Users, ExpirePrefs(u) PROVE IInv'
  BY <1>1, ExpirePrefsKeeps
<1>2. ASSUME NEW r \in Requests, Work(r) PROVE IInv'
  <2>1. CASE Warm(r) \/ StarLooks(r) \/ ReadPlay(r) \/ ReadAlbumStar(r) \/ ApplyPrefs(r)
    BY <2>1, WarmKeeps, StarLooksKeeps, ReadPlayKeeps, ReadAlbumStarKeeps, ApplyPrefsKeeps
  <2>2. CASE ReadStars(r)
    <3>1. Tables("ratings") = Tables("stars") \cup {"stars"}
      BY DEF Tables
    <3> QED
      BY <2>2, <3>1, ReadForKeeps DEF ReadStars
  <2>3. CASE ReadRatings(r)
    <3>1. Tables("plays") = Tables("ratings") \cup {"ratings"}
      BY DEF Tables
    <3> QED
      BY <2>3, <3>1, ReadForKeeps DEF ReadRatings
  <2>4. CASE ReadPlays(r)
    <3>1. Tables("store") = Tables("plays") \cup {"plays"}
      BY DEF Tables
    <3> QED
      BY <2>4, <3>1, ReadForKeeps DEF ReadPlays
  <2>5. CASE StorePrefs(r) \/ Invalidate(r)
    BY <2>5, StorePrefsKeeps, InvalidateKeeps
  <2>6. CASE \E known \in BOOLEAN : StarCreates(r, known) \/ Ingest(r, known)
    BY <2>6, StarCreatesKeeps, IngestKeeps
  <2>7. CASE Unstar(r) \/ SetRating(r) \/ SavePlay(r) \/ SaveAlbumStar(r)
    BY <2>7, UnstarKeeps, SetRatingKeeps, SavePlayKeeps, SaveAlbumStarKeeps
  <2>8. ASSUME NEW k \in Kinds, NEW fetched, ListStarred(r, k, fetched) PROVE IInv'
    BY <2>8, ListStarredKeeps
  <2>9. ASSUME NEW missing, Sync(r, missing) PROVE IInv'
    BY <2>9, SyncKeeps
  <2> QED
    BY <1>2, <2>1, <2>2, <2>3, <2>4, <2>5, <2>6, <2>7, <2>8, <2>9 DEF Work
<1> QED
  BY <1>1, <1>2 DEF LibraryNext

(* A search writes neither the plan nor the stars.                         *)
LEMMA SearchReads ==
    ASSUME SearchNext
    PROVE  UNCHANGED <<plan, stars>>
BY DEF SearchNext, ServeSearchThree, SearchWork, Answers, Collect, Mark, Leave, Panics, Forget

LEMMA StaysKept ==
    ASSUME IInv, UNCHANGED <<plan, stars, rowVars, prefVars, job>>
    PROVE  IInv'
<1> USE DEF rowVars, prefVars
<1>1. Typed' /\ PlaysCount' /\ OwnSteps' /\ ScrobblesSaved' /\ ListedAreGiven'
  BY DEF IInv, Typed, PlaysCount, OwnSteps, ScrobblesSaved, ListedAreGiven, Fits, Op, That, User, Ask
<1>2. FillsAreCurrent'
  BY ZenonT(60) DEF IInv, FillsAreCurrent, Filling, Snapshot, User, Ask, Overtaken, Wrote, PartOf
<1>3. CopiesAreCurrent'
  <2>1. \A u \in Users : Snapshot(u)' = Snapshot(u) /\ (Overtaken(u)' <=> Overtaken(u))
    BY DEF Snapshot, Overtaken, User, Ask, Wrote
  <2> QED
    BY <2>1 DEF IInv, CopiesAreCurrent
<1> QED
  BY <1>1, <1>2, <1>3 DEF IInv

LEMMA InitHolds == Init => IInv
<1> SUFFICES ASSUME Init
             PROVE  IInv
  OBVIOUS
<1>1. plan \in Plans /\ DOMAIN stars = Users
  BY PlansAssumption DEF Init, SearchInit
<1>2. \A r \in Requests : /\ DOMAIN job[r] = Fields /\ job[r].at = "warm" /\ ~ Filling(r)
                          /\ job[r].due = {} /\ job[r].given = {} /\ fill[r] = Empty
  BY DEF Init, Fields, Filling
<1>3. Typed
  BY <1>1, <1>2 DEF Typed, Init
<1>4. PlaysCount
  BY DEF PlaysCount, Init
<1>5. CopiesAreCurrent
  BY DEF CopiesAreCurrent, Init
<1>6. FillsAreCurrent /\ OwnSteps /\ ScrobblesSaved /\ ListedAreGiven
  BY <1>2 DEF FillsAreCurrent, OwnSteps, Fits, Playing, ScrobblesSaved, Saved, ListedAreGiven
<1> QED
  BY <1>3, <1>4, <1>5, <1>6 DEF IInv

LEMMA Invariance == Spec => []IInv
<1>1. IInv /\ [Next]_vars => IInv'
  <2> SUFFICES ASSUME IInv, [Next]_vars
               PROVE  IInv'
    OBVIOUS
  <2>1. CASE SearchNext /\ UNCHANGED <<rowVars, prefVars, job>>
    BY <2>1, SearchReads, StaysKept
  <2>2. CASE LibraryNext /\ UNCHANGED <<plan, searchVars>>
    BY <2>2, LibraryKeeps
  <2>3. CASE UNCHANGED vars
    BY <2>3, StaysKept DEF vars
  <2> QED
    BY <2>1, <2>2, <2>3 DEF Next
<1> QED
  BY <1>1, InitHolds, PTL DEF Spec

(* The library's part of the composition.                                  *)
LEMMA LibraryTakesPart == SubsonicSpec => Spec
<1>1. SubsonicInit => Init
  BY DEF SubsonicInit
<1>2. [SubsonicNext]_all => [Next]_vars
  BY DEF SubsonicNext, LibraryStep, StreamStep, YouTubeStep, all
<1> QED
  BY <1>1, <1>2, PTL DEF SubsonicSpec, Spec

(* The cached copy of a user's stars, ratings and plays is what the tables *)
(* say, whoever reads, stores, writes and deletes in whatever order, but   *)
(* while a handler has written and not yet deleted it, and after a deletion*)
(* that a request overlapped which was reading for it.                     *)
THEOREM CopyIsCurrent == SubsonicSpec => []PrefsCurrent
<1>1. IInv => PrefsCurrent
  BY DEF IInv, CopiesAreCurrent, Overtaken, PrefsCurrent
<1> QED
  BY <1>1, Invariance, LibraryTakesPart, PTL

(* Whatever the provider said of the track and whatever else went on, the  *)
(* track of a scrobble that was answered is in the user's library, played, *)
(* and so is its album once the provider told which it is.                 *)
THEOREM AnsweredScrobblesStay == SubsonicSpec => []ScrobbledIsKept
<1>1. IInv => ScrobbledIsKept
  <2> SUFFICES ASSUME IInv, NEW r \in Requests, Op(r, "scrobble"), At(r, "done")
               PROVE  /\ That(r) \in GetVirtualLibraryTrackIDs(User(r))
                      /\ Count(plays[User(r)], That(r)) > 0
                      /\ That(r) \in metadata => AlbumOf(That(r)) \in GetVirtualLibraryAlbumIDs(User(r))
    BY DEF ScrobbledIsKept
  <2>1. That(r) \in DOMAIN plays[User(r)]
    BY DEF IInv, ScrobblesSaved, Saved, At
  <2>2. plays[User(r)][That(r)] \in Nat \ {0}
    BY <2>1, UsersAsk DEF IInv, PlaysCount
  <2>3. That(r) \in UsersTracks(User(r))
    BY <2>1 DEF UsersTracks
  <2>4. Count(plays[User(r)], That(r)) > 0
    BY <2>1, <2>2 DEF Count
  <2> QED
    BY <2>3, <2>4 DEF GetVirtualLibraryTrackIDs, GetVirtualLibraryAlbumIDs
<1> QED
  BY <1>1, Invariance, LibraryTakesPart, PTL

(* The starred list has every track its user starred when the tracks were  *)
(* read, though no provider gave it, and every album and artist that a     *)
(* provider gave or its row can name.                                      *)
THEOREM StarredListIsWhole == SubsonicSpec => []StarredAreListed
<1>1. IInv => StarredAreListed
  BY DEF IInv, ListedAreGiven, StarredAreListed
<1> QED
  BY <1>1, Invariance, LibraryTakesPart, PTL

LEMMA SyncInvariance == Spec => []SyncInv
<1>1. Init => RowsFinite /\ SyncsHold
  <2> SUFFICES ASSUME Init
               PROVE  RowsFinite /\ SyncsHold
    OBVIOUS
  <2>1. \A u \in Users : IsFiniteSet(plan.starred[u]) /\ IsFiniteSet(plan.played)
    BY LibraryAssumption DEF Init, SearchInit
  <2>2. \A u \in Users : stars[u] = plan.starred[u] /\ DOMAIN plays[u] = plan.played
    BY DEF Init, SearchInit
  <2>3. \A r \in Requests : job[r] = [at |-> "warm", read |-> 0, due |-> {}, given |-> {}]
    BY DEF Init
  <2> QED
    BY <2>1, <2>2, <2>3 DEF RowsFinite, SyncsHold, StillToCome, OnItsWay, At
<1>2. SyncInv /\ IInv' /\ [Next]_vars => SyncInv'
  <2> SUFFICES ASSUME SyncInv, IInv', [Next]_vars
               PROVE  RowsFinite' /\ SyncsHold'
    BY DEF SyncInv
  <2>1. CASE LibraryNext /\ UNCHANGED <<plan, searchVars>>
    BY <2>1, SyncsGoOn
  <2>2. CASE UNCHANGED <<plan, stars, rowVars, prefVars, job>>
    <3>1. RowsFinite' /\ \A v \in Users : stars[v] \subseteq stars'[v] /\ DOMAIN plays[v] \subseteq DOMAIN plays'[v]
      BY <2>2 DEF rowVars, SyncInv, RowsFinite
    <3> QED
      BY <2>2, <3>1, LibraryGrows
  <2> QED
    BY <2>1, <2>2, SearchReads DEF Next, vars
<1>3. IInv /\ RowsFinite /\ SyncsHold <=> SyncInv
  BY DEF SyncInv
<1> QED
  BY <1>1, <1>2, <1>3, Invariance, InitHolds, PTL DEF Spec

(* A client that enumerates a library page by page, however large a page   *)
(* is and whatever is added between two pages, gets everything that was in *)
(* it at the beginning and that a provider gave.                           *)
THEOREM LibraryIsEnumerated == SubsonicSpec => []SyncComplete
<1>1. SyncInv => SyncComplete
  BY DEF SyncInv, SyncsHold, Enumerating, SyncComplete
<1> QED
  BY <1>1, SyncInvariance, LibraryTakesPart, PTL

-----------------------------------------------------------------------------
(* Recursion along a sequence                                              *)

LEMMA LeastOf ==
    ASSUME NEW T, T \subseteq Nat, T # {}
    PROVE  \E m \in T : \A k \in T : m <= k
<1>1. PICK m \in T : \A k \in T : ~ (<<k, m>> \in OpToRel(<, Nat))
  BY NatLessThanWellFounded, WFMin
<1>2. \A k \in T : ~ (k < m)
  BY <1>1 DEF OpToRel
<1> QED
  BY <1>2

(* What holds at the beginning and passes on from each place to the next   *)
(* holds to the end.                                                       *)
LEMMA UpTo ==
    ASSUME NEW n \in Nat, NEW S, 0 \in S, \A i \in 1..n : i - 1 \in S => i \in S
    PROVE  0..n \subseteq S
<1> DEFINE T == (0..n) \ S
<1>1. ASSUME T # {} PROVE FALSE
  <2>1. PICK m \in T : \A k \in T : m <= k
    <3> T \subseteq Nat
      OBVIOUS
    <3> HIDE DEF T
    <3> QED
      BY <1>1, LeastOf
  <2>2. m \in 1..n
    OBVIOUS
  <2>3. m - 1 \in 0..n /\ m - 1 \notin T
    BY <2>1, <2>2
  <2> QED
    BY <2>2, <2>3
<1> QED
  BY <1>1

(* step gives for each place a function of what came before it.            *)
Closed(step, n, R) == \A i \in 1..n : \A r \in R : step[i][r] \in R
Unfolds(f, n, base, step) == f[0] = base /\ \A i \in 1..n : f[i] = step[i][f[i - 1]]

LEMMA RecursionExists ==
    ASSUME NEW n \in Nat, NEW R, NEW base \in R, NEW step, Closed(step, n, R)
    PROVE  \E f \in [0..n -> R] : Unfolds(f, n, base, step)
<1> DEFINE T == {k \in 0..n : \E f \in [0..k -> R] : Unfolds(f, k, base, step)}
<1>1. 0 \in T
  <2> DEFINE f == [i \in 0..0 |-> base]
  <2>1. f \in [0..0 -> R] /\ Unfolds(f, 0, base, step)
    BY DEF Unfolds
  <2> QED
    BY <2>1
<1>2. ASSUME NEW m \in 1..n, m - 1 \in T PROVE m \in T
  <2>1. PICK g \in [0..(m - 1) -> R] : Unfolds(g, m - 1, base, step)
    BY <1>2
  <2> DEFINE f == [i \in 0..m |-> IF i = m THEN step[m][g[m - 1]] ELSE g[i]]
  <2>2. f \in [0..m -> R]
    BY <2>1 DEF Closed
  <2>3. f[0] = base
    BY <2>1 DEF Unfolds
  <2>4. ASSUME NEW i \in 1..m PROVE f[i] = step[i][f[i - 1]]
    <3>1. f[i - 1] = g[i - 1]
      OBVIOUS
    <3> QED
      BY <2>1, <3>1 DEF Unfolds
  <2>5. Unfolds(f, m, base, step)
    BY <2>3, <2>4 DEF Unfolds
  <2> HIDE DEF f
  <2> QED
    BY <2>2, <2>5
<1>3. 0..n \subseteq T
  <2> HIDE DEF T
  <2> QED
    BY <1>1, <1>2, UpTo
<1>4. n \in T
  BY <1>3
<1> QED
  BY <1>4

-----------------------------------------------------------------------------
(* What searches merge                                                     *)

(* A set of the first places of a sequence, without a gap, is told by its  *)
(* size.                                                                   *)
LEMMA FirstPlaces ==
    ASSUME NEW n \in Nat, NEW D \in SUBSET (1..n), \A i \in D : \A j \in 1..i : j \in D
    PROVE  Cardinality(D) \in 0..n /\ D = 1..Cardinality(D)
<1> DEFINE above == {k \in 0..n : \A d \in D : d <= k}
<1>1. n \in above
  OBVIOUS
<1>2. PICK m \in above : \A k \in above : m <= k
  <2>1. above \subseteq Nat /\ above # {}
    BY <1>1
  <2> HIDE DEF above
  <2> QED
    BY <2>1, LeastOf
<1>3. m = 0 \/ m \in D
  <2> SUFFICES ASSUME m # 0, m \notin D PROVE FALSE
    OBVIOUS
  <2>1. m - 1 \in above
    OBVIOUS
  <2> QED
    BY <1>2, <2>1
<1>4. m \in 0..n /\ D = 1..m
  <2>1. m \in 0..n /\ \A d \in D : d <= m
    OBVIOUS
  <2>2. ASSUME NEW d \in D PROVE d \in 1..m
    BY <2>1
  <2>3. ASSUME NEW d \in 1..m PROVE d \in D
    BY <1>3, <2>3
  <2> QED
    BY <2>1, <2>2, <2>3
<1>5. Cardinality(1..m) = m
  BY <1>4, FS_Interval
<1> QED
  BY <1>4, <1>5

PutAt(t, s, e, place) ==
    /\ Len(t) = Len(s) + 1 /\ t[place + 1] = e
    /\ \A i \in 1..place : t[i] = s[i]
    /\ \A i \in (place + 2)..(Len(s) + 1) : t[i] = s[i - 1]

LEMMA PutPlaces ==
    ASSUME NEW X, NEW s \in Seq(X), NEW e \in X, NEW place \in 0..Len(s)
    PROVE  Put(s, e, place) \in Seq(X) /\ PutAt(Put(s, e, place), s, e, place)
<1> DEFINE before == SubSeq(s, 1, place)
           after == SubSeq(s, place + 1, Len(s))
<1>1. /\ before \in Seq(X) /\ Len(before) = place /\ \A i \in 1..place : before[i] = s[i]
      /\ after \in Seq(X) /\ Len(after) = Len(s) - place
      /\ \A i \in 1..(Len(s) - place) : after[i] = s[place + i]
  OBVIOUS
<1>2. Put(s, e, place) = (before \o <<e>>) \o after
  BY DEF Put
<1> HIDE DEF before, after
<1>3. /\ before \o <<e>> \in Seq(X) /\ Len(before \o <<e>>) = place + 1
      /\ \A i \in 1..place : (before \o <<e>>)[i] = s[i]
      /\ (before \o <<e>>)[place + 1] = e
  BY <1>1
<1> DEFINE upto == before \o <<e>>
<1>4. upto \in Seq(X) /\ Len(upto) = place + 1
  BY <1>3
<1> HIDE DEF upto
<1>5. /\ upto \o after \in Seq(X) /\ Len(upto \o after) = Len(upto) + Len(after)
      /\ \A i \in 1..(Len(upto) + Len(after)) :
            (upto \o after)[i] = IF i <= Len(upto) THEN upto[i] ELSE after[i - Len(upto)]
  BY ZenonT(60), <1>1, <1>4, ConcatProperties
<1>6. \A i \in (place + 2)..(Len(s) + 1) : after[i - (place + 1)] = s[i - 1]
  <2> SUFFICES ASSUME NEW i \in (place + 2)..(Len(s) + 1)
               PROVE  after[i - (place + 1)] = s[i - 1]
    OBVIOUS
  <2>1. i - (place + 1) \in 1..(Len(s) - place) /\ place + (i - (place + 1)) = i - 1
    OBVIOUS
  <2> QED
    BY <1>1, <2>1
<1>7. Len(upto) + Len(after) = Len(s) + 1
  BY <1>1, <1>4
<1>8. \A i \in 1..(place + 1) : (upto \o after)[i] = upto[i]
  BY <1>4, <1>5, <1>7
<1>9. \A i \in (place + 2)..(Len(s) + 1) : (upto \o after)[i] = s[i - 1]
  BY <1>4, <1>5, <1>6, <1>7
<1>10. Put(s, e, place) = upto \o after /\ \A i \in 1..place : upto[i] = s[i]
  BY <1>2, <1>3 DEF upto
<1>11. upto[place + 1] = e
  BY <1>3 DEF upto
<1> QED
  BY <1>5, <1>7, <1>8, <1>9, <1>10, <1>11 DEF PutAt

(* What is sorted, the best first, and what holds a title once.            *)
Sorted(s, key) == \A i, j \in DOMAIN s : i < j => key[s[i]] >= key[s[j]]
Once(s) == \A i, j \in DOMAIN s : s[i].title = s[j].title => i = j
Holds(s, e) == \E i \in DOMAIN s : s[i] = e

NotWorse(s, key, e) == {i \in DOMAIN s : key[s[i]] >= key[e]}
PutSorted(s, key, e) == Put(s, e, Cardinality(NotWorse(s, key, e)))

PutRight(t, s, key, X, e) ==
    /\ t \in Seq(X) /\ Sorted(t, key)
    /\ \A f : Holds(t, f) <=> Holds(s, f) \/ f = e
    /\ Once(s) /\ (\A i \in DOMAIN s : s[i].title # e.title) => Once(t)

LEMMA PutKeeps ==
    ASSUME NEW X, NEW key \in [X -> Nat], NEW s \in Seq(X), Sorted(s, key), NEW e \in X
    PROVE  PutRight(PutSorted(s, key, e), s, key, X, e)
<1> DEFINE D == NotWorse(s, key, e)
           place == Cardinality(D)
           t == PutSorted(s, key, e)
           n == Len(s)
<1>1. n \in Nat /\ DOMAIN s = 1..n /\ \A i \in 1..n : s[i] \in X /\ key[s[i]] \in Nat
  OBVIOUS
<1>2. key[e] \in Nat
  OBVIOUS
<1>3. place \in 0..n /\ D = 1..place
  <2>1. D \in SUBSET (1..n)
    BY <1>1 DEF NotWorse
  <2>2. \A i \in D : \A j \in 1..i : j \in D
    <3> SUFFICES ASSUME NEW i \in D, NEW j \in 1..i PROVE j \in D
      OBVIOUS
    <3>1. i \in 1..n /\ j \in 1..n /\ key[s[i]] >= key[e]
      BY <1>1 DEF NotWorse
    <3>2. key[s[j]] >= key[s[i]]
      BY <1>1, <3>1 DEF Sorted
    <3> QED
      BY <1>1, <1>2, <3>1, <3>2 DEF NotWorse
  <2> HIDE DEF D, n
  <2> QED
    BY <1>1, <2>1, <2>2, FirstPlaces
<1>4. \A i \in 1..n : i <= place <=> key[s[i]] >= key[e]
  BY <1>1, <1>3 DEF NotWorse
<1> HIDE DEF D
<1>5. t = Put(s, e, place)
  BY DEF PutSorted, D
<1> HIDE DEF t, place
<1>6. /\ t \in Seq(X) /\ Len(t) = n + 1 /\ \A i \in 1..place : t[i] = s[i]
      /\ t[place + 1] = e /\ \A i \in (place + 2)..(n + 1) : t[i] = s[i - 1]
  <2>1. place \in 0..Len(s)
    BY <1>3
  <2>2. n = Len(s)
    OBVIOUS
  <2>3. Put(s, e, place) \in Seq(X) /\ PutAt(Put(s, e, place), s, e, place)
    BY <2>1, PutPlaces
  <2> HIDE DEF n
  <2> QED
    BY <1>5, <2>2, <2>3 DEF PutAt
<1> HIDE DEF n
<1>7. DOMAIN t = 1..(n + 1)
  BY <1>1, <1>6
<1>8. \A i \in 1..(n + 1) : \/ i \in 1..place /\ i \in 1..n
                            \/ i = place + 1
                            \/ i \in (place + 2)..(n + 1) /\ i - 1 \in 1..n
  BY <1>1, <1>3
<1>9. Sorted(t, key)
  <2> SUFFICES ASSUME NEW i \in 1..(n + 1), NEW j \in 1..(n + 1), i < j
               PROVE  key[t[i]] >= key[t[j]]
    BY <1>7 DEF Sorted
  <2>1. CASE i \in 1..place
    <3>1. t[i] = s[i] /\ key[s[i]] >= key[e] /\ i \in 1..n
      BY <1>3, <1>4, <1>6, <1>8, <2>1
    <3>2. CASE j = place + 1
      BY <1>6, <3>1, <3>2
    <3>3. CASE j \in 1..place
      <4>1. t[j] = s[j] /\ j \in 1..n
        BY <1>1, <1>3, <1>6, <3>3
      <4> QED
        BY <1>1, <3>1, <4>1 DEF Sorted
    <3>4. CASE j \in (place + 2)..(n + 1)
      <4>1. t[j] = s[j - 1] /\ j - 1 \in 1..n /\ i < j - 1
        BY <1>1, <1>3, <1>6, <2>1, <3>4
      <4> QED
        BY <1>1, <3>1, <4>1 DEF Sorted
    <3> QED
      BY <1>8, <3>2, <3>3, <3>4
  <2>2. CASE i = place + 1
    <3>1. j \in (place + 2)..(n + 1) /\ j - 1 \in 1..n /\ ~ (j - 1 <= place)
      BY <1>1, <1>3, <2>2
    <3>2. t[j] = s[j - 1] /\ ~ (key[s[j - 1]] >= key[e])
      BY <1>4, <1>6, <3>1
    <3> QED
      BY <1>1, <1>2, <1>6, <2>2, <3>1, <3>2
  <2>3. CASE i \in (place + 2)..(n + 1)
    <3>1. /\ j \in (place + 2)..(n + 1) /\ i - 1 \in 1..n /\ j - 1 \in 1..n /\ i - 1 < j - 1
      BY <1>1, <1>3, <2>3
    <3> QED
      BY ZenonT(60), <1>1, <1>6, <2>3, <3>1 DEF Sorted
  <2> QED
    BY <1>8, <2>1, <2>2, <2>3
<1>10. ASSUME NEW f PROVE Holds(t, f) <=> Holds(s, f) \/ f = e
  <2>1. ASSUME NEW i \in 1..n, s[i] = f PROVE Holds(t, f)
    <3>1. CASE i \in 1..place
      <4>1. i \in 1..(n + 1) /\ t[i] = f
        BY <1>1, <1>6, <2>1, <3>1
      <4> QED
        BY <1>7, <4>1 DEF Holds
    <3>2. CASE i \notin 1..place
      <4>1. i + 1 \in (place + 2)..(n + 1) /\ i + 1 \in 1..(n + 1) /\ (i + 1) - 1 = i
        BY <1>1, <1>3, <3>2
      <4>2. t[i + 1] = f
        BY <1>6, <2>1, <4>1
      <4> QED
        BY <1>7, <4>1, <4>2 DEF Holds
    <3> QED
      BY <3>1, <3>2
  <2>2. Holds(t, e)
    <3>1. place + 1 \in 1..(n + 1)
      BY <1>1, <1>3
    <3> QED
      BY <1>6, <1>7, <3>1 DEF Holds
  <2>3. ASSUME NEW i \in 1..(n + 1), t[i] = f PROVE Holds(s, f) \/ f = e
    BY <1>1, <1>6, <1>8, <2>3 DEF Holds
  <2> QED
    BY <1>1, <1>7, <2>1, <2>2, <2>3 DEF Holds
<1>11. ASSUME Once(s), \A i \in DOMAIN s : s[i].title # e.title PROVE Once(t)
  <2> SUFFICES ASSUME NEW i \in 1..(n + 1), NEW j \in 1..(n + 1), t[i].title = t[j].title
               PROVE  i = j
    BY <1>7 DEF Once
  <2>1. CASE i = place + 1 \/ j = place + 1
    BY <1>1, <1>6, <1>8, <1>11, <2>1
  <2>2. CASE i # place + 1 /\ j # place + 1
    <3> DEFINE from(m) == IF m \in 1..place THEN m ELSE m - 1
    <3>1. /\ from(i) \in 1..n /\ t[i] = s[from(i)]
          /\ from(j) \in 1..n /\ t[j] = s[from(j)]
      <4>1. ASSUME NEW m \in 1..(n + 1), m # place + 1 PROVE from(m) \in 1..n /\ t[m] = s[from(m)]
        <5>1. CASE m \in 1..place
          BY <1>1, <1>3, <1>6, <5>1
        <5>2. CASE m \notin 1..place
          BY <1>1, <1>3, <1>6, <1>8, <4>1, <5>2
        <5> QED
          BY <5>1, <5>2
      <4> QED
        BY <2>2, <4>1
    <3>2. from(i) = from(j)
      BY <1>1, <1>11, <3>1 DEF Once
    <3> QED
      BY <1>3, <1>8, <2>2, <3>2
  <2> QED
    BY <2>1, <2>2
<1> QED
  BY <1>6, <1>9, <1>10, <1>11 DEF t, PutRight

(* Insertion, entry by entry.                                              *)
SortedSeqs(X, key) == {t \in Seq(X) : Sorted(t, key)}

Sorts(f, s, key, X) ==
    f[0] = <<>> /\ \A i \in 1..Len(s) : f[i - 1] \in Seq(X) => f[i] = PutSorted(f[i - 1], key, s[i])

LEMMA SortExists ==
    ASSUME NEW X, NEW key \in [X -> Nat], NEW s \in Seq(X)
    PROVE  \E f \in [0..Len(s) -> Seq(X)] : Sorts(f, s, key, X)
<1> DEFINE n == Len(s)
           R == SortedSeqs(X, key)
           step == [i \in 1..n |-> [r \in R |-> PutSorted(r, key, s[i])]]
<1>1. n \in Nat /\ \A i \in 1..n : s[i] \in X
  OBVIOUS
<1>2. <<>> \in R
  BY DEF SortedSeqs, Sorted
<1>3. ASSUME NEW i \in 1..n, NEW r \in R PROVE PutSorted(r, key, s[i]) \in R
  <2>1. r \in Seq(X) /\ Sorted(r, key) /\ s[i] \in X
    BY <1>1 DEF SortedSeqs
  <2> QED
    BY <2>1, PutKeeps DEF SortedSeqs, PutRight
<1> HIDE DEF n, R
<1>4. Closed(step, n, R) /\ \A i \in 1..n, r \in R : step[i][r] = PutSorted(r, key, s[i])
  BY <1>3 DEF Closed
<1> HIDE DEF step
<1>5. PICK f \in [0..n -> R] : Unfolds(f, n, <<>>, step)
  BY <1>1, <1>2, <1>4, RecursionExists
<1>6. \A i \in 1..n : f[i - 1] \in R /\ f[i] = PutSorted(f[i - 1], key, s[i])
  <2> SUFFICES ASSUME NEW i \in 1..n PROVE f[i - 1] \in R /\ f[i] = PutSorted(f[i - 1], key, s[i])
    OBVIOUS
  <2>1. f[i - 1] \in R /\ f[i] = step[i][f[i - 1]]
    BY <1>1, <1>5 DEF Unfolds
  <2> QED
    BY <1>4, <2>1
<1>7. R \subseteq Seq(X)
  BY DEF R, SortedSeqs
<1>8. f \in [0..n -> Seq(X)] /\ f[0] = <<>>
  BY <1>5, <1>7 DEF Unfolds
<1> QED
  BY <1>6, <1>8 DEF n, Sorts

SortedUpTo(t, s, key, X, i) ==
    /\ t \in Seq(X) /\ Sorted(t, key)
    /\ \A f : Holds(t, f) <=> \E j \in 1..i : s[j] = f
    /\ Once(s) => Once(t)

LEMMA SortsAll ==
    ASSUME NEW X, NEW key \in [X -> Nat], NEW s \in Seq(X), NEW f, Sorts(f, s, key, X)
    PROVE  /\ f[Len(s)] \in Seq(X) /\ Sorted(f[Len(s)], key)
           /\ \A e : Holds(f[Len(s)], e) <=> Holds(s, e)
           /\ Once(s) => Once(f[Len(s)])
<1> DEFINE n == Len(s)
           S == {i \in 0..n : SortedUpTo(f[i], s, key, X, i)}
<1>1. n \in Nat /\ DOMAIN s = 1..n /\ \A i \in 1..n : s[i] \in X
  OBVIOUS
<1>2. 0 \in S
  <2>1. <<>> \in Seq(X) /\ DOMAIN <<>> = {} /\ 1..0 = {} /\ 0 \in 0..n
    BY <1>1
  <2>2. Sorted(<<>>, key) /\ Once(<<>>) /\ \A e : ~ Holds(<<>>, e)
    BY <2>1 DEF Sorted, Holds, Once
  <2>3. SortedUpTo(<<>>, s, key, X, 0)
    BY <2>1, <2>2 DEF SortedUpTo
  <2> HIDE DEF n
  <2> QED
    BY <2>1, <2>3 DEF Sorts
<1>3. ASSUME NEW i \in 1..n, i - 1 \in S PROVE i \in S
  <2>1. SortedUpTo(f[i - 1], s, key, X, i - 1) /\ s[i] \in X
    BY <1>1, <1>3
  <2>2. f[i] = PutSorted(f[i - 1], key, s[i]) /\ f[i - 1] \in Seq(X) /\ Sorted(f[i - 1], key)
    BY <2>1 DEF SortedUpTo, Sorts
  <2>3. /\ f[i] \in Seq(X) /\ Sorted(f[i], key)
        /\ \A e : Holds(f[i], e) <=> Holds(f[i - 1], e) \/ e = s[i]
        /\ Once(f[i - 1]) /\ (\A j \in DOMAIN f[i - 1] : f[i - 1][j].title # s[i].title) => Once(f[i])
    <3>1. PutRight(f[i], f[i - 1], key, X, s[i])
      BY <2>1, <2>2, PutKeeps
    <3> QED
      BY <3>1 DEF PutRight
  <2>4. \A e : Holds(f[i - 1], e) <=> \E j \in 1..(i - 1) : s[j] = e
    BY <2>1 DEF SortedUpTo
  <2> HIDE DEF n
  <2>5. ASSUME NEW e PROVE Holds(f[i], e) <=> \E j \in 1..i : s[j] = e
    <3>1. (\E j \in 1..i : s[j] = e) <=> (\E j \in 1..(i - 1) : s[j] = e) \/ s[i] = e
      BY <1>1
    <3> QED
      BY <2>3, <2>4, <3>1
  <2>6. ASSUME Once(s) PROVE Once(f[i])
    <3>1. Once(f[i - 1])
      BY <2>1, <2>6 DEF SortedUpTo
    <3>2. ASSUME NEW j \in DOMAIN f[i - 1], f[i - 1][j].title = s[i].title PROVE FALSE
      <4>1. Holds(f[i - 1], f[i - 1][j])
        BY DEF Holds
      <4>2. PICK m \in 1..(i - 1) : s[m] = f[i - 1][j]
        BY <2>4, <4>1
      <4>3. m \in DOMAIN s /\ i \in DOMAIN s /\ m # i
        BY <1>1
      <4> QED
        BY <2>6, <3>2, <4>2, <4>3 DEF Once
    <3> QED
      BY <2>3, <3>1, <3>2
  <2>7. SortedUpTo(f[i], s, key, X, i)
    BY <2>3, <2>5, <2>6 DEF SortedUpTo
  <2> QED
    BY <1>1, <2>7
<1>4. 0..n \subseteq S
  <2> HIDE DEF S, n
  <2> QED
    BY <1>1, <1>2, <1>3, UpTo
<1>5. SortedUpTo(f[n], s, key, X, n)
  BY <1>1, <1>4
<1> HIDE DEF n, S
<1>6. \A e : Holds(s, e) <=> \E j \in 1..n : s[j] = e
  BY <1>1 DEF Holds
<1> QED
  BY <1>5, <1>6 DEF SortedUpTo, n

(* Only the first of each title.                                           *)
FirstsUpTo(t, s, key, X, i) ==
    /\ t \in Seq(X) /\ Sorted(t, key) /\ Once(t)
    /\ \A m \in DOMAIN t : \E j \in 1..i : t[m] = s[j]
    /\ \A j \in 1..i : \E m \in DOMAIN t : t[m].title = s[j].title /\ key[t[m]] >= key[s[j]]

LEMMA AddsFirst ==
    ASSUME NEW X, NEW key \in [X -> Nat], NEW s \in Seq(X), Sorted(s, key), NEW i \in 1..Len(s),
           NEW t, FirstsUpTo(t, s, key, X, i - 1)
    PROVE  FirstsUpTo(AddTitle(t, s[i]), s, key, X, i)
<1>1. /\ i \in DOMAIN s /\ s[i] \in X /\ key[s[i]] \in Nat /\ t \in Seq(X)
      /\ \A j \in 1..(i - 1) : j \in DOMAIN s /\ j < i /\ j \in 1..i
      /\ \A j \in 1..i : j \in 1..(i - 1) \/ j = i
      /\ i \in 1..i
  BY DEF FirstsUpTo
<1>2. \A m \in DOMAIN t : key[t[m]] >= key[s[i]]
  BY <1>1 DEF FirstsUpTo, Sorted
<1>3. CASE \E m \in DOMAIN t : t[m].title = s[i].title
  <2>1. AddTitle(t, s[i]) = t
    BY <1>3 DEF AddTitle
  <2> QED
    BY <1>1, <1>2, <1>3, <2>1 DEF FirstsUpTo
<1>4. CASE ~ \E m \in DOMAIN t : t[m].title = s[i].title
  <2> DEFINE u == Append(t, s[i])
             n == Len(t)
  <2>1. AddTitle(t, s[i]) = u
    BY <1>4 DEF AddTitle
  <2>2. /\ n \in Nat /\ DOMAIN t = 1..n /\ DOMAIN u = 1..(n + 1) /\ u \in Seq(X)
        /\ u[n + 1] = s[i] /\ \A m \in 1..n : u[m] = t[m]
    BY <1>1
  <2> HIDE DEF u, n
  <2>3. \A m \in 1..(n + 1) : m \in 1..n \/ m = n + 1
    BY <2>2
  <2>4. Sorted(u, key)
    <3> SUFFICES ASSUME NEW j \in 1..(n + 1), NEW k \in 1..(n + 1), j < k
                 PROVE  key[u[j]] >= key[u[k]]
      BY <2>2 DEF Sorted
    <3>1. j \in 1..n /\ u[j] = t[j]
      BY <2>2
    <3>2. CASE k \in 1..n
      BY <2>2, <3>1, <3>2 DEF FirstsUpTo, Sorted
    <3>3. CASE k = n + 1
      BY <1>2, <2>2, <3>1, <3>3
    <3> QED
      BY <2>3, <3>2, <3>3
  <2>5. Once(u)
    <3> SUFFICES ASSUME NEW j \in 1..(n + 1), NEW k \in 1..(n + 1), u[j].title = u[k].title
                 PROVE  j = k
      BY <2>2 DEF Once
    <3>1. CASE j \in 1..n /\ k \in 1..n
      BY <2>2, <3>1 DEF FirstsUpTo, Once
    <3>2. CASE j = n + 1 \/ k = n + 1
      BY <1>4, <2>2, <2>3, <3>2
    <3> QED
      BY <2>3, <3>1, <3>2
  <2>6. \A m \in DOMAIN u : \E j \in 1..i : u[m] = s[j]
    BY <1>1, <2>2, <2>3 DEF FirstsUpTo
  <2>7. \A j \in 1..i : \E m \in DOMAIN u : u[m].title = s[j].title /\ key[u[m]] >= key[s[j]]
    <3> SUFFICES ASSUME NEW j \in 1..i
                 PROVE  \E m \in 1..(n + 1) : u[m].title = s[j].title /\ key[u[m]] >= key[s[j]]
      BY <2>2
    <3>1. CASE j \in 1..(i - 1)
      <4>1. PICK m \in 1..n : t[m].title = s[j].title /\ key[t[m]] >= key[s[j]]
        BY <2>2, <3>1 DEF FirstsUpTo
      <4>2. m \in 1..(n + 1) /\ u[m] = t[m]
        BY <2>2
      <4> QED
        BY <4>1, <4>2
    <3>2. CASE j = i
      <4>1. n + 1 \in 1..(n + 1) /\ key[u[n + 1]] >= key[s[i]] /\ u[n + 1] = s[i]
        BY <1>1, <2>2
      <4> QED
        BY <3>2, <4>1
    <3> QED
      BY <1>1, <3>1, <3>2
  <2> QED
    BY <2>1, <2>2, <2>4, <2>5, <2>6, <2>7 DEF FirstsUpTo
<1> QED
  BY <1>3, <1>4

LEMMA FirstsExist ==
    ASSUME NEW X, NEW s \in Seq(X)
    PROVE  /\ FirstOfEachTitle(s) \in Seq(X)
           /\ \E f : /\ f[0] = <<>> /\ \A i \in 1..Len(s) : f[i] = AddTitle(f[i - 1], s[i])
                     /\ FirstOfEachTitle(s) = f[Len(s)]
<1> DEFINE n == Len(s)
           R == Seq(X)
           step == [i \in 1..n |-> [r \in R |-> AddTitle(r, s[i])]]
           kept == CHOOSE f : f = [i \in 0..n |-> IF i = 0 THEN <<>> ELSE AddTitle(f[i - 1], s[i])]
<1>1. n \in Nat /\ (\A i \in 1..n : s[i] \in X) /\ <<>> \in R
  OBVIOUS
<1>2. FirstOfEachTitle(s) = kept[n]
  BY DEF FirstOfEachTitle
<1>3. ASSUME NEW i \in 1..n, NEW r \in R PROVE AddTitle(r, s[i]) \in R
  BY <1>1 DEF AddTitle
<1> HIDE DEF n, R
<1>4. Closed(step, n, R) /\ \A i \in 1..n, r \in R : step[i][r] = AddTitle(r, s[i])
  BY <1>3 DEF Closed
<1> HIDE DEF step
<1>5. PICK f \in [0..n -> R] : Unfolds(f, n, <<>>, step)
  BY <1>1, <1>4, RecursionExists
<1>6. f = [i \in 0..n |-> IF i = 0 THEN <<>> ELSE AddTitle(f[i - 1], s[i])]
  <2>1. ASSUME NEW i \in 1..n PROVE f[i] = AddTitle(f[i - 1], s[i])
    <3>1. f[i - 1] \in R /\ f[i] = step[i][f[i - 1]]
      BY <1>1, <1>5 DEF Unfolds
    <3> QED
      BY <3>1, <1>4
  <2> QED
    BY <1>1, <1>5, <2>1 DEF Unfolds
<1>7. kept = [i \in 0..n |-> IF i = 0 THEN <<>> ELSE AddTitle(kept[i - 1], s[i])]
  BY <1>1, <1>6
<1> HIDE DEF kept
<1>8. kept[0] = <<>> /\ \A i \in 1..n : kept[i] = AddTitle(kept[i - 1], s[i])
  BY <1>1, <1>7
<1>9. 0..n \subseteq {i \in 0..n : kept[i] \in R}
  <2> DEFINE S == {i \in 0..n : kept[i] \in R}
  <2>1. 0 \in S /\ \A i \in 1..n : i - 1 \in S => i \in S
    BY <1>1, <1>3, <1>8
  <2> HIDE DEF S
  <2>2. 0..n \subseteq S
    BY <1>1, <2>1, UpTo
  <2> QED
    BY <2>2 DEF S
<1>10. kept[n] \in R
  BY <1>1, <1>9
<1> QED
  BY <1>2, <1>8, <1>10 DEF n, R

LEMMA FirstsOfAll ==
    ASSUME NEW X, NEW key \in [X -> Nat], NEW s \in Seq(X), Sorted(s, key)
    PROVE  FirstsUpTo(FirstOfEachTitle(s), s, key, X, Len(s))
<1>1. PICK f : /\ f[0] = <<>> /\ \A i \in 1..Len(s) : f[i] = AddTitle(f[i - 1], s[i])
               /\ FirstOfEachTitle(s) = f[Len(s)]
  BY FirstsExist
<1> DEFINE n == Len(s)
           S == {i \in 0..n : FirstsUpTo(f[i], s, key, X, i)}
<1>2. n \in Nat
  OBVIOUS
<1>3. 0 \in S
  <2>1. <<>> \in Seq(X) /\ DOMAIN <<>> = {} /\ 1..0 = {} /\ 0 \in 0..n
    BY <1>2
  <2>2. FirstsUpTo(<<>>, s, key, X, 0)
    BY <2>1 DEF FirstsUpTo, Sorted, Once
  <2> HIDE DEF n
  <2> QED
    BY <1>1, <2>1, <2>2
<1>4. ASSUME NEW i \in 1..n, i - 1 \in S PROVE i \in S
  <2>1. FirstsUpTo(f[i - 1], s, key, X, i - 1)
    BY <1>4
  <2>2. FirstsUpTo(f[i], s, key, X, i)
    BY <1>1, <2>1, AddsFirst
  <2> QED
    BY <1>2, <2>2
<1>5. 0..n \subseteq S
  <2> HIDE DEF S, n
  <2> QED
    BY <1>2, <1>3, <1>4, UpTo
<1> QED
  BY <1>1, <1>2, <1>5

LEMMA WeightSorts ==
    ASSUME NEW X, NEW key \in [X -> Nat], NEW s \in Seq(X), \A e \in X : e.weight = key[e]
    PROVE  /\ ByWeight(s) \in Seq(X) /\ Sorted(ByWeight(s), key)
           /\ \A e : Holds(ByWeight(s), e) <=> Holds(s, e)
<1> DEFINE n == Len(s)
           sorted == CHOOSE f : f = [i \in 0..n |-> IF i = 0 THEN <<>> ELSE PutByWeight(f[i - 1], s[i])]
<1>1. n \in Nat /\ (\A i \in 1..n : s[i] \in X)
  OBVIOUS
<1>2. ByWeight(s) = sorted[n]
  BY DEF ByWeight
<1>3. ASSUME NEW t \in Seq(X), NEW e \in X PROVE PutByWeight(t, e) = PutSorted(t, key, e)
  <2>1. \A i \in DOMAIN t : t[i] \in X
    OBVIOUS
  <2>2. \A i \in DOMAIN t : ~ Heavier(e, t[i]) <=> key[t[i]] >= key[e]
    BY <2>1 DEF Heavier
  <2>3. {i \in DOMAIN t : ~ Heavier(e, t[i])} = NotWorse(t, key, e)
    BY <2>2 DEF NotWorse
  <2> QED
    BY <2>3 DEF PutByWeight, PutSorted
<1>4. PICK f \in [0..n -> Seq(X)] : Sorts(f, s, key, X)
  BY SortExists
<1> HIDE DEF n
<1>5. f = [i \in 0..n |-> IF i = 0 THEN <<>> ELSE PutByWeight(f[i - 1], s[i])]
  <2>1. ASSUME NEW i \in 1..n PROVE f[i] = PutByWeight(f[i - 1], s[i])
    <3>1. f[i - 1] \in Seq(X) /\ s[i] \in X
      BY <1>1, <1>4
    <3> QED
      BY <1>3, <1>4, <3>1 DEF Sorts, n
  <2>2. f[0] = <<>>
    BY <1>4 DEF Sorts
  <2> QED
    BY <1>1, <1>4, <2>1, <2>2
<1>6. sorted = [i \in 0..n |-> IF i = 0 THEN <<>> ELSE PutByWeight(sorted[i - 1], s[i])]
  BY <1>5
<1> HIDE DEF sorted
<1>7. Sorts(sorted, s, key, X)
  <2>1. sorted[0] = <<>>
    BY <1>1, <1>6
  <2>2. ASSUME NEW i \in 1..n, sorted[i - 1] \in Seq(X) PROVE sorted[i] = PutSorted(sorted[i - 1], key, s[i])
    <3>1. i \in 0..n /\ i # 0 /\ s[i] \in X
      BY <1>1
    <3>2. sorted[i] = PutByWeight(sorted[i - 1], s[i])
      BY <1>6, <3>1
    <3> QED
      BY <1>3, <2>2, <3>1, <3>2
  <2> QED
    BY <2>1, <2>2 DEF Sorts, n
<1> QED
  BY <1>2, <1>7, SortsAll DEF n

LEMMA ScoreSorts ==
    ASSUME NEW X, NEW key \in [X -> Nat], NEW s \in Seq(X),
           \A e, f \in X : Better(e, f) <=> key[e] > key[f]
    PROVE  /\ ByScore(s) \in Seq(X) /\ Sorted(ByScore(s), key)
           /\ \A e : Holds(ByScore(s), e) <=> Holds(s, e)
           /\ Once(s) => Once(ByScore(s))
<1> DEFINE n == Len(s)
           sorted == CHOOSE f : f = [i \in 0..n |-> IF i = 0 THEN <<>> ELSE PutByScore(f[i - 1], s[i])]
<1>1. n \in Nat /\ (\A i \in 1..n : s[i] \in X)
  OBVIOUS
<1>2. ByScore(s) = sorted[n]
  BY DEF ByScore
<1>3. ASSUME NEW t \in Seq(X), NEW e \in X PROVE PutByScore(t, e) = PutSorted(t, key, e)
  <2>1. \A i \in DOMAIN t : t[i] \in X /\ key[t[i]] \in Nat /\ key[e] \in Nat
    OBVIOUS
  <2>2. \A i \in DOMAIN t : ~ Better(e, t[i]) <=> key[t[i]] >= key[e]
    BY <2>1
  <2>3. {i \in DOMAIN t : ~ Better(e, t[i])} = NotWorse(t, key, e)
    BY <2>2 DEF NotWorse
  <2> QED
    BY <2>3 DEF PutByScore, PutSorted
<1>4. PICK f \in [0..n -> Seq(X)] : Sorts(f, s, key, X)
  BY SortExists
<1> HIDE DEF n
<1>5. f = [i \in 0..n |-> IF i = 0 THEN <<>> ELSE PutByScore(f[i - 1], s[i])]
  <2>1. ASSUME NEW i \in 1..n PROVE f[i] = PutByScore(f[i - 1], s[i])
    <3>1. f[i - 1] \in Seq(X) /\ s[i] \in X
      BY <1>1, <1>4
    <3> QED
      BY <1>3, <1>4, <3>1 DEF Sorts, n
  <2>2. f[0] = <<>>
    BY <1>4 DEF Sorts
  <2> QED
    BY <1>1, <1>4, <2>1, <2>2
<1>6. sorted = [i \in 0..n |-> IF i = 0 THEN <<>> ELSE PutByScore(sorted[i - 1], s[i])]
  BY <1>5
<1> HIDE DEF sorted
<1>7. Sorts(sorted, s, key, X)
  <2>1. sorted[0] = <<>>
    BY <1>1, <1>6
  <2>2. ASSUME NEW i \in 1..n, sorted[i - 1] \in Seq(X) PROVE sorted[i] = PutSorted(sorted[i - 1], key, s[i])
    <3>1. i \in 0..n /\ i # 0 /\ s[i] \in X
      BY <1>1
    <3>2. sorted[i] = PutByScore(sorted[i - 1], s[i])
      BY <1>6, <3>1
    <3> QED
      BY <1>3, <2>2, <3>1, <3>2
  <2> QED
    BY <2>1, <2>2 DEF Sorts, n
<1> QED
  BY <1>2, <1>7, SortsAll DEF n

(* No two providers weigh the same, and no weight outweighs a score.       *)
LEMMA WeightsDiffer ==
    ASSUME NEW p \in Providers, NEW q \in Providers
    PROVE  /\ Weight(p) \in 1..1900
           /\ Weight(p) = Weight(q) => p = q
<1> DEFINE known == {"td", "qb", "dz", "mc", "sp", "am", "yt", "sc"}
<1>1. p \in known /\ q \in known
  BY ProvidersAssumption DEF BaseWeight
<1>2. \A o \in known : BaseWeight[o] \in {900, 800, 700, 650, 500, 400, 200, 100}
  BY DEF BaseWeight
<1>3. \A o \in known : BaseWeight[o] = BaseWeight[p] => o = p
  BY <1>1 DEF BaseWeight
<1> HIDE DEF known
<1>4. Weight(p) \in 1..1900
  BY <1>1, <1>2 DEF Weight
<1>5. ASSUME Weight(p) = Weight(q) PROVE p = q
  <2>1. BaseWeight[p] \in 1..900 /\ BaseWeight[q] \in 1..900
    BY <1>1, <1>2
  <2>2. BaseWeight[p] = BaseWeight[q]
    <3> DEFINE a == BaseWeight[p]
               b == BaseWeight[q]
    <3>1. /\ a \in 1..900 /\ b \in 1..900
          /\ a + (IF p = plan.primary THEN 1000 ELSE 0) = b + (IF q = plan.primary THEN 1000 ELSE 0)
      BY <1>5, <2>1 DEF Weight
    <3> HIDE DEF a, b
    <3>2. p = plan.primary <=> q = plan.primary
      BY SMTT(60), <3>1
    <3>3. a = b
      BY <3>1, <3>2
    <3> QED
      BY <3>3 DEF a, b
  <2> QED
    BY <1>1, <1>3, <2>2
<1> QED
  BY <1>4, <1>5

Weighty == {e \in Entries : e.weight = Weight(e.prov)}
byWeight == [e \in Weighty |-> e.weight]
byWorth == [e \in Weighty |-> 10000 * Score(e.title) + e.weight]

LEMMA KeysAreNumbers ==
    /\ byWeight \in [Weighty -> Nat] /\ byWorth \in [Weighty -> Nat]
    /\ \A e \in Weighty : e.weight = byWeight[e]
    /\ \A e, f \in Weighty : Better(e, f) <=> byWorth[e] > byWorth[f]
<1>1. \A e \in Weighty : e.weight \in Nat /\ e.weight <= 1900
  BY WeightsDiffer DEF Weighty, Entries
<1>2. \A e \in Weighty : Score(e.title) \in 0..2
  BY DEF Score
<1>3. \A e \in Weighty : byWeight[e] = e.weight /\ byWorth[e] = 10000 * Score(e.title) + e.weight
  BY DEF byWeight, byWorth
<1>4. \A e \in Weighty : byWeight[e] \in Nat /\ byWorth[e] \in Nat
  BY <1>1, <1>2, <1>3
<1>5. ASSUME NEW e \in Weighty, NEW f \in Weighty PROVE Better(e, f) <=> byWorth[e] > byWorth[f]
  BY <1>1, <1>2, <1>3 DEF Better, Heavier
<1> QED
  BY <1>3, <1>4, <1>5 DEF byWeight, byWorth

(* What the merges make of a list before it is cut.                        *)
MergedRight(t, s, key) ==
    /\ t \in Seq(Weighty) /\ Once(t) /\ Sorted(t, key)
    /\ \A e : Holds(t, e) => Holds(s, e)
    /\ \A e : Holds(s, e) => \E m \in DOMAIN t : t[m].title = e.title /\ t[m].weight >= e.weight

LEMMA EntriesMerge ==
    ASSUME NEW s \in Seq(Weighty)
    PROVE  MergedRight(FirstOfEachTitle(ByWeight(s)), s, byWeight)
<1> DEFINE u == ByWeight(s)
           t == FirstOfEachTitle(u)
<1>1. u \in Seq(Weighty) /\ Sorted(u, byWeight) /\ \A e : Holds(u, e) <=> Holds(s, e)
  BY KeysAreNumbers, WeightSorts
<1> HIDE DEF u
<1>2. FirstsUpTo(t, u, byWeight, Weighty, Len(u))
  BY <1>1, KeysAreNumbers, FirstsOfAll
<1>3. DOMAIN u = 1..Len(u)
  BY <1>1
<1> HIDE DEF t
<1>4. t \in Seq(Weighty) /\ Once(t) /\ Sorted(t, byWeight)
  BY <1>2 DEF FirstsUpTo
<1>5. ASSUME NEW e, Holds(t, e) PROVE Holds(s, e)
  <2>1. Holds(u, e)
    BY <1>2, <1>3, <1>5 DEF FirstsUpTo, Holds
  <2> QED
    BY <1>1, <2>1
<1>6. ASSUME NEW e, Holds(s, e) PROVE \E m \in DOMAIN t : t[m].title = e.title /\ t[m].weight >= e.weight
  <2>1. PICK j \in 1..Len(u) : u[j] = e
    BY <1>1, <1>3, <1>6 DEF Holds
  <2>2. PICK m \in DOMAIN t : t[m].title = e.title /\ byWeight[t[m]] >= byWeight[e]
    BY <1>2, <2>1 DEF FirstsUpTo
  <2>3. t[m] \in Weighty /\ e \in Weighty
    BY <1>1, <1>4, <2>1
  <2> QED
    BY <2>2, <2>3, KeysAreNumbers
<1> QED
  BY <1>4, <1>5, <1>6 DEF MergedRight, t, u

LEMMA TracksMerge ==
    ASSUME NEW s \in Seq(Weighty)
    PROVE  MergedRight(ByScore(FirstOfEachTitle(ByWeight(s))), s, byWorth)
<1> DEFINE u == FirstOfEachTitle(ByWeight(s))
           t == ByScore(u)
<1>1. MergedRight(u, s, byWeight)
  BY EntriesMerge
<1> HIDE DEF u
<1>2. /\ t \in Seq(Weighty) /\ Sorted(t, byWorth) /\ Once(t)
      /\ \A e : Holds(t, e) <=> Holds(u, e)
  BY <1>1, KeysAreNumbers, ScoreSorts DEF MergedRight
<1> HIDE DEF t
<1>3. ASSUME NEW e, Holds(s, e) PROVE \E m \in DOMAIN t : t[m].title = e.title /\ t[m].weight >= e.weight
  <2>1. PICK f : Holds(u, f) /\ f.title = e.title /\ f.weight >= e.weight
    BY <1>1, <1>3 DEF MergedRight, Holds
  <2> QED
    BY <1>2, <2>1 DEF Holds
<1>4. \A e : Holds(t, e) => Holds(s, e)
  BY <1>1, <1>2 DEF MergedRight
<1> QED
  BY <1>2, <1>3, <1>4 DEF MergedRight, t, u

(* The lists that came, whole.                                             *)
WithItsList(s, e) ==
    /\ e.title \in Range(plan.offers[e.prov])
    /\ \A t \in Range(plan.offers[e.prov]) : \E j \in DOMAIN s : s[j].prov = e.prov /\ s[j].title = t
GatheredRight(s) == s \in Seq(Weighty) /\ \A i \in DOMAIN s : WithItsList(s, s[i])

LEMMA CutShort ==
    ASSUME NEW X, NEW t \in Seq(X), NEW count \in Nat
    PROVE  LET out == AtMost(count, t)
           IN  /\ out \in Seq(X) /\ Len(out) \in 0..Len(t)
               /\ \A i \in 1..Len(out) : out[i] = t[i]
               /\ Len(out) = count \/ out = t
<1>1. CASE Len(t) > count
  <2>1. AtMost(count, t) = SubSeq(t, 1, count)
    BY <1>1 DEF AtMost
  <2>2. /\ SubSeq(t, 1, count) \in Seq(X) /\ Len(SubSeq(t, 1, count)) = count
        /\ \A i \in 1..count : SubSeq(t, 1, count)[i] = t[i]
    BY <1>1
  <2> QED
    BY <1>1, <2>1, <2>2
<1>2. CASE ~ (Len(t) > count)
  BY <1>2 DEF AtMost
<1> QED
  BY <1>1, <1>2

(* A title belongs to the weightiest that came with it.                    *)
Came(s) == {s[i].prov : i \in DOMAIN s}
Claims(s, title) == {p \in Came(s) : title \in Range(plan.offers[p])}

LEMMA HeaviestClaims ==
    ASSUME NEW s, GatheredRight(s), NEW t, NEW key, MergedRight(t, s, key), NEW m \in DOMAIN t
    PROVE  /\ t[m].prov \in Claims(s, t[m].title)
           /\ t[m].prov = CHOOSE p \in Claims(s, t[m].title) : \A q \in Claims(s, t[m].title) : Weight(p) >= Weight(q)
<1> DEFINE e == t[m]
           claims == Claims(s, e.title)
<1>1. /\ e \in Weighty /\ e.prov \in Providers /\ e.weight = Weight(e.prov)
      /\ \A i \in DOMAIN s : s[i] \in Weighty /\ s[i].prov \in Providers /\ s[i].weight = Weight(s[i].prov)
  <2>1. t \in Seq(Weighty) /\ s \in Seq(Weighty)
    BY DEF MergedRight, GatheredRight
  <2>2. e \in Weighty /\ \A i \in DOMAIN s : s[i] \in Weighty
    BY <2>1
  <2> QED
    BY <2>2 DEF Weighty, Entries
<1>2. Holds(t, e) /\ Holds(s, e)
  BY DEF Holds, MergedRight
<1>3. e.prov \in claims
  BY <1>2 DEF Claims, Came, Holds, GatheredRight, WithItsList
<1>4. claims \subseteq Providers
  BY <1>1 DEF Claims, Came
<1>5. ASSUME NEW q \in claims PROVE Weight(e.prov) >= Weight(q)
  <2>1. PICK i \in DOMAIN s : s[i].prov = q /\ e.title \in Range(plan.offers[q])
    BY DEF Claims, Came
  <2>2. PICK j \in DOMAIN s : s[j].prov = q /\ s[j].title = e.title
    BY <2>1 DEF GatheredRight, WithItsList
  <2>3. Holds(s, s[j])
    BY DEF Holds
  <2>4. PICK o \in DOMAIN t : t[o].title = e.title /\ t[o].weight >= s[j].weight
    BY <2>2, <2>3 DEF MergedRight
  <2>5. o = m
    BY <2>4 DEF MergedRight, Once
  <2> QED
    BY <1>1, <2>2, <2>4, <2>5
<1> HIDE DEF e, claims
<1>6. \A p \in claims : (\A q \in claims : Weight(p) >= Weight(q)) => p = e.prov
  <2> SUFFICES ASSUME NEW p \in claims, \A q \in claims : Weight(p) >= Weight(q)
               PROVE  p = e.prov
    OBVIOUS
  <2>1. Weight(p) >= Weight(e.prov) /\ Weight(e.prov) >= Weight(p)
    BY <1>3, <1>5
  <2>2. Weight(p) \in 1..1900 /\ Weight(e.prov) \in 1..1900
    BY <1>1, <1>4, WeightsDiffer
  <2> DEFINE a == Weight(p)
             b == Weight(e.prov)
  <2>3. a \in 1..1900 /\ b \in 1..1900 /\ a >= b /\ b >= a
    BY SMTT(60), <2>1, <2>2
  <2> HIDE DEF a, b
  <2>4. a = b
    BY <2>3
  <2>5. Weight(p) = Weight(e.prov)
    BY <2>4 DEF a, b
  <2> QED
    BY <1>1, <1>4, <2>5, WeightsDiffer
<1>7. e.prov = CHOOSE p \in claims : \A q \in claims : Weight(p) >= Weight(q)
  BY <1>3, <1>5, <1>6
<1> QED
  BY <1>3, <1>7 DEF e, claims

LEMMA CutIsBest ==
    ASSUME NEW s, GatheredRight(s), NEW k \in Kinds, NEW count \in Nat, NEW t,
           MergedRight(t, s, IF k = "tracks" THEN byWorth ELSE byWeight)
    PROVE  Best(AtMost(count, t), s, k, count)
<1> DEFINE out == AtMost(count, t)
           key == IF k = "tracks" THEN byWorth ELSE byWeight
           came == Came(s)
           offered == UNION {Range(plan.offers[p]) : p \in came}
           winner(T) == CHOOSE p \in Claims(s, T) : \A q \in Claims(s, T) : Weight(p) >= Weight(q)
           score(T) == IF k = "tracks" THEN Score(T) ELSE 0
           worth(T) == 10000 * score(T) + Weight(winner(T))
           kept == {out[i].title : i \in DOMAIN out}
           n == Len(out)
<1>1. t \in Seq(Weighty) /\ Once(t) /\ Sorted(t, key)
  BY DEF MergedRight
<1>2. /\ out \in Seq(Weighty) /\ n \in 0..Len(t) /\ \A i \in 1..n : out[i] = t[i]
      /\ n = count \/ out = t
  BY <1>1, CutShort
<1>3. DOMAIN t = 1..Len(t) /\ DOMAIN out = 1..n /\ n \in Nat /\ Len(t) \in Nat
  BY <1>1, <1>2
<1> HIDE DEF out, n
<1>4. \A i \in 1..n : i \in DOMAIN t /\ out[i] = t[i]
  BY <1>2, <1>3
<1>5. \A m \in DOMAIN t : t[m].prov = winner(t[m].title)
  BY HeaviestClaims
<1>6. ASSUME NEW m \in DOMAIN t PROVE worth(t[m].title) = key[t[m]] /\ key[t[m]] \in Nat
  <2>1. t[m] \in Weighty
    BY <1>1
  <2>2. t[m].weight = Weight(t[m].prov) /\ t[m].weight \in Nat
    BY <2>1 DEF Weighty, Entries
  <2>3. /\ byWeight[t[m]] = t[m].weight /\ byWorth[t[m]] = 10000 * Score(t[m].title) + t[m].weight
        /\ byWeight[t[m]] \in Nat /\ byWorth[t[m]] \in Nat
    BY <2>1, KeysAreNumbers DEF byWeight, byWorth
  <2> HIDE DEF winner
  <2> QED
    BY <1>5, <2>2, <2>3
<1> HIDE DEF worth
<1>7. Cardinality(kept) = n
  <2> DEFINE f == [i \in 1..n |-> out[i].title]
  <2>1. f \in Bijection(1..n, kept)
    <3>1. f \in [1..n -> kept]
      BY <1>3
    <3>2. \A i, j \in 1..n : f[i] = f[j] => i = j
      BY <1>1, <1>4 DEF Once
    <3>3. \A T \in kept : \E i \in 1..n : f[i] = T
      BY <1>3
    <3> HIDE DEF f, kept
    <3> QED
      BY <3>1, <3>2, <3>3 DEF Bijection, Injection, Surjection, IsInjective
  <2>2. IsFiniteSet(1..n) /\ Cardinality(1..n) = n
    BY <1>3, FS_Interval
  <2> HIDE DEF f, kept
  <2> QED
    BY <2>1, <2>2, FS_Bijection DEF ExistsBijection
<1>8. \A i \in DOMAIN out : out[i].prov = winner(out[i].title)
  BY <1>3, <1>4, <1>5
<1>9. \A i, j \in DOMAIN out : i < j => worth(out[i].title) >= worth(out[j].title)
  BY <1>1, <1>3, <1>4, <1>6 DEF Sorted
<1>10. \A T \in offered : \E m \in DOMAIN t : t[m].title = T
  <2> SUFFICES ASSUME NEW T \in offered PROVE \E m \in DOMAIN t : t[m].title = T
    OBVIOUS
  <2>1. PICK i \in DOMAIN s : T \in Range(plan.offers[s[i].prov])
    BY DEF Came
  <2>2. PICK j \in DOMAIN s : s[j].title = T
    BY <2>1 DEF GatheredRight, WithItsList
  <2>3. Holds(s, s[j])
    BY DEF Holds
  <2> QED
    BY <2>2, <2>3 DEF MergedRight
<1>11. n = count \/ kept = offered
  <2> SUFFICES ASSUME out = t PROVE kept = offered
    BY <1>2
  <2>1. \A m \in DOMAIN t : t[m].title \in offered
    BY HeaviestClaims DEF Claims
  <2> QED
    BY <1>10, <2>1
<1>12. \A T \in offered \ kept, i \in DOMAIN out : worth(out[i].title) >= worth(T)
  <2> SUFFICES ASSUME NEW T \in offered \ kept, NEW i \in 1..n PROVE worth(out[i].title) >= worth(T)
    BY <1>3
  <2>1. PICK m \in DOMAIN t : t[m].title = T
    BY <1>10
  <2>2. m \notin 1..n
    BY <1>3, <1>4, <2>1
  <2>3. i < m /\ i \in DOMAIN t
    BY <1>3, <1>4, <2>2
  <2> QED
    BY <1>1, <1>4, <1>6, <2>1, <2>3 DEF Sorted
<1>13. Best(out, s, k, count) <=>
        /\ Cardinality(kept) = n
        /\ \A i \in DOMAIN out : out[i].prov = winner(out[i].title)
        /\ \A i, j \in DOMAIN out : i < j => worth(out[i].title) >= worth(out[j].title)
        /\ n = count \/ kept = offered
        /\ \A T \in offered \ kept, i \in DOMAIN out : worth(out[i].title) >= worth(T)
  BY DEF Best, Came, Claims, worth, n
<1> QED
  BY <1>7, <1>8, <1>9, <1>11, <1>12, <1>13 DEF out

(* Where a search is: the kinds it still waits for, what came, and what was*)
(* merged of it.                                                           *)
Fine(r, step, waits, came, merged) ==
    /\ step # "fetching" => \A k \in Kinds : waits[k] = {}
    /\ step = "idle" => \A k \in Kinds : came[k] = <<>>
    /\ step # "idle" => Ask(r).op = "search"
    /\ \A k \in Kinds : waits[k] \subseteq Providers /\ GatheredRight(came[k])
    /\ step = "marking" => \A k \in Kinds : came[k] # <<>> =>
          merged[k] = IF k = "tracks" THEN MergeTracks(came[k], Ask(r).count) ELSE MergeEntries(came[k], Ask(r).count)

SearchFine(r) == Fine(r, search[r], pending[r], gathered[r], list[r])

SearchTyped ==
    /\ plan \in Plans
    /\ DOMAIN search = Requests /\ DOMAIN pending = Requests
    /\ DOMAIN gathered = Requests /\ DOMAIN list = Requests
    /\ \A r \in Requests : DOMAIN pending[r] = Kinds /\ DOMAIN gathered[r] = Kinds /\ DOMAIN list[r] = Kinds

SearchInv == SearchTyped /\ \A r \in Requests : SearchFine(r)

LEMMA PlanIsFixed ==
    ASSUME plan' = plan, NEW r, Fine(r, search'[r], pending'[r], gathered'[r], list'[r])
    PROVE  SearchFine(r)'
<1>1. Weighty' = Weighty
  BY DEF Weighty, Weight
<1>2. ASSUME NEW k \in Kinds, GatheredRight(gathered'[r][k]) PROVE GatheredRight(gathered[r][k])'
  BY <1>1, <1>2 DEF GatheredRight, WithItsList
<1>3. Ask(r)' = Ask(r)
  BY DEF Ask
<1> QED
  BY <1>2, <1>3 DEF SearchFine, Fine

(* One search moves, the others stay.                                      *)
LEMMA SearchMoves ==
    ASSUME SearchInv, plan' = plan, SearchTyped', NEW r \in Requests,
           \A q \in Requests \ {r} : /\ search'[q] = search[q] /\ pending'[q] = pending[q]
                                     /\ gathered'[q] = gathered[q] /\ list'[q] = list[q],
           Fine(r, search'[r], pending'[r], gathered'[r], list'[r])
    PROVE  SearchInv'
<1>1. \A q \in Requests : Fine(q, search'[q], pending'[q], gathered'[q], list'[q])
  BY DEF SearchInv, SearchFine
<1>2. \A q \in Requests : SearchFine(q)'
  BY <1>1, PlanIsFixed
<1> QED
  BY <1>2 DEF SearchInv

LEMMA NothingGathered == GatheredRight(<<>>)
BY DEF GatheredRight

LEMMA ListArrives ==
    ASSUME plan \in Plans, NEW s, GatheredRight(s), NEW p \in Providers
    PROVE  GatheredRight(s \o Offered(p))
<1> DEFINE titles == plan.offers[p]
           o == Offered(p)
           n == Len(titles)
<1>1. titles \in Seq(STRING)
  BY PlansAssumption
<1>2. n \in Nat /\ DOMAIN titles = 1..n /\ \A i \in 1..n : titles[i] \in STRING
  BY <1>1
<1> HIDE DEF titles, n
<1>3. o = [i \in 1..n |-> Entry(p, titles[i])]
  BY <1>2 DEF Offered, titles
<1>4. \A i \in 1..n : /\ Entry(p, titles[i]) \in Weighty /\ Entry(p, titles[i]).prov = p
                      /\ Entry(p, titles[i]).title = titles[i]
  <2>1. Weight(p) \in Nat
    <3>1. Weight(p) \in 1..1900
      BY WeightsDiffer
    <3> QED
      BY SMTT(60), <3>1
  <2> QED
    BY <1>2, <2>1 DEF Entry, Weighty, Entries
<1> HIDE DEF o
<1>5. /\ o \in Seq(Weighty) /\ Len(o) = n
      /\ \A i \in 1..n : o[i].prov = p /\ o[i].title = titles[i]
  BY <1>2, <1>3, <1>4
<1> DEFINE m == Len(s)
           t == s \o o
<1>6. s \in Seq(Weighty) /\ m \in Nat /\ DOMAIN s = 1..m
  BY DEF GatheredRight
<1>7. /\ t \in Seq(Weighty) /\ DOMAIN t = 1..(m + n)
      /\ \A i \in 1..m : t[i] = s[i]
      /\ \A i \in (m + 1)..(m + n) : i - m \in 1..n /\ t[i] = o[i - m]
  <2>1. /\ t \in Seq(Weighty) /\ Len(t) = m + n
        /\ \A i \in 1..(m + n) : t[i] = IF i <= m THEN s[i] ELSE o[i - m]
    BY <1>5, <1>6, ConcatProperties
  <2> HIDE DEF t, m
  <2> QED
    BY <1>2, <1>6, <2>1
<1>8. \A T \in Range(titles) : \E i \in 1..n : titles[i] = T
  BY <1>2 DEF Range
<1>9. \A i \in 1..n : titles[i] \in Range(titles)
  BY <1>2 DEF Range
<1> HIDE DEF t, m
<1>10. \A i \in 1..(m + n) : i \in 1..m \/ i \in (m + 1)..(m + n)
  BY <1>2, <1>6
<1>11. ASSUME NEW i \in 1..(m + n) PROVE WithItsList(t, t[i])
  <2>1. CASE i \in 1..m
    <3>1. t[i] = s[i] /\ \A j \in 1..m : j \in 1..(m + n) /\ t[j] = s[j]
      BY <1>2, <1>6, <1>7, <2>1
    <3>2. WithItsList(s, s[i])
      BY <1>6, <2>1 DEF GatheredRight
    <3> QED
      BY <1>6, <1>7, <3>1, <3>2 DEF WithItsList
  <2>2. CASE i \in (m + 1)..(m + n)
    <3>1. t[i].prov = p /\ i - m \in 1..n /\ t[i].title = titles[i - m]
      BY <1>5, <1>7, <2>2
    <3>2. ASSUME NEW T \in Range(titles)
          PROVE  \E j \in 1..(m + n) : t[j].prov = p /\ t[j].title = T
      <4>1. PICK j \in 1..n : titles[j] = T
        BY <1>8
      <4>2. m + j \in (m + 1)..(m + n) /\ m + j \in 1..(m + n) /\ (m + j) - m = j
        BY <1>2, <1>6
      <4>3. t[m + j].prov = p /\ t[m + j].title = T
        BY <1>5, <1>7, <4>1, <4>2
      <4> QED
        BY <4>2, <4>3
    <3> QED
      BY <1>7, <1>9, <3>1, <3>2 DEF titles, WithItsList
  <2> QED
    BY <1>10, <2>1, <2>2
<1>12. GatheredRight(t)
  BY <1>7, <1>11 DEF GatheredRight
<1> QED
  BY <1>12 DEF t, o

LEMMA NobodySearches ==
    ASSUME SearchInv, UNCHANGED <<plan, search, pending, gathered, list>>
    PROVE  SearchInv'
<1>1. SearchTyped'
  BY DEF SearchInv, SearchTyped
<1>2. \A r \in Requests : Fine(r, search'[r], pending'[r], gathered'[r], list'[r])
  BY DEF SearchInv, SearchFine
<1>3. \A r \in Requests : SearchFine(r)'
  BY <1>2, PlanIsFixed
<1> QED
  BY <1>1, <1>3 DEF SearchInv

LEMMA SearchAsks ==
    ASSUME SearchInv, NEW r \in Requests, ServeSearchThree(r)
    PROVE  SearchInv'
<1>1. SearchTyped /\ Fine(r, "idle", pending[r], gathered[r], list[r]) /\ Ask(r).op = "search"
  BY DEF SearchInv, SearchFine, ServeSearchThree
<1>2. plan' = plan /\ gathered' = gathered
  BY DEF ServeSearchThree
<1>3. CASE Found
  <2>1. /\ list' = [list EXCEPT ![r] = FromCache] /\ search' = [search EXCEPT ![r] = "marking"]
        /\ pending' = pending
    BY <1>3 DEF ServeSearchThree, Goto
  <2>2. DOMAIN FromCache = Kinds
    BY DEF FromCache, Nothing
  <2>3. SearchTyped'
    <3>1. /\ DOMAIN search' = Requests /\ DOMAIN pending' = Requests
          /\ DOMAIN gathered' = Requests /\ DOMAIN list' = Requests
      BY <1>1, <1>2, <2>1 DEF SearchTyped
    <3>2. ASSUME NEW q \in Requests
          PROVE  DOMAIN pending'[q] = Kinds /\ DOMAIN gathered'[q] = Kinds /\ DOMAIN list'[q] = Kinds
      BY <1>1, <1>2, <2>1, <2>2 DEF SearchTyped
    <3> QED
      BY <1>1, <1>2, <3>1, <3>2 DEF SearchTyped
  <2>4. search'[r] = "marking"
    BY <1>1, <2>1 DEF SearchTyped
  <2>5. Fine(r, search'[r], pending'[r], gathered'[r], list'[r])
    BY <1>1, <1>2, <2>1, <2>4 DEF Fine
  <2> QED
    BY <1>1, <1>2, <2>1, <2>3, <2>5, SearchMoves DEF SearchTyped
<1>4. CASE ~ Found
  <2> DEFINE waits == [k \in Kinds |-> IF k \in Ask(r).kinds THEN Asked ELSE {}]
  <2>1. /\ pending' = [pending EXCEPT ![r] = waits] /\ search' = [search EXCEPT ![r] = "fetching"]
        /\ list' = list
    BY <1>4 DEF ServeSearchThree, Goto
  <2>2. DOMAIN waits = Kinds /\ \A k \in Kinds : waits[k] \subseteq Providers
    BY <1>1, PlansAssumption DEF Asked, SearchTyped
  <2> HIDE DEF waits
  <2>3. SearchTyped'
    <3>1. /\ DOMAIN search' = Requests /\ DOMAIN pending' = Requests
          /\ DOMAIN gathered' = Requests /\ DOMAIN list' = Requests
      BY <1>1, <1>2, <2>1 DEF SearchTyped
    <3>2. ASSUME NEW q \in Requests
          PROVE  DOMAIN pending'[q] = Kinds /\ DOMAIN gathered'[q] = Kinds /\ DOMAIN list'[q] = Kinds
      BY <1>1, <1>2, <2>1, <2>2 DEF SearchTyped
    <3> QED
      BY <1>1, <1>2, <3>1, <3>2 DEF SearchTyped
  <2>4. search'[r] = "fetching" /\ pending'[r] = waits
    BY <1>1, <2>1 DEF SearchTyped
  <2>5. Fine(r, search'[r], pending'[r], gathered'[r], list'[r])
    BY <1>1, <1>2, <2>1, <2>2, <2>4 DEF Fine
  <2> QED
    BY <1>1, <1>2, <2>1, <2>3, <2>5, SearchMoves DEF SearchTyped
<1> QED
  BY <1>3, <1>4

(* A provider answers, or fails.                                           *)
LEMMA ListsCome ==
    ASSUME SearchInv, NEW r \in Requests, NEW k \in Kinds, NEW p \in Providers,
           (\E came \in BOOLEAN : Answers(r, k, p, came)) \/ Panics(r, k, p)
    PROVE  SearchInv'
<1>1. SearchTyped /\ Fine(r, search[r], pending[r], gathered[r], list[r])
  BY DEF SearchInv, SearchFine
<1>2. /\ plan' = plan /\ search' = search /\ list' = list /\ p \in pending[r][k]
      /\ pending' = [pending EXCEPT ![r][k] = @ \ {p}]
      /\ gathered' \in {gathered, [gathered EXCEPT ![r][k] = @ \o Offered(p)]}
  BY DEF Answers, Panics
<1>3. search[r] = "fetching"
  BY <1>1, <1>2 DEF Fine
<1>4. /\ DOMAIN pending' = Requests /\ DOMAIN pending'[r] = Kinds
      /\ \A q \in Requests \ {r} : pending'[q] = pending[q]
      /\ \A o \in Kinds : pending'[r][o] = IF o = k THEN pending[r][o] \ {p} ELSE pending[r][o]
  BY <1>1, <1>2 DEF SearchTyped
<1>5. /\ DOMAIN gathered' = Requests /\ DOMAIN gathered'[r] = Kinds
      /\ \A q \in Requests \ {r} : gathered'[q] = gathered[q]
      /\ \A o \in Kinds : gathered'[r][o] = gathered[r][o] \/ (o = k /\ gathered'[r][o] = gathered[r][o] \o Offered(p))
  <2>1. CASE gathered' = gathered
    BY <1>1, <2>1 DEF SearchTyped
  <2>2. CASE gathered' = [gathered EXCEPT ![r][k] = @ \o Offered(p)]
    <3> DEFINE longer == gathered[r][k] \o Offered(p)
    <3>1. gathered' = [gathered EXCEPT ![r] = [gathered[r] EXCEPT ![k] = longer]]
      BY <2>2
    <3> HIDE DEF longer
    <3>2. /\ DOMAIN gathered' = Requests /\ DOMAIN gathered'[r] = Kinds
          /\ \A q \in Requests \ {r} : gathered'[q] = gathered[q]
          /\ \A o \in Kinds : gathered'[r][o] = IF o = k THEN longer ELSE gathered[r][o]
      BY <1>1, <3>1 DEF SearchTyped
    <3> QED
      BY <3>2 DEF longer
  <2> QED
    BY <1>2, <2>1, <2>2
<1>6. SearchTyped'
  BY <1>1, <1>2, <1>4, <1>5 DEF SearchTyped
<1>7. ASSUME NEW o \in Kinds PROVE pending'[r][o] \subseteq Providers /\ GatheredRight(gathered'[r][o])
  <2>1. pending[r][o] \subseteq Providers /\ GatheredRight(gathered[r][o])
    BY <1>1 DEF Fine
  <2>2. GatheredRight(gathered[r][o] \o Offered(p))
    BY <1>1, <2>1, ListArrives DEF SearchTyped
  <2> QED
    BY <1>4, <1>5, <2>1, <2>2
<1>8. Fine(r, search'[r], pending'[r], gathered'[r], list'[r])
  BY <1>1, <1>2, <1>3, <1>7 DEF Fine
<1> QED
  BY <1>2, <1>4, <1>5, <1>6, <1>8, SearchMoves

LEMMA ListsAreMerged ==
    ASSUME SearchInv, NEW r \in Requests, Collect(r)
    PROVE  SearchInv'
<1>1. SearchTyped /\ Fine(r, "fetching", pending[r], gathered[r], list[r])
  BY DEF SearchInv, SearchFine, Collect
<1> DEFINE merged == [k \in Kinds |-> Merged(r, k)]
<1>2. /\ plan' = plan /\ gathered' = gathered /\ pending' = pending
      /\ \A k \in Kinds : pending[r][k] = {}
      /\ search' = [search EXCEPT ![r] = "marking"]
      /\ list' = [list EXCEPT ![r] = merged]
  BY DEF Collect, Goto
<1>3. DOMAIN merged = Kinds /\ \A k \in Kinds : merged[k] =
        IF k = "tracks" THEN MergeTracks(gathered[r][k], Ask(r).count) ELSE MergeEntries(gathered[r][k], Ask(r).count)
  BY DEF Merged
<1> HIDE DEF merged
<1>4. search'[r] = "marking" /\ list'[r] = merged
  BY <1>1, <1>2 DEF SearchTyped
<1>5. SearchTyped'
  <2>1. DOMAIN search' = Requests /\ DOMAIN list' = Requests
    BY <1>1, <1>2 DEF SearchTyped
  <2>2. \A q \in Requests : DOMAIN list'[q] = Kinds
    BY <1>1, <1>2, <1>3 DEF SearchTyped
  <2> QED
    BY <1>1, <1>2, <2>1, <2>2 DEF SearchTyped
<1>6. Fine(r, search'[r], pending'[r], gathered'[r], list'[r])
  BY <1>1, <1>2, <1>3, <1>4 DEF Fine
<1> QED
  BY <1>1, <1>2, <1>5, <1>6, SearchMoves DEF SearchTyped

LEMMA SearchIsAnswered ==
    ASSUME SearchInv, NEW r \in Requests, Mark(r)
    PROVE  SearchInv'
<1>1. SearchTyped /\ Fine(r, "marking", pending[r], gathered[r], list[r])
  BY DEF SearchInv, SearchFine, Mark
<1>2. /\ plan' = plan /\ pending' = pending
      /\ \E step \in {"gone", "answered"} : search' = [search EXCEPT ![r] = step]
      /\ gathered' = [gathered EXCEPT ![r] = Nothing(<<>>)]
  BY DEF Mark, Goto
<1> DEFINE marked == [k \in Kinds |-> [i \in DOMAIN list[r][k] |-> Starred(r, k, list[r][k][i])]]
<1>3. list' \in {list, [list EXCEPT ![r] = marked]}
  BY DEF Mark
<1>4. DOMAIN marked = Kinds
  OBVIOUS
<1> HIDE DEF marked
<1>5. /\ DOMAIN list' = Requests /\ DOMAIN list'[r] = Kinds
      /\ \A q \in Requests \ {r} : list'[q] = list[q]
  BY <1>1, <1>3, <1>4 DEF SearchTyped
<1>6. /\ DOMAIN gathered' = Requests /\ gathered'[r] = Nothing(<<>>)
      /\ \A q \in Requests \ {r} : gathered'[q] = gathered[q]
      /\ search'[r] \in {"gone", "answered"} /\ DOMAIN search' = Requests
      /\ \A q \in Requests \ {r} : search'[q] = search[q]
  BY <1>1, <1>2 DEF SearchTyped
<1>7. DOMAIN Nothing(<<>>) = Kinds /\ \A k \in Kinds : Nothing(<<>>)[k] = <<>>
  BY DEF Nothing
<1>8. SearchTyped'
  BY <1>1, <1>2, <1>5, <1>6, <1>7 DEF SearchTyped
<1>9. Fine(r, search'[r], pending'[r], gathered'[r], list'[r])
  BY <1>1, <1>2, <1>6, <1>7, NothingGathered DEF Fine
<1> QED
  BY <1>2, <1>5, <1>6, <1>8, <1>9, SearchMoves

LEMMA SearchStep == SearchInv /\ [Next]_vars => SearchInv'
<1> SUFFICES ASSUME SearchInv, [Next]_vars
             PROVE  SearchInv'
  OBVIOUS
<1>1. CASE UNCHANGED vars \/ (LibraryNext /\ UNCHANGED <<plan, searchVars>>)
  BY <1>1, NobodySearches DEF vars, searchVars
<1>2. ASSUME NEW r \in Requests, ServeSearchThree(r) \/ SearchWork(r) PROVE SearchInv'
  BY <1>2, SearchAsks, ListsCome, ListsAreMerged, SearchIsAnswered DEF SearchWork
<1>3. ASSUME NEW r \in Requests, NEW k \in Kinds, NEW p \in Providers, Panics(r, k, p) PROVE SearchInv'
  BY <1>3, ListsCome
<1>4. CASE Forget \/ \E r \in Requests : Leave(r)
  BY <1>4, NobodySearches DEF Forget, Leave
<1> QED
  BY <1>1, <1>2, <1>3, <1>4 DEF Next, SearchNext

LEMMA SearchStarts == Init => SearchInv
<1> SUFFICES ASSUME Init
             PROVE  SearchInv
  OBVIOUS
<1>1. \A v : DOMAIN Nothing(v) = Kinds /\ \A k \in Kinds : Nothing(v)[k] = v
  BY DEF Nothing
<1>2. SearchTyped
  BY <1>1 DEF SearchTyped, Init, SearchInit
<1>3. ASSUME NEW r \in Requests PROVE SearchFine(r)
  <2>1. search[r] = "idle" /\ pending[r] = Nothing({}) /\ gathered[r] = Nothing(<<>>)
    BY DEF Init, SearchInit
  <2> QED
    BY <1>1, <2>1, NothingGathered DEF SearchFine, Fine
<1> QED
  BY <1>2, <1>3 DEF SearchInv

(* An invariant says all the property says.                                *)
LEMMA SearchIsMerged == SearchInv => MergedBest
<1> SUFFICES ASSUME SearchInv, NEW r \in Requests, NEW k \in Kinds,
                    search[r] = "marking", gathered[r][k] # <<>>
             PROVE  Best(list[r][k], gathered[r][k], k, Ask(r).count)
  BY DEF MergedBest
<1> DEFINE s == gathered[r][k]
           count == Ask(r).count
<1>1. Fine(r, "marking", pending[r], gathered[r], list[r]) /\ plan \in Plans
  BY DEF SearchInv, SearchFine, SearchTyped
<1>2. GatheredRight(s) /\ count \in Nat
  BY <1>1, PlansAssumption DEF Fine, Ask
<1>3. s \in Seq(Weighty)
  BY <1>2 DEF GatheredRight
<1>4. CASE k = "tracks"
  <2>1. list[r][k] = AtMost(count, ByScore(FirstOfEachTitle(ByWeight(s))))
    BY <1>1, <1>4 DEF Fine, MergeTracks
  <2> QED
    BY <1>2, <1>3, <1>4, <2>1, TracksMerge, CutIsBest
<1>5. CASE k # "tracks"
  <2>1. list[r][k] = AtMost(count, FirstOfEachTitle(ByWeight(s)))
    BY <1>1, <1>5 DEF Fine, MergeEntries
  <2> QED
    BY <1>2, <1>3, <1>5, <2>1, EntriesMerge, CutIsBest
<1> QED
  BY <1>4, <1>5

(* ServeSearchThree: in whatever order the providers answer, a list has    *)
(* every title once, from its weightiest provider, the best first, and     *)
(* nothing better was cut off.                                             *)
THEOREM SearchesAreMerged == SubsonicSpec => []MergedBest
<1>1. Spec => []SearchInv
  BY SearchStarts, SearchStep, PTL DEF Spec
<1> QED
  BY <1>1, SearchIsMerged, LibraryTakesPart, PTL

-----------------------------------------------------------------------------
(* Requests for a stream                                                   *)

(* What a request knows of the switches: providers that were switched on   *)
(* all the time since it came, and those it has seen switched on.  And why *)
(* a source of the lowest tier comes last: a lossless provider that was on *)
(* all the time has been asked, is still to be asked, or there was none    *)
(* when the remembered sources were tried.                                 *)
StreamFields == {"at", "id", "url", "detour", "owner", "leader", "alts", "lossy", "rest", "last",
                 "saw", "throughout", "fell"}
Lossless == {"td", "dz", "qb"}
AtRest == {"start", "streaming", "served", "refused"}
Unfallen == {"start", "admitted", "queued", "prepare", "url", "follow", "fetch"}

NoLossless(q) == \A p \in Lossless \cap q.throughout : p = q.id \/ ~ Resolution!GivesAll(p)

SeesSwitches(q) ==
    /\ q.at \notin AtRest => q.throughout \subseteq enabled /\ enabled \subseteq q.saw
    /\ q.at = "start" => q.last = NoOne /\ q.rest = {}
    /\ q.at = "fetch" => q.id \in q.saw
    /\ q.last \in q.saw \cup {NoOne}
    /\ \A ask \in q.rest : ask.prov \in DOMAIN Resolution!Turn /\ (ask.how = "isrc" => ask.prov \in q.saw \cap Resolution!ByIsrc)

LosslessFirst(q) ==
    /\ q.at \in Unfallen => q.fell = FALSE
    /\ q.at = "sources" /\ q.lossy => Lossless \cap q.throughout = {}
    /\ q.at = "ask" => \A p \in Lossless \cap q.throughout :
                           p = q.id \/ ~ Resolution!GivesAll(p) \/ [how |-> "match", prov |-> p] \in q.rest
    /\ q.at = "join" /\ q.fell /\ q.url # NoOne /\ Resolution!MaxQualityTier(q.url) = 30 => NoLossless(q)
    /\ q.at = "finish" /\ q.fell /\ Resolution!MaxQualityTier(q.url) = 30 => NoLossless(q)

Sound(q) ==
    /\ DOMAIN q = StreamFields
    /\ \A alt \in q.alts : alt.tier \in Nat
    /\ SeesSwitches(q) /\ LosslessFirst(q)

TiersKnown == \A p \in DOMAIN sources : sources[p] \in Nat

StreamInv ==
    /\ DOMAIN asking = Callers /\ enabled \subseteq Streamers
    /\ TiersKnown
    /\ \A r \in Callers : Sound(asking[r])

(* A step of one request that leaves the switches alone.                   *)
LEMMA OneSaves ==
    ASSUME StreamInv, NEW r \in Callers, UNCHANGED <<offer, enabled>>, TiersKnown',
           NEW q, asking' = [asking EXCEPT ![r] = q], Sound(q)
    PROVE  StreamInv'
<1>1. DOMAIN asking' = Callers /\ \A o \in Callers : asking'[o] = asking[o] \/ asking'[o] = q
  BY DEF StreamInv
<1>2. \A o \in Callers : Sound(asking'[o])
  BY <1>1 DEF StreamInv
<1>3. \A o \in Callers : Sound(asking[o])'
  BY <1>2 DEF Sound, SeesSwitches, LosslessFirst, NoLossless, Resolution!GivesAll, Resolution!ByIsrc, Resolution!Turn
<1> QED
  BY <1>1, <1>3 DEF StreamInv

COROLLARY OneMoves ==
    ASSUME StreamInv, NEW r \in Callers, UNCHANGED <<offer, enabled, sources>>,
           NEW q, asking' = [asking EXCEPT ![r] = q], Sound(q)
    PROVE  StreamInv'
BY OneSaves DEF StreamInv, TiersKnown

LEMMA NobodyMoves ==
    ASSUME StreamInv, UNCHANGED <<offer, enabled, sources, asking>>
    PROVE  StreamInv'
BY DEF StreamInv, TiersKnown, Sound, SeesSwitches, LosslessFirst, NoLossless, Resolution!GivesAll, Resolution!ByIsrc,
       Resolution!Turn

LEMMA BeforeUrl ==
    ASSUME StreamInv, NEW r \in Callers,
           Resolution!Admit(r) \/ Resolution!Dedup(r) \/ Resolution!SkipDedup(r) \/ Resolution!Resume(r)
           \/ Resolution!Upgrade(r) \/ Resolution!CacheHit(r) \/ Resolution!Follow(r) \/ Resolution!Lead(r)
           \/ Resolution!Followed(r)
    PROVE  StreamInv'
<1>0. Sound(asking[r]) /\ UNCHANGED <<offer, enabled, sources>>
  BY DEF StreamInv, Resolution!Admit, Resolution!Dedup, Resolution!SkipDedup, Resolution!Resume, Resolution!Upgrade,
         Resolution!CacheHit, Resolution!Follow, Resolution!Lead, Resolution!Followed, Resolution!others,
         Resolution!registry
<1>1. CASE Resolution!Admit(r)
  <2>1. /\ asking[r].at = "start"
        /\ \E step \in {"admitted", "refused"} :
              asking' = [asking EXCEPT ![r].at = step, ![r].saw = enabled, ![r].throughout = enabled]
    BY <1>1 DEF Resolution!Admit, Resolution!At
  <2>2. PICK step \in {"admitted", "refused"} :
            asking' = [asking EXCEPT ![r].at = step, ![r].saw = enabled, ![r].throughout = enabled]
    BY <2>1
  <2> DEFINE q == [asking[r] EXCEPT !.at = step, !.saw = enabled, !.throughout = enabled]
  <2>3. asking' = [asking EXCEPT ![r] = q]
    BY <2>2 DEF StreamInv
  <2>4. Sound(q)
    BY <1>0, <2>1 DEF Sound, SeesSwitches, LosslessFirst, StreamFields, AtRest, Unfallen
  <2> QED
    BY <1>0, <2>3, <2>4, OneMoves
<1>2. CASE Resolution!Dedup(r)
  <2> DEFINE q == [asking[r] EXCEPT !.owner = dedup', !.at = IF dedup = NoOne THEN "prepare" ELSE "queued"]
  <2>1. asking' = [asking EXCEPT ![r] = q] /\ asking[r].at = "admitted"
    BY <1>2 DEF Resolution!Dedup, Resolution!At, StreamInv
  <2>2. Sound(q)
    BY <1>0, <2>1 DEF Sound, SeesSwitches, LosslessFirst, StreamFields, AtRest, Unfallen
  <2> QED
    BY <1>0, <2>1, <2>2, OneMoves
<1>3. CASE Resolution!SkipDedup(r)
  <2> DEFINE q == [asking[r] EXCEPT !.at = "prepare"]
  <2>1. asking' = [asking EXCEPT ![r] = q] /\ asking[r].at = "admitted"
    BY <1>3 DEF Resolution!SkipDedup, Resolution!Move, Resolution!At, StreamInv
  <2>2. Sound(q)
    BY <1>0, <2>1 DEF Sound, SeesSwitches, LosslessFirst, StreamFields, AtRest, Unfallen
  <2> QED
    BY <1>0, <2>1, <2>2, OneMoves
<1>4. CASE Resolution!Resume(r)
  <2>1. /\ asking[r].at = "queued"
        /\ \/ asking' = [asking EXCEPT ![r] = [@ EXCEPT !.at = "prepare"]]
          
          
           \/ \E step \in {"served", "streaming"} : \E url : asking' = [asking EXCEPT ![r] = [Resolution!Idle EXCEPT !.at = step, !.url = url]]
    BY <1>4 DEF Resolution!Resume, Resolution!At
  <2>2. CASE asking' = [asking EXCEPT ![r] = [@ EXCEPT !.at = "prepare"]]
    <3>1. asking' = [asking EXCEPT ![r] = [asking[r] EXCEPT !.at = "prepare"]]
      BY <2>2
    <3>2. Sound([asking[r] EXCEPT !.at = "prepare"])
      BY <1>0, <2>1 DEF Sound, SeesSwitches, LosslessFirst, StreamFields, AtRest, Unfallen
    <3> QED
      BY <1>0, <3>1, <3>2, OneMoves
  <2>3. ASSUME NEW step \in {"served", "streaming"}, NEW url, asking' = [asking EXCEPT ![r] = [Resolution!Idle EXCEPT !.at = step, !.url = url]]
        PROVE  StreamInv'
    <3>1. Sound([Resolution!Idle EXCEPT !.at = step, !.url = url])
      BY DEF Sound, SeesSwitches, LosslessFirst, StreamFields, AtRest, Unfallen, Resolution!Idle
    <3> QED
      BY <1>0, <2>3, <3>1, OneMoves
  <2> QED
    BY <2>1, <2>2, <2>3
<1>5. CASE Resolution!Upgrade(r)
  <2>1. PICK id : asking' = [asking EXCEPT ![r].id = id, ![r].at = "url"]
    BY <1>5 DEF Resolution!Upgrade
  <2> DEFINE q == [asking[r] EXCEPT !.id = id, !.at = "url"]
  <2>2. asking' = [asking EXCEPT ![r] = q] /\ asking[r].at = "prepare"
    BY <1>5, <2>1 DEF Resolution!Upgrade, Resolution!At, StreamInv
  <2>3. Sound(q)
    BY <1>0, <2>2 DEF Sound, SeesSwitches, LosslessFirst, StreamFields, AtRest, Unfallen
  <2> QED
    BY <1>0, <2>2, <2>3, OneMoves
<1>6. CASE Resolution!CacheHit(r) \/ Resolution!Followed(r)
  <2> DEFINE q(u) == [asking[r] EXCEPT !.url = u, !.at = "join"]
  <2>1. (\E u : asking' = [asking EXCEPT ![r] = q(u)]) /\ asking[r].at \in {"url", "follow"}
    BY <1>6 DEF Resolution!CacheHit, Resolution!Followed, Resolution!At, StreamInv
  <2>2. ASSUME NEW u PROVE Sound(q(u))
    BY <1>0, <2>1 DEF Sound, SeesSwitches, LosslessFirst, StreamFields, AtRest, Unfallen
  <2> QED
    BY <1>0, <2>1, <2>2, OneMoves
<1>7. CASE Resolution!Follow(r)
  <2> DEFINE q == [asking[r] EXCEPT !.leader = flights[asking[r].id], !.at = "follow"]
  <2>1. asking' = [asking EXCEPT ![r] = q] /\ asking[r].at = "url"
    BY <1>7 DEF Resolution!Follow, Resolution!At, StreamInv
  <2>2. Sound(q)
    BY <1>0, <2>1 DEF Sound, SeesSwitches, LosslessFirst, StreamFields, AtRest, Unfallen
  <2> QED
    BY <1>0, <2>1, <2>2, OneMoves
<1>8. CASE Resolution!Lead(r)
  <2> DEFINE on == asking[r].id \in enabled
             q == [asking[r] EXCEPT !.at = IF on THEN "fetch" ELSE "isrc", !.detour = ~ on, !.fell = ~ on]
  <2>1. asking' = [asking EXCEPT ![r] = q] /\ asking[r].at = "url"
    BY <1>8 DEF Resolution!Lead, Resolution!At, StreamInv, Resolution!IsAudioEnabled
  <2>2. Sound(q)
    <3>1. CASE on
      BY <1>0, <2>1, <3>1 DEF Sound, SeesSwitches, LosslessFirst, StreamFields, AtRest, Unfallen
    <3>2. CASE ~ on
      BY <1>0, <2>1, <3>2 DEF Sound, SeesSwitches, LosslessFirst, StreamFields, AtRest, Unfallen
    <3> QED
      BY <3>1, <3>2
  <2> QED
    BY <1>0, <2>1, <2>2, OneMoves
<1> QED
  BY <1>1, <1>2, <1>3, <1>4, <1>5, <1>6, <1>7, <1>8

LEMMA Fetches ==
    ASSUME StreamInv, NEW r \in Callers, Resolution!Fetch(r)
    PROVE  StreamInv'
<1> DEFINE q(u) == [asking[r] EXCEPT !.url = u, !.at = "join", !.detour = FALSE]
<1>1. (\E u : asking' = [asking EXCEPT ![r] = q(u)]) /\ asking[r].at = "fetch" /\ UNCHANGED <<offer, enabled, sources>>
  BY ZenonT(60) DEF Resolution!Fetch, Resolution!Land, Resolution!At, StreamInv, Resolution!others, Resolution!registry
<1>2. Sound(asking[r])
  BY DEF StreamInv
<1>3. ASSUME NEW u PROVE Sound(q(u))
  BY <1>1, <1>2 DEF Sound, SeesSwitches, LosslessFirst, StreamFields, AtRest, Unfallen
<1> QED
  BY <1>1, <1>3, OneMoves

(* A request at its end, whatever that is.                                 *)
LEMMA EndsSound ==
    ASSUME NEW step \in AtRest \ {"start"}, NEW url, NEW owner
    PROVE  Sound([Resolution!Idle EXCEPT !.at = step, !.url = url]) /\ Sound([Resolution!Idle EXCEPT !.at = step, !.url = url, !.owner = owner])
BY DEF Sound, SeesSwitches, LosslessFirst, StreamFields, AtRest, Unfallen, Resolution!Idle

LEMMA Ends ==
    ASSUME StreamInv, NEW r \in Callers, Resolution!Answer(r) \/ Resolution!StreamEnds(r)
    PROVE  StreamInv'
<1>1. /\ UNCHANGED <<offer, enabled, sources>>
      /\ \E step \in AtRest \ {"start"} : \E url, owner :
            \/ asking' = [asking EXCEPT ![r] = [Resolution!Idle EXCEPT !.at = step, !.url = url]]
            \/ asking' = [asking EXCEPT ![r] = [Resolution!Idle EXCEPT !.at = step, !.url = url, !.owner = owner]]
  <2>1. "served" \in AtRest \ {"start"} /\ "streaming" \in AtRest \ {"start"}
    BY DEF AtRest
  <2>2. CASE Resolution!Answer(r)
    BY <2>1, <2>2 DEF Resolution!Answer, Resolution!Leave, Resolution!others, Resolution!registry
  <2>3. CASE Resolution!StreamEnds(r)
    <3>1. asking' = [asking EXCEPT ![r] = [Resolution!Idle EXCEPT !.at = "served", !.url = asking[r].url]]
      BY <2>3 DEF Resolution!StreamEnds, Resolution!Leave
    <3>2. UNCHANGED <<offer, enabled, sources>>
      BY <2>3 DEF Resolution!StreamEnds, Resolution!others, Resolution!registry
    <3> QED
      BY <2>1, <3>1, <3>2
  <2> QED
    BY <2>2, <2>3
<1> QED
  BY <1>1, EndsSound, OneMoves

LEMMA Joins ==
    ASSUME StreamInv, NEW r \in Callers, Resolution!Join(r)
    PROVE  StreamInv'
<1>1. Sound(asking[r]) /\ asking[r].at = "join" /\ UNCHANGED <<offer, enabled, sources>>
  BY DEF Resolution!Join, Resolution!At, StreamInv, Resolution!others, Resolution!registry
<1>2. CASE asking' = [asking EXCEPT ![r] = [Resolution!Idle EXCEPT !.at = "refused", !.url = NoOne]]
  <2>1. "refused" \in AtRest \ {"start"}
    BY DEF AtRest
  <2> QED
    BY <1>1, <1>2, <2>1, EndsSound, OneMoves
<1>3. CASE asking[r].url # NoOne /\ asking' = [asking EXCEPT ![r].at = "finish"]
  <2> DEFINE q == [asking[r] EXCEPT !.at = "finish"]
  <2>1. Sound(q)
    BY <1>1, <1>3 DEF Sound, SeesSwitches, LosslessFirst, NoLossless, StreamFields, AtRest, Unfallen
  <2> QED
    BY <1>1, <1>3, <2>1, OneMoves DEF StreamInv
<1>4. CASE asking' = [asking EXCEPT ![r].at = "sources", ![r].alts = Resolution!Alternatives(asking[r].id),
                              ![r].lossy = ~ Resolution!HasLosslessProviders, ![r].fell = TRUE]
  <2> DEFINE q == [asking[r] EXCEPT !.at = "sources", !.alts = Resolution!Alternatives(asking[r].id),
                                 !.lossy = ~ Resolution!HasLosslessProviders, !.fell = TRUE]
  <2>1. \A alt \in Resolution!Alternatives(asking[r].id) : alt.tier \in Nat
    BY DEF Resolution!Alternatives, Resolution!Sources, StreamInv, TiersKnown
  <2>2. ~ Resolution!HasLosslessProviders => Lossless \cap asking[r].throughout = {}
    BY <1>1 DEF Resolution!HasLosslessProviders, Resolution!IsAudioEnabled, StreamInv, Sound, SeesSwitches, Lossless,
                AtRest
  <2> HIDE DEF Resolution!HasLosslessProviders
  <2>3. Sound(q)
    BY <1>1, <2>1, <2>2 DEF Sound, SeesSwitches, LosslessFirst, StreamFields, AtRest, Unfallen
  <2>4. asking' = [asking EXCEPT ![r] = q]
    BY <1>4 DEF StreamInv
  <2> HIDE DEF q
  <2> QED
    BY <1>1, <2>3, <2>4, OneMoves
<1> QED
  BY <1>2, <1>3, <1>4 DEF Resolution!Join, Resolution!Leave

(* A remembered source of the lowest tier is taken only by a request that  *)
(* has no lossless provider.                                               *)
LEMMA TriesAlternative ==
    ASSUME StreamInv, NEW r \in Callers, Resolution!TryAlternative(r)
    PROVE  StreamInv'
<1>1. Sound(asking[r]) /\ asking[r].at = "sources" /\ UNCHANGED <<offer, enabled, sources>>
  BY DEF Resolution!TryAlternative, Resolution!At, StreamInv, Resolution!others, Resolution!registry
<1>2. PICK alt \in asking[r].alts :
          LET p == alt.prov
              now == Resolution!EffectiveQualityTier(p, alt.tier) >= 80 \/ asking[r].lossy
          IN  asking' = IF Resolution!IsAudioEnabled(p) /\ now /\ Resolution!GivesAll(p)
                     THEN [asking EXCEPT ![r].url = p, ![r].at = "finish", ![r].alts = {}]
                     ELSE [asking EXCEPT ![r].alts = @ \ {alt},
                              ![r].last = IF Resolution!IsAudioEnabled(p) /\ ~now /\ @ = NoOne THEN p ELSE @]
  BY DEF Resolution!TryAlternative
<1> DEFINE p == alt.prov
           now == Resolution!EffectiveQualityTier(p, alt.tier) >= 80 \/ asking[r].lossy
           last == IF Resolution!IsAudioEnabled(p) /\ ~now /\ asking[r].last = NoOne THEN p ELSE asking[r].last
           taken == [asking[r] EXCEPT !.url = p, !.at = "finish", !.alts = {}]
           passed == [asking[r] EXCEPT !.alts = @ \ {alt}, !.last = last]
<1>3. \/ now /\ asking' = [asking EXCEPT ![r] = taken]
      \/ asking' = [asking EXCEPT ![r] = passed]
  BY <1>2 DEF StreamInv
<1>4. now /\ Resolution!MaxQualityTier(p) = 30 => asking[r].lossy
  <2>1. alt.tier \in Nat
    BY <1>1 DEF Sound
  <2> QED
    BY <2>1 DEF Resolution!EffectiveQualityTier
<1>5. last \in asking[r].saw \cup {NoOne}
  BY <1>1 DEF Resolution!IsAudioEnabled, Sound, SeesSwitches, AtRest
<1> HIDE DEF now, last
<1>6. now => Sound(taken)
  BY <1>1, <1>4 DEF Sound, SeesSwitches, LosslessFirst, NoLossless, StreamFields, AtRest, Unfallen
<1>7. Sound(passed)
  BY <1>1, <1>5 DEF Sound, SeesSwitches, LosslessFirst, StreamFields, AtRest, Unfallen
<1> QED
  BY <1>1, <1>3, <1>6, <1>7, OneMoves

LEMMA Scans ==
    ASSUME StreamInv, NEW r \in Callers, Resolution!ScanStarts(r) \/ Resolution!Scan(r)
    PROVE  StreamInv'
<1>1. Sound(asking[r]) /\ UNCHANGED <<offer, enabled, sources>>
  BY DEF Resolution!ScanStarts, Resolution!Scan, StreamInv
<1>2. CASE Resolution!ScanStarts(r)
  <2> DEFINE q == [asking[r] EXCEPT !.at = "scan"]
  <2>1. asking' = [asking EXCEPT ![r] = q] /\ asking[r].at \in {"isrc", "sources"}
    BY <1>2 DEF Resolution!ScanStarts, Resolution!Move, Resolution!At, StreamInv
  <2>2. Sound(q)
    BY <1>1, <2>1 DEF Sound, SeesSwitches, LosslessFirst, StreamFields, AtRest, Unfallen
  <2> QED
    BY <1>1, <2>1, <2>2, OneMoves
<1>3. CASE Resolution!Scan(r)
  <2> DEFINE found == {p \in Resolution!ByIsrc : Resolution!IsAudioEnabled(p) /\ p # asking[r].id}
             chain == IF asking[r].detour THEN Resolution!DetourChain ELSE Resolution!LosslessChain \cup Resolution!LossyChain
             rest == Resolution!Asks("isrc", found) \cup Resolution!Asks("match", chain)
             q == [asking[r] EXCEPT !.at = "ask", !.rest = rest]
  <2>1. asking' = [asking EXCEPT ![r] = q] /\ asking[r].at = "scan"
    BY <1>3 DEF Resolution!Scan, Resolution!At, StreamInv
  <2>2. enabled \subseteq Streamers /\ asking[r].throughout \subseteq enabled /\ enabled \subseteq asking[r].saw
    BY <1>1, <2>1 DEF StreamInv, Sound, SeesSwitches, AtRest
  <2>3. \A ask \in rest : ask.prov \in DOMAIN Resolution!Turn /\ (ask.how = "isrc" => ask.prov \in asking[r].saw \cap Resolution!ByIsrc)
    BY <2>2 DEF Resolution!Asks, Resolution!IsAudioEnabled, Resolution!Turn, Resolution!ByIsrc,
                Resolution!DetourChain, Resolution!LosslessChain, Resolution!LossyChain
  <2>4. \A p \in Lossless \cap asking[r].throughout : [how |-> "match", prov |-> p] \in rest
    BY <2>2 DEF Resolution!Asks, Lossless, Resolution!DetourChain, Resolution!LosslessChain
  <2> HIDE DEF rest
  <2>5. Sound(q)
    BY <1>1, <2>1, <2>3, <2>4 DEF Sound, SeesSwitches, LosslessFirst, StreamFields, AtRest, Unfallen
  <2> QED
    BY <1>1, <2>1, <2>5, OneMoves
<1> QED
  BY <1>2, <1>3

-----------------------------------------------------------------------------
(* Asking one provider after the other                                     *)

(* Once one of the lowest tier is asked for a match, those that have       *)
(* lossless audio have been asked.                                         *)
LEMMA LosslessAskedBefore ==
    ASSUME NEW r, NEW p, Resolution!MaxQualityTier(p) = 30, Resolution!NextAsk(r, [how |-> "match", prov |-> p]), p \in DOMAIN Resolution!Turn,
           LosslessFirst(asking[r]), asking[r].at = "ask"
    PROVE  NoLossless(asking[r])
<1> SUFFICES ASSUME NEW l \in Lossless \cap asking[r].throughout, l # asking[r].id, Resolution!GivesAll(l)
             PROVE  FALSE
  BY DEF NoLossless
<1>1. [how |-> "match", prov |-> l] \in asking[r].rest
  BY DEF LosslessFirst
<1>2. l # p /\ p \in {"yt", "sc"}
  BY DEF Lossless, Resolution!MaxQualityTier, Resolution!Turn
<1>3. Resolution!Earlier([how |-> "match", prov |-> p], [how |-> "match", prov |-> l])
  BY <1>1, <1>2 DEF Resolution!NextAsk
<1>4. Resolution!Turn[p] < Resolution!Turn[l]
  BY <1>3 DEF Resolution!Earlier
<1> QED
  BY <1>2, <1>4 DEF Resolution!Turn, Lossless

(* A provider that gives nothing is passed over: what is known of those    *)
(* that were asked before it still is.                                     *)
LEMMA PassesOver ==
    ASSUME StreamInv, NEW r \in Callers, asking[r].at = "ask", UNCHANGED <<offer, enabled, sources>>,
           NEW ask, Resolution!PassOver(r, ask),
           \A p \in Lossless \cap asking[r].throughout :
               ask = [how |-> "match", prov |-> p] => p = asking[r].id \/ ~ Resolution!GivesAll(p)
    PROVE  StreamInv'
<1> DEFINE q == [asking[r] EXCEPT !.rest = @ \ {ask}]
<1>1. asking' = [asking EXCEPT ![r] = q] /\ Sound(asking[r])
  BY DEF Resolution!PassOver, StreamInv
<1>2. Sound(q)
  <2>1. \A p \in Lossless \cap asking[r].throughout :
            p = asking[r].id \/ ~ Resolution!GivesAll(p) \/ [how |-> "match", prov |-> p] \in asking[r].rest \ {ask}
    BY <1>1 DEF Sound, LosslessFirst
  <2> QED
    BY <1>1, <2>1 DEF Sound, SeesSwitches, LosslessFirst, StreamFields, AtRest, Unfallen
<1> QED
  BY <1>1, <1>2, OneMoves

(* An answer: the URL of one that is of a higher tier, or no lossless one  *)
(* is left.                                                                *)
LEMMA AnswerSound ==
    ASSUME StreamInv, NEW r \in Callers, asking[r].at = "ask", NEW url, url # NoOne,
           Resolution!MaxQualityTier(url) # 30 \/ NoLossless(asking[r])
    PROVE  /\ Sound([asking[r] EXCEPT !.url = url, !.at = "join", !.detour = FALSE])
           /\ Sound([asking[r] EXCEPT !.url = url, !.at = "finish", !.rest = {}])
<1>1. Sound(asking[r])
  BY DEF StreamInv
<1>2. Sound([asking[r] EXCEPT !.url = url, !.at = "join", !.detour = FALSE])
  BY <1>1 DEF Sound, SeesSwitches, LosslessFirst, NoLossless, StreamFields, AtRest, Unfallen
<1>3. Sound([asking[r] EXCEPT !.url = url, !.at = "finish", !.rest = {}])
  BY <1>1 DEF Sound, SeesSwitches, LosslessFirst, NoLossless, StreamFields, AtRest, Unfallen
<1> QED
  BY <1>2, <1>3

LEMMA AsksOne ==
    ASSUME Resolution!ResolutionAssumption, StreamInv, NEW r \in Callers, NEW p \in Streamers, asking[r].at = "ask",
           UNCHANGED <<offer, enabled>>,
           NEW tier \in Nat, NEW idTier \in Nat,
           \/ Resolution!Land(r, p) /\ sources' = sources
           \/ Resolution!Rescued(r, p) /\ Resolution!Save(asking[r].id, p, tier, idTier),
           Resolution!MaxQualityTier(p) # 30 \/ NoLossless(asking[r])
    PROVE  StreamInv'
<1>1. p # NoOne
  BY DEF Resolution!ResolutionAssumption
<1>2. CASE Resolution!Land(r, p) /\ sources' = sources
  <2> DEFINE q == [asking[r] EXCEPT !.url = p, !.at = "join", !.detour = FALSE]
  <2>1. asking' = [asking EXCEPT ![r] = q]
    BY <1>2 DEF Resolution!Land, StreamInv
  <2>2. Sound(q)
    BY <1>1, AnswerSound
  <2> QED
    BY <1>2, <2>1, <2>2, OneMoves
<1>3. CASE Resolution!Rescued(r, p) /\ Resolution!Save(asking[r].id, p, tier, idTier)
  <2> DEFINE q == [asking[r] EXCEPT !.url = p, !.at = "finish", !.rest = {}]
  <2>1. asking' = [asking EXCEPT ![r] = q]
    BY <1>3 DEF Resolution!Rescued, StreamInv
  <2>2. Sound(q)
    BY <1>1, AnswerSound
  <2>3. \A o : Resolution!EffectiveQualityTier(o, idTier) \in Nat
    BY DEF Resolution!EffectiveQualityTier, Resolution!MaxQualityTier
  <2>4. TiersKnown'
    BY <1>3, <2>3 DEF Resolution!Save, StreamInv, TiersKnown
  <2> HIDE DEF q
  <2> QED
    BY <2>1, <2>2, <2>4, OneSaves
<1> QED
  BY <1>2, <1>3

LEMMA TiersTyped ==
    ASSUME NEW p
    PROVE  Resolution!TierOf(p) \in Nat /\ Resolution!EffectiveQualityTier(p, 80) \in Nat
BY DEF Resolution!TierOf, Resolution!EffectiveQualityTier, Resolution!MaxQualityTier

LEMMA AsksByIsrc ==
    ASSUME Resolution!ResolutionAssumption, StreamInv, NEW r \in Callers, NEW p \in Streamers, Resolution!AskByIsrc(r, p)
    PROVE  StreamInv'
<1>1. /\ asking[r].at = "ask" /\ [how |-> "isrc", prov |-> p] \in asking[r].rest /\ UNCHANGED <<offer, enabled>>
      /\ \/ Resolution!PassOver(r, [how |-> "isrc", prov |-> p]) /\ sources' = sources
         \/ Resolution!Land(r, p) /\ sources' = sources
         \/ Resolution!Rescued(r, p) /\ Resolution!Save(asking[r].id, p, Resolution!EffectiveQualityTier(p, 80), 80)
  BY DEF Resolution!AskByIsrc, Resolution!At, Resolution!NextAsk, Resolution!registry
<1>2. Resolution!MaxQualityTier(p) # 30
  <2>1. p \in Resolution!ByIsrc
    BY <1>1 DEF StreamInv, Sound, SeesSwitches
  <2> QED
    BY <2>1 DEF Resolution!ByIsrc, Resolution!MaxQualityTier
<1>3. CASE Resolution!PassOver(r, [how |-> "isrc", prov |-> p]) /\ sources' = sources
  BY <1>1, <1>3, PassesOver
<1>4. CASE \/ Resolution!Land(r, p) /\ sources' = sources
           \/ Resolution!Rescued(r, p) /\ Resolution!Save(asking[r].id, p, Resolution!EffectiveQualityTier(p, 80), 80)
  BY <1>1, <1>2, <1>4, TiersTyped, AsksOne
<1> QED
  BY <1>1, <1>3, <1>4

LEMMA AsksForMatch ==
    ASSUME Resolution!ResolutionAssumption, StreamInv, NEW r \in Callers, NEW p \in Streamers, Resolution!Match(r, p)
    PROVE  StreamInv'
<1>1. /\ asking[r].at = "ask" /\ Resolution!NextAsk(r, [how |-> "match", prov |-> p]) /\ UNCHANGED <<offer, enabled>>
      /\ \/ ~ Resolution!Matches(r, p) /\ Resolution!PassOver(r, [how |-> "match", prov |-> p]) /\ sources' = sources
         \/ Resolution!Land(r, p) /\ sources' = sources
         \/ Resolution!Rescued(r, p) /\ Resolution!Save(asking[r].id, p, Resolution!TierOf(p), IF p = "qb" THEN 100 ELSE 80)
  BY DEF Resolution!Match, Resolution!At, Resolution!registry
<1>2. Sound(asking[r]) /\ asking[r].throughout \subseteq enabled
  BY <1>1 DEF StreamInv, Sound, SeesSwitches, AtRest
<1>3. CASE ~ Resolution!Matches(r, p) /\ Resolution!PassOver(r, [how |-> "match", prov |-> p]) /\ sources' = sources
  <2>1. ASSUME NEW l \in Lossless \cap asking[r].throughout, [how |-> "match", prov |-> p] = [how |-> "match", prov |-> l]
        PROVE  l = asking[r].id \/ ~ Resolution!GivesAll(l)
    <3>1. l = p /\ l \in enabled
      BY <1>2, <2>1
    <3> QED
      BY <1>3, <3>1 DEF Resolution!Matches, Resolution!IsAudioEnabled, Resolution!Gives, Resolution!GivesAll
  <2> QED
    BY <1>1, <1>3, <2>1, PassesOver
<1>4. CASE \/ Resolution!Land(r, p) /\ sources' = sources
           \/ Resolution!Rescued(r, p) /\ Resolution!Save(asking[r].id, p, Resolution!TierOf(p), IF p = "qb" THEN 100 ELSE 80)
  <2>1. p \in DOMAIN Resolution!Turn
    BY <1>1, <1>2 DEF Resolution!NextAsk, Sound, SeesSwitches
  <2>2. Resolution!MaxQualityTier(p) # 30 \/ NoLossless(asking[r])
    BY <1>1, <1>2, <2>1, LosslessAskedBefore DEF Sound
  <2>3. (IF p = "qb" THEN 100 ELSE 80) \in Nat
    OBVIOUS
  <2> QED
    BY <1>1, <1>4, <2>2, <2>3, TiersTyped, AsksOne
<1> QED
  BY <1>1, <1>3, <1>4

LEMMA AsksNobody ==
    ASSUME StreamInv, NEW r \in Callers, Resolution!NoMatch(r)
    PROVE  StreamInv'
<1>1. Sound(asking[r]) /\ asking[r].at = "ask" /\ asking[r].rest = {} /\ UNCHANGED <<offer, enabled, sources>>
  BY DEF Resolution!NoMatch, Resolution!At, StreamInv, Resolution!others, Resolution!registry
<1>2. NoLossless(asking[r])
  BY <1>1 DEF Sound, LosslessFirst, NoLossless
<1>3. CASE Resolution!Land(r, NoOne)
  <2> DEFINE q == [asking[r] EXCEPT !.url = NoOne, !.at = "join", !.detour = FALSE]
  <2>1. asking' = [asking EXCEPT ![r] = q]
    BY <1>3 DEF Resolution!Land, StreamInv
  <2>2. Sound(q)
    BY <1>1 DEF Sound, SeesSwitches, LosslessFirst, StreamFields, AtRest, Unfallen
  <2> QED
    BY <1>1, <2>1, <2>2, OneMoves
<1>4. CASE asking[r].last # NoOne /\ Resolution!Rescued(r, asking[r].last)
  <2> DEFINE q == [asking[r] EXCEPT !.url = asking[r].last, !.at = "finish", !.rest = {}]
  <2>1. asking' = [asking EXCEPT ![r] = q]
    BY <1>4 DEF Resolution!Rescued, StreamInv
  <2>2. Sound(q)
    BY <1>1, <1>2, <1>4, AnswerSound
  <2> QED
    BY <1>1, <2>1, <2>2, OneMoves
<1>5. CASE Resolution!Leave(r, "refused", NoOne, "failed")
  <2>1. asking' = [asking EXCEPT ![r] = [Resolution!Idle EXCEPT !.at = "refused", !.url = NoOne]] /\ "refused" \in AtRest \ {"start"}
    BY <1>5 DEF Resolution!Leave, AtRest
  <2> QED
    BY <1>1, <2>1, EndsSound, OneMoves
<1> QED
  BY <1>3, <1>4, <1>5 DEF Resolution!NoMatch

(* A switch: who is busy has seen one more state of them.                  *)
LEMMA SwitchFlips ==
    ASSUME Resolution!ResolutionAssumption, StreamInv, NEW p \in Flipped, Resolution!SetAudioEnabled(p)
    PROVE  StreamInv'
<1>1. /\ enabled' \subseteq Streamers /\ UNCHANGED <<offer, sources>> /\ DOMAIN asking' = Callers
      /\ \A r \in Callers :
            asking'[r] = IF asking[r].at \in AtRest THEN asking[r]
                      ELSE [asking[r] EXCEPT !.saw = @ \cup enabled', !.throughout = @ \cap enabled']
  BY ZenonT(60) DEF Resolution!SetAudioEnabled, Resolution!Toggled, Resolution!ResolutionAssumption, StreamInv, AtRest
<1>2. ASSUME NEW r \in Callers PROVE Sound(asking[r])'
  <2>1. Sound(asking[r])
    BY DEF StreamInv
  <2>2. CASE asking[r].at \in AtRest
    <3>1. asking'[r] = asking[r]
      BY <1>1, <2>2
    <3> QED
      BY <1>1, <2>1, <2>2, <3>1 DEF Sound, SeesSwitches, LosslessFirst, NoLossless, Resolution!GivesAll,
                                    Resolution!ByIsrc, Resolution!Turn, AtRest
  <2>3. CASE asking[r].at \notin AtRest
    <3> DEFINE q == [asking[r] EXCEPT !.saw = @ \cup enabled', !.throughout = @ \cap enabled']
    <3>1. asking'[r] = q
      BY <1>1, <2>3
    <3>2. /\ DOMAIN q = StreamFields /\ q.saw = asking[r].saw \cup enabled'
          /\ q.throughout = asking[r].throughout \cap enabled'
          /\ q.at = asking[r].at /\ q.id = asking[r].id /\ q.url = asking[r].url /\ q.alts = asking[r].alts /\ q.lossy = asking[r].lossy
          /\ q.rest = asking[r].rest /\ q.last = asking[r].last /\ q.fell = asking[r].fell
      BY <2>1 DEF Sound, StreamFields
    <3> HIDE DEF q
    <3>3. SeesSwitches(asking[r])'
      BY <2>1, <2>3, <3>1, <3>2 DEF Sound, SeesSwitches, Resolution!ByIsrc, Resolution!Turn
    <3>4. LosslessFirst(asking[r])'
      BY <1>1, <2>1, <3>1, <3>2 DEF Sound, LosslessFirst, NoLossless, Resolution!GivesAll
    <3> QED
      BY <2>1, <3>1, <3>2, <3>3, <3>4 DEF Sound
  <2> QED
    BY <2>2, <2>3
<1> QED
  BY <1>1, <1>2 DEF StreamInv, TiersKnown

LEMMA StreamsStep ==
    ASSUME Resolution!ResolutionAssumption, StreamInv, [Resolution!Next]_(Resolution!vars)
    PROVE  StreamInv'
<1>1. ASSUME NEW r \in Callers, Resolution!Proceed(r) PROVE StreamInv'
  BY <1>1, BeforeUrl, Fetches, Joins, TriesAlternative, Scans, AsksByIsrc, AsksForMatch, AsksNobody, Ends
     DEF Resolution!Proceed, Resolution!Rescue
<1>2. ASSUME NEW p \in Flipped, Resolution!SetAudioEnabled(p) PROVE StreamInv'
  BY <1>2, SwitchFlips
<1>3. CASE \/ \E r \in Callers : Resolution!ForgetStream(r) \/ Resolution!ForgetFlight(r)
           \/ \E p \in Flipped : Resolution!SwitchArrives(p)
           \/ \E id \in Streamers : Resolution!ExpireUrl(id)
           \/ UNCHANGED Resolution!vars
  <2>1. UNCHANGED <<offer, enabled, sources, asking>>
    BY <1>3 DEF Resolution!ForgetStream, Resolution!ForgetFlight, Resolution!SwitchArrives, Resolution!ExpireUrl,
                Resolution!others, Resolution!registry, Resolution!vars
  <2> QED
    BY <2>1, NobodyMoves
<1> QED
  BY <1>1, <1>2, <1>3 DEF Resolution!Next

LEMMA StreamsInit ==
    ASSUME Resolution!ResolutionAssumption, Resolution!Init
    PROVE  StreamInv
<1>1. enabled \subseteq Streamers /\ TiersKnown
  BY DEF Resolution!Init, Resolution!ResolutionAssumption, TiersKnown
<1>2. Sound(Resolution!Idle)
  BY DEF Sound, SeesSwitches, LosslessFirst, StreamFields, AtRest, Unfallen, Resolution!Idle
<1> QED
  BY <1>1, <1>2 DEF Resolution!Init, StreamInv

LEMMA LossyIsLast == StreamInv => Resolution!LossyLast
BY DEF StreamInv, Sound, LosslessFirst, NoLossless, Lossless, Resolution!LossyLast

LEMMA EndsUrl ==
    ASSUME NEW step, NEW url, NEW owner
    PROVE  /\ [Resolution!Idle EXCEPT !.at = step, !.url = url].url = url
           /\ [Resolution!Idle EXCEPT !.at = step, !.url = url, !.owner = owner].url = url
BY DEF Resolution!Idle

(* Where a URL comes from, in each of the ways to one.                     *)
LEMMA SwitchesHold ==
    ASSUME Resolution!ResolutionAssumption, StreamInv, [Resolution!Next]_(Resolution!vars),
           NEW r \in Callers, asking'[r].url \notin {NoOne, asking[r].url}, asking[r].at \notin {"queued", "url", "follow"}
    PROVE  asking'[r].url \in asking[r].saw
<1>1. Sound(asking[r]) /\ DOMAIN asking = Callers
  BY DEF StreamInv
<1> USE <1>1 DEF Sound, StreamFields
<1>2. ASSUME NEW o \in Callers, Resolution!Proceed(o) PROVE asking'[r].url \in asking[r].saw
  <2>1. CASE Resolution!Admit(o) \/ Resolution!Dedup(o) \/ Resolution!SkipDedup(o) \/ Resolution!Upgrade(o)
             \/ Resolution!Follow(o) \/ Resolution!Lead(o) \/ Resolution!ScanStarts(o) \/ Resolution!Scan(o)
    <3>1. CASE Resolution!Admit(o) \/ Resolution!Dedup(o) \/ Resolution!SkipDedup(o)
      BY <3>1 DEF Resolution!Admit, Resolution!Dedup, Resolution!SkipDedup, Resolution!Move, StreamInv
    <3>2. CASE Resolution!Upgrade(o) \/ Resolution!Follow(o) \/ Resolution!Lead(o)
      <4>1. CASE Resolution!Upgrade(o) \/ Resolution!Follow(o)
        <5>1. ASSUME Resolution!Upgrade(o) PROVE asking'[o].url = asking[o].url /\ \A q \in Callers \ {o} : asking'[q] = asking[q]
          <6>1. PICK id : asking' = [asking EXCEPT ![o].id = id, ![o].at = "url"]
            BY <5>1 DEF Resolution!Upgrade
          <6> QED
            BY <6>1 DEF StreamInv
        <5>2. ASSUME Resolution!Follow(o) PROVE asking'[o].url = asking[o].url /\ \A q \in Callers \ {o} : asking'[q] = asking[q]
          BY <5>2 DEF Resolution!Follow, StreamInv
        <5> QED
          BY <4>1, <5>1, <5>2
      <4>2. CASE Resolution!Lead(o)
        <5>1. \E at, detour, fell : asking' = [asking EXCEPT ![o].at = at, ![o].detour = detour, ![o].fell = fell]
          BY <4>2 DEF Resolution!Lead
        <5> QED
          BY <5>1 DEF StreamInv
      <4> QED
        BY <3>2, <4>1, <4>2
    <3>3. CASE Resolution!ScanStarts(o) \/ Resolution!Scan(o)
      BY <3>3 DEF Resolution!ScanStarts, Resolution!Scan, Resolution!Move, StreamInv
    <3> QED
      BY <2>1, <3>1, <3>2, <3>3
  <2>2. CASE Resolution!Resume(o) \/ Resolution!CacheHit(o) \/ Resolution!Followed(o)
    BY <2>2 DEF Resolution!Resume, Resolution!CacheHit, Resolution!Followed, Resolution!At, StreamInv
  <2>3. CASE Resolution!Fetch(o)
    BY <2>3 DEF Resolution!Fetch, Resolution!Land, Resolution!At, StreamInv, SeesSwitches
  <2>4. CASE Resolution!Join(o)
    <3>1. CASE Resolution!Leave(o, "refused", NoOne, "failed")
      BY <3>1, EndsUrl DEF Resolution!Leave, StreamInv
    <3>2. CASE ~ Resolution!Leave(o, "refused", NoOne, "failed")
      BY <2>4, <3>2 DEF Resolution!Join, StreamInv
    <3> QED
      BY <3>1, <3>2
  <2>5. CASE Resolution!TryAlternative(o)
    <3>1. /\ asking[o].at = "sources"
          /\ \E alt \in asking[o].alts :
               \/ Resolution!IsAudioEnabled(alt.prov) /\ asking' = [asking EXCEPT ![o].url = alt.prov, ![o].at = "finish", ![o].alts = {}]
               \/ \E last : asking' = [asking EXCEPT ![o].alts = @ \ {alt}, ![o].last = last]
      BY <2>5 DEF Resolution!TryAlternative, Resolution!At, StreamInv
    <3> QED
      BY <3>1 DEF StreamInv, SeesSwitches, Resolution!IsAudioEnabled, AtRest
  <2>6. CASE \E p \in Streamers : Resolution!AskByIsrc(o, p)
    <3>1. PICK p \in Streamers : /\ [how |-> "isrc", prov |-> p] \in asking[o].rest
                                 /\ Resolution!PassOver(o, [how |-> "isrc", prov |-> p]) \/ Resolution!Land(o, p) \/ Resolution!Rescued(o, p)
      BY <2>6 DEF Resolution!AskByIsrc, Resolution!NextAsk
    <3>2. p \in asking[o].saw
      BY <3>1 DEF StreamInv, SeesSwitches
    <3> QED
      BY <3>1, <3>2 DEF Resolution!PassOver, Resolution!Land, Resolution!Rescued, StreamInv
  <2>7. CASE \E p \in Streamers : Resolution!Match(o, p)
    <3>1. PICK p \in Streamers : /\ asking[o].at = "ask"
                                 /\ \/ \E ask : Resolution!PassOver(o, ask)
                                    \/ p \in enabled /\ (Resolution!Land(o, p) \/ Resolution!Rescued(o, p))
      BY <2>7 DEF Resolution!Match, Resolution!Matches, Resolution!IsAudioEnabled, Resolution!At
    <3>2. p \in enabled => p \in asking[o].saw
      BY <3>1 DEF StreamInv, SeesSwitches, AtRest
    <3> QED
      BY <3>1, <3>2 DEF Resolution!PassOver, Resolution!Land, Resolution!Rescued, StreamInv
  <2>8. CASE Resolution!NoMatch(o)
    <3>1. Resolution!Land(o, NoOne) \/ Resolution!Rescued(o, asking[o].last)
    \/ Resolution!Leave(o, "refused", NoOne, "failed")
      BY <2>8 DEF Resolution!NoMatch
    <3>2. asking[o].last \in asking[o].saw \cup {NoOne}
      BY DEF StreamInv, SeesSwitches
    <3>3. CASE Resolution!Land(o, NoOne) \/ Resolution!Rescued(o, asking[o].last)
      BY <3>2, <3>3 DEF Resolution!Land, Resolution!Rescued, StreamInv
    <3>4. CASE Resolution!Leave(o, "refused", NoOne, "failed")
      BY <3>4, EndsUrl DEF Resolution!Leave, StreamInv
    <3> QED
      BY <3>1, <3>3, <3>4
  <2>9. CASE Resolution!Answer(o) \/ Resolution!StreamEnds(o)
    <3>1. asking'[o].url = asking[o].url
      <4>1. CASE Resolution!StreamEnds(o)
        <5>1. asking' = [asking EXCEPT ![o] = [Resolution!Idle EXCEPT !.at = "served", !.url = asking[o].url]]
          BY <4>1 DEF Resolution!StreamEnds, Resolution!Leave
        <5> QED
          BY <5>1, EndsUrl DEF StreamInv
      <4>2. CASE Resolution!Answer(o)
        <5>1. \/ asking' = [asking EXCEPT ![o] = [Resolution!Idle EXCEPT !.at = "served", !.url = asking[o].url]]
             
             
              \/ asking' = [asking EXCEPT ![o] = [Resolution!Idle EXCEPT !.at = "streaming", !.url = asking[o].url, !.owner = asking[o].owner]]
          BY <4>2 DEF Resolution!Answer, Resolution!Leave
        <5> DEFINE q == [Resolution!Idle EXCEPT !.at = "streaming", !.url = asking[o].url, !.owner = asking[o].owner]
        <5>2. q.url = asking[o].url
          BY DEF Resolution!Idle
        <5>3. CASE asking' = [asking EXCEPT ![o] = q]
          <6> HIDE DEF q
          <6> QED
            BY <5>2, <5>3 DEF StreamInv
        <5>4. CASE asking' = [asking EXCEPT ![o] = [Resolution!Idle EXCEPT !.at = "served", !.url = asking[o].url]]
          BY <5>4, EndsUrl DEF StreamInv
        <5> QED
          BY <5>1, <5>3, <5>4
      <4> QED
        BY <2>9, <4>1, <4>2
    <3>2. \A q \in Callers \ {o} : asking'[q] = asking[q]
      BY <2>9 DEF Resolution!Answer, Resolution!StreamEnds, Resolution!Leave, StreamInv
    <3> QED
      BY <3>1, <3>2
  <2> QED
    BY <1>2, <2>1, <2>2, <2>3, <2>4, <2>5, <2>6, <2>7, <2>8, <2>9 DEF Resolution!Proceed, Resolution!Rescue
<1>3. ASSUME NEW p \in Flipped, Resolution!SetAudioEnabled(p) PROVE asking'[r].url \in asking[r].saw
  BY <1>3 DEF Resolution!SetAudioEnabled, StreamInv
<1>4. CASE \/ \E o \in Callers : Resolution!ForgetStream(o) \/ Resolution!ForgetFlight(o)
           \/ \E p \in Flipped : Resolution!SwitchArrives(p)
           \/ \E id \in Streamers : Resolution!ExpireUrl(id)
           \/ UNCHANGED Resolution!vars
  BY <1>4 DEF Resolution!ForgetStream, Resolution!ForgetFlight, Resolution!SwitchArrives, Resolution!ExpireUrl,
              Resolution!others, Resolution!registry, Resolution!vars
<1> QED
  BY <1>2, <1>3, <1>4 DEF Resolution!Next

-----------------------------------------------------------------------------
(* The streams of the composition                                          *)

LEMMA StreamInvariance == ASSUME SubsonicAssumption PROVE SubsonicSpec => []StreamInv
<1>1. SubsonicInit => StreamInv
  BY StreamsInit DEF SubsonicInit, SubsonicAssumption
<1>2. StreamInv /\ [SubsonicNext]_all => StreamInv'
  <2> SUFFICES ASSUME StreamInv, [SubsonicNext]_all
               PROVE  StreamInv'
    OBVIOUS
  <2>1. [Resolution!Next]_(Resolution!vars)
    BY DEF SubsonicNext, LibraryStep, StreamStep, YouTubeStep, all, streams, Resolution!vars, Resolution!registry
  <2> QED
    BY <2>1, StreamsStep DEF SubsonicAssumption
<1> QED
  BY <1>1, <1>2, PTL DEF SubsonicSpec

(* However tiers were stored, sources remembered and switches flipped in   *)
(* the meantime: a request that fell back and is given a source of the     *)
(* lowest tier had no lossless provider, but for that of its own id, that  *)
(* was switched on all the time and has the song.                          *)
THEOREM LossyIsLastResort == ASSUME SubsonicAssumption PROVE SubsonicSpec => []LossyLast
<1>1. StreamInv => LossyLast
  BY LossyIsLast DEF LossyLast
<1> QED
  BY <1>1, StreamInvariance, PTL

(* In each of the ways to a URL, a request takes one only of a provider    *)
(* that it has seen switched on.                                           *)
THEOREM SwitchesAreRespected == ASSUME SubsonicAssumption PROVE SubsonicSpec => SwitchRespected
<1>1. StreamInv /\ [SubsonicNext]_all =>
          [\A r \in Callers :
               asking'[r].url \notin {NoOne, asking[r].url} /\ asking[r].at \notin {"queued", "url", "follow"}
                   => asking'[r].url \in asking[r].saw]_(Resolution!vars)
  <2> SUFFICES ASSUME StreamInv, [SubsonicNext]_all,
                      NEW r \in Callers, asking'[r].url \notin {NoOne, asking[r].url},
                      asking[r].at \notin {"queued", "url", "follow"}
               PROVE  asking'[r].url \in asking[r].saw
    OBVIOUS
  <2>1. [Resolution!Next]_(Resolution!vars)
    BY DEF SubsonicNext, LibraryStep, StreamStep, YouTubeStep, all, streams, Resolution!vars, Resolution!registry
  <2> QED
    BY <2>1, SwitchesHold DEF SubsonicAssumption
<1> QED
  BY <1>1, StreamInvariance, PTL DEF SubsonicSpec, SwitchRespected, Resolution!SwitchRespected

-----------------------------------------------------------------------------
(* YouTube's catalogue                                                     *)

(* What is remembered of a video is of that video, or the blank entry of a *)
(* player that answered without one.                                       *)
OfVideo(t, v) == t # NoOne => t.video \in {v, ""}
RememberedRight == DOMAIN trackCache = Videos /\ \A v \in Videos : OfVideo(trackCache[v], v)

CallFields == {"op", "arg", "pc", "on", "pick", "out"}
Fetching == {"lookup", "next", "player"}

(* A fetcher that is not idle is on its way to the track of its place.     *)
FetchesItsOwn(f, c) ==
    \/ c.pc = "idle"
    \/ /\ c.op = "item" /\ f \in DOMAIN batch.ids /\ c.arg = batch.ids[f]
       /\ c.pc = "slot" \/ (c.pc \in Fetching /\ c.on = batch.ids[f])

(* The calls that look for a track.                                        *)
FitsCall(r) == r.pc \in Fetching => r.op \in {"item", "track", "album", "match"}
CallsFit == \A c \in Callers : FitsCall(call[c])

FetchersOrdered == \A f \in Catalog!Fetchers : FetchesItsOwn(f, call[f])

BatchTyped ==
    /\ DOMAIN call = Catalog!Procs /\ \A p \in Catalog!Procs : DOMAIN call[p] = CallFields
    /\ DOMAIN batch = {"ids", "res"} /\ DOMAIN batch.res = DOMAIN batch.ids

NobodyWaits == \A c \in Callers : call[c].pc # "batch"
FetchersIdle == \A f \in Catalog!Fetchers : call[f].pc = "idle"

CatalogInv ==
    /\ BatchTyped /\ RememberedRight /\ FetchersOrdered /\ CallsFit /\ Catalog!BatchInOrder
    /\ NobodyWaits => FetchersIdle

LEMMA RememberRight ==
    ASSUME RememberedRight, NEW songs, trackCache' = Catalog!Remember(trackCache, songs)
    PROVE  RememberedRight'
<1> SUFFICES ASSUME NEW v \in Videos
             PROVE  OfVideo(trackCache'[v], v)
  BY DEF RememberedRight, OfVideo, Catalog!Remember
<1> DEFINE last == Catalog!Latest({i \in DOMAIN songs : songs[i].video = v})
<1>1. trackCache'[v] = IF last = {} THEN trackCache[v] ELSE songs[CHOOSE i \in last : TRUE]
  BY DEF Catalog!Remember
<1>2. CASE last = {}
  BY <1>1, <1>2 DEF RememberedRight
<1>3. CASE last # {}
  <2>1. (CHOOSE i \in last : TRUE) \in last
    BY <1>3
  <2>2. songs[CHOOSE i \in last : TRUE].video = v
    BY <2>1 DEF Catalog!Latest
  <2> QED
    BY <1>1, <1>3, <2>2 DEF OfVideo
<1> QED
  BY <1>2, <1>3

LEMMA KeepRight ==
    ASSUME RememberedRight, NEW v, NEW t, OfVideo(t, v), Catalog!Keep(v, t)
    PROVE  RememberedRight'
BY DEF RememberedRight, OfVideo, Catalog!Keep

(* A caller goes on to something that is not the end of a list.            *)
LEMMA CallerMoves ==
    ASSUME Catalog!CatalogAssumption, CatalogInv, NEW c \in Callers, NEW r, Catalog!Set(c, r), DOMAIN r = CallFields, FitsCall(r),
           call[c].pc = "batch" => FetchersIdle,
           UNCHANGED batch, RememberedRight'
    PROVE  CatalogInv'
<1>1. \A f \in Catalog!Fetchers : call'[f] = call[f]
  BY DEF Catalog!Set, CatalogInv, BatchTyped, Catalog!CatalogAssumption, Catalog!Fetchers, Catalog!Procs
<1>2. BatchTyped' /\ CallsFit'
  BY DEF Catalog!Set, CatalogInv, BatchTyped, CallsFit, FitsCall, Catalog!Procs
<1>3. FetchersOrdered' /\ Catalog!BatchInOrder'
  BY <1>1 DEF CatalogInv, FetchersOrdered, FetchesItsOwn, Catalog!BatchInOrder, Catalog!Fetchers
<1>4. NobodyWaits' => FetchersIdle'
  <2> SUFFICES ASSUME NobodyWaits' PROVE FetchersIdle
    BY <1>1 DEF FetchersIdle, Catalog!Fetchers
  <2>1. CASE call[c].pc = "batch"
    BY <2>1
  <2>2. CASE call[c].pc # "batch"
    <3>1. \A o \in Callers \ {c} : call'[o] = call[o]
      BY DEF Catalog!Set, CatalogInv, BatchTyped, Catalog!Procs
    <3> QED
      BY <2>2, <3>1 DEF NobodyWaits, CatalogInv
  <2> QED
    BY <2>1, <2>2
<1> QED
  BY <1>2, <1>3, <1>4 DEF CatalogInv

(* What becomes of a call keeps its fields.                                *)
LEMMA AnswersTyped ==
    ASSUME NEW r, DOMAIN r = CallFields, NEW out, NEW pc, NEW on
    PROVE  /\ DOMAIN Catalog!Done(r, out) = CallFields /\ FitsCall(Catalog!Done(r, out)) /\ Catalog!Done(r, out).pc = "done" /\ Catalog!Done(r, out).out = out
           /\ DOMAIN Catalog!Asks(r, pc, on) = CallFields /\ Catalog!Asks(r, pc, on).pc = pc /\ Catalog!Asks(r, pc, on).on = on
           /\ Catalog!Asks(r, pc, on).op = r.op /\ Catalog!Asks(r, pc, on).arg = r.arg
BY DEF Catalog!Done, Catalog!Asks, CallFields, FitsCall, Fetching

(* A fetcher goes on to the next place to look, or delivers its track.     *)
LEMMA FetcherMoves ==
    ASSUME Catalog!CatalogAssumption, CatalogInv, NEW f \in Catalog!Fetchers, call[f].pc \in Fetching,
           NEW r, Catalog!Deliver(f, r), DOMAIN r = CallFields, RememberedRight',
           \/ r.pc = "done" /\ OfVideo(r.out, call[f].on)
           \/ r.pc \in Fetching /\ r.on = call[f].on /\ r.op = call[f].op /\ r.arg = call[f].arg
    PROVE  CatalogInv'
<1>1. /\ call[f].op = "item" /\ f \in DOMAIN batch.ids /\ call[f].arg = batch.ids[f] /\ call[f].on = batch.ids[f]
      /\ f \in Catalog!Procs /\ f \notin Callers
  BY DEF CatalogInv, FetchersOrdered, FetchesItsOwn, Fetching, Catalog!Procs, Catalog!CatalogAssumption,
         Catalog!Fetchers
<1>2. \E q : Catalog!Set(f, q) /\ DOMAIN q = CallFields /\ FetchesItsOwn(f, q) /\ (q.pc = "idle" <=> r.pc = "done")
  <2>1. CASE r.pc = "done"
    <3>1. DOMAIN Catalog!Idle = CallFields /\ Catalog!Idle.pc = "idle"
      BY DEF Catalog!Idle, CallFields
    <3> QED
      BY <2>1, <3>1 DEF Catalog!Deliver, FetchesItsOwn
  <2>2. CASE r.pc # "done"
    <3>1. Catalog!Set(f, r)
      BY <2>2 DEF Catalog!Deliver
    <3>2. FetchesItsOwn(f, r) /\ r.pc # "idle"
      BY <1>1, <2>2 DEF FetchesItsOwn, Fetching
    <3> QED
      BY <2>2, <3>1, <3>2
  <2> QED
    BY <2>1, <2>2
<1>3. PICK q : Catalog!Set(f, q) /\ DOMAIN q = CallFields /\ FetchesItsOwn(f, q)
  BY <1>2
<1>4. /\ DOMAIN call' = Catalog!Procs /\ call'[f] = q /\ \A p \in Catalog!Procs \ {f} : call'[p] = call[p]
  BY <1>1, <1>3 DEF Catalog!Set, CatalogInv, BatchTyped
<1>5. \/ batch' = batch
      \/ /\ batch' = [batch EXCEPT !.res[f] = r.out] /\ OfVideo(r.out, batch.ids[f])
  BY <1>1 DEF Catalog!Deliver, Fetching
<1>6. /\ DOMAIN batch' = {"ids", "res"} /\ batch'.ids = batch.ids /\ DOMAIN batch'.res = DOMAIN batch'.ids
      /\ \A i \in DOMAIN batch'.res : batch'.res[i] = batch.res[i] \/ OfVideo(batch'.res[i], batch.ids[i])
  BY <1>5 DEF CatalogInv, BatchTyped
<1>7. BatchTyped' /\ CallsFit'
  BY <1>1, <1>3, <1>4, <1>6 DEF CatalogInv, BatchTyped, Catalog!Procs, Catalog!Fetchers, CallsFit, FitsCall
<1>8. Catalog!BatchInOrder'
  BY <1>6 DEF CatalogInv, BatchTyped, Catalog!BatchInOrder, OfVideo
<1>9. FetchersOrdered'
  <2> SUFFICES ASSUME NEW g \in Catalog!Fetchers
               PROVE  FetchesItsOwn(g, call[g])'
    BY DEF FetchersOrdered, Catalog!Fetchers
  <2>1. FetchesItsOwn(g, call'[g])
    BY <1>3, <1>4 DEF CatalogInv, FetchersOrdered, Catalog!Procs
  <2> QED
    BY <2>1, <1>6 DEF FetchesItsOwn
<1>10. ~ NobodyWaits'
  <2>1. call[f].pc # "idle"
    BY DEF Fetching
  <2>2. ~ NobodyWaits
    BY <2>1 DEF CatalogInv, FetchersIdle
  <2>3. \A c \in Callers : call'[c] = call[c]
    BY <1>1, <1>4 DEF Catalog!Procs
  <2> QED
    BY <2>2, <2>3 DEF NobodyWaits
<1> QED
  BY <1>7, <1>8, <1>9, <1>10 DEF CatalogInv

(* What a call makes of a track: a fetcher's is done, and has it.          *)
LEMMA WithTrackTyped ==
    ASSUME NEW r, DOMAIN r = CallFields, NEW t,
           r.op = "item" \/ r.op \in {"track", "album", "match"}
    PROVE  /\ DOMAIN Catalog!WithTrack(r, t) = CallFields /\ FitsCall(Catalog!WithTrack(r, t))
           /\ r.op = "item" => /\ Catalog!WithTrack(r, t).pc = "done"
                               /\ \A v : OfVideo(t, v) => OfVideo(Catalog!WithTrack(r, t).out, v)
<1>1. CASE r.op \in {"item", "track"}
  <2>1. Catalog!WithTrack(r, t) = Catalog!Done(r, IF t = NoOne THEN NoOne ELSE Catalog!TrackChild(t))
    BY <1>1 DEF Catalog!WithTrack
  <2>2. \A v : OfVideo(t, v) => OfVideo(IF t = NoOne THEN NoOne ELSE Catalog!TrackChild(t), v)
    BY DEF OfVideo, Catalog!TrackChild
  <2> HIDE DEF Catalog!TrackChild
  <2> QED
    BY <1>1, <2>1, <2>2, AnswersTyped
<1>2. CASE r.op = "album"
  <2>1. Catalog!WithTrack(r, t) = Catalog!AlbumOfTrack(r, t)
    BY <1>2 DEF Catalog!WithTrack
  <2>2. DOMAIN Catalog!AlbumOfTrack(r, t) = CallFields /\ FitsCall(Catalog!AlbumOfTrack(r, t))
    <3>1. \/ \E out : Catalog!AlbumOfTrack(r, t) = Catalog!Done(r, out)
          \/ \E id : \/ Catalog!AlbumOfTrack(r, t) = Catalog!Asks(r, "albumPage", id)
                     \/ Catalog!AlbumOfTrack(r, t) = [Catalog!Asks(r, "albumPage", id) EXCEPT !.pick = t]
      BY DEF Catalog!AlbumOfTrack
    <3>2. \A id : /\ DOMAIN Catalog!Asks(r, "albumPage", id) = CallFields
                  /\ Catalog!Asks(r, "albumPage", id).pc \notin Fetching
                  /\ DOMAIN [Catalog!Asks(r, "albumPage", id) EXCEPT !.pick = t] = CallFields
                  /\ [Catalog!Asks(r, "albumPage", id) EXCEPT !.pick = t].pc \notin Fetching
      BY DEF Catalog!Asks, CallFields, Fetching
    <3>3. \A out : DOMAIN Catalog!Done(r, out) = CallFields /\ FitsCall(Catalog!Done(r, out))
      BY AnswersTyped
    <3>4. \A q : q.pc \notin Fetching => FitsCall(q)
      BY DEF FitsCall
    <3> QED
      BY <3>1, <3>2, <3>3, <3>4
  <2> QED
    BY <1>2, <2>1, <2>2
<1>3. CASE r.op = "match"
  <2>1. Catalog!WithTrack(r, t) = Catalog!Verified(r, t)
    BY <1>3 DEF Catalog!WithTrack
  <2>2. DOMAIN Catalog!Verified(r, t) = CallFields /\ FitsCall(Catalog!Verified(r, t))
    BY AnswersTyped DEF Catalog!Verified
  <2> QED
    BY <1>3, <2>1, <2>2
<1> QED
  BY <1>1, <1>2, <1>3

LEMMA TracksMove ==
    ASSUME Catalog!CatalogAssumption, CatalogInv, NEW p \in Catalog!Procs, Catalog!Track(p)
    PROVE  CatalogInv'
<1>1. PICK r : /\ call[p].pc \in Fetching /\ Catalog!Deliver(p, r) /\ DOMAIN r = CallFields /\ FitsCall(r) /\ RememberedRight'
               /\ call[p].op = "item" =>
                     \/ r.pc = "done" /\ OfVideo(r.out, call[p].on)
                     \/ r.pc \in Fetching /\ r.on = call[p].on /\ r.op = call[p].op /\ r.arg = call[p].arg
  <2>0. DOMAIN call[p] = CallFields /\ (call[p].pc \in Fetching => call[p].op \in {"item", "track", "album", "match"})
    BY DEF CatalogInv, BatchTyped, CallsFit, FitsCall, FetchersOrdered, FetchesItsOwn, Catalog!Procs, Fetching
  <2>1. CASE Catalog!Lookup(p)
    <3> DEFINE v == call[p].on
               t == IF v \in Videos THEN trackCache[v] ELSE NoOne
               r == IF t # NoOne THEN Catalog!WithTrack(call[p], t) ELSE Catalog!Asks(call[p], "next", v)
    <3>1. call[p].pc \in Fetching /\ Catalog!Deliver(p, r) /\ trackCache' = trackCache
      BY <2>1 DEF Catalog!Lookup, Fetching
    <3>2. OfVideo(t, v)
      BY DEF CatalogInv, RememberedRight, OfVideo
    <3> HIDE DEF t
    <3>3. DOMAIN r = CallFields /\ FitsCall(r)
      BY <2>0, <3>1, WithTrackTyped, AnswersTyped DEF FitsCall
    <3>4. RememberedRight'
      BY <3>1 DEF CatalogInv, RememberedRight, OfVideo
    <3>5. call[p].op = "item" =>
             \/ r.pc = "done" /\ OfVideo(r.out, v)
             \/ r.pc \in Fetching /\ r.on = v /\ r.op = call[p].op /\ r.arg = call[p].arg
      <4>1. CASE t # NoOne
        BY <2>0, <3>1, <3>2, <4>1, WithTrackTyped
      <4>2. CASE t = NoOne
        BY <2>0, <4>2, AnswersTyped DEF Fetching
      <4> QED
        BY <4>1, <4>2
    <3> QED
      BY <3>1, <3>3, <3>4, <3>5
  <2>2. ASSUME call[p].pc \in Fetching, NEW t, OfVideo(t, call[p].on),
               Catalog!Deliver(p, Catalog!WithTrack(call[p], t)), trackCache' = trackCache
               \/ Catalog!Keep(call[p].on, t)
        PROVE  \E r : /\ call[p].pc \in Fetching /\ Catalog!Deliver(p, r) /\ DOMAIN r = CallFields /\ FitsCall(r) /\ RememberedRight'
                      /\ call[p].op = "item" =>
                            \/ r.pc = "done" /\ OfVideo(r.out, call[p].on)
                            \/ r.pc \in Fetching /\ r.on = call[p].on /\ r.op = call[p].op /\ r.arg = call[p].arg
    <3>1. RememberedRight'
      BY <2>2, KeepRight DEF CatalogInv, RememberedRight, OfVideo
    <3> QED
      BY <2>0, <2>2, <3>1, WithTrackTyped
  <2>3. CASE Catalog!NextPanel(p)
    <3>1. call[p].pc \in Fetching
      BY <2>3 DEF Catalog!NextPanel, Fetching
    <3>2. CASE Catalog!Deliver(p, Catalog!Asks(call[p], "player", call[p].on)) /\ trackCache' = trackCache
      <4>1. RememberedRight'
        BY <3>2 DEF CatalogInv, RememberedRight, OfVideo
      <4> QED
        BY <2>0, <3>1, <3>2, <4>1, AnswersTyped DEF Fetching, FitsCall
    <3>3. ASSUME NEW panel \in Panels, panel[1].video \in {"", call[p].on},
                 Catalog!Deliver(p, Catalog!WithTrack(call[p], Catalog!PanelSong(panel[1], call[p].on))),
                 Catalog!Keep(call[p].on, Catalog!PanelSong(panel[1], call[p].on))
          PROVE  OfVideo(Catalog!PanelSong(panel[1], call[p].on), call[p].on)
      BY <3>3 DEF OfVideo, Catalog!PanelSong, Catalog!Song
    <3> QED
      BY <2>2, <2>3, <3>1, <3>2, <3>3 DEF Catalog!NextPanel
  <2>4. CASE Catalog!Player(p)
    <3>1. call[p].pc \in Fetching
      BY <2>4 DEF Catalog!Player, Fetching
    <3>2. OfVideo(NoOne, call[p].on)
      BY DEF OfVideo
    <3>3. ASSUME NEW d \in Details, d.video \in {"", call[p].on}
          PROVE  OfVideo(Catalog!Song(d, d.author, d.channel, Catalog!NoText, "", d.length), call[p].on)
      BY <3>3 DEF OfVideo, Catalog!Song
    <3> QED
      BY <2>2, <2>4, <3>1, <3>2, <3>3 DEF Catalog!Player
  <2> QED
    BY <2>1, <2>3, <2>4 DEF Catalog!Track
<1>2. CASE p \in Catalog!Fetchers
  <2>1. call[p].op = "item"
    BY <1>1, <1>2 DEF CatalogInv, FetchersOrdered, FetchesItsOwn, Fetching
  <2> QED
    BY <1>1, <1>2, <2>1, FetcherMoves
<1>3. CASE p \notin Catalog!Fetchers
  <2>1. p \in Callers /\ Catalog!Set(p, r) /\ batch' = batch /\ call[p].pc # "batch"
    BY <1>1, <1>3 DEF Catalog!Procs, Catalog!Deliver, Fetching
  <2> QED
    BY <1>1, <2>1, CallerMoves
<1> QED
  BY <1>2, <1>3

LEMMA ArtistTyped ==
    ASSUME NEW r, DOMAIN r = CallFields, NEW id, NEW key
    PROVE  DOMAIN Catalog!SeekArtist(r, id, key) = CallFields /\ FitsCall(Catalog!SeekArtist(r, id, key))
BY AnswersTyped DEF Catalog!SeekArtist, FitsCall, Fetching

LEMMA StartedTyped ==
    ASSUME NEW r, DOMAIN r = CallFields,
           r.op \in {"search", "match", "track", "item", "radio", "album", "artist", "albums", "top", "similar", "cover"}
    PROVE  DOMAIN Catalog!Started(r) = CallFields /\ FitsCall(Catalog!Started(r))
<1>1. CASE r.op \in {"search", "match", "radio"}
  <2>1. \E pc \in {"search", "radio"} : \E id : Catalog!Started(r) = Catalog!Asks(r, pc, id)
    BY <1>1 DEF Catalog!Started
  <2> QED
    BY <2>1, AnswersTyped DEF FitsCall, Fetching
<1>2. CASE r.op \in {"track", "item", "album"}
  <2>1. \E pc \in {"lookup", "albumPage"} : \E id : Catalog!Started(r) = Catalog!Asks(r, pc, id)
    BY <1>2 DEF Catalog!Started
  <2> QED
    BY <1>2, <2>1, AnswersTyped DEF FitsCall, Fetching
<1>3. CASE r.op = "cover"
  <2>1. Catalog!Started(r) = Catalog!Cover(r, r.arg)
    BY <1>3 DEF Catalog!Started
  <2>2. \/ \E out : Catalog!Cover(r, r.arg) = Catalog!Done(r, out)
        \/ Catalog!Cover(r, r.arg) = Catalog!Asks(r, "albumPage", r.arg)
        \/ Catalog!Cover(r, r.arg) = Catalog!SeekArtist(r, r.arg, r.arg)
    BY DEF Catalog!Cover
  <2> QED
    BY <2>1, <2>2, ArtistTyped, AnswersTyped DEF FitsCall, Fetching
<1>4. CASE r.op \in {"artist", "albums", "top", "similar"}
  <2>1. Catalog!Started(r) = IF r.arg \in ArtistIds THEN Catalog!SeekArtist(r, r.arg, r.arg) ELSE Catalog!Asks(r, "resolve", r.arg)
    BY <1>4 DEF Catalog!Started
  <2> QED
    BY <2>1, ArtistTyped, AnswersTyped DEF FitsCall, Fetching
<1> QED
  BY <1>1, <1>2, <1>3, <1>4

(* Calls other than of tracks: of callers, but for the list that is begun. *)
LEMMA CallsMove ==
    ASSUME Catalog!CatalogAssumption, CatalogInv, NEW c \in Callers, Catalog!Call(c)
    PROVE  CatalogInv'
<1>1. DOMAIN Catalog!Idle = CallFields
  BY DEF Catalog!Idle, CallFields
<1>2. PICK asked \in Questions : asked.op # "batch" /\ Catalog!Set(c, Catalog!Started([Catalog!Idle EXCEPT !.op = asked.op, !.arg = asked.arg]))
  BY DEF Catalog!Call
<1> DEFINE r == [Catalog!Idle EXCEPT !.op = asked.op, !.arg = asked.arg]
<1>3. /\ DOMAIN r = CallFields
      /\ r.op \in {"search", "match", "track", "item", "radio", "album", "artist", "albums", "top", "similar", "cover"}
  BY <1>1, <1>2 DEF Catalog!CatalogAssumption, CallFields
<1> HIDE DEF r
<1>4. DOMAIN Catalog!Started(r) = CallFields /\ FitsCall(Catalog!Started(r))
  BY <1>3, StartedTyped
<1>5. call[c].pc # "batch" /\ UNCHANGED <<trackCache, batch>>
  BY DEF Catalog!Call
<1>6. RememberedRight'
  BY <1>5 DEF CatalogInv, RememberedRight, OfVideo
<1> QED
  BY <1>2, <1>4, <1>5, <1>6, CallerMoves DEF r

LEMMA SearchesMove ==
    ASSUME Catalog!CatalogAssumption, CatalogInv, NEW c \in Callers, Catalog!SearchComes(c) \/ Catalog!RadioComes(c)
    PROVE  CatalogInv'
<1>1. DOMAIN call[c] = CallFields
  BY DEF CatalogInv, BatchTyped, Catalog!Procs
<1>2. call[c].pc # "batch" /\ batch' = batch
  BY DEF Catalog!SearchComes, Catalog!RadioComes
<1>3. RememberedRight'
  <2>1. trackCache' = trackCache \/ \E songs : trackCache' = Catalog!Remember(trackCache, songs)
    BY DEF Catalog!SearchComes, Catalog!RadioComes
  <2>2. CASE trackCache' = trackCache
    BY <2>2 DEF CatalogInv, RememberedRight, OfVideo
  <2> QED
    BY <2>1, <2>2, RememberRight DEF CatalogInv
<1>4. \A songs : call[c].op = "match" =>
          DOMAIN Catalog!Matched(call[c], songs) = CallFields /\ FitsCall(Catalog!Matched(call[c], songs))
  <2> SUFFICES ASSUME call[c].op = "match", NEW songs
               PROVE  DOMAIN Catalog!Matched(call[c], songs) = CallFields /\ FitsCall(Catalog!Matched(call[c], songs))
    OBVIOUS
  <2>1. \/ \E out : Catalog!Matched(call[c], songs) = Catalog!Done(call[c], out)
        \/ \E id, pick : Catalog!Matched(call[c], songs) = [Catalog!Asks(call[c], "lookup", id) EXCEPT !.pick = pick]
    BY DEF Catalog!Matched
  <2>2. \A id, pick : /\ DOMAIN [Catalog!Asks(call[c], "lookup", id) EXCEPT !.pick = pick] = CallFields
                      /\ [Catalog!Asks(call[c], "lookup", id) EXCEPT !.pick = pick].op = "match"
    BY <1>1 DEF Catalog!Asks, CallFields
  <2>3. \A out : DOMAIN Catalog!Done(call[c], out) = CallFields /\ FitsCall(Catalog!Done(call[c], out))
    BY <1>1, AnswersTyped
  <2>4. \A q : q.op = "match" => FitsCall(q)
    BY DEF FitsCall
  <2> QED
    BY <2>1, <2>2, <2>3, <2>4
<1>5. \A out : DOMAIN Catalog!Done(call[c], out) = CallFields /\ FitsCall(Catalog!Done(call[c], out))
  BY <1>1, AnswersTyped
<1>6. PICK r : Catalog!Set(c, r) /\ DOMAIN r = CallFields /\ FitsCall(r)
  BY <1>4, <1>5 DEF Catalog!SearchComes, Catalog!RadioComes
<1> QED
  BY <1>2, <1>3, <1>6, CallerMoves

LEMMA PagesMove ==
    ASSUME Catalog!CatalogAssumption, CatalogInv, NEW c \in Callers,
           Catalog!AlbumPageComes(c) \/ Catalog!ResolveArtistID(c) \/ Catalog!ArtistPageComes(c)
    PROVE  CatalogInv'
<1>1. DOMAIN call[c] = CallFields
  BY DEF CatalogInv, BatchTyped, Catalog!Procs
<1>2. call[c].pc # "batch" /\ batch' = batch
  BY DEF Catalog!AlbumPageComes, Catalog!ResolveArtistID, Catalog!ArtistPageComes
<1>3. RememberedRight'
  <2>1. trackCache' = trackCache \/ \E songs : trackCache' = Catalog!Remember(trackCache, songs)
    BY DEF Catalog!AlbumPageComes, Catalog!ResolveArtistID, Catalog!ArtistPageComes
  <2>2. CASE trackCache' = trackCache
    BY <2>2 DEF CatalogInv, RememberedRight, OfVideo
  <2> QED
    BY <2>1, <2>2, RememberRight DEF CatalogInv
<1>4. \/ \E out : Catalog!Set(c, Catalog!Done(call[c], out))
      \/ \E id, key : Catalog!Set(c, Catalog!SeekArtist(call[c], id, key))
  <2>1. CASE Catalog!ResolveArtistID(c)
    BY <2>1 DEF Catalog!ResolveArtistID
  <2>2. CASE Catalog!ArtistPageComes(c)
    BY <2>2 DEF Catalog!ArtistPageComes
  <2>3. CASE Catalog!AlbumPageComes(c)
    <3>1. \E out : Catalog!NoAlbum(call[c]) = Catalog!Done(call[c], out)
      BY DEF Catalog!NoAlbum
    <3>2. \A e, songs : \E out : Catalog!WithAlbum(call[c], e, songs) = Catalog!Done(call[c], out)
      BY <3>1 DEF Catalog!WithAlbum
    <3> QED
      BY <2>3, <3>1, <3>2 DEF Catalog!AlbumPageComes
  <2> QED
    BY <2>1, <2>2, <2>3
<1>5. \A out : DOMAIN Catalog!Done(call[c], out) = CallFields /\ FitsCall(Catalog!Done(call[c], out))
  BY <1>1, AnswersTyped
<1>6. \A id, key : DOMAIN Catalog!SeekArtist(call[c], id, key) = CallFields /\ FitsCall(Catalog!SeekArtist(call[c], id, key))
  BY <1>1, ArtistTyped
<1>7. PICK r : Catalog!Set(c, r) /\ DOMAIN r = CallFields /\ FitsCall(r)
  BY <1>4, <1>5, <1>6
<1> QED
  BY <1>2, <1>3, <1>7, CallerMoves

(* A list is begun when nobody waits for one, so every fetcher is free.    *)
LEMMA BatchStarts ==
    ASSUME Catalog!CatalogAssumption, CatalogInv, NEW c \in Callers, Catalog!StartBatch(c)
    PROVE  CatalogInv'
<1>1. FetchersIdle /\ trackCache' = trackCache
  BY DEF Catalog!StartBatch, CatalogInv, NobodyWaits
<1>2. PICK asked \in Questions :
        /\ batch' = [ids |-> asked.arg, res |-> [i \in DOMAIN asked.arg |-> NoOne]]
        /\ call' = [p \in Catalog!Procs |->
                      IF p = c THEN [Catalog!Idle EXCEPT !.op = "batch", !.pc = "batch"]
                      ELSE IF p \in DOMAIN asked.arg THEN [Catalog!Idle EXCEPT !.op = "item", !.arg = asked.arg[p], !.pc = "slot"]
                      ELSE call[p]]
  BY DEF Catalog!StartBatch
<1> DEFINE first == [Catalog!Idle EXCEPT !.op = "batch", !.pc = "batch"]
           item(p) == [Catalog!Idle EXCEPT !.op = "item", !.arg = asked.arg[p], !.pc = "slot"]
<1>3. /\ DOMAIN first = CallFields /\ first.pc = "batch"
      /\ \A p : DOMAIN item(p) = CallFields /\ item(p).op = "item" /\ item(p).arg = asked.arg[p] /\ item(p).pc = "slot"
  BY DEF Catalog!Idle, CallFields
<1>4. \A p \in Catalog!Procs : call'[p] = IF p = c THEN first ELSE IF p \in DOMAIN asked.arg THEN item(p) ELSE call[p]
  BY <1>2
<1>5. /\ batch'.ids = asked.arg /\ DOMAIN batch' = {"ids", "res"} /\ DOMAIN batch'.res = DOMAIN asked.arg
      /\ \A i \in DOMAIN batch'.res : batch'.res[i] = NoOne
  BY <1>2
<1>6. DOMAIN call' = Catalog!Procs
  BY <1>2
<1> HIDE DEF first, item
<1>7. BatchTyped'
  BY <1>3, <1>4, <1>5, <1>6 DEF CatalogInv, BatchTyped
<1>8. RememberedRight'
  BY <1>1 DEF CatalogInv, RememberedRight, OfVideo
<1>9. FetchersOrdered'
  <2> SUFFICES ASSUME NEW f \in Catalog!Fetchers PROVE FetchesItsOwn(f, call[f])'
    BY DEF FetchersOrdered, Catalog!Fetchers
  <2>1. f \in Catalog!Procs /\ f # c
    BY DEF Catalog!Procs, Catalog!Fetchers, Catalog!CatalogAssumption
  <2>2. CASE f \in DOMAIN asked.arg
    <3>1. call'[f] = item(f)
      BY <2>1, <2>2, <1>4
    <3>2. /\ call'[f].op = "item" /\ call'[f].arg = asked.arg[f] /\ call'[f].pc = "slot"
          /\ f \in DOMAIN batch'.ids /\ batch'.ids[f] = asked.arg[f]
      BY <2>2, <3>1, <1>3, <1>5
    <3> QED
      BY <3>2 DEF FetchesItsOwn
  <2>3. CASE f \notin DOMAIN asked.arg
    BY <2>1, <2>3, <1>1, <1>4 DEF FetchesItsOwn, FetchersIdle
  <2> QED
    BY <2>2, <2>3
<1>10. CallsFit'
  <2> SUFFICES ASSUME NEW o \in Callers PROVE FitsCall(call'[o])
    BY DEF CallsFit, FitsCall, Fetching
  <2>1. o \in Catalog!Procs /\ FitsCall(call[o])
    BY DEF Catalog!Procs, CatalogInv, CallsFit
  <2> QED
    BY <2>1, <1>3, <1>4 DEF FitsCall, Fetching
<1>11. Catalog!BatchInOrder' /\ ~ NobodyWaits'
  BY <1>3, <1>4, <1>5 DEF Catalog!BatchInOrder, NobodyWaits, Catalog!Procs
<1> QED
  BY <1>7, <1>8, <1>9, <1>10, <1>11 DEF CatalogInv

LEMMA SlotsTaken ==
    ASSUME Catalog!CatalogAssumption, CatalogInv, NEW f \in Catalog!Fetchers, Catalog!TakeSlot(f)
    PROVE  CatalogInv'
<1>1. /\ f \in Catalog!Procs /\ f \notin Callers /\ DOMAIN call[f] = CallFields
      /\ call[f].pc = "slot" /\ Catalog!Set(f, Catalog!Started(call[f])) /\ UNCHANGED <<trackCache, batch>>
  BY DEF Catalog!TakeSlot, Catalog!Procs, Catalog!Fetchers, Catalog!CatalogAssumption, CatalogInv, BatchTyped
<1>2. call[f].op = "item" /\ f \in DOMAIN batch.ids /\ call[f].arg = batch.ids[f]
  BY <1>1 DEF CatalogInv, FetchersOrdered, FetchesItsOwn
<1> DEFINE r == Catalog!Asks(call[f], "lookup", batch.ids[f])
<1>3. Catalog!Started(call[f]) = r
  BY <1>2 DEF Catalog!Started
<1>4. DOMAIN r = CallFields /\ r.pc = "lookup" /\ r.op = "item" /\ r.arg = batch.ids[f] /\ r.on = batch.ids[f]
  BY <1>1, <1>2, AnswersTyped
<1> HIDE DEF r
<1>5. DOMAIN call' = Catalog!Procs /\ call'[f] = r /\ \A p \in Catalog!Procs \ {f} : call'[p] = call[p]
  BY <1>1, <1>3 DEF Catalog!Set, CatalogInv, BatchTyped
<1>6. BatchTyped'
  BY <1>1, <1>4, <1>5 DEF CatalogInv, BatchTyped
<1>7. FetchersOrdered'
  <2> SUFFICES ASSUME NEW g \in Catalog!Fetchers PROVE FetchesItsOwn(g, call[g])'
    BY DEF FetchersOrdered, Catalog!Fetchers
  <2> QED
    BY <1>1, <1>2, <1>4, <1>5 DEF CatalogInv, FetchersOrdered, FetchesItsOwn, Fetching, Catalog!Procs
<1>8. RememberedRight' /\ Catalog!BatchInOrder'
  BY <1>1 DEF CatalogInv, RememberedRight, OfVideo, Catalog!BatchInOrder
<1>9. \A c \in Callers : call'[c] = call[c]
  BY <1>1, <1>5 DEF Catalog!Procs
<1>10. CallsFit' /\ ~ NobodyWaits'
  <2>1. ~ NobodyWaits
    BY <1>1 DEF CatalogInv, FetchersIdle
  <2> QED
    BY <1>9, <2>1 DEF CatalogInv, CallsFit, FitsCall, Fetching, NobodyWaits
<1> QED
  BY <1>6, <1>7, <1>8, <1>10 DEF CatalogInv

LEMMA CatalogStep ==
    ASSUME Catalog!CatalogAssumption, CatalogInv, [Catalog!Next]_(Catalog!vars)
    PROVE  CatalogInv'
<1>1. ASSUME NEW c \in Callers, Catalog!BatchDone(c) PROVE CatalogInv'
  <2>1. FetchersIdle /\ Catalog!Set(c, Catalog!Done(call[c], batch.res)) /\ UNCHANGED <<trackCache, batch>>
    BY <1>1 DEF Catalog!BatchDone, FetchersIdle
  <2>2. DOMAIN Catalog!Done(call[c], batch.res) = CallFields /\ FitsCall(Catalog!Done(call[c], batch.res))
    BY AnswersTyped DEF CatalogInv, BatchTyped, Catalog!Procs
  <2>3. RememberedRight'
    BY <2>1 DEF CatalogInv, RememberedRight, OfVideo
  <2> QED
    BY <2>1, <2>2, <2>3, CallerMoves
<1>2. CASE UNCHANGED Catalog!vars
  BY <1>2 DEF Catalog!vars, CatalogInv, BatchTyped, RememberedRight, OfVideo, FetchersOrdered, FetchesItsOwn,
              CallsFit, FitsCall,
              Fetching, Catalog!BatchInOrder, NobodyWaits, FetchersIdle
<1> QED
  BY <1>1, <1>2, CallsMove, BatchStarts, SearchesMove, PagesMove, SlotsTaken, TracksMove DEF Catalog!Next,
         Catalog!Answered

LEMMA CatalogInit ==
    ASSUME Catalog!Init
    PROVE  CatalogInv
<1>1. DOMAIN Catalog!Idle = CallFields /\ Catalog!Idle.pc = "idle"
  BY DEF Catalog!Idle, CallFields
<1> QED
  BY <1>1 DEF Catalog!Init, CatalogInv, BatchTyped, RememberedRight, OfVideo, FetchersOrdered, FetchesItsOwn,
              CallsFit, FitsCall,
              Fetching, Catalog!BatchInOrder, NobodyWaits, FetchersIdle, Catalog!Procs

LEMMA CatalogInvariance == ASSUME SubsonicAssumption PROVE SubsonicSpec => []CatalogInv
<1>1. SubsonicInit => CatalogInv
  BY CatalogInit DEF SubsonicInit
<1>2. CatalogInv /\ [SubsonicNext]_all => CatalogInv'
  <2> SUFFICES ASSUME CatalogInv, [SubsonicNext]_all
               PROVE  CatalogInv'
    OBVIOUS
  <2>1. [Catalog!Next]_(Catalog!vars)
    BY DEF SubsonicNext, LibraryStep, StreamStep, YouTubeStep, all, youtube, Catalog!vars
  <2> QED
    BY <2>1, CatalogStep DEF SubsonicAssumption
<1> QED
  BY <1>1, <1>2, PTL DEF SubsonicSpec

(* Whatever order the fetchers of a list end in, and whatever other calls  *)
(* have remembered meanwhile: a track stands where its id stood in the     *)
(* list, or it is the blank one that the player may answer.                *)
THEOREM BatchesAreInOrder == ASSUME SubsonicAssumption PROVE SubsonicSpec => []BatchInOrder
<1>1. CatalogInv => BatchInOrder
  BY DEF CatalogInv, BatchInOrder
<1> QED
  BY <1>1, CatalogInvariance, PTL

-----------------------------------------------------------------------------
(* Matches of YouTube's                                                    *)

Items == [card : BOOLEAN, row : Catalog!Rows]
Parsed == {Catalog!CardSong(row) : row \in Catalog!Rows} \cup {Catalog!FlexSong(row) : row \in Catalog!Rows}

LEMMA TimesAreNumbers ==
    ASSUME NEW runs \in Seq(Catalog!Runs)
    PROVE  Catalog!LastTime(runs) \in Int
<1> DEFINE last == Catalog!Latest({i \in DOMAIN runs : runs[i].kind = "time"})
<1>1. CASE last = {}
  BY <1>1 DEF Catalog!LastTime
<1>2. CASE last # {}
  <2>1. (CHOOSE i \in last : TRUE) \in DOMAIN runs
    BY <1>2 DEF Catalog!Latest
  <2>2. runs[CHOOSE i \in last : TRUE] \in Catalog!Runs
    BY <2>1
  <2>3. Catalog!LastTime(runs) = runs[CHOOSE i \in last : TRUE].length
    BY <1>2 DEF Catalog!LastTime
  <2> QED
    BY <2>2, <2>3 DEF Catalog!Runs
<1> QED
  BY <1>1, <1>2

LEMMA LengthsAreNumbers ==
    ASSUME NEW t \in Parsed
    PROVE  t.length \in Int
<1>1. PICK row \in Catalog!Rows : t = Catalog!CardSong(row) \/ t = Catalog!FlexSong(row)
  BY DEF Parsed
<1>2. t.length = Catalog!LastTime(row.runs)
  <2>1. ASSUME NEW a, NEW ai, NEW b, NEW bi, NEW l, NEW x, NEW y
        PROVE  /\ Catalog!Song(row, a, ai, b, bi, l).length = l
               /\ [Catalog!Song(row, a, ai, b, bi, l) EXCEPT !.artist = x, !.title = y].length = l
    BY DEF Catalog!Song
  <2>2. Catalog!CardSong(row).length = Catalog!LastTime(row.runs)
    <3> DEFINE names == Catalog!Named(row.runs)
               song == Catalog!Song(row, Catalog!HeadText(names), Catalog!HeadBrowse(names), Catalog!NoText, "", Catalog!LastTime(row.runs))
               renamed == [song EXCEPT !.artist = Catalog!BeforeDash(row.title), !.title = Catalog!AfterDash(row.title)]
    <3>1. Catalog!CardSong(row) = song \/ Catalog!CardSong(row) = renamed
      BY DEF Catalog!CardSong
    <3>2. song.length = Catalog!LastTime(row.runs) /\ renamed.length = Catalog!LastTime(row.runs)
      BY DEF Catalog!Song
    <3> HIDE DEF song, renamed
    <3> QED
      BY <3>1, <3>2
  <2>3. Catalog!FlexSong(row).length = Catalog!LastTime(row.runs)
    BY <2>1 DEF Catalog!FlexSong
  <2> QED
    BY <1>1, <2>2, <2>3
<1>3. row.runs \in Seq(Catalog!Runs)
  BY DEF Catalog!Rows
<1> QED
  BY <1>2, <1>3, TimesAreNumbers

LEMMA ResultsAreParsed ==
    ASSUME NEW page \in Seq(Items), NEW limit \in Nat \ {0}
    PROVE  Catalog!Results(page, limit) \in Seq(Parsed)
<1> DEFINE n == Len(page)
           R == [songs : Seq(Parsed), full : BOOLEAN]
           base == [songs |-> <<>>, full |-> FALSE]
           step == [i \in 1..n |-> [seen \in R |-> Catalog!Shown(seen, page[i], limit)]]
           shown == CHOOSE f : f = [i \in 0..n |-> IF i = 0 THEN base
                                     ELSE Catalog!Shown(f[i - 1], page[i], IF limit > 0 THEN limit ELSE 25)]
<1>1. Catalog!Results(page, limit) = shown[n].songs
  BY DEF Catalog!Results
<1>2. n \in Nat /\ (IF limit > 0 THEN limit ELSE 25) = limit /\ base \in R
  OBVIOUS
<1>3. ASSUME NEW i \in 1..n, NEW seen \in R PROVE Catalog!Shown(seen, page[i], limit) \in R
  <2>0. page[i] \in Items
    BY <1>2
  <2>1. page[i].row \in Catalog!Rows
    BY <2>0 DEF Items
  <2>2. Catalog!CardSong(page[i].row) \in Parsed /\ Catalog!FlexSong(page[i].row) \in Parsed
    BY <2>1 DEF Parsed
  <2> DEFINE songs == Append(seen.songs, IF page[i].card THEN Catalog!CardSong(page[i].row) ELSE Catalog!FlexSong(page[i].row))
  <2>3. songs \in Seq(Parsed)
    BY <2>2
  <2>4. (~ page[i].card /\ Len(songs) >= limit) \in BOOLEAN
    BY <2>3
  <2> HIDE DEF songs
  <2>5. [songs |-> songs, full |-> ~ page[i].card /\ Len(songs) >= limit] \in R
    BY <2>3, <2>4
  <2> QED
    BY <2>5 DEF Catalog!Shown, songs
<1> HIDE DEF n, R, base
<1>4. Closed(step, n, R) /\ \A i \in 1..n, seen \in R : step[i][seen] = Catalog!Shown(seen, page[i], limit)
  BY <1>3 DEF Closed
<1> HIDE DEF step
<1>5. PICK f \in [0..n -> R] : Unfolds(f, n, base, step)
  BY <1>2, <1>4, RecursionExists
<1>6. f = [i \in 0..n |-> IF i = 0 THEN base ELSE Catalog!Shown(f[i - 1], page[i], limit)]
  <2>1. ASSUME NEW i \in 1..n PROVE f[i] = Catalog!Shown(f[i - 1], page[i], limit)
    <3>1. f[i - 1] \in R /\ f[i] = step[i][f[i - 1]]
      BY <1>2, <1>5 DEF Unfolds
    <3> QED
      BY <3>1, <1>4
  <2> QED
    BY <1>2, <1>5, <2>1 DEF Unfolds
<1>7. shown = [i \in 0..n |-> IF i = 0 THEN base ELSE Catalog!Shown(shown[i - 1], page[i], limit)]
  BY ZenonT(60), <1>2, <1>6
<1> HIDE DEF shown
<1>8. shown[0] = base /\ \A i \in 1..n : shown[i] = Catalog!Shown(shown[i - 1], page[i], limit)
  BY <1>2, <1>7
<1>9. 0..n \subseteq {i \in 0..n : shown[i] \in R}
  <2> DEFINE S == {i \in 0..n : shown[i] \in R}
  <2>1. 0 \in S
    BY <1>2, <1>8
  <2>2. ASSUME NEW i \in 1..n, i - 1 \in S PROVE i \in S
    <3>1. step[i][shown[i - 1]] \in R /\ step[i][shown[i - 1]] = Catalog!Shown(shown[i - 1], page[i], limit)
      BY <2>2, <1>4 DEF Closed
    <3> QED
      BY <3>1, <1>8
  <2> HIDE DEF S
  <2>3. 0..n \subseteq S
    BY <1>2, <2>1, <2>2, UpTo
  <2> QED
    BY <2>3 DEF S
<1>10. shown[n] \in R
  BY <1>2, <1>9
<1> QED
  BY <1>1, <1>10 DEF R

(* How far apart two lengths are.                                          *)
LEMMA DistanceTells ==
    ASSUME NEW a \in Int, NEW want, want.length \in Int
    PROVE  /\ Catalog!Distance(a, want.length) \in Nat
           /\ \A d \in Nat : a \in Catalog!Around(want, d) <=> Catalog!Distance(a, want.length) <= d
BY DEF Catalog!Distance, Catalog!Around

(* What is known after the first k results.                                *)
Apart(want, t) == Catalog!Distance(t.length, want.length)
WeighedRight(seen, want, songs, k) ==
    /\ seen \in [best : 0..k, away : Nat, untold : 0..k]
    /\ seen.best = 0 => \A j \in 1..k : ~ Catalog!Close(want, songs[j])
    /\ seen.best # 0 =>
         /\ Catalog!Close(want, songs[seen.best]) /\ seen.away = Apart(want, songs[seen.best])
         /\ \A j \in 1..k : Catalog!Close(want, songs[j]) => seen.away <= Apart(want, songs[j])
    /\ seen.untold # 0 => Catalog!SameTrack(want, songs[seen.untold]) /\ Catalog!Untold(want, songs[seen.untold])

LEMMA WeighsRight ==
    ASSUME NEW want, want.length \in Int, NEW songs, NEW i \in Nat \ {0}, \A j \in 1..i : songs[j].length \in Int,
           NEW seen, WeighedRight(seen, want, songs, i - 1)
    PROVE  WeighedRight(Catalog!Weigh(want, songs, seen, i), want, songs, i)
<1> DEFINE away == Catalog!Distance(songs[i].length, want.length)
           next == Catalog!Weigh(want, songs, seen, i)
           same == Catalog!SameTrack(want, songs[i])
           untold == Catalog!Untold(want, songs[i])
           close == Catalog!Close(want, songs[i])
<1>0. \A j \in 1..i : Apart(want, songs[j]) \in Nat
  BY DistanceTells DEF Apart
<1>1. /\ away \in Nat /\ away = Apart(want, songs[i])
      /\ close <=> same /\ ~ untold /\ away <= Catalog!Tolerance
  BY SMTT(60), DistanceTells DEF Catalog!Close, Apart, Catalog!Tolerance
<1>2. next = IF ~ same THEN seen
             ELSE IF untold THEN [seen EXCEPT !.untold = IF @ = 0 THEN i ELSE @]
             ELSE IF away <= Catalog!Tolerance /\ (seen.best = 0 \/ away < seen.away)
                  THEN [seen EXCEPT !.best = i, !.away = away]
             ELSE seen
  BY DEF Catalog!Weigh
<1>3. seen \in [best : 0..(i - 1), away : Nat, untold : 0..(i - 1)]
  BY DEF WeighedRight
<1>4. \A j \in 1..i : j \in 1..(i - 1) \/ j = i
  OBVIOUS
<1> HIDE DEF away, next, same, untold, close
<1>5. CASE next = seen /\ (~ same \/ untold \/ ~ (away <= Catalog!Tolerance /\ (seen.best = 0 \/ away < seen.away)))
  <2>1. ~ close \/ (seen.best # 0 /\ seen.away <= away)
    BY <1>1, <1>3, <1>5
  <2>2. seen \in [best : 0..i, away : Nat, untold : 0..i]
    BY <1>3
  <2> QED
    BY <1>1, <1>4, <1>5, <2>1, <2>2 DEF WeighedRight, close, next
<1>6. CASE same /\ untold /\ next = [seen EXCEPT !.untold = IF @ = 0 THEN i ELSE @]
  <2>1. ~ close
    BY <1>1, <1>6
  <2>2. /\ next \in [best : 0..i, away : Nat, untold : 0..i]
        /\ next.best = seen.best /\ next.away = seen.away /\ next.untold \in {i, seen.untold}
    BY <1>3, <1>6
  <2> QED
    BY <1>4, <1>6, <2>1, <2>2 DEF WeighedRight, close, next, same, untold
<1>7. CASE /\ same /\ ~ untold /\ away <= Catalog!Tolerance /\ (seen.best = 0 \/ away < seen.away)
           /\ next = [seen EXCEPT !.best = i, !.away = away]
  <2>1. /\ next \in [best : 0..i, away : Nat, untold : 0..i]
        /\ next.best = i /\ next.away = away /\ next.untold = seen.untold
    <3>1. i \in 0..i /\ away \in Nat /\ seen.untold \in 0..i
      BY <1>1, <1>3
    <3>2. next = [best |-> i, away |-> away, untold |-> seen.untold]
      BY <1>3, <1>7
    <3> QED
      BY <3>1, <3>2
  <2>2. close
    BY <1>1, <1>7
  <2>3. \A j \in 1..(i - 1) : Catalog!Close(want, songs[j]) => seen.best # 0 /\ seen.away <= Apart(want, songs[j])
    BY DEF WeighedRight
  <2>4. \A j \in 1..i : Catalog!Close(want, songs[j]) => away <= Apart(want, songs[j])
    <3> SUFFICES ASSUME NEW j \in 1..(i - 1), Catalog!Close(want, songs[j])
                 PROVE  away <= Apart(want, songs[j])
      BY <1>1, <1>4
    <3>1. /\ seen.away <= Apart(want, songs[j]) /\ away < seen.away
      <4>1. seen.best # 0 /\ seen.away <= Apart(want, songs[j])
        BY <2>3
      <4> QED
        BY <1>7, <4>1
    <3> QED
      BY <1>0, <1>1, <1>3, <3>1
  <2> QED
    BY <1>1, <2>1, <2>2, <2>4 DEF WeighedRight, close, next
<1> QED
  BY <1>2, <1>5, <1>6, <1>7

LEMMA WeighTyped ==
    ASSUME NEW want, want.length \in Int, NEW songs, NEW n \in Nat, NEW i \in 1..n, songs[i].length \in Int,
           NEW seen \in [best : 0..n, away : Nat, untold : 0..n]
    PROVE  Catalog!Weigh(want, songs, seen, i) \in [best : 0..n, away : Nat, untold : 0..n]
<1>1. Catalog!Distance(songs[i].length, want.length) \in Nat
  BY DistanceTells
<1>2. i \in 0..n
  OBVIOUS
<1> QED
  BY <1>1, <1>2 DEF Catalog!Weigh

LEMMA WeighedRightly ==
    ASSUME NEW want, want.length \in Int, NEW songs, Len(songs) \in Nat,
           \A i \in 1..Len(songs) : songs[i].length \in Int
    PROVE  WeighedRight(Catalog!Weighed(want, songs), want, songs, Len(songs))
<1> DEFINE n == Len(songs)
           R == [best : 0..n, away : Nat, untold : 0..n]
           base == [best |-> 0, away |-> 0, untold |-> 0]
           step == [i \in 1..n |-> [seen \in R |-> Catalog!Weigh(want, songs, seen, i)]]
           seen == CHOOSE f : f = [i \in 0..n |-> IF i = 0 THEN base ELSE Catalog!Weigh(want, songs, f[i - 1], i)]
<1>1. Catalog!Weighed(want, songs) = seen[n]
  BY DEF Catalog!Weighed
<1>2. n \in Nat /\ base \in R /\ \A i \in 1..n : songs[i].length \in Int
  OBVIOUS
<1> HIDE DEF n, base
<1>3. ASSUME NEW i \in 1..n, NEW r \in R PROVE Catalog!Weigh(want, songs, r, i) \in R
  BY <1>2, WeighTyped
<1> HIDE DEF R
<1>4. Closed(step, n, R) /\ \A i \in 1..n, r \in R : step[i][r] = Catalog!Weigh(want, songs, r, i)
  BY <1>3 DEF Closed
<1> HIDE DEF step
<1>5. PICK f \in [0..n -> R] : Unfolds(f, n, base, step)
  BY <1>2, <1>4, RecursionExists
<1>6. f = [i \in 0..n |-> IF i = 0 THEN base ELSE Catalog!Weigh(want, songs, f[i - 1], i)]
  <2>1. ASSUME NEW i \in 1..n PROVE f[i] = Catalog!Weigh(want, songs, f[i - 1], i)
    <3>1. f[i - 1] \in R /\ f[i] = step[i][f[i - 1]]
      BY <1>2, <1>5 DEF Unfolds
    <3> QED
      BY <3>1, <1>4
  <2> QED
    BY <1>2, <1>5, <2>1 DEF Unfolds
<1>7. seen = [i \in 0..n |-> IF i = 0 THEN base ELSE Catalog!Weigh(want, songs, seen[i - 1], i)]
  BY <1>2, <1>6
<1> HIDE DEF seen
<1>8. seen[0] = base /\ \A i \in 1..n : seen[i] = Catalog!Weigh(want, songs, seen[i - 1], i)
  BY <1>2, <1>7
<1> DEFINE S == {i \in 0..n : WeighedRight(seen[i], want, songs, i)}
<1>9. 0 \in S
  BY <1>2, <1>8 DEF base, WeighedRight
<1>10. ASSUME NEW i \in 1..n, i - 1 \in S PROVE i \in S
  <2>1. WeighedRight(seen[i - 1], want, songs, i - 1) /\ i \in Nat \ {0} /\ \A j \in 1..i : songs[j].length \in Int
    BY SMTT(60), <1>2, <1>10
  <2>2. WeighedRight(Catalog!Weigh(want, songs, seen[i - 1], i), want, songs, i)
    BY <2>1, WeighsRight
  <2> QED
    BY <2>2, <1>8
<1>11. 0..n \subseteq S
  <2> HIDE DEF S
  <2> QED
    BY <1>2, <1>9, <1>10, UpTo
<1>12. WeighedRight(seen[n], want, songs, n)
  BY <1>2, <1>11
<1> QED
  BY <1>1, <1>12 DEF n

(* A song of unknown length that is kept while its length is looked up,    *)
(* because none of the others is close.                                    *)
Unsure(want, pick) ==
    /\ DOMAIN pick = {"got", "among"}
    /\ \A i \in DOMAIN pick.among : ~ Catalog!Close(want, pick.among[i])
    /\ Catalog!SameTrack(want, pick.got) /\ Catalog!Untold(want, pick.got)

MatchFits(r) ==
    r.op = "match" =>
        /\ r.arg.length \in Int
        /\ r.pc \in {"search", "done"} \cup Fetching
        /\ r.pc \in Fetching => Unsure(r.arg, r.pick)
        /\ r.pc = "done" /\ r.out # NoOne => Catalog!Trusted(r.arg, r.out.got, r.out.among)

MatchInv == CatalogInv /\ \A c \in Callers : MatchFits(call[c])

LEMMA CallKept ==
    ASSUME NEW r, DOMAIN r = CallFields
    PROVE  /\ \A out : /\ Catalog!Done(r, out).op = r.op /\ Catalog!Done(r, out).arg = r.arg
                       /\ Catalog!Done(r, out).pc = "done" /\ Catalog!Done(r, out).out = out
           /\ \A pc, on : /\ Catalog!Asks(r, pc, on).op = r.op /\ Catalog!Asks(r, pc, on).arg = r.arg
                          /\ Catalog!Asks(r, pc, on).pc = pc /\ Catalog!Asks(r, pc, on).pick = r.pick
BY DEF Catalog!Done, Catalog!Asks, CallFields

LEMMA MatchedFits ==
    ASSUME NEW r, DOMAIN r = CallFields, r.arg.length \in Int,
           NEW songs \in Seq(Parsed)
    PROVE  MatchFits(Catalog!Matched(r, songs))
<1> DEFINE want == r.arg
           seen == Catalog!Weighed(want, songs)
           n == Len(songs)
           answer(i) == [got |-> IF i = 0 THEN NoOne ELSE songs[i], among |-> songs]
<1>1. n \in Nat /\ DOMAIN songs = 1..n /\ \A i \in 1..n : songs[i].length \in Int
  <2>1. \A i \in 1..n : songs[i] \in Parsed
    OBVIOUS
  <2> QED
    BY <2>1, LengthsAreNumbers
<1>2. WeighedRight(seen, want, songs, n)
  BY <1>1, WeighedRightly
<1>3. Catalog!Matched(r, songs) =
         IF seen.best # 0 THEN Catalog!Done(r, answer(seen.best))
         ELSE IF seen.untold # 0 /\ want.length > 0
              THEN [Catalog!Asks(r, "lookup", songs[seen.untold].video) EXCEPT !.pick = answer(seen.untold)]
         ELSE Catalog!Done(r, answer(seen.untold))
  BY DEF Catalog!Matched
<1>4. seen.best \in 0..n /\ seen.untold \in 0..n /\ \A i : answer(i).among = songs
  BY <1>2 DEF WeighedRight
<1>5. \A i : answer(i).got = (IF i = 0 THEN NoOne ELSE songs[i]) /\ DOMAIN answer(i) = {"got", "among"}
  OBVIOUS
<1> HIDE DEF answer, seen, n
<1>6. CASE seen.best # 0
  <2>1. Catalog!Matched(r, songs) = Catalog!Done(r, answer(seen.best))
    BY <1>3, <1>6
  <2> DEFINE got == songs[seen.best]
  <2>2. /\ seen.best \in 1..n /\ Catalog!Close(want, got)
        /\ \A j \in 1..n : Catalog!Close(want, songs[j]) => Apart(want, got) <= Apart(want, songs[j])
    BY <1>1, <1>2, <1>4, <1>6 DEF WeighedRight
  <2>3. ASSUME NEW j \in 1..n, NEW d \in 0..Catalog!Tolerance,
               Catalog!Close(want, songs[j]), songs[j].length \in Catalog!Around(want, d)
        PROVE  got.length \in Catalog!Around(want, d)
    <3>1. d \in Nat /\ songs[j].length \in Int /\ got.length \in Int
      BY <1>1, <2>2 DEF Catalog!Tolerance
    <3>2. /\ Apart(want, songs[j]) <= d /\ Apart(want, songs[j]) \in Nat /\ Apart(want, got) \in Nat
          /\ Apart(want, got) <= d => got.length \in Catalog!Around(want, d)
      BY <2>3, <3>1, DistanceTells DEF Apart
    <3>3. Apart(want, got) <= Apart(want, songs[j])
      BY <2>2, <2>3
    <3> QED
      BY <3>1, <3>2, <3>3
  <2>4. Catalog!Trusted(want, got, songs)
    BY <1>1, <2>2, <2>3 DEF Catalog!Trusted
  <2> HIDE DEF got
  <2>5. answer(seen.best).got = got
    BY <1>5, <1>6 DEF got
  <2> QED
    BY <1>4, <2>1, <2>4, <2>5, CallKept DEF MatchFits, Fetching
<1>7. CASE seen.best = 0
  <2>1. \A i \in DOMAIN songs : ~ Catalog!Close(want, songs[i])
    BY <1>1, <1>2, <1>7 DEF WeighedRight
  <2>2. seen.untold # 0 => /\ answer(seen.untold).got = songs[seen.untold]
                           /\ Catalog!SameTrack(want, songs[seen.untold]) /\ Catalog!Untold(want, songs[seen.untold])
    BY <1>2, <1>5 DEF WeighedRight
  <2>3. Catalog!Trusted(want, answer(seen.untold).got, songs)
    BY <1>5, <2>1, <2>2 DEF Catalog!Trusted
  <2>4. CASE seen.untold # 0 /\ want.length > 0
    <3>1. Unsure(want, answer(seen.untold))
      BY <1>4, <1>5, <2>1, <2>2, <2>4 DEF Unsure
    <3> QED
      BY <1>3, <1>7, <2>4, <3>1, CallKept DEF MatchFits, Fetching
  <2>5. CASE ~ (seen.untold # 0 /\ want.length > 0)
    <3>1. Catalog!Matched(r, songs) = Catalog!Done(r, answer(seen.untold))
      BY <1>3, <1>7, <2>5
    <3> QED
      BY <1>4, <2>3, <3>1, CallKept DEF MatchFits, Fetching
  <2> QED
    BY <2>4, <2>5
<1> QED
  BY <1>6, <1>7

LEMMA VerifiedFits ==
    ASSUME NEW r, DOMAIN r = CallFields, r.op = "match", MatchFits(r), r.pc \in Fetching, NEW t
    PROVE  MatchFits(Catalog!Verified(r, t))
<1>1. r.arg.length \in Int /\ Unsure(r.arg, r.pick)
  BY DEF MatchFits
<1>2. PICK pick : /\ Catalog!Verified(r, t) = Catalog!Done(r, pick)
                  /\ pick = r.pick \/ pick = [r.pick EXCEPT !.got = NoOne]
  BY DEF Catalog!Verified
<1>3. pick.among = r.pick.among /\ (pick.got = r.pick.got \/ pick.got = NoOne)
  BY <1>1, <1>2 DEF Unsure
<1>4. Catalog!Trusted(r.arg, pick.got, pick.among)
  BY <1>1, <1>3 DEF Unsure, Catalog!Trusted
<1> QED
  BY <1>1, <1>2, <1>4, CallKept DEF MatchFits, Fetching

(* What has nothing to do with a match stays so.                           *)
LEMMA OthersFit ==
    ASSUME NEW r, DOMAIN r = CallFields, r.op # "match", NEW q, q.op = r.op
    PROVE  MatchFits(q)
BY DEF MatchFits

LEMMA SeeksKept ==
    ASSUME NEW r, DOMAIN r = CallFields, NEW id, NEW key
    PROVE  Catalog!SeekArtist(r, id, key).op = r.op
BY CallKept DEF Catalog!SeekArtist

LEMMA StartsFit ==
    ASSUME Catalog!CatalogAssumption, NEW asked \in Questions, asked.op # "batch"
    PROVE  MatchFits(Catalog!Started([Catalog!Idle EXCEPT !.op = asked.op, !.arg = asked.arg]))
<1> DEFINE r == [Catalog!Idle EXCEPT !.op = asked.op, !.arg = asked.arg]
<1>1. /\ DOMAIN r = CallFields /\ r.op = asked.op /\ r.arg = asked.arg
      /\ r.op \in {"search", "match", "track", "item", "radio", "album", "artist", "albums", "top", "similar", "cover"}
  BY DEF Catalog!CatalogAssumption, CallFields, Catalog!Idle
<1>2. r.op = "match" => r.arg.length \in Int
  BY <1>1 DEF Catalog!CatalogAssumption
<1> HIDE DEF r
<1>3. ASSUME r.op = "match" PROVE MatchFits(Catalog!Started(r))
  <2>1. Catalog!Started(r) = Catalog!Asks(r, "search", "")
    BY <1>3 DEF Catalog!Started
  <2> DEFINE q == Catalog!Asks(r, "search", "")
  <2>2. q.op = r.op /\ q.arg = r.arg /\ q.pc = "search"
    <3>1. \A pc, on : /\ Catalog!Asks(r, pc, on).op = r.op /\ Catalog!Asks(r, pc, on).arg = r.arg
                      /\ Catalog!Asks(r, pc, on).pc = pc
      BY <1>1, CallKept
    <3> QED
      BY <3>1
  <2> HIDE DEF q
  <2> QED
    BY <1>2, <1>3, <2>1, <2>2 DEF MatchFits, Fetching, q
<1>4. ASSUME r.op # "match" PROVE MatchFits(Catalog!Started(r))
  <2>1. /\ \A id, key : Catalog!SeekArtist(r, id, key).op = r.op
        /\ \A pc, on : Catalog!Asks(r, pc, on).op = r.op
        /\ \A out : Catalog!Done(r, out).op = r.op
    BY <1>1, CallKept, SeeksKept
  <2>2. CASE r.op \in {"search", "track", "item", "radio", "album"}
    <3>1. \E pc, on : Catalog!Started(r) = Catalog!Asks(r, pc, on)
      BY <2>2 DEF Catalog!Started
    <3> QED
      BY <1>1, <1>4, <2>1, <3>1, OthersFit
  <2>3. CASE r.op = "cover"
    <3>1. Catalog!Started(r) = Catalog!Cover(r, r.arg)
      BY <2>3 DEF Catalog!Started
    <3>2. \/ \E out : Catalog!Cover(r, r.arg) = Catalog!Done(r, out)
          \/ Catalog!Cover(r, r.arg) = Catalog!Asks(r, "albumPage", r.arg)
          \/ Catalog!Cover(r, r.arg) = Catalog!SeekArtist(r, r.arg, r.arg)
      BY DEF Catalog!Cover
    <3> QED
      BY <1>1, <1>4, <2>1, <3>1, <3>2, OthersFit
  <2>4. CASE r.op \in {"artist", "albums", "top", "similar"}
    <3>1. Catalog!Started(r) = IF r.arg \in ArtistIds THEN Catalog!SeekArtist(r, r.arg, r.arg)
                               ELSE Catalog!Asks(r, "resolve", r.arg)
      BY <2>4 DEF Catalog!Started
    <3> QED
      BY <1>1, <1>4, <2>1, <3>1, OthersFit
  <2> QED
    BY <1>1, <1>4, <2>2, <2>3, <2>4
<1>5. MatchFits(Catalog!Started(r))
  BY <1>3, <1>4
<1> QED
  BY <1>5 DEF r

(* A caller's call goes on, and nobody else's.                             *)
LEMMA MatchMoves ==
    ASSUME MatchInv, NEW c \in Callers, NEW r, Catalog!Set(c, r), MatchFits(r)
    PROVE  \A o \in Callers : MatchFits(call'[o])
BY DEF Catalog!Set, MatchInv, CatalogInv, BatchTyped, Catalog!Procs

LEMMA SearchesFit ==
    ASSUME Catalog!CatalogAssumption, MatchInv, NEW c \in Callers, Catalog!SearchComes(c)
    PROVE  \A o \in Callers : MatchFits(call'[o])
<1> DEFINE r == call[c]
<1>1. DOMAIN r = CallFields /\ MatchFits(r) /\ r.pc = "search"
  BY DEF MatchInv, CatalogInv, BatchTyped, Catalog!Procs, Catalog!SearchComes
<1>2. CASE r.op = "match"
  <2>1. r.arg.length \in Int
    BY <1>1, <1>2 DEF MatchFits
  <2>2. MatchFits(Catalog!Done(r, NoOne))
    BY <1>1, <2>1, CallKept DEF MatchFits, Fetching
  <2>3. ASSUME NEW page \in SearchPages
        PROVE  MatchFits(Catalog!Matched(r, Catalog!Results(page, 5)))
    <3>1. page \in Seq(Items)
      BY DEF Catalog!CatalogAssumption, Items
    <3>2. Catalog!Results(page, 5) \in Seq(Parsed)
      BY <3>1, ResultsAreParsed
    <3> QED
      BY <1>1, <2>1, <3>2, MatchedFits
  <2>4. \/ Catalog!Set(c, Catalog!Done(r, NoOne))
        \/ \E page \in SearchPages : Catalog!Set(c, Catalog!Matched(r, Catalog!Results(page, 5)))
    BY <1>2 DEF Catalog!SearchComes
  <2> QED
    BY <2>2, <2>3, <2>4, MatchMoves
<1>3. CASE r.op # "match"
  <2>1. \E out : Catalog!Set(c, Catalog!Done(r, out))
    BY <1>3 DEF Catalog!SearchComes
  <2>2. \A out : MatchFits(Catalog!Done(r, out))
    BY <1>1, <1>3, OthersFit, CallKept
  <2> QED
    BY <2>1, <2>2, MatchMoves
<1> QED
  BY <1>2, <1>3

(* No other answer is for a match.                                         *)
LEMMA AnswersFit ==
    ASSUME MatchInv, NEW c \in Callers,
           \/ Catalog!RadioComes(c) \/ Catalog!AlbumPageComes(c) \/ Catalog!ResolveArtistID(c)
           \/ Catalog!ArtistPageComes(c) \/ Catalog!BatchDone(c)
    PROVE  \A o \in Callers : MatchFits(call'[o])
<1> DEFINE r == call[c]
<1>1. /\ DOMAIN r = CallFields /\ MatchFits(r)
      /\ r.pc \in {"radio", "albumPage", "resolve", "artistPage", "batch"}
  BY DEF MatchInv, CatalogInv, BatchTyped, Catalog!Procs, Catalog!RadioComes, Catalog!AlbumPageComes,
         Catalog!ResolveArtistID, Catalog!ArtistPageComes, Catalog!BatchDone
<1>2. r.op # "match"
  BY <1>1 DEF MatchFits, Fetching
<1>3. \A e, songs : \E out : Catalog!WithAlbum(r, e, songs) = Catalog!Done(r, out)
  BY DEF Catalog!WithAlbum, Catalog!NoAlbum
<1>4. \E out : Catalog!NoAlbum(r) = Catalog!Done(r, out)
  BY DEF Catalog!NoAlbum
<1>5. \/ \E out : Catalog!Set(c, Catalog!Done(r, out))
      \/ \E id, key : Catalog!Set(c, Catalog!SeekArtist(r, id, key))
  <2>1. CASE Catalog!AlbumPageComes(c)
    BY <1>3, <1>4, <2>1 DEF Catalog!AlbumPageComes
  <2>2. CASE Catalog!RadioComes(c) \/ Catalog!BatchDone(c)
    BY <2>2 DEF Catalog!RadioComes, Catalog!BatchDone
  <2>3. CASE Catalog!ResolveArtistID(c)
    BY <2>3 DEF Catalog!ResolveArtistID
  <2>4. CASE Catalog!ArtistPageComes(c)
    BY <2>4 DEF Catalog!ArtistPageComes
  <2> QED
    BY <2>1, <2>2, <2>3, <2>4
<1>6. /\ \A out : MatchFits(Catalog!Done(r, out))
      /\ \A id, key : MatchFits(Catalog!SeekArtist(r, id, key))
  BY <1>1, <1>2, OthersFit, CallKept, SeeksKept
<1> QED
  BY <1>5, <1>6, MatchMoves

(* Fetchers are no callers.                                                *)
LEMMA FetchersApart ==
    ASSUME Catalog!CatalogAssumption, MatchInv, NEW f \in Catalog!Fetchers, NEW r, Catalog!Set(f, r)
    PROVE  \A o \in Callers : MatchFits(call'[o])
BY DEF Catalog!Set, MatchInv, CatalogInv, BatchTyped, Catalog!Procs, Catalog!Fetchers, Catalog!CatalogAssumption

LEMMA TracksFit ==
    ASSUME Catalog!CatalogAssumption, MatchInv, NEW p \in Catalog!Procs, Catalog!Track(p)
    PROVE  \A o \in Callers : MatchFits(call'[o])
<1> DEFINE r == call[p]
<1>1. DOMAIN r = CallFields /\ r.pc \in Fetching
  BY DEF MatchInv, CatalogInv, BatchTyped, Catalog!Track, Catalog!Lookup, Catalog!NextPanel, Catalog!Player, Fetching
<1>2. PICK q : /\ Catalog!Deliver(p, q)
               /\ \/ \E t : q = Catalog!WithTrack(r, t)
                  \/ \E pc \in {"next", "player"} : \E on : q = Catalog!Asks(r, pc, on)
  <2>1. CASE Catalog!Lookup(p)
    BY <2>1 DEF Catalog!Lookup
  <2>2. CASE Catalog!NextPanel(p)
    BY <2>2 DEF Catalog!NextPanel
  <2>3. CASE Catalog!Player(p)
    BY <2>3 DEF Catalog!Player
  <2> QED
    BY <2>1, <2>2, <2>3 DEF Catalog!Track
<1>3. CASE p \in Catalog!Fetchers
  <2>1. \E s : Catalog!Set(p, s)
    BY <1>2 DEF Catalog!Deliver
  <2> QED
    BY <1>3, <2>1, FetchersApart
<1>4. CASE p \notin Catalog!Fetchers
  <2>1. p \in Callers /\ Catalog!Set(p, q) /\ MatchFits(r)
    BY <1>2, <1>4 DEF Catalog!Deliver, Catalog!Procs, MatchInv
  <2>2. r.op \in {"item", "track", "album", "match"}
    BY <1>1, <2>1 DEF MatchInv, CatalogInv, CallsFit, FitsCall
  <2>3. CASE r.op = "match"
    <3>1. \A t : MatchFits(Catalog!WithTrack(r, t))
      BY <1>1, <2>1, <2>3, VerifiedFits DEF Catalog!WithTrack
    <3>2. \A pc \in {"next", "player"} : \A on : MatchFits(Catalog!Asks(r, pc, on))
      BY <1>1, <2>1, <2>3, CallKept DEF MatchFits, Fetching
    <3> QED
      BY <1>2, <2>1, <3>1, <3>2, MatchMoves
  <2>4. CASE r.op # "match"
    <3>1. \A t : Catalog!WithTrack(r, t).op = r.op
      <4> SUFFICES ASSUME NEW t PROVE Catalog!WithTrack(r, t).op = r.op
        OBVIOUS
      <4>1. Catalog!WithTrack(r, t) = IF r.op = "album" THEN Catalog!AlbumOfTrack(r, t)
                                      ELSE Catalog!Done(r, IF t = NoOne THEN NoOne ELSE Catalog!TrackChild(t))
        BY <2>2, <2>4 DEF Catalog!WithTrack
      <4>2. Catalog!AlbumOfTrack(r, t).op = r.op
        BY <1>1, CallKept DEF Catalog!AlbumOfTrack
      <4> QED
        BY <1>1, <4>1, <4>2, CallKept
    <3>2. q.op = r.op
      BY <1>1, <1>2, <3>1, CallKept
    <3> QED
      BY <1>1, <2>1, <2>4, <3>2, OthersFit, MatchMoves
  <2> QED
    BY <2>3, <2>4
<1> QED
  BY <1>3, <1>4

LEMMA MatchStep ==
    ASSUME Catalog!CatalogAssumption, MatchInv, [Catalog!Next]_(Catalog!vars)
    PROVE  MatchInv'
<1> SUFFICES \A o \in Callers : MatchFits(call'[o])
  BY CatalogStep DEF MatchInv
<1>1. ASSUME NEW c \in Callers, Catalog!Call(c) PROVE \A o \in Callers : MatchFits(call'[o])
  <2>1. PICK asked \in Questions :
           asked.op # "batch" /\ Catalog!Set(c, Catalog!Started([Catalog!Idle EXCEPT !.op = asked.op, !.arg = asked.arg]))
    BY <1>1 DEF Catalog!Call
  <2> QED
    BY <2>1, StartsFit, MatchMoves
<1>2. ASSUME NEW c \in Callers, Catalog!StartBatch(c) PROVE \A o \in Callers : MatchFits(call'[o])
  <2> SUFFICES ASSUME NEW o \in Callers PROVE MatchFits(call'[o])
    OBVIOUS
  <2>1. \/ call'[o] = call[o]
        \/ call'[o].op \in {"batch", "item"}
    BY ZenonT(60), <1>2 DEF Catalog!StartBatch, Catalog!Procs, Catalog!Idle
  <2> QED
    BY <2>1 DEF MatchInv, MatchFits
<1>3. ASSUME NEW f \in Catalog!Fetchers, Catalog!TakeSlot(f) PROVE \A o \in Callers : MatchFits(call'[o])
  BY <1>3, FetchersApart DEF Catalog!TakeSlot
<1>4. CASE UNCHANGED Catalog!vars
  BY <1>4 DEF Catalog!vars, MatchInv
<1> QED
  BY <1>1, <1>2, <1>3, <1>4, SearchesFit, AnswersFit, TracksFit DEF Catalog!Next, Catalog!Answered

(* MatchTrackByMetadata, for all pages of YouTube's and whatever else is   *)
(* called meanwhile: of the results of the right length the closest is     *)
(* answered, and one of unknown length only when none is of the right one. *)
THEOREM MatchesAreTrusted == ASSUME SubsonicAssumption PROVE SubsonicSpec => []MatchTrusted
<1>1. SubsonicInit => MatchInv
  <2> SUFFICES ASSUME Catalog!Init PROVE \A c \in Callers : MatchFits(call[c])
    BY CatalogInit DEF SubsonicInit, MatchInv
  <2>1. \A c \in Callers : call[c].op # "match"
    BY DEF Catalog!Init, Catalog!Procs, Catalog!Idle
  <2> QED
    BY <2>1 DEF MatchFits
<1>2. MatchInv /\ [SubsonicNext]_all => MatchInv'
  <2> SUFFICES ASSUME MatchInv, [SubsonicNext]_all
               PROVE  MatchInv'
    OBVIOUS
  <2>1. [Catalog!Next]_(Catalog!vars)
    BY DEF SubsonicNext, LibraryStep, StreamStep, YouTubeStep, all, youtube, Catalog!vars
  <2> QED
    BY <2>1, MatchStep DEF SubsonicAssumption
<1>3. MatchInv => MatchTrusted
  BY DEF MatchInv, MatchFits, MatchTrusted, Catalog!MatchTrusted, Catalog!Answers
<1> QED
  BY <1>1, <1>2, <1>3, PTL DEF SubsonicSpec

=============================================================================
