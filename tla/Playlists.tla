------------------------------ MODULE Playlists ------------------------------
(***************************************************************************)
(* internal/importer/job.go and server/ctrlsubsonic/handlers_playlist.go:  *)
(* background jobs that import playlists from other services into the      *)
(* database, while clients edit the same playlists.                        *)
(*                                                                         *)
(* A statement on the database is a step; no handler or job holds a        *)
(* transaction over two of them, so anything may happen in between.  Each  *)
(* job fills a playlist of its own, the only ones the model has.           *)
(***************************************************************************)
EXTENDS Integers, FiniteSets, SequencesExt

CONSTANTS
    Imports,     \* import jobs, and the playlists they create
    Clients,     \* requests of clients that may be served at the same time
    Length,      \* import -> tracks in the playlist it copies
    Uris,        \* what findTrack may find for a track
    Slots,       \* maxConcurrentImports, as the capacity of the semaphore
    Workers,     \* maxConcurrentImports, as the number of workers of a job
    MaxRequests  \* requests a client makes

PlaylistsAssumption ==
    /\ Length \in [Imports -> Nat] /\ Slots \in Nat \ {0} /\ Workers \in Nat \ {0}
    /\ MaxRequests \in Nat

VARIABLES
    name,    \* playlist -> its row's name, or "none" if there is no row
    tracks,  \* playlist -> rows of playlist_tracks with its id: [id, uri, pos, by]
    nextId,  \* playlist -> id of the next row
    slots,   \* jobs that hold a slot of the semaphore
    job,     \* playlist -> where its import is
    req,     \* client -> its request: the statements its handler still has to make
    asked,   \* client -> requests it has made
    edited   \* history: playlist -> "no", "yes", or "mixed" when clients
             \* numbered its tracks anew while others added or numbered them,
             \* or could not number some

db == <<name, tracks, nextId>>
vars == <<db, slots, job, req, asked, edited>>

NotFound == "none"
Idle == [p |-> "none", todo |-> << >>, copy |-> "none", max |-> 0, rows |-> << >>]
Sources(p) == 1..Length[p]

(* next and busy: the tracks not taken yet and those being looked for;     *)
(* found is a history of what was found.                                   *)
NoJob == [at |-> "none", next |-> 1, busy |-> {}, results |-> << >>, used |-> << >>,
          copy |-> "none", found |-> {}]

Init ==
    /\ name = [p \in Imports |-> "none"]
    /\ tracks = [p \in Imports |-> {}]
    /\ nextId = [p \in Imports |-> 0]
    /\ slots = {}
    /\ job = [p \in Imports |-> NoJob]
    /\ req = [c \in Clients |-> Idle]
    /\ asked = [c \in Clients |-> 0]
    /\ edited = [p \in Imports |-> "no"]

(***************************************************************************)
(* Statements.  A row of tracks has the source track it was imported for   *)
(* in `by', or 0 (and the URI "mine") if a client added it.  Only the first of the pool's     *)
(* connections was told to enforce foreign keys: a statement does or does  *)
(* not, depending on the connection it gets.                               *)
(***************************************************************************)
Row(p, uri, pos, by) == [id |-> nextId[p], uri |-> uri, pos |-> pos, by |-> by]

Insert(p, uri, pos, by) ==
    /\ tracks' = [tracks EXCEPT ![p] = @ \cup {Row(p, uri, pos, by)}]
    /\ nextId' = [nextId EXCEPT ![p] = @ + 1]

(* gorm's Save writes the whole row, and inserts it if it is gone. *)
SaveTrack(p, r) == tracks' = [tracks EXCEPT ![p] = {s \in @ : s.id # r.id} \cup {r}]

(* A row of tracks can be written. *)
Writable(p, enforced) == enforced => name[p] # "none"

SetName(p, n) == name' = IF name[p] = "none" THEN name ELSE [name EXCEPT ![p] = n]

MaxPosition(p) == IF tracks[p] = {} THEN -1 ELSE Max({r.pos : r \in tracks[p]})

(* ORDER BY position: rows with the same position come in any order. *)
Ordered(p) ==
    {s \in SetToSeqs(tracks[p]) : \A i, j \in 1..Len(s) : i < j => s[i].pos <= s[j].pos}

(***************************************************************************)
(* A job.                                                                  *)
(***************************************************************************)
At(p, step) == job[p].at = step
Go(p, step) == job' = [job EXCEPT ![p].at = step]
End(p) ==
    /\ job' = [job EXCEPT ![p] = [NoJob EXCEPT !.at = "done", !.found = job[p].found]]
    /\ slots' = slots \ {p}

(* StartImport: the placeholder, and the goroutine of the job. *)
StartImport(p) ==
    /\ At(p, "none")
    /\ name' = [name EXCEPT ![p] = "importing"]
    /\ Go(p, "waiting")
    /\ UNCHANGED <<tracks, nextId, slots, req, asked, edited>>

Acquire(p) ==
    /\ At(p, "waiting") /\ Cardinality(slots) < Slots
    /\ slots' = slots \cup {p}
    /\ Go(p, "searching")
    /\ UNCHANGED <<db, req, asked, edited>>

(* A worker takes the next track from the channel, ...                     *)
TakeTrack(p) ==
    /\ At(p, "searching")
    /\ job[p].next <= Length[p] /\ Cardinality(job[p].busy) < Workers
    /\ job' = [job EXCEPT ![p].busy = @ \cup {job[p].next}, ![p].next = @ + 1]
    /\ UNCHANGED <<db, slots, req, asked, edited>>

(* ... and sends what findTrack returns: some provider's URI, or nothing.  *)
FindTrack(p, i, uri) ==
    /\ At(p, "searching") /\ i \in job[p].busy
    /\ job' = [job EXCEPT ![p].busy = @ \ {i},
                          ![p].results = Append(@, [index |-> i, uri |-> uri]),
                          ![p].found = @ \cup ({uri} \ {NotFound})]
    /\ UNCHANGED <<db, slots, req, asked, edited>>

\* Mutant: results are used in the order in which they arrived.
CollectUnsorted(p) ==
    /\ At(p, "searching") /\ job[p].next > Length[p] /\ job[p].busy = {}
    /\ job' = [job EXCEPT ![p].at = "adding"]
    /\ UNCHANGED <<db, slots, req, asked, edited>>

(* When the workers have ended the results are sorted; each has an index   *)
(* of its own.                                                             *)
Collect(p) ==
    /\ At(p, "searching") /\ job[p].next > Length[p] /\ job[p].busy = {}
    /\ job' = [job EXCEPT ![p].at = "adding",
                          ![p].results = [i \in Sources(p) |-> CHOOSE r \in ToSet(@) : r.index = i]]
    /\ UNCHANGED <<db, slots, req, asked, edited>>

(* The loop over the results.  used lists what was added: its length is    *)
(* successCount, the position the next track gets.                         *)
Skip(p) ==
    /\ At(p, "adding") /\ job[p].results # << >>
    /\ Head(job[p].results).uri \in {NotFound} \cup ToSet(job[p].used)
    /\ job' = [job EXCEPT ![p].results = Tail(@)]
    /\ UNCHANGED <<db, slots, req, asked, edited>>

AddTrack(p, enforced) ==
    /\ At(p, "adding") /\ job[p].results # << >>
    /\ LET r == Head(job[p].results)
       IN  /\ r.uri \notin {NotFound} \cup ToSet(job[p].used)
           /\ IF Writable(p, enforced)
              THEN /\ job' = [job EXCEPT ![p].results = Tail(@), ![p].used = Append(@, r.uri)]
                   /\ Insert(p, r.uri, Len(job[p].used), r.index) /\ UNCHANGED name
              ELSE job' = [job EXCEPT ![p].results = Tail(@)] /\ UNCHANGED db
    /\ UNCHANGED <<slots, req, asked, edited>>

ImportFailed(p) ==
    /\ At(p, "adding") /\ job[p].results = << >> /\ job[p].used = << >>
    /\ SetName(p, "failed")
    /\ End(p)
    /\ UNCHANGED <<tracks, nextId, req, asked, edited>>

(* finalizePlaylist reads the row; if it has no cover, ...                 *)
ReadRow(p) ==
    /\ At(p, "adding") /\ job[p].results = << >> /\ job[p].used # << >>
    /\ \E cover \in {c \in BOOLEAN : name[p] = "none" => ~c} :
           job' = [job EXCEPT ![p].at = IF cover THEN "row" ELSE "naming", ![p].copy = name[p]]
    /\ UNCHANGED <<db, slots, req, asked, edited>>

(* ... it tries, for seconds, to make one of the tracks' covers, ...       *)
MakeCover(p) ==
    /\ At(p, "row")
    /\ \E made \in {m \in BOOLEAN : tracks[p] = {} => ~m} :
           Go(p, IF made THEN "cover" ELSE "naming")
    /\ UNCHANGED <<db, slots, req, asked, edited>>

(* ... and saves it with the row it had read.                              *)
SaveCover(p) ==
    /\ At(p, "cover")
    /\ name' = [name EXCEPT ![p] = job[p].copy]
    /\ Go(p, "naming")
    /\ UNCHANGED <<tracks, nextId, slots, req, asked, edited>>

(* Last, the playlist gets its title.                                      *)
NamePlaylist(p) ==
    /\ At(p, "naming")
    /\ SetName(p, "title")
    /\ End(p)
    /\ UNCHANGED <<tracks, nextId, req, asked, edited>>

Job(p) ==
    \/ Acquire(p) \/ TakeTrack(p) \/ Collect(p) \/ Skip(p)
    \/ \E i \in Sources(p), uri \in Uris \cup {NotFound} : FindTrack(p, i, uri)
    \/ \E enforced \in BOOLEAN : AddTrack(p, enforced)
    \/ ImportFailed(p) \/ ReadRow(p) \/ MakeCover(p) \/ SaveCover(p) \/ NamePlaylist(p)

(***************************************************************************)
(* Requests.  Each first loads the playlist's row; todo is what it does    *)
(* after that, one entry for each statement.                               *)
(***************************************************************************)
Ask(c, p, newName, todo) ==
    /\ req[c] = Idle /\ asked[c] < MaxRequests /\ name[p] # "none"
    /\ req' = [req EXCEPT ![c] = [Idle EXCEPT !.p = p, !.todo = todo,
                                              !.copy = IF newName THEN "mine" ELSE name[p]]]
    /\ asked' = [asked EXCEPT ![c] = @ + 1]
    /\ UNCHANGED <<db, slots, job, edited>>

(* ServeUpdatePlaylist: rename, add a track, remove the one at some index. *)
Update(c, p, rename, add, remove) ==
    Ask(c, p, rename, (IF add THEN <<"max", "insert">> ELSE << >>)
                      \o (IF remove THEN <<"find", "delete", "list", "number">> ELSE << >>)
                      \o <<"save">>)

(* ServeCreatePlaylist with a playlistId: rename, then add tracks. *)
AppendTo(c, p, add) ==
    Ask(c, p, TRUE, <<"save">> \o IF add THEN <<"max", "insert">> ELSE << >>)

(* ServeDeletePlaylist. *)
Delete(c, p) == Ask(c, p, FALSE, <<"clear", "drop">>)

Doing(c, p, statement) ==
    /\ req[c] # Idle /\ req[c].p = p /\ Head(req[c].todo) = statement
    /\ UNCHANGED <<slots, job, asked>>

Rest(c) == [req[c] EXCEPT !.todo = Tail(@)]
Step(c, r) == req' = [req EXCEPT ![c] = IF r.todo = << >> THEN Idle ELSE r]
Edit(p) == edited' = [edited EXCEPT ![p] = IF @ = "mixed" THEN @ ELSE "yes"]

ReadMax(c, p) ==
    /\ Doing(c, p, "max")
    /\ Step(c, [Rest(c) EXCEPT !.max = MaxPosition(p)])
    /\ UNCHANGED <<db, edited>>

InsertTrack(c, p, enforced) ==
    /\ Doing(c, p, "insert")
    /\ IF Writable(p, enforced) THEN Insert(p, "mine", req[c].max + 1, 0) /\ UNCHANGED name
                                ELSE UNCHANGED db
    /\ Step(c, Rest(c)) /\ Edit(p)

(* The row at the index to remove: none, when the list is too short.       *)
FindVictim(c, p) ==
    /\ Doing(c, p, "find")
    /\ \E r \in {<< >>} \cup {<<t>> : t \in tracks[p]} : Step(c, [Rest(c) EXCEPT !.rows = r])
    /\ UNCHANGED <<db, edited>>

DeleteTrack(c, p) ==
    /\ Doing(c, p, "delete")
    /\ tracks' = [tracks EXCEPT ![p] = {t \in @ : \A v \in ToSet(req[c].rows) : t.id # v.id}]
    /\ Step(c, Rest(c)) /\ Edit(p)
    /\ UNCHANGED <<name, nextId>>

(* Alone: no import and no other request is changing the playlist.         *)
Alone(c, p) == At(p, "done") /\ \A d \in Clients \ {c} : req[d].p # p

ListRest(c, p) ==
    /\ Doing(c, p, "list")
    /\ \E rest \in Ordered(p) :
           Step(c, IF rest = << >> THEN [Rest(c) EXCEPT !.todo = Tail(@)]
                   ELSE [Rest(c) EXCEPT !.rows = rest, !.max = -1])
    /\ edited' = [edited EXCEPT ![p] = IF Alone(c, p) THEN @ ELSE "mixed"]
    /\ UNCHANGED db

(* max counts up: the position of the row before.                          *)
NumberTrack(c, p, enforced) ==
    /\ Doing(c, p, "number")
    /\ IF Writable(p, enforced)
       THEN SaveTrack(p, [Head(req[c].rows) EXCEPT !.pos = req[c].max + 1]) /\ Edit(p)
       ELSE edited' = [edited EXCEPT ![p] = "mixed"] /\ UNCHANGED tracks
    /\ Step(c, IF Len(req[c].rows) = 1 THEN Rest(c)
               ELSE [req[c] EXCEPT !.rows = Tail(@), !.max = @ + 1])
    /\ UNCHANGED <<name, nextId>>

SaveRow(c, p) ==
    /\ Doing(c, p, "save")
    /\ name' = [name EXCEPT ![p] = req[c].copy]
    /\ Step(c, Rest(c)) /\ Edit(p)
    /\ UNCHANGED <<tracks, nextId>>

ClearTracks(c, p) ==
    /\ Doing(c, p, "clear")
    /\ tracks' = [tracks EXCEPT ![p] = {}]
    /\ Step(c, Rest(c)) /\ Edit(p)
    /\ UNCHANGED <<name, nextId>>

(* Tracks added since go with the row where foreign keys are enforced.     *)
DropRow(c, p, enforced) ==
    /\ Doing(c, p, "drop")
    /\ name' = [name EXCEPT ![p] = "none"]
    /\ tracks' = IF enforced THEN [tracks EXCEPT ![p] = {}] ELSE tracks
    /\ Step(c, Rest(c)) /\ Edit(p)
    /\ UNCHANGED nextId

Client(c, p) ==
    \/ \E rename, add, remove \in BOOLEAN : Update(c, p, rename, add, remove)
    \/ \E add \in BOOLEAN : AppendTo(c, p, add)
    \/ Delete(c, p)
    \/ ReadMax(c, p) \/ FindVictim(c, p) \/ DeleteTrack(c, p) \/ ListRest(c, p)
    \/ SaveRow(c, p) \/ ClearTracks(c, p)
    \/ \E enforced \in BOOLEAN :
           \/ InsertTrack(c, p, enforced)
           \/ NumberTrack(c, p, enforced) \/ DropRow(c, p, enforced)

Next == \E p \in Imports : StartImport(p) \/ Job(p) \/ \E c \in Clients : Client(c, p)

Spec == Init /\ [][Next]_vars

(* Searches and covers end (their requests have timeouts), and so does     *)
(* every statement.  No client has to make a request.                      *)
FairSpec == Spec /\ \A p \in Imports : WF_vars(Job(p))

(***************************************************************************)
(* Properties.                                                             *)
(***************************************************************************)

(* No more jobs run than the semaphore has slots; rows have ids of their   *)
(* own, below the next one.                                                *)
TypeOK ==
    /\ name \in [Imports -> {"none", "importing", "failed", "title", "mine"}]
    /\ \A p \in Imports : \A r \in tracks[p] :
           /\ r.id \in 0..(nextId[p] - 1) /\ r.uri \in Uris \cup {"mine"}
           /\ r.pos \in Nat /\ r.by \in 0..Length[p]
           /\ \A s \in tracks[p] : r.id = s.id => r = s
    /\ slots \subseteq Imports /\ Cardinality(slots) <= Slots
    /\ \A c \in Clients : req[c] = Idle \/ req[c].todo # << >>
    /\ asked \in [Clients -> 0..MaxRequests]

(* What was imported stands in the order of the source, each track once,   *)
(* whatever order the searches ended in and whatever clients add, remove   *)
(* or number anew, once the import has ended and one at a time.            *)
ImportKeepsOrder ==
    \A p \in Imports :
        edited[p] # "mixed" /\ (\A c \in Clients : req[c].p # p) =>
            \A r, s \in {t \in tracks[p] : t.by # 0} :
                /\ r.by < s.by => r.pos < s.pos
                /\ r.uri = s.uri => r = s

(* An import nobody touched holds every track that was found, at positions *)
(* without gaps, under its title, or says that it failed.                  *)
ImportComplete ==
    \A p \in Imports : At(p, "done") /\ edited[p] = "no" =>
        /\ {r.uri : r \in tracks[p]} = job[p].found
        /\ {r.pos : r \in tracks[p]} = 0..(Cardinality(job[p].found) - 1)
        /\ name[p] = IF job[p].found = {} THEN "failed" ELSE "title"

=============================================================================
