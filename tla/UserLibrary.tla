---------------------------- MODULE UserLibrary ----------------------------
(***************************************************************************)
(* What a user keeps: stars, ratings and plays (handlers_search.go from    *)
(* ServeStar on, handlers_common.go's ServeScrobble), the copy of them     *)
(* that every request of the user warms (ctrl.go, userPrefsCache), and the *)
(* library a client enumerates page by page (searchVirtualLibrary, db.go). *)
(*                                                                         *)
(* Every statement of the database is one step; between the statements of  *)
(* a request those of others take place.  The user's searches go on beside *)
(* these requests: Search.                                                 *)
(***************************************************************************)
EXTENDS Search

CONSTANTS PageSize  \* how many items the client asks for at a time

ASSUME PageAssumption == PageSize \in Nat \ {0}

\* A library is finite
ASSUME LibraryAssumption ==
    \A p \in Plans :
        /\ IsFiniteSet(p.played) /\ IsFiniteSet(p.playlist) /\ IsFiniteSet(p.known)
        /\ \A u \in Users : IsFiniteSet(p.starred[u])

VARIABLES
    named,       \* user -> starred things whose row has a fallback name
    ratings,     \* user -> rated thing -> rating
    plays,       \* user -> played track -> count
    albumPlays,  \* user -> starred album -> play count
    metadata,    \* tracks whose album and artist are in track_metadata
    prefs,       \* user -> userPrefsCache's entry, or NoOne
    fill,        \* request -> what it has read for that entry so far
    job,         \* request -> [at, read, due, given]
    overlapped   \* users whose entry was deleted while a request was filling it

rowVars == <<named, ratings, plays, albumPlays, metadata>>
prefVars == <<prefs, fill, overlapped>>
vars == <<plan, stars, searchVars, rowVars, prefVars, job>>

User(r) == Ask(r).user
That(r) == Ask(r).thing
Op(r, op) == Ask(r).op = op
AlbumOf(t) == [t EXCEPT !.kind = "albums"]
Empty == <<>>
Without(f, x) == [y \in DOMAIN f \ {x} |-> f[y]]
With(f, x, v) == [y \in DOMAIN f \cup {x} |-> IF y = x THEN v ELSE f[y]]
OfKind(k, things) == {t \in things : t.kind = k}

Init ==
    /\ SearchInit
    /\ named = stars
    /\ ratings = [u \in Users |-> Empty]
    /\ plays = [u \in Users |-> [t \in plan.played |-> 1]]
    /\ albumPlays = [u \in Users |-> [t \in OfKind("albums", stars[u]) |-> 0]]
    /\ metadata = {}
    /\ prefs = [u \in Users |-> NoOne]
    /\ fill = [r \in Requests |-> Empty]
    /\ job = [r \in Requests |-> [at |-> "warm", read |-> 0, due |-> {}, given |-> {}]]
    /\ overlapped = {}

At(r, step) == job[r].at = step
To(r, step) == job' = [job EXCEPT ![r].at = step]
Done(r) == job' = [job EXCEPT ![r] = [@ EXCEPT !.at = "done", !.read = 0]]
RowsStay == UNCHANGED <<stars, rowVars>>

-----------------------------------------------------------------------------
\* warmUserPreferences, before the handler of every request

Snapshot(u) == [stars |-> OfKind("tracks", stars[u]), ratings |-> ratings[u], plays |-> plays[u]]

Warm(r) ==
    /\ At(r, "warm") /\ Ask(r).op \notin {"search", "none"}
    /\ To(r, IF prefs[User(r)] # NoOne THEN "handler" ELSE "stars")
    /\ RowsStay /\ UNCHANGED prefVars

ReadFor(r, step, table, next) ==
    /\ At(r, step)
    /\ fill' = [fill EXCEPT ![r] = With(@, table, Snapshot(User(r))[table])]
    /\ To(r, next)
    /\ RowsStay /\ UNCHANGED <<prefs, overlapped>>

ReadStars(r) == ReadFor(r, "stars", "stars", "ratings")
ReadRatings(r) == ReadFor(r, "ratings", "ratings", "plays")
ReadPlays(r) == ReadFor(r, "plays", "plays", "store")

StorePrefs(r) ==
    /\ At(r, "store")
    /\ prefs' = [prefs EXCEPT ![User(r)] = fill[r]]
    /\ fill' = [fill EXCEPT ![r] = Empty]
    /\ To(r, "handler")
    /\ RowsStay /\ UNCHANGED overlapped

Filling(r) == job[r].at \in {"stars", "ratings", "plays", "store"}

\* invalidateUserPreferences, the last thing a handler that writes does
Invalidate(r) ==
    /\ At(r, "invalidate")
    /\ prefs' = [prefs EXCEPT ![User(r)] = NoOne]
    /\ overlapped' = IF \E q \in Requests : User(q) = User(r) /\ Filling(q)
                     THEN overlapped \cup {User(r)} ELSE overlapped \ {User(r)}
    /\ Done(r)
    /\ RowsStay /\ UNCHANGED fill

\* The entry is ten minutes old
ExpirePrefs(u) ==
    /\ prefs[u] # NoOne
    /\ prefs' = [prefs EXCEPT ![u] = NoOne]
    /\ RowsStay /\ UNCHANGED <<fill, overlapped, job>>

-----------------------------------------------------------------------------
\* ServeStar, ServeUnstar, ServeSetRating

StarLooks(r) ==
    /\ At(r, "handler") /\ Op(r, "star")
    /\ To(r, IF That(r) \in stars[User(r)] THEN "invalidate" ELSE "naming")
    /\ RowsStay /\ UNCHANGED prefVars

\* The provider says what the thing is called, or does not; the row is created if the
\* key is still free
StarCreates(r, known) ==
    /\ At(r, "naming")
    /\ stars' = [stars EXCEPT ![User(r)] = @ \cup {That(r)}]
    /\ named' = IF known /\ That(r) \notin stars[User(r)]
                THEN [named EXCEPT ![User(r)] = @ \cup {That(r)}] ELSE named
    /\ albumPlays' = IF That(r).kind = "albums" /\ That(r) \notin stars[User(r)]
                     THEN [albumPlays EXCEPT ![User(r)] = With(@, That(r), 0)] ELSE albumPlays
    /\ To(r, "invalidate")
    /\ UNCHANGED <<ratings, plays, metadata>> /\ UNCHANGED prefVars

\* Mutant: a handler that answers without deleting the cached copy
UnstarKeepsCache(r) ==
    /\ At(r, "handler") /\ Op(r, "unstar")
    /\ stars' = [stars EXCEPT ![User(r)] = @ \ {That(r)}]
    /\ named' = [named EXCEPT ![User(r)] = @ \ {That(r)}]
    /\ albumPlays' = [albumPlays EXCEPT ![User(r)] = Without(@, That(r))]
    /\ Done(r)
    /\ UNCHANGED <<ratings, plays, metadata, prefVars>>

Unstar(r) ==
    /\ At(r, "handler") /\ Op(r, "unstar")
    /\ stars' = [stars EXCEPT ![User(r)] = @ \ {That(r)}]
    /\ named' = [named EXCEPT ![User(r)] = @ \ {That(r)}]
    /\ albumPlays' = [albumPlays EXCEPT ![User(r)] = Without(@, That(r))]
    /\ To(r, "invalidate")
    /\ UNCHANGED <<ratings, plays, metadata>> /\ UNCHANGED prefVars

SetRating(r) ==
    /\ At(r, "handler") /\ Op(r, "rate")
    /\ ratings' = [ratings EXCEPT ![User(r)] =
                      IF Ask(r).count = 0 THEN Without(@, That(r)) ELSE With(@, That(r), Ask(r).count)]
    /\ To(r, "invalidate")
    /\ UNCHANGED <<stars, named, plays, albumPlays, metadata>> /\ UNCHANGED prefVars

-----------------------------------------------------------------------------
\* ServeScrobble

\* Where the track belongs is recorded if its provider answers
Ingest(r, known) ==
    /\ At(r, "handler") /\ Op(r, "scrobble")
    /\ metadata' = IF known THEN metadata \cup {That(r)} ELSE metadata
    /\ To(r, IF known /\ That(r).prov = "td" THEN "play with album" ELSE "play")
    /\ UNCHANGED <<stars, named, ratings, plays, albumPlays>> /\ UNCHANGED prefVars

Count(f, x) == IF x \in DOMAIN f THEN f[x] ELSE 0

ReadPlay(r) ==
    /\ job[r].at \in {"play", "play with album"}
    /\ job' = [job EXCEPT ![r] = [@ EXCEPT !.read = Count(plays[User(r)], That(r)),
                                          !.at = IF At(r, "play") THEN "save" ELSE "save, then album"]]
    /\ RowsStay /\ UNCHANGED prefVars

\* Mutant: a first play is only recorded when the track's album is known
SavePlayKnown(r) ==
    /\ job[r].at \in {"save", "save, then album"}
    /\ plays' = IF At(r, "save") THEN plays
                ELSE [plays EXCEPT ![User(r)] = With(@, That(r), job[r].read + 1)]
    /\ To(r, IF At(r, "save") THEN "invalidate" ELSE "album")
    /\ UNCHANGED <<stars, named, ratings, albumPlays, metadata>> /\ UNCHANGED prefVars

\* A row that was read is updated to one more than was read; a new one is inserted,
\* which fails if another request inserted it meanwhile
SavePlay(r) ==
    /\ job[r].at \in {"save", "save, then album"}
    /\ plays' = IF job[r].read = 0 /\ That(r) \in DOMAIN plays[User(r)] THEN plays
                ELSE [plays EXCEPT ![User(r)] = With(@, That(r), job[r].read + 1)]
    /\ To(r, IF At(r, "save") THEN "invalidate" ELSE "album")
    /\ UNCHANGED <<stars, named, ratings, albumPlays, metadata>> /\ UNCHANGED prefVars

ReadAlbumStar(r) ==
    LET album == AlbumOf(That(r))
    IN  /\ At(r, "album")
        /\ job' = [job EXCEPT ![r] =
               IF album \in stars[User(r)]
               THEN [@ EXCEPT !.read = albumPlays[User(r)][album], !.at = "save album",
                              !.due = {album} \cap named[User(r)]]
               ELSE [@ EXCEPT !.at = "invalidate"]]
        /\ RowsStay /\ UNCHANGED prefVars

\* Save writes the whole row, and inserts it again if it was deleted meanwhile
SaveAlbumStar(r) ==
    LET album == AlbumOf(That(r))
    IN  /\ At(r, "save album")
        /\ stars' = [stars EXCEPT ![User(r)] = @ \cup {album}]
        /\ albumPlays' = [albumPlays EXCEPT ![User(r)] = With(@, album, job[r].read + 1)]
        /\ named' = [named EXCEPT ![User(r)] = @ \cup job[r].due]
        /\ To(r, "invalidate")
        /\ UNCHANGED <<ratings, plays, metadata>> /\ UNCHANGED prefVars

-----------------------------------------------------------------------------
\* An album is browsed: stars, ratings and plays come from the cached copy.  If it
\* was deleted since this request warmed it, it is warmed again, and read from the
\* rows if it is deleted once more before it is taken

ApplyPrefs(r) ==
    /\ At(r, "handler") /\ Op(r, "browse")
    /\ \/ prefs[User(r)] # NoOne /\ Done(r)
       \/ prefs[User(r)] = NoOne /\ job[r].read = 0 /\ job' = [job EXCEPT ![r].at = "stars", ![r].read = 1]
       \/ prefs[User(r)] = NoOne /\ job[r].read = 1 /\ Done(r)
    /\ RowsStay /\ UNCHANGED prefVars

-----------------------------------------------------------------------------
\* ServeGetStarredTwo, one kind after the other.  A track its provider does not give
\* is made up from the row; an album or an artist only if the row has a name

\* Mutant: what the provider does not give is left out
GiveFetched(r, fetched) == OfKind("tracks", stars[User(r)]) \cap fetched

GiveTracks(r, fetched) == OfKind("tracks", stars[User(r)])

\* batchFetchAlbumsByURIs, batchFetchArtistsByURIs
GiveAlbums(r, fetched) == OfKind("albums", stars[User(r)]) \cap (fetched \cup named[User(r)])
GiveArtists(r, fetched) == OfKind("artists", stars[User(r)]) \cap (fetched \cup named[User(r)])

Give(r, k, fetched) ==
    CASE k = "tracks" -> GiveTracks(r, fetched)
      [] k = "albums" -> GiveAlbums(r, fetched)
      [] k = "artists" -> GiveArtists(r, fetched)

ListStarred(r, k, fetched) ==
    /\ job[r].at = (IF k = "tracks" THEN "handler" ELSE k) /\ Op(r, "starred")
    /\ fetched \subseteq OfKind(k, stars[User(r)])
    /\ job' = [job EXCEPT ![r] =
           [at |-> CASE k = "tracks" -> "albums" [] k = "albums" -> "artists" [] k = "artists" -> "done",
            read |-> 0,
            due |-> @.due \cup (IF k = "tracks" THEN OfKind(k, stars[User(r)])
                                ELSE OfKind(k, stars[User(r)]) \cap (fetched \cup named[User(r)])),
            given |-> @.given \cup Give(r, k, fetched)]]
    /\ RowsStay /\ UNCHANGED prefVars

-----------------------------------------------------------------------------
\* searchVirtualLibrary: everything the user has to do with, in the order of the URIs,
\* and of that the page the client asks for

Uri(t) == 10 * BaseWeight[t.prov] + Score(t.title)
UsersTracks(u) == OfKind("tracks", stars[u]) \cup DOMAIN plays[u] \cup plan.playlist

GetVirtualLibraryTrackIDs(u) == UsersTracks(u) \cup OfKind("tracks", plan.known)
GetVirtualLibraryAlbumIDs(u) ==
    OfKind("albums", stars[u] \cup plan.known) \cup {AlbumOf(t) : t \in UsersTracks(u) \cap metadata}

\* UNION sorts what it returns: what comes before t
Place(t, ids) == Cardinality({s \in ids : Uri(s) < Uri(t)})

\* Mutant: the end of the page is the index of its last item
PageOneShort(ids, offset) == {t \in ids : offset <= Place(t, ids) /\ Place(t, ids) < offset + PageSize - 1}

Page(ids, offset) == {t \in ids : offset <= Place(t, ids) /\ Place(t, ids) < offset + PageSize}

\* The providers of a batch are asked side by side; what they do not give is left out
BatchGetTracksByURI(uris, missing) == uris \ missing

\* The client asks for page after page until one is empty
Sync(r, missing) ==
    LET all == GetVirtualLibraryTrackIDs(User(r))
        offset == job[r].read
        page == Page(all, offset)
        due == IF offset = 0 THEN all ELSE job[r].due
    IN  /\ At(r, "handler") /\ Op(r, "sync")
        /\ missing \subseteq page
        /\ job' = [job EXCEPT ![r] =
               [at |-> IF offset >= Cardinality(all) THEN "done" ELSE "handler",
                read |-> offset + PageSize,
                due |-> due \ missing,
                given |-> @.given \cup BatchGetTracksByURI(page, missing)]]
        /\ RowsStay /\ UNCHANGED prefVars

-----------------------------------------------------------------------------

Work(r) ==
    \/ Warm(r) \/ ReadStars(r) \/ ReadRatings(r) \/ ReadPlays(r) \/ StorePrefs(r) \/ Invalidate(r)
    \/ StarLooks(r) \/ \E known \in BOOLEAN : StarCreates(r, known) \/ Ingest(r, known)
    \/ Unstar(r) \/ SetRating(r)
    \/ ReadPlay(r) \/ SavePlay(r) \/ ReadAlbumStar(r) \/ SaveAlbumStar(r)
    \/ ApplyPrefs(r)
    \/ \E k \in Kinds : \E fetched \in SUBSET OfKind(k, stars[User(r)]) : ListStarred(r, k, fetched)
    \/ Op(r, "sync") /\ \E missing \in SUBSET Page(GetVirtualLibraryTrackIDs(User(r)), job[r].read) : Sync(r, missing)

LibraryNext ==
    \/ \E r \in Requests : Work(r)
    \/ \E u \in Users : ExpirePrefs(u)

Next ==
    \/ SearchNext /\ UNCHANGED <<rowVars, prefVars, job>>
    \/ ~ down /\ LibraryNext /\ UNCHANGED <<plan, searchVars>>

Spec == Init /\ [][Next]_vars

-----------------------------------------------------------------------------
\* Properties

TypeOK ==
    /\ search \in [Requests -> {"idle", "fetching", "marking", "answered", "gone"}]
    /\ cache \in Requests \cup {NoOne} /\ left \subseteq Requests /\ down \in BOOLEAN
    /\ \A u \in Users : named[u] \subseteq stars[u] /\ DOMAIN albumPlays[u] = OfKind("albums", stars[u])
    /\ overlapped \subseteq Users

Wrote(r) == job[r].at \in {"invalidate", "album", "save album"}

\* The cached copy of a user's rows is up to date, but for a request that has written
\* and not yet deleted it, and for a copy that was being read when it was deleted.
\* (invalidateUserPreferences: "forcing a reload on next access")
PrefsCurrent ==
    \A u \in Users :
        \/ prefs[u] \in {NoOne, Snapshot(u)}
        \/ u \in overlapped
        \/ \E r \in Requests : User(r) = u /\ Wrote(r)

\* Once a scrobble is answered its track is in the library with at least one play, and
\* its album too if the provider told which it is, whatever else goes on.
\* (ServeScrobble, "Auto-ingest: Record track metadata for virtual library")
ScrobbledIsKept ==
    \A r \in Requests : Op(r, "scrobble") /\ At(r, "done") =>
        /\ That(r) \in GetVirtualLibraryTrackIDs(User(r)) /\ Count(plays[User(r)], That(r)) > 0
        /\ That(r) \in metadata => AlbumOf(That(r)) \in GetVirtualLibraryAlbumIDs(User(r))

\* The starred list has every starred track, and of the albums and artists those the
\* provider gives or the row can name, unless they were unstarred meanwhile.
\* ("so user never loses their starred list")
StarredAreListed ==
    \A r \in Requests : Op(r, "starred") => job[r].due \cap stars[User(r)] \subseteq job[r].given

\* Nothing leaves the library of the user while r enumerates it
Unstarring(u) == \E r \in Requests : User(r) = u /\ Op(r, "unstar")

\* A client that enumerates a library page by page misses nothing that was in it from
\* the beginning and that the provider gave, although tracks are added between two
\* pages: it may get some of them twice.  (searchVirtualLibrary, "enumerate my library")
SyncComplete ==
    \A r \in Requests : Op(r, "sync") /\ At(r, "done") /\ ~ Unstarring(User(r)) => job[r].due \subseteq job[r].given

=============================================================================
