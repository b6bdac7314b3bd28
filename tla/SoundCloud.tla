----------------------------- MODULE SoundCloud -----------------------------
(***************************************************************************)
(* provider/soundcloud: the client of SoundCloud's API, whose requests all *)
(* carry one client_id that is found in the site's scripts and may be      *)
(* refused at any time, and the calls the provider makes with it.          *)
(*                                                                         *)
(* A call is a sequence of stages; a stage is a list of requests that are  *)
(* made at the same time, each by a goroutine of its own when there are    *)
(* several.  When the last one has ended, the call goes on with what they  *)
(* got.  A text is "" when it is missing, an id is a number, the same one  *)
(* for a track, a list and a user that have nothing to do with each other. *)
(* Lengths are in seconds; pictures, years and paths are left out.         *)
(***************************************************************************)
EXTENDS Integers, Sequences, FiniteSets, SequencesExt

CONSTANTS
    Callers,      \* requests that are being served
    MaxCalls,     \* bound: what the calls that are made may cost together
    MaxExpiries,  \* bound: times a key expires
    ChunkSize,    \* tracks asked for in one request: 50 in the code
    Whole,        \* tracks of a list that are told in full, the others by their id
    UserLimit,    \* tracks of a user that are asked for: 50 in the code
    Asked,        \* what may be called: [op, arg, cost]
    Tracks,       \* id -> what SoundCloud knows of a track: [id, title, user, length, streams]
    Lists,        \* id -> a playlist or an album: [id, title, user, tracks]
    Users,        \* id -> name
    Resources,    \* link -> what it leads to: [kind, of]
    Searches,     \* results of a search for tracks
    None          \* no such thing

ASSUME SoundCloudAssumption ==
    /\ MaxCalls \in Nat /\ MaxExpiries \in Nat
    /\ ChunkSize \in Nat \ {0} /\ Whole \in Nat /\ UserLimit \in Nat

Ops == {"track", "stream", "batch", "album", "artist", "albums", "similar", "top", "radio", "match", "search", "import"}

ASSUME AskedAssumption ==
    \A asked \in Asked :
        /\ asked.op \in Ops
        /\ asked.op = "album" => asked.arg.kind \in {"list", "user", "single"}

VARIABLES
    key,      \* client -> its client_id as the number of the scrape that found it, 0 if there is none
    lock,     \* client -> the request that is looking for a key and holds clientIDMu, or None
    scrapes,  \* client -> how often a key was looked for
    expired,  \* keys that expired
    call,     \* caller -> its call: [op, arg, at, parts, keep, out]
    calls     \* what the calls made so far cost

clients == <<key, lock, scrapes, expired>>

\* The provider and the importer have a client each
Clients == {"provider", "importer"}
ClientOf(c) == IF call[c].op = "import" THEN "importer" ELSE "provider"

Idle == [op |-> "none", arg |-> None, at |-> "idle", parts |-> <<>>, keep |-> None, out |-> None]
Request(ask) == [ask |-> ask, at |-> "key", key |-> 0, old |-> 0, got |-> None]
Ask(get, id) == [get |-> get, of |-> <<id>>]
AskAll(get, ids) == [get |-> get, of |-> ids]

Init ==
    /\ key = [i \in Clients |-> 0]
    /\ lock = [i \in Clients |-> None]
    /\ scrapes = [i \in Clients |-> 0]
    /\ expired = 0
    /\ call = [c \in Callers |-> Idle]
    /\ calls = 0

-----------------------------------------------------------------------------
\* What SoundCloud answers

Firsts(s, n) == SubSeq(s, 1, IF Len(s) < n THEN Len(s) ELSE n)
Stub(t) == [id |-> t, title |-> "", user |-> 0, length |-> 0, streams |-> <<>>]
Listed(l) == [Lists[l] EXCEPT !.tracks = [i \in DOMAIN @ |-> IF i <= Whole THEN Tracks[@[i]] ELSE Stub(@[i])]]
By(things, u) == SetToSortSeq({x \in DOMAIN things : things[x].user = u}, <)
User(u) == [id |-> u, name |-> Users[u]]
Known(ids) == {t \in DOMAIN Tracks : t \in Range(ids)}

\* Of several tracks some may be gone, and they come in an order of their own
Answers(ask) ==
    CASE ask.get = "track"      -> {Tracks[t] : t \in DOMAIN Tracks \cap {ask.of[1]}}
      [] ask.get = "tracks"     -> {[i \in 1..Cardinality(S) |-> Tracks[SetToSortSeq(S, >)[i]]] : S \in SUBSET Known(ask.of)}
      [] ask.get = "list"       -> {Listed(l) : l \in DOMAIN Lists \cap {ask.of[1]}}
      [] ask.get = "user"       -> {User(u) : u \in DOMAIN Users \cap {ask.of[1]}}
      [] ask.get = "userTracks" -> {[i \in DOMAIN ts |-> Tracks[ts[i]]] : ts \in {Firsts(By(Tracks, ask.of[1]), UserLimit)}}
      [] ask.get = "userLists"  -> {[i \in DOMAIN ls |-> Listed(ls[i])] : ls \in {By(Lists, ask.of[1])}}
      [] ask.get = "followings" -> {<<>>, <<User(CHOOSE u \in DOMAIN Users : TRUE)>>}
      [] ask.get = "searchLists" -> {<<>>, <<Listed(CHOOSE l \in DOMAIN Lists : TRUE)>>}
      [] ask.get = "searchUsers" -> {<<User(CHOOSE u \in DOMAIN Users : TRUE)>>}
      [] ask.get \in {"search", "related"} -> {[i \in DOMAIN s |-> Tracks[s[i]]] : s \in Searches}
      [] ask.get = "stream"     -> {"", Tracks[ask.of[1]].streams[ask.of[2]]}
      [] ask.get = "resolve"    -> {Resources[ask.of[1]]}

-----------------------------------------------------------------------------
\* A request and its client_id

SetPart(c, i, r) == call' = [call EXCEPT ![c].parts[i] = r]
Part(c, i) == call[c].parts[i]
Now(c, i, step) == i \in DOMAIN call[c].parts /\ Part(c, i).at = step
Free(c) == lock[ClientOf(c)] = None

\* getClientID: the client's key, if it has one ...
TakeKey(c, i) ==
    /\ Now(c, i, "key") /\ Free(c) /\ key[ClientOf(c)] # 0
    /\ SetPart(c, i, [Part(c, i) EXCEPT !.at = "sent", !.key = key[ClientOf(c)]])
    /\ UNCHANGED <<clients, calls>>

\* ... or else it is looked for, and everyone else waits
Scrape(c, i) ==
    /\ Now(c, i, "key") /\ Free(c) /\ key[ClientOf(c)] = 0
    /\ lock' = [lock EXCEPT ![ClientOf(c)] = <<c, i>>]
    /\ SetPart(c, i, [Part(c, i) EXCEPT !.at = "scrape"])
    /\ UNCHANGED <<key, scrapes, expired, calls>>

\* Mutant: the lock is not given back
ScrapedHolds(c, i) ==
    /\ Now(c, i, "scrape")
    /\ LET n == scrapes[ClientOf(c)] + 1
       IN  /\ key' = [key EXCEPT ![ClientOf(c)] = n]
           /\ scrapes' = [scrapes EXCEPT ![ClientOf(c)] = n]
           /\ SetPart(c, i, [Part(c, i) EXCEPT !.at = "sent", !.key = n])
    /\ UNCHANGED <<lock, expired, calls>>

\* The key that was found or, if there was none, the one the program knows
Scraped(c, i) ==
    /\ Now(c, i, "scrape")
    /\ LET n == scrapes[ClientOf(c)] + 1
       IN  /\ key' = [key EXCEPT ![ClientOf(c)] = n]
           /\ scrapes' = [scrapes EXCEPT ![ClientOf(c)] = n]
           /\ SetPart(c, i, [Part(c, i) EXCEPT !.at = "sent", !.key = n])
    /\ lock' = [lock EXCEPT ![ClientOf(c)] = None]
    /\ UNCHANGED <<expired, calls>>

Expire(client) ==
    /\ key[client] # 0 /\ expired < MaxExpiries
    /\ key' = [key EXCEPT ![client] = 0] /\ expired' = expired + 1
    /\ UNCHANGED <<lock, scrapes, call, calls>>

\* 401 or 403
Refused(c, i) ==
    /\ Now(c, i, "sent")
    /\ SetPart(c, i, [Part(c, i) EXCEPT !.at = "clear"])
    /\ UNCHANGED <<clients, calls>>

\* What a request got stays with it; its keys no longer matter
Ended(r, got) == [Request(r.ask) EXCEPT !.at = "done", !.got = got]

\* A request that was refused is made once more; refused again, it ends
Again(r) == IF r.old = 0 THEN [r EXCEPT !.at = "key", !.old = r.key, !.key = 0] ELSE Ended(r, None)

\* Mutant: the key stays
ClearNothing(c, i) ==
    /\ Now(c, i, "clear") /\ Free(c)
    /\ SetPart(c, i, Again(Part(c, i)))
    /\ UNCHANGED <<clients, calls>>

\* Whatever key the client has by now is dropped
Clear(c, i) ==
    /\ Now(c, i, "clear") /\ Free(c)
    /\ key' = [key EXCEPT ![ClientOf(c)] = 0]
    /\ SetPart(c, i, Again(Part(c, i)))
    /\ UNCHANGED <<lock, scrapes, expired, calls>>

Reply(c, i) ==
    /\ Now(c, i, "sent")
    /\ \E got \in Answers(Part(c, i).ask) \cup {None} : SetPart(c, i, Ended(Part(c, i), got))
    /\ UNCHANGED <<clients, calls>>

-----------------------------------------------------------------------------
\* Entries

Or(text, other) == IF text = "" THEN other ELSE text
NameOf(u) == IF u \in DOMAIN Users THEN Users[u] ELSE ""
TrackChild(t) ==
    [id |-> t.id, title |-> Or(t.title, "Untitled"), artist |-> Or(NameOf(t.user), "Unknown Artist"), artistId |-> t.user,
     album |-> [kind |-> "list", id |-> t.id], length |-> IF t.length <= 0 THEN 1 ELSE t.length, number |-> 1]
TrackChildren(ts) == [i \in DOMAIN ts |-> TrackChild(ts[i])]
Album(l) ==
    [id |-> [kind |-> "list", id |-> l.id], name |-> Or(l.title, "Untitled Playlist"),
     artist |-> Or(NameOf(l.user), "Unknown Artist"), count |-> Len(l.tracks), tracks |-> <<>>]
Artist(u) == [id |-> u.id, name |-> Or(u.name, "Unknown Artist")]
Artists(us) == [i \in DOMAIN us |-> Artist(us[i])]
Albums(ls) == [i \in DOMAIN ls |-> Album(ls[i])]

\* A list's tracks are numbered as it has them
Numbered(ts, album) == [i \in DOMAIN ts |-> [TrackChild(ts[i]) EXCEPT !.number = i, !.album = album]]
FullAlbum(l) == [Album(l) EXCEPT !.tracks = Numbered(l.tracks, @)]
Single(t) ==
    [id |-> TrackChild(t).album, name |-> TrackChild(t).title, artist |-> TrackChild(t).artist, count |-> 1,
     tracks |-> <<TrackChild(t)>>]
AllTracks(u, name, ts) ==
    [id |-> [kind |-> "user", id |-> u], name |-> "All Tracks", artist |-> name, count |-> Len(ts),
     tracks |-> Numbered(ts, [kind |-> "user", id |-> u])]

\* GetArtistAlbums: the lists, everything together if there are several tracks, every track by itself
ArtistAlbums(u, lists, ts) ==
    Albums(lists)
    \o (IF Len(ts) > 1 THEN <<[AllTracks(u, TrackChild(ts[1]).artist, ts) EXCEPT !.tracks = <<>>]>> ELSE <<>>)
    \o [i \in DOMAIN ts |-> [Single(ts[i]) EXCEPT !.tracks = <<>>]]

\* GetStreamURL: a progressive MP3 rather than another progressive stream, that rather than HLS
Selected(streams) ==
    LET mp3 == SelectInSeq(streams, LAMBDA s : s = "progressive/mpeg")
        plain == SelectInSeq(streams, LAMBDA s : s \in {"progressive/mpeg", "progressive/ogg"})
        hls == SelectInSeq(streams, LAMBDA s : s = "hls")
        picks == SelectSeq(<<mp3, plain, hls, 1>>, LAMBDA n : n # 0)
    IN  picks[1]

\* MatchTrackByMetadata: the first result of about the right length, or else the first one
Matched(want, ts) ==
    LET near == SelectSeq(ts, LAMBDA t : want <= 0 \/ t.length - want \in -15..15)
    IN  IF near \o ts = <<>> THEN None ELSE TrackChild((near \o ts)[1])

-----------------------------------------------------------------------------
\* Calls

Stubs(l) == SelectSeq([i \in DOMAIN l.tracks |-> l.tracks[i].id],
                      LAMBDA t : \E i \in DOMAIN l.tracks : l.tracks[i].id = t /\ l.tracks[i].title = "")
InFull(ts, id) == SelectInSeq(ts, LAMBDA t : t.id = id)

\* Mutant: what was told in full comes first
HydratedLast(l, full) ==
    [l EXCEPT !.tracks = SelectSeq(@, LAMBDA t : InFull(full, t.id) = 0) \o full]

\* Every track of the list that was told in full takes the place of the stub
Hydrated(l, full) ==
    [l EXCEPT !.tracks = [i \in DOMAIN @ |-> LET n == InFull(full, @[i].id) IN IF n = 0 THEN @[i] ELSE full[n]]]

Chunks(ids) == [n \in 1..((Len(ids) + ChunkSize - 1) \div ChunkSize) |->
                  SubSeq(ids, (n - 1) * ChunkSize + 1, IF n * ChunkSize < Len(ids) THEN n * ChunkSize ELSE Len(ids))]

Stage(r, asks) == [r EXCEPT !.at = "busy", !.parts = [i \in DOMAIN asks |-> Request(asks[i])]]
Done(r, out) == [r EXCEPT !.at = "done", !.parts = <<>>, !.keep = None, !.out = out]
Got(r, i) == r.parts[i].got
OrEmpty(got) == IF got = None THEN <<>> ELSE got

Started(r) ==
    CASE r.op \in {"track", "stream"} -> Stage(r, <<Ask("track", r.arg)>>)
      [] r.op = "batch"   -> Stage(r, [i \in DOMAIN r.arg |-> Ask("track", r.arg[i])])
      [] r.op = "album"   -> Stage(r, <<CASE r.arg.kind = "list" -> Ask("list", r.arg.id)
                                          [] r.arg.kind = "user" -> Ask("user", r.arg.id)
                                          [] r.arg.kind = "single" -> Ask("track", r.arg.id)>>)
      [] r.op = "artist"  -> Stage(r, <<Ask("user", r.arg)>>)
      [] r.op = "albums"  -> Stage(r, <<Ask("userLists", r.arg), Ask("userTracks", r.arg)>>)
      [] r.op = "similar" -> Stage(r, <<Ask("followings", r.arg)>>)
      [] r.op = "top"     -> Stage(r, <<Ask("userTracks", r.arg)>>)
      [] r.op = "radio"   -> Stage(r, <<Ask("related", r.arg)>>)
      [] r.op = "match"   -> Stage(r, <<AskAll("search", <<>>)>>)
      [] r.op = "search"  -> Stage(r, <<AskAll("search", <<>>), AskAll("searchLists", <<>>), AskAll("searchUsers", <<>>)>>)

\* GetAlbum: a list whose stubs are asked for chunk by chunk, until one fails; without such a list a track
AlbumGoesOn(r) ==
    LET ask == r.parts[1].ask
        got == Got(r, 1)
        next(l, full, left) == [Stage(r, <<AskAll("tracks", left[1])>>) EXCEPT !.keep = [list |-> l, full |-> full, left |-> Tail(left)]]
    IN  CASE ask.get = "list" /\ got = None -> Stage(r, <<AskAll("track", ask.of)>>)
          [] ask.get = "list" /\ got # None ->
               IF Stubs(got) = <<>> THEN Done(r, FullAlbum(got)) ELSE next(got, <<>>, Chunks(Stubs(got)))
          [] ask.get = "tracks" ->
               IF got = None THEN Done(r, FullAlbum(r.keep.list))
               ELSE IF r.keep.left = <<>> THEN Done(r, FullAlbum(Hydrated(r.keep.list, r.keep.full \o got)))
               ELSE next(r.keep.list, r.keep.full \o got, r.keep.left)
          [] ask.get = "user" -> [Stage(r, <<AskAll("userTracks", ask.of)>>) EXCEPT !.keep = got]
          [] ask.get = "userTracks" ->
               Done(r, IF OrEmpty(got) = <<>> THEN None
                       ELSE AllTracks(ask.of[1], IF r.keep = None THEN "Artist" ELSE Or(r.keep.name, "Artist"), got))
          [] ask.get = "track" -> Done(r, IF got = None THEN None ELSE Single(got))

\* GetSimilarArtists: who the artist follows, or else who is called the same
SimilarGoesOn(r) ==
    CASE r.parts[1].ask.get = "followings" ->
           IF OrEmpty(Got(r, 1)) # <<>> THEN Done(r, Artists(Got(r, 1))) ELSE Stage(r, <<Ask("user", r.arg)>>)
      [] r.parts[1].ask.get = "user" -> IF Got(r, 1) = None THEN Done(r, None) ELSE Stage(r, <<AskAll("searchUsers", <<>>)>>)
      [] r.parts[1].ask.get = "searchUsers" -> Done(r, Artists(OrEmpty(Got(r, 1))))

StreamGoesOn(r) ==
    IF r.parts[1].ask.get = "stream" THEN Done(r, IF Got(r, 1) \in {None, ""} THEN None ELSE Got(r, 1))
    ELSE IF Got(r, 1) = None \/ Got(r, 1).streams = <<>> THEN Done(r, None)
    ELSE Stage(r, <<AskAll("stream", <<r.arg, Selected(Got(r, 1).streams)>>)>>)

GoesOn(r) ==
    CASE r.op = "track"   -> Done(r, IF Got(r, 1) = None THEN None ELSE TrackChild(Got(r, 1)))
      [] r.op = "stream"  -> StreamGoesOn(r)
      [] r.op = "batch"   -> Done(r, TrackChildren(SelectSeq([i \in DOMAIN r.parts |-> Got(r, i)], LAMBDA t : t # None)))
      [] r.op = "album"   -> AlbumGoesOn(r)
      [] r.op = "artist"  -> Done(r, IF Got(r, 1) = None THEN None ELSE Artist(Got(r, 1)))
      [] r.op = "albums"  -> Done(r, ArtistAlbums(r.arg, OrEmpty(Got(r, 1)), OrEmpty(Got(r, 2))))
      [] r.op = "similar" -> SimilarGoesOn(r)
      [] r.op \in {"top", "radio"} -> Done(r, IF Got(r, 1) = None THEN None ELSE TrackChildren(Got(r, 1)))
      [] r.op = "search"  -> Done(r, [tracks |-> TrackChildren(OrEmpty(Got(r, 1))), albums |-> Albums(OrEmpty(Got(r, 2))),
                                      artists |-> Artists(OrEmpty(Got(r, 3)))])
      [] r.op = "match"   -> Done(r, IF Got(r, 1) = None THEN None ELSE Matched(r.arg, Got(r, 1)))

AllEnded(c) == call[c].at = "busy" /\ \A i \in DOMAIN call[c].parts : Part(c, i).at = "done"

Call(c) ==
    /\ call[c].at = "idle"
    /\ \E asked \in {a \in Asked : a.op # "import" /\ calls + a.cost <= MaxCalls} :
        /\ call' = [call EXCEPT ![c] = Started([Idle EXCEPT !.op = asked.op, !.arg = asked.arg])]
        /\ calls' = calls + asked.cost
    /\ UNCHANGED clients

GoOn(c) ==
    /\ AllEnded(c) /\ call[c].op # "import"
    /\ call' = [call EXCEPT ![c] = GoesOn(@)]
    /\ UNCHANGED <<clients, calls>>

\* A request of a call goes on
Requested(c) ==
    \E i \in DOMAIN call[c].parts :
        TakeKey(c, i) \/ Scrape(c, i) \/ Scraped(c, i) \/ Refused(c, i) \/ Clear(c, i) \/ Reply(c, i)

-----------------------------------------------------------------------------
\* Properties

(* getClientID and get: a request that was refused is made again with a key *)
(* that was looked for after the one it was refused, whatever other         *)
(* requests store and drop in the meantime.                                 *)
RetriedAnew ==
    \A c \in Callers : \A i \in DOMAIN call[c].parts :
        Now(c, i, "sent") => Part(c, i).key > Part(c, i).old

(* GetPlaylist and GetTracksBatch: the tracks of an album, of which some    *)
(* were only told by their ids, and of a list that is fetched all at once,  *)
(* stand where the list has them, in full if SoundCloud told them.          *)
TracksInPlace ==
    \A c \in Callers : call[c].at = "done" /\ call[c].out # None =>
        LET out == call[c].out arg == call[c].arg
        IN  /\ call[c].op = "album" /\ arg.kind = "list" /\ arg.id \in DOMAIN Lists /\ out.name = Lists[arg.id].title =>
                 \A i \in DOMAIN out.tracks : out.tracks[i].id = Lists[arg.id].tracks[i] /\ out.tracks[i].number = i
            /\ call[c].op = "batch" =>
                 \A i, j \in DOMAIN out : i < j =>
                     \E m, n \in DOMAIN arg : m < n /\ arg[m] = out[i].id /\ arg[n] = out[j].id

=============================================================================
