--------------------------- MODULE YouTubeCatalog ---------------------------
(***************************************************************************)
(* provider/ytmusic: what the YouTube Music provider knows of songs,       *)
(* albums and artists.  Every answer of YouTube is parsed into entries, and*)
(* whatever is parsed is remembered for good in three maps that all calls  *)
(* share; a call looks there before it asks.  A call is one step until it  *)
(* needs an answer, and one step for each answer it gets.                  *)
(*                                                                         *)
(* A text is the sequence of its words; " - " is the word "-".  An id is   *)
(* a string, empty when it is missing.  A row is what YouTube shows of a   *)
(* song: its video, its title, the runs of text below it (a name that may  *)
(* lead to an artist or an album, a time, or a word such as "song" or      *)
(* "views"), and whether it has a picture.  Years are left out.            *)
(***************************************************************************)
EXTENDS Integers, Sequences, FiniteSets, SequencesExt

CONSTANTS
    Callers,     \* requests
    MaxBatch,    \* the longest list of tracks asked for at once
    Slots,       \* how many of a list are fetched at once: 6 in the code
    TopLimit,    \* how many of an artist's songs the client wants
    MaxCalls,    \* bound: calls made
    Asked,       \* what may be called: [op, arg]
    Videos, AlbumIds, ArtistIds,  \* ids by their prefix: a video, MPRE.. or OLAK.., UC..
    Names,       \* artists' names, where the client has no id
    Latin,       \* words written in [a-z0-9]
    SearchPages, Panels, Details, AlbumPages, ArtistPages,  \* answers of YouTube
    None         \* no such thing

\* What is shown of a song, and a run of text below it; lengths are times that were parsed
Runs == [kind : {"name", "time", "label"}, text : Seq(STRING), browse : STRING, length : Int]
Rows == [video : STRING, title : Seq(STRING), runs : Seq(Runs), thumb : BOOLEAN, length : Int, index : Nat]

CatalogAssumption ==
    /\ \A asked \in Asked : asked.op \in {"search", "match", "track", "radio", "album", "artist", "albums",
                                         "top", "similar", "cover", "batch"}
    /\ MaxBatch \in Nat /\ Slots \in Nat \ {0} /\ MaxCalls \in Nat
    /\ Callers \cap (1..MaxBatch) = {}
    /\ \A asked \in Asked : asked.op = "match" => asked.arg.length \in Int
    /\ SearchPages \subseteq Seq([card : BOOLEAN, row : Rows])

VARIABLES
    trackCache,   \* video -> the entry remembered for it, or None
    albumCache,   \* album -> its entry, or None
    artistCache,  \* artist's id or name -> its details, or None
    call,         \* caller or fetcher -> its call: [op, arg, pc, on, pick, out]
    batch,        \* the list being fetched: [ids, res]
    calls         \* calls made so far

vars == <<trackCache, albumCache, artistCache, call, batch, calls>>

Fetchers == 1..MaxBatch
Procs == Callers \cup Fetchers
Tolerance == 4     \* ytDurationToleranceSeconds
NoText == <<>>
Placeholders == {<<"song">>, <<"video">>, <<"topic">>, <<"unknownartist">>}

Idle == [op |-> "none", arg |-> None, pc |-> "idle", on |-> "", pick |-> None, out |-> None]

Init ==
    /\ trackCache = [v \in Videos |-> None]
    /\ albumCache = [a \in AlbumIds |-> None]
    /\ artistCache = [a \in ArtistIds \cup Names |-> None]
    /\ call = [p \in Procs |-> Idle]
    /\ batch = [ids |-> <<>>, res |-> <<>>]
    /\ calls = 0

-----------------------------------------------------------------------------
\* Parsing

Latest(indexes) == {i \in indexes : \A j \in indexes : j <= i}

Having(runs, ids) == SelectSeq(runs, LAMBDA r : r.browse \in ids)
Named(runs) == SelectSeq(runs, LAMBDA r : r.kind = "name")
HeadText(runs) == IF runs = <<>> THEN NoText ELSE runs[1].text
HeadBrowse(runs) == IF runs = <<>> THEN "" ELSE runs[1].browse
LastTime(runs) ==
    LET last == Latest({i \in DOMAIN runs : runs[i].kind = "time"})
    IN  IF last = {} THEN 0 ELSE runs[CHOOSE i \in last : TRUE].length

\* "Artist - Title": where a video's title names its artist
Dash(title) == SelectInSeq(title, LAMBDA w : w = "-")
HasDash(title) == Dash(title) > 1 /\ Dash(title) < Len(title)
BeforeDash(title) == SubSeq(title, 1, Dash(title) - 1)
AfterDash(title) == SubSeq(title, Dash(title) + 1, Len(title))

Song(row, artist, artistId, album, albumId, length) ==
    [video |-> row.video, title |-> row.title, artist |-> artist, artistId |-> artistId,
     album |-> album, albumId |-> albumId, length |-> length, number |-> 0, thumb |-> row.thumb]

\* The top result: its first name is the artist, but the title knows better
CardSong(row) ==
    LET names == Named(row.runs)
        song == Song(row, HeadText(names), HeadBrowse(names), NoText, "", LastTime(row.runs))
    IN  IF HasDash(row.title) /\ song.artist # BeforeDash(row.title)
        THEN [song EXCEPT !.artist = BeforeDash(row.title), !.title = AfterDash(row.title)] ELSE song

\* A row of a list: artist and album are what leads to one
FlexSong(row) ==
    LET artists == Having(row.runs, ArtistIds)
        albums == Having(row.runs, AlbumIds)
        artist == IF artists # <<>> THEN artists[1].text ELSE HeadText(Named(row.runs))
        song == Song(row, artist, HeadBrowse(artists), HeadText(albums), HeadBrowse(albums), LastTime(row.runs))
    IN  IF HasDash(row.title) /\ artist \in {NoText, <<"song">>, <<"video">>}
        THEN [song EXCEPT !.artist = BeforeDash(row.title), !.title = AfterDash(row.title)] ELSE song

\* An entry of the "next" panel: without links, the first text is the artist, the second the album
PanelSong(row, video) ==
    LET artists == Having(row.runs, ArtistIds)
        albums == Having(row.runs, AlbumIds)
        text(i) == IF Len(row.runs) >= i THEN row.runs[i].text ELSE NoText
    IN  [Song(row, IF artists # <<>> THEN artists[1].text ELSE text(1), HeadBrowse(artists),
              IF albums # <<>> THEN albums[1].text ELSE IF text(2) = <<"views">> THEN NoText ELSE text(2),
              HeadBrowse(albums), row.length)
            EXCEPT !.video = IF @ = "" THEN video ELSE @]

Firsts(s, n) == IF Len(s) <= n THEN s ELSE SubSeq(s, 1, n)

Usable(row) == row.video # "" /\ row.title # NoText

\* A page of results, a card or a row at a time; the limit stops a row, never a card
Shown(seen, item, limit) ==
    IF seen.full \/ ~ Usable(item.row) THEN seen
    ELSE LET songs == Append(seen.songs, IF item.card THEN CardSong(item.row) ELSE FlexSong(item.row))
         IN  [songs |-> songs, full |-> ~ item.card /\ Len(songs) >= limit]
Results(page, limit) ==
    LET shown[i \in 0..Len(page)] ==
            IF i = 0 THEN [songs |-> <<>>, full |-> FALSE]
            ELSE Shown(shown[i - 1], page[i], IF limit > 0 THEN limit ELSE 25)
    IN  shown[Len(page)].songs

\* Everything in the panel but the song itself
Radio(panel, seed, limit) ==
    LET rows == SelectSeq(panel, LAMBDA row : Usable(row) /\ row.video # seed)
        kept == Firsts(rows, limit)
    IN  [i \in DOMAIN kept |-> PanelSong(kept[i], "")]

\* The tracks of an album's page have the album's name, picture and, unless they say, artist
AlbumSongs(id, page) ==
    LET rows == SelectSeq(page.rows, Usable)
        artists(row) == Having(row.runs, ArtistIds)
    IN  [i \in DOMAIN rows |->
            [Song(rows[i], IF artists(rows[i]) # <<>> THEN artists(rows[i])[1].text ELSE page.artist,
                  IF artists(rows[i]) # <<>> THEN artists(rows[i])[1].browse ELSE page.artistId,
                  page.title, id, rows[i].length)
                EXCEPT !.thumb = page.thumb, !.number = IF rows[i].index > 0 THEN rows[i].index ELSE i]]

AlbumEntry(id, title, artist, artistId, thumb) ==
    [id |-> id, title |-> title, artist |-> artist, artistId |-> artistId, thumb |-> thumb]

\* An artist's page: without a header the name is what was asked for
ArtistName(key, page) == IF page.name = NoText THEN <<key>> ELSE page.name

\* A carousel of albums or singles
AlbumCards(rows, name, id) ==
    [i \in DOMAIN rows |-> AlbumEntry(rows[i].id, rows[i].title, name, id, rows[i].thumb)]

\* The song shelf: numbers count the rows that are left out too
TopSongs(rows, name, id) ==
    LET songs == SelectSeq([i \in DOMAIN rows |-> [rows[i] EXCEPT !.index = i]], Usable)
        album(i) == Having(songs[i].runs, AlbumIds)
        time(i) == LastTime(songs[i].runs)
    IN  [i \in DOMAIN songs |->
            [Song(songs[i], name, id, IF album(i) = <<>> THEN NoText ELSE Last(album(i)).text,
                  IF album(i) = <<>> THEN "" ELSE Last(album(i)).browse,
                  IF time(i) = 0 THEN songs[i].length ELSE time(i)) EXCEPT !.number = songs[i].index]]

ArtistDetail(id, key, page) ==
    LET name == ArtistName(key, page)
    IN  [id |-> id, name |-> name, thumb |-> page.thumb, top |-> TopSongs(page.songs, name, id),
         albums |-> AlbumCards(page.albums, name, id), singles |-> AlbumCards(page.singles, name, id),
         similar |-> page.similar]

-----------------------------------------------------------------------------
\* What is remembered: the last entry parsed for a video or an album

Remember(cache, songs) ==
    [v \in Videos |-> LET last == Latest({i \in DOMAIN songs : songs[i].video = v})
                      IN  IF last = {} THEN cache[v] ELSE songs[CHOOSE i \in last : TRUE]]
RememberAlbums(cache, albums) ==
    [a \in AlbumIds |-> LET last == Latest({i \in DOMAIN albums : albums[i].id = a})
                        IN  IF last = {} THEN cache[a] ELSE albums[CHOOSE i \in last : TRUE]]

\* trackToSpec: what is missing is filled in
TrackChild(t) ==
    [video |-> t.video, title |-> t.title, length |-> t.length, number |-> t.number, thumb |-> t.thumb,
     artist |-> IF t.artist = NoText THEN <<"unknown", "artist">> ELSE t.artist,
     artistId |-> IF t.artistId = "" THEN t.artist ELSE t.artistId,
     album |-> IF t.album = NoText THEN t.title \o <<"single">> ELSE t.album,
     albumId |-> IF t.albumId = "" THEN t.video ELSE t.albumId]
TrackChildren(songs) == [i \in DOMAIN songs |-> TrackChild(songs[i])]

Album(entry, songs) ==
    [id |-> entry.id, title |-> entry.title, artistId |-> entry.artistId, tracks |-> TrackChildren(songs)]

\* A song without an album is one of its own
SingleAlbum(video, t) ==
    [id |-> video, title |-> IF t.album = NoText THEN t.title \o <<"single">> ELSE t.album,
     artistId |-> t.artistId, tracks |-> <<[TrackChild(t) EXCEPT !.number = 1]>>]

-----------------------------------------------------------------------------
\* Matching a song of another provider

Normal(text) == SelectSeq(text, LAMBDA w : w \in Latin)
Part(a, b) == \E i \in 0..(Len(b) - Len(a)) : SubSeq(b, i + 1, i + Len(a)) = a
EitherPart(a, b) == Part(a, b) \/ Part(b, a)

SameTrack(want, t) ==
    LET title == Normal(t.title) artist == Normal(t.artist)
        wantTitle == Normal(want.title) wantArtist == Normal(want.artist)
    IN  /\ wantTitle # NoText /\ title # NoText
        /\ EitherPart(title, wantTitle)
        /\ artist \notin Placeholders
        /\ IF wantArtist = NoText \/ artist = NoText THEN title = wantTitle
           ELSE EitherPart(artist, wantArtist)

\* Mutant: the difference keeps its sign, so a much shorter song is close
DistanceSigned(a, b) == a - b

Distance(a, b) == IF a > b THEN a - b ELSE b - a

Untold(want, t) == want.length <= 0 \/ t.length <= 0

\* The loop over the results, which are told by their places: the first of the
\* closest, how far it is away, and the first nobody tells the length of
Weigh(want, songs, seen, i) ==
    LET away == Distance(songs[i].length, want.length)
    IN  IF ~ SameTrack(want, songs[i]) THEN seen
        ELSE IF Untold(want, songs[i]) THEN [seen EXCEPT !.untold = IF @ = 0 THEN i ELSE @]
        ELSE IF away <= Tolerance /\ (seen.best = 0 \/ away < seen.away)
             THEN [seen EXCEPT !.best = i, !.away = away]
        ELSE seen
Weighed(want, songs) ==
    LET seen[i \in 0..Len(songs)] ==
            IF i = 0 THEN [best |-> 0, away |-> 0, untold |-> 0] ELSE Weigh(want, songs, seen[i - 1], i)
    IN  seen[Len(songs)]

-----------------------------------------------------------------------------
\* Calls

Done(r, out) == [r EXCEPT !.pc = "done", !.on = "", !.pick = None, !.out = out]
Asks(r, pc, id) == [r EXCEPT !.pc = pc, !.on = id]
Set(p, r) == call' = [call EXCEPT ![p] = r]

\* How an artist's details answer the call
ArtistAnswer(r, d) ==
    CASE r.op = "artist"  -> [id |-> d.id, name |-> d.name, count |-> Len(d.albums) + Len(d.singles)]
      [] r.op = "albums"  -> [albums |-> d.albums \o d.singles, tracks |-> TrackChildren(d.top)]
      [] r.op = "top"     -> TrackChildren(Firsts(d.top, TopLimit))
      [] r.op = "similar" -> d.similar
      [] r.op = "cover"   -> d.thumb

\* GetArtist, once the id is known: nothing is asked when it, or the name, is remembered
KnownArtist(id, key) == IF artistCache[id] # None THEN artistCache[id] ELSE artistCache[key]
SeekArtist(r, id, key) ==
    IF KnownArtist(id, key) # None THEN Done(r, ArtistAnswer(r, KnownArtist(id, key)))
    ELSE Asks(r, "artistPage", id)

\* The picture of a thing: a remembered one, or its page is asked for
Pictured(entry) == entry # None /\ entry.thumb
Cover(r, id) ==
    IF \/ id \in Videos /\ Pictured(trackCache[id])
       \/ id \in AlbumIds /\ Pictured(albumCache[id])
       \/ id \in ArtistIds /\ Pictured(artistCache[id])
    THEN Done(r, TRUE)
    ELSE IF id \in AlbumIds THEN Asks(r, "albumPage", id)
    ELSE IF id \in ArtistIds THEN SeekArtist(r, id, id)
    ELSE Done(r, FALSE)

Started(r) ==
    CASE r.op \in {"search", "match"} -> Asks(r, "search", "")
      [] r.op \in {"track", "item"}   -> Asks(r, "lookup", r.arg)
      [] r.op = "album"  -> Asks(r, IF r.arg \in AlbumIds THEN "albumPage" ELSE "lookup", r.arg)
      [] r.op = "radio"  -> Asks(r, "radio", r.arg)
      [] r.op = "cover"  -> Cover(r, r.arg)
      [] r.op \in {"artist", "albums", "top", "similar"} ->
            IF r.arg \in ArtistIds THEN SeekArtist(r, r.arg, r.arg) ELSE Asks(r, "resolve", r.arg)

Call(c) ==
    /\ call[c].pc \in {"idle", "done"} /\ calls < MaxCalls
    /\ \E asked \in Asked : asked.op # "batch" /\ Set(c, Started([Idle EXCEPT !.op = asked.op, !.arg = asked.arg]))
    /\ calls' = calls + 1
    /\ UNCHANGED <<trackCache, albumCache, artistCache, batch>>

-----------------------------------------------------------------------------
\* What a call does with a track it looked up, or could not find

\* GetAlbum of a video: the album it says it is on, or itself; of anything else: its page
AlbumOfTrack(r, t) ==
    IF t = None THEN Asks(r, "albumPage", r.arg)
    ELSE IF t.albumId \in AlbumIds THEN [Asks(r, "albumPage", t.albumId) EXCEPT !.pick = t]
    ELSE Done(r, SingleAlbum(r.arg, t))

\* The match nobody told the length of: refused only if the looked up length is known and wrong
Verified(r, t) ==
    IF t # None /\ t.length > 0 /\ Distance(t.length, r.arg.length) > Tolerance
    THEN Done(r, [r.pick EXCEPT !.got = None]) ELSE Done(r, r.pick)

WithTrack(r, t) ==
    CASE r.op \in {"track", "item"} -> Done(r, IF t = None THEN None ELSE TrackChild(t))
      [] r.op = "album" -> AlbumOfTrack(r, t)
      [] r.op = "match" -> Verified(r, t)

\* Mutant: a track goes to the first free place of the list
DeliverNext(p, r) ==
    IF p \in Fetchers /\ r.pc = "done"
    THEN /\ Set(p, Idle)
         /\ batch' = [batch EXCEPT !.res = LET i == SelectInSeq(@, LAMBDA t : t = None)
                                           IN  IF r.out = None THEN @ ELSE [@ EXCEPT ![i] = r.out]]
    ELSE Set(p, r) /\ UNCHANGED batch

\* Where a track ends up: the caller's answer, or its place in the list that is fetched
Deliver(p, r) ==
    IF p \in Fetchers /\ r.pc = "done"
    THEN Set(p, Idle) /\ batch' = [batch EXCEPT !.res[p] = r.out]
    ELSE Set(p, r) /\ UNCHANGED batch

\* GetTrack: what is remembered is the answer
Lookup(p) ==
    /\ call[p].pc = "lookup"
    /\ LET v == call[p].on
           t == IF v \in Videos THEN trackCache[v] ELSE None
       IN  Deliver(p, IF t # None THEN WithTrack(call[p], t) ELSE Asks(call[p], "next", v))
    /\ UNCHANGED <<trackCache, albumCache, artistCache, calls>>

Keep(v, t) == trackCache' = IF v \in Videos THEN [trackCache EXCEPT ![v] = t] ELSE trackCache

\* fetchTrackViaNext: the first entry of the panel, which is the video, or on to the player
NextPanel(p) ==
    /\ call[p].pc = "next"
    /\ \/ /\ Deliver(p, Asks(call[p], "player", call[p].on)) /\ UNCHANGED trackCache
       \/ \E panel \in Panels :
            /\ panel # <<>> /\ panel[1].title # NoText /\ panel[1].video \in {"", call[p].on}
            /\ LET t == PanelSong(panel[1], call[p].on)
               IN  Deliver(p, WithTrack(call[p], t)) /\ Keep(call[p].on, t)
    /\ UNCHANGED <<albumCache, artistCache, calls>>

\* fetchTrackViaPlayer: whatever it answers is kept, an answer without a video too
Player(p) ==
    /\ call[p].pc = "player"
    /\ \/ /\ Deliver(p, WithTrack(call[p], None)) /\ UNCHANGED trackCache
       \/ \E d \in Details :
            /\ d.video \in {"", call[p].on}
            /\ LET t == Song(d, d.author, d.channel, NoText, "", d.length)
               IN  Deliver(p, WithTrack(call[p], t)) /\ Keep(call[p].on, t)
    /\ UNCHANGED <<albumCache, artistCache, calls>>

-----------------------------------------------------------------------------
\* Searches, recommendations

\* What a match makes of the results, which its answer is kept with
Matched(r, songs) ==
    LET seen == Weighed(r.arg, songs)
        answer(i) == [got |-> IF i = 0 THEN None ELSE songs[i], among |-> songs]
    IN  IF seen.best # 0 THEN Done(r, answer(seen.best))
        ELSE IF seen.untold # 0 /\ r.arg.length > 0
             THEN [Asks(r, "lookup", songs[seen.untold].video) EXCEPT !.pick = answer(seen.untold)]
        ELSE Done(r, answer(seen.untold))

SearchComes(c) ==
    /\ call[c].pc = "search"
    /\ \/ Set(c, Done(call[c], None)) /\ UNCHANGED trackCache
       \/ \E page \in SearchPages :
            LET songs == Results(page, IF call[c].op = "match" THEN 5 ELSE call[c].arg)
            IN  /\ trackCache' = Remember(trackCache, songs)
                /\ Set(c, IF call[c].op = "match" THEN Matched(call[c], songs) ELSE Done(call[c], TrackChildren(songs)))
    /\ UNCHANGED <<albumCache, artistCache, batch, calls>>

RadioComes(c) ==
    /\ call[c].pc = "radio"
    /\ \/ Set(c, Done(call[c], None)) /\ UNCHANGED trackCache
       \/ \E panel \in Panels :
            LET songs == Radio(panel, call[c].on, 50)
            IN  trackCache' = Remember(trackCache, songs) /\ Set(c, Done(call[c], TrackChildren(songs)))
    /\ UNCHANGED <<albumCache, artistCache, batch, calls>>

-----------------------------------------------------------------------------
\* Albums and artists

NoAlbum(r) ==
    Done(r, CASE r.op = "cover" -> FALSE
              [] r.op # "cover" /\ r.pick # None -> SingleAlbum(r.arg, r.pick)
              [] r.op # "cover" /\ r.pick = None -> None)
WithAlbum(r, entry, songs) ==
    IF r.op = "cover" THEN Done(r, entry.thumb)
    ELSE IF r.pick # None /\ songs = <<>> THEN NoAlbum(r)
    ELSE Done(r, Album(entry, songs))

\* The page of an album is asked for every time
AlbumPageComes(c) ==
    /\ call[c].pc = "albumPage"
    /\ \/ Set(c, NoAlbum(call[c])) /\ UNCHANGED <<trackCache, albumCache>>
       \/ \E page \in AlbumPages :
            LET id == call[c].on
                entry == AlbumEntry(id, page.title, page.artist, page.artistId, page.thumb)
                songs == AlbumSongs(id, page)
            IN  /\ trackCache' = Remember(trackCache, songs)
                /\ albumCache' = IF page.title # NoText THEN RememberAlbums(albumCache, <<entry>>) ELSE albumCache
                /\ Set(c, WithAlbum(call[c], entry, songs))
    /\ UNCHANGED <<artistCache, batch, calls>>

\* ResolveArtistID: any artist the search mentions; without one the name itself is browsed
ResolveArtistID(c) ==
    /\ call[c].pc = "resolve"
    /\ \E id \in ArtistIds \cup {call[c].on} : Set(c, SeekArtist(call[c], id, call[c].on))
    /\ UNCHANGED <<trackCache, albumCache, artistCache, batch, calls>>

\* GetArtist: the details are kept under the id and under the name that was asked for
ArtistPageComes(c) ==
    /\ call[c].pc = "artistPage"
    /\ \/ Set(c, Done(call[c], IF call[c].op = "cover" THEN FALSE ELSE None)) /\ UNCHANGED <<trackCache, albumCache, artistCache>>
       \/ \E page \in ArtistPages :
            LET d == ArtistDetail(call[c].on, call[c].arg, page)
            IN  /\ trackCache' = Remember(trackCache, d.top)
                /\ albumCache' = RememberAlbums(albumCache, d.albums \o d.singles)
                /\ artistCache' = [artistCache EXCEPT ![call[c].on] = d, ![call[c].arg] = d]
                /\ Set(c, Done(call[c], ArtistAnswer(call[c], d)))
    /\ UNCHANGED <<batch, calls>>

-----------------------------------------------------------------------------
\* GetTracksBatch: a fetcher for every id, a few at a time, each with its place in the answer

StartBatch(c) ==
    /\ call[c].pc \in {"idle", "done"} /\ calls < MaxCalls
    /\ \A p \in Callers : call[p].pc # "batch"
    /\ \E asked \in Asked :
        /\ asked.op = "batch"
        /\ batch' = [ids |-> asked.arg, res |-> [i \in DOMAIN asked.arg |-> None]]
        /\ call' = [p \in Procs |->
                      IF p = c THEN [Idle EXCEPT !.op = "batch", !.pc = "batch"]
                      ELSE IF p \in DOMAIN asked.arg THEN [Idle EXCEPT !.op = "item", !.arg = asked.arg[p], !.pc = "slot"]
                      ELSE call[p]]
    /\ calls' = calls + 1
    /\ UNCHANGED <<trackCache, albumCache, artistCache>>

\* Mutant: a fetcher that waits counts as one that fetches
HoldingAll == {f \in Fetchers : call[f].pc # "idle"}

Holding == {f \in Fetchers : call[f].pc \in {"lookup", "next", "player"}}

TakeSlot(f) ==
    /\ call[f].pc = "slot" /\ Cardinality(Holding) < Slots
    /\ Set(f, Started(call[f]))
    /\ UNCHANGED <<trackCache, albumCache, artistCache, batch, calls>>

BatchDone(c) ==
    /\ call[c].pc = "batch" /\ \A f \in Fetchers : call[f].pc = "idle"
    /\ Set(c, Done(call[c], batch.res))
    /\ UNCHANGED <<trackCache, albumCache, artistCache, batch, calls>>

-----------------------------------------------------------------------------
Track(p) == Lookup(p) \/ NextPanel(p) \/ Player(p)
Answered(c) ==
    \/ SearchComes(c) \/ RadioComes(c) \/ AlbumPageComes(c)
    \/ ResolveArtistID(c) \/ ArtistPageComes(c) \/ BatchDone(c)

Next ==
    \/ \E c \in Callers : Call(c) \/ StartBatch(c) \/ Answered(c)
    \/ \E f \in Fetchers : TakeSlot(f)
    \/ \E p \in Procs : Track(p)

Spec == Init /\ [][Next]_vars

\* Every request to YouTube ends: the HTTP client gives up after ten seconds
Step(p) == Track(p) \/ (p \in Callers /\ Answered(p)) \/ (p \in Fetchers /\ TakeSlot(p))
FairSpec == Spec /\ \A p \in Procs : WF_vars(Step(p))

-----------------------------------------------------------------------------
\* Properties

Around(want, d) == (want.length - d)..(want.length + d)
Close(want, t) == SameTrack(want, t) /\ ~ Untold(want, t) /\ t.length \in Around(want, Tolerance)
Answers(c) == call[c].op = "match" /\ call[c].pc = "done" /\ call[c].out # None

\* The closest of those that are close; one of unknown length if none is
Trusted(want, got, among) ==
    IF \E i \in DOMAIN among : Close(want, among[i])
    THEN \E i \in DOMAIN among :
            /\ among[i] = got /\ Close(want, got)
            /\ \A j \in DOMAIN among, d \in 0..Tolerance :
                Close(want, among[j]) /\ among[j].length \in Around(want, d) => got.length \in Around(want, d)
    ELSE got # None => SameTrack(want, got) /\ Untold(want, got)

(* MatchTrackByMetadata answers with what plausibly is the song: of the     *)
(* results of the right length the closest one; a result of unknown length *)
(* only when there is none; and nothing only when there is neither, or the *)
(* length that was looked up is wrong.                                     *)
MatchTrusted ==
    \A c \in Callers : Answers(c) => Trusted(call[c].arg, call[c].out.got, call[c].out.among)

(* GetTracksBatch: whatever order the fetchers end in, a track stands where *)
(* its id stood in the list (or is the blank one the player may answer).    *)
BatchInOrder ==
    \A i \in DOMAIN batch.res : batch.res[i] # None => batch.res[i].video \in {batch.ids[i], ""}

(* No call is left, nor a fetcher that waits for a slot.                    *)
Over == \A p \in Procs : call[p].pc \in {"idle", "done"}

(* ytmusic.go:508 "verify the real duration first, otherwise a 1-hour loop  *)
(* with a matching title slips through": a match of unknown length is not   *)
(* answered before YouTube was asked for its length.                        *)
RealDurationVerified ==
    [][\A c \in Callers :
         (call[c].op = "match" /\ call[c].pc = "lookup" /\ trackCache[call[c].on].length = 0)
            => call'[c].pc # "done"]_vars

=============================================================================
