--------------------------- MODULE ImportSources ---------------------------
(***************************************************************************)
(* internal/importer: what StartImport does before a job begins, that is   *)
(* how each service's playlist is fetched and what is made of its answers, *)
(* and findTrack, which decides for every track of it where it will be     *)
(* streamed from.  The job around findTrack is in Playlists.               *)
(*                                                                         *)
(* One importer per service serves all imports; Spotify's keeps one token  *)
(* for all of them.  SoundCloud's uses the client of module SoundCloud; a  *)
(* request to another service is answered or it fails.                     *)
(*                                                                         *)
(* A text is None when the answer has no such field, and "" when it is     *)
(* empty.  What a search finds is [id, score, withAlbum, same]: how well   *)
(* matchutil finds it to match, in percent, without and with the album, and*)
(* how much the titles are the same.                                       *)
(***************************************************************************)
EXTENDS SoundCloud

CONSTANTS
    Services,       \* the services in the order the registry asks them
    EmbedPages,     \* Spotify's page of a playlist: [token, entity]
    SpotifyLists,   \* spclient's answers: [title, items]
    SpotifyTracks,  \* id -> the entity on a track's page
    DeezerPages,    \* [known, title, tracks]
    TidalLists,     \* the proxy's answers
    TidalErrors,    \* its errors: [mentions]
    TidalPages,     \* tidal.com's page: [info, state, linked]
    BrowsePages,    \* YouTube's page: [title, shelves]
    Finds           \* what the providers answer when a track is looked for

\* What a search gives: a track of Tidal, and how well it matches in percent
Matches == [id : Nat \ {0}, score : 0..100, withAlbum : 0..100, same : 0..100]

ASSUME ServicesAssumption == Range(Services) \subseteq {"spotify", "deezer", "tidal", "youtube", "soundcloud"}
ASSUME FindsAssumption ==
    /\ None \notin Matches
    /\ \A ask \in Finds :
        /\ \A found \in {ask.byArtist, ask.byAlbum, ask.byTitle} : found = None \/ found \in Seq(Matches)
        /\ ask.matches \subseteq {"sp", "yt", "sc"}

VARIABLE token  \* Spotify's token, as the number of the import that stored it, 0 if there is none

vars == <<clients, call, calls, token>>

\* Where the importer gives up on the proxy and reads the web page
Turned == {"400", "401", "403", "404", "upstream api error", "all"}

-----------------------------------------------------------------------------
\* Tracks

FirstText(texts) == LET told == SelectSeq(texts, LAMBDA t : t # None) IN IF told = <<>> THEN "" ELSE told[1]
FirstFull(texts) == LET told == SelectSeq(texts, LAMBDA t : t \notin {None, ""}) IN IF told = <<>> THEN "" ELSE told[1]

\* ImportedTrack, with the entry of the source it was made of
Imported(of, title, artist, album) ==
    [of |-> of, title |-> title, artist |-> artist, album |-> album, isrc |-> "", tidal |-> 0, uri |-> "", length |-> 0]

\* parseTrack: getString's last key is no default, so a track without a title has none
SpotifyTrack(t) ==
    Imported(t.id, FirstText(<<t.title, t.name>>), IF t.artists = "" THEN FirstText(<<t.artist>>) ELSE t.artists,
             FirstFull(<<t.album, t.albumName>>))
Placeholder(id) == Imported(id, "Track", "Unknown", "")
DeezerTrack(t) == [Imported(t.id, FirstText(<<t.title>>), FirstText(<<t.artist>>), FirstText(<<t.album>>)) EXCEPT !.isrc = t.isrc]
TidalTrack(t) ==
    [Imported(t.id, FirstText(<<t.title>>), IF FirstText(<<t.artist>>) = "" /\ t.artists # <<>> THEN t.artists[1] ELSE FirstText(<<t.artist>>),
              FirstText(<<t.album>>)) EXCEPT !.isrc = t.isrc, !.tidal = t.id]
WebTrack(t) ==
    [Imported(t.id, FirstText(<<t.title, t.name>>), IF t.artist # None THEN t.artist ELSE IF t.artists # <<>> THEN t.artists[1] ELSE "",
              FirstText(<<t.album, t.albumName>>)) EXCEPT !.isrc = t.isrc]
LinkedTrack(t) == Imported(t.id, FirstText(<<t.name>>), FirstText(<<t.artist>>), FirstText(<<t.album>>))

\* parseTrackItem: the first run is the artist, the last one the album
VideoTrack(row) ==
    [Imported(row.id, FirstText(<<row.title>>), IF row.artists = <<>> THEN "" ELSE row.artists[1],
              IF Len(row.artists) < 2 THEN "" ELSE Last(row.artists))
        EXCEPT !.uri = IF row.video THEN "yt" ELSE "", !.length = row.length]
IsTrack(row) == LET t == VideoTrack(row) IN t.title # "" /\ (t.uri # "" \/ t.artist # "")
CloudTrack(t, artist, album) ==
    [Imported(t.id, t.title, Or(NameOf(t.user), artist), album) EXCEPT !.uri = "sc", !.length = t.length]

All(Make(_), ts) == [i \in DOMAIN ts |-> Make(ts[i])]

-----------------------------------------------------------------------------
\* An import: fetched, it looks for each of its tracks

\* listed: the playlist's songs
NoKeep == [listed |-> <<>>, left |-> <<>>, tracks |-> <<>>, title |-> ""]
PlainRequest(ask) == [Request(ask) EXCEPT !.at = "asked"]
Plain(r, get, of) == [r EXCEPT !.at = "busy", !.parts = <<PlainRequest(Ask(get, of))>>]
Failed(r) == Done(r, None)
Ids(ts) == [i \in DOMAIN ts |-> ts[i].id]
\* shelves: history, the ids the source listed, several lists if their order is open
Fetched(r, title, tracks, shelves) ==
    [r EXCEPT !.at = IF tracks = <<>> THEN "done" ELSE "listed", !.parts = <<>>, !.keep = None,
              !.out = [title |-> title, tracks |-> tracks, shelves |-> shelves, found |-> <<>>]]

\* Registry.Find: the first service that knows links of this kind
Find(url) == SelectSeq(Services, LAMBDA s : s \in url.matches)

StartImport(c) ==
    /\ call[c].at = "idle"
    /\ \E asked \in {a \in Asked : a.op = "import" /\ calls + a.cost <= MaxCalls} :
        LET r == [Idle EXCEPT !.op = "import", !.arg = asked.arg, !.keep = NoKeep]
        IN  /\ calls' = calls + asked.cost
            /\ call' = [call EXCEPT ![c] =
                IF Find(asked.arg) = <<>> THEN Failed(r)
                ELSE CASE Find(asked.arg)[1] = "spotify"    -> Plain(r, "token", calls + 1)
                       [] Find(asked.arg)[1] = "deezer"     -> Plain(r, "deezer", 0)
                       [] Find(asked.arg)[1] = "tidal"      -> Plain(r, "tidal", 0)
                       [] Find(asked.arg)[1] = "youtube"    -> Plain(r, "browse", 0)
                       [] OTHER                             -> [Stage(r, <<Ask("resolve", asked.arg.to)>>) EXCEPT !.keep = None]]
    /\ UNCHANGED <<clients, token>>

PlainAnswers(ask) ==
    CASE ask.get \in {"token", "embed"} -> EmbedPages
      [] ask.get = "spclient" -> SpotifyLists
      [] ask.get = "page"     -> {SpotifyTracks[t] : t \in DOMAIN SpotifyTracks \cap {ask.of[1]}}
      [] ask.get = "deezer"   -> DeezerPages
      [] ask.get = "tidal"    -> TidalLists \cup TidalErrors
      [] ask.get = "web"      -> TidalPages
      [] ask.get = "browse"   -> BrowsePages

PlainReply(c) ==
    /\ Now(c, 1, "asked")
    /\ \E got \in PlainAnswers(Part(c, 1).ask) \cup {None} : SetPart(c, 1, Ended(Part(c, 1), got))
    /\ UNCHANGED <<clients, calls, token>>

Answered(c, get) == AllEnded(c) /\ call[c].op = "import" /\ Part(c, 1).ask.get = get
Goes(c, r) == call' = [call EXCEPT ![c] = r] /\ UNCHANGED <<clients, calls>>

-----------------------------------------------------------------------------
\* Spotify: a token, the list, and a page for every track

FetchToken(c) ==
    /\ Answered(c, "token")
    /\ LET page == Got(call[c], 1)
       IN  IF page = None \/ ~ page.token THEN Goes(c, Failed(call[c])) /\ UNCHANGED token
           ELSE /\ Goes(c, [call[c] EXCEPT !.at = "ready", !.parts = <<>>])
                /\ token' = Part(c, 1).ask.of[1]

\* The list is asked for with whatever token is there by now
AskSpclient(c) ==
    /\ call[c].at = "ready"
    /\ Goes(c, Plain(call[c], "spclient", token)) /\ UNCHANGED token

NextPage(r) ==
    IF r.keep.left = <<>> THEN Fetched(r, r.keep.title, r.keep.tracks, {r.keep.listed})
    ELSE [Plain(r, "page", Head(r.keep.left)) EXCEPT !.keep.left = Tail(@)]

\* What is no track, such as an episode, is left out; without the list the embedded page is read
SpotifyList(c) ==
    /\ Answered(c, "spclient")
    /\ LET list == Got(call[c], 1)
           songs(items) == SelectSeq(items, LAMBDA i : i \in DOMAIN SpotifyTracks)
       IN  Goes(c, IF list = None THEN [Plain(call[c], "embed", 0) EXCEPT !.keep = None]
                   ELSE NextPage([call[c] EXCEPT !.keep.left = songs(list.items), !.keep.listed = songs(list.items),
                                                         !.keep.title = list.title]))
    /\ UNCHANGED token

\* A track whose page cannot be read is there by its id
SpotifyPage(c) ==
    /\ Answered(c, "page")
    /\ LET t == Got(call[c], 1)
           track == IF t = None THEN Placeholder(Part(c, 1).ask.of[1]) ELSE SpotifyTrack(t)
       IN  Goes(c, NextPage([call[c] EXCEPT !.keep.tracks = Append(@, track)]))
    /\ UNCHANGED token

SpotifyEmbed(c) ==
    /\ Answered(c, "embed")
    /\ LET page == Got(call[c], 1)
       IN  Goes(c, IF page = None \/ page.entity = None THEN Failed(call[c])
                   ELSE Fetched(call[c], page.entity.title, All(SpotifyTrack, page.entity.tracks), {Ids(page.entity.tracks)}))
    /\ UNCHANGED token

-----------------------------------------------------------------------------
\* Deezer, Tidal, YouTube, SoundCloud

Deezer(c) ==
    /\ Answered(c, "deezer")
    /\ LET page == Got(call[c], 1)
       IN  Goes(c, IF page = None \/ (~ page.known /\ page.title = "") THEN Failed(call[c])
                   ELSE Fetched(call[c], page.title, All(DeezerTrack, page.tracks), {Ids(page.tracks)}))
    /\ UNCHANGED token

\* An error that does not mention a refusal ends the import
TidalProxy(c) ==
    /\ Answered(c, "tidal")
    /\ LET list == Got(call[c], 1)
       IN  Goes(c, IF list \in TidalLists THEN Fetched(call[c], list.title, All(TidalTrack, list.tracks), {Ids(list.tracks)})
                   ELSE IF list \in TidalErrors /\ list.mentions \cap Turned # {} THEN Plain(call[c], "web", 0)
                   ELSE Failed(call[c]))
    /\ UNCHANGED token

\* parseWebData: the page's state, or what it tells search engines
TidalWeb(c) ==
    /\ Answered(c, "web")
    /\ LET page == Got(call[c], 1)
       IN  Goes(c, IF page = None THEN Failed(call[c])
                   ELSE IF page.state # <<>> THEN Fetched(call[c], page.info, All(WebTrack, page.state), {Ids(page.state)})
                   ELSE IF page.linked = None THEN Failed(call[c])
                   ELSE Fetched(call[c], page.linked.title, All(LinkedTrack, page.linked.tracks), {Ids(page.linked.tracks)}))
    /\ UNCHANGED token

\* collectRenderers: the rows of every shelf of the page, in the order in which a map is walked
YouTube(c) ==
    /\ Answered(c, "browse")
    /\ LET page == Got(call[c], 1)
       IN  IF page = None THEN Goes(c, Failed(call[c]))
           ELSE \E order \in SetToSeqs(page.shelves) :
                   Goes(c, Fetched(call[c], page.title, All(VideoTrack, SelectSeq(FlattenSeq(order), IsTrack)),
                                   {Ids(shelf) : shelf \in page.shelves}))
    /\ UNCHANGED token

\* The playlist's tracks, those told by their id only with what was found of them, or not at all
CloudList(l, full) ==
    LET named(ts) == SelectSeq(ts, LAMBDA t : t.title # "")
        title == Or(l.title, "SoundCloud Playlist")
    IN  [title |-> title, shelves |-> {Ids(l.tracks)}, tracks |-> All(LAMBDA t : CloudTrack(t, NameOf(l.user), title), named(Hydrated(l, full).tracks))]

CloudFetched(r, l) == Fetched(r, l.title, l.tracks, l.shelves)

CloudResolved(r, got) ==
    CASE got = None -> Failed(r)
      [] got # None /\ got.kind = "playlist" ->
           IF Stubs(Listed(got.of)) = <<>> THEN CloudFetched(r, CloudList(Listed(got.of), <<>>))
           ELSE [Stage(r, <<AskAll("tracks", Chunks(Stubs(Listed(got.of)))[1])>>)
                    EXCEPT !.keep = [list |-> Listed(got.of), full |-> <<>>, left |-> Tail(Chunks(Stubs(Listed(got.of))))]]
      [] got # None /\ got.kind = "track" -> Fetched(r, Tracks[got.of].title, <<CloudTrack(Tracks[got.of], "", "SoundCloud Single")>>, {<<got.of>>})
      [] got # None /\ got.kind = "user"  -> Stage(r, <<Ask("userTracks", got.of)>>)
      [] got # None /\ got.kind \notin {"playlist", "track", "user"} -> Failed(r)

\* A chunk that fails ends the search for the others, and what it found is not used
CloudHydrated(r, got) ==
    IF got = None THEN CloudFetched(r, CloudList(r.keep.list, <<>>))
    ELSE IF r.keep.left = <<>> THEN CloudFetched(r, CloudList(r.keep.list, r.keep.full \o got))
    ELSE [Stage(r, <<AskAll("tracks", Head(r.keep.left))>>) EXCEPT !.keep.full = @ \o got, !.keep.left = Tail(@)]

CloudGoesOn(r) ==
    CASE r.parts[1].ask.get = "resolve" -> CloudResolved(r, Got(r, 1))
      [] r.parts[1].ask.get = "tracks"  -> CloudHydrated(r, Got(r, 1))
      [] r.parts[1].ask.get = "userTracks" ->
           IF Got(r, 1) = None THEN Failed(r)
           ELSE Fetched(r, "Tracks", All(LAMBDA t : CloudTrack(t, "", "Tracks"), Got(r, 1)), {Ids(Got(r, 1))})

CloudImport(c) ==
    /\ \E get \in {"resolve", "tracks", "userTracks"} : Answered(c, get)
    /\ Goes(c, CloudGoesOn(call[c])) /\ UNCHANGED token

-----------------------------------------------------------------------------
\* findTrack

Top(found, score) ==
    LET best == {i \in DOMAIN found : found[i][score] > 0 /\ \A j \in DOMAIN found : found[j][score] <= found[i][score]}
    IN  IF best = {} THEN None ELSE found[CHOOSE i \in best : \A j \in best : i <= j]

\* Which of the answers is looked at: for other scripts also what the title and the album find
Candidates(track, ask) ==
    LET poor(found) == \A i \in DOMAIN found : found[i].withAlbum < 50
        byTitle == IF ask.byAlbum # None THEN ask.byAlbum ELSE OrEmpty(ask.byTitle)
    IN  IF ask.foreign /\ track.album # ""
        THEN LET first == IF ask.byArtist = None THEN byTitle ELSE ask.byArtist
             IN  IF first # <<>> /\ poor(first) /\ OrEmpty(ask.byAlbum) # <<>> THEN ask.byAlbum ELSE first
        ELSE OrEmpty(ask.byArtist)

\* searchByText: the track on Tidal that matches best, if it matches well enough
SearchByText(track, ask) ==
    LET found == Candidates(track, ask)
        best == Top(found, "score")
        same == SelectSeq(found, LAMBDA t : t.same = 100)
        alike == Top(SelectSeq(found, LAMBDA t : t.same >= 70), "same")
    IN  IF best # None /\ best.score >= 50 THEN best.id
        ELSE IF ask.foreign THEN IF same # <<>> THEN same[1].id ELSE IF alike # None THEN alike.id ELSE 0
        ELSE IF track.album = "" /\ best # None /\ best.score >= 30 THEN best.id
        ELSE 0

Source(provider, id, tier) == [provider |-> provider, id |-> id, tier |-> tier]
Saved(uri, also) == [uri |-> uri, sources |-> {uri} \cup also]
NotFound == [uri |-> None, sources |-> {}]

\* The first that qualifies, of those that are asked one after the other
FirstOf(order, set) == order[CHOOSE i \in DOMAIN order : order[i] \in set /\ \A j \in 1..(i - 1) : order[j] \notin set]

OnTidal(track, ask) == IF ask.proxy /\ "td" \in ask.enabled THEN SearchByText(track, ask) ELSE 0

\* A track that came with a source is streamed from there, unless Tidal has it too
WithSource(track, ask) ==
    LET own == Source(track.uri, track.of, "standard")
        better == OnTidal(track, ask)
    IN  IF better # 0 THEN Saved(Source("td", better, "lossless"), {own}) ELSE Saved(own, {})

\* The providers that know the recording, in this order; then Tidal's search for its code
ByISRC(track, ask) ==
    LET order == <<"td", "dz", "qb", "sp">>
        knows == ask.enabled \cap ask.isrc
    IN  IF track.isrc = "" THEN NotFound
        ELSE IF knows \cap Range(order) # {} THEN Saved(Source(FirstOf(order, knows), track.of, "lossless"), {})
        ELSE IF ask.proxy /\ ask.coded THEN Saved(Source("td", track.of, "lossless"), {})
        ELSE NotFound

\* Mutant: a track that Tidal does not know is given up
NoFallback(track, ask) == NotFound

ByFallback(track, ask) ==
    LET order == <<"sp", "yt", "sc">>
        knows == ask.enabled \cap ask.matches
    IN  IF knows \cap Range(order) = {} THEN NotFound ELSE Saved(Source(FirstOf(order, knows), track.of, "standard"), {})

Found(track, ask) ==
    IF track.tidal > 0 /\ ask.proxy /\ ask.told THEN Saved(Source("td", track.tidal, "lossless"), {})
    ELSE IF track.uri # "" THEN WithSource(track, ask)
    ELSE IF ByISRC(track, ask) # NotFound THEN ByISRC(track, ask)
    ELSE IF OnTidal(track, ask) # 0 THEN Saved(Source("td", OnTidal(track, ask), "lossless"), {})
    ELSE ByFallback(track, ask)

FindTrack(c) ==
    /\ call[c].at = "listed"
    /\ Len(call[c].out.found) + 1 \in DOMAIN call[c].out.tracks
    /\ \E ask \in Finds :
        LET n == Len(call[c].out.found) + 1
            found == Append(call[c].out.found, [ask |-> ask, got |-> Found(call[c].out.tracks[n], ask)])
        IN  Goes(c, [call[c] EXCEPT !.out.found = found, !.at = IF n = Len(call[c].out.tracks) THEN "done" ELSE @])
    /\ UNCHANGED token

-----------------------------------------------------------------------------
ImportGoesOn(c) ==
    \/ PlainReply(c)
    \/ FetchToken(c) \/ AskSpclient(c) \/ SpotifyList(c) \/ SpotifyPage(c) \/ SpotifyEmbed(c)
    \/ Deezer(c) \/ TidalProxy(c) \/ TidalWeb(c) \/ YouTube(c) \/ CloudImport(c)
    \/ FindTrack(c)

\* A call of SoundCloud's provider, or a request to SoundCloud of either
CloudStep(c) == (GoOn(c) \/ Requested(c)) /\ UNCHANGED token

ImportInit == Init /\ token = 0
Next ==
    \/ \E c \in Callers : StartImport(c) \/ ImportGoesOn(c) \/ CloudStep(c) \/ (Call(c) /\ UNCHANGED token)
    \/ \E client \in Clients : Expire(client) /\ UNCHANGED token

Spec == ImportInit /\ [][Next]_vars

\* Every request ends, by the HTTP clients' timeouts if by nothing else
FairSpec == Spec /\ \A c \in Callers : WF_vars(ImportGoesOn(c) \/ CloudStep(c))

-----------------------------------------------------------------------------
\* Properties

Import(c) == call[c].op = "import" /\ call[c].at \in {"listed", "done"} /\ call[c].out # None
IsFrom(c, service) == Find(call[c].arg)[1] = service

(* Whatever an import has to ask for one by one, and whatever fails: the    *)
(* tracks it imports stand in the order of the source's lists, none twice,  *)
(* and all of Spotify's are there, if only by their id.                     *)
ListedInOrder ==
    \A c \in Callers : Import(c) =>
        LET tracks == call[c].out.tracks
            place(shelf, i) == SelectInSeq(shelf, LAMBDA id : id = tracks[i].of)
            on(shelf) == {i \in DOMAIN tracks : tracks[i].of \in Range(shelf)}
        IN  /\ DOMAIN tracks = UNION {on(shelf) : shelf \in call[c].out.shelves}
            /\ \A shelf \in call[c].out.shelves :
                /\ \A i, j \in on(shelf) : i < j => place(shelf, i) < place(shelf, j)
                /\ IsFrom(c, "spotify") => Cardinality(on(shelf)) = Len(shelf)

(* findTrack: a track that Tidal confirms or finds with a match of at least *)
(* a half is streamed without loss; one that came with a source or that     *)
(* some enabled provider matched is not left behind.                        *)
BestSource ==
    \A c \in Callers : Import(c) => \A i \in DOMAIN call[c].out.found :
        LET track == call[c].out.tracks[i] ask == call[c].out.found[i].ask got == call[c].out.found[i].got
            finds == ask.byArtist # None /\ ~ ask.foreign /\ \E n \in DOMAIN ask.byArtist : ask.byArtist[n].score >= 50
        IN  /\ ask.proxy /\ (("td" \in ask.enabled /\ finds) \/ (track.tidal > 0 /\ ask.told)) => got # NotFound /\ got.uri.tier = "lossless"
            /\ track.uri # "" => got # NotFound /\ track.uri \in {s.provider : s \in got.sources}
            /\ ask.matches \cap ask.enabled # {} => got # NotFound

=============================================================================
