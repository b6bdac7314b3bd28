------------------------------ MODULE MCImports ------------------------------
(* Links of every service and answers with everything that may be missing;    *)
(* two imports and a client that changes what they import.                    *)
EXTENDS Imports, TLC

CONSTANTS c1, c2, p1, p2

-----------------------------------------------------------------------------
\* A playlist and a track with the same number, a playlist told in part

Song(id, user, streams) == [id |-> id, title |-> IF id = 3 THEN "" ELSE "song", user |-> user, length |-> 100 * id, streams |-> streams]
MCTracks == <<Song(1, 1, <<"hls", "progressive/ogg">>), Song(2, 1, <<>>), Song(3, 0, <<"progressive/mpeg">>)>>
MCLists == 1 :> [id |-> 1, title |-> "mix", user |-> 1, tracks |-> <<2, 1, 4, 3>>]
           @@ 5 :> [id |-> 5, title |-> "", user |-> 2, tracks |-> <<>>]
MCUsers == <<"resonance">>
MCSearches == {<<>>, <<1, 2>>}

Entity(id) == [id |-> id, title |-> None, name |-> "song", artist |-> "home", artists |-> "", album |-> None, albumName |-> "odyssey"]
MCSpotifyTracks == 21 :> Entity(21) @@ 22 :> [Entity(22) EXCEPT !.title = "title", !.artists = "home, resonance"]
MCEmbedPages ==
    {[token |-> TRUE, entity |-> [title |-> "mix", tracks |-> <<Entity(21)>>]], [token |-> FALSE, entity |-> None]}
MCSpotifyLists == {[title |-> "mix", items |-> <<22, 29, 21>>]}

Track(id) == [Entity(id) EXCEPT !.title = "song"] @@ [isrc |-> ""]
Coded(id) == [Track(id) EXCEPT !.isrc = "code"]
MCDeezerPages ==
    {[known |-> FALSE, title |-> "", tracks |-> <<>>], [known |-> TRUE, title |-> "mix", tracks |-> <<Coded(31), Track(32)>>]}
MCTidalLists ==
    {[title |-> "mix", tracks |-> <<[Coded(7) EXCEPT !.artist = None, !.artists = <<"home">>], [Track(8) EXCEPT !.artists = <<>>]>>]}
MCTidalErrors == {[mentions |-> {"timeout"}], [mentions |-> {"all"}]}
Linked == [title |-> "mix", tracks |-> <<Track(41)>>]
MCTidalPages ==
    {[info |-> "mix", state |-> <<[Track(42) EXCEPT !.artist = None, !.artists = <<"home">>]>>, linked |-> None],
     [info |-> "mix", state |-> <<>>, linked |-> Linked], [info |-> "mix", state |-> <<>>, linked |-> None]}

Row(id, video, artists) == [id |-> id, title |-> "song", artists |-> artists, video |-> video, length |-> 200]
MCBrowsePages ==
    {[title |-> "mix", shelves |-> {<<Row(51, TRUE, <<"home", "odyssey">>), Row(52, FALSE, <<"home">>)>>, <<Row(53, TRUE, <<>>)>>}]}

To(kind, of) == [kind |-> kind, of |-> of]
MCResources == <<To("playlist", 1), To("playlist", 5), To("track", 1), To("user", 1), To("system", 0)>>
Link(service, to) == [op |-> "import", arg |-> [matches |-> {service}, to |-> to], cost |-> IF service = "spotify" THEN 1 ELSE 2]
Lone(op, arg) == [op |-> op, arg |-> arg, cost |-> 2]
MCAsked ==
    {Link(s, 0) : s \in {"spotify", "deezer", "tidal", "youtube", "none"}}
    \cup {Link("soundcloud", to) : to \in DOMAIN MCResources}
    \cup {[op |-> "track", arg |-> 3, cost |-> 1]}
    \cup {Lone(op, 1) : op \in {"artist", "albums", "similar", "top", "radio", "search", "stream"}}
    \cup {Lone("stream", 2), Lone("match", 200), Lone("batch", <<2, 4, 1>>)}
    \cup {Lone("album", [kind |-> kind, id |-> id]) : kind \in {"list", "single"}, id \in {1, 2}}
    \cup {Lone("album", [kind |-> "user", id |-> 1])}

Likely(id, score, same) == [id |-> id, score |-> score, withAlbum |-> score, same |-> same]
Everything ==
    [proxy |-> TRUE, told |-> TRUE, enabled |-> {"td", "dz", "sp", "yt", "sc"}, isrc |-> {"dz"}, coded |-> FALSE, foreign |-> FALSE,
     byArtist |-> <<Likely(7, 40, 80), Likely(8, 60, 70)>>, byAlbum |-> None, byTitle |-> None, matches |-> {"sp"}]
MCFinds ==
    {Everything,
     [Everything EXCEPT !.told = FALSE, !.byArtist = None, !.isrc = {}, !.matches = {"yt", "sc"}, !.coded = TRUE],
     [Everything EXCEPT !.foreign = TRUE, !.byArtist = <<Likely(9, 20, 75)>>, !.isrc = {}, !.byAlbum = <<Likely(8, 45, 100)>>, !.matches = {}],
     [Everything EXCEPT !.proxy = FALSE, !.enabled = {"yt"}, !.isrc = {}, !.matches = {}]}

MCCallers == {c1, c2}
MCServices == <<"spotify", "deezer", "tidal", "youtube", "soundcloud">>

MCJobs == {p1, p2}
MCLength == (p1 :> 2) @@ (p2 :> 1)
MCEditors == {c1}

ASSUME ImportsHold == ImportsAssumption

=============================================================================
