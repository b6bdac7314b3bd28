---------------------------- MODULE ImportsProofs ----------------------------
(***************************************************************************)
(* For all callers, answers and bounds: a request that was refused is made *)
(* again with a newer key, and a track is streamed from the best source    *)
(* the providers' answers allow.  For all jobs, playlists and clients:     *)
(* what was imported stands in the order of its source.                    *)
(*                                                                         *)
(* Keys are numbered by the scrapes that found them, so a key that is      *)
(* stored after a drop is newer than all before; a request that was        *)
(* refused has dropped the key it had.  Of the calls, the invariant keeps  *)
(* which stage they are at, and that an import's tracks never come with a  *)
(* number of Tidal and a source of another provider.                       *)
(*                                                                         *)
(* A job adds its tracks at the positions 0, 1, ... until somebody removes *)
(* one, so the second invariant says of the rows it has added only that    *)
(* their positions are below its next one and their sources' indices below *)
(* what is left of its results.  While a request numbers the rows anew the *)
(* order does not hold: what it has numbered is in order and comes before  *)
(* what it has on its list, which is in the order it read.                 *)
(***************************************************************************)
EXTENDS Imports, FiniteSetTheorems, WellFoundedInduction, TLAPS

CallFields == {"op", "arg", "at", "parts", "keep", "out"}
PartFields == {"ask", "at", "key", "old", "got"}

-----------------------------------------------------------------------------
(* The invariant                                                           *)

(* Tidal's tracks come without a source, the others without Tidal's number.*)
Sound(t) == t.tidal > 0 => t.uri = ""

IsASeq(s) == Len(s) \in Nat /\ s = [i \in 1..Len(s) |-> s[i]]

(* What Spotify's import has found so far.                                 *)
KeepOk(k) ==
    /\ DOMAIN k = {"listed", "left", "tracks", "title"} /\ IsASeq(k.tracks)
    /\ \A i \in DOMAIN k.tracks : Sound(k.tracks[i])

(* A list, and what was found of its tracks.                               *)
GoodOut(out) ==
    /\ DOMAIN out = {"title", "tracks", "shelves", "found"} /\ IsASeq(out.found)
    /\ \A i \in DOMAIN out.tracks : Sound(out.tracks[i])
    /\ \A i \in DOMAIN out.found :
        /\ i \in DOMAIN out.tracks /\ out.found[i].ask \in Finds
        /\ out.found[i].got = Found(out.tracks[i], out.found[i].ask)

AlbumGets == {"list", "tracks", "user", "userTracks", "track"}
SimilarGets == {"followings", "user", "searchUsers"}
SpotifyGets == {"token", "spclient", "page"}

(* A call is at a stage that its operation has.                            *)
Placed(r) ==
    /\ DOMAIN r = CallFields /\ r.op \in Ops \cup {"none"}
    /\ r.op = "none" => r.at = "idle"
    /\ r.at = "busy" /\ r.op \in {"album", "similar", "import"} => 1 \in DOMAIN r.parts
    /\ r.at = "busy" /\ r.op = "album" => r.parts[1].ask.get \in AlbumGets
    /\ r.at = "busy" /\ r.op = "similar" => r.parts[1].ask.get \in SimilarGets
    /\ r.at = "busy" /\ r.op = "import" /\ r.parts[1].ask.get \in SpotifyGets => KeepOk(r.keep)
    /\ r.at = "ready" => r.op = "import" /\ KeepOk(r.keep)
    /\ r.at = "listed" => r.op = "import" /\ GoodOut(r.out)
    /\ r.op = "import" /\ r.at = "done" => r.out = None \/ GoodOut(r.out)

(* A request and the keys it had, of a client that has found n keys so far *)
(* and has key k now.                                                      *)
PartOk(p, k, n) ==
    /\ DOMAIN p = PartFields /\ p.at \in {"key", "scrape", "sent", "clear", "asked", "done"}
    /\ p.key \in 0..n /\ p.old \in 0..n
    /\ p.at \in {"key", "scrape"} /\ k # 0 => p.old < k
    /\ p.at \in {"sent", "clear"} => p.old < p.key

KeysKnown ==
    /\ DOMAIN key = Clients /\ DOMAIN scrapes = Clients
    /\ \A client \in Clients : scrapes[client] \in Nat /\ key[client] \in 0..scrapes[client]

PartsOk == \A c \in Callers : \A i \in DOMAIN call[c].parts : PartOk(Part(c, i), key[ClientOf(c)], scrapes[ClientOf(c)])

CallsKnown == DOMAIN call = Callers /\ \A c \in Callers : Placed(call[c])

IInv == KeysKnown /\ CallsKnown /\ PartsOk

-----------------------------------------------------------------------------
(* A call that goes on                                                     *)

NewPart(p) == DOMAIN p = PartFields /\ p.at \in {"key", "asked"} /\ p.key = 0 /\ p.old = 0

(* All its requests, if it makes any, are new.                             *)
Renewed(r) == Placed(r) /\ \A i \in DOMAIN r.parts : NewPart(r.parts[i])

LEMMA RequestIsNew ==
    ASSUME NEW ask
    PROVE  /\ NewPart(Request(ask)) /\ Request(ask).ask = ask
           /\ NewPart(PlainRequest(ask)) /\ PlainRequest(ask).ask = ask
BY DEF NewPart, Request, PlainRequest, PartFields

LEMMA StageRenews ==
    ASSUME NEW r, DOMAIN r = CallFields, r.op \in Ops,
           NEW asks, 1 \in DOMAIN asks \/ r.op \notin {"album", "similar", "import"},
           r.op = "album" => asks[1].get \in AlbumGets,
           r.op = "similar" => asks[1].get \in SimilarGets,
           r.op = "import" => asks[1].get \notin SpotifyGets
    PROVE  /\ Renewed(Stage(r, asks))
           /\ \A k : Renewed([Stage(r, asks) EXCEPT !.keep = k])
<1> DEFINE q == Stage(r, asks)
<1>1. /\ DOMAIN q = CallFields /\ q.op = r.op /\ q.at = "busy"
      /\ q.parts = [i \in DOMAIN asks |-> Request(asks[i])]
  BY DEF Stage, CallFields
<1> HIDE DEF q
<1>2. \A i \in DOMAIN q.parts : NewPart(q.parts[i]) /\ q.parts[i].ask = asks[i]
  BY <1>1, RequestIsNew
<1>3. 1 \in DOMAIN asks => q.parts[1].ask.get = asks[1].get
  BY <1>1, <1>2
<1>4. Renewed(q)
  BY <1>1, <1>2, <1>3 DEF Renewed, Placed, Ops
<1>5. ASSUME NEW k
      PROVE  Renewed([q EXCEPT !.keep = k])
  <2> DEFINE p == [q EXCEPT !.keep = k]
  <2>1. DOMAIN p = CallFields /\ p.op = q.op /\ p.at = q.at /\ p.parts = q.parts
    BY <1>1 DEF CallFields
  <2> HIDE DEF p
  <2>2. Renewed(p)
    BY <1>1, <1>2, <1>3, <2>1 DEF Renewed, Placed, Ops
  <2> QED
    BY <2>2 DEF p
<1> QED
  BY <1>4, <1>5 DEF q

LEMMA DoneRenews ==
    ASSUME NEW r, DOMAIN r = CallFields, r.op \in Ops,
           NEW out, r.op = "import" => out = None \/ GoodOut(out)
    PROVE  Renewed(Done(r, out))
<1> DEFINE q == Done(r, out)
<1>1. DOMAIN q = CallFields /\ q.op = r.op /\ q.at = "done" /\ q.parts = <<>> /\ q.out = out
  BY DEF Done, CallFields
<1> HIDE DEF q
<1>2. Renewed(q)
  BY <1>1 DEF Renewed, Placed, Ops
<1> QED
  BY <1>2 DEF q

LEMMA PlainRenews ==
    ASSUME NEW r, DOMAIN r = CallFields, r.op = "import",
           NEW get, NEW of, get \in SpotifyGets => KeepOk(r.keep)
    PROVE  Renewed(Plain(r, get, of)) /\ Plain(r, get, of).keep = r.keep
<1> DEFINE q == Plain(r, get, of)
           ask == Ask(get, of)
<1>1. DOMAIN q = CallFields /\ q.op = "import" /\ q.at = "busy" /\ q.parts = <<PlainRequest(ask)>> /\ q.keep = r.keep
  BY DEF Plain, CallFields
<1>2. ask.get = get
  BY DEF Ask
<1> HIDE DEF q, ask
<1>3. q.parts[1].ask.get = get /\ \A i \in DOMAIN q.parts : NewPart(q.parts[i])
  BY <1>1, <1>2, RequestIsNew
<1>4. Renewed(q)
  BY <1>1, <1>3 DEF Renewed, Placed, Ops
<1> QED
  BY <1>1, <1>4 DEF q

LEMMA FetchedRenews ==
    ASSUME NEW r, DOMAIN r = CallFields, r.op = "import",
           NEW title, NEW ts, NEW shelves, \A i \in DOMAIN ts : Sound(ts[i])
    PROVE  Renewed(Fetched(r, title, ts, shelves))
<1> DEFINE q == Fetched(r, title, ts, shelves)
           out == [title |-> title, tracks |-> ts, shelves |-> shelves, found |-> <<>>]
<1>1. /\ DOMAIN q = CallFields /\ q.op = "import" /\ q.at \in {"done", "listed"}
      /\ q.parts = <<>> /\ q.out = out
  BY DEF Fetched, CallFields
<1>2. IsASeq(<<>>)
  BY DEF IsASeq
<1>3. GoodOut(out)
  BY <1>2 DEF GoodOut
<1> HIDE DEF q, out
<1>4. Renewed(q)
  BY <1>1, <1>3 DEF Renewed, Placed, Ops
<1> QED
  BY <1>4 DEF q

-----------------------------------------------------------------------------
(* SoundCloud's calls                                                      *)

LEMMA StartedRenews ==
    ASSUME NEW wish \in Asked, wish.op # "import"
    PROVE  Renewed(Started([Idle EXCEPT !.op = wish.op, !.arg = wish.arg]))
<1> DEFINE r == [Idle EXCEPT !.op = wish.op, !.arg = wish.arg]
<1>1. DOMAIN r = CallFields /\ r.op = wish.op /\ r.arg = wish.arg
  BY DEF Idle, CallFields
<1> HIDE DEF r
<1>2. r.op \in Ops \ {"import"} /\ (r.op = "album" => r.arg.kind \in {"list", "user", "single"})
  BY <1>1, AskedAssumption
<1>3. CASE r.op \in {"track", "stream"}
  <2>1. Started(r) = Stage(r, <<Ask("track", r.arg)>>)
    BY <1>3 DEF Started
  <2> QED
    BY ZenonT(60), <1>1, <1>2, <1>3, <2>1, StageRenews DEF r
<1>4. CASE r.op = "batch"
  <2>1. Started(r) = Stage(r, [i \in DOMAIN r.arg |-> Ask("track", r.arg[i])])
    BY <1>4 DEF Started
  <2> QED
    BY <1>1, <1>2, <1>4, <2>1, StageRenews DEF r
<1>5. CASE r.op = "album"
  <2> DEFINE ask == CASE r.arg.kind = "list" -> Ask("list", r.arg.id)
                      [] r.arg.kind = "user" -> Ask("user", r.arg.id)
                      [] r.arg.kind = "single" -> Ask("track", r.arg.id)
  <2>1. Started(r) = Stage(r, <<ask>>)
    BY <1>5 DEF Started
  <2>2. ask.get \in AlbumGets
    <3>1. ask \in {Ask("list", r.arg.id), Ask("user", r.arg.id), Ask("track", r.arg.id)}
      BY <1>2, <1>5
    <3> HIDE DEF ask
    <3> QED
      BY <3>1 DEF Ask, AlbumGets
  <2> HIDE DEF ask
  <2> DEFINE asks == <<ask>>
  <2>3. 1 \in DOMAIN asks /\ asks[1].get \in AlbumGets
    BY <2>2
  <2> HIDE DEF asks
  <2>4. Started(r) = Stage(r, asks)
    BY <2>1 DEF asks
  <2> QED
    BY ZenonT(60), <1>1, <1>2, <1>5, <2>3, <2>4, StageRenews DEF r
<1>6. CASE r.op = "artist"
  <2>1. Started(r) = Stage(r, <<Ask("user", r.arg)>>)
    BY <1>6 DEF Started
  <2> QED
    BY <1>1, <1>2, <1>6, <2>1, StageRenews DEF r
<1>7. CASE r.op = "albums"
  <2>1. Started(r) = Stage(r, <<Ask("userLists", r.arg), Ask("userTracks", r.arg)>>)
    BY <1>7 DEF Started
  <2> QED
    BY <1>1, <1>2, <1>7, <2>1, StageRenews DEF r
<1>8. CASE r.op = "similar"
  <2> DEFINE asks == <<Ask("followings", r.arg)>>
  <2>1. Started(r) = Stage(r, asks)
    BY <1>8 DEF Started
  <2>2. 1 \in DOMAIN asks /\ asks[1].get \in SimilarGets
    BY DEF Ask, SimilarGets
  <2> HIDE DEF asks
  <2> QED
    BY ZenonT(60), <1>1, <1>2, <1>8, <2>1, <2>2, StageRenews DEF r
<1>9. CASE r.op = "top"
  <2>1. Started(r) = Stage(r, <<Ask("userTracks", r.arg)>>)
    BY <1>9 DEF Started
  <2> QED
    BY <1>1, <1>2, <1>9, <2>1, StageRenews DEF r
<1>10. CASE r.op = "radio"
  <2>1. Started(r) = Stage(r, <<Ask("related", r.arg)>>)
    BY <1>10 DEF Started
  <2> QED
    BY <1>1, <1>2, <1>10, <2>1, StageRenews DEF r
<1>11. CASE r.op = "match"
  <2>1. Started(r) = Stage(r, <<AskAll("search", <<>>)>>)
    BY <1>11 DEF Started
  <2> QED
    BY <1>1, <1>2, <1>11, <2>1, StageRenews DEF r
<1>12. CASE r.op = "search"
  <2>1. Started(r) = Stage(r, <<AskAll("search", <<>>), AskAll("searchLists", <<>>), AskAll("searchUsers", <<>>)>>)
    BY <1>12 DEF Started
  <2> QED
    BY <1>1, <1>2, <1>12, <2>1, StageRenews DEF r
<1> QED
  BY <1>2, <1>3, <1>4, <1>5, <1>6, <1>7, <1>8, <1>9, <1>10, <1>11, <1>12 DEF Ops, r

(* The stages of an album: whatever was asked for, what comes next is one  *)
(* of them or the end.                                                     *)
LEMMA AlbumRenews ==
    ASSUME NEW r, DOMAIN r = CallFields, r.op = "album", r.parts[1].ask.get \in AlbumGets
    PROVE  Renewed(AlbumGoesOn(r))
<1> DEFINE ask == r.parts[1].ask
           got == Got(r, 1)
           next(l, full, left) == [Stage(r, <<AskAll("tracks", left[1])>>)
                                      EXCEPT !.keep = [list |-> l, full |-> full, left |-> Tail(left)]]
           everything(of, k) == [Stage(r, <<AskAll("userTracks", of)>>) EXCEPT !.keep = k]
<1>1. \A out : Renewed(Done(r, out))
  BY DoneRenews DEF Ops
<1>2. ASSUME NEW asks, NEW get, NEW of, get \in AlbumGets, asks = <<AskAll(get, of)>>
      PROVE  Renewed(Stage(r, asks)) /\ \A k : Renewed([Stage(r, asks) EXCEPT !.keep = k])
  <2>1. 1 \in DOMAIN asks /\ asks[1].get = get
    BY <1>2 DEF AskAll
  <2> QED
    BY <1>2, <2>1, StageRenews DEF Ops
<1>3. \A of : /\ Renewed(Stage(r, <<AskAll("track", of)>>))
              /\ \A k : Renewed([Stage(r, <<AskAll("userTracks", of)>>) EXCEPT !.keep = k])
              /\ \A k : Renewed([Stage(r, <<AskAll("tracks", of)>>) EXCEPT !.keep = k])
  BY <1>2 DEF AlbumGets
<1>4. /\ \A l, full, left : Renewed(next(l, full, left))
      /\ \A of, k : Renewed(everything(of, k))
  BY <1>3
<1> HIDE DEF next, everything
<1>5. /\ ask.get = "list" /\ got = None => AlbumGoesOn(r) = Stage(r, <<AskAll("track", ask.of)>>)
      /\ ask.get = "list" /\ got # None =>
            AlbumGoesOn(r) \in {Done(r, FullAlbum(got)), next(got, <<>>, Chunks(Stubs(got)))}
      /\ ask.get = "user" => AlbumGoesOn(r) = everything(ask.of, got)
  BY DEF AlbumGoesOn, next, everything
<1>6. ask.get = "tracks" =>
         \/ \E out : AlbumGoesOn(r) = Done(r, out)
         \/ AlbumGoesOn(r) = next(r.keep.list, r.keep.full \o got, r.keep.left)
  BY DEF AlbumGoesOn, next
<1>7. ask.get \in {"userTracks", "track"} => \E out : AlbumGoesOn(r) = Done(r, out)
  BY DEF AlbumGoesOn
<1>8. ask.get \in {"list", "tracks", "user", "userTracks", "track"}
  BY DEF AlbumGets
<1> HIDE DEF ask, got
<1>9. CASE ask.get = "list" /\ got = None
  BY <1>3, <1>5, <1>9
<1>10. CASE ask.get = "list" /\ got # None
  BY <1>1, <1>4, <1>5, <1>10
<1>11. CASE ask.get = "tracks"
  BY <1>1, <1>4, <1>6, <1>11
<1>12. CASE ask.get = "user"
  BY <1>4, <1>5, <1>12
<1>13. CASE ask.get \in {"userTracks", "track"}
  BY <1>1, <1>7, <1>13
<1> QED
  BY <1>8, <1>9, <1>10, <1>11, <1>12, <1>13

LEMMA SimilarRenews ==
    ASSUME NEW r, DOMAIN r = CallFields, r.op = "similar", r.parts[1].ask.get \in SimilarGets
    PROVE  Renewed(SimilarGoesOn(r))
<1>1. \A out : Renewed(Done(r, out))
  BY DoneRenews DEF Ops
<1>2. ASSUME NEW asks, NEW get, NEW of, get \in SimilarGets, asks = <<AskAll(get, of)>>
      PROVE  Renewed(Stage(r, asks))
  <2>1. 1 \in DOMAIN asks /\ asks[1].get = get
    BY <1>2 DEF AskAll
  <2> QED
    BY <1>2, <2>1, StageRenews DEF Ops
<1>3. /\ Renewed(Stage(r, <<Ask("user", r.arg)>>))
      /\ Renewed(Stage(r, <<AskAll("searchUsers", <<>>)>>))
  BY <1>2 DEF SimilarGets, Ask, AskAll
<1>4. \/ \E out : SimilarGoesOn(r) = Done(r, out)
      \/ SimilarGoesOn(r) \in {Stage(r, <<Ask("user", r.arg)>>), Stage(r, <<AskAll("searchUsers", <<>>)>>)}
  BY DEF SimilarGoesOn, SimilarGets
<1> QED
  BY <1>1, <1>3, <1>4

LEMMA GoesOnRenews ==
    ASSUME NEW r, Placed(r), r.at = "busy", r.op # "import"
    PROVE  Renewed(GoesOn(r))
<1>1. DOMAIN r = CallFields /\ r.op \in Ops \ {"import"}
  BY DEF Placed
<1>2. \A out : Renewed(Done(r, out))
  BY <1>1, DoneRenews
<1>3. CASE r.op = "album"
  BY <1>1, <1>3, AlbumRenews DEF Placed, GoesOn
<1>4. CASE r.op = "similar"
  BY <1>1, <1>4, SimilarRenews DEF Placed, GoesOn
<1>5. CASE r.op = "stream"
  <2>1. GoesOn(r) = StreamGoesOn(r)
    BY <1>5 DEF GoesOn
  <2>2. \E out, of : StreamGoesOn(r) \in {Done(r, out), Stage(r, <<AskAll("stream", of)>>)}
    BY DEF StreamGoesOn
  <2>3. \A of : Renewed(Stage(r, <<AskAll("stream", of)>>))
    BY <1>1, <1>5, StageRenews
  <2> QED
    BY <1>2, <2>1, <2>2, <2>3
<1>6. CASE r.op \in Ops \ {"import", "album", "similar", "stream"}
  <2>1. \E out : GoesOn(r) = Done(r, out)
    BY <1>6 DEF GoesOn, Ops
  <2> QED
    BY <1>2, <2>1
<1> QED
  BY <1>1, <1>3, <1>4, <1>5, <1>6 DEF Ops

-----------------------------------------------------------------------------
(* The importers' stages                                                   *)

(* Whatever a service's answer is made into, no track has both a source    *)
(* and Tidal's number.                                                     *)
LEMMA MadeSound ==
    ASSUME NEW t
    PROVE  /\ \A title, artist, album : Sound(Imported(t, title, artist, album))
           /\ Sound(SpotifyTrack(t)) /\ Sound(DeezerTrack(t)) /\ Sound(TidalTrack(t))
           /\ Sound(WebTrack(t)) /\ Sound(LinkedTrack(t)) /\ Sound(VideoTrack(t))
           /\ \A artist, album : Sound(CloudTrack(t, artist, album))
<1> DEFINE Coded(of, title, artist, album, isrc) == [Imported(of, title, artist, album) EXCEPT !.isrc = isrc]
           OnTidalAs(of, title, artist, album, isrc, id) ==
             [Imported(of, title, artist, album) EXCEPT !.isrc = isrc, !.tidal = id]
           From(of, title, artist, album, uri, length) ==
             [Imported(of, title, artist, album) EXCEPT !.uri = uri, !.length = length]
<1>1. \A of, title, artist, album :
        LET m == Imported(of, title, artist, album)
        IN  /\ DOMAIN m = {"of", "title", "artist", "album", "isrc", "tidal", "uri", "length"}
            /\ m.tidal = 0 /\ m.uri = ""
  BY DEF Imported
<1>2. ASSUME NEW m, m.tidal = 0 \/ m.uri = ""
      PROVE  Sound(m)
  <2>1. CASE m.tidal = 0
    <3>1. ~ (m.tidal > 0)
      BY <2>1
    <3> QED
      BY <3>1 DEF Sound
  <2> QED
    BY <1>2, <2>1 DEF Sound
<1>3. \A of, title, artist, album : Sound(Imported(of, title, artist, album))
  BY <1>1, <1>2
<1>4. ASSUME NEW of, NEW title, NEW artist, NEW album, NEW isrc
      PROVE  Sound(Coded(of, title, artist, album, isrc))
  <2> DEFINE m == Coded(of, title, artist, album, isrc)
  <2>1. m.tidal = 0
    BY <1>1
  <2> QED
    BY <1>2, <2>1
<1>5. ASSUME NEW of, NEW title, NEW artist, NEW album, NEW isrc, NEW id
      PROVE  Sound(OnTidalAs(of, title, artist, album, isrc, id))
  <2> DEFINE m == OnTidalAs(of, title, artist, album, isrc, id)
  <2>1. m.uri = ""
    BY ZenonT(60), <1>1
  <2> QED
    BY <1>2, <2>1
<1>6. ASSUME NEW of, NEW title, NEW artist, NEW album, NEW uri, NEW length
      PROVE  Sound(From(of, title, artist, album, uri, length))
  <2> DEFINE m == From(of, title, artist, album, uri, length)
  <2>1. m.tidal = 0
    BY <1>1
  <2> QED
    BY <1>2, <2>1
<1>7. /\ \E of, title, artist, album : SpotifyTrack(t) = Imported(of, title, artist, album)
      /\ \E of, title, artist, album : LinkedTrack(t) = Imported(of, title, artist, album)
  BY DEF SpotifyTrack, LinkedTrack
<1>8. /\ \E of, title, artist, album, isrc : DeezerTrack(t) = Coded(of, title, artist, album, isrc)
      /\ \E of, title, artist, album, isrc : WebTrack(t) = Coded(of, title, artist, album, isrc)
  BY DEF DeezerTrack, WebTrack
<1>9. \E of, title, artist, album, isrc, id :
        TidalTrack(t) = OnTidalAs(of, title, artist, album, isrc, id)
  BY DEF TidalTrack
<1>10. \E of, title, artist, album, uri, length :
        VideoTrack(t) = From(of, title, artist, album, uri, length)
  BY DEF VideoTrack
<1>11. \A by, on : \E of, title, artist, album, uri, length :
        CloudTrack(t, by, on) = From(of, title, artist, album, uri, length)
  BY DEF CloudTrack
<1> HIDE DEF Coded, OnTidalAs, From
<1>12. Sound(SpotifyTrack(t)) /\ Sound(LinkedTrack(t))
  BY <1>3, <1>7
<1>13. Sound(DeezerTrack(t)) /\ Sound(WebTrack(t))
  BY <1>4, <1>8
<1>14. Sound(TidalTrack(t)) /\ Sound(VideoTrack(t))
  BY <1>5, <1>6, <1>9, <1>10
<1>15. \A artist, album : Sound(CloudTrack(t, artist, album))
  BY <1>6, <1>11
<1> QED
  BY <1>3, <1>12, <1>13, <1>14, <1>15

LEMMA ListRenews ==
    ASSUME NEW r, DOMAIN r = CallFields, r.op = "import", NEW title, NEW shelves, NEW ts
    PROVE  /\ Renewed(Fetched(r, title, All(SpotifyTrack, ts), shelves))
           /\ Renewed(Fetched(r, title, All(DeezerTrack, ts), shelves))
           /\ Renewed(Fetched(r, title, All(TidalTrack, ts), shelves))
           /\ Renewed(Fetched(r, title, All(WebTrack, ts), shelves))
           /\ Renewed(Fetched(r, title, All(LinkedTrack, ts), shelves))
           /\ Renewed(Fetched(r, title, All(VideoTrack, ts), shelves))
<1>1. ASSUME NEW made, \A i \in DOMAIN made : Sound(made[i])
      PROVE  Renewed(Fetched(r, title, made, shelves))
  BY <1>1, FetchedRenews
<1>2. Renewed(Fetched(r, title, All(SpotifyTrack, ts), shelves))
  BY <1>1, MadeSound DEF All
<1>3. Renewed(Fetched(r, title, All(DeezerTrack, ts), shelves))
  BY <1>1, MadeSound DEF All
<1>4. Renewed(Fetched(r, title, All(TidalTrack, ts), shelves))
  BY <1>1, MadeSound DEF All
<1>5. Renewed(Fetched(r, title, All(WebTrack, ts), shelves))
  BY <1>1, MadeSound DEF All
<1>6. Renewed(Fetched(r, title, All(LinkedTrack, ts), shelves))
  BY <1>1, MadeSound DEF All
<1>7. Renewed(Fetched(r, title, All(VideoTrack, ts), shelves))
  BY <1>1, MadeSound DEF All
<1> QED
  BY <1>2, <1>3, <1>4, <1>5, <1>6, <1>7

(* A sequence with one more at its end.                                    *)
LEMMA OneMore ==
    ASSUME NEW s, IsASeq(s), NEW x
    PROVE  /\ IsASeq(Append(s, x)) /\ Len(Append(s, x)) = Len(s) + 1
           /\ DOMAIN s = 1..Len(s) /\ DOMAIN Append(s, x) = 1..(Len(s) + 1)
           /\ \A i \in DOMAIN s : Append(s, x)[i] = s[i]
           /\ Append(s, x)[Len(s) + 1] = x
<1> DEFINE S == {s[i] : i \in 1..Len(s)} \cup {x}
<1>1. DOMAIN s = 1..Len(s) /\ s \in [1..Len(s) -> S] /\ Len(s) \in Nat
  BY DEF IsASeq
<1>2. s \in Seq(S) /\ x \in S
  BY <1>1
<1> HIDE DEF S
<1>3. Append(s, x) \in Seq(S) /\ Len(Append(s, x)) = Len(s) + 1
  BY <1>2
<1>4. ASSUME NEW t \in Seq(S)
      PROVE  IsASeq(t)
  BY DEF IsASeq
<1>5. IsASeq(Append(s, x))
  BY <1>3, <1>4
<1>6. DOMAIN Append(s, x) = 1..(Len(s) + 1)
  BY <1>2
<1>7. \A i \in DOMAIN s : Append(s, x)[i] = s[i]
  BY <1>1, <1>2
<1>8. Append(s, x)[Len(s) + 1] = x
  BY <1>1, <1>2
<1> QED
  BY <1>1, <1>3, <1>5, <1>6, <1>7, <1>8

(* The next page of a playlist of Spotify, or its end.                     *)
LEMMA PageRenews ==
    ASSUME NEW r, DOMAIN r = CallFields, r.op = "import", KeepOk(r.keep)
    PROVE  Renewed(NextPage(r))
<1>1. CASE r.keep.left = <<>>
  BY <1>1, FetchedRenews DEF NextPage, KeepOk
<1>2. CASE r.keep.left # <<>>
  <2> DEFINE p == Plain(r, "page", Head(r.keep.left))
             q == [p EXCEPT !.keep.left = Tail(@)]
  <2>1. Renewed(p) /\ p.keep = r.keep
    BY PlainRenews
  <2>2. DOMAIN p = CallFields /\ p.op = "import" /\ p.at = "busy"
    BY DEF Plain, CallFields
  <2>3. NextPage(r) = q
    BY <1>2 DEF NextPage
  <2> HIDE DEF p
  <2>4. /\ DOMAIN q = CallFields /\ q.op = "import" /\ q.at = "busy" /\ q.parts = p.parts
        /\ DOMAIN q.keep = DOMAIN r.keep /\ q.keep.tracks = r.keep.tracks
    BY <2>1, <2>2 DEF CallFields, KeepOk
  <2> HIDE DEF q
  <2>5. KeepOk(q.keep)
    BY <2>4 DEF KeepOk
  <2>6. 1 \in DOMAIN q.parts /\ \A i \in DOMAIN q.parts : NewPart(q.parts[i])
    BY <2>1, <2>2, <2>4 DEF Renewed, Placed
  <2> QED
    BY <2>3, <2>4, <2>5, <2>6 DEF Renewed, Placed, Ops
<1> QED
  BY <1>1, <1>2

LEMMA CloudRenews ==
    ASSUME NEW r, DOMAIN r = CallFields, r.op = "import", r.parts[1].ask.get \in {"resolve", "tracks", "userTracks"}
    PROVE  Renewed(CloudGoesOn(r))
<1> DEFINE got == Got(r, 1)
           next(ids, k) == [Stage(r, <<AskAll("tracks", ids)>>) EXCEPT !.keep = k]
<1>1. Renewed(Failed(r))
  BY DoneRenews DEF Failed, Ops
<1>2. ASSUME NEW l, NEW full
      PROVE  Renewed(CloudFetched(r, CloudList(l, full)))
  <2> DEFINE list == CloudList(l, full)
             ts == SelectSeq(Hydrated(l, full).tracks, LAMBDA t : t.title # "")
  <2>1. list.tracks = [i \in DOMAIN ts |-> CloudTrack(ts[i], NameOf(l.user), Or(l.title, "SoundCloud Playlist"))]
    BY DEF CloudList, All
  <2> HIDE DEF list, ts
  <2> DEFINE by == NameOf(l.user)
             album == Or(l.title, "SoundCloud Playlist")
  <2>2. \A i \in DOMAIN ts : Sound(CloudTrack(ts[i], by, album))
    BY MadeSound
  <2> HIDE DEF by, album
  <2>3. list.tracks = [i \in DOMAIN ts |-> CloudTrack(ts[i], by, album)]
    BY <2>1 DEF by, album
  <2>4. \A i \in DOMAIN list.tracks : Sound(list.tracks[i])
    BY <2>2, <2>3
  <2>5. Renewed(Fetched(r, list.title, list.tracks, list.shelves))
    BY <2>4, FetchedRenews
  <2> QED
    BY <2>5 DEF CloudFetched, list
<1>3. ASSUME NEW get, NEW of, get \notin SpotifyGets
      PROVE  /\ Renewed(Stage(r, <<AskAll(get, of)>>))
             /\ \A k : Renewed([Stage(r, <<AskAll(get, of)>>) EXCEPT !.keep = k])
  <2> DEFINE asks == <<AskAll(get, of)>>
  <2>1. 1 \in DOMAIN asks /\ asks[1].get = get
    BY DEF AskAll
  <2> HIDE DEF asks
  <2>2. Renewed(Stage(r, asks)) /\ \A k : Renewed([Stage(r, asks) EXCEPT !.keep = k])
    BY <1>3, <2>1, StageRenews DEF Ops
  <2> QED
    BY <2>2 DEF asks
<1>4. \A ids, k : Renewed(next(ids, k))
  BY <1>3 DEF SpotifyGets
<1>5. \A of : Renewed(Stage(r, <<Ask("userTracks", of)>>))
  BY <1>3 DEF SpotifyGets, Ask, AskAll
<1>6. CASE r.parts[1].ask.get = "resolve"
  <2>1. CloudGoesOn(r) = CloudResolved(r, got)
    BY <1>6 DEF CloudGoesOn
  <2>2. CASE got # None /\ got.kind = "track"
    <3> DEFINE track == CloudTrack(Tracks[got.of], "", "SoundCloud Single")
               single == <<track>>
    <3>1. Sound(track)
      BY MadeSound
    <3> HIDE DEF track
    <3>2. \A i \in DOMAIN single : Sound(single[i])
      BY <3>1
    <3> HIDE DEF single
    <3>3. Renewed(Fetched(r, Tracks[got.of].title, single, {<<got.of>>}))
      BY <3>2, FetchedRenews
    <3> QED
      BY <2>1, <2>2, <3>3 DEF CloudResolved, single, track
  <2>3. CASE got # None /\ got.kind = "playlist"
    <3>1. \E l, full, ids, k : CloudResolved(r, got) \in {CloudFetched(r, CloudList(l, full)), next(ids, k)}
      BY <2>3 DEF CloudResolved
    <3> HIDE DEF next
    <3> QED
      BY <1>2, <1>4, <2>1, <3>1
  <2>4. CASE got # None /\ got.kind = "user"
    BY <1>5, <2>1, <2>4 DEF CloudResolved
  <2>5. CASE got = None \/ got.kind \notin {"playlist", "track", "user"}
    BY <1>1, <2>1, <2>5 DEF CloudResolved
  <2> QED
    BY <2>2, <2>3, <2>4, <2>5
<1>7. CASE r.parts[1].ask.get = "tracks"
  <2>1. CloudGoesOn(r) = CloudHydrated(r, got)
    BY <1>7 DEF CloudGoesOn
  <2> DEFINE more == [Stage(r, <<AskAll("tracks", Head(r.keep.left))>>) EXCEPT !.keep.full = @ \o got,
                                                                            !.keep.left = Tail(@)]
  <2>2. \E k : more = next(Head(r.keep.left), k)
    OBVIOUS
  <2>3. \/ \E l, full : CloudHydrated(r, got) = CloudFetched(r, CloudList(l, full))
        \/ CloudHydrated(r, got) = more
    BY DEF CloudHydrated
  <2> HIDE DEF more, next
  <2> QED
    BY <1>2, <1>4, <2>1, <2>2, <2>3
<1>8. CASE r.parts[1].ask.get = "userTracks"
  <2> DEFINE listed == [i \in DOMAIN got |-> CloudTrack(got[i], "", "Tracks")]
             fetched == Fetched(r, "Tracks", listed, {Ids(got)})
  <2>1. CloudGoesOn(r) \in {Failed(r), fetched}
    BY <1>8 DEF CloudGoesOn, All
  <2>2. \A i \in DOMAIN listed : Sound(listed[i])
    BY MadeSound
  <2> HIDE DEF listed
  <2>3. Renewed(fetched)
    BY <2>2, FetchedRenews
  <2> QED
    BY <1>1, <2>1, <2>3
<1> QED
  BY <1>6, <1>7, <1>8

-----------------------------------------------------------------------------
(* The invariant holds                                                     *)

LEMMA Initially ==
    ASSUME ImportInit
    PROVE  IInv
<1>1. KeysKnown
  BY DEF ImportInit, Init, KeysKnown
<1>2. DOMAIN Idle = CallFields /\ Idle.op = "none" /\ Idle.at = "idle" /\ Idle.parts = <<>>
  BY DEF Idle, CallFields
<1>3. Placed(Idle)
  BY <1>2 DEF Placed
<1>4. DOMAIN call = Callers /\ \A c \in Callers : call[c] = Idle
  BY DEF ImportInit, Init
<1> QED
  BY <1>1, <1>2, <1>3, <1>4 DEF IInv, CallsKnown, PartsOk

(* A caller's call goes on, or begins: whatever it asks for is new.        *)
LEMMA CallChanges ==
    ASSUME IInv, NEW c \in Callers, NEW q, call' = [call EXCEPT ![c] = q], UNCHANGED clients,
           Placed(q), (\A i \in DOMAIN q.parts : NewPart(q.parts[i])) \/ (q.parts = call[c].parts /\ q.op = call[c].op)
    PROVE  IInv'
<1>1. UNCHANGED <<key, scrapes>> /\ DOMAIN call' = Callers /\ call'[c] = q /\ \A d \in Callers \ {c} : call'[d] = call[d]
  BY DEF clients, IInv, CallsKnown
<1>2. KeysKnown'
  BY <1>1 DEF IInv, KeysKnown
<1>3. CallsKnown'
  BY <1>1 DEF IInv, CallsKnown
<1>4. \A d \in Callers : ClientOf(d) \in Clients /\ ClientOf(d)' \in Clients
  BY DEF ClientOf, Clients
<1>5. ASSUME NEW d \in Callers \ {c}, NEW i \in DOMAIN call'[d].parts
      PROVE  PartOk(Part(d, i), key[ClientOf(d)], scrapes[ClientOf(d)])'
  <2>1. /\ Part(d, i)' = Part(d, i) /\ ClientOf(d)' = ClientOf(d)
        /\ PartOk(Part(d, i), key[ClientOf(d)], scrapes[ClientOf(d)])
    BY <1>1, <1>5 DEF IInv, PartsOk, Part, ClientOf
  <2> QED
    BY <1>1, <2>1
<1>6. ASSUME NEW i \in DOMAIN q.parts
      PROVE  PartOk(Part(c, i), key[ClientOf(c)], scrapes[ClientOf(c)])'
  <2>1. Part(c, i)' = q.parts[i]
    BY <1>1 DEF Part
  <2>2. CASE NewPart(q.parts[i])
    <3>1. scrapes'[ClientOf(c)'] \in Nat /\ key'[ClientOf(c)'] \in Nat
      BY <1>2, <1>4 DEF KeysKnown
    <3> QED
      BY <2>1, <2>2, <3>1 DEF PartOk, NewPart
  <2>3. CASE q.parts = call[c].parts /\ q.op = call[c].op
    <3>1. /\ Part(c, i)' = Part(c, i) /\ ClientOf(c)' = ClientOf(c)
          /\ PartOk(Part(c, i), key[ClientOf(c)], scrapes[ClientOf(c)])
      BY <1>1, <2>1, <2>3 DEF IInv, PartsOk, Part, ClientOf
    <3> QED
      BY <1>1, <3>1
  <2> QED
    BY <2>2, <2>3
<1> QED
  BY <1>1, <1>2, <1>3, <1>5, <1>6 DEF IInv, PartsOk

(* One request of a call changes, and asks for what it asked for.          *)
LEMMA PartChanges ==
    ASSUME IInv, NEW c \in Callers, NEW i \in DOMAIN call[c].parts, NEW p, SetPart(c, i, p), p.ask = Part(c, i).ask,
           UNCHANGED clients \/ KeysKnown'
    PROVE  /\ CallsKnown' /\ KeysKnown'
           /\ \A d \in Callers : DOMAIN call'[d].parts = DOMAIN call[d].parts /\ ClientOf(d)' = ClientOf(d)
           /\ \A d \in Callers : \A j \in DOMAIN call[d].parts : d # c \/ j # i => Part(d, j)' = Part(d, j)
           /\ Part(c, i)' = p
<1> DEFINE r == call[c]
           q == [r EXCEPT !.parts = [r.parts EXCEPT ![i] = p]]
<1>1. call' = [call EXCEPT ![c] = q]
  BY DEF SetPart
<1>2. DOMAIN r = CallFields /\ Placed(r) /\ DOMAIN call = Callers
  BY DEF IInv, CallsKnown, Placed
<1>3. /\ DOMAIN q = CallFields /\ q.op = r.op /\ q.at = r.at /\ q.keep = r.keep /\ q.out = r.out
      /\ q.parts = [r.parts EXCEPT ![i] = p]
  BY <1>2 DEF CallFields
<1> HIDE DEF q
<1>4. DOMAIN q.parts = DOMAIN r.parts /\ q.parts[i] = p /\ \A j \in DOMAIN r.parts \ {i} : q.parts[j] = r.parts[j]
  BY <1>3
<1>5. 1 \in DOMAIN r.parts => q.parts[1].ask = r.parts[1].ask
  BY <1>4 DEF Part
<1>6. Placed(q)
  BY <1>2, <1>3, <1>4, <1>5 DEF Placed
<1>7. DOMAIN call' = Callers /\ call'[c] = q /\ \A d \in Callers \ {c} : call'[d] = call[d]
  BY <1>1, <1>2
<1>8. CallsKnown'
  BY <1>6, <1>7 DEF IInv, CallsKnown
<1>9. KeysKnown'
  BY DEF IInv, KeysKnown, clients
<1>10. \A d \in Callers : DOMAIN call'[d].parts = DOMAIN call[d].parts /\ ClientOf(d)' = ClientOf(d)
  BY <1>3, <1>4, <1>7 DEF ClientOf
<1>11. \A d \in Callers : \A j \in DOMAIN call[d].parts : d # c \/ j # i => Part(d, j)' = Part(d, j)
  BY <1>4, <1>7 DEF Part
<1>12. Part(c, i)' = p
  BY <1>4, <1>7 DEF Part
<1> QED
  BY <1>8, <1>9, <1>10, <1>11, <1>12

(* The steps of a request: keys are found in their order, and what is      *)
(* sent again is sent with a later one.                                    *)
LEMMA RequestSteps ==
    ASSUME IInv, NEW c \in Callers, NEW i \in DOMAIN call[c].parts,
           TakeKey(c, i) \/ Scrape(c, i) \/ Scraped(c, i) \/ Refused(c, i) \/ Clear(c, i) \/ Reply(c, i)
    PROVE  IInv'
<1> DEFINE p == Part(c, i)
           client == ClientOf(c)
           k == key[client]
           n == scrapes[client]
<1>1. PartOk(p, k, n) /\ DOMAIN p = PartFields
  BY DEF IInv, PartsOk, PartOk
<1>2. client \in Clients /\ KeysKnown /\ \A d \in Callers : ClientOf(d) \in Clients
  BY DEF ClientOf, Clients, IInv
<1>3. n \in Nat /\ k \in 0..n /\ DOMAIN key = Clients /\ DOMAIN scrapes = Clients
  BY <1>2 DEF KeysKnown
<1>4. ASSUME NEW q, SetPart(c, i, q), q.ask = p.ask, KeysKnown', PartOk(q, key'[client], scrapes'[client]),
             \A d \in Callers : \A o :
               PartOk(o, key[ClientOf(d)], scrapes[ClientOf(d)]) => PartOk(o, key'[ClientOf(d)], scrapes'[ClientOf(d)])
      PROVE  IInv'
  <2>1. /\ CallsKnown'
        /\ \A d \in Callers : DOMAIN call'[d].parts = DOMAIN call[d].parts /\ ClientOf(d)' = ClientOf(d)
        /\ \A d \in Callers : \A j \in DOMAIN call[d].parts : d # c \/ j # i => Part(d, j)' = Part(d, j)
        /\ Part(c, i)' = q
    BY <1>4, PartChanges
  <2>2. ASSUME NEW d \in Callers, NEW j \in DOMAIN call[d].parts
        PROVE  PartOk(Part(d, j), key[ClientOf(d)], scrapes[ClientOf(d)])'
    <3>1. CASE d = c /\ j = i
      BY <1>4, <2>1, <3>1
    <3>2. CASE ~ (d = c /\ j = i)
      <4>1. PartOk(Part(d, j), key[ClientOf(d)], scrapes[ClientOf(d)])
        BY DEF IInv, PartsOk
      <4>2. Part(d, j)' = Part(d, j) /\ ClientOf(d)' = ClientOf(d)
        BY <2>1, <3>2
      <4> QED
        BY <1>4, <4>1, <4>2
    <3> QED
      BY <3>1, <3>2
  <2> QED
    BY <1>4, <2>1, <2>2 DEF IInv, PartsOk
<1> HIDE DEF p, client
<1>5. ASSUME NEW q, SetPart(c, i, q), q.ask = p.ask, UNCHANGED clients, PartOk(q, k, n)
      PROVE  IInv'
  <2>1. UNCHANGED <<key, scrapes>> /\ KeysKnown'
    BY <1>2, <1>5 DEF clients, KeysKnown
  <2> QED
    BY <1>4, <1>5, <2>1
<1>6. CASE TakeKey(c, i)
  <2> DEFINE q == [p EXCEPT !.at = "sent", !.key = k]
  <2>1. SetPart(c, i, q) /\ UNCHANGED clients /\ p.at = "key" /\ k # 0
    BY <1>6 DEF TakeKey, Now, p, client
  <2>2. DOMAIN q = PartFields /\ q.ask = p.ask /\ q.at = "sent" /\ q.key = k /\ q.old = p.old
    BY <1>1 DEF PartFields
  <2> HIDE DEF q
  <2>3. PartOk(q, k, n)
    BY <1>1, <1>3, <2>1, <2>2 DEF PartOk
  <2> QED
    BY <1>5, <2>1, <2>2, <2>3
<1>7. CASE Scrape(c, i)
  <2> DEFINE q == [p EXCEPT !.at = "scrape"]
  <2>1. SetPart(c, i, q) /\ UNCHANGED <<key, scrapes>> /\ p.at = "key"
    BY <1>7 DEF Scrape, Now, p, client
  <2>2. DOMAIN q = PartFields /\ q.ask = p.ask /\ q.at = "scrape" /\ q.key = p.key /\ q.old = p.old
    BY <1>1 DEF PartFields
  <2> HIDE DEF q
  <2>3. PartOk(q, k, n)
    BY <1>1, <2>1, <2>2 DEF PartOk
  <2>4. KeysKnown'
    BY <1>2, <2>1 DEF KeysKnown
  <2> QED
    BY <1>4, <2>1, <2>2, <2>3, <2>4
<1>8. CASE Scraped(c, i)
  <2> DEFINE q == [p EXCEPT !.at = "sent", !.key = n + 1]
  <2>1. /\ SetPart(c, i, q) /\ p.at = "scrape"
        /\ key' = [key EXCEPT ![client] = n + 1] /\ scrapes' = [scrapes EXCEPT ![client] = n + 1]
    BY <1>8 DEF Scraped, Now, p, client
  <2>2. DOMAIN q = PartFields /\ q.ask = p.ask /\ q.at = "sent" /\ q.key = n + 1 /\ q.old = p.old
    BY <1>1 DEF PartFields
  <2> HIDE DEF q
  <2>3. PartOk(q, n + 1, n + 1)
    BY <1>1, <1>3, <2>1, <2>2 DEF PartOk
  <2>4. KeysKnown' /\ key'[client] = n + 1 /\ scrapes'[client] = n + 1
    BY <1>2, <1>3, <2>1 DEF KeysKnown
  <2>5. ASSUME NEW d \in Callers, NEW o, PartOk(o, key[ClientOf(d)], scrapes[ClientOf(d)])
        PROVE  PartOk(o, key'[ClientOf(d)], scrapes'[ClientOf(d)])
    <3>1. CASE ClientOf(d) = client
      <4>1. PartOk(o, k, n)
        BY <2>5, <3>1
      <4>2. PartOk(o, n + 1, n + 1)
        BY <1>3, <4>1 DEF PartOk
      <4> QED
        BY <2>4, <3>1, <4>2
    <3>2. CASE ClientOf(d) # client
      BY <1>2, <1>3, <2>1, <2>5, <3>2
    <3> QED
      BY <3>1, <3>2
  <2> QED
    BY <1>4, <2>1, <2>2, <2>3, <2>4, <2>5
<1>9. CASE Refused(c, i)
  <2> DEFINE q == [p EXCEPT !.at = "clear"]
  <2>1. SetPart(c, i, q) /\ UNCHANGED clients /\ p.at = "sent"
    BY <1>9 DEF Refused, Now, p
  <2>2. DOMAIN q = PartFields /\ q.ask = p.ask /\ q.at = "clear" /\ q.key = p.key /\ q.old = p.old
    BY <1>1 DEF PartFields
  <2> HIDE DEF q
  <2>3. PartOk(q, k, n)
    BY <1>1, <2>1, <2>2 DEF PartOk
  <2> QED
    BY <1>5, <2>1, <2>2, <2>3
<1>10. \A got, m : m \in Nat => Ended(p, got).ask = p.ask /\ \A l : PartOk(Ended(p, got), l, m)
  BY DEF Ended, Request, PartOk, PartFields
<1>11. CASE Clear(c, i)
  <2> DEFINE q == Again(p)
  <2>1. SetPart(c, i, q) /\ key' = [key EXCEPT ![client] = 0] /\ UNCHANGED scrapes /\ p.at = "clear"
    BY <1>11 DEF Clear, Now, p, client
  <2>2. q.ask = p.ask /\ PartOk(q, 0, n)
    <3>1. CASE p.old = 0
      <4>1. /\ DOMAIN q = PartFields /\ q.ask = p.ask /\ q.at = "key" /\ q.key = 0 /\ q.old = p.key
        BY <1>1, <3>1 DEF PartFields, Again
      <4> HIDE DEF q
      <4> QED
        BY <1>1, <1>3, <4>1 DEF PartOk
    <3>2. CASE p.old # 0
      BY <1>3, <1>10, <3>2 DEF Again
    <3> QED
      BY <3>1, <3>2
  <2> HIDE DEF q
  <2>3. KeysKnown' /\ key'[client] = 0 /\ scrapes'[client] = n
    BY <1>2, <1>3, <2>1 DEF KeysKnown
  <2>4. ASSUME NEW d \in Callers, NEW o, PartOk(o, key[ClientOf(d)], scrapes[ClientOf(d)])
        PROVE  PartOk(o, key'[ClientOf(d)], scrapes'[ClientOf(d)])
    <3>1. key'[ClientOf(d)] \in {0, key[ClientOf(d)]} /\ scrapes'[ClientOf(d)] = scrapes[ClientOf(d)]
      BY <1>2, <1>3, <2>1
    <3> QED
      BY <2>4, <3>1 DEF PartOk
  <2> QED
    BY <1>4, <2>1, <2>2, <2>3, <2>4
<1>12. CASE Reply(c, i)
  <2>1. PICK got \in Answers(Part(c, i).ask) \cup {None} : SetPart(c, i, Ended(p, got))
    BY <1>12 DEF Reply, p
  <2>2. UNCHANGED clients
    BY <1>12 DEF Reply
  <2> QED
    BY <1>3, <1>5, <1>10, <2>1, <2>2
<1> QED
  BY <1>6, <1>7, <1>8, <1>9, <1>11, <1>12

(* A service's answer, of which there is nothing to know yet.              *)
LEMMA PlainSteps ==
    ASSUME IInv, NEW c \in Callers, PlainReply(c)
    PROVE  IInv'
<1> DEFINE p == Part(c, 1)
<1>1. PICK got \in PlainAnswers(p.ask) \cup {None} : SetPart(c, 1, Ended(p, got))
  BY DEF PlainReply
<1>2. 1 \in DOMAIN call[c].parts /\ UNCHANGED clients
  BY DEF PlainReply, Now
<1> DEFINE q == Ended(p, got)
<1>3. q.ask = p.ask /\ \A k : \A n \in Nat : PartOk(q, k, n)
  BY DEF Ended, Request, PartOk, PartFields
<1> HIDE DEF p, q
<1>4. /\ CallsKnown' /\ KeysKnown'
      /\ \A d \in Callers : DOMAIN call'[d].parts = DOMAIN call[d].parts /\ ClientOf(d)' = ClientOf(d)
      /\ \A d \in Callers : \A j \in DOMAIN call[d].parts : d # c \/ j # 1 => Part(d, j)' = Part(d, j)
      /\ Part(c, 1)' = q
  BY <1>1, <1>2, <1>3, PartChanges DEF p, q
<1>5. ASSUME NEW d \in Callers, NEW j \in DOMAIN call[d].parts
      PROVE  PartOk(Part(d, j), key[ClientOf(d)], scrapes[ClientOf(d)])'
  <2>1. UNCHANGED <<key, scrapes>> /\ scrapes[ClientOf(d)] \in Nat
    BY <1>2 DEF clients, IInv, KeysKnown, ClientOf, Clients
  <2>2. PartOk(Part(d, j), key[ClientOf(d)], scrapes[ClientOf(d)])
    BY DEF IInv, PartsOk
  <2> QED
    BY <1>3, <1>4, <2>1, <2>2
<1> QED
  BY <1>4, <1>5 DEF IInv, PartsOk

(* What an import does with an answer.                                     *)
LEMMA ImportStages ==
    ASSUME IInv, NEW c \in Callers,
           \/ FetchToken(c) \/ AskSpclient(c) \/ SpotifyList(c) \/ SpotifyPage(c) \/ SpotifyEmbed(c)
           \/ Deezer(c) \/ TidalProxy(c) \/ TidalWeb(c) \/ YouTube(c) \/ CloudImport(c)
    PROVE  IInv'
<1> DEFINE r == call[c]
           got == Got(r, 1)
           shelves(ts) == {Ids(ts)}
<1>1. Placed(r) /\ DOMAIN r = CallFields
  BY DEF IInv, CallsKnown, Placed
<1>2. ASSUME NEW q, Goes(c, q), Renewed(q)
      PROVE  IInv'
  BY <1>2, CallChanges DEF Goes, Renewed
<1>3. r.op = "import" => Renewed(Failed(r))
  BY <1>1, DoneRenews DEF Failed, Ops
<1>4. ASSUME NEW get, Answered(c, get)
      PROVE  r.op = "import" /\ r.at = "busy" /\ r.parts[1].ask.get = get
  BY <1>4 DEF Answered, AllEnded, Part
<1>5. CASE FetchToken(c)
  <2>1. Answered(c, "token")
    BY <1>5 DEF FetchToken
  <2> DEFINE q == [r EXCEPT !.at = "ready", !.parts = <<>>]
  <2>2. Goes(c, Failed(r)) \/ Goes(c, q)
    BY <1>5 DEF FetchToken
  <2>3. DOMAIN q = CallFields /\ q.op = r.op /\ q.at = "ready" /\ q.parts = <<>> /\ q.keep = r.keep
    BY <1>1 DEF CallFields
  <2>4. r.op = "import" /\ KeepOk(r.keep)
    BY <1>1, <1>4, <2>1 DEF Placed, SpotifyGets
  <2> HIDE DEF q, r
  <2>5. Renewed(q)
    BY <2>3, <2>4 DEF Renewed, Placed, Ops
  <2> QED
    BY <1>2, <1>3, <2>2, <2>4, <2>5
<1>6. CASE AskSpclient(c)
  <2>1. r.op = "import" /\ KeepOk(r.keep)
    BY <1>1, <1>6 DEF AskSpclient, Placed
  <2>2. Renewed(Plain(r, "spclient", token))
    BY <1>1, <2>1, PlainRenews
  <2> QED
    BY <1>2, <1>6, <2>2 DEF AskSpclient
<1>7. CASE SpotifyList(c)
  <2>1. Answered(c, "spclient")
    BY <1>7 DEF SpotifyList
  <2>2. r.op = "import" /\ KeepOk(r.keep)
    BY <1>1, <1>4, <2>1 DEF Placed, SpotifyGets
  <2> DEFINE embed == Plain(r, "embed", 0)
             next(items, title) == [r EXCEPT !.keep.left = items, !.keep.listed = items, !.keep.title = title]
  <2>3. Renewed([embed EXCEPT !.keep = None])
    <3> DEFINE q == [embed EXCEPT !.keep = None]
    <3>1. /\ DOMAIN embed = CallFields /\ embed.op = "import" /\ embed.at = "busy"
          /\ embed.parts = <<PlainRequest(Ask("embed", 0))>>
      BY <1>1, <2>2 DEF Plain, CallFields
    <3>2. Ask("embed", 0).get = "embed"
      BY DEF Ask
    <3>3. DOMAIN q = CallFields /\ q.op = "import" /\ q.at = "busy" /\ q.parts = embed.parts
      BY <3>1 DEF CallFields
    <3> HIDE DEF embed, q
    <3>4. /\ 1 \in DOMAIN embed.parts /\ embed.parts[1].ask.get = "embed"
          /\ \A i \in DOMAIN embed.parts : NewPart(embed.parts[i])
      BY <3>1, <3>2, RequestIsNew
    <3>5. Renewed(q)
      BY <3>3, <3>4 DEF Renewed, Placed, Ops, SpotifyGets
    <3> QED
      BY <3>5 DEF q
  <2>4. ASSUME NEW items, NEW title
        PROVE  Renewed(NextPage(next(items, title)))
    <3> DEFINE q == next(items, title)
    <3>1. DOMAIN q = CallFields /\ q.op = r.op /\ DOMAIN q.keep = DOMAIN r.keep /\ q.keep.tracks = r.keep.tracks
      BY <1>1, <2>2 DEF CallFields, KeepOk
    <3> HIDE DEF q
    <3>2. KeepOk(q.keep)
      BY <2>2, <3>1 DEF KeepOk
    <3> QED
      BY <2>2, <3>1, <3>2, PageRenews DEF q
  <2>5. Goes(c, [embed EXCEPT !.keep = None]) \/ \E items, title : Goes(c, NextPage(next(items, title)))
    BY <1>7 DEF SpotifyList
  <2> HIDE DEF embed, next
  <2> QED
    BY <1>2, <2>3, <2>4, <2>5
<1>8. CASE SpotifyPage(c)
  <2>1. Answered(c, "page")
    BY <1>8 DEF SpotifyPage
  <2>2. r.op = "import" /\ KeepOk(r.keep)
    BY <1>1, <1>4, <2>1 DEF Placed, SpotifyGets
  <2> DEFINE of == Part(c, 1).ask.of[1]
             track == IF got = None THEN Placeholder(of) ELSE SpotifyTrack(got)
             q == [r EXCEPT !.keep.tracks = Append(@, track)]
  <2>3. Sound(track)
    <3>1. Sound(Placeholder(of))
      BY MadeSound DEF Placeholder
    <3> QED
      BY <3>1, MadeSound
  <2>4. Goes(c, NextPage(q))
    BY <1>8 DEF SpotifyPage
  <2> HIDE DEF track
  <2>5. /\ DOMAIN q = CallFields /\ q.op = r.op /\ DOMAIN q.keep = DOMAIN r.keep
        /\ q.keep.tracks = Append(r.keep.tracks, track)
    BY <1>1, <2>2 DEF CallFields, KeepOk
  <2> HIDE DEF q
  <2>6. KeepOk(q.keep)
    <3>1. /\ IsASeq(q.keep.tracks) /\ Len(r.keep.tracks) \in Nat
          /\ DOMAIN r.keep.tracks = 1..Len(r.keep.tracks) /\ DOMAIN q.keep.tracks = 1..(Len(r.keep.tracks) + 1)
          /\ \A i \in DOMAIN r.keep.tracks : q.keep.tracks[i] = r.keep.tracks[i]
          /\ q.keep.tracks[Len(r.keep.tracks) + 1] = track
      BY <2>2, <2>5, OneMore DEF KeepOk, IsASeq
    <3>2. \A i \in DOMAIN q.keep.tracks : i \in DOMAIN r.keep.tracks \/ i = Len(r.keep.tracks) + 1
      BY <3>1
    <3> QED
      BY <2>2, <2>3, <2>5, <3>1, <3>2 DEF KeepOk
  <2> QED
    BY <1>2, <2>2, <2>4, <2>5, <2>6, PageRenews
<1>9. CASE SpotifyEmbed(c)
  <2>1. Answered(c, "embed")
    BY <1>9 DEF SpotifyEmbed
  <2>2. \/ Goes(c, Failed(r))
        \/ \E title, ts, names : Goes(c, Fetched(r, title, All(SpotifyTrack, ts), names))
    BY <1>9 DEF SpotifyEmbed
  <2> QED
    BY <1>1, <1>2, <1>3, <1>4, <2>1, <2>2, ListRenews
<1>10. CASE Deezer(c)
  <2>1. Answered(c, "deezer")
    BY <1>10 DEF Deezer
  <2>2. \/ Goes(c, Failed(r))
        \/ \E title, ts, names : Goes(c, Fetched(r, title, All(DeezerTrack, ts), names))
    BY <1>10 DEF Deezer
  <2> QED
    BY <1>1, <1>2, <1>3, <1>4, <2>1, <2>2, ListRenews
<1>11. CASE TidalProxy(c)
  <2>1. Answered(c, "tidal")
    BY <1>11 DEF TidalProxy
  <2>2. \/ Goes(c, Failed(r)) \/ Goes(c, Plain(r, "web", 0))
        \/ \E title, ts, names : Goes(c, Fetched(r, title, All(TidalTrack, ts), names))
    BY <1>11 DEF TidalProxy
  <2>3. r.op = "import" => Renewed(Plain(r, "web", 0))
    BY <1>1, PlainRenews DEF SpotifyGets
  <2> QED
    BY <1>1, <1>2, <1>3, <1>4, <2>1, <2>2, <2>3, ListRenews
<1>12. CASE TidalWeb(c)
  <2>1. Answered(c, "web")
    BY <1>12 DEF TidalWeb
  <2>2. \/ Goes(c, Failed(r))
        \/ \E title, ts, names : Goes(c, Fetched(r, title, All(WebTrack, ts), names))
        \/ \E title, ts, names : Goes(c, Fetched(r, title, All(LinkedTrack, ts), names))
    BY <1>12 DEF TidalWeb
  <2> QED
    BY <1>1, <1>2, <1>3, <1>4, <2>1, <2>2, ListRenews
<1>13. CASE YouTube(c)
  <2>1. Answered(c, "browse")
    BY <1>13 DEF YouTube
  <2>2. \/ Goes(c, Failed(r))
        \/ \E title, ts, names : Goes(c, Fetched(r, title, All(VideoTrack, ts), names))
    BY <1>13 DEF YouTube
  <2> QED
    BY <1>1, <1>2, <1>3, <1>4, <2>1, <2>2, ListRenews
<1>14. CASE CloudImport(c)
  <2>1. r.op = "import" /\ r.parts[1].ask.get \in {"resolve", "tracks", "userTracks"}
    BY <1>4, <1>14 DEF CloudImport
  <2> QED
    BY <1>1, <1>2, <1>14, <2>1, CloudRenews DEF CloudImport
<1> QED
  BY <1>5, <1>6, <1>7, <1>8, <1>9, <1>10, <1>11, <1>12, <1>13, <1>14

LEMMA ImportStarts ==
    ASSUME IInv, NEW c \in Callers, StartImport(c)
    PROVE  IInv'
<1>1. PICK wish \in Asked :
        LET r == [Idle EXCEPT !.op = "import", !.arg = wish.arg, !.keep = NoKeep]
        IN  call' = [call EXCEPT ![c] =
                IF Find(wish.arg) = <<>> THEN Failed(r)
                ELSE CASE Find(wish.arg)[1] = "spotify"    -> Plain(r, "token", calls + 1)
                       [] Find(wish.arg)[1] = "deezer"     -> Plain(r, "deezer", 0)
                       [] Find(wish.arg)[1] = "tidal"      -> Plain(r, "tidal", 0)
                       [] Find(wish.arg)[1] = "youtube"    -> Plain(r, "browse", 0)
                       [] OTHER                             -> [Stage(r, <<Ask("resolve", wish.arg.to)>>) EXCEPT !.keep = None]]
  BY DEF StartImport
<1> DEFINE r == [Idle EXCEPT !.op = "import", !.arg = wish.arg, !.keep = NoKeep]
           cloud == [Stage(r, <<Ask("resolve", wish.arg.to)>>) EXCEPT !.keep = None]
           service == Find(wish.arg)[1]
           next == CASE service = "spotify" -> Plain(r, "token", calls + 1)
                     [] service = "deezer"  -> Plain(r, "deezer", 0)
                     [] service = "tidal"   -> Plain(r, "tidal", 0)
                     [] service = "youtube" -> Plain(r, "browse", 0)
                     [] OTHER               -> cloud
           q == IF Find(wish.arg) = <<>> THEN Failed(r) ELSE next
<1>2. DOMAIN r = CallFields /\ r.op = "import" /\ r.keep = NoKeep
  BY DEF Idle, CallFields
<1>3. call' = [call EXCEPT ![c] = q]
  BY <1>1
<1> HIDE DEF r
<1>4. KeepOk(NoKeep)
  BY DEF KeepOk, NoKeep, IsASeq
<1>5. Renewed(Failed(r))
  BY <1>2, DoneRenews DEF Failed, Ops
<1>6. /\ Renewed(Plain(r, "token", calls + 1)) /\ Renewed(Plain(r, "deezer", 0))
      /\ Renewed(Plain(r, "tidal", 0)) /\ Renewed(Plain(r, "browse", 0))
  BY <1>2, <1>4, PlainRenews
<1>7. Renewed(cloud)
  <2> DEFINE asks == <<Ask("resolve", wish.arg.to)>>
  <2>1. 1 \in DOMAIN asks /\ asks[1].get = "resolve"
    BY DEF Ask
  <2> HIDE DEF asks
  <2>2. \A k : Renewed([Stage(r, asks) EXCEPT !.keep = k])
    BY <1>2, <2>1, StageRenews DEF Ops, SpotifyGets
  <2> QED
    BY <2>2 DEF asks
<1> HIDE DEF cloud, service
<1>8. Renewed(next)
  BY <1>6, <1>7
<1> HIDE DEF next
<1>9. Renewed(q)
  BY <1>5, <1>8
<1> HIDE DEF q
<1>10. UNCHANGED clients
  BY DEF StartImport
<1> QED
  BY <1>3, <1>9, <1>10, CallChanges DEF Renewed

(* What was found for one more track stands after what was found before.   *)
LEMMA TrackFound ==
    ASSUME IInv, NEW c \in Callers, FindTrack(c)
    PROVE  IInv'
<1> DEFINE r == call[c]
           n == Len(r.out.found) + 1
<1>1. Placed(r) /\ DOMAIN r = CallFields
  BY DEF IInv, CallsKnown, Placed
<1>2. r.at = "listed" /\ r.op = "import" /\ GoodOut(r.out) /\ n \in DOMAIN r.out.tracks
  BY <1>1 DEF FindTrack, Placed
<1>3. PICK ask \in Finds :
        Goes(c, [r EXCEPT !.out.found = Append(r.out.found, [ask |-> ask, got |-> Found(r.out.tracks[n], ask)]),
                          !.at = IF n = Len(r.out.tracks) THEN "done" ELSE @])
  BY DEF FindTrack
<1> DEFINE this == [ask |-> ask, got |-> Found(r.out.tracks[n], ask)]
           found == Append(r.out.found, this)
           q == [r EXCEPT !.out.found = found, !.at = IF n = Len(r.out.tracks) THEN "done" ELSE @]
<1>4. Goes(c, q)
  BY <1>3
<1>5. this.ask = ask /\ this.got = Found(r.out.tracks[n], ask)
  OBVIOUS
<1> HIDE DEF found, this
<1>6. /\ DOMAIN q = CallFields /\ q.op = "import" /\ q.at \in {"listed", "done"} /\ q.parts = r.parts
      /\ DOMAIN q.out = {"title", "tracks", "shelves", "found"}
      /\ q.out.tracks = r.out.tracks /\ q.out.found = found
  BY <1>1, <1>2 DEF CallFields, GoodOut
<1> HIDE DEF q
<1>7. /\ IsASeq(found) /\ DOMAIN r.out.found = 1..Len(r.out.found) /\ DOMAIN found = 1..n /\ Len(r.out.found) \in Nat
      /\ \A i \in DOMAIN r.out.found : found[i] = r.out.found[i]
      /\ found[n] = this
  BY <1>2, OneMore DEF GoodOut, found, IsASeq
<1>8. ASSUME NEW i \in DOMAIN found
      PROVE  /\ i \in DOMAIN r.out.tracks /\ found[i].ask \in Finds
             /\ found[i].got = Found(r.out.tracks[i], found[i].ask)
  <2>1. CASE i = n
    BY <1>2, <1>5, <1>7, <2>1
  <2>2. CASE i # n
    <3>1. i \in DOMAIN r.out.found /\ found[i] = r.out.found[i]
      BY <1>7, <1>8, <2>2
    <3> QED
      BY <1>2, <3>1 DEF GoodOut
  <2> QED
    BY <2>1, <2>2
<1>9. GoodOut(q.out)
  BY <1>2, <1>6, <1>7, <1>8 DEF GoodOut
<1>10. Placed(q)
  BY <1>6, <1>9 DEF Placed, Ops
<1> QED
  BY <1>2, <1>4, <1>6, <1>10, CallChanges DEF Goes

LEMMA KeyExpires ==
    ASSUME IInv, NEW client \in Clients, Expire(client)
    PROVE  IInv'
<1>1. key' = [key EXCEPT ![client] = 0] /\ UNCHANGED <<scrapes, call>>
  BY DEF Expire
<1>2. KeysKnown' /\ CallsKnown'
  BY <1>1 DEF IInv, KeysKnown, CallsKnown
<1>3. ASSUME NEW c \in Callers, NEW i \in DOMAIN call[c].parts
      PROVE  PartOk(Part(c, i), key[ClientOf(c)], scrapes[ClientOf(c)])'
  <2>1. /\ Part(c, i)' = Part(c, i) /\ ClientOf(c)' = ClientOf(c)
        /\ PartOk(Part(c, i), key[ClientOf(c)], scrapes[ClientOf(c)])
    BY <1>1 DEF IInv, PartsOk, Part, ClientOf
  <2>2. key'[ClientOf(c)] \in {0, key[ClientOf(c)]}
    BY <1>1 DEF IInv, KeysKnown, ClientOf, Clients
  <2> QED
    BY <1>1, <2>1, <2>2 DEF PartOk
<1> QED
  BY <1>1, <1>2, <1>3 DEF IInv, PartsOk

LEMMA Invariance ==
    Spec => []IInv
<1>1. ASSUME IInv, [Next]_vars
      PROVE  IInv'
  <2>1. CASE UNCHANGED vars
    BY <1>1, <2>1 DEF vars, clients, IInv, KeysKnown, CallsKnown, PartsOk, PartOk, Part, ClientOf
  <2>2. ASSUME NEW c \in Callers, StartImport(c)
        PROVE  IInv'
    BY <1>1, <2>2, ImportStarts
  <2>3. ASSUME NEW c \in Callers, ImportGoesOn(c)
        PROVE  IInv'
    BY <1>1, <2>3, PlainSteps, ImportStages, TrackFound DEF ImportGoesOn
  <2>4. ASSUME NEW c \in Callers, GoOn(c)
        PROVE  IInv'
    <3>1. Placed(call[c]) /\ call[c].at = "busy" /\ call[c].op # "import"
      BY <1>1, <2>4 DEF GoOn, AllEnded, IInv, CallsKnown
    <3>2. Renewed(GoesOn(call[c]))
      BY <3>1, GoesOnRenews
    <3>3. call' = [call EXCEPT ![c] = GoesOn(call[c])] /\ UNCHANGED clients
      BY <2>4 DEF GoOn
    <3> QED
      BY <1>1, <3>2, <3>3, CallChanges DEF Renewed
  <2>5. ASSUME NEW c \in Callers, Requested(c)
        PROVE  IInv'
    BY <1>1, <2>5, RequestSteps DEF Requested
  <2>6. ASSUME NEW c \in Callers, Call(c)
        PROVE  IInv'
    <3>1. PICK wish \in Asked :
            /\ wish.op # "import"
            /\ call' = [call EXCEPT ![c] = Started([Idle EXCEPT !.op = wish.op, !.arg = wish.arg])]
      BY <2>6 DEF Call
    <3>2. Renewed(Started([Idle EXCEPT !.op = wish.op, !.arg = wish.arg]))
      BY <3>1, StartedRenews
    <3>3. UNCHANGED clients
      BY <2>6 DEF Call
    <3> QED
      BY <1>1, <3>1, <3>2, <3>3, CallChanges DEF Renewed
  <2>7. ASSUME NEW client \in Clients, Expire(client)
        PROVE  IInv'
    BY <1>1, <2>7, KeyExpires
  <2> QED
    BY <1>1, <2>1, <2>2, <2>3, <2>4, <2>5, <2>6, <2>7 DEF Next, CloudStep
<1> QED
  BY <1>1, Initially, PTL DEF Spec

-----------------------------------------------------------------------------
(* getClientID and get: whatever other requests store and drop in between, *)
(* a request that was refused is made again with a key that was found      *)
(* after the one it was refused.                                           *)
THEOREM KeysAreRenewed ==
    Spec => []RetriedAnew
<1>1. IInv => RetriedAnew
  BY DEF IInv, PartsOk, PartOk, RetriedAnew, Now
<1> QED
  BY <1>1, Invariance, PTL

-----------------------------------------------------------------------------
(* What findTrack decides                                                  *)

LEMMA SmallestNumber ==
    ASSUME NEW S, S \subseteq Nat, S # {}
    PROVE  \E m \in S : \A x \in S : m <= x
<1>1. PICK m \in S : \A x \in S : ~ (<<x, m>> \in OpToRel(<, Nat))
  BY NatLessThanWellFounded, WFMin
<1>2. \A x \in S : ~ (x < m)
  BY <1>1 DEF OpToRel
<1> QED
  BY <1>2

LEMMA MatchFields ==
    ASSUME NEW m \in Matches
    PROVE  m.id \in Nat \ {0} /\ m.score \in 0..100
BY DEF Matches

LEMMA Percent ==
    ASSUME NEW a \in 0..100, NEW b \in 0..100
    PROVE  /\ 100 - a \in Nat
           /\ 100 - a <= 100 - b => b <= a
           /\ a > 0 /\ a <= b => b > 0
           /\ a >= 50 => a > 0
           /\ a >= 50 /\ a <= b => b >= 50
OBVIOUS

(* Of several matches one that is as good as any is picked.                *)
LEMMA TopIsBest ==
    ASSUME NEW found \in Seq(Matches), NEW n \in DOMAIN found, found[n].score > 0
    PROVE  /\ Top(found, "score") \in Matches
           /\ \A j \in DOMAIN found : found[j].score <= Top(found, "score").score
<1> DEFINE best == {i \in DOMAIN found : found[i]["score"] > 0 /\ \A j \in DOMAIN found : found[j]["score"] <= found[i]["score"]}
           worse == {100 - found[i].score : i \in DOMAIN found}
<1>1. /\ DOMAIN found \subseteq Nat /\ \A i \in DOMAIN found : found[i] \in Matches
      /\ \A i \in DOMAIN found : found[i].score \in 0..100
  <2>1. DOMAIN found \subseteq Nat /\ \A i \in DOMAIN found : found[i] \in Matches
    OBVIOUS
  <2> QED
    BY <2>1, MatchFields
<1>2. PICK m \in worse : \A x \in worse : m <= x
  <2>1. \A i \in DOMAIN found : 100 - found[i].score \in Nat
    BY <1>1, Percent
  <2>2. worse \subseteq Nat
    BY <2>1
  <2>3. worse # {}
    OBVIOUS
  <2> HIDE DEF worse
  <2> QED
    BY <2>2, <2>3, SmallestNumber
<1>3. PICK i \in DOMAIN found : m = 100 - found[i].score
  BY <1>2
<1>4. ASSUME NEW j \in DOMAIN found
      PROVE  found[j].score <= found[i].score
  <2>1. 100 - found[i].score <= 100 - found[j].score
    BY <1>2, <1>3
  <2>2. found[i].score \in 0..100 /\ found[j].score \in 0..100
    BY <1>1
  <2> QED
    BY <2>1, <2>2, Percent
<1>5. i \in best
  <2>1. found[i].score > 0
    <3>1. found[i].score \in 0..100 /\ found[n].score \in 0..100 /\ found[n].score <= found[i].score
      BY <1>1, <1>4
    <3> QED
      BY <3>1, Percent
  <2> QED
    BY <1>4, <2>1
<1>6. PICK f \in best : \A j \in best : f <= j
  <2>1. best \subseteq Nat
    BY <1>1
  <2> HIDE DEF best
  <2> QED
    BY <1>5, <2>1, SmallestNumber
<1>7. Top(found, "score") = found[CHOOSE k \in best : \A j \in best : k <= j]
  BY <1>5 DEF Top
<1> DEFINE first == CHOOSE k \in best : \A j \in best : k <= j
<1>8. first \in best
  BY <1>6
<1> HIDE DEF first
<1>9. Top(found, "score") = found[first]
  BY <1>7 DEF first
<1> QED
  BY <1>1, <1>8, <1>9

(* A match of at least a half is enough.                                   *)
LEMMA FoundOnTidal ==
    ASSUME NEW track, NEW ask \in Finds, ask.byArtist # None, ~ ask.foreign,
           \E n \in DOMAIN ask.byArtist : ask.byArtist[n].score >= 50
    PROVE  SearchByText(track, ask) # 0
<1> DEFINE best == Top(ask.byArtist, "score")
<1>1. ask.byArtist \in Seq(Matches)
  BY FindsAssumption
<1>2. PICK n \in DOMAIN ask.byArtist : ask.byArtist[n].score >= 50
  OBVIOUS
<1>3. ask.byArtist[n].score \in 0..100
  <2>1. ask.byArtist[n] \in Matches
    BY <1>1
  <2> QED
    BY <2>1, MatchFields
<1>4. best \in Matches /\ ask.byArtist[n].score <= best.score
  <2>1. ask.byArtist[n].score > 0
    BY <1>2, <1>3
  <2> QED
    BY <1>1, <2>1, TopIsBest
<1>5. best # None /\ best.score >= 50 /\ best.id # 0
  <2>1. best.id \in Nat \ {0} /\ best.score \in 0..100
    BY <1>4, MatchFields
  <2> QED
    BY <1>2, <1>3, <1>4, <2>1, Percent, FindsAssumption
<1>6. Candidates(track, ask) = ask.byArtist
  BY DEF Candidates, OrEmpty
<1> HIDE DEF best
<1>7. SearchByText(track, ask) = best.id
  BY <1>5, <1>6 DEF SearchByText, best
<1> QED
  BY <1>5, <1>7

LEMMA SavedIsFound ==
    ASSUME NEW provider, NEW id, NEW tier, NEW also
    PROVE  LET got == Saved(Source(provider, id, tier), also)
           IN  got # NotFound /\ got.uri.tier = tier /\ Source(provider, id, tier) \in got.sources
<1> DEFINE got == Saved(Source(provider, id, tier), also)
<1>1. got.uri = Source(provider, id, tier) /\ got.uri \in got.sources
  BY DEF Saved
<1>2. NotFound.sources = {}
  BY DEF NotFound
<1>3. Source(provider, id, tier).tier = tier
  BY DEF Source
<1> HIDE DEF got
<1>4. got # NotFound /\ got.uri.tier = tier /\ Source(provider, id, tier) \in got.sources
  BY <1>1, <1>2, <1>3
<1> QED
  BY <1>4 DEF got

(* BestSource, for one track.                                              *)
GotBest(track, ask, got) ==
    LET finds == ask.byArtist # None /\ ~ ask.foreign /\ \E n \in DOMAIN ask.byArtist : ask.byArtist[n].score >= 50
    IN  /\ ask.proxy /\ (("td" \in ask.enabled /\ finds) \/ (track.tidal > 0 /\ ask.told))
             => got # NotFound /\ got.uri.tier = "lossless"
        /\ track.uri # "" => got # NotFound /\ track.uri \in {s.provider : s \in got.sources}
        /\ ask.matches \cap ask.enabled # {} => got # NotFound

(* findTrack's order of sources.                                           *)
LEMMA FoundIsBest ==
    ASSUME NEW track, Sound(track), NEW ask \in Finds
    PROVE  GotBest(track, ask, Found(track, ask))
<1> DEFINE got == Found(track, ask)
           finds == ask.byArtist # None /\ ~ ask.foreign /\ \E n \in DOMAIN ask.byArtist : ask.byArtist[n].score >= 50
           told == track.tidal > 0 /\ ask.proxy /\ ask.told
           own == Source(track.uri, track.of, "standard")
           Lossless(r) == r # NotFound /\ r.uri.tier = "lossless"
<1>1. ASSUME ask.proxy, "td" \in ask.enabled, finds
      PROVE  OnTidal(track, ask) # 0
  BY <1>1, FoundOnTidal DEF OnTidal
<1>2. \A id, also : Lossless(Saved(Source("td", id, "lossless"), also))
  BY SavedIsFound
<1>3. own.provider = track.uri
  BY DEF Source
<1>4. told => Lossless(got)
  BY <1>2 DEF Found
<1>5. ASSUME ~ told, track.uri # ""
      PROVE  /\ got # NotFound /\ own \in got.sources
             /\ OnTidal(track, ask) # 0 => Lossless(got)
  <2>1. got = WithSource(track, ask)
    BY <1>5 DEF Found
  <2>2. CASE OnTidal(track, ask) # 0
    <3>1. got = Saved(Source("td", OnTidal(track, ask), "lossless"), {own})
      BY <2>1, <2>2 DEF WithSource
    <3>2. Lossless(got)
      BY <1>2, <3>1
    <3>3. own \in got.sources
      BY <3>1 DEF Saved
    <3> QED
      BY <3>2, <3>3
  <2>3. CASE OnTidal(track, ask) = 0
    <3>1. got = Saved(own, {})
      BY <2>1, <2>3 DEF WithSource
    <3> QED
      BY <2>3, <3>1, SavedIsFound
  <2> QED
    BY <2>2, <2>3
<1>6. ByISRC(track, ask) # NotFound => Lossless(ByISRC(track, ask))
  <2>1. \/ ByISRC(track, ask) = NotFound
        \/ \E provider, also : ByISRC(track, ask) = Saved(Source(provider, track.of, "lossless"), also)
    BY DEF ByISRC
  <2> QED
    BY <2>1, SavedIsFound
<1>7. ask.matches \cap ask.enabled # {} => ByFallback(track, ask) # NotFound
  <2> DEFINE order == <<"sp", "yt", "sc">>
             knows == ask.enabled \cap ask.matches
  <2>1. Range(order) = {"sp", "yt", "sc"}
    <3>1. DOMAIN order = 1..3 /\ order[1] = "sp" /\ order[2] = "yt" /\ order[3] = "sc"
      OBVIOUS
    <3> HIDE DEF order
    <3> QED
      BY <3>1 DEF Range
  <2>2. ask.matches \subseteq {"sp", "yt", "sc"}
    BY FindsAssumption
  <2>3. knows # {} => knows \cap Range(order) # {}
    BY <2>1, <2>2
  <2>4. knows \cap Range(order) # {} =>
          ByFallback(track, ask) = Saved(Source(FirstOf(order, knows), track.of, "standard"), {})
    BY DEF ByFallback
  <2> HIDE DEF order
  <2>5. knows \cap Range(order) # {} => ByFallback(track, ask) # NotFound
    BY <2>4, SavedIsFound
  <2> QED
    BY <2>3, <2>5
<1>8. ASSUME ~ told, track.uri = ""
      PROVE  /\ OnTidal(track, ask) # 0 => Lossless(got)
             /\ ask.matches \cap ask.enabled # {} => got # NotFound
  <2>1. CASE ByISRC(track, ask) # NotFound
    BY <1>6, <1>8, <2>1 DEF Found
  <2>2. CASE ByISRC(track, ask) = NotFound /\ OnTidal(track, ask) # 0
    BY <1>2, <1>8, <2>2 DEF Found
  <2>3. CASE ByISRC(track, ask) = NotFound /\ OnTidal(track, ask) = 0
    BY <1>7, <1>8, <2>3 DEF Found
  <2> QED
    BY <2>1, <2>2, <2>3
<1>9. told => track.uri = ""
  BY DEF Sound
<1> HIDE DEF got, own
<1>10. ask.proxy /\ (("td" \in ask.enabled /\ finds) \/ (track.tidal > 0 /\ ask.told)) => Lossless(got)
  <2> HIDE DEF finds
  <2> QED
    BY <1>1, <1>4, <1>5, <1>8
<1>11. track.uri # "" => got # NotFound /\ track.uri \in {s.provider : s \in got.sources}
  BY <1>3, <1>5, <1>9
<1>12. ask.matches \cap ask.enabled # {} => got # NotFound
  BY <1>4, <1>5, <1>8
<1> QED
  BY <1>10, <1>11, <1>12 DEF got, GotBest

(* findTrack: whatever the providers answer, a track that Tidal confirms   *)
(* or matches well enough is streamed from there without loss, one that    *)
(* came with a source keeps it, and one that some enabled provider matched *)
(* is not left out.                                                        *)
THEOREM TracksGetTheirBest ==
    Spec => []BestSource
<1>1. IInv => BestSource
  <2>1. ASSUME IInv, NEW c \in Callers, Import(c)
        PROVE  GoodOut(call[c].out)
    BY <2>1 DEF Import, IInv, CallsKnown, Placed
  <2>2. ASSUME IInv, NEW c \in Callers, Import(c), NEW i \in DOMAIN call[c].out.found
        PROVE  GotBest(call[c].out.tracks[i], call[c].out.found[i].ask, call[c].out.found[i].got)
    <3>1. /\ Sound(call[c].out.tracks[i]) /\ call[c].out.found[i].ask \in Finds
          /\ call[c].out.found[i].got = Found(call[c].out.tracks[i], call[c].out.found[i].ask)
      BY <2>1, <2>2 DEF GoodOut
    <3> QED
      BY <3>1, FoundIsBest
  <2> QED
    BY <2>2 DEF BestSource, GotBest
<1> QED
  BY <1>1, Invariance, PTL

-----------------------------------------------------------------------------
(* Playlists: the invariant                                                *)

NameSet == {"none", "importing", "failed", "title", "mine"}
ResultSet == [index : Nat, uri : Uris \cup {Job!NotFound}]
RowSet == [id : Nat, uri : Uris \cup {"mine"}, pos : Nat, by : Nat]
JobSet ==
    [at : {"none", "waiting", "searching", "adding", "row", "cover", "naming", "done"}, next : Nat,
     busy : SUBSET Nat, results : Seq(ResultSet), used : Seq(Uris), copy : NameSet, found : SUBSET Uris]
Statements == {"max", "insert", "find", "delete", "list", "number", "save", "clear", "drop"}
PlanSet == [p : Jobs, todo : Seq(Statements), copy : NameSet, max : Nat \cup {-1}, rows : Seq(RowSet)]

JobsTyped ==
    /\ name \in [Jobs -> NameSet] /\ nextId \in [Jobs -> Nat]
    /\ tracks \in [Jobs -> SUBSET RowSet] /\ \A p \in Jobs : IsFiniteSet(tracks[p])
    /\ job \in [Jobs -> JobSet]
    /\ DOMAIN req = Editors /\ \A c \in Editors : req[c] = Job!Idle \/ (req[c] \in PlanSet /\ req[c].todo # <<>>)
    /\ edited \in [Jobs -> {"no", "yes", "mixed"}]

(* The rows of a playlist have ids of their own.                           *)
RowsApart ==
    \A p \in Jobs : \A r \in tracks[p] : r.id < nextId[p] /\ \A s \in tracks[p] : r.id = s.id => r = s

(* A request numbers what it has listed.                                   *)
ListsThenNumbers(todo) ==
    /\ \A i \in 2..Len(todo) : todo[i] = "number" => todo[i - 1] = "list"
    /\ \A i \in 1..Len(todo) : todo[i] = "list" => i < Len(todo) /\ todo[i + 1] = "number"

Numbers(r, p) == r.p = p /\ r.todo # <<>> /\ Head(r.todo) = "number"

RequestsPlanned ==
    \A c \in Editors :
        /\ ListsThenNumbers(req[c].todo)
        /\ \A p \in Jobs : Numbers(req[c], p) =>
            /\ req[c].rows # <<>>
            /\ \A i \in 1..Len(req[c].rows) : req[c].rows[i].id < nextId[p]

(* What a job has found of a playlist's tracks and what it has added.      *)
UrisOf(results) == {results[i].uri : i \in 1..Len(results)}

Searched(p, j) ==
    /\ j.next \in 1..(Length[p] + 1) /\ j.busy \subseteq 1..(j.next - 1)
    /\ \A i \in 1..Len(j.results) :
        /\ j.results[i].index \in (1..(j.next - 1)) \ j.busy
        /\ \A k \in 1..Len(j.results) : j.results[i].index = j.results[k].index => i = k
    /\ \A n \in (1..(j.next - 1)) \ j.busy : \E i \in 1..Len(j.results) : j.results[i].index = n
    /\ j.found = UrisOf(j.results) \ {Job!NotFound}

InTurn(p, j) ==
    /\ Len(j.results) <= Length[p]
    /\ \A i \in 1..Len(j.results) : j.results[i].index = Length[p] - Len(j.results) + i

JobOk(p, j) ==
    /\ j.at \notin {"adding", "row", "cover", "naming"} => j.used = <<>>
    /\ j.at \in {"none", "waiting"} => j.next = 1 /\ j.busy = {} /\ j.results = <<>> /\ j.found = {}
    /\ j.at = "searching" => Searched(p, j)
    /\ j.at = "adding" => InTurn(p, j)
    /\ j.at \in {"row", "cover", "naming"} => j.results = <<>> /\ j.used # <<>>
    /\ j.at \in {"row", "cover"} => j.copy # "none"
    /\ \A i \in 1..Len(j.used) : j.used[i] # Job!NotFound /\ \A k \in 1..Len(j.used) : j.used[i] = j.used[k] => i = k

FromSource(p) == {r \in tracks[p] : r.by # 0}

InOrder(p) ==
    \A r, s \in FromSource(p) : (r.by < s.by => r.pos < s.pos) /\ (r.by = s.by \/ r.uri = s.uri => r = s)

Filling(p) ==
    \A r \in FromSource(p) :
        /\ r.pos < Len(job[p].used) /\ r.uri = job[p].used[r.pos + 1]
        /\ Job!At(p, "adding") => r.by <= Length[p] - Len(job[p].results)

(* A playlist that only its import has touched.                            *)
Untouched(p) ==
    LET j == job[p]
    IN  /\ j.at # "none" => name[p] # "none"
        /\ \A r \in tracks[p] : r.by # 0
        /\ j.at # "done" => \A k \in 1..Len(j.used) : \E r \in tracks[p] : r.pos = k - 1 /\ r.uri = j.used[k]
        /\ j.at \in {"adding", "row", "cover", "naming"} =>
            j.found = (Job!ToSet(j.used) \cup UrisOf(j.results)) \ {Job!NotFound}
        /\ j.at = "done" =>
            /\ {r.uri : r \in tracks[p]} = j.found
            /\ {r.pos : r \in tracks[p]} = 0..(Cardinality(j.found) - 1)
            /\ name[p] = IF j.found = {} THEN "failed" ELSE "title"

(* While a request numbers a playlist's tracks: those it still has to      *)
(* number are in order, and those it has numbered are, and come before.    *)
OnList(r, t) == \E i \in 1..Len(r.rows) : r.rows[i].id = t.id

ListInOrder(r) ==
    \A i, k \in 1..Len(r.rows) :
        /\ r.rows[i].id = r.rows[k].id => i = k
        /\ r.rows[i].by # 0 /\ r.rows[k].by # 0 =>
            (i < k => r.rows[i].by < r.rows[k].by) /\ (r.rows[i].uri = r.rows[k].uri => i = k)

ListAgrees(r, p) ==
    \A i \in 1..Len(r.rows) : \A t \in tracks[p] :
        r.rows[i].id = t.id => r.rows[i].by = t.by /\ r.rows[i].uri = t.uri

NumberedFirst(r, p) ==
    \A t \in FromSource(p) : ~ OnList(r, t) =>
        /\ t.pos <= r.max
        /\ \A i \in 1..Len(r.rows) : r.rows[i].by # 0 => t.by < r.rows[i].by /\ t.uri # r.rows[i].uri
        /\ \A s \in FromSource(p) : ~ OnList(r, s) =>
            (t.by < s.by => t.pos < s.pos) /\ (t.by = s.by \/ t.uri = s.uri => t = s)

Numbering(c, p) ==
    /\ Job!At(p, "done") /\ \A d \in Editors : Numbers(req[d], p) => d = c
    /\ ListInOrder(req[c]) /\ ListAgrees(req[c], p) /\ NumberedFirst(req[c], p)

OrderInv(p) ==
    edited[p] # "mixed" =>
        /\ ~ Job!At(p, "done") => Filling(p)
        /\ \A c \in Editors : Numbers(req[c], p) => Numbering(c, p)
        /\ (\A c \in Editors : ~ Numbers(req[c], p)) => InOrder(p)

Alright(p) == JobOk(p, job[p]) /\ OrderInv(p) /\ (edited[p] = "no" => Untouched(p))

PlaylistInv == JobsTyped /\ RowsApart /\ RequestsPlanned /\ \A p \in Jobs : Alright(p)

-----------------------------------------------------------------------------
(* Operators                                                               *)

LEMMA FiniteHasMax ==
    ASSUME NEW S, S \subseteq Nat, IsFiniteSet(S), S # {}
    PROVE  \E m \in S : \A x \in S : x <= m
<1> DEFINE Bounded(T) == \E m \in T : \A x \in T : x <= m
           Sizes == {n \in Nat : \E T \in SUBSET Nat : IsFiniteSet(T) /\ T # {} /\ Cardinality(T) = n /\ ~ Bounded(T)}
<1>1. SUFFICES Sizes = {}
  BY <1>1, FS_CardinalityType
<1>2. SUFFICES ASSUME Sizes # {}
               PROVE  FALSE
  OBVIOUS
<1>3. PICK n \in Sizes : \A k \in Sizes : ~ (<<k, n>> \in OpToRel(<, Nat))
  BY <1>2, NatLessThanWellFounded, WFMin
<1>4. \A k \in Sizes : ~ (k < n)
  BY <1>3 DEF OpToRel
<1>5. PICK T \in SUBSET Nat : IsFiniteSet(T) /\ T # {} /\ Cardinality(T) = n /\ ~ Bounded(T)
  OBVIOUS
<1>6. PICK x \in T : TRUE
  BY <1>5
<1>7. IsFiniteSet(T \ {x}) /\ Cardinality(T \ {x}) = n - 1 /\ n \in Nat
  BY <1>5, <1>6, FS_RemoveElement, FS_CardinalityType
<1>8. CASE T \ {x} = {}
  BY <1>5, <1>6, <1>8
<1>9. CASE T \ {x} # {}
  <2>1. n - 1 \in Nat
    BY <1>7, FS_CardinalityType
  <2>2. Bounded(T \ {x})
    BY <1>4, <1>7, <1>9, <2>1
  <2>3. PICK m \in T \ {x} : \A y \in T \ {x} : y <= m
    BY <2>2
  <2> QED
    BY <1>5, <1>6, <2>3
<1> QED
  BY <1>8, <1>9

LEMMA MaxIsTyped ==
    ASSUME JobsTyped, NEW p \in Jobs
    PROVE  Job!MaxPosition(p) \in Nat \cup {-1}
<1> DEFINE S == {r.pos : r \in tracks[p]}
<1>1. CASE tracks[p] = {}
  BY <1>1 DEF Job!MaxPosition
<1>2. CASE tracks[p] # {}
  <2>1. tracks[p] \subseteq RowSet /\ IsFiniteSet(tracks[p])
    BY DEF JobsTyped
  <2>2. S \subseteq Nat /\ S # {}
    BY <1>2, <2>1 DEF RowSet
  <2>3. [r \in tracks[p] |-> r.pos] \in Surjection(tracks[p], S)
    BY DEF Surjection
  <2>4. IsFiniteSet(S)
    BY <2>1, <2>3, FS_Surjection
  <2>5. \E m \in S : \A x \in S : m >= x
    BY <2>2, <2>4, FiniteHasMax
  <2>6. Job!Max(S) \in S
    BY <2>5 DEF Job!Max
  <2> QED
    BY <1>2, <2>2, <2>6 DEF Job!MaxPosition
<1> QED
  BY <1>1, <1>2

(* A list that says every row once says all of them.                       *)
LEMMA OrderedHasAll ==
    ASSUME JobsTyped, NEW p \in Jobs, NEW s \in Job!Ordered(p)
    PROVE  /\ s \in Seq(RowSet) /\ Len(s) \in Nat
           /\ \A i \in 1..Len(s) : s[i] \in tracks[p] /\ \A k \in 1..Len(s) : s[i] = s[k] => i = k
           /\ \A t \in tracks[p] : \E i \in 1..Len(s) : s[i] = t
           /\ \A i, k \in 1..Len(s) : i < k => s[i].pos <= s[k].pos
<1> DEFINE n == Cardinality(tracks[p])
<1>1. tracks[p] \subseteq RowSet /\ IsFiniteSet(tracks[p])
  BY DEF JobsTyped
<1>2. n \in Nat
  BY <1>1, FS_CardinalityType
<1>3. s \in [1..n -> tracks[p]] /\ \A i, k \in 1..n : i # k => s[i] # s[k]
  <2>1. Job!Cardinality(tracks[p]) = n
    BY Zenon DEF Job!Cardinality, Cardinality
  <2> HIDE DEF n
  <2> QED
    BY <2>1 DEF Job!Ordered, Job!SetToSeqs
<1> HIDE DEF n
<1>4. s \in Seq(RowSet) /\ Len(s) = n
  BY <1>1, <1>2, <1>3
<1>5. s \in Injection(1..n, tracks[p])
  BY <1>3 DEF Injection, IsInjective
<1>6. Cardinality(1..n) = n /\ IsFiniteSet(1..n)
  BY <1>2, FS_Interval
<1>7. s \in Surjection(1..n, tracks[p])
  BY <1>1, <1>5, <1>6, FS_Injection DEF n
<1>8. \A t \in tracks[p] : \E i \in 1..n : s[i] = t
  BY <1>7 DEF Surjection
<1>9. \A i, k \in 1..Len(s) : i < k => s[i].pos <= s[k].pos
  BY DEF Job!Ordered
<1> QED
  BY <1>2, <1>3, <1>4, <1>8, <1>9

-----------------------------------------------------------------------------
(* A step of a job                                                         *)

(* What it leaves alone: other playlists, the requests and their history.  *)
JobStep(p) ==
    /\ \A q \in Jobs \ {p} : job'[q] = job[q] /\ name'[q] = name[q] /\ tracks'[q] = tracks[q] /\ nextId'[q] = nextId[q]
    /\ req' = req /\ edited' = edited

LEMMA JobFrame ==
    ASSUME PlaylistInv, NEW p \in Jobs, JobStep(p), JobsTyped', Alright(p)',
           nextId'[p] >= nextId[p],
           \A r \in tracks'[p] : r.id < nextId'[p] /\ \A s \in tracks'[p] : r.id = s.id => r = s
    PROVE  PlaylistInv'
<1>1. RowsApart'
  BY DEF PlaylistInv, RowsApart, JobStep
<1>2. \A q \in Jobs : nextId'[q] >= nextId[q] /\ nextId[q] \in Nat /\ nextId'[q] \in Nat
  <2>1. \A q \in Jobs : nextId[q] \in Nat /\ nextId'[q] \in Nat
    BY DEF PlaylistInv, JobsTyped
  <2> QED
    BY <2>1 DEF JobStep
<1>3. RequestsPlanned'
  <2>1. ASSUME NEW c \in Editors, NEW q \in Jobs, Numbers(req[c], q)
        PROVE  req[c].rows # <<>> /\ \A i \in 1..Len(req[c].rows) : req[c].rows[i].id < nextId'[q]
    <3>1. req[c] \in PlanSet
      BY <2>1 DEF PlaylistInv, JobsTyped, Numbers, Job!Idle
    <3>2. req[c].rows \in Seq(RowSet)
      BY <3>1 DEF PlanSet
    <3>3. \A i \in 1..Len(req[c].rows) : req[c].rows[i].id \in Nat
      <4>1. \A i \in 1..Len(req[c].rows) : req[c].rows[i] \in RowSet
        BY <3>2
      <4> QED
        BY <4>1 DEF RowSet
    <3>4. req[c].rows # <<>> /\ \A i \in 1..Len(req[c].rows) : req[c].rows[i].id < nextId[q]
      BY <2>1 DEF PlaylistInv, RequestsPlanned
    <3> QED
      BY <1>2, <3>3, <3>4
  <2> QED
    BY <2>1 DEF PlaylistInv, RequestsPlanned, JobStep
<1>4. ASSUME NEW q \in Jobs \ {p}
      PROVE  Alright(q)'
  <2>1. Alright(q)
    BY DEF PlaylistInv
  <2>2. job'[q] = job[q] /\ name'[q] = name[q] /\ tracks'[q] = tracks[q] /\ req' = req /\ edited' = edited
    BY DEF JobStep
  <2>3. /\ FromSource(q)' = FromSource(q) /\ (Job!At(q, "done") <=> Job!At(q, "done")')
        /\ (Job!At(q, "adding") <=> Job!At(q, "adding")')
    BY <2>2 DEF FromSource, Job!At
  <2>4. /\ JobOk(q, job[q])' /\ (Untouched(q) => Untouched(q)') /\ (InOrder(q) => InOrder(q)')
        /\ (Filling(q) => Filling(q)')
    BY <2>1, <2>2, <2>3 DEF Alright, Untouched, InOrder, Filling, JobOk, Searched, InTurn
  <2>5. \A c \in Editors : Numbering(c, q) => Numbering(c, q)'
    <3>1. ASSUME NEW c \in Editors
          PROVE  /\ ListInOrder(req[c])' <=> ListInOrder(req[c])
                 /\ ListAgrees(req[c], q)' <=> ListAgrees(req[c], q)
                 /\ NumberedFirst(req[c], q)' <=> NumberedFirst(req[c], q)
      <4>1. \A t : OnList(req[c], t)' <=> OnList(req[c], t)
        BY <2>2 DEF OnList
      <4>2. NumberedFirst(req[c], q)' <=> NumberedFirst(req[c], q)
        BY <2>2, <2>3, <4>1 DEF NumberedFirst
      <4> QED
        BY <2>2, <4>2 DEF ListInOrder, ListAgrees
    <3> QED
      BY <2>2, <2>3, <3>1 DEF Numbering, Numbers
  <2> QED
    BY <2>1, <2>2, <2>3, <2>4, <2>5 DEF Alright, OrderInv, Numbers
<1> QED
  BY <1>1, <1>3, <1>4 DEF PlaylistInv

(* While a job goes on nobody who numbers its tracks is alone with them.   *)
LEMMA OrderWhileFilling ==
    ASSUME PlaylistInv, NEW p \in Jobs, ~ Job!At(p, "done"), JobStep(p),
           edited[p] # "mixed" => (~ Job!At(p, "done") => Filling(p))' /\ InOrder(p)'
    PROVE  OrderInv(p)'
<1>1. edited[p] # "mixed" => \A c \in Editors : ~ Numbers(req[c], p)
  BY DEF PlaylistInv, Alright, OrderInv, Numbering
<1> QED
  BY <1>1 DEF OrderInv, JobStep, Numbers

LEMMA InOrderNow ==
    ASSUME PlaylistInv, NEW p \in Jobs, ~ Job!At(p, "done"), edited[p] # "mixed"
    PROVE  Filling(p) /\ InOrder(p)
BY DEF PlaylistInv, Alright, OrderInv, Numbering

(* A step that adds no rows.                                               *)
LEMMA JobAlone ==
    ASSUME PlaylistInv, NEW p \in Jobs, ~ Job!At(p, "done"), NEW j \in JobSet, NEW n \in NameSet,
           job' = [job EXCEPT ![p] = j], name' = [name EXCEPT ![p] = n], UNCHANGED <<tracks, nextId, req, edited>>,
           JobOk(p, j), edited[p] = "no" => Untouched(p)',
           edited[p] # "mixed" /\ Filling(p) => (~ Job!At(p, "done") => Filling(p))'
    PROVE  PlaylistInv'
<1>1. JobsTyped' /\ JobStep(p) /\ job'[p] = j
  BY DEF PlaylistInv, JobsTyped, JobStep
<1>2. JobOk(p, job[p])'
  <2>1. JobOk(p, job'[p])
    BY <1>1
  <2> HIDE DEF JobsTyped
  <2> QED
    BY <2>1 DEF JobOk, Searched, InTurn
<1>3. OrderInv(p)'
  <2>1. InOrder(p) => InOrder(p)'
    BY DEF InOrder, FromSource
  <2> QED
    BY <1>1, <2>1, OrderWhileFilling, InOrderNow
<1>4. /\ nextId'[p] >= nextId[p]
      /\ \A r \in tracks'[p] : r.id < nextId'[p] /\ \A s \in tracks'[p] : r.id = s.id => r = s
  BY DEF PlaylistInv, JobsTyped, RowsApart
<1> QED
  BY <1>1, <1>2, <1>3, <1>4, JobFrame DEF Alright

LEMMA StartsAndWaits ==
    ASSUME Job!PlaylistsAssumption, PlaylistInv, NEW p \in Jobs, Job!StartImport(p) \/ Job!Acquire(p)
    PROVE  PlaylistInv'
<1> DEFINE j == [job[p] EXCEPT !.at = IF Job!At(p, "none") THEN "waiting" ELSE "searching"]
           n == IF Job!At(p, "none") THEN "importing" ELSE name[p]
<1>1. job[p] \in JobSet /\ name[p] \in NameSet /\ job[p].at \in {"none", "waiting"} /\ JobOk(p, job[p])
  BY DEF PlaylistInv, JobsTyped, Alright, Job!StartImport, Job!Acquire, Job!At
<1>2. /\ job' = [job EXCEPT ![p] = j] /\ name' = [name EXCEPT ![p] = n]
      /\ UNCHANGED <<tracks, nextId, req, edited>> /\ (Job!At(p, "waiting") => name' = name)
  BY <1>1 DEF PlaylistInv, JobsTyped, Job!StartImport, Job!Acquire, Job!At, Job!Go, Job!db
<1>3. j \in JobSet /\ n \in NameSet /\ (n # "none" \/ Job!At(p, "waiting"))
  BY <1>1 DEF JobSet, NameSet, Job!At
<1>4. /\ j.next = 1 /\ j.busy = {} /\ j.results = <<>> /\ j.found = {} /\ j.used = <<>> /\ job[p].used = <<>>
      /\ j.at \in {"waiting", "searching"} /\ job'[p] = j /\ name'[p] = n
  BY <1>1, <1>2, <1>3 DEF JobSet, JobOk, PlaylistInv, JobsTyped
<1> HIDE DEF j, n
<1>5. JobOk(p, j)
  <2>1. 1 \in 1..(Length[p] + 1) /\ 1..0 = {}
    BY DEF Job!PlaylistsAssumption
  <2>2. Len(<<>>) = 0 /\ UrisOf(<<>>) = {}
    BY DEF UrisOf
  <2> QED
    BY <1>4, <2>1, <2>2 DEF JobOk, Searched
<1>6. edited[p] = "no" => Untouched(p)'
  <2>1. edited[p] = "no" => Untouched(p)
    BY DEF PlaylistInv, Alright
  <2> QED
    BY <1>1, <1>2, <1>3, <1>4, <2>1 DEF Untouched, Job!At
<1>7. Filling(p) => Filling(p)'
  BY <1>1, <1>2, <1>4 DEF Filling, FromSource, Job!At
<1>8. ~ Job!At(p, "done")
  BY <1>1 DEF Job!At
<1> QED
  BY <1>2, <1>3, <1>5, <1>6, <1>7, <1>8, JobAlone

LEMMA SearchesOn ==
    ASSUME PlaylistInv, NEW p \in Jobs, Job!At(p, "searching"), NEW j \in JobSet, Searched(p, j),
           j.at = "searching", j.used = job[p].used, job' = [job EXCEPT ![p] = j],
           UNCHANGED <<name, tracks, nextId, req, edited>>
    PROVE  PlaylistInv'
<1>1. JobOk(p, job[p]) /\ job'[p] = j /\ name' = [name EXCEPT ![p] = name[p]] /\ name[p] \in NameSet
  BY DEF PlaylistInv, Alright, JobsTyped
<1>2. JobOk(p, j)
  BY <1>1 DEF JobOk, Job!At
<1>3. edited[p] = "no" => Untouched(p)'
  BY <1>1 DEF PlaylistInv, Alright, Untouched, Job!At
<1>4. Filling(p) => Filling(p)'
  BY <1>1 DEF Filling, FromSource, Job!At
<1> QED
  BY <1>1, <1>2, <1>3, <1>4, JobAlone DEF Job!At

LEMMA Takes ==
    ASSUME Job!PlaylistsAssumption, PlaylistInv, NEW p \in Jobs, Job!TakeTrack(p)
    PROVE  PlaylistInv'
<1> DEFINE o == job[p]
           j == [o EXCEPT !.busy = @ \cup {o.next}, !.next = @ + 1]
<1>1. o \in JobSet /\ Searched(p, o) /\ Job!At(p, "searching") /\ o.next <= Length[p] /\ Length[p] \in Nat
  BY DEF PlaylistInv, JobsTyped, Alright, JobOk, Job!TakeTrack, Job!At, Job!PlaylistsAssumption
<1>2. job' = [job EXCEPT ![p] = j] /\ UNCHANGED <<name, tracks, nextId, req, edited>>
  BY DEF PlaylistInv, JobsTyped, Job!TakeTrack, Job!db
<1>3. /\ j \in JobSet /\ j.at = "searching" /\ j.used = o.used /\ j.next = o.next + 1 /\ j.busy = o.busy \cup {o.next}
      /\ j.results = o.results /\ j.found = o.found
  <2>1. o.next \in Nat /\ o.busy \cup {o.next} \in SUBSET Nat /\ o.at = "searching" /\ o.next + 1 \in Nat
    BY <1>1 DEF JobSet, Job!At
  <2> QED
    BY <1>1, <2>1 DEF JobSet
<1>4. /\ (1..(j.next - 1)) \ j.busy = (1..(o.next - 1)) \ o.busy /\ j.next \in 1..(Length[p] + 1)
      /\ j.busy \subseteq 1..(j.next - 1)
  <2>1. o.next \in 1..(Length[p] + 1) /\ o.busy \subseteq 1..(o.next - 1) /\ o.next <= Length[p] /\ Length[p] \in Nat
    BY <1>1 DEF Searched
  <2>2. /\ 1..(j.next - 1) = (1..(o.next - 1)) \cup {o.next} /\ o.next \notin 1..(o.next - 1)
        /\ j.next \in 1..(Length[p] + 1)
    BY <1>3, <2>1
  <2> HIDE DEF j, o
  <2> QED
    BY <1>3, <2>1, <2>2
<1> HIDE DEF j, o
<1>5. Searched(p, j)
  BY <1>1, <1>3, <1>4 DEF Searched
<1> QED
  BY <1>1, <1>2, <1>3, <1>5, SearchesOn DEF o

LEMMA Appended ==
    ASSUME NEW S, NEW s \in Seq(S), NEW e \in S
    PROVE  /\ Append(s, e) \in Seq(S) /\ Len(s) \in Nat /\ Len(Append(s, e)) = Len(s) + 1
           /\ Append(s, e)[Len(s) + 1] = e /\ \A i \in 1..Len(s) : Append(s, e)[i] = s[i]
           /\ \A i \in 1..(Len(s) + 1) : i \in 1..Len(s) \/ i = Len(s) + 1
OBVIOUS

LEMMA Finds1 ==
    ASSUME Job!PlaylistsAssumption, PlaylistInv, NEW p \in Jobs, NEW i \in Job!Sources(p),
           NEW uri \in Uris \cup {Job!NotFound},
           Job!FindTrack(p, i, uri)
    PROVE  PlaylistInv'
<1> DEFINE o == job[p]
           e == [index |-> i, uri |-> uri]
           j == [o EXCEPT !.busy = @ \ {i}, !.results = Append(@, e), !.found = @ \cup ({uri} \ {Job!NotFound})]
<1>1. o \in JobSet /\ Searched(p, o) /\ Job!At(p, "searching") /\ i \in o.busy /\ Length[p] \in Nat
  BY DEF PlaylistInv, JobsTyped, Alright, JobOk, Job!FindTrack, Job!At, Job!PlaylistsAssumption
<1>2. job' = [job EXCEPT ![p] = j] /\ UNCHANGED <<name, tracks, nextId, req, edited>>
  BY DEF PlaylistInv, JobsTyped, Job!FindTrack, Job!db
<1>3. e \in ResultSet /\ o.results \in Seq(ResultSet) /\ e.index = i /\ e.uri = uri
  BY <1>1 DEF ResultSet, Job!Sources, JobSet, Searched
<1>4. /\ j \in JobSet /\ j.at = "searching" /\ j.used = o.used /\ j.next = o.next /\ j.busy = o.busy \ {i}
      /\ j.results = Append(o.results, e) /\ j.found = o.found \cup ({uri} \ {Job!NotFound})
  <2>1. /\ o.busy \ {i} \in SUBSET Nat /\ o.found \cup ({uri} \ {Job!NotFound}) \in SUBSET Uris /\ o.at = "searching"
        /\ Append(o.results, e) \in Seq(ResultSet)
    BY <1>1, <1>3 DEF JobSet, Job!At
  <2> HIDE DEF e
  <2> QED
    BY <1>1, <2>1 DEF JobSet
<1> HIDE DEF j, o, e
<1>5. /\ Len(o.results) \in Nat /\ Len(j.results) = Len(o.results) + 1 /\ j.results[Len(o.results) + 1] = e
      /\ \A k \in 1..Len(o.results) : j.results[k] = o.results[k]
      /\ \A k \in 1..Len(j.results) : k \in 1..Len(o.results) \/ k = Len(o.results) + 1
  BY <1>3, <1>4, Appended
<1>6. Searched(p, j)
  <2>1. j.next \in 1..(Length[p] + 1) /\ j.busy \subseteq 1..(j.next - 1) /\ i \in 1..(j.next - 1)
    BY <1>1, <1>4 DEF Searched
  <2>2. ASSUME NEW k \in 1..Len(j.results)
        PROVE  /\ j.results[k].index \in (1..(j.next - 1)) \ j.busy
               /\ \A m \in 1..Len(j.results) : j.results[k].index = j.results[m].index => k = m
    BY <1>1, <1>3, <1>4, <1>5, <2>1 DEF Searched
  <2>3. ASSUME NEW n \in (1..(j.next - 1)) \ j.busy
        PROVE  \E k \in 1..Len(j.results) : j.results[k].index = n
    <3>1. CASE n = i
      BY <1>3, <1>5, <3>1
    <3>2. CASE n # i
      <4>1. PICK k \in 1..Len(o.results) : o.results[k].index = n
        BY <1>1, <1>4, <3>2 DEF Searched
      <4> QED
        BY <1>5, <4>1
    <3> QED
      BY <3>1, <3>2
  <2>4. UrisOf(j.results) = UrisOf(o.results) \cup {uri}
    <3>1. UrisOf(j.results) \subseteq UrisOf(o.results) \cup {uri}
      BY <1>3, <1>5 DEF UrisOf
    <3>2. UrisOf(o.results) \subseteq UrisOf(j.results)
      BY <1>5 DEF UrisOf
    <3>3. uri \in UrisOf(j.results)
      BY <1>3, <1>5 DEF UrisOf
    <3> QED
      BY <3>1, <3>2, <3>3
  <2>5. j.found = UrisOf(j.results) \ {Job!NotFound}
    BY <1>1, <1>4, <2>4 DEF Searched
  <2> QED
    BY <2>1, <2>2, <2>3, <2>5 DEF Searched
<1> QED
  BY <1>1, <1>2, <1>4, <1>6, SearchesOn DEF o

LEMMA Collects ==
    ASSUME Job!PlaylistsAssumption, PlaylistInv, NEW p \in Jobs, Job!Collect(p)
    PROVE  PlaylistInv'
<1> DEFINE o == job[p]
           s == [i \in Job!Sources(p) |-> CHOOSE r \in Job!ToSet(o.results) : r.index = i]
           j == [o EXCEPT !.at = "adding", !.results = s]
<1>1. /\ o \in JobSet /\ Searched(p, o) /\ Job!At(p, "searching") /\ Length[p] \in Nat /\ o.busy = {}
      /\ o.next > Length[p]
      /\ JobOk(p, o)
  BY DEF PlaylistInv, JobsTyped, Alright, JobOk, Job!Collect, Job!At, Job!PlaylistsAssumption
<1>2. job' = [job EXCEPT ![p] = j] /\ UNCHANGED <<name, tracks, nextId, req, edited>>
  BY DEF PlaylistInv, JobsTyped, Job!Collect, Job!db
<1>3. o.results \in Seq(ResultSet) /\ o.used = <<>>
  BY <1>1 DEF JobSet, JobOk, Job!At
<1>4. (1..(o.next - 1)) \ o.busy = 1..Length[p] /\ Job!Sources(p) = 1..Length[p]
  BY <1>1 DEF Searched, Job!Sources
<1>5. \A i \in 1..Length[p] : s[i] \in Job!ToSet(o.results) /\ s[i].index = i
  <2> SUFFICES ASSUME NEW i \in 1..Length[p]
               PROVE  s[i] \in Job!ToSet(o.results) /\ s[i].index = i
    OBVIOUS
  <2>1. \E r \in Job!ToSet(o.results) : r.index = i
    <3>1. PICK k \in 1..Len(o.results) : o.results[k].index = i
      BY <1>1, <1>4 DEF Searched
    <3>2. o.results[k] \in Job!ToSet(o.results)
      BY <1>3 DEF Job!ToSet
    <3> QED
      BY <3>1, <3>2
  <2> QED
    BY <1>4, <2>1
<1>6. Job!ToSet(o.results) \subseteq ResultSet
  BY <1>3 DEF Job!ToSet
<1>7. s \in Seq(ResultSet) /\ Len(s) = Length[p]
  <2>1. s = [i \in 1..Length[p] |-> s[i]] /\ \A i \in 1..Length[p] : s[i] \in ResultSet
    BY <1>4, <1>5, <1>6
  <2> HIDE DEF s
  <2>2. s \in [1..Length[p] -> ResultSet]
    BY <2>1
  <2> QED
    BY <1>1, <2>2
<1>8. /\ j \in JobSet /\ j.at = "adding" /\ j.used = o.used /\ j.results = s /\ j.found = o.found
      /\ job'[p] = j
  BY <1>1, <1>2, <1>7 DEF JobSet, PlaylistInv, JobsTyped
<1>9. UrisOf(s) = UrisOf(o.results)
  <2>1. ASSUME NEW i \in 1..Length[p]
        PROVE  \E k \in 1..Len(o.results) : s[i] = o.results[k]
    <3>1. DOMAIN o.results = 1..Len(o.results)
      BY <1>3
    <3>2. s[i] \in Job!ToSet(o.results)
      BY <1>5
    <3> HIDE DEF s, o
    <3> QED
      BY <3>1, <3>2 DEF Job!ToSet
  <2>2. ASSUME NEW k \in 1..Len(o.results)
        PROVE  \E i \in 1..Length[p] : s[i] = o.results[k]
    <3>1. o.results[k].index \in 1..Length[p]
      BY <1>1, <1>4 DEF Searched
    <3>2. PICK m \in 1..Len(o.results) : s[o.results[k].index] = o.results[m]
      BY <2>1, <3>1
    <3>3. o.results[m].index = o.results[k].index
      BY <1>5, <3>1, <3>2
    <3>4. m = k
      BY <1>1, <3>3 DEF Searched
    <3> QED
      BY <3>1, <3>2, <3>4
  <2> HIDE DEF s, o
  <2>3. UrisOf(s) \subseteq UrisOf(o.results)
    BY <1>7, <2>1 DEF UrisOf
  <2>4. UrisOf(o.results) \subseteq UrisOf(s)
    BY <1>7, <2>2 DEF UrisOf
  <2> QED
    BY <2>3, <2>4
<1> HIDE DEF s, j, o
<1>10. JobOk(p, j)
  <2>1. InTurn(p, j)
    BY <1>1, <1>5, <1>7, <1>8 DEF InTurn
  <2>2. Len(o.used) = 0
    BY <1>3
  <2> QED
    BY <1>8, <2>1, <2>2 DEF JobOk
<1>11. edited[p] = "no" => Untouched(p)'
  <2>1. Job!ToSet(<<>>) = {}
    BY DEF Job!ToSet
  <2>2. o.found = (Job!ToSet(<<>>) \cup UrisOf(s)) \ {Job!NotFound}
    BY <1>1, <1>9, <2>1 DEF Searched
  <2> QED
    BY <1>1, <1>2, <1>3, <1>8, <2>2 DEF o, PlaylistInv, Alright, Untouched, Job!At
<1>12. Filling(p) => Filling(p)'
  <2>1. Filling(p) => FromSource(p) = {}
    <3>1. \A r \in tracks[p] : r.pos \in Nat
      BY DEF PlaylistInv, JobsTyped, RowSet
    <3>2. Len(job[p].used) = 0
      BY <1>3 DEF o
    <3> QED
      BY <3>1, <3>2 DEF Filling, FromSource
  <2> QED
    BY <1>2, <2>1 DEF Filling, FromSource
<1>13. name' = [name EXCEPT ![p] = name[p]] /\ name[p] \in NameSet /\ ~ Job!At(p, "done")
  BY <1>1, <1>2 DEF PlaylistInv, JobsTyped, Job!At
<1> QED
  BY <1>2, <1>8, <1>10, <1>11, <1>12, <1>13, JobAlone

LEMMA WithoutFirst ==
    ASSUME NEW results \in Seq(ResultSet), results # <<>>
    PROVE  /\ Tail(results) \in Seq(ResultSet) /\ Len(results) \in Nat \ {0} /\ Len(Tail(results)) = Len(results) - 1
           /\ Head(results) \in ResultSet /\ Head(results) = results[1]
           /\ \A i \in 1..Len(Tail(results)) : i + 1 \in 1..Len(results) /\ Tail(results)[i] = results[i + 1]
           /\ UrisOf(results) = {Head(results).uri} \cup UrisOf(Tail(results))
<1>1. /\ Tail(results) \in Seq(ResultSet) /\ Len(results) \in Nat \ {0} /\ Len(Tail(results)) = Len(results) - 1
      /\ Head(results) \in ResultSet /\ Head(results) = results[1]
  OBVIOUS
<1>2. \A i \in 1..Len(Tail(results)) : i + 1 \in 1..Len(results) /\ Tail(results)[i] = results[i + 1]
  BY <1>1
<1>3. UrisOf(results) \subseteq {Head(results).uri} \cup UrisOf(Tail(results))
  <2> SUFFICES ASSUME NEW k \in 1..Len(results)
               PROVE  results[k].uri \in {Head(results).uri} \cup UrisOf(Tail(results))
    BY DEF UrisOf
  <2>1. CASE k = 1
    BY <1>1, <2>1
  <2>2. CASE k # 1
    <3>1. k - 1 \in 1..Len(Tail(results)) /\ (k - 1) + 1 = k
      BY <1>1, <2>2
    <3>2. Tail(results)[k - 1].uri = results[k].uri
      BY <1>2, <3>1
    <3> QED
      BY <3>1, <3>2 DEF UrisOf
  <2> QED
    BY <2>1, <2>2
<1>4. UrisOf(Tail(results)) \subseteq UrisOf(results)
  BY <1>2 DEF UrisOf
<1>5. Head(results).uri \in UrisOf(results)
  BY <1>1 DEF UrisOf
<1> QED
  BY <1>1, <1>2, <1>3, <1>4, <1>5

LEMMA TurnsOn ==
    ASSUME Job!PlaylistsAssumption, NEW p \in Jobs, NEW o, NEW j, InTurn(p, o), o.results \in Seq(ResultSet),
           o.results # <<>>, j.results = Tail(o.results)
    PROVE  /\ InTurn(p, j) /\ Head(o.results).index = Length[p] - Len(o.results) + 1
           /\ Length[p] \in Nat /\ Len(o.results) <= Length[p]
<1>1. /\ Len(o.results) \in Nat \ {0} /\ Len(j.results) = Len(o.results) - 1 /\ Length[p] \in Nat
      /\ \A i \in 1..Len(j.results) : i + 1 \in 1..Len(o.results) /\ j.results[i] = o.results[i + 1]
      /\ Head(o.results) = o.results[1]
  BY WithoutFirst DEF Job!PlaylistsAssumption
<1>2. Len(o.results) <= Length[p] /\ Len(j.results) <= Length[p]
  BY <1>1 DEF InTurn
<1>3. ASSUME NEW i \in 1..Len(j.results)
      PROVE  j.results[i].index = Length[p] - Len(j.results) + i
  <2>1. o.results[i + 1].index = Length[p] - Len(o.results) + (i + 1)
    BY <1>1 DEF InTurn
  <2>2. j.results[i] = o.results[i + 1] /\ Len(j.results) = Len(o.results) - 1
    BY <1>1
  <2>3. Len(o.results) \in Nat /\ Length[p] \in Nat /\ i \in Int
    BY <1>1
  <2>4. Length[p] - Len(o.results) + (i + 1) = Length[p] - (Len(o.results) - 1) + i
    BY <2>3
  <2> QED
    BY <2>1, <2>2, <2>4
<1>4. Head(o.results).index = Length[p] - Len(o.results) + 1
  BY <1>1 DEF InTurn
<1> QED
  BY <1>1, <1>2, <1>3, <1>4 DEF InTurn

(* Both kinds of step that leave a result out.                             *)
LEMMA LeavesOut ==
    ASSUME Job!PlaylistsAssumption, PlaylistInv, NEW p \in Jobs, Job!At(p, "adding"), job[p].results # <<>>,
           job' = [job EXCEPT ![p].results = Tail(@)], UNCHANGED <<name, tracks, nextId, req, edited>>,
           edited[p] # "no" \/ Head(job[p].results).uri \in {Job!NotFound} \cup Job!ToSet(job[p].used)
    PROVE  PlaylistInv'
<1> DEFINE o == job[p]
           j == [o EXCEPT !.results = Tail(@)]
<1>1. o \in JobSet /\ JobOk(p, o) /\ InTurn(p, o) /\ o.results \in Seq(ResultSet) /\ Length[p] \in Nat
  BY DEF PlaylistInv, JobsTyped, Alright, JobOk, JobSet, Job!At, Job!PlaylistsAssumption
<1>2. job' = [job EXCEPT ![p] = j]
  BY DEF PlaylistInv, JobsTyped
<1>3. Tail(o.results) \in Seq(ResultSet)
  BY <1>1, WithoutFirst
<1>4. /\ j \in JobSet /\ j.at = "adding" /\ j.used = o.used /\ j.results = Tail(o.results) /\ j.found = o.found
      /\ job'[p] = j
  BY <1>1, <1>2, <1>3 DEF JobSet, Job!At, PlaylistInv, JobsTyped
<1>5. name' = [name EXCEPT ![p] = name[p]] /\ name[p] \in NameSet /\ ~ Job!At(p, "done")
  BY DEF PlaylistInv, JobsTyped, Job!At
<1> HIDE DEF j, o
<1>6. /\ Len(o.results) \in Nat \ {0} /\ Len(j.results) = Len(o.results) - 1 /\ o.results # <<>>
      /\ \A i \in 1..Len(j.results) : i + 1 \in 1..Len(o.results) /\ j.results[i] = o.results[i + 1]
      /\ UrisOf(o.results) = {Head(o.results).uri} \cup UrisOf(j.results)
  BY <1>1, <1>4, WithoutFirst DEF o
<1>7. JobOk(p, j)
  <2>1. InTurn(p, j)
    BY <1>1, <1>4, <1>6, TurnsOn
  <2> QED
    BY <1>1, <1>4, <2>1 DEF JobOk
<1>8. edited[p] = "no" => Untouched(p)'
  <2> SUFFICES ASSUME edited[p] = "no"
               PROVE  Untouched(p)'
    OBVIOUS
  <2>1. Untouched(p) /\ o.found = (Job!ToSet(o.used) \cup UrisOf(o.results)) \ {Job!NotFound}
    BY DEF PlaylistInv, Alright, Untouched, Job!At, o
  <2>2. j.found = (Job!ToSet(j.used) \cup UrisOf(j.results)) \ {Job!NotFound}
    BY <1>4, <1>6, <2>1 DEF o
  <2> QED
    BY <1>4, <2>1, <2>2 DEF Untouched, Job!At, o
<1>9. Filling(p) => Filling(p)'
  <2>1. \A r \in tracks[p] : r.by \in Nat
    BY DEF PlaylistInv, JobsTyped, RowSet
  <2> QED
    BY <1>1, <1>4, <1>6, <2>1 DEF Filling, FromSource, Job!At, o
<1> QED
  BY <1>2, <1>4, <1>5, <1>7, <1>8, <1>9, JobAlone

LEMMA Skips ==
    ASSUME Job!PlaylistsAssumption, PlaylistInv, NEW p \in Jobs, Job!Skip(p)
    PROVE  PlaylistInv'
BY LeavesOut DEF Job!Skip, Job!db

LEMMA Added ==
    ASSUME Job!PlaylistsAssumption, PlaylistInv, NEW p \in Jobs, Job!At(p, "adding"), job[p].results # <<>>,
           Head(job[p].results).uri \notin {Job!NotFound} \cup Job!ToSet(job[p].used),
           job' = [job EXCEPT ![p].results = Tail(@), ![p].used = Append(@, Head(job[p].results).uri)],
           Job!Insert(p, Head(job[p].results).uri, Len(job[p].used), Head(job[p].results).index),
           UNCHANGED <<name, req, edited>>
    PROVE  PlaylistInv'
<1> DEFINE o == job[p]
           r == Head(o.results)
           j == [o EXCEPT !.results = Tail(@), !.used = Append(@, r.uri)]
           t == Job!Row(p, r.uri, Len(o.used), r.index)
<1>1. /\ o \in JobSet /\ JobOk(p, o) /\ InTurn(p, o) /\ o.results \in Seq(ResultSet) /\ o.used \in Seq(Uris)
      /\ Length[p] \in Nat /\ o.at = "adding"
  BY DEF PlaylistInv, JobsTyped, Alright, JobOk, JobSet, Job!At, Job!PlaylistsAssumption
<1>2. /\ job' = [job EXCEPT ![p] = j] /\ tracks' = [tracks EXCEPT ![p] = @ \cup {t}]
      /\ nextId' = [nextId EXCEPT ![p] = @ + 1]
  BY DEF PlaylistInv, JobsTyped, Job!Insert
<1>3. /\ Tail(o.results) \in Seq(ResultSet) /\ r \in ResultSet /\ Len(o.results) \in Nat \ {0}
      /\ Len(Tail(o.results)) = Len(o.results) - 1
      /\ UrisOf(o.results) = {r.uri} \cup UrisOf(Tail(o.results))
  BY <1>1, WithoutFirst
<1>4. r.uri \in Uris /\ r.uri # Job!NotFound /\ r.uri \notin Job!ToSet(o.used) /\ r.index \in Nat
  BY <1>3 DEF ResultSet
<1> HIDE DEF r
<1>5. /\ Append(o.used, r.uri) \in Seq(Uris) /\ Len(o.used) \in Nat
      /\ Len(Append(o.used, r.uri)) = Len(o.used) + 1 /\ Append(o.used, r.uri)[Len(o.used) + 1] = r.uri
      /\ \A i \in 1..Len(o.used) : Append(o.used, r.uri)[i] = o.used[i]
      /\ \A i \in 1..(Len(o.used) + 1) : i \in 1..Len(o.used) \/ i = Len(o.used) + 1
  BY <1>1, <1>4, Appended
<1>6. /\ j \in JobSet /\ j.at = "adding" /\ j.results = Tail(o.results) /\ j.used = Append(o.used, r.uri)
      /\ j.found = o.found /\ job'[p] = j
  BY <1>1, <1>2, <1>3, <1>5 DEF JobSet, PlaylistInv, JobsTyped
<1>7. /\ t \in RowSet /\ t.id = nextId[p] /\ t.uri = r.uri /\ t.pos = Len(o.used) /\ t.by = r.index
      /\ nextId[p] \in Nat /\ nextId'[p] = nextId[p] + 1 /\ tracks'[p] = tracks[p] \cup {t}
  BY <1>2, <1>4, <1>5 DEF PlaylistInv, JobsTyped, Job!Row, RowSet
<1> HIDE DEF j, t
<1>17. o.results # <<>> /\ r = Head(o.results)
  BY DEF r
<1> HIDE DEF o
<1>8. /\ InTurn(p, j) /\ r.index = Length[p] - Len(o.results) + 1 /\ Len(o.results) <= Length[p]
      /\ Len(j.results) = Len(o.results) - 1 /\ o.results # <<>>
  BY <1>1, <1>3, <1>6, <1>17, TurnsOn
<1>9. t.by # 0 /\ FromSource(p)' = FromSource(p) \cup {t}
  <2>1. t.by # 0
    BY <1>1, <1>3, <1>7, <1>8
  <2> QED
    BY <1>7, <2>1 DEF FromSource
<1>10. \A s \in tracks[p] : s \in RowSet /\ s.id \in Nat /\ s.pos \in Nat /\ s.by \in Nat
  BY DEF PlaylistInv, JobsTyped, RowSet
<1>11. JobsTyped' /\ JobStep(p)
  <2>1. JobStep(p)
    BY <1>2 DEF PlaylistInv, JobsTyped, JobStep
  <2>2. IsFiniteSet(tracks[p] \cup {t})
    BY FS_AddElement DEF PlaylistInv, JobsTyped
  <2>3. tracks' \in [Jobs -> SUBSET RowSet] /\ \A q \in Jobs : IsFiniteSet(tracks'[q])
    BY <1>2, <1>7, <2>2 DEF PlaylistInv, JobsTyped
  <2>4. nextId' \in [Jobs -> Nat] /\ job' \in [Jobs -> JobSet]
    BY SMTT(60), <1>2, <1>6, <1>7 DEF PlaylistInv, JobsTyped
  <2> QED
    BY <2>1, <2>3, <2>4 DEF PlaylistInv, JobsTyped
<1>12. JobOk(p, job[p])'
  <2>1. ASSUME NEW i \in 1..Len(j.used)
        PROVE  j.used[i] # Job!NotFound /\ \A k \in 1..Len(j.used) : j.used[i] = j.used[k] => i = k
    <3>1. \A k \in 1..Len(o.used) : o.used[k] # Job!NotFound /\ o.used[k] # r.uri
            /\ \A m \in 1..Len(o.used) : o.used[k] = o.used[m] => k = m
      BY <1>1, <1>4 DEF JobOk, Job!ToSet
    <3> QED
      BY <1>4, <1>5, <1>6, <3>1
  <2>2. JobOk(p, j)
    BY <1>6, <1>8, <2>1 DEF JobOk
  <2>3. JobOk(p, job'[p])
    BY <1>6, <2>2
  <2> QED
    BY <2>3 DEF JobOk, Searched, InTurn
<1>13. edited[p] # "mixed" => Filling(p)' /\ InOrder(p)'
  <2> SUFFICES ASSUME edited[p] # "mixed"
               PROVE  Filling(p)' /\ InOrder(p)'
    OBVIOUS
  <2>1. ~ Job!At(p, "done") /\ Filling(p) /\ InOrder(p)
    BY InOrderNow DEF Job!At
  <2>2. ASSUME NEW s \in FromSource(p)
        PROVE  /\ s.pos < Len(o.used) /\ s.uri = o.used[s.pos + 1] /\ s.by <= Length[p] - Len(o.results)
               /\ s.pos + 1 \in 1..Len(o.used) /\ s.pos \in Nat /\ s.by \in Nat
    <3>1. s.pos \in Nat /\ s.by \in Nat
      BY <1>10 DEF FromSource
    <3> QED
      BY <1>5, <2>1, <3>1 DEF Filling, o
  <2>3. ASSUME NEW s \in FromSource(p)
        PROVE  s.by < t.by /\ s.pos < t.pos /\ s.uri # t.uri
    <3>1. s.by < t.by /\ s.pos < t.pos
      BY SMTT(60), <1>1, <1>3, <1>7, <1>8, <2>2
    <3>2. s.uri \in Job!ToSet(o.used)
      BY <2>2 DEF Job!ToSet
    <3> QED
      BY <1>4, <1>7, <3>1, <3>2
  <2>4. InOrder(p)'
    <3>1. t.by \in Nat /\ t.pos \in Nat
      BY <1>7 DEF RowSet
    <3>2. ASSUME NEW u \in FromSource(p) \cup {t}, NEW s \in FromSource(p) \cup {t}
          PROVE  (u.by < s.by => u.pos < s.pos) /\ (u.by = s.by \/ u.uri = s.uri => u = s)
      <4>1. CASE u = t /\ s = t
        BY <3>1, <4>1
      <4>2. CASE u = t /\ s # t
        BY <2>2, <2>3, <3>1, <4>2
      <4>3. CASE u # t /\ s = t
        BY <2>2, <2>3, <3>1, <4>3
      <4>4. CASE u # t /\ s # t
        BY <2>1, <4>4 DEF InOrder
      <4> QED
        BY <4>1, <4>2, <4>3, <4>4
    <3> QED
      BY <1>9, <3>2 DEF InOrder
  <2>5. Filling(p)'
    <3>1. ASSUME NEW s \in FromSource(p) \cup {t}
          PROVE  s.pos < Len(j.used) /\ s.uri = j.used[s.pos + 1] /\ s.by <= Length[p] - Len(j.results)
      <4>1. CASE s = t
        <5>1. t.pos < Len(o.used) + 1 /\ t.by <= Length[p] - (Len(o.results) - 1)
          BY <1>1, <1>3, <1>5, <1>7, <1>8
        <5>2. t.uri = j.used[t.pos + 1]
          BY <1>5, <1>6, <1>7
        <5> QED
          BY <1>5, <1>6, <1>8, <4>1, <5>1, <5>2
      <4>2. CASE s \in FromSource(p)
        <5>1. s.pos < Len(o.used) + 1 /\ s.by <= Length[p] - (Len(o.results) - 1)
          BY SMTT(60), <1>1, <1>3, <1>5, <2>2, <4>2
        <5>2. s.uri = j.used[s.pos + 1]
          BY <1>5, <1>6, <2>2, <4>2
        <5> QED
          BY <1>5, <1>6, <1>8, <5>1, <5>2
      <4> QED
        BY <4>1, <4>2
    <3> QED
      BY <1>6, <1>9, <3>1 DEF Filling
  <2> QED
    BY <2>4, <2>5
<1>14. edited[p] = "no" => Untouched(p)'
  <2> SUFFICES ASSUME edited[p] = "no"
               PROVE  Untouched(p)'
    OBVIOUS
  <2>1. Untouched(p)
    BY DEF PlaylistInv, Alright
  <2>2. /\ name[p] # "none" /\ (\A s \in tracks[p] : s.by # 0)
        /\ (\A k \in 1..Len(o.used) : \E s \in tracks[p] : s.pos = k - 1 /\ s.uri = o.used[k])
        /\ o.found = (Job!ToSet(o.used) \cup UrisOf(o.results)) \ {Job!NotFound}
    BY <1>1, <2>1 DEF Untouched, o
  <2>3. ASSUME NEW k \in 1..Len(j.used)
        PROVE  \E s \in tracks'[p] : s.pos = k - 1 /\ s.uri = j.used[k]
    <3>1. CASE k = Len(o.used) + 1
      BY <1>5, <1>6, <1>7, <3>1
    <3>2. CASE k \in 1..Len(o.used)
      BY <1>5, <1>6, <1>7, <2>2, <3>2
    <3> QED
      BY <1>5, <1>6, <3>1, <3>2
  <2>4. Job!ToSet(j.used) = Job!ToSet(o.used) \cup {r.uri}
    <3>1. /\ Job!ToSet(j.used) = {j.used[k] : k \in 1..Len(j.used)}
          /\ Job!ToSet(o.used) = {o.used[k] : k \in 1..Len(o.used)}
      <4>1. DOMAIN j.used = 1..Len(j.used) /\ DOMAIN o.used = 1..Len(o.used)
        BY <1>1, <1>5, <1>6
      <4> QED
        BY <4>1 DEF Job!ToSet
    <3>2. Job!ToSet(j.used) \subseteq Job!ToSet(o.used) \cup {r.uri}
      BY <1>5, <1>6, <3>1
    <3>3. Job!ToSet(o.used) \subseteq Job!ToSet(j.used)
      BY <1>5, <1>6, <3>1
    <3>4. r.uri \in Job!ToSet(j.used)
      BY <1>5, <1>6, <3>1
    <3> QED
      BY <3>2, <3>3, <3>4
  <2>5. j.found = (Job!ToSet(j.used) \cup UrisOf(j.results)) \ {Job!NotFound}
    BY <1>3, <1>6, <2>2, <2>4
  <2> QED
    BY <1>6, <1>7, <1>9, <2>2, <2>3, <2>5 DEF Untouched
<1>15. Alright(p)'
  <2>1. OrderInv(p)'
    BY <1>1, <1>11, <1>13, OrderWhileFilling DEF Job!At, o
  <2> QED
    BY <1>12, <1>14, <2>1 DEF Alright
<1>16. \A s \in tracks'[p] : s.id < nextId'[p] /\ \A u \in tracks'[p] : s.id = u.id => s = u
  <2>1. \A s \in tracks[p] : s.id < nextId[p] /\ \A u \in tracks[p] : s.id = u.id => s = u
    BY DEF PlaylistInv, RowsApart
  <2> QED
    BY <1>7, <1>10, <2>1
<1> QED
  BY <1>7, <1>11, <1>15, <1>16, JobFrame

LEMMA Adds ==
    ASSUME Job!PlaylistsAssumption, PlaylistInv, NEW p \in Jobs, NEW enforced \in BOOLEAN, Job!AddTrack(p, enforced)
    PROVE  PlaylistInv'
<1>1. CASE Job!Writable(p, enforced)
  BY <1>1, Added DEF Job!AddTrack
<1>2. CASE ~ Job!Writable(p, enforced)
  <2>1. name[p] = "none" /\ Job!At(p, "adding")
    BY <1>2 DEF Job!Writable, Job!AddTrack
  <2>2. edited[p] # "no"
    BY <2>1 DEF PlaylistInv, Alright, Untouched, Job!At
  <2> QED
    BY <1>2, <2>2, LeavesOut DEF Job!AddTrack, Job!db
<1> QED
  BY <1>1, <1>2

(* Steps after the tracks were added that do not end the job.              *)
LEMMA Finalizes ==
    ASSUME Job!PlaylistsAssumption, PlaylistInv, NEW p \in Jobs, Job!ReadRow(p) \/ Job!MakeCover(p)
           \/ Job!SaveCover(p)
    PROVE  PlaylistInv'
<1> DEFINE o == job[p]
           n == IF Job!SaveCover(p) THEN o.copy ELSE name[p]
<1>1. /\ o \in JobSet /\ JobOk(p, o) /\ name[p] \in NameSet
      /\ o.at \in {"adding", "row", "cover"} /\ o.results = <<>> /\ o.used # <<>>
  <2>1. o \in JobSet /\ JobOk(p, o) /\ name[p] \in NameSet
    BY DEF PlaylistInv, JobsTyped, Alright
  <2> QED
    BY <2>1 DEF Job!ReadRow, Job!MakeCover, Job!SaveCover, Job!At, JobOk
<1>2. UNCHANGED <<tracks, nextId, req, edited>>
  BY DEF Job!ReadRow, Job!MakeCover, Job!SaveCover, Job!db
<1>3. PICK j \in JobSet :
          /\ job' = [job EXCEPT ![p] = j] /\ j.at \in {"row", "cover", "naming"} /\ j.results = <<>> /\ j.used = o.used
          /\ j.found = o.found /\ (j.at \in {"row", "cover"} => j.copy # "none")
  <2>1. CASE Job!ReadRow(p)
    <3>1. PICK cover \in {c \in BOOLEAN : name[p] = "none" => ~c} :
              job' = [job EXCEPT ![p].at = IF cover THEN "row" ELSE "naming", ![p].copy = name[p]]
      BY <2>1 DEF Job!ReadRow
    <3> DEFINE j == [o EXCEPT !.at = IF cover THEN "row" ELSE "naming", !.copy = name[p]]
    <3>2. job' = [job EXCEPT ![p] = j]
      BY <3>1 DEF PlaylistInv, JobsTyped
    <3>3. /\ j \in JobSet /\ j.at \in {"row", "cover", "naming"} /\ j.results = <<>> /\ j.used = o.used
          /\ j.found = o.found /\ (j.at \in {"row", "cover"} => j.copy # "none")
      BY <1>1 DEF JobSet
    <3> QED
      BY <3>2, <3>3
  <2>2. CASE Job!MakeCover(p)
    <3>1. PICK made \in BOOLEAN : Job!Go(p, IF made THEN "cover" ELSE "naming")
      BY <2>2 DEF Job!MakeCover
    <3> DEFINE j == [o EXCEPT !.at = IF made THEN "cover" ELSE "naming"]
    <3>2. job' = [job EXCEPT ![p] = j]
      BY <3>1 DEF PlaylistInv, JobsTyped, Job!Go
    <3>3. o.copy # "none"
      BY <1>1, <2>2 DEF Job!MakeCover, Job!At, JobOk
    <3>4. /\ j \in JobSet /\ j.at \in {"row", "cover", "naming"} /\ j.results = <<>> /\ j.used = o.used
          /\ j.found = o.found /\ (j.at \in {"row", "cover"} => j.copy # "none")
      BY <1>1, <3>3 DEF JobSet
    <3> QED
      BY <3>2, <3>4
  <2>3. CASE Job!SaveCover(p)
    <3> DEFINE j == [o EXCEPT !.at = "naming"]
    <3>1. job' = [job EXCEPT ![p] = j]
      BY <2>3 DEF PlaylistInv, JobsTyped, Job!SaveCover, Job!Go
    <3>2. /\ j \in JobSet /\ j.at = "naming" /\ j.results = <<>> /\ j.used = o.used /\ j.found = o.found
      BY <1>1 DEF JobSet
    <3> QED
      BY <3>1, <3>2
  <2> QED
    BY <2>1, <2>2, <2>3
<1>4. name' = [name EXCEPT ![p] = n] /\ n \in NameSet /\ (name[p] # "none" => n # "none")
  <2>1. CASE Job!SaveCover(p)
    <3>1. o.copy # "none" /\ o.copy \in NameSet
      BY <1>1, <2>1 DEF Job!SaveCover, Job!At, JobOk, JobSet
    <3> QED
      BY <2>1, <3>1 DEF Job!SaveCover
  <2>2. CASE ~ Job!SaveCover(p)
    <3>1. name' = name
      BY <2>2 DEF Job!ReadRow, Job!MakeCover, Job!db
    <3> QED
      BY <1>1, <2>2, <3>1 DEF PlaylistInv, JobsTyped
  <2> QED
    BY <2>1, <2>2
<1>5. job'[p] = j /\ name'[p] = n /\ ~ Job!At(p, "done")
  BY <1>1, <1>3, <1>4 DEF PlaylistInv, JobsTyped, Job!At
<1> HIDE DEF o, n
<1>6. JobOk(p, j)
  BY <1>1, <1>3 DEF JobOk
<1>7. edited[p] = "no" => Untouched(p)'
  <2> SUFFICES ASSUME edited[p] = "no"
               PROVE  Untouched(p)'
    OBVIOUS
  <2>1. Untouched(p)
    BY DEF PlaylistInv, Alright
  <2>2. /\ name[p] # "none" /\ (\A s \in tracks[p] : s.by # 0)
        /\ (\A k \in 1..Len(o.used) : \E s \in tracks[p] : s.pos = k - 1 /\ s.uri = o.used[k])
        /\ o.found = (Job!ToSet(o.used) \cup UrisOf(o.results)) \ {Job!NotFound}
    BY <1>1, <2>1 DEF Untouched, o
  <2> QED
    BY <1>1, <1>2, <1>3, <1>4, <1>5, <2>2 DEF Untouched
<1>8. Filling(p) => Filling(p)'
  BY <1>2, <1>3, <1>5 DEF Filling, FromSource, Job!At, o
<1> QED
  BY <1>2, <1>3, <1>4, <1>5, <1>6, <1>7, <1>8, JobAlone

LEMMA CountOnce ==
    ASSUME NEW S, NEW s \in Seq(S), \A i, k \in 1..Len(s) : s[i] = s[k] => i = k
    PROVE  Cardinality(Job!ToSet(s)) = Len(s) /\ Len(s) \in Nat /\ Job!ToSet(s) = {s[i] : i \in 1..Len(s)}
<1>1. Len(s) \in Nat /\ DOMAIN s = 1..Len(s)
  OBVIOUS
<1>2. Job!ToSet(s) = {s[i] : i \in 1..Len(s)}
  BY <1>1 DEF Job!ToSet
<1>3. s \in [1..Len(s) -> Job!ToSet(s)]
  BY <1>1, <1>2
<1>4. s \in Bijection(1..Len(s), Job!ToSet(s))
  BY <1>2, <1>3 DEF Bijection, Injection, Surjection, IsInjective
<1>5. IsFiniteSet(1..Len(s)) /\ Cardinality(1..Len(s)) = Len(s)
  BY <1>1, FS_Interval
<1> QED
  BY <1>1, <1>2, <1>4, <1>5, FS_Bijection DEF ExistsBijection

LEMMA Ends ==
    ASSUME Job!PlaylistsAssumption, PlaylistInv, NEW p \in Jobs, Job!ImportFailed(p) \/ Job!NamePlaylist(p)
    PROVE  PlaylistInv'
<1> DEFINE o == job[p]
           title == IF o.used = <<>> THEN "failed" ELSE "title"
           n == IF name[p] = "none" THEN "none" ELSE title
           j == [Job!NoJob EXCEPT !.at = "done", !.found = o.found]
<1>1. o \in JobSet /\ JobOk(p, o) /\ name[p] \in NameSet /\ o.at \in {"adding", "naming"} /\ o.results = <<>>
  <2>1. o \in JobSet /\ JobOk(p, o) /\ name[p] \in NameSet
    BY DEF PlaylistInv, JobsTyped, Alright
  <2> QED
    BY <2>1 DEF Job!ImportFailed, Job!NamePlaylist, Job!At, JobOk
<1>2. UNCHANGED <<tracks, nextId, req, edited>> /\ job' = [job EXCEPT ![p] = j]
  BY DEF Job!ImportFailed, Job!NamePlaylist, Job!End
<1>3. /\ j \in JobSet /\ j.at = "done" /\ j.results = <<>> /\ j.used = <<>> /\ j.found = o.found /\ job'[p] = j
  <2>1. Job!NoJob \in JobSet
    <3>1. "none" \in NameSet /\ 1 \in Nat /\ <<>> \in Seq(ResultSet) /\ <<>> \in Seq(Uris)
      BY DEF NameSet
    <3> QED
      BY <3>1 DEF Job!NoJob, JobSet
  <2>2. o.found \in SUBSET Uris
    BY <1>1 DEF JobSet
  <2> QED
    BY <1>2, <2>1, <2>2 DEF JobSet, Job!NoJob, PlaylistInv, JobsTyped
<1>4. name' = [name EXCEPT ![p] = n] /\ n \in NameSet /\ name'[p] = n
  <2>1. Job!SetName(p, title)
    BY <1>1 DEF Job!ImportFailed, Job!NamePlaylist, Job!At, JobOk
  <2> QED
    BY <2>1 DEF Job!SetName, PlaylistInv, JobsTyped, NameSet
<1> HIDE DEF j
<1>5. JobOk(p, j)
  BY <1>3 DEF JobOk
<1>6. edited[p] = "no" => Untouched(p)'
  <2> SUFFICES ASSUME edited[p] = "no"
               PROVE  Untouched(p)'
    OBVIOUS
  <2>1. Untouched(p) /\ Filling(p)
    <3>1. ~ Job!At(p, "done")
      BY <1>1 DEF Job!At
    <3> QED
      BY <3>1, InOrderNow DEF PlaylistInv, Alright
  <2>2. /\ name[p] # "none" /\ (\A s \in tracks[p] : s.by # 0)
        /\ (\A k \in 1..Len(o.used) : \E s \in tracks[p] : s.pos = k - 1 /\ s.uri = o.used[k])
        /\ o.found = (Job!ToSet(o.used) \cup UrisOf(o.results)) \ {Job!NotFound}
    BY <1>1, <2>1 DEF Untouched
  <2>3. \A s \in tracks[p] : s.pos \in Nat /\ s.pos < Len(o.used) /\ s.uri = o.used[s.pos + 1]
    BY <2>1, <2>2 DEF PlaylistInv, JobsTyped, RowSet, Filling, FromSource
  <2>4. /\ Cardinality(Job!ToSet(o.used)) = Len(o.used) /\ Len(o.used) \in Nat
        /\ Job!ToSet(o.used) = {o.used[i] : i \in 1..Len(o.used)}
        /\ \A i \in 1..Len(o.used) : o.used[i] # Job!NotFound
    <3>1. o.used \in Seq(Uris) /\ \A i, k \in 1..Len(o.used) : o.used[i] = o.used[k] => i = k
      BY <1>1 DEF JobSet, JobOk
    <3>2. \A i \in 1..Len(o.used) : o.used[i] # Job!NotFound
      BY <1>1 DEF JobOk
    <3> HIDE DEF o
    <3> QED
      BY <3>1, <3>2, CountOnce
  <2>5. o.found = Job!ToSet(o.used) /\ (o.found = {} <=> o.used = <<>>)
    <3>1. UrisOf(o.results) = {}
      BY <1>1 DEF UrisOf
    <3>2. o.found = Job!ToSet(o.used)
      BY <2>2, <2>4, <3>1
    <3>3. o.used = <<>> <=> Len(o.used) = 0
      BY <1>1 DEF JobSet
    <3>4. Job!ToSet(o.used) = {} <=> Len(o.used) = 0
      <4>1. Len(o.used) # 0 => 1 \in 1..Len(o.used)
        BY <2>4
      <4>2. Len(o.used) = 0 => 1..Len(o.used) = {}
        OBVIOUS
      <4> QED
        BY <2>4, <4>1, <4>2
    <3> QED
      BY <3>2, <3>3, <3>4
  <2> HIDE DEF o
  <2>6. {s.uri : s \in tracks[p]} = j.found
    <3>1. \A s \in tracks[p] : s.uri \in Job!ToSet(o.used)
      BY <2>3, <2>4
    <3>2. \A u \in Job!ToSet(o.used) : \E s \in tracks[p] : s.uri = u
      BY <2>2, <2>4
    <3> QED
      BY <1>3, <2>5, <3>1, <3>2
  <2>7. {s.pos : s \in tracks[p]} = 0..(Cardinality(j.found) - 1)
    <3>1. \A s \in tracks[p] : s.pos \in 0..(Len(o.used) - 1)
      BY <2>3, <2>4
    <3>2. \A k \in 0..(Len(o.used) - 1) : \E s \in tracks[p] : s.pos = k
      <4> SUFFICES ASSUME NEW k \in 0..(Len(o.used) - 1)
                   PROVE  \E s \in tracks[p] : s.pos = k
        OBVIOUS
      <4>1. k + 1 \in 1..Len(o.used) /\ (k + 1) - 1 = k
        BY <2>4
      <4> QED
        BY <2>2, <4>1
    <3>3. {s.pos : s \in tracks[p]} = 0..(Len(o.used) - 1)
      BY <3>1, <3>2
    <3> QED
      BY <1>3, <2>4, <2>5, <3>3
  <2>8. n = IF j.found = {} THEN "failed" ELSE "title"
    BY <1>3, <2>2, <2>5
  <2>9. n # "none"
    BY <2>8
  <2> HIDE DEF n
  <2> QED
    BY <1>2, <1>3, <1>4, <2>2, <2>6, <2>7, <2>8, <2>9 DEF Untouched
<1>7. ~ Job!At(p, "done") /\ Job!At(p, "done")'
  BY <1>1, <1>3 DEF Job!At
<1> HIDE DEF n, o
<1> QED
  BY <1>2, <1>3, <1>4, <1>5, <1>6, <1>7, JobAlone

LEMMA JobKeeps ==
    ASSUME Job!PlaylistsAssumption, PlaylistInv, NEW p \in Jobs, Job!StartImport(p) \/ Job!Job(p)
    PROVE  PlaylistInv'
BY StartsAndWaits, Takes, Finds1, Collects, Skips, Adds, Finalizes, Ends DEF Job!Job

-----------------------------------------------------------------------------
(* A step of a client                                                      *)

(* What client c's step makes of playlist p, its request and the history.  *)
Becomes(c, p, n, T, m, v, e) ==
    /\ name' = [name EXCEPT ![p] = n] /\ tracks' = [tracks EXCEPT ![p] = T] /\ nextId' = [nextId EXCEPT ![p] = m]
    /\ req' = [req EXCEPT ![c] = v] /\ edited' = [edited EXCEPT ![p] = e] /\ job' = job
    /\ n \in NameSet /\ T \subseteq RowSet /\ IsFiniteSet(T) /\ m \in Nat /\ nextId[p] <= m
    /\ e \in {"no", "yes", "mixed"} /\ (v = Job!Idle \/ (v \in PlanSet /\ v.todo # <<>>))
    /\ ListsThenNumbers(v.todo)
    /\ \A q \in Jobs \ {p} : ~ Numbers(req[c], q) /\ ~ Numbers(v, q)
    /\ e = "no" => n = name[p] /\ T = tracks[p] /\ edited[p] = "no"
    /\ edited[p] = "mixed" => e = "mixed"

LEMMA RowsAreTyped ==
    ASSUME NEW r \in PlanSet
    PROVE  /\ r.rows \in Seq(RowSet) /\ r.max \in Nat \cup {-1} /\ r.todo \in Seq(Statements)
           /\ \A i \in 1..Len(r.rows) :
               r.rows[i] \in RowSet /\ r.rows[i].id \in Nat /\ r.rows[i].by \in Nat /\ r.rows[i].pos \in Nat
<1>1. r.rows \in Seq(RowSet) /\ r.max \in Nat \cup {-1} /\ r.todo \in Seq(Statements)
  BY DEF PlanSet
<1>2. \A i \in 1..Len(r.rows) : r.rows[i] \in RowSet
  BY <1>1
<1> QED
  BY <1>1, <1>2 DEF RowSet

LEMMA ClientFrame ==
    ASSUME PlaylistInv, NEW c \in Editors, NEW p \in Jobs, NEW n, NEW T, NEW m, NEW v, NEW e,
           Becomes(c, p, n, T, m, v, e),
           \A r \in T : r.id < m /\ \A s \in T : r.id = s.id => r = s,
           Numbers(v, p) => v.rows # <<>> /\ \A i \in 1..Len(v.rows) : v.rows[i].id < m,
           OrderInv(p)'
    PROVE  PlaylistInv'
<1>1. /\ name'[p] = n /\ tracks'[p] = T /\ nextId'[p] = m /\ edited'[p] = e /\ req'[c] = v /\ job' = job
      /\ \A q \in Jobs \ {p} : name'[q] = name[q] /\ tracks'[q] = tracks[q] /\ nextId'[q] = nextId[q]
                              /\ edited'[q] = edited[q]
      /\ \A d \in Editors \ {c} : req'[d] = req[d]
  BY DEF PlaylistInv, JobsTyped, Becomes
<1>2. JobsTyped'
  <2>1. DOMAIN req' = Editors /\ \A d \in Editors : req'[d] = Job!Idle \/ (req'[d] \in PlanSet /\ req'[d].todo # <<>>)
    BY <1>1 DEF PlaylistInv, JobsTyped, Becomes
  <2>2. tracks' \in [Jobs -> SUBSET RowSet] /\ \A q \in Jobs : IsFiniteSet(tracks'[q])
    BY <1>1 DEF PlaylistInv, JobsTyped, Becomes
  <2>3. name' \in [Jobs -> NameSet] /\ nextId' \in [Jobs -> Nat] /\ edited' \in [Jobs -> {"no", "yes", "mixed"}]
    BY <1>1 DEF PlaylistInv, JobsTyped, Becomes
  <2> QED
    BY <1>1, <2>1, <2>2, <2>3 DEF PlaylistInv, JobsTyped
<1>3. RowsApart'
  BY <1>1 DEF PlaylistInv, RowsApart
<1>4. \A q \in Jobs : nextId[q] \in Nat /\ nextId'[q] \in Nat /\ nextId[q] <= nextId'[q]
  <2>1. nextId \in [Jobs -> Nat] /\ m \in Nat /\ nextId[p] <= m
    BY DEF PlaylistInv, JobsTyped, Becomes
  <2> QED
    BY <1>1, <2>1
<1>5. RequestsPlanned'
  <2>1. ASSUME NEW d \in Editors, NEW q \in Jobs, Numbers(req'[d], q)
        PROVE  req'[d].rows # <<>> /\ \A i \in 1..Len(req'[d].rows) : req'[d].rows[i].id < nextId'[q]
    <3>1. CASE d = c
      <4>1. q = p
        BY <1>1, <2>1, <3>1 DEF Becomes
      <4> QED
        BY <1>1, <2>1, <3>1, <4>1
    <3>2. CASE d # c
      <4>1. req'[d] = req[d] /\ req[d] \in PlanSet
        BY <1>1, <2>1, <3>2 DEF PlaylistInv, JobsTyped, Numbers, Job!Idle
      <4>2. \A i \in 1..Len(req[d].rows) : req[d].rows[i].id \in Nat
        BY <4>1, RowsAreTyped
      <4>3. req[d].rows # <<>> /\ \A i \in 1..Len(req[d].rows) : req[d].rows[i].id < nextId[q]
        BY <2>1, <4>1 DEF PlaylistInv, RequestsPlanned
      <4> QED
        BY <1>4, <4>1, <4>2, <4>3
    <3> QED
      BY <3>1, <3>2
  <2>2. \A d \in Editors : ListsThenNumbers(req'[d].todo)
    BY <1>1 DEF PlaylistInv, RequestsPlanned, Becomes
  <2>3. \A d \in Editors, q \in Jobs : Numbers(req'[d], q) =>
            req'[d].rows # <<>> /\ \A i \in 1..Len(req'[d].rows) : req'[d].rows[i].id < nextId'[q]
    BY <2>1
  <2> QED
    BY <2>2, <2>3 DEF RequestsPlanned, Numbers, ListsThenNumbers
<1>6. ASSUME NEW q \in Jobs \ {p}
      PROVE  Alright(q)'
  <2>1. Alright(q)
    BY DEF PlaylistInv
  <2>2. job'[q] = job[q] /\ name'[q] = name[q] /\ tracks'[q] = tracks[q] /\ edited'[q] = edited[q]
    BY <1>1
  <2>3. /\ FromSource(q)' = FromSource(q) /\ (Job!At(q, "done") <=> Job!At(q, "done")')
        /\ (Job!At(q, "adding") <=> Job!At(q, "adding")')
    BY <2>2 DEF FromSource, Job!At
  <2>4. /\ JobOk(q, job[q])' /\ (Untouched(q) => Untouched(q)') /\ (InOrder(q) => InOrder(q)')
        /\ (Filling(q) => Filling(q)')
    BY <2>1, <2>2, <2>3 DEF Alright, Untouched, InOrder, Filling, JobOk, Searched, InTurn
  <2>5. /\ ~ Numbers(req[c], q) /\ ~ Numbers(req[c], q)'
        /\ \A d \in Editors \ {c} : Numbers(req[d], q)' <=> Numbers(req[d], q)
    BY <1>1 DEF Becomes, Numbers
  <2>6. ASSUME NEW d \in Editors \ {c}, Numbering(d, q)
        PROVE  Numbering(d, q)'
    <3>1. req'[d] = req[d]
      BY <1>1
    <3>2. \A t : OnList(req[d], t)' <=> OnList(req[d], t)
      BY <3>1 DEF OnList
    <3>3. NumberedFirst(req[d], q)'
      BY <2>3, <2>6, <3>1, <3>2 DEF Numbering, NumberedFirst
    <3>4. ListInOrder(req[d])' /\ ListAgrees(req[d], q)'
      BY <2>2, <2>6, <3>1 DEF Numbering, ListInOrder, ListAgrees
    <3>5. \A b \in Editors : Numbers(req[b], q)' => b = d
      BY <2>5, <2>6 DEF Numbering
    <3> QED
      BY <2>3, <2>6, <3>3, <3>4, <3>5 DEF Numbering
  <2>7. OrderInv(q)'
    <3>1. (\A d \in Editors : Numbers(req[d], q) => Numbering(d, q)) =>
              (\A d \in Editors : Numbers(req[d], q)' => Numbering(d, q)')
      BY <2>5, <2>6
    <3>2. (\A d \in Editors : ~ Numbers(req[d], q)') => (\A d \in Editors : ~ Numbers(req[d], q))
      BY <2>5
    <3>3. OrderInv(q)
      BY <2>1 DEF Alright
    <3> QED
      BY <2>2, <2>3, <2>4, <3>1, <3>2, <3>3 DEF OrderInv
  <2> QED
    BY <2>1, <2>2, <2>4, <2>7 DEF Alright
<1>7. Alright(p)'
  <2>1. JobOk(p, job[p])'
    BY <1>1 DEF PlaylistInv, Alright, JobOk, Searched, InTurn
  <2>2. edited'[p] = "no" => Untouched(p)'
    BY SMTT(60), <1>1 DEF PlaylistInv, Alright, Untouched, Becomes
  <2> QED
    BY <2>1, <2>2 DEF Alright
<1> QED
  BY <1>2, <1>3, <1>5, <1>6, <1>7 DEF PlaylistInv

(* A step in whose request no numbering goes on, and that adds no rows but *)
(* a client's.                                                             *)
LEMMA OrderStays ==
    ASSUME PlaylistInv, NEW c \in Editors, NEW p \in Jobs, NEW n, NEW T, NEW m, NEW v, NEW e,
           Becomes(c, p, n, T, m, v, e), ~ Numbers(req[c], p), ~ Numbers(v, p),
           \A t \in T : t \in tracks[p] \/ (t.by = 0 /\ t.id = nextId[p])
    PROVE  OrderInv(p)'
<1>1. /\ tracks'[p] = T /\ edited'[p] = e /\ req'[c] = v /\ job' = job
      /\ \A d \in Editors \ {c} : req'[d] = req[d]
  BY DEF PlaylistInv, JobsTyped, Becomes
<1>2. /\ FromSource(p)' \subseteq FromSource(p)
      /\ (Job!At(p, "done") <=> Job!At(p, "done")') /\ (Job!At(p, "adding") <=> Job!At(p, "adding")')
      /\ (edited'[p] # "mixed" => edited[p] # "mixed")
  BY <1>1 DEF FromSource, Job!At, Becomes
<1>3. /\ ~ Numbers(req[c], p) /\ ~ Numbers(req[c], p)'
      /\ \A d \in Editors \ {c} : Numbers(req[d], p)' <=> Numbers(req[d], p)
  BY <1>1 DEF Numbers
<1>4. (InOrder(p) => InOrder(p)') /\ (Filling(p) => Filling(p)')
  BY <1>1, <1>2 DEF InOrder, Filling
<1>5. ASSUME NEW d \in Editors \ {c}, Numbers(req[d], p), Numbering(d, p)
      PROVE  Numbering(d, p)'
  <2>1. req'[d] = req[d]
    BY <1>1
  <2>2. \A t : OnList(req[d], t)' <=> OnList(req[d], t)
    BY <2>1 DEF OnList
  <2>3. NumberedFirst(req[d], p)'
    BY <1>2, <1>5, <2>1, <2>2 DEF Numbering, NumberedFirst
  <2>4. \A i \in 1..Len(req[d].rows) : req[d].rows[i].id # nextId[p]
    <3>1. req[d] \in PlanSet
      BY <1>5 DEF PlaylistInv, JobsTyped, Numbers, Job!Idle
    <3>2. \A i \in 1..Len(req[d].rows) : req[d].rows[i].id \in Nat
      BY <3>1, RowsAreTyped
    <3>3. \A i \in 1..Len(req[d].rows) : req[d].rows[i].id < nextId[p]
      BY <1>5 DEF PlaylistInv, RequestsPlanned
    <3>4. nextId[p] \in Nat
      BY DEF PlaylistInv, JobsTyped
    <3> QED
      BY <3>2, <3>3, <3>4
  <2>5. ListInOrder(req[d])' /\ ListAgrees(req[d], p)'
    BY <1>1, <1>5, <2>1, <2>4 DEF Numbering, ListInOrder, ListAgrees
  <2>6. \A b \in Editors : Numbers(req[b], p)' => b = d
    BY <1>3, <1>5 DEF Numbering
  <2> QED
    BY <1>2, <1>5, <2>3, <2>5, <2>6 DEF Numbering
<1>6. (\A d \in Editors : Numbers(req[d], p) => Numbering(d, p)) =>
          (\A d \in Editors : Numbers(req[d], p)' => Numbering(d, p)')
  BY <1>3, <1>5
<1>7. (\A d \in Editors : ~ Numbers(req[d], p)') => (\A d \in Editors : ~ Numbers(req[d], p))
  BY <1>3
<1>8. OrderInv(p)
  BY DEF PlaylistInv, Alright
<1> QED
  BY <1>2, <1>4, <1>6, <1>7, <1>8 DEF OrderInv

(* Plans of requests.                                                      *)
Plan(todo) == todo \in Seq(Statements) /\ ListsThenNumbers(todo) /\ (todo # <<>> => todo[1] # "number")

LEMMA PlansJoin ==
    ASSUME NEW s, NEW t, Plan(s), Plan(t)
    PROVE  Plan(s \o t)
<1>1. /\ s \o t \in Seq(Statements) /\ Len(s) \in Nat /\ Len(t) \in Nat /\ Len(s \o t) = Len(s) + Len(t)
      /\ \A i \in 1..Len(s) : (s \o t)[i] = s[i]
      /\ \A i \in (Len(s) + 1)..(Len(s) + Len(t)) : (s \o t)[i] = t[i - Len(s)]
      /\ (s = <<>> <=> Len(s) = 0) /\ (t = <<>> <=> Len(t) = 0)
  BY DEF Plan
<1> DEFINE u == s \o t
<1> HIDE DEF u
<1>2. ASSUME NEW i \in 2..Len(u), u[i] = "number"
      PROVE  u[i - 1] = "list"
  <2>1. CASE i <= Len(s)
    BY <1>1, <1>2, <2>1 DEF u, Plan, ListsThenNumbers
  <2>2. CASE i = Len(s) + 1
    <3>1. u[i] = t[1] /\ t # <<>>
      BY <1>1, <2>2 DEF u
    <3> QED
      BY <1>2, <3>1 DEF Plan
  <2>3. CASE i > Len(s) + 1
    <3>1. /\ i - Len(s) \in 2..Len(t) /\ u[i] = t[i - Len(s)] /\ (i - Len(s)) - 1 = (i - 1) - Len(s)
          /\ u[i - 1] = t[(i - 1) - Len(s)]
      BY <1>1, <2>3 DEF u
    <3> QED
      BY <1>2, <3>1 DEF Plan, ListsThenNumbers
  <2> QED
    BY <1>1, <2>1, <2>2, <2>3 DEF u
<1>3. ASSUME NEW i \in 1..Len(u), u[i] = "list"
      PROVE  i < Len(u) /\ u[i + 1] = "number"
  <2>1. CASE i <= Len(s)
    <3>1. i < Len(s) /\ s[i + 1] = "number"
      BY <1>1, <1>3, <2>1 DEF u, Plan, ListsThenNumbers
    <3> QED
      BY <1>1, <3>1 DEF u
  <2>2. CASE i > Len(s)
    <3>1. i - Len(s) \in 1..Len(t) /\ t[i - Len(s)] = "list"
      BY <1>1, <1>3, <2>2 DEF u
    <3>2. i - Len(s) < Len(t) /\ t[(i - Len(s)) + 1] = "number"
      BY <3>1 DEF Plan, ListsThenNumbers
    <3>3. i < Len(u) /\ u[i + 1] = t[(i + 1) - Len(s)] /\ (i + 1) - Len(s) = (i - Len(s)) + 1
      BY <1>1, <2>2, <3>1, <3>2 DEF u
    <3> QED
      BY <3>2, <3>3
  <2> QED
    BY <1>1, <2>1, <2>2 DEF u
<1>4. u # <<>> => u[1] # "number"
  <2>1. CASE Len(s) > 0
    BY <1>1, <2>1 DEF u, Plan
  <2>2. CASE Len(s) = 0 /\ Len(t) > 0
    BY <1>1, <2>2 DEF u, Plan
  <2>3. CASE Len(s) = 0 /\ Len(t) = 0
    BY <1>1, <2>3 DEF u
  <2> QED
    BY <1>1, <2>1, <2>2, <2>3
<1>5. u \in Seq(Statements)
  BY <1>1 DEF u
<1> QED
  BY <1>2, <1>3, <1>4, <1>5 DEF u, Plan, ListsThenNumbers

LEMMA ShortPlans ==
    /\ Plan(<<>>) /\ Plan(<<"save">>) /\ Plan(<<"max", "insert">>) /\ Plan(<<"clear", "drop">>)
    /\ Plan(<<"find", "delete", "list", "number">>)
<1>1. Plan(<<>>) /\ Plan(<<"save">>)
  <2>1. <<>> \in Seq(Statements) /\ <<"save">> \in Seq(Statements)
    BY DEF Statements
  <2> QED
    BY <2>1 DEF Plan, ListsThenNumbers
<1>2. Plan(<<"max", "insert">>)
  <2> DEFINE u == <<"max", "insert">>
  <2>1. u \in Seq(Statements) /\ Len(u) = 2 /\ u[1] = "max" /\ u[2] = "insert"
    BY DEF Statements
  <2> HIDE DEF u
  <2>2. ListsThenNumbers(u)
    BY <2>1 DEF ListsThenNumbers
  <2> QED
    BY <2>1, <2>2 DEF u, Plan
<1>3. Plan(<<"clear", "drop">>)
  <2> DEFINE u == <<"clear", "drop">>
  <2>1. u \in Seq(Statements) /\ Len(u) = 2 /\ u[1] = "clear" /\ u[2] = "drop"
    BY DEF Statements
  <2> HIDE DEF u
  <2>2. ListsThenNumbers(u)
    BY <2>1 DEF ListsThenNumbers
  <2> QED
    BY <2>1, <2>2 DEF u, Plan
<1>4. Plan(<<"find", "delete", "list", "number">>)
  <2> DEFINE u == <<"find", "delete", "list", "number">>
  <2>1. u \in Seq(Statements) /\ Len(u) = 4 /\ u[1] = "find" /\ u[2] = "delete" /\ u[3] = "list" /\ u[4] = "number"
    BY DEF Statements
  <2> HIDE DEF u
  <2>2. ListsThenNumbers(u)
    BY <2>1 DEF ListsThenNumbers
  <2> QED
    BY <2>1, <2>2 DEF u, Plan
<1> QED
  BY <1>1, <1>2, <1>3, <1>4

LEMMA EmptyOrNot ==
    ASSUME NEW S, NEW t \in Seq(S)
    PROVE  (t = <<>> <=> Len(t) = 0) /\ (t # <<>> => Head(t) = t[1])
<1>1. t = <<>> <=> Len(t) = 0
  OBVIOUS
<1>2. t # <<>> => Head(t) = t[1]
  OBVIOUS
<1> QED
  BY <1>1, <1>2

LEMMA PlanGoesOn ==
    ASSUME NEW todo \in Seq(Statements), todo # <<>>, ListsThenNumbers(todo)
    PROVE  /\ Tail(todo) \in Seq(Statements) /\ ListsThenNumbers(Tail(todo))
           /\ Head(todo) # "list" => Plan(Tail(todo))
           /\ Head(todo) = "list" => Tail(todo) # <<>> /\ Head(Tail(todo)) = "number" /\ Plan(Tail(Tail(todo)))
<1>1. ASSUME NEW s \in Seq(Statements), s # <<>>, ListsThenNumbers(s)
      PROVE  /\ Tail(s) \in Seq(Statements) /\ ListsThenNumbers(Tail(s))
             /\ Head(s) # "list" => Plan(Tail(s))
             /\ Head(s) = "list" => Tail(s) # <<>> /\ Head(Tail(s)) = "number"
  <2>1. /\ Tail(s) \in Seq(Statements) /\ Len(s) \in Nat \ {0} /\ Len(Tail(s)) = Len(s) - 1 /\ Head(s) = s[1]
        /\ \A i \in 1..(Len(s) - 1) : Tail(s)[i] = s[i + 1]
        /\ (Tail(s) = <<>> <=> Len(s) = 1) /\ (Len(s) # 1 => Head(Tail(s)) = s[2])
    <3>1. /\ Tail(s) \in Seq(Statements) /\ Len(s) \in Nat \ {0} /\ Len(Tail(s)) = Len(s) - 1 /\ Head(s) = s[1]
          /\ \A i \in 1..(Len(s) - 1) : Tail(s)[i] = s[i + 1]
      BY <1>1
    <3> DEFINE t == Tail(s)
    <3> HIDE DEF t
    <3>2. t \in Seq(Statements) /\ Len(t) = Len(s) - 1
      BY <3>1 DEF t
    <3>3. (t = <<>> <=> Len(t) = 0) /\ (t # <<>> => Head(t) = t[1])
      BY <3>2, EmptyOrNot
    <3>4. Len(s) # 1 => 1 \in 1..(Len(s) - 1) /\ 1 + 1 = 2
      BY <3>1
    <3>5. Len(s) # 1 => Tail(s)[1] = s[2]
      BY <3>1, <3>4
    <3> QED
      BY <3>1, <3>2, <3>3, <3>5 DEF t
  <2> DEFINE t == Tail(s)
  <2> HIDE DEF t
  <2>2. ASSUME NEW i \in 2..Len(t), t[i] = "number"
        PROVE  t[i - 1] = "list"
    <3>1. i + 1 \in 2..Len(s) /\ t[i] = s[i + 1] /\ t[i - 1] = s[(i - 1) + 1] /\ (i - 1) + 1 = (i + 1) - 1
      BY <2>1 DEF t
    <3> QED
      BY <1>1, <2>2, <3>1 DEF ListsThenNumbers
  <2>3. ASSUME NEW i \in 1..Len(t), t[i] = "list"
        PROVE  i < Len(t) /\ t[i + 1] = "number"
    <3>1. i + 1 \in 1..Len(s) /\ t[i] = s[i + 1]
      BY <2>1 DEF t
    <3>2. i + 1 < Len(s) /\ s[(i + 1) + 1] = "number"
      BY <1>1, <2>3, <3>1 DEF ListsThenNumbers
    <3> QED
      BY <2>1, <3>1, <3>2 DEF t
  <2>4. ListsThenNumbers(t)
    BY <2>2, <2>3 DEF ListsThenNumbers
  <2>5. s[1] # "list" /\ t # <<>> => t[1] # "number"
    <3>1. t # <<>> => 2 \in 2..Len(s) /\ t[1] = s[2] /\ 2 - 1 = 1
      BY <2>1 DEF t
    <3> QED
      BY <1>1, <3>1 DEF ListsThenNumbers
  <2>6. s[1] = "list" => Len(s) # 1 /\ s[2] = "number"
    <3>1. 1 \in 1..Len(s) /\ 1 + 1 = 2
      BY <2>1
    <3> QED
      BY <1>1, <2>1, <3>1 DEF ListsThenNumbers
  <2> QED
    BY <2>1, <2>4, <2>5, <2>6 DEF t, Plan
<1>2. Head(todo) = "list" => Plan(Tail(Tail(todo)))
  <2> SUFFICES ASSUME Head(todo) = "list"
               PROVE  Plan(Tail(Tail(todo)))
    OBVIOUS
  <2>1. /\ Tail(todo) \in Seq(Statements) /\ ListsThenNumbers(Tail(todo))
        /\ Tail(todo) # <<>> /\ Head(Tail(todo)) = "number"
    BY <1>1
  <2> QED
    BY <1>1, <2>1
<1> QED
  BY <1>1, <1>2

LEMMA Asks ==
    ASSUME PlaylistInv, NEW c \in Editors, NEW p \in Jobs, NEW newName \in BOOLEAN, NEW todo,
           Plan(todo), todo # <<>>, Job!Ask(c, p, newName, todo)
    PROVE  PlaylistInv'
<1> DEFINE copy == IF newName THEN "mine" ELSE name[p]
           v == [Job!Idle EXCEPT !.p = p, !.todo = todo, !.copy = copy]
<1>1. /\ req[c] = Job!Idle /\ req' = [req EXCEPT ![c] = v] /\ job' = job
      /\ UNCHANGED <<name, tracks, nextId, edited>>
  BY DEF Job!Ask, Job!db
<1>2. todo \in Seq(Statements) /\ ListsThenNumbers(todo) /\ Head(todo) # "number"
  BY EmptyOrNot DEF Plan
<1>3. copy \in NameSet
  BY DEF PlaylistInv, JobsTyped, NameSet
<1> HIDE DEF copy
<1>4. v \in PlanSet /\ v.todo = todo /\ v.p = p
  <2>1. <<>> \in Seq(RowSet) /\ 0 \in Nat
    OBVIOUS
  <2> QED
    BY <1>2, <1>3, <2>1 DEF Job!Idle, PlanSet
<1> HIDE DEF v
<1>5. \A q \in Jobs : ~ Numbers(req[c], q) /\ ~ Numbers(v, q)
  <2>1. \A q \in Jobs : ~ Numbers(req[c], q)
    BY <1>1 DEF Numbers, Job!Idle
  <2> QED
    BY <1>2, <1>4, <2>1 DEF Numbers
<1>6. Becomes(c, p, name[p], tracks[p], nextId[p], v, edited[p])
  BY <1>1, <1>2, <1>4, <1>5 DEF Becomes, PlaylistInv, JobsTyped
<1>7. \A r \in tracks[p] : r.id < nextId[p] /\ \A s \in tracks[p] : r.id = s.id => r = s
  BY DEF PlaylistInv, RowsApart
<1>8. OrderInv(p)'
  BY <1>5, <1>6, OrderStays
<1> QED
  BY <1>5, <1>6, <1>7, <1>8, ClientFrame

LEMMA Requests ==
    ASSUME PlaylistInv, NEW c \in Editors, NEW p \in Jobs,
           \/ \E rename, add, remove \in BOOLEAN : Job!Update(c, p, rename, add, remove)
           \/ \E add \in BOOLEAN : Job!AppendTo(c, p, add)
           \/ Job!Delete(c, p)
    PROVE  PlaylistInv'
<1>1. ASSUME NEW rename \in BOOLEAN, NEW add \in BOOLEAN, NEW remove \in BOOLEAN, Job!Update(c, p, rename, add, remove)
      PROVE  PlaylistInv'
  <2> DEFINE x == IF add THEN <<"max", "insert">> ELSE <<>>
             y == IF remove THEN <<"find", "delete", "list", "number">> ELSE <<>>
  <2>1. Plan(x) /\ Plan(y) /\ Plan(<<"save">>)
    BY ShortPlans
  <2>2. Job!Ask(c, p, rename, x \o y \o <<"save">>)
    BY <1>1 DEF Job!Update
  <2> HIDE DEF x, y
  <2>3. Plan(x \o y) /\ Plan(x \o y \o <<"save">>)
    BY <2>1, PlansJoin
  <2>4. x \o y \o <<"save">> # <<>>
    <3>1. x \o y \in Seq(Statements) /\ <<"save">> \in Seq(Statements) /\ Len(<<"save">>) = 1 /\ Len(x \o y) \in Nat
      BY <2>1, <2>3 DEF Plan
    <3>2. Len((x \o y) \o <<"save">>) = Len(x \o y) + 1
      BY <3>1
    <3> QED
      BY <3>1, <3>2
  <2> QED
    BY <2>2, <2>3, <2>4, Asks
<1>2. ASSUME NEW add \in BOOLEAN, Job!AppendTo(c, p, add)
      PROVE  PlaylistInv'
  <2> DEFINE y == IF add THEN <<"max", "insert">> ELSE <<>>
  <2>1. Plan(y) /\ Plan(<<"save">>)
    BY ShortPlans
  <2>2. Job!Ask(c, p, TRUE, <<"save">> \o y)
    BY <1>2 DEF Job!AppendTo
  <2> HIDE DEF y
  <2>3. Plan(<<"save">> \o y)
    BY <2>1, PlansJoin
  <2>4. <<"save">> \o y # <<>>
    <3>1. y \in Seq(Statements) /\ <<"save">> \in Seq(Statements) /\ Len(<<"save">>) = 1 /\ Len(y) \in Nat
      BY <2>1 DEF Plan
    <3>2. Len(<<"save">> \o y) = 1 + Len(y)
      BY <3>1
    <3> QED
      BY <3>1, <3>2
  <2> QED
    BY <2>2, <2>3, <2>4, Asks
<1>3. CASE Job!Delete(c, p)
  <2>1. Plan(<<"clear", "drop">>) /\ <<"clear", "drop">> # <<>>
    BY ShortPlans
  <2> QED
    BY <1>3, <2>1, Asks DEF Job!Delete
<1> QED
  BY <1>1, <1>2, <1>3

(* What a statement of a request knows of it, and the request it leaves.   *)
LEMMA AtWork ==
    ASSUME PlaylistInv, NEW c \in Editors, NEW p \in Jobs, NEW st, Job!Doing(c, p, st)
    PROVE  /\ req[c] \in PlanSet /\ req[c].p = p /\ req[c].todo # <<>> /\ Head(req[c].todo) = st /\ job' = job
           /\ req[c].todo \in Seq(Statements) /\ ListsThenNumbers(req[c].todo)
BY DEF PlaylistInv, JobsTyped, RequestsPlanned, Job!Doing, PlanSet

LEMMA Leaves ==
    ASSUME PlaylistInv, NEW c \in Editors, NEW p \in Jobs, NEW st, Job!Doing(c, p, st), NEW r \in PlanSet,
           r.p = p, ListsThenNumbers(r.todo), Job!Step(c, r)
    PROVE  \E v :
               /\ req' = [req EXCEPT ![c] = v] /\ (v = Job!Idle \/ (v \in PlanSet /\ v.todo # <<>>))
               /\ ListsThenNumbers(v.todo) /\ \A q \in Jobs \ {p} : ~ Numbers(req[c], q) /\ ~ Numbers(v, q)
               /\ Numbers(v, p) <=> Numbers(r, p)
               /\ Numbers(v, p) => v = r
<1> DEFINE v == IF r.todo = <<>> THEN Job!Idle ELSE r
<1>1. req' = [req EXCEPT ![c] = v]
  BY DEF Job!Step
<1>2. v = Job!Idle \/ (v \in PlanSet /\ v.todo # <<>>)
  <2>1. CASE r.todo = <<>>
    BY <2>1
  <2>2. CASE r.todo # <<>>
    BY <2>2
  <2> QED
    BY <2>1, <2>2
<1>3. ListsThenNumbers(v.todo)
  BY ShortPlans DEF Job!Idle, Plan
<1>4. \A q \in Jobs \ {p} : ~ Numbers(req[c], q) /\ ~ Numbers(v, q)
  BY AtWork DEF Numbers, Job!Idle
<1>5. (Numbers(v, p) <=> Numbers(r, p)) /\ (Numbers(v, p) => v = r)
  BY DEF Numbers, Job!Idle
<1> HIDE DEF v
<1> QED
  BY <1>1, <1>2, <1>3, <1>4, <1>5

(* A statement that neither lists nor numbers.                             *)
LEMMA Statement ==
    ASSUME PlaylistInv, NEW c \in Editors, NEW p \in Jobs, NEW st, st \notin {"list", "number"}, Job!Doing(c, p, st),
           NEW r \in PlanSet, r.p = p, r.todo = Tail(req[c].todo), Job!Step(c, r),
           NEW n \in NameSet, NEW T \in SUBSET RowSet, IsFiniteSet(T), NEW m \in Nat, nextId[p] <= m,
           NEW e \in {"no", "yes", "mixed"},
           name' = [name EXCEPT ![p] = n], tracks' = [tracks EXCEPT ![p] = T], nextId' = [nextId EXCEPT ![p] = m],
           edited' = [edited EXCEPT ![p] = e],
           e = "no" => n = name[p] /\ T = tracks[p] /\ edited[p] = "no",
           edited[p] = "mixed" => e = "mixed",
           \A t \in T : t \in tracks[p] \/ (t.by = 0 /\ t.id = nextId[p] /\ nextId[p] < m),
           \A t, s \in T : t \in tracks[p] \/ s \in tracks[p] \/ t = s
    PROVE  PlaylistInv'
<1>1. /\ req[c].p = p /\ req[c].todo # <<>> /\ Head(req[c].todo) = st /\ job' = job
      /\ req[c].todo \in Seq(Statements) /\ ListsThenNumbers(req[c].todo)
  BY AtWork
<1>2. Plan(r.todo) /\ ListsThenNumbers(r.todo)
  BY <1>1, PlanGoesOn
<1>3. ~ Numbers(r, p) /\ ~ Numbers(req[c], p)
  BY <1>1, <1>2, EmptyOrNot DEF Numbers, Plan
<1>4. PICK v :
          /\ req' = [req EXCEPT ![c] = v] /\ (v = Job!Idle \/ (v \in PlanSet /\ v.todo # <<>>))
          /\ ListsThenNumbers(v.todo) /\ \A q \in Jobs \ {p} : ~ Numbers(req[c], q) /\ ~ Numbers(v, q)
          /\ Numbers(v, p) <=> Numbers(r, p)
          /\ Numbers(v, p) => v = r
  BY <1>2, Leaves
<1>5. Becomes(c, p, n, T, m, v, e)
  BY <1>1, <1>4 DEF Becomes
<1>6. OrderInv(p)'
  BY <1>3, <1>4, <1>5, OrderStays
<1>7. \A t \in T : t.id < m /\ \A s \in T : t.id = s.id => t = s
  <2>1. \A t \in tracks[p] : t.id < nextId[p] /\ t.id \in Nat /\ \A s \in tracks[p] : t.id = s.id => t = s
    BY DEF PlaylistInv, RowsApart, JobsTyped, RowSet
  <2>2. nextId[p] \in Nat
    BY DEF PlaylistInv, JobsTyped
  <2> QED
    BY <2>1, <2>2
<1> QED
  BY <1>3, <1>4, <1>5, <1>6, <1>7, ClientFrame

LEMMA ReadsNoOrder ==
    ASSUME PlaylistInv, NEW c \in Editors, NEW p \in Jobs, Job!ReadMax(c, p) \/ Job!FindVictim(c, p)
    PROVE  PlaylistInv'
<1>1. PICK st \in {"max", "find"}, r \in PlanSet :
          Job!Doing(c, p, st) /\ r.p = p /\ r.todo = Tail(req[c].todo) /\ Job!Step(c, r) /\ UNCHANGED <<Job!db, edited>>
  <2>1. CASE Job!ReadMax(c, p)
    <3>1. /\ req[c] \in PlanSet /\ req[c].p = p /\ Tail(req[c].todo) \in Seq(Statements)
      BY <2>1, AtWork, PlanGoesOn DEF Job!ReadMax
    <3>2. Job!MaxPosition(p) \in Nat \cup {-1}
      BY MaxIsTyped DEF PlaylistInv
    <3> DEFINE r == [Job!Rest(c) EXCEPT !.max = Job!MaxPosition(p)]
    <3>3. r \in PlanSet /\ r.p = p /\ r.todo = Tail(req[c].todo)
      BY <3>1, <3>2 DEF Job!Rest, PlanSet
    <3>4. Job!Doing(c, p, "max") /\ Job!Step(c, r) /\ UNCHANGED <<Job!db, edited>>
      BY <2>1 DEF Job!ReadMax
    <3> QED
      BY <3>3, <3>4
  <2>2. CASE Job!FindVictim(c, p)
    <3>1. /\ req[c] \in PlanSet /\ req[c].p = p /\ Tail(req[c].todo) \in Seq(Statements)
      BY <2>2, AtWork, PlanGoesOn DEF Job!FindVictim
    <3>2. PICK rows \in {<<>>} \cup {<<t>> : t \in tracks[p]} : Job!Step(c, [Job!Rest(c) EXCEPT !.rows = rows])
      BY <2>2 DEF Job!FindVictim
    <3>3. rows \in Seq(RowSet)
      <4>1. \A t \in tracks[p] : t \in RowSet
        BY DEF PlaylistInv, JobsTyped
      <4>2. CASE rows = <<>>
        BY <4>2
      <4>3. CASE \E t \in tracks[p] : rows = <<t>>
        BY <4>1, <4>3
      <4> QED
        BY <3>2, <4>2, <4>3
    <3> DEFINE r == [Job!Rest(c) EXCEPT !.rows = rows]
    <3>4. r \in PlanSet /\ r.p = p /\ r.todo = Tail(req[c].todo)
      BY <3>1, <3>3 DEF Job!Rest, PlanSet
    <3>5. Job!Doing(c, p, "find") /\ Job!Step(c, r) /\ UNCHANGED <<Job!db, edited>>
      BY <2>2, <3>2 DEF Job!FindVictim
    <3> QED
      BY <3>4, <3>5
  <2> QED
    BY <2>1, <2>2
<1>2. /\ name[p] \in NameSet /\ tracks[p] \in SUBSET RowSet /\ IsFiniteSet(tracks[p]) /\ nextId[p] \in Nat
      /\ edited[p] \in {"no", "yes", "mixed"}
      /\ name' = [name EXCEPT ![p] = name[p]] /\ tracks' = [tracks EXCEPT ![p] = tracks[p]]
      /\ nextId' = [nextId EXCEPT ![p] = nextId[p]] /\ edited' = [edited EXCEPT ![p] = edited[p]]
  BY <1>1 DEF PlaylistInv, JobsTyped, Job!db
<1>3. nextId[p] <= nextId[p] /\ st \notin {"list", "number"}
  BY <1>1, <1>2
<1>4. /\ edited[p] = "no" => name[p] = name[p] /\ tracks[p] = tracks[p] /\ edited[p] = "no"
      /\ edited[p] = "mixed" => edited[p] = "mixed"
      /\ \A t \in tracks[p] : t \in tracks[p] \/ (t.by = 0 /\ t.id = nextId[p] /\ nextId[p] < nextId[p])
      /\ \A t, s \in tracks[p] : t \in tracks[p] \/ s \in tracks[p] \/ t = s
  OBVIOUS
<1> QED
  BY <1>1, <1>2, <1>3, <1>4, Statement

(* The request a statement leaves, when it only takes itself off the list. *)
LEMMA TakesOff ==
    ASSUME PlaylistInv, NEW c \in Editors, NEW p \in Jobs, NEW st, Job!Doing(c, p, st)
    PROVE  Job!Rest(c) \in PlanSet /\ Job!Rest(c).p = p /\ Job!Rest(c).todo = Tail(req[c].todo)
<1>1. req[c] \in PlanSet /\ req[c].p = p /\ Tail(req[c].todo) \in Seq(Statements)
  BY AtWork, PlanGoesOn
<1> QED
  BY <1>1 DEF Job!Rest, PlanSet

(* What a statement may make of a playlist: its row, and its tracks, of    *)
(* which at most one is new.                                               *)
Wrote(p, n, T, m) ==
    /\ name' = [name EXCEPT ![p] = n] /\ tracks' = [tracks EXCEPT ![p] = T] /\ nextId' = [nextId EXCEPT ![p] = m]
    /\ n \in NameSet /\ T \in SUBSET RowSet /\ IsFiniteSet(T) /\ m \in Nat /\ nextId[p] <= m
    /\ \A t \in T : t \in tracks[p] \/ (t.by = 0 /\ t.id = nextId[p] /\ nextId[p] < m)
    /\ \A t, s \in T : t \in tracks[p] \/ s \in tracks[p] \/ t = s

LEMMA Writes ==
    ASSUME PlaylistInv, NEW c \in Editors, NEW p \in Jobs, NEW st, st \notin {"list", "number"}, Job!Doing(c, p, st),
           Job!Step(c, Job!Rest(c)), Job!Edit(p), NEW n, NEW T, NEW m, Wrote(p, n, T, m)
    PROVE  PlaylistInv'
<1> DEFINE e == IF edited[p] = "mixed" THEN "mixed" ELSE "yes"
<1>1. Job!Rest(c) \in PlanSet /\ Job!Rest(c).p = p /\ Job!Rest(c).todo = Tail(req[c].todo)
  BY TakesOff
<1>2. edited' = [edited EXCEPT ![p] = e]
  BY DEF Job!Edit
<1>3. e \in {"no", "yes", "mixed"} /\ e # "no" /\ (edited[p] = "mixed" => e = "mixed")
  OBVIOUS
<1> HIDE DEF e
<1> QED
  BY ZenonT(60), <1>1, <1>2, <1>3, Statement DEF Wrote

LEMMA Edits ==
    ASSUME PlaylistInv, NEW c \in Editors, NEW p \in Jobs, NEW enforced \in BOOLEAN,
           \/ Job!InsertTrack(c, p, enforced) \/ Job!DeleteTrack(c, p) \/ Job!SaveRow(c, p) \/ Job!ClearTracks(c, p)
           \/ Job!DropRow(c, p, enforced)
    PROVE  PlaylistInv'
<1>1. /\ name[p] \in NameSet /\ tracks[p] \in SUBSET RowSet /\ IsFiniteSet(tracks[p]) /\ nextId[p] \in Nat
      /\ (name' = name => name' = [name EXCEPT ![p] = name[p]])
      /\ (tracks' = tracks => tracks' = [tracks EXCEPT ![p] = tracks[p]])
      /\ (nextId' = nextId => nextId' = [nextId EXCEPT ![p] = nextId[p]])
  BY DEF PlaylistInv, JobsTyped
<1>2. nextId[p] <= nextId[p] /\ nextId[p] <= nextId[p] + 1 /\ nextId[p] < nextId[p] + 1 /\ nextId[p] + 1 \in Nat
  BY <1>1
<1>3. \A T \in SUBSET tracks[p] :
          /\ T \in SUBSET RowSet /\ IsFiniteSet(T)
          /\ \A t \in T : t \in tracks[p]
          /\ \A t, s \in T : t \in tracks[p] \/ s \in tracks[p] \/ t = s
  BY <1>1, FS_Subset
<1>4. CASE Job!InsertTrack(c, p, enforced)
  <2>1. Job!Doing(c, p, "insert") /\ Job!Step(c, Job!Rest(c)) /\ Job!Edit(p)
    BY <1>4 DEF Job!InsertTrack
  <2>2. CASE Job!Writable(p, enforced)
    <3> DEFINE t == Job!Row(p, "mine", req[c].max + 1, 0)
    <3>1. req[c].max + 1 \in Nat
      <4>1. req[c].max \in Nat \cup {-1}
        BY <2>1, AtWork, RowsAreTyped
      <4> QED
        BY <4>1
    <3>2. t \in RowSet /\ t.by = 0 /\ t.id = nextId[p]
      BY <1>1, <3>1 DEF Job!Row, RowSet
    <3> HIDE DEF t
    <3>3. /\ tracks' = [tracks EXCEPT ![p] = tracks[p] \cup {t}] /\ nextId' = [nextId EXCEPT ![p] = nextId[p] + 1]
          /\ name' = name
      BY <1>4, <2>2 DEF Job!InsertTrack, Job!Insert, t
    <3>4. tracks[p] \cup {t} \in SUBSET RowSet /\ IsFiniteSet(tracks[p] \cup {t})
      BY <1>1, <3>2, FS_AddElement
    <3>5. /\ \A u \in tracks[p] \cup {t} : u \in tracks[p] \/ (/\ u.by = 0 /\ u.id = nextId[p]
                                                              /\ nextId[p] < nextId[p] + 1)
          /\ \A u, s \in tracks[p] \cup {t} : u \in tracks[p] \/ s \in tracks[p] \/ u = s
      BY <1>2, <3>2
    <3>6. Wrote(p, name[p], tracks[p] \cup {t}, nextId[p] + 1)
      BY <1>1, <1>2, <3>3, <3>4, <3>5 DEF Wrote
    <3> QED
      BY <2>1, <3>6, Writes
  <2>3. CASE ~ Job!Writable(p, enforced)
    <3>1. UNCHANGED <<name, tracks, nextId>>
      BY <1>4, <2>3 DEF Job!InsertTrack, Job!db
    <3>2. Wrote(p, name[p], tracks[p], nextId[p])
      BY <1>1, <1>2, <1>3, <3>1 DEF Wrote
    <3> QED
      BY <2>1, <3>2, Writes
  <2> QED
    BY <2>2, <2>3
<1>5. CASE Job!DeleteTrack(c, p)
  <2> DEFINE T == {t \in tracks[p] : \A v \in Job!ToSet(req[c].rows) : t.id # v.id}
  <2>1. /\ Job!Doing(c, p, "delete") /\ Job!Step(c, Job!Rest(c)) /\ Job!Edit(p) /\ UNCHANGED <<name, nextId>>
        /\ tracks' = [tracks EXCEPT ![p] = T] /\ T \in SUBSET tracks[p]
    BY <1>5 DEF Job!DeleteTrack
  <2> HIDE DEF T
  <2>3. Wrote(p, name[p], T, nextId[p])
    BY <1>1, <1>2, <1>3, <2>1 DEF Wrote
  <2> QED
    BY <2>1, <2>3, Writes
<1>6. CASE Job!SaveRow(c, p)
  <2>1. /\ Job!Doing(c, p, "save") /\ Job!Step(c, Job!Rest(c)) /\ Job!Edit(p) /\ UNCHANGED <<tracks, nextId>>
        /\ name' = [name EXCEPT ![p] = req[c].copy]
    BY <1>6 DEF Job!SaveRow
  <2>2. req[c].copy \in NameSet
    BY <2>1, AtWork DEF PlanSet
  <2>3. Wrote(p, req[c].copy, tracks[p], nextId[p])
    BY <1>1, <1>2, <1>3, <2>1, <2>2 DEF Wrote
  <2> QED
    BY <2>1, <2>3, Writes
<1>7. CASE Job!ClearTracks(c, p)
  <2>1. /\ Job!Doing(c, p, "clear") /\ Job!Step(c, Job!Rest(c)) /\ Job!Edit(p) /\ UNCHANGED <<name, nextId>>
        /\ tracks' = [tracks EXCEPT ![p] = {}] /\ {} \in SUBSET tracks[p]
    BY <1>7 DEF Job!ClearTracks
  <2>3. Wrote(p, name[p], {}, nextId[p])
    BY <1>1, <1>2, <1>3, <2>1 DEF Wrote
  <2> QED
    BY <2>1, <2>3, Writes
<1>8. CASE Job!DropRow(c, p, enforced)
  <2> DEFINE T == IF enforced THEN {} ELSE tracks[p]
  <2>1. /\ Job!Doing(c, p, "drop") /\ Job!Step(c, Job!Rest(c)) /\ Job!Edit(p) /\ UNCHANGED nextId
        /\ name' = [name EXCEPT ![p] = "none"] /\ tracks' = [tracks EXCEPT ![p] = T] /\ T \in SUBSET tracks[p]
    BY <1>1, <1>8 DEF Job!DropRow
  <2>2. "none" \in NameSet
    BY DEF NameSet
  <2> HIDE DEF T
  <2>3. Wrote(p, "none", T, nextId[p])
    BY <1>1, <1>2, <1>3, <2>1, <2>2 DEF Wrote
  <2> QED
    BY <2>1, <2>3, Writes
<1> QED
  BY <1>4, <1>5, <1>6, <1>7, <1>8

(* Listing the rows, in the order of their positions.                      *)
LEMMA ListsRows ==
    ASSUME PlaylistInv, NEW c \in Editors, NEW p \in Jobs, Job!ListRest(c, p)
    PROVE  PlaylistInv'
<1> DEFINE e == IF Job!Alone(c, p) THEN edited[p] ELSE "mixed"
<1>1. PICK rest \in Job!Ordered(p) : Job!Step(c, IF rest = <<>> THEN [Job!Rest(c) EXCEPT !.todo = Tail(@)]
                                         ELSE [Job!Rest(c) EXCEPT !.rows = rest, !.max = -1])
  BY DEF Job!ListRest
<1> DEFINE r == IF rest = <<>> THEN [Job!Rest(c) EXCEPT !.todo = Tail(@)]
                ELSE [Job!Rest(c) EXCEPT !.rows = rest, !.max = -1]
<1>2. Job!Doing(c, p, "list") /\ edited' = [edited EXCEPT ![p] = e] /\ UNCHANGED <<name, tracks, nextId>>
  BY DEF Job!ListRest, Job!db
<1>3. /\ req[c].p = p /\ req[c].todo # <<>> /\ Head(req[c].todo) = "list" /\ job' = job
      /\ req[c].todo \in Seq(Statements) /\ ListsThenNumbers(req[c].todo)
  BY <1>2, AtWork
<1>4. /\ Tail(req[c].todo) \in Seq(Statements) /\ ListsThenNumbers(Tail(req[c].todo)) /\ Plan(Tail(Tail(req[c].todo)))
      /\ Tail(req[c].todo) # <<>>
  BY <1>3, PlanGoesOn
<1>5. Job!Rest(c) \in PlanSet /\ Job!Rest(c).p = p /\ Job!Rest(c).todo = Tail(req[c].todo)
  BY <1>2, TakesOff
<1>6. /\ rest \in Seq(RowSet) /\ Len(rest) \in Nat
      /\ \A i \in 1..Len(rest) : rest[i] \in tracks[p] /\ \A k \in 1..Len(rest) : rest[i] = rest[k] => i = k
      /\ \A t \in tracks[p] : \E i \in 1..Len(rest) : rest[i] = t
      /\ \A i, k \in 1..Len(rest) : i < k => rest[i].pos <= rest[k].pos
  BY OrderedHasAll DEF PlaylistInv
<1>7. /\ r \in PlanSet /\ r.p = p /\ ListsThenNumbers(r.todo)
      /\ rest = <<>> => ~ Numbers(r, p)
      /\ Numbers(r, p) => r.rows = rest /\ rest # <<>>
  <2>1. CASE rest = <<>>
    <3>1. Tail(Tail(req[c].todo)) \in Seq(Statements)
      BY <1>4 DEF Plan
    <3>2. r \in PlanSet /\ r.p = p /\ r.todo = Tail(Tail(req[c].todo))
      BY <1>5, <2>1, <3>1 DEF PlanSet
    <3>3. ListsThenNumbers(r.todo) /\ ~ Numbers(r, p)
      BY <1>4, <3>1, <3>2, EmptyOrNot DEF Plan, Numbers
    <3> QED
      BY <2>1, <3>2, <3>3
  <2>2. CASE rest # <<>>
    <3>1. r \in PlanSet /\ r.p = p /\ r.todo = Tail(req[c].todo) /\ r.rows = rest
      BY <1>5, <1>6, <2>2 DEF PlanSet
    <3> QED
      BY <1>4, <2>2, <3>1
  <2> QED
    BY <2>1, <2>2
<1>8. Job!Step(c, r)
  BY <1>1
<1> HIDE DEF r
<1>9. PICK v :
          /\ req' = [req EXCEPT ![c] = v] /\ (v = Job!Idle \/ (v \in PlanSet /\ v.todo # <<>>))
          /\ ListsThenNumbers(v.todo) /\ \A q \in Jobs \ {p} : ~ Numbers(req[c], q) /\ ~ Numbers(v, q)
          /\ Numbers(v, p) <=> Numbers(r, p)
          /\ Numbers(v, p) => v = r
  BY <1>2, <1>7, <1>8, Leaves
<1>10. Becomes(c, p, name[p], tracks[p], nextId[p], v, e)
  <2>1. /\ name[p] \in NameSet /\ tracks[p] \in SUBSET RowSet /\ IsFiniteSet(tracks[p]) /\ nextId[p] \in Nat
        /\ edited[p] \in {"no", "yes", "mixed"} /\ nextId[p] <= nextId[p]
        /\ name' = [name EXCEPT ![p] = name[p]] /\ tracks' = [tracks EXCEPT ![p] = tracks[p]]
        /\ nextId' = [nextId EXCEPT ![p] = nextId[p]]
    BY <1>2 DEF PlaylistInv, JobsTyped
  <2> QED
    BY <1>2, <1>3, <1>9, <2>1 DEF Becomes
<1>11. \A t \in tracks[p] : t.id < nextId[p] /\ \A s \in tracks[p] : t.id = s.id => t = s
  BY DEF PlaylistInv, RowsApart
<1>12. Numbers(v, p) => v.rows = rest /\ rest # <<>> /\ \A i \in 1..Len(v.rows) : v.rows[i].id < nextId[p]
  BY <1>6, <1>7, <1>9, <1>11
<1>13. ~ Numbers(req[c], p)
  BY <1>3 DEF Numbers
<1>14. OrderInv(p)'
  <2> SUFFICES ASSUME edited'[p] # "mixed"
               PROVE  OrderInv(p)'
    BY DEF OrderInv
  <2>1. /\ tracks'[p] = tracks[p] /\ edited'[p] = e /\ req'[c] = v /\ job' = job
        /\ \A d \in Editors \ {c} : req'[d] = req[d]
    BY <1>10 DEF PlaylistInv, JobsTyped, Becomes
  <2>2. Job!Alone(c, p) /\ edited[p] # "mixed"
    BY <2>1
  <2>3. Job!At(p, "done") /\ Job!At(p, "done")' /\ \A d \in Editors : ~ Numbers(req[d], p)
    BY <1>13, <2>1, <2>2 DEF Job!Alone, Numbers, Job!At
  <2>4. InOrder(p)
    BY <2>2, <2>3 DEF PlaylistInv, Alright, OrderInv
  <2>5. FromSource(p)' = FromSource(p) /\ InOrder(p)'
    BY <2>1, <2>4 DEF FromSource, InOrder
  <2>6. \A d \in Editors : Numbers(req[d], p)' => d = c
    BY <2>1, <2>3 DEF Numbers
  <2>7. ASSUME Numbers(req[c], p)'
        PROVE  Numbering(c, p)'
    <3>1. Numbers(v, p)
      BY <2>1, <2>7 DEF Numbers
    <3>2. v.rows = rest
      BY <1>12, <3>1
    <3>3. ASSUME NEW i \in 1..Len(rest), NEW k \in 1..Len(rest)
          PROVE  /\ rest[i].id = rest[k].id => i = k
                 /\ rest[i].by # 0 /\ rest[k].by # 0 =>
                     (i < k => rest[i].by < rest[k].by) /\ (rest[i].uri = rest[k].uri => i = k)
      <4>1. rest[i] \in tracks[p] /\ rest[k] \in tracks[p] /\ (rest[i] = rest[k] => i = k)
        BY <1>6
      <4>2. rest[i].id = rest[k].id => i = k
        BY <1>11, <4>1
      <4>3. ASSUME rest[i].by # 0, rest[k].by # 0
            PROVE  (i < k => rest[i].by < rest[k].by) /\ (rest[i].uri = rest[k].uri => i = k)
        <5>1. rest[i] \in FromSource(p) /\ rest[k] \in FromSource(p)
          BY <4>1, <4>3 DEF FromSource
        <5>2. /\ (rest[k].by < rest[i].by => rest[k].pos < rest[i].pos)
              /\ (rest[i].by = rest[k].by \/ rest[i].uri = rest[k].uri => rest[i] = rest[k])
          BY <2>4, <5>1 DEF InOrder
        <5>3. rest[i].by \in Nat /\ rest[k].by \in Nat /\ rest[i].pos \in Nat /\ rest[k].pos \in Nat
          BY <4>1 DEF PlaylistInv, JobsTyped, RowSet
        <5>4. i < k => rest[i].pos <= rest[k].pos /\ i # k
          BY <1>6
        <5> QED
          BY <4>1, <5>2, <5>3, <5>4
      <4> QED
        BY <4>2, <4>3
    <3>4. ListInOrder(req[c])'
      BY <2>1, <3>2, <3>3 DEF ListInOrder
    <3>5. ListAgrees(req[c], p)'
      BY <1>6, <1>11, <2>1, <3>2 DEF ListAgrees
    <3>6. NumberedFirst(req[c], p)'
      <4>1. \A t \in FromSource(p) : \E i \in 1..Len(rest) : rest[i] = t
        BY <1>6 DEF FromSource
      <4>2. \A t \in FromSource(p)' : OnList(req[c], t)'
        BY <2>1, <2>5, <3>2, <4>1 DEF OnList
      <4> QED
        BY <4>2 DEF NumberedFirst
    <3> QED
      BY <2>3, <2>6, <3>4, <3>5, <3>6 DEF Numbering
  <2> QED
    BY <2>3, <2>5, <2>6, <2>7 DEF OrderInv
<1> HIDE DEF e
<1> QED
  BY <1>10, <1>11, <1>12, <1>14, ClientFrame

(* Numbering the first of the rows left on the list.                       *)
LEMMA RowsGoOn ==
    ASSUME NEW rows \in Seq(RowSet), rows # <<>>
    PROVE  /\ Tail(rows) \in Seq(RowSet) /\ Len(rows) \in Nat \ {0} /\ Len(Tail(rows)) = Len(rows) - 1
           /\ Head(rows) \in RowSet /\ Head(rows) = rows[1]
           /\ \A i \in 1..Len(Tail(rows)) : i + 1 \in 1..Len(rows) /\ Tail(rows)[i] = rows[i + 1]
           /\ \A i \in 1..Len(rows) : i = 1 \/ (i - 1 \in 1..Len(Tail(rows)) /\ Tail(rows)[i - 1] = rows[i])
<1>1. /\ Tail(rows) \in Seq(RowSet) /\ Len(rows) \in Nat \ {0} /\ Len(Tail(rows)) = Len(rows) - 1
      /\ Head(rows) \in RowSet /\ Head(rows) = rows[1]
  OBVIOUS
<1>2. \A i \in 1..Len(Tail(rows)) : i + 1 \in 1..Len(rows) /\ Tail(rows)[i] = rows[i + 1]
  BY <1>1
<1>3. ASSUME NEW i \in 1..Len(rows), i # 1
      PROVE  i - 1 \in 1..Len(Tail(rows)) /\ Tail(rows)[i - 1] = rows[i]
  <2>1. i - 1 \in 1..Len(Tail(rows)) /\ (i - 1) + 1 = i
    BY <1>1, <1>3
  <2> QED
    BY <1>2, <2>1
<1> QED
  BY <1>1, <1>2, <1>3

(* Request o gives the first row h of its list the next position, which    *)
(* makes it h1; w is what it has left to do.                               *)
NumbersFirst(p, c, o, h, h1, T, w) ==
    /\ o = req[c] /\ o \in PlanSet /\ o.rows # <<>> /\ h = Head(o.rows) /\ w.rows = Tail(o.rows) /\ w.max = o.max + 1
    /\ h1.id = h.id /\ h1.uri = h.uri /\ h1.by = h.by /\ h1.pos = o.max + 1
    /\ (\A s : s \in T <=> (s \in tracks[p] /\ s.id # h.id) \/ s = h1) /\ tracks'[p] = T

LEMMA OneNumbered ==
    ASSUME PlaylistInv, NEW p \in Jobs, NEW c \in Editors, NEW o, NEW h, NEW h1, NEW T, NEW w,
           NumbersFirst(p, c, o, h, h1, T, w), Numbering(c, p)
    PROVE  /\ ListInOrder(w) /\ ListAgrees(w, p)' /\ NumberedFirst(w, p)'
           /\ w.rows = <<>> => InOrder(p)'
<1> USE DEF NumbersFirst
<1>1. /\ o.rows \in Seq(RowSet) /\ o.max \in Nat \cup {-1} /\ o.max + 1 \in Nat /\ o.max <= o.max + 1
      /\ \A i \in 1..Len(o.rows) : o.rows[i] \in RowSet /\ o.rows[i].id \in Nat /\ o.rows[i].by \in Nat
  <2>1. o.max \in Nat \cup {-1}
    BY RowsAreTyped
  <2> QED
    BY <2>1, RowsAreTyped
<1>2. /\ Len(o.rows) \in Nat \ {0} /\ Len(w.rows) = Len(o.rows) - 1 /\ h = o.rows[1] /\ h \in RowSet
      /\ 1 \in 1..Len(o.rows)
      /\ \A i \in 1..Len(w.rows) : i + 1 \in 1..Len(o.rows) /\ w.rows[i] = o.rows[i + 1] /\ i \in Nat
      /\ \A i \in 1..Len(o.rows) : i = 1 \/ (i - 1 \in 1..Len(w.rows) /\ w.rows[i - 1] = o.rows[i])
  BY <1>1, RowsGoOn
<1>3. h1.by \in Nat
  BY <1>2 DEF RowSet
<1>4. ListInOrder(o) /\ ListAgrees(o, p) /\ NumberedFirst(o, p)
  BY DEF Numbering
<1>5. \A t \in tracks[p] : t \in RowSet /\ t.pos \in Nat /\ t.by \in Nat
  BY DEF PlaylistInv, JobsTyped, RowSet
<1>6. ListInOrder(w)
  <2>1. ASSUME NEW i \in 1..Len(w.rows), NEW k \in 1..Len(w.rows)
        PROVE  /\ w.rows[i].id = w.rows[k].id => i = k
               /\ w.rows[i].by # 0 /\ w.rows[k].by # 0 =>
                   (i < k => w.rows[i].by < w.rows[k].by) /\ (w.rows[i].uri = w.rows[k].uri => i = k)
    <3>1. /\ i + 1 \in 1..Len(o.rows) /\ k + 1 \in 1..Len(o.rows) /\ w.rows[i] = o.rows[i + 1]
          /\ w.rows[k] = o.rows[k + 1]
          /\ (i + 1 = k + 1 => i = k) /\ (i < k => i + 1 < k + 1)
      BY <1>2
    <3> QED
      BY <1>4, <3>1 DEF ListInOrder
  <2> QED
    BY <2>1 DEF ListInOrder
<1>7. ASSUME NEW i \in 1..Len(w.rows)
      PROVE  /\ w.rows[i].id # h.id
             /\ w.rows[i].by # 0 /\ h.by # 0 => h.by < w.rows[i].by /\ h.uri # w.rows[i].uri
  <2>1. /\ i + 1 \in 1..Len(o.rows) /\ w.rows[i] = o.rows[i + 1] /\ 1 < i + 1 /\ 1 # i + 1 /\ h = o.rows[1]
        /\ 1 \in 1..Len(o.rows)
    BY <1>2
  <2> QED
    BY <1>4, <2>1 DEF ListInOrder
<1>8. ListAgrees(w, p)'
  <2>1. ASSUME NEW i \in 1..Len(w.rows), NEW t \in T, w.rows[i].id = t.id
        PROVE  w.rows[i].by = t.by /\ w.rows[i].uri = t.uri
    <3>1. t \in tracks[p]
      <4>1. t # h1
        BY <1>7, <2>1
      <4> QED
        BY <4>1
    <3>2. i + 1 \in 1..Len(o.rows) /\ w.rows[i] = o.rows[i + 1]
      BY <1>2
    <3>3. \A k \in 1..Len(o.rows) : o.rows[k].id = t.id => o.rows[k].by = t.by /\ o.rows[k].uri = t.uri
      BY <1>4, <3>1 DEF ListAgrees
    <3> QED
      BY <2>1, <3>2, <3>3
  <2> QED
    BY <2>1 DEF ListAgrees
<1>9. ASSUME NEW t \in FromSource(p)', t # h1, ~ OnList(w, t)
      PROVE  t \in FromSource(p) /\ ~ OnList(o, t)
  <2>1. t \in tracks[p] /\ t.id # h.id /\ t.by # 0
    BY <1>9 DEF FromSource
  <2>2. ASSUME NEW i \in 1..Len(o.rows), o.rows[i].id = t.id
        PROVE  FALSE
    <3>1. i # 1
      BY <1>2, <2>1, <2>2
    <3>2. i - 1 \in 1..Len(w.rows) /\ w.rows[i - 1] = o.rows[i]
      BY <1>2, <3>1
    <3> QED
      BY <1>9, <2>2, <3>2 DEF OnList
  <2> QED
    BY <2>1, <2>2 DEF FromSource, OnList
<1>10. ASSUME NEW t \in FromSource(p)', ~ OnList(w, t)
       PROVE  /\ t.pos <= o.max + 1
              /\ \A i \in 1..Len(w.rows) : w.rows[i].by # 0 => t.by < w.rows[i].by /\ t.uri # w.rows[i].uri
              /\ t # h1 /\ h1.by # 0 => t.pos < h1.pos /\ t.by < h1.by /\ t.uri # h1.uri
  <2>1. CASE t = h1
    <3>1. h.by # 0
      BY <1>3, <2>1 DEF FromSource
    <3> QED
      BY <1>1, <1>3, <1>7, <2>1, <3>1
  <2>2. CASE t # h1
    <3>1. t \in FromSource(p) /\ ~ OnList(o, t) /\ t.pos \in Nat
      BY <1>5, <1>9, <1>10, <2>2 DEF FromSource
    <3>2. /\ t.pos <= o.max
          /\ \A i \in 1..Len(o.rows) : o.rows[i].by # 0 => t.by < o.rows[i].by /\ t.uri # o.rows[i].uri
      BY <1>4, <3>1 DEF NumberedFirst
    <3>3. t.pos <= o.max + 1 /\ t.pos < o.max + 1
      BY <1>1, <3>1, <3>2
    <3>4. \A i \in 1..Len(w.rows) : w.rows[i].by # 0 => t.by < w.rows[i].by /\ t.uri # w.rows[i].uri
      BY <1>2, <3>2
    <3>5. h1.by # 0 => t.by < h1.by /\ t.uri # h1.uri
      BY <1>2, <1>3, <3>2
    <3> QED
      BY <1>3, <3>3, <3>4, <3>5
  <2> QED
    BY <2>1, <2>2
<1>11. ASSUME NEW t \in FromSource(p)', NEW s \in FromSource(p)', ~ OnList(w, t), ~ OnList(w, s)
       PROVE  (t.by < s.by => t.pos < s.pos) /\ (t.by = s.by \/ t.uri = s.uri => t = s)
  <2>1. t.by \in Nat /\ s.by \in Nat /\ t.by # 0 /\ s.by # 0
    <3> QED
      BY <1>3, <1>5 DEF FromSource
  <2>2. CASE t = h1 /\ s = h1
    BY <2>1, <2>2
  <2>3. CASE t = h1 /\ s # h1
    <3>1. s.by < t.by /\ s.uri # t.uri
      BY <1>10, <1>11, <2>1, <2>3
    <3> QED
      BY <2>1, <3>1
  <2>4. CASE t # h1 /\ s = h1
    <3>1. t.pos < s.pos /\ t.by < s.by /\ t.uri # s.uri
      BY <1>10, <1>11, <2>1, <2>4
    <3> QED
      BY <2>1, <3>1
  <2>5. CASE t # h1 /\ s # h1
    <3>1. t \in FromSource(p) /\ ~ OnList(o, t) /\ s \in FromSource(p) /\ ~ OnList(o, s)
      BY <1>9, <1>11, <2>5
    <3> QED
      BY <1>4, <3>1 DEF NumberedFirst
  <2> QED
    BY <2>2, <2>3, <2>4, <2>5
<1>12. NumberedFirst(w, p)'
  BY <1>10, <1>11 DEF NumberedFirst, OnList
<1>13. w.rows = <<>> => InOrder(p)'
  <2> SUFFICES ASSUME w.rows = <<>>
               PROVE  InOrder(p)'
    OBVIOUS
  <2>1. \A t : ~ OnList(w, t)
    <3>1. 1..Len(w.rows) = {}
      <4>1. Len(w.rows) = 0
        BY <1>1, RowsGoOn, EmptyOrNot
      <4>2. \A n : n = 0 => 1..n = {}
        OBVIOUS
      <4> QED
        BY <4>1, <4>2
    <3> QED
      BY <3>1 DEF OnList
  <2> QED
    BY <1>11, <2>1 DEF InOrder
<1> QED
  BY <1>6, <1>8, <1>12, <1>13

LEMMA NumbersOne ==
    ASSUME PlaylistInv, NEW c \in Editors, NEW p \in Jobs, NEW enforced \in BOOLEAN, Job!NumberTrack(c, p, enforced)
    PROVE  PlaylistInv'
<1> DEFINE o == req[c]
           h == Head(o.rows)
           h1 == [h EXCEPT !.pos = o.max + 1]
           T == IF Job!Writable(p, enforced) THEN {s \in tracks[p] : s.id # h.id} \cup {h1} ELSE tracks[p]
           e == IF Job!Writable(p, enforced) /\ edited[p] # "mixed" THEN "yes" ELSE "mixed"
           more == [o EXCEPT !.rows = Tail(@), !.max = @ + 1]
           r == IF Len(o.rows) = 1 THEN Job!Rest(c) ELSE more
<1>1. Job!Doing(c, p, "number") /\ Job!Step(c, r) /\ UNCHANGED <<name, nextId>>
  BY DEF Job!NumberTrack
<1>2. tracks' = [tracks EXCEPT ![p] = T] /\ edited' = [edited EXCEPT ![p] = e]
  <2>1. CASE Job!Writable(p, enforced)
    BY <2>1 DEF Job!NumberTrack, Job!SaveTrack, Job!Edit
  <2>2. CASE ~ Job!Writable(p, enforced)
    BY <2>2 DEF Job!NumberTrack, PlaylistInv, JobsTyped
  <2> QED
    BY <2>1, <2>2
<1>3. /\ o \in PlanSet /\ o.p = p /\ o.todo # <<>> /\ Head(o.todo) = "number" /\ job' = job
      /\ o.todo \in Seq(Statements) /\ ListsThenNumbers(o.todo)
  BY <1>1, AtWork
<1>4. Numbers(req[c], p) /\ o.rows # <<>> /\ \A i \in 1..Len(o.rows) : o.rows[i].id < nextId[p]
  BY <1>3 DEF PlaylistInv, RequestsPlanned, Numbers
<1>5. o.rows \in Seq(RowSet) /\ o.max \in Nat \cup {-1} /\ o.max + 1 \in Nat
  <2>1. o.max \in Nat \cup {-1} /\ o.rows \in Seq(RowSet)
    BY <1>3, RowsAreTyped
  <2> QED
    BY <2>1
<1>6. /\ Tail(o.rows) \in Seq(RowSet) /\ Len(o.rows) \in Nat \ {0} /\ Len(Tail(o.rows)) = Len(o.rows) - 1
      /\ h \in RowSet /\ h = o.rows[1] /\ 1 \in 1..Len(o.rows)
      /\ \A i \in 1..Len(Tail(o.rows)) : i + 1 \in 1..Len(o.rows) /\ Tail(o.rows)[i] = o.rows[i + 1]
  BY <1>4, <1>5, RowsGoOn
<1>7. h1 \in RowSet /\ h1.id = h.id /\ h1.uri = h.uri /\ h1.by = h.by /\ h1.pos = o.max + 1
  BY <1>5, <1>6 DEF RowSet
<1>8. more \in PlanSet /\ more.p = p /\ more.todo = o.todo /\ more.rows = Tail(o.rows) /\ more.max = o.max + 1
  BY <1>3, <1>5, <1>6 DEF PlanSet
<1>9. Job!Rest(c) \in PlanSet /\ Job!Rest(c).p = p /\ Plan(Job!Rest(c).todo) /\ ~ Numbers(Job!Rest(c), p)
  <2>1. Job!Rest(c) \in PlanSet /\ Job!Rest(c).p = p /\ Job!Rest(c).todo = Tail(o.todo) /\ Plan(Tail(o.todo))
    BY <1>1, <1>3, TakesOff, PlanGoesOn
  <2> QED
    BY <2>1, EmptyOrNot DEF Plan, Numbers
<1>10. Numbers(more, p)
  BY <1>3, <1>8 DEF Numbers
<1>11. /\ r \in PlanSet /\ r.p = p /\ ListsThenNumbers(r.todo)
       /\ (Numbers(r, p) => r = more) /\ (~ Numbers(r, p) => Len(o.rows) = 1)
  <2>1. CASE Len(o.rows) = 1
    BY <1>9, <2>1 DEF Plan
  <2>2. CASE Len(o.rows) # 1
    BY <1>3, <1>8, <1>10, <2>2
  <2> QED
    BY <2>1, <2>2
<1> HIDE DEF r, more, h1
<1>12. PICK v :
          /\ req' = [req EXCEPT ![c] = v] /\ (v = Job!Idle \/ (v \in PlanSet /\ v.todo # <<>>))
          /\ ListsThenNumbers(v.todo) /\ \A q \in Jobs \ {p} : ~ Numbers(req[c], q) /\ ~ Numbers(v, q)
          /\ Numbers(v, p) <=> Numbers(r, p)
          /\ Numbers(v, p) => v = r
  BY <1>1, <1>11, Leaves
<1>13. T \in SUBSET RowSet /\ IsFiniteSet(T) /\ \A t \in T : t.id < nextId[p] /\ \A s \in T : t.id = s.id => t = s
  <2>1. tracks[p] \in SUBSET RowSet /\ IsFiniteSet(tracks[p])
    BY DEF PlaylistInv, JobsTyped
  <2>2. IsFiniteSet({s \in tracks[p] : s.id # h.id})
    BY <2>1, FS_Subset
  <2>3. IsFiniteSet({s \in tracks[p] : s.id # h.id} \cup {h1})
    BY <2>2, FS_AddElement
  <2>4. \A t \in tracks[p] : t.id < nextId[p] /\ \A s \in tracks[p] : t.id = s.id => t = s
    BY DEF PlaylistInv, RowsApart
  <2>5. h1.id < nextId[p]
    BY <1>4, <1>6, <1>7
  <2>6. CASE Job!Writable(p, enforced)
    <3>1. T = {s \in tracks[p] : s.id # h.id} \cup {h1}
      BY <2>6
    <3> HIDE DEF T, h
    <3> QED
      BY <1>7, <2>1, <2>3, <2>4, <2>5, <3>1
  <2>7. CASE ~ Job!Writable(p, enforced)
    BY <2>1, <2>4, <2>7
  <2> QED
    BY <2>6, <2>7
<1>14. e \in {"yes", "mixed"} /\ (e # "mixed" => Job!Writable(p, enforced) /\ edited[p] # "mixed")
  OBVIOUS
<1> HIDE DEF e
<1>15. Becomes(c, p, name[p], T, nextId[p], v, e)
  <2>1. /\ name[p] \in NameSet /\ nextId[p] \in Nat /\ nextId[p] <= nextId[p]
        /\ name' = [name EXCEPT ![p] = name[p]] /\ nextId' = [nextId EXCEPT ![p] = nextId[p]]
    BY <1>1 DEF PlaylistInv, JobsTyped
  <2> HIDE DEF T
  <2> QED
    BY <1>2, <1>3, <1>12, <1>13, <1>14, <2>1 DEF Becomes
<1>16. Numbers(v, p) => v.rows # <<>> /\ \A i \in 1..Len(v.rows) : v.rows[i].id < nextId[p]
  <2> SUFFICES ASSUME Numbers(v, p)
               PROVE  v.rows # <<>> /\ \A i \in 1..Len(v.rows) : v.rows[i].id < nextId[p]
    OBVIOUS
  <2>1. v.rows = Tail(o.rows) /\ Len(o.rows) # 1
    <3>1. r = more /\ v = more
      BY <1>11, <1>12
    <3>2. Len(o.rows) # 1
      BY <1>9, <1>10, <3>1 DEF r
    <3> QED
      BY <1>8, <3>1, <3>2
  <2>2. v.rows # <<>>
    <3>1. Len(Tail(o.rows)) # 0
      BY <1>6, <2>1
    <3> QED
      BY <1>6, <2>1, <3>1, EmptyOrNot
  <2> QED
    BY <1>4, <1>6, <2>1, <2>2
<1>17. OrderInv(p)'
  <2> SUFFICES ASSUME edited'[p] # "mixed"
               PROVE  OrderInv(p)'
    BY DEF OrderInv
  <2>1. /\ tracks'[p] = T /\ edited'[p] = e /\ req'[c] = v /\ job' = job
        /\ \A d \in Editors \ {c} : req'[d] = req[d]
    BY <1>15 DEF PlaylistInv, JobsTyped, Becomes
  <2>2. Job!Writable(p, enforced) /\ edited[p] # "mixed"
    BY <1>14, <2>1
  <2>3. T = {s \in tracks[p] : s.id # h.id} \cup {h1}
    BY <2>2
  <2>4. Numbering(c, p)
    BY <1>4, <2>2 DEF PlaylistInv, Alright, OrderInv
  <2> HIDE DEF T
  <2>9. PICK w : w = more
    OBVIOUS
  <2>10. PICK k, g, g1, S : k = o /\ g = h /\ g1 = h1 /\ S = T
    OBVIOUS
  <2>11. NumbersFirst(p, c, k, g, g1, S, w)
    BY <1>3, <1>4, <1>7, <1>8, <2>1, <2>3, <2>9, <2>10 DEF NumbersFirst
  <2>5. /\ ListInOrder(w) /\ ListAgrees(w, p)' /\ NumberedFirst(w, p)'
        /\ w.rows = <<>> => InOrder(p)'
    BY <2>4, <2>11, OneNumbered
  <2>6. Job!At(p, "done") /\ Job!At(p, "done")' /\ \A d \in Editors : Numbers(req[d], p)' => d = c
    BY <2>1, <2>4 DEF Numbering, Numbers, Job!At
  <2>7. ASSUME Numbers(req[c], p)'
        PROVE  Numbering(c, p)'
    <3>1. req'[c] = w
      BY <1>11, <1>12, <2>1, <2>7, <2>9 DEF Numbers
    <3>2. ListInOrder(req[c])' /\ ListAgrees(req[c], p)' /\ NumberedFirst(req[c], p)'
      BY <2>5, <3>1 DEF ListInOrder, ListAgrees, NumberedFirst, OnList
    <3> QED
      BY <2>6, <3>2 DEF Numbering
  <2>8. ASSUME ~ Numbers(req[c], p)'
        PROVE  InOrder(p)'
    <3>1. Len(o.rows) = 1
      BY <1>11, <1>12, <2>1, <2>8 DEF Numbers
    <3>2. Len(Tail(o.rows)) = 0
      BY <1>6, <3>1
    <3>3. more.rows = <<>>
      BY <1>6, <1>8, <3>2, EmptyOrNot
    <3> QED
      BY <2>5, <2>9, <3>3
  <2> QED
    BY <2>6, <2>7, <2>8 DEF OrderInv
<1> HIDE DEF T
<1> QED
  BY <1>13, <1>15, <1>16, <1>17, ClientFrame

LEMMA ClientKeeps ==
    ASSUME PlaylistInv, NEW c \in Editors, NEW p \in Jobs, Job!Client(c, p)
    PROVE  PlaylistInv'
BY Requests, ReadsNoOrder, Edits, ListsRows, NumbersOne DEF Job!Client

-----------------------------------------------------------------------------

LEMMA PlaylistStarts ==
    ASSUME Job!PlaylistsAssumption, Job!Init
    PROVE  PlaylistInv
<1>1. Job!NoJob \in JobSet /\ "none" \in NameSet
  <2>1. "none" \in NameSet /\ 1 \in Nat /\ <<>> \in Seq(ResultSet) /\ <<>> \in Seq(Uris)
    BY DEF NameSet
  <2> QED
    BY <2>1 DEF Job!NoJob, JobSet
<1>2. JobsTyped
  <2>1. \A p \in Jobs : tracks[p] = {} /\ IsFiniteSet(tracks[p])
    BY FS_EmptySet DEF Job!Init
  <2> QED
    BY <1>1, <2>1 DEF Job!Init, JobsTyped
<1>3. RowsApart
  BY DEF Job!Init, RowsApart
<1>4. \A c \in Editors : req[c] = Job!Idle /\ ListsThenNumbers(req[c].todo) /\ \A p \in Jobs : ~ Numbers(req[c], p)
  BY ShortPlans DEF Job!Init, Job!Idle, Plan, Numbers
<1>5. RequestsPlanned
  BY <1>4 DEF RequestsPlanned
<1>6. ASSUME NEW p \in Jobs
      PROVE  Alright(p)
  <2>1. /\ job[p] = Job!NoJob /\ tracks[p] = {} /\ name[p] = "none" /\ Job!NoJob.at = "none" /\ Job!NoJob.next = 1
        /\ Job!NoJob.busy = {} /\ Job!NoJob.results = <<>> /\ Job!NoJob.used = <<>> /\ Job!NoJob.found = {}
    BY DEF Job!Init, Job!NoJob
  <2>2. JobOk(p, job[p])
    BY <2>1 DEF JobOk
  <2>3. FromSource(p) = {}
    BY <2>1 DEF FromSource
  <2>4. OrderInv(p)
    BY <1>4, <2>3 DEF OrderInv, Filling, InOrder
  <2>5. Untouched(p)
    BY <2>1 DEF Untouched
  <2> QED
    BY <2>2, <2>4, <2>5 DEF Alright
<1> QED
  BY <1>2, <1>3, <1>5, <1>6 DEF PlaylistInv

LEMMA PlaylistSteps ==
    ASSUME Job!PlaylistsAssumption, PlaylistInv, [Job!Next]_(Job!vars)
    PROVE  PlaylistInv'
<1>1. CASE Job!Next
  BY <1>1, JobKeeps, ClientKeeps DEF Job!Next
<1>2. CASE UNCHANGED Job!vars
  <2>1. UNCHANGED <<name, tracks, nextId, job, req, edited>>
    BY <1>2 DEF Job!vars, Job!db
  <2>2. JobsTyped' /\ RowsApart' /\ RequestsPlanned'
    BY <2>1 DEF PlaylistInv, JobsTyped, RowsApart, RequestsPlanned, Numbers
  <2>3. ASSUME NEW p \in Jobs
        PROVE  Alright(p)'
    <3>1. FromSource(p)' = FromSource(p) /\ \A t, c : OnList(req[c], t)' <=> OnList(req[c], t)
      BY <2>1 DEF FromSource, OnList
    <3>2. /\ JobOk(p, job[p])' <=> JobOk(p, job[p])
          /\ InOrder(p)' <=> InOrder(p)
          /\ Untouched(p)' <=> Untouched(p)
          /\ Filling(p)' <=> Filling(p)
      BY <2>1, <3>1 DEF JobOk, Searched, InTurn, InOrder, Untouched, Filling, Job!At
    <3>3. \A c \in Editors : Numbering(c, p)' <=> Numbering(c, p)
      BY <2>1, <3>1 DEF Numbering, Numbers, ListInOrder, ListAgrees, NumberedFirst, Job!At
    <3>4. OrderInv(p)' <=> OrderInv(p)
      BY <2>1, <3>2, <3>3 DEF OrderInv, Numbers, Job!At
    <3> QED
      BY <2>1, <3>2, <3>4 DEF PlaylistInv, Alright
  <2> QED
    BY <2>2, <2>3 DEF PlaylistInv
<1> QED
  BY <1>1, <1>2

LEMMA PlaylistImplies ==
    ASSUME PlaylistInv
    PROVE  Job!ImportKeepsOrder /\ Job!ImportComplete
<1>1. Job!ImportKeepsOrder
  <2> SUFFICES ASSUME NEW p \in Jobs, edited[p] # "mixed", \A c \in Editors : req[c].p # p
               PROVE  \A r, s \in {t \in tracks[p] : t.by # 0} :
                          (r.by < s.by => r.pos < s.pos) /\ (r.uri = s.uri => r = s)
    BY DEF Job!ImportKeepsOrder
  <2>1. \A c \in Editors : ~ Numbers(req[c], p)
    BY DEF Numbers
  <2> QED
    BY <2>1 DEF PlaylistInv, Alright, OrderInv, InOrder, FromSource
<1>2. Job!ImportComplete
  <2>1. \A p \in Jobs : Job!Cardinality(job[p].found) = Cardinality(job[p].found)
    BY Zenon DEF Job!Cardinality, Cardinality
  <2> QED
    BY <2>1 DEF PlaylistInv, Alright, Untouched, Job!ImportComplete, Job!At
<1> QED
  BY <1>1, <1>2

(* runJob: whatever order the searches end in and whatever clients then    *)
(* add, remove or number anew one at a time, the tracks that were found    *)
(* stand in the order of the source, each once; a playlist nobody touched  *)
(* has them all, without gaps, under its title, or says that it failed.    *)
THEOREM ImportsAreInOrder ==
    ASSUME ImportsAssumption
    PROVE  ImportsSpec => []ImportedInOrder
<1>1. ImportsInit => PlaylistInv
  BY PlaylistStarts DEF ImportsInit, ImportsAssumption
<1>2. PlaylistInv /\ [SourcesStep \/ PlaylistsStep]_all => PlaylistInv'
  <2> SUFFICES ASSUME PlaylistInv, [SourcesStep \/ PlaylistsStep]_all
               PROVE  PlaylistInv'
    OBVIOUS
  <2>1. [Job!Next]_(Job!vars)
    BY DEF SourcesStep, PlaylistsStep, all, playlists, Job!vars, Job!db
  <2> QED
    BY <2>1, PlaylistSteps DEF ImportsAssumption
<1>3. PlaylistInv => ImportedInOrder
  BY PlaylistImplies DEF ImportedInOrder
<1> QED
  BY <1>1, <1>2, <1>3, PTL DEF ImportsSpec

=============================================================================
