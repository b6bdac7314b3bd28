------------------------------ MODULE MCStreams ------------------------------
(* Streams on short playlists: a short and a longer download, two players of  *)
(* one track or a ZIP of two, three requests to the resident process, two of  *)
(* them for the same track.                                                   *)
EXTENDS Streams, TLC

CONSTANTS s1, s2, r1, r2, r3, t1, t2

Playlist(len, hasInit, start) == [len |-> len, hasInit |-> hasInit, start |-> start]

\* fMP4 playlists, from their start or from a later segment, and playlists
\* without an init segment from a later segment on.  Without one and from its
\* start, a playlist loses its first segment: see the README.
OrdinaryPlaylists ==
    {Playlist(2, TRUE, 0), Playlist(7, TRUE, 0), Playlist(6, TRUE, 2), Playlist(6, FALSE, 2)}

MCPlans == {<<0, 1>>, <<0, 1, 2, 3, 4, 5>>}

Hls(id, init, flac, last) == [id |-> id, kind |-> "hls", init |-> init, flac |-> flac, last |-> last]
Dash(id, last) == [id |-> id, kind |-> "dash", init |-> FALSE, flac |-> TRUE, last |-> last]
Asks(agent, offset, leaves, tracks) == [client |-> agent, offset |-> offset, leaves |-> leaves, tracks |-> tracks]
Nobody == Asks("plain", 0, FALSE, <<>>)
Both(a, b) == (s1 :> a) @@ (s2 :> b)

MCSessions == {s1, s2}
MCScenarios ==
    {Both(Asks("exo", 0, FALSE, <<Hls(1, TRUE, FALSE, 3)>>), Asks("plain", 0, FALSE, <<Hls(1, TRUE, FALSE, 3)>>)),
     Both(Asks("plain", 2, TRUE, <<Hls(1, FALSE, FALSE, 6)>>), Nobody),
     Both(Asks("plain", 0, FALSE, <<Hls(1, TRUE, FALSE, 0)>>), Nobody),
     Both(Asks("zip", 0, TRUE, <<Hls(1, TRUE, TRUE, 5), Dash(2, 4)>>), Nobody),
     Both(Asks("zip", 0, FALSE, <<Dash(2, 5), Hls(1, TRUE, TRUE, 4)>>), Nobody)}

MCRequests == {r1, r2, r3}
MCTracks == {t1, t2}
MCWanted == (r1 :> t1) @@ (r2 :> t1) @@ (r3 :> t2)

ASSUME StreamsHold == StreamsAssumption
=============================================================================
