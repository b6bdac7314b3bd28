--------------------------- MODULE MCUserLibrary ---------------------------
(* Pairs of requests: two searches of two users with three providers, or   *)
(* two or three other requests of one user.                                *)
EXTENDS UserLibrary

CONSTANTS r1, r2, r3, ann, bob

MCRequests == {r1, r2, r3}
MCUsers == {ann, bob}

Of(kind, prov, title) == [kind |-> kind, prov |-> prov, title |-> title]
Song == Of("tracks", "td", "exact")
Record == Of("albums", "td", "exact")
Singer == Of("artists", "yt", "exact")
Video == Of("tracks", "yt", "near")
Other == Of("tracks", "dz", "exact")

Idle == [op |-> "none", user |-> bob, kinds |-> {}, count |-> 0, first |-> FALSE, thing |-> Song]
Find(user, kinds, count, first) == [Idle EXCEPT !.op = "search", !.user = user, !.kinds = kinds, !.count = count, !.first = first]
Do(op, thing) == [Idle EXCEPT !.op = op, !.user = ann, !.thing = thing]
Rate(n) == [Do("rate", Song) EXCEPT !.count = n]

Three(a, b, c) == [r \in MCRequests |-> CASE r = r1 -> a [] r = r2 -> b [] r = r3 -> c]

Quiet == [primary |-> "td", offers |-> [p \in Providers |-> <<>>], asks |-> Three(Idle, Idle, Idle),
          starred |-> [u \in MCUsers |-> {}], fragile |-> FALSE,
          played |-> {}, playlist |-> {}, known |-> {}]

Offers == {[td |-> <<"near", "exact">>, dz |-> <<"exact", "far">>, yt |-> <<"exact", "near", "exact">>],
           [td |-> <<>>, dz |-> <<"far">>, yt |-> <<"near", "far">>],
           [td |-> <<"far", "near">>, dz |-> <<"near">>, yt |-> <<"exact">>]}

\* One search, then another of somebody else
Searches ==
    {[Quiet EXCEPT !.primary = p, !.offers = o, !.asks = Three(Find(ann, {k}, c, TRUE), Idle, Idle),
                   !.fragile = TRUE, !.starred[ann] = {Video, Other}]
        : p \in {"td", "yt"}, o \in Offers, k \in Kinds, c \in {1, 2}}
    \cup {[Quiet EXCEPT !.offers = o, !.starred = [u \in MCUsers |-> {Song}],
                        !.asks = Three(Find(ann, {"tracks"}, 2, TRUE), Find(bob, ks, 1, FALSE), Idle)]
             : o \in {p \in Offers : Len(p.yt) < 3}, ks \in {{"albums"}, {"tracks"}}}

Both == [u \in MCUsers |-> IF u = ann THEN {Song, Record, Singer} ELSE {}]

Requests2 ==
    LET plans == {<<Do("browse", Song), Do("unstar", Song), Idle>>,
                  <<Do("browse", Song), Rate(3), Rate(0)>>,
                  <<Do("browse", Song), Do("scrobble", Song), Do("scrobble", Song)>>,
                  <<Do("unstar", Record), Do("scrobble", Song), Do("scrobble", Song)>>,
                  <<Do("scrobble", Video), Do("star", Video), Idle>>,
                  <<Do("starred", Song), Do("unstar", Record), Idle>>,
                  <<Do("starred", Song), Do("star", Of("albums", "dz", "far")), Do("star", Other)>>,
                  <<Do("sync", Song), Do("scrobble", Video), Do("star", Other)>>,
                  <<Do("sync", Song), Do("unstar", Song), Idle>>}
    IN  {[Quiet EXCEPT !.asks = Three(p[1], p[2], p[3]), !.starred = Both, !.playlist = {Other},
                       !.known = {Of("tracks", "td", "far")}] : p \in plans}

MCPlans == Searches \cup Requests2

Share(a, b) == [Quiet EXCEPT !.asks = Three(a, b, Idle), !.offers = [td |-> <<"exact">>, dz |-> <<>>, yt |-> <<>>],
                             !.starred[ann] = {Song}]
MCShared == {Share(Find(ann, {"tracks"}, 1, FALSE), Find(bob, {"tracks"}, 1, FALSE))}
=============================================================================
