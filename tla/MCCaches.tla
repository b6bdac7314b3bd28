------------------------------ MODULE MCCaches ------------------------------
(* Caches: LruCache on a few keys, TidalCache on one track that two requests *)
(* fetch in two versions, or on an album and its track that one request      *)
(* looks for in every way.                                                   *)
EXTENDS Caches

CONSTANTS t1, a1

VARIABLE scenario  \* what is asked of TidalCache: "track" | "album"

ASSUME CachesAssumption == Tidal!KeysAssumption

MCRequests == 1..2

MCInit == CachesInit /\ scenario \in {"track", "album"} /\ (which = "lru" => scenario = "track")

AskedFor ==
    IF scenario = "track" THEN catalog'[a1] = 0 /\ \A c \in MCRequests : client'[c].key # a1
    ELSE catalog' = catalog /\ client'[2] = client[2]

MCNext == CachesNext /\ AskedFor /\ UNCHANGED scenario

MCSpec == MCInit /\ [][MCNext]_<<allVars, scenario>> /\ CachesFairness
=============================================================================
