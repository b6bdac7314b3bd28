-------------------------------- MODULE Caches --------------------------------
(* Both kinds of cache in one process, which share no state: LruCache, and     *)
(* TidalCache over it and SQLite.  A behaviour is of one of them.              *)
EXTENDS LruCache

CONSTANTS
    Tracks, Albums, Requests,  \* of TidalCache
    MaxVersion, MaxFetches, MaxClears, MayFail, MayForget

VARIABLES
    which,  \* the cache this behaviour is of: "lru" | "tidal"
    memory, pending, batch, disk, client, catalog, fetches, era, clearing, latest

tidal == <<memory, pending, batch, disk, client, catalog, fetches, era, clearing, latest>>
allVars == <<vars, tidal, which>>

Tidal == INSTANCE TidalCache WITH lru <- memory, Clients <- Requests, None <- Zero

\* The cache a behaviour is not of stays as it is, in one state
CachesInit ==
    /\ Init /\ Tidal!Init /\ which \in {"lru", "tidal"}
    /\ which # "lru" => running

Of(cache) == which = cache /\ UNCHANGED which
LruStep == Of("lru") /\ Next /\ UNCHANGED tidal
TidalStep == Of("tidal") /\ Tidal!Next /\ UNCHANGED vars

CachesNext == LruStep \/ TidalStep

\* The fairness of LruCache and of TidalCache
CachesFairness ==
    /\ WF_allVars(Of("lru") /\ CleanupExpired /\ UNCHANGED tidal)
    /\ WF_allVars(Of("tidal") /\ Tidal!FlushSwap /\ UNCHANGED vars)
    /\ WF_allVars(Of("tidal") /\ Tidal!FlushCommit /\ UNCHANGED vars)

CachesSpec == CachesInit /\ [][CachesNext]_allVars /\ CachesFairness

-----------------------------------------------------------------------------

(* storeCache, flushBuffer: whatever requests, flusher, clear and crash do  *)
(* in between, a document that was buffered is in buffer, batch or table.   *)
NothingBufferedIsLost == Tidal!NothingBufferedIsLost

(* GetAlbumInfo never answers with an album that lacks its items, though    *)
(* listings put such albums in every tier.                                  *)
AlbumsAreComplete == Tidal!AlbumsAreComplete

(* flushBufferLoop: what is buffered reaches SQLite, unless it is lost to a *)
(* rolled back transaction or a crash: in the end the flusher has nothing   *)
(* left, and the table has whatever was buffered last.                      *)
BufferReachesDisk == Tidal!BufferReachesDisk

=============================================================================
