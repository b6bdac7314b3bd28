----------------------------- MODULE TidalCache -----------------------------
(***************************************************************************)
(* provider/tidal/cache.go (CachedProxy) over db/db.go's metadata_cache:   *)
(* Tidal metadata is looked for in an in-memory LRU, in a write-back       *)
(* buffer, in SQLite and at last at the API.  What the API returns goes to *)
(* the LRU and to the buffer, which a background goroutine writes to       *)
(* SQLite every seven seconds as one transaction.                          *)
(*                                                                         *)
(* LRU, buffer and database are locked one at a time: a request is a       *)
(* sequence of steps, and other requests, the flusher, evictions, expiry,  *)
(* the admin's "clear cache" and a crash come in between.                  *)
(*                                                                         *)
(* A cached document is reduced to what the properties tell apart: the     *)
(* catalogue version the API answered with, whether an album came with its *)
(* items, and the era (number of cache clears begun) it was fetched in.    *)
(***************************************************************************)
EXTENDS Naturals, Sequences, FiniteSets, FiniteSetsExt, SequencesExt

CONSTANTS
    Tracks, Albums,  \* cache keys td:tr:ID and td:al:ID
    Clients,         \* request goroutines
    None,            \* no entry
    MaxVersion,      \* bound: how often the catalogue changes an object
    MaxFetches,      \* bound: API answers
    MaxClears,       \* bound: cache clears
    MayFail,         \* a flush transaction may be rolled back
    MayForget        \* entries may be evicted or expire, the server may crash

VARIABLES
    lru,      \* key -> document or None: the in-memory caches
    pending,  \* key -> document or None: the write-back buffer
    batch,    \* what the flusher took out of the buffer and is writing
    disk,     \* key -> document or None: metadata_cache
    client,   \* client -> the step its request is at, and what it carries
    catalog,  \* key -> version the API would answer with
    fetches,  \* API answers so far
    era,      \* cache clears begun so far
    clearing, \* the clear that is half done: SQLite wiped, LRUs not yet
    latest    \* history: the last document buffered, while nobody may lose it

vars == <<lru, pending, batch, disk, client, catalog, fetches, era, clearing,
          latest>>

Cacheable == Tracks \cup Albums
Docs == [ver : 0..MaxVersion, full : BOOLEAN, era : 0..MaxClears]
Nowhere == [k \in Cacheable |-> None]

KeysAssumption ==
    /\ Tracks \cap Albums = {} /\ IsFiniteSet(Tracks)
    /\ None \notin Cacheable \cup Docs
    /\ MaxVersion \in Nat /\ MaxClears \in Nat

Ops == {"track", "album", "meta", "batch", "backfill", "listing"}

(* A request: the step it is at, the operation and its key, the document   *)
(* in hand (at "done", the answer), and the documents still to be cached.  *)
Idle == [at |-> "idle", op |-> "none", key |-> None, doc |-> None, todo |-> << >>]

At(c, step) == client[c].at = step
Goto(c, step, doc) == client' = [client EXCEPT ![c].at = step, ![c].doc = doc]
Reply(c, doc) ==
    client' = [client EXCEPT ![c] = [Idle EXCEPT !.at = "done", !.op = client[c].op, !.doc = doc]]

\* Mutant: an album without its items is good enough for every caller.
CompleteAlways(op, doc) == doc # None

(* checkCache: GetAlbumInfo and the album batch need the album's items,    *)
(* GetAlbumMetadata does not, and a track is always complete.              *)
Complete(op, doc) == doc # None /\ (op \in {"album", "batch"} => doc.full)

-----------------------------------------------------------------------------

Init ==
    /\ lru = Nowhere /\ pending = Nowhere /\ batch = Nowhere /\ disk = Nowhere
    /\ client = [c \in Clients |-> Idle]
    /\ catalog = [k \in Cacheable |-> 0]
    /\ fetches = 0 /\ era = 0 /\ clearing = FALSE
    /\ latest = Nowhere

tiers == <<lru, pending, batch, disk>>
environment == <<catalog, fetches, era, clearing>>

(***************************************************************************)
(* Lookups.  op says which getter: GetTrackInfo, GetAlbumInfo,             *)
(* GetAlbumMetadata (the artist documents go the same way), one key of     *)
(* GetAlbumsInfoBatch or GetTracksInfoBatch, or backfillTrackYear, which   *)
(* looks a track's album up in LRU and SQLite only.                        *)
(***************************************************************************)
Start(c, op, k) ==
    /\ At(c, "idle")
    /\ op = "track" => k \in Tracks
    /\ op \in {"album", "meta", "backfill"} => k \in Albums
    /\ client' = [client EXCEPT ![c] =
           [Idle EXCEPT !.at = "lru", !.op = op, !.key = k]]
    /\ UNCHANGED <<tiers, environment, latest>>

(* The LRU.  A track found there is compared with the buffer before it is  *)
(* returned; a batch that misses goes straight to SQLite.                  *)
CheckLRU(c) ==
    /\ At(c, "lru")
    /\ LET r == client[c] IN
       IF Complete(r.op, lru[r.key])
       THEN IF r.op = "track"
            THEN Goto(c, "recheck", lru[r.key])
            ELSE Reply(c, lru[r.key])
       ELSE Goto(c, IF r.op \in {"batch", "backfill"} THEN "disk" ELSE "pending", None)
    /\ UNCHANGED <<tiers, environment, latest>>

(* GetTrackInfo: what is pending replaces what the LRU holds.  The code    *)
(* takes it to be newer; two fetches whose stores cross make it older.     *)
Recheck(c) ==
    /\ At(c, "recheck")
    /\ IF pending[client[c].key] # None
       THEN Goto(c, "refresh", pending[client[c].key])
       ELSE Reply(c, client[c].doc)
    /\ UNCHANGED <<tiers, environment, latest>>

Refresh(c) ==
    /\ At(c, "refresh")
    /\ lru' = [lru EXCEPT ![client[c].key] = client[c].doc]
    /\ Reply(c, client[c].doc)
    /\ UNCHANGED <<pending, batch, disk, environment, latest>>

CheckPending(c) ==
    /\ At(c, "pending")
    /\ LET r == client[c] IN
       IF Complete(r.op, pending[r.key])
       THEN Reply(c, pending[r.key])
       ELSE Goto(c, "disk", None)
    /\ UNCHANGED <<tiers, environment, latest>>

CheckDisk(c) ==
    /\ At(c, "disk")
    /\ LET r == client[c] IN
       IF Complete(r.op, disk[r.key])
       THEN Goto(c, "warm", disk[r.key])
       ELSE IF r.op = "backfill"
            THEN Reply(c, None)
            ELSE Goto(c, "api", None)
    /\ UNCHANGED <<tiers, environment, latest>>

(* What SQLite returned warms the LRU, whatever the LRU holds by now. *)
Warm(c) ==
    /\ At(c, "warm")
    /\ lru' = [lru EXCEPT ![client[c].key] = client[c].doc]
    /\ Reply(c, client[c].doc)
    /\ UNCHANGED <<pending, batch, disk, environment, latest>>

(***************************************************************************)
(* The API, and what is done with its answer.                              *)
(***************************************************************************)
Fetched(k, full) == [ver |-> catalog[k], full |-> full, era |-> era]

(* cacheAlbumJSON caches the items of an album before the album. *)
ItemsOf(k, full) == IF k \in Albums /\ full THEN SetToSeq(Tracks) ELSE << >>

(* The API answers a lookup with the whole object.                         *)
Fetch(c) ==
    /\ At(c, "api")
    /\ fetches < MaxFetches
    /\ LET k == client[c].key
           docs == [i \in 1..Len(ItemsOf(k, TRUE)) |->
                       [key |-> ItemsOf(k, TRUE)[i], doc |-> Fetched(ItemsOf(k, TRUE)[i], TRUE)]]
       IN  client' = [client EXCEPT
               ![c].at = "store",
               ![c].doc = Fetched(k, TRUE),
               ![c].todo = Append(docs, [key |-> k, doc |-> Fetched(k, TRUE)])]
    /\ fetches' = fetches + 1
    /\ UNCHANGED <<tiers, catalog, era, clearing, latest>>

FetchFails(c) ==
    /\ At(c, "api")
    /\ Reply(c, None)
    /\ UNCHANGED <<tiers, environment, latest>>

(* One item of a search result, an artist's discography or a top list: it  *)
(* is cached as it comes, an album without its items, whatever is cached.  *)
Listing(c, k) ==
    /\ At(c, "idle")
    /\ fetches < MaxFetches
    /\ LET doc == Fetched(k, k \in Tracks)
       IN  client' = [client EXCEPT ![c] =
               [at |-> "store", op |-> "listing", key |-> k,
                doc |-> doc, todo |-> <<[key |-> k, doc |-> doc]>>]]
    /\ fetches' = fetches + 1
    /\ UNCHANGED <<tiers, catalog, era, clearing, latest>>

(* cacheTrackJSON, cacheAlbumJSON: the LRU first ...                       *)
StoreLRU(c) ==
    /\ At(c, "store")
    /\ lru' = [lru EXCEPT ![Head(client[c].todo).key] = Head(client[c].todo).doc]
    /\ Goto(c, "buffer", client[c].doc)
    /\ UNCHANGED <<pending, batch, disk, environment, latest>>

(* ... then, under its own lock, the buffer.                               *)
StorePending(c) ==
    /\ At(c, "buffer")
    /\ LET item == Head(client[c].todo)
       IN  /\ pending' = [pending EXCEPT ![item.key] = item.doc]
           /\ latest' = [latest EXCEPT ![item.key] = item.doc]
    /\ IF Len(client[c].todo) = 1
       THEN Reply(c, client[c].doc)
       ELSE client' = [client EXCEPT ![c].at = "store", ![c].todo = Tail(@)]
    /\ UNCHANGED <<lru, batch, disk, environment>>

Return(c) ==
    /\ At(c, "done")
    /\ client' = [client EXCEPT ![c] = Idle]
    /\ UNCHANGED <<tiers, environment, latest>>

(***************************************************************************)
(* The flusher: it takes the buffer, then writes it in one transaction.    *)
(***************************************************************************)
Merge(front, back) == [k \in Cacheable |-> IF front[k] # None THEN front[k] ELSE back[k]]

\* Mutant: a flush waits until there is more than one object to write.
FlushSwapWhenMany ==
    /\ batch = Nowhere
    /\ Cardinality({k \in Cacheable : pending[k] # None}) > 1
    /\ batch' = pending
    /\ pending' = Nowhere
    /\ UNCHANGED <<lru, disk, client, environment, latest>>

FlushSwap ==
    /\ batch = Nowhere
    /\ pending # Nowhere
    /\ batch' = pending
    /\ pending' = Nowhere
    /\ UNCHANGED <<lru, disk, client, environment, latest>>

\* Mutant: the buffer is emptied when its contents are written, not before.
FlushCommitEmpties ==
    /\ batch # Nowhere
    /\ disk' = Merge(batch, disk)
    /\ batch' = Nowhere
    /\ pending' = Nowhere
    /\ UNCHANGED <<lru, client, environment, latest>>

FlushCommit ==
    /\ batch # Nowhere
    /\ disk' = Merge(batch, disk)
    /\ batch' = Nowhere
    /\ UNCHANGED <<lru, pending, client, environment, latest>>

(* The transaction is rolled back: the error is logged, the batch is gone. *)
FlushFails ==
    /\ MayFail
    /\ batch # Nowhere
    /\ batch' = Nowhere
    /\ latest' = Merge(pending, disk)
    /\ UNCHANGED <<lru, pending, disk, client, environment>>

(***************************************************************************)
(* What happens to the tiers on its own, and the admin's "clear cache",    *)
(* which wipes SQLite, then the LRUs.                                      *)
(***************************************************************************)
Evict(k) ==
    /\ MayForget /\ lru[k] # None
    /\ lru' = [lru EXCEPT ![k] = None]
    /\ UNCHANGED <<pending, batch, disk, client, environment, latest>>

ExpireRow(k) ==
    /\ MayForget /\ disk[k] # None
    /\ disk' = [disk EXCEPT ![k] = None]
    /\ latest' = Merge(pending, Merge(batch, disk'))
    /\ UNCHANGED <<lru, pending, batch, client, environment>>

Crash ==
    /\ MayForget
    /\ lru' = Nowhere /\ pending' = Nowhere /\ batch' = Nowhere
    /\ client' = [c \in Clients |-> Idle]
    /\ clearing' = FALSE
    /\ latest' = disk
    /\ UNCHANGED <<disk, catalog, fetches, era>>

ClearAllCache ==
    /\ ~clearing /\ era < MaxClears
    /\ disk' = Nowhere
    /\ era' = era + 1
    /\ clearing' = TRUE
    /\ latest' = Merge(pending, batch)
    /\ UNCHANGED <<lru, pending, batch, client, catalog, fetches>>

ClearAll ==
    /\ clearing
    /\ lru' = Nowhere
    /\ clearing' = FALSE
    /\ UNCHANGED <<pending, batch, disk, client, catalog, fetches, era, latest>>

CatalogChanges(k) ==
    /\ catalog[k] < MaxVersion
    /\ catalog' = [catalog EXCEPT ![k] = @ + 1]
    /\ UNCHANGED <<tiers, client, fetches, era, clearing, latest>>

Request(c) ==
    \/ \E op \in Ops \ {"listing"}, k \in Cacheable : Start(c, op, k)
    \/ CheckLRU(c) \/ Recheck(c) \/ Refresh(c) \/ CheckPending(c) \/ CheckDisk(c) \/ Warm(c)
    \/ Fetch(c) \/ FetchFails(c) \/ StoreLRU(c) \/ StorePending(c) \/ Return(c)
    \/ \E k \in Cacheable : Listing(c, k)

Next ==
    \/ \E c \in Clients : Request(c)
    \/ FlushSwap \/ FlushCommit \/ FlushFails
    \/ \E k \in Cacheable : Evict(k) \/ ExpireRow(k) \/ CatalogChanges(k)
    \/ Crash \/ ClearAllCache \/ ClearAll

Spec == Init /\ [][Next]_vars

(* flushBufferLoop ticks for ever, nothing closes its quit channel, and    *)
(* SQLite finishes the transactions it begins.                             *)
FairSpec == Spec /\ WF_vars(FlushSwap) /\ WF_vars(FlushCommit)

-----------------------------------------------------------------------------

Slot == Docs \cup {None}

TypeOK ==
    /\ \A tier \in {lru, pending, batch, disk, latest} : tier \in [Cacheable -> Slot]
    /\ \A c \in Clients :
          /\ client[c].at \in {"idle", "lru", "recheck", "refresh", "pending", "disk",
                               "warm", "api", "store", "buffer", "done"}
          /\ client[c].doc \in Slot
          /\ client[c].at \in {"recheck", "refresh", "warm", "store", "buffer"}
                => client[c].doc # None
          /\ client[c].at \in {"store", "buffer"} <=> client[c].todo # << >>
    /\ catalog \in [Cacheable -> 0..MaxVersion]
    /\ fetches \in 0..MaxFetches /\ era \in 0..MaxClears /\ clearing \in BOOLEAN

(* No document is lost on its way to SQLite: looked for in the buffer, in  *)
(* the batch being written and in the database, in this order, every key   *)
(* has the document that was buffered last, however requests, the swap and *)
(* the transaction interleave.  Only a rolled back transaction, a crash,   *)
(* expiry or a clear takes it away.                                        *)
NothingBufferedIsLost == Merge(pending, Merge(batch, disk)) = latest

(* GetAlbumInfo never answers with an album that lacks its items, though   *)
(* listings put such albums in every tier.                                 *)
AlbumsAreComplete ==
    \A c \in Clients :
        At(c, "done") /\ client[c].op = "album" /\ client[c].doc # None => client[c].doc.full

(* flushBufferLoop: what is buffered reaches SQLite, unless it is lost to a *)
(* rolled back transaction or a crash: in the end the flusher has nothing   *)
(* left, and the table has whatever was buffered last.                      *)
BufferReachesDisk == <>[](pending = Nowhere /\ batch = Nowhere /\ disk = latest)

=============================================================================
