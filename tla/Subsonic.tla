------------------------------ MODULE Subsonic ------------------------------
(* What clients of the Subsonic API ask for.  A behaviour is of what users    *)
(* search, keep and enumerate (UserLibrary), of requests for a stream of one  *)
(* song (StreamResolution), or of YouTube's catalogue (YouTubeCatalog).       *)
EXTENDS UserLibrary

CONSTANTS
    Callers,  \* requests for a stream, or calls of the catalogue
    Streamers, Home, Starts, Latency, Progressive, Flipped, MaxStreams, MaxSwitches, MaxFaults, \* of StreamResolution
    MaxBatch, Slots, TopLimit, MaxCalls, Questions, Videos, AlbumIds, ArtistIds, Names, Latin,  \* of YouTubeCatalog
    SearchPages, Panels, Details, AlbumPages, ArtistPages

VARIABLES
    which,  \* the part this behaviour is of: "library" | "streams" | "youtube"
    offer, enabled, lock, sources, urls, flights, dedup, entry, landed, asking, switches, faults,
    trackCache, albumCache, artistCache, call, batch, calls

youtube == <<trackCache, albumCache, artistCache, call, batch, calls>>
streams == <<offer, enabled, lock, sources, urls, flights, dedup, entry, landed, asking, switches, faults>>
all == <<vars, streams, youtube, which>>

-----------------------------------------------------------------------------

Catalog == INSTANCE YouTubeCatalog WITH Asked <- Questions, None <- NoOne

\* Starts: what is offered, remembered and switched on, as far as these go together
Resolution == INSTANCE StreamResolution WITH
    Requests <- Callers, Providers <- Streamers,
    Offers <- {start.offer : start \in Starts}, Tables <- {start.table : start \in Starts},
    Switched <- {start.on : start \in Starts},
    None <- NoOne, table <- sources, req <- asking

SubsonicAssumption == Catalog!CatalogAssumption /\ Resolution!ResolutionAssumption

-----------------------------------------------------------------------------
\* Behaviours

\* The parts a behaviour is not of stay as they are, in one state
SubsonicInit ==
    /\ Init /\ Resolution!Init /\ Catalog!Init /\ which \in {"library", "streams", "youtube"}
    /\ which # "library" => plan = CHOOSE p \in Plans : TRUE
    /\ \E start \in Starts :
        /\ offer = start.offer /\ sources = start.table /\ enabled = start.on
        /\ which # "streams" => start = CHOOSE s \in Starts : TRUE

Within(part) == which = part /\ UNCHANGED which
LibraryStep == Within("library") /\ Next /\ UNCHANGED <<streams, youtube>>
StreamStep == Within("streams") /\ Resolution!Next /\ UNCHANGED <<vars, youtube>>
YouTubeStep == Within("youtube") /\ Catalog!Next /\ UNCHANGED <<vars, streams>>

\* Every call of a provider ends, and so does every stream: their contexts and
\* the HTTP clients have timeouts.  A lock that is free is granted.
GoesOn ==
    \/ /\ Within("streams") /\ UNCHANGED <<vars, youtube>>
       /\ (\E c \in Callers : Resolution!Proceed(c)) \/ \E p \in Flipped : Resolution!SetAudioEnabled(p)
    \/ Within("youtube") /\ (\E p \in Catalog!Procs : Catalog!Step(p)) /\ UNCHANGED <<vars, streams>>

SubsonicNext == LibraryStep \/ StreamStep \/ YouTubeStep

\* Each caller and fetcher takes a bounded number of steps
SubsonicSpec == SubsonicInit /\ [][SubsonicNext]_all /\ WF_all(GoesOn)

-----------------------------------------------------------------------------

(* MatchTrackByMetadata: of the results of the right length the closest     *)
(* one, a result of unknown length only when there is none.                 *)
MatchTrusted == Catalog!MatchTrusted

(* GetTracksBatch: whatever order the fetchers end in, a track stands where *)
(* its id stood in the list.                                                *)
BatchInOrder == Catalog!BatchInOrder

(* prepareStream: who is sent a source of the lowest tier could not have    *)
(* had a lossless one.                                                      *)
LossyLast == Resolution!LossyLast

(* The registry: who asks a provider for a URL has seen it switched on.     *)
SwitchRespected == Resolution!SwitchRespected

(* Every request for a stream is served or refused, whatever its leaders do *)
(* and whoever drops which entry, unless the registry's lock is stuck; and  *)
(* every call of the catalogue ends, and a list of tracks with it: no       *)
(* fetcher waits for a slot for ever.                                       *)
CallsEnd ==
    <>[](/\ which = "streams" => Resolution!LockStuck \/ \A c \in Callers : asking[c].at \in {"served", "refused"}
         /\ which = "youtube" => Catalog!Over)

=============================================================================
