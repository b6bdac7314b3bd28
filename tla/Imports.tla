------------------------------- MODULE Imports -------------------------------
(* How playlists of other services come into the library.  A behaviour is of  *)
(* ImportSources, what is fetched and where it will be streamed from, or of   *)
(* Playlists, jobs that fill playlists while clients change them.             *)
EXTENDS ImportSources

CONSTANTS Jobs, Editors, Uris, Length, JobSlots, Workers, MaxEdits  \* of Playlists

VARIABLES
    which,  \* the part this behaviour is of: "sources" | "playlists"
    name, tracks, nextId, slots, job, req, asked, edited

playlists == <<name, tracks, nextId, slots, job, req, asked, edited>>
all == <<vars, playlists, which>>

-----------------------------------------------------------------------------
Job == INSTANCE Playlists WITH Imports <- Jobs, Clients <- Editors, Slots <- JobSlots, MaxRequests <- MaxEdits

ImportsAssumption == Job!PlaylistsAssumption

ImportsInit == ImportInit /\ Job!Init /\ which \in {"sources", "playlists"}

Of(part) == which = part /\ UNCHANGED which
SourcesStep == Of("sources") /\ Next /\ UNCHANGED playlists
PlaylistsStep == Of("playlists") /\ Job!Next /\ UNCHANGED vars

\* Requests to services, searches, covers and statements end; nobody has to
\* make a request.  Calls and jobs have a bounded number of steps.
EndsByItself ==
    \/ Of("sources") /\ (\E c \in Callers : ImportGoesOn(c) \/ CloudStep(c)) /\ UNCHANGED playlists
    \/ Of("playlists") /\ (\E p \in Jobs : Job!Job(p)) /\ UNCHANGED vars

ImportsSpec == ImportsInit /\ [][SourcesStep \/ PlaylistsStep]_all /\ WF_all(EndsByItself)

-----------------------------------------------------------------------------

(* What is fetched of a playlist or an album stands where its source has    *)
(* it, whatever fails and in whatever order SoundCloud tells it.            *)
FetchedInOrder == TracksInPlace /\ ListedInOrder

(* runJob: a playlist holds the tracks that were found in the order of the  *)
(* source, each once and without gaps, whatever order the searches end in   *)
(* and whatever clients then add, remove or number anew.                    *)
ImportedInOrder == Job!ImportKeepsOrder /\ Job!ImportComplete

(* Every call and every job that was started ends: no request waits for     *)
(* ever for a key that another one looks for, no job for a slot.            *)
EverythingImported ==
    <>[](/\ \A c \in Callers : call[c].at \in {"idle", "done"}
         /\ \A p \in Jobs : job[p].at \in {"none", "done"})

=============================================================================
