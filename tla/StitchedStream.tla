--------------------------- MODULE StitchedStream ---------------------------
(***************************************************************************)
(* server/ctrlsubsonic/downloader.go and handlers_download.go: tracks that *)
(* the Subsonic API itself puts together from the segments of a manifest,  *)
(* for a player or, one after the other, for the entries of an album ZIP.  *)
(*                                                                         *)
(* HLS: init and first media segment are fetched, the others one by one    *)
(* while a goroutine prefetches them into a segment cache all sessions     *)
(* share; FLAC in fMP4 is piped through ffmpeg for a ZIP.  DASH: a pool of *)
(* workers and one goroutine that puts their results in order.             *)
(*                                                                         *)
(* Segments are numbers, the init segment is number 0.  What a session     *)
(* sends is the sequence of their numbers; the start of a first segment    *)
(* whose FLAC header could not be rewritten, and which is then sent again, *)
(* is Torn.  ffmpeg and the goroutine that tags its output are one stage.  *)
(***************************************************************************)
EXTENDS Integers, Sequences, FiniteSets

CONSTANTS
    Sessions,   \* HTTP requests
    Scenarios,  \* what they ask for: session -> [client, offset, leaves, tracks]
    Workers,    \* 1..maxConcurrency
    Ahead,      \* prefetchAhead
    NoOne       \* no session

\* A track's segments are numbered up to last; DASH comes without an init segment
Songs ==
    {t \in [id : Nat, kind : {"hls", "dash"}, init : BOOLEAN, flac : BOOLEAN, last : Nat] : t.kind = "dash" => ~ t.init}

StreamAssumption ==
    /\ IsFiniteSet(Workers) /\ Workers = 1..Cardinality(Workers) /\ Workers # {}
    /\ Ahead \in Nat
    /\ NoOne \notin Sessions
    /\ \A p \in Scenarios : \A s \in Sessions : p[s].offset \in Nat /\ p[s].tracks \in Seq(Songs)

VARIABLES
    plan,      \* the scenario
    call,      \* session -> the goroutine of its handler: at, the track it is
               \* at, the next segment, those it still has to write
    sent,      \* session -> what the client got of the current track
    ended,     \* session -> the outcomes of its earlier tracks
    gone,      \* sessions whose client has left
    prefetch,  \* session -> the index its prefetcher is at, or Off
    remux,     \* session -> its ffmpeg and the chunk in the pipe to it
    pool,      \* session -> DASH worker -> [at, seg, ok]
    results,   \* session -> the channel of DASH results
    arrived,   \* session -> resultMap
    cached,    \* segments in segmentCache, as <<track, number>>
    slice,     \* track -> the session that fetched the init segment in the cache
    held,      \* session -> the session that fetched the init segment it uses
    patched    \* init segments, by <<track, fetcher>>, that fixMp4Durations wrote to

dashVars == <<pool, results, arrived>>
cacheVars == <<cached, slice, patched>>
vars == <<plan, call, sent, ended, gone, prefetch, remux, dashVars, cacheVars, held>>

Off == -1
Torn == -1
NoPipe == [ffmpeg |-> "none", pipe |-> <<>>]
NoPool == [w \in Workers |-> [at |-> "done", seg |-> 0, ok |-> TRUE]]
Greatest(a, b) == IF a < b THEN b ELSE a

At(s, step) == call[s].at = step
Goto(s, step) == call' = [call EXCEPT ![s].at = step]
Track(s) == plan[s].tracks[call[s].pos]
Client(s, c) == plan[s].client = c

(* Where a seek begins, the offset counted in segments: in HLS behind the  *)
(* end it begins at the start, in DASH at the last segment.                *)
Start(s) ==
    LET offset == plan[s].offset
        lead == IF Track(s).init THEN 1 ELSE 0
    IN  IF Track(s).kind = "dash" THEN (IF offset > Track(s).last THEN Track(s).last ELSE offset)
        ELSE IF offset > 0 /\ offset + lead <= Track(s).last THEN offset + lead ELSE 0

Segment(s, i) == <<Track(s).id, i>>
First(s) == IF Track(s).init THEN Greatest(1, Start(s)) ELSE Start(s)
Chosen == UNION {{plan[s].tracks[i].id : i \in DOMAIN plan[s].tracks} : s \in Sessions}

(* What a session that gets everything is sent. *)
Whole(s) ==
    (IF Track(s).init /\ Track(s).kind = "hls" THEN <<0>> ELSE <<>>)
        \o [i \in 1..(Track(s).last - First(s) + 1) |-> First(s) + i - 1]

(* Nothing but the start of the first segment can be torn.                 *)
Audio(s) == IF sent[s] # <<>> /\ Head(sent[s]) = Torn THEN Tail(sent[s]) ELSE sent[s]

Init ==
    /\ plan \in Scenarios
    /\ call = [s \in Sessions |-> [at |-> "idle", pos |-> 0, next |-> 0, todo |-> <<>>]]
    /\ sent = [s \in Sessions |-> <<>>]
    /\ ended = [s \in Sessions |-> <<>>]
    /\ gone = {}
    /\ prefetch = [s \in Sessions |-> Off]
    /\ remux = [s \in Sessions |-> NoPipe]
    /\ pool = [s \in Sessions |-> NoPool]
    /\ results = [s \in Sessions |-> <<>>]
    /\ arrived = [s \in Sessions |-> {}]
    /\ cached = {}
    /\ slice = [t \in Chosen |-> NoOne]
    /\ held = [s \in Sessions |-> NoOne]
    /\ patched = {}

(***************************************************************************)
(* The handlers: one track, or the tracks of an album in turn; a track     *)
(* that fails is passed over.                                              *)
(***************************************************************************)
Begin(s) ==
    /\ At(s, "idle") /\ call[s].pos < Len(plan[s].tracks)
    /\ call' = [call EXCEPT ![s] = [at |-> "manifest", pos |-> @.pos + 1, next |-> 0, todo |-> <<>>]]
    /\ sent' = [sent EXCEPT ![s] = <<>>]
    /\ UNCHANGED <<plan, ended, gone, prefetch, remux, dashVars, cacheVars, held>>

Leave(s) ==
    /\ At(s, "idle") /\ call[s].pos = Len(plan[s].tracks)
    /\ Goto(s, "left")
    /\ gone' = gone \cup {s}   \* net/http cancels the context when the handler returns
    /\ UNCHANGED <<plan, sent, ended, prefetch, remux, dashVars, cacheVars, held>>

(* A call returns: its prefetcher's context is cancelled, ffmpeg killed,   *)
(* the pipe closed, the tagger waited for.  DASH workers that still send   *)
(* to a channel nobody reads end with the request.                         *)
Return(s, outcome) ==
    /\ Goto(s, "idle")
    /\ ended' = [ended EXCEPT ![s] = Append(@, outcome)]
    /\ prefetch' = [prefetch EXCEPT ![s] = Off]
    /\ remux' = [remux EXCEPT ![s] = NoPipe]
    /\ pool' = [pool EXCEPT ![s] = NoPool]
    /\ results' = [results EXCEPT ![s] = <<>>]
    /\ arrived' = [arrived EXCEPT ![s] = {}]
    /\ held' = [held EXCEPT ![s] = NoOne]
    /\ UNCHANGED <<plan, gone>>

ManifestFails(s) ==
    /\ At(s, "manifest")
    /\ Return(s, "error")
    /\ UNCHANGED <<sent, cacheVars>>

ManifestRead(s) ==
    /\ At(s, "manifest") /\ s \notin gone
    /\ IF Track(s).kind = "dash"
       THEN /\ call' = [call EXCEPT ![s].at = "collect", ![s].next = Start(s)]
            /\ pool' = [pool EXCEPT ![s] = [w \in Workers |->
                   [at |-> IF Start(s) + w - 1 > Track(s).last THEN "done" ELSE "fetch",
                    seg |-> Start(s) + w - 1, ok |-> TRUE]]]
       ELSE /\ Goto(s, IF Track(s).init THEN "init" ELSE "first")
            /\ UNCHANGED pool
    /\ UNCHANGED <<plan, sent, ended, gone, prefetch, remux, results, arrived, cacheVars, held>>

(***************************************************************************)
(* HLS: the first segments.                                                *)
(***************************************************************************)
Hit(s, i) == Segment(s, i) \in cached

(* getCachedSegment *)
FetchInit(s) ==
    /\ At(s, "init") /\ (Hit(s, 0) \/ s \notin gone)
    /\ held' = [held EXCEPT ![s] = IF Hit(s, 0) THEN slice[Track(s).id] ELSE s]
    /\ slice' = IF Hit(s, 0) THEN slice ELSE [slice EXCEPT ![Track(s).id] = s]
    /\ cached' = cached \cup {Segment(s, 0)}
    /\ Goto(s, "first")
    /\ UNCHANGED <<plan, sent, ended, gone, prefetch, remux, dashVars, patched>>

FetchFirst(s) ==
    /\ At(s, "first") /\ First(s) <= Track(s).last
    /\ Hit(s, First(s)) \/ s \notin gone
    /\ cached' = cached \cup {Segment(s, First(s))}
    /\ Goto(s, "head")
    /\ UNCHANGED <<plan, sent, ended, gone, prefetch, remux, dashVars, slice, patched, held>>

(* segments[firstMediaIdx] of a playlist that has an init segment only. *)
NoMediaSegment(s) ==
    /\ At(s, "first") /\ First(s) > Track(s).last
    /\ Return(s, "panic")
    /\ UNCHANGED <<sent, cacheVars>>

FetchFails(s) ==
    /\ \/ At(s, "init") /\ ~Hit(s, 0)
       \/ At(s, "first") /\ First(s) <= Track(s).last /\ ~Hit(s, First(s))
       \/ At(s, "loop") /\ call[s].next <= Track(s).last /\ ~Hit(s, call[s].next)
    /\ Return(s, "error")
    /\ UNCHANGED <<sent, cacheVars>>

(* The durations in the init segment are corrected in place, for players   *)
(* that need them; ffmpeg is started for a ZIP of FLAC in fMP4.            *)
HeadWithInit(s, started) ==
    /\ At(s, "head") /\ Track(s).init
    /\ patched' = IF Client(s, "exo") THEN patched \cup {<<Track(s).id, held[s]>>} ELSE patched
    /\ remux' = IF started /\ Track(s).flac /\ Client(s, "zip")
                THEN [remux EXCEPT ![s].ffmpeg = "up"] ELSE remux
    /\ call' = [call EXCEPT ![s].at = "write", ![s].todo = <<0, First(s)>>, ![s].next = First(s) + 1]
    /\ UNCHANGED <<plan, sent, ended, gone, prefetch, dashVars, cached, slice, held>>

(* Without an init segment the first segment goes through the tagger; if   *)
(* that fails half-way, it is written once more.                           *)
HeadTagged(s, torn) ==
    /\ At(s, "head") /\ ~Track(s).init /\ s \notin gone
    /\ sent' = [sent EXCEPT ![s] = (IF torn THEN <<Torn>> ELSE <<>>) \o <<First(s)>>]
    /\ call' = [call EXCEPT ![s].at = "loop", ![s].next = First(s) + 1]
    /\ prefetch' = [prefetch EXCEPT ![s] = First(s) + 1]
    /\ UNCHANGED <<plan, ended, gone, remux, dashVars, cacheVars, held>>

(***************************************************************************)
(* HLS: writing, to the client or into the pipe, which has to be read.     *)
(***************************************************************************)
Written(s) ==
    LET last == Len(call[s].todo) = 1
    IN  /\ call' = [call EXCEPT ![s].todo = Tail(@), ![s].at = IF last THEN "loop" ELSE @]
        /\ prefetch' = IF last /\ prefetch[s] = Off /\ Len(sent[s]) + Len(remux[s].pipe) < 2
                       THEN [prefetch EXCEPT ![s] = call[s].next] ELSE prefetch

WriteToClient(s) ==
    /\ At(s, "write") /\ remux[s].ffmpeg = "none" /\ s \notin gone
    /\ sent' = [sent EXCEPT ![s] = Append(@, Head(call[s].todo))]
    /\ Written(s)
    /\ UNCHANGED <<plan, ended, gone, remux, dashVars, cacheVars, held>>

WriteToPipe(s) ==
    /\ At(s, "write") /\ remux[s].ffmpeg = "up" /\ remux[s].pipe = <<>>
    /\ remux' = [remux EXCEPT ![s].pipe = <<Head(call[s].todo)>>]
    /\ Written(s)
    /\ UNCHANGED <<plan, sent, ended, gone, dashVars, cacheVars, held>>

ClientGone(s) ==
    /\ s \in gone
    /\ \/ At(s, "write") /\ remux[s].ffmpeg = "none"
       \/ At(s, "head") /\ ~Track(s).init
    /\ Return(s, "error")
    /\ UNCHANGED <<sent, cacheVars>>

(* The main loop: the next segment, out of the cache or fetched. *)
\* Mutant: the segment counter is advanced once more for a cached segment.
NextSegmentSkips(s) ==
    /\ At(s, "loop") /\ call[s].next <= Track(s).last
    /\ Hit(s, call[s].next) \/ s \notin gone
    /\ call' = [call EXCEPT ![s].at = "write", ![s].todo = <<call[s].next>>,
                            ![s].next = @ + (IF Hit(s, call[s].next) THEN 2 ELSE 1)]
    /\ cached' = cached \cup {Segment(s, call[s].next)}
    /\ UNCHANGED <<plan, sent, ended, gone, prefetch, remux, dashVars, slice, patched, held>>

NextSegment(s) ==
    /\ At(s, "loop") /\ call[s].next <= Track(s).last
    /\ Hit(s, call[s].next) \/ s \notin gone
    /\ call' = [call EXCEPT ![s].at = "write", ![s].todo = <<call[s].next>>, ![s].next = @ + 1]
    /\ cached' = cached \cup {Segment(s, call[s].next)}
    /\ UNCHANGED <<plan, sent, ended, gone, prefetch, remux, dashVars, slice, patched, held>>

LoopEnds(s) ==
    /\ At(s, "loop") /\ call[s].next > Track(s).last
    /\ Goto(s, "join")
    /\ UNCHANGED <<plan, sent, ended, gone, prefetch, remux, dashVars, cacheVars, held>>

(* prefetchCancel and wg.Wait, then the pipe is closed and ffmpeg waited   *)
(* for, whose exit code is only logged.                                    *)
Join(s) ==
    /\ At(s, "join") /\ prefetch[s] = Off
    /\ remux[s].ffmpeg \in {"none", "gone"}
    /\ Return(s, "nil")
    /\ UNCHANGED <<sent, cacheVars>>

(***************************************************************************)
(* HLS: the prefetcher and ffmpeg.                                         *)
(***************************************************************************)
Cancelled(s) == s \in gone \/ At(s, "join")

(* One round: the segment Ahead of the index is fetched, which may fail    *)
(* without consequences; nothing makes it wait for the main loop.          *)
Prefetch(s, ok) ==
    /\ prefetch[s] # Off
    /\ LET target == prefetch[s] + Ahead
           more == target < Track(s).last /\ ~Cancelled(s)
       IN  /\ cached' = IF target <= Track(s).last /\ ok /\ ~Cancelled(s)
                        THEN cached \cup {Segment(s, target)} ELSE cached
           /\ prefetch' = [prefetch EXCEPT ![s] = IF more THEN @ + 1 ELSE Off]
    /\ UNCHANGED <<plan, call, sent, ended, gone, remux, dashVars, slice, patched, held>>

(* ffmpeg reads a chunk, the tagger writes it to the ZIP entry. *)
Forward(s) ==
    /\ remux[s].ffmpeg = "up" /\ remux[s].pipe # <<>> /\ s \notin gone
    /\ sent' = [sent EXCEPT ![s] = @ \o remux[s].pipe]
    /\ remux' = [remux EXCEPT ![s].pipe = <<>>]
    /\ UNCHANGED <<plan, call, ended, gone, prefetch, dashVars, cacheVars, held>>

(* It ends after its input, or is killed when the context is cancelled.    *)
(* Nobody closes the reading end of the pipe the call writes to.           *)
RemuxEnds(s) ==
    /\ remux[s].ffmpeg = "up"
    /\ s \in gone \/ (At(s, "join") /\ prefetch[s] = Off /\ remux[s].pipe = <<>>)
    /\ remux' = [remux EXCEPT ![s] = [ffmpeg |-> "gone", pipe |-> <<>>]]
    /\ UNCHANGED <<plan, call, sent, ended, gone, prefetch, dashVars, cacheVars, held>>

(***************************************************************************)
(* DASH.                                                                   *)
(***************************************************************************)
WorkerFetches(s, w, ok) ==
    /\ pool[s][w].at = "fetch" /\ (ok => s \notin gone)
    /\ pool' = [pool EXCEPT ![s][w] = [at |-> "send", seg |-> @.seg, ok |-> ok]]
    /\ UNCHANGED <<plan, call, sent, ended, gone, prefetch, remux, results, arrived, cacheVars, held>>

WorkerSends(s, w) ==
    /\ pool[s][w].at = "send" /\ Len(results[s]) < 2 * Cardinality(Workers)
    /\ results' = [results EXCEPT ![s] = Append(@, [seg |-> pool[s][w].seg, ok |-> pool[s][w].ok])]
    /\ LET seg == pool[s][w].seg + Cardinality(Workers)
       IN  pool' = [pool EXCEPT ![s][w] =
               [at |-> IF seg > Track(s).last THEN "done" ELSE "fetch", seg |-> seg, ok |-> TRUE]]
    /\ UNCHANGED <<plan, call, sent, ended, gone, prefetch, remux, arrived, cacheVars, held>>

WorkerQuits(s, w) ==
    /\ pool[s][w].at = "send" /\ s \in gone
    /\ pool' = [pool EXCEPT ![s][w].at = "done"]
    /\ UNCHANGED <<plan, call, sent, ended, gone, prefetch, remux, results, arrived, cacheVars, held>>

(* A result: an error ends the call, anything else is kept until its turn; *)
(* what is due is written, the first segment through the tagger.           *)
\* Mutant: what has arrived is written as it comes.
CollectAsItComes(s, torn) ==
    /\ At(s, "collect") /\ results[s] # <<>>
    /\ s \notin gone /\ Head(results[s]).ok
    /\ (torn => sent[s] = <<>>)
    /\ sent' = [sent EXCEPT ![s] = @ \o (IF torn THEN <<Torn>> ELSE <<>>) \o <<Head(results[s]).seg>>]
    /\ call' = [call EXCEPT ![s].next = @ + 1]
    /\ results' = [results EXCEPT ![s] = Tail(@)]
    /\ UNCHANGED <<plan, ended, gone, prefetch, remux, pool, arrived, cacheVars, held>>

Collect(s, torn) ==
    /\ At(s, "collect") /\ results[s] # <<>>
    /\ s \notin gone /\ Head(results[s]).ok
    /\ LET have == arrived[s] \cup {Head(results[s]).seg}
           due == {i \in have : (call[s].next)..i \subseteq have}
           next == call[s].next + Cardinality(due)
       IN  /\ (torn => sent[s] = <<>> /\ due # {})
           /\ sent' = [sent EXCEPT ![s] = @ \o (IF torn THEN <<Torn>> ELSE <<>>)
                                            \o [i \in 1..Cardinality(due) |-> call[s].next + i - 1]]
           /\ arrived' = [arrived EXCEPT ![s] = have \ due]
           /\ call' = [call EXCEPT ![s].next = next]
    /\ results' = [results EXCEPT ![s] = Tail(@)]
    /\ UNCHANGED <<plan, ended, gone, prefetch, remux, pool, cacheVars, held>>

CollectFails(s) ==
    /\ At(s, "collect") /\ results[s] # <<>>
    /\ s \in gone \/ ~Head(results[s]).ok
    /\ Return(s, "error")
    /\ UNCHANGED <<sent, cacheVars>>

(* All is written, or the channel is closed because the workers have ended:*)
(* cancelled ones leave a gap, and nil is returned all the same.           *)
Collected(s) ==
    /\ At(s, "collect")
    /\ \/ call[s].next > Track(s).last
       \/ results[s] = <<>> /\ \A w \in Workers : pool[s][w].at = "done"
    /\ Return(s, "nil")
    /\ UNCHANGED <<sent, cacheVars>>

(* External: the client leaves, and net/http cancels the context. *)
ClientLeaves(s) ==
    /\ s \notin gone /\ plan[s].leaves
    /\ gone' = gone \cup {s}
    /\ UNCHANGED <<plan, call, sent, ended, prefetch, remux, dashVars, cacheVars, held>>

Main(s) ==
    \/ Begin(s) \/ Leave(s) \/ ManifestFails(s) \/ ManifestRead(s)
    \/ FetchInit(s) \/ FetchFirst(s) \/ NoMediaSegment(s) \/ FetchFails(s)
    \/ \E b \in BOOLEAN : HeadWithInit(s, b) \/ HeadTagged(s, b) \/ Collect(s, b)
    \/ WriteToClient(s) \/ WriteToPipe(s) \/ ClientGone(s) \/ NextSegment(s) \/ LoopEnds(s)
    \/ Join(s) \/ CollectFails(s) \/ Collected(s)

Background(s) ==
    \/ \E ok \in BOOLEAN : Prefetch(s, ok)
    \/ Forward(s) \/ RemuxEnds(s)
    \/ \E w \in Workers : \/ \E ok \in BOOLEAN : WorkerFetches(s, w, ok)
                          \/ WorkerSends(s, w) \/ WorkerQuits(s, w)

Next == \E s \in Sessions : Main(s) \/ Background(s) \/ ClientLeaves(s)

Spec == Init /\ [][Next]_vars

(* Goroutines run, requests to the CDN and ffmpeg have an end.  Each does  *)
(* a bounded number of steps, so that none is passed over for ever.        *)
FairSpec ==
    Spec /\ WF_vars(\E s \in Sessions : Main(s)) /\ WF_vars(\E s \in Sessions : Background(s))

-----------------------------------------------------------------------------

(* A client gets a prefix of the track, in order, whatever is fetched,     *)
(* prefetched or shared with other sessions in the meantime.               *)
SentInOrder ==
    \A s \in Sessions : call[s].pos > 0 =>
        Audio(s) = SubSeq(Whole(s), 1, Len(Audio(s)))

(* A track that is reported to be complete is, unless the client has left. *)
CompleteOrError ==
    \A s \in Sessions :
        At(s, "idle") /\ call[s].pos > 0 /\ s \notin gone
            /\ ended[s][Len(ended[s])] = "nil" => Audio(s) = Whole(s)

(* The call is in a Write nobody will read: ffmpeg was killed with the     *)
(* context, and the reading end of the pipe stays open.                    *)
Hung(s) == At(s, "write") /\ remux[s].ffmpeg = "gone"

=============================================================================
