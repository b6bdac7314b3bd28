------------------------------- MODULE Streams -------------------------------
(* Every way in which this server sends audio.  A behaviour is of one of      *)
(* them: HlsStitcher, TidalDownload, StitchedStream for its HTTP requests, or *)
(* ResidentWorker.                                                            *)
EXTENDS HlsStitcher

CONSTANTS
    Plans, PipeCap,                        \* of TidalDownload
    Sessions, Scenarios, Fetchers, Ahead,  \* of StitchedStream
    Requests, Tracks, Wanted, Failed, Switches,  \* of ResidentWorker
    NoOne

VARIABLES
    which,  \* the part this behaviour is of: "stitch" | "download" | "session" | "resident"
    track, pipedOut, result, left, piped, main, stdin, stdinClosed, ffmpeg, chunk, stdout, stdoutClosed,
    tagger, tagged, delivered,
    plan, call, sent, ended, gone, prefetch, remux, dash, collected, arrived, cached, slice, held, patched,
    client, process, usable, asked, answers, readers, astray, holder, inFlight, job, req, stored, switched

downloadVars ==
    <<track, pipedOut, result, left, piped, main, stdin, stdinClosed, ffmpeg, chunk, stdout, stdoutClosed,
      tagger, tagged, delivered>>
sessionVars == <<plan, call, sent, ended, gone, prefetch, remux, dash, collected, arrived, cached, slice, held, patched>>
residentVars == <<client, process, usable, asked, answers, readers, astray, holder, inFlight, job, req, stored, switched>>
all == <<vars, downloadVars, sessionVars, residentVars, which>>

-----------------------------------------------------------------------------

Download == INSTANCE TidalDownload WITH
    plan <- track, out <- pipedOut, outcome <- result, cancelled <- left

Stream == INSTANCE StitchedStream WITH Workers <- Fetchers, pool <- dash, results <- collected

Resident == INSTANCE ResidentWorker

StreamsAssumption ==
    /\ SomeWorker /\ FirstIsWritten
    /\ Download!DownloadAssumption /\ Stream!StreamAssumption /\ Resident!WorkerAssumption

-----------------------------------------------------------------------------
\* Behaviours

\* The parts a behaviour is not of stay as they are, in one state
StreamsInit ==
    /\ Init /\ Download!Init /\ Stream!Init /\ Resident!Init
    /\ which \in {"stitch", "download", "session", "resident"}
    /\ which # "stitch" => input = CHOOSE i \in Inputs : TRUE
    /\ which # "download" => track = CHOOSE t \in Plans : TRUE
    /\ which # "download" => ~ piped
    /\ which # "session" => plan = CHOOSE p \in Scenarios : TRUE
    /\ which # "resident" => client = "youtube"

Of(part) == which = part /\ UNCHANGED which
StitchStep == Of("stitch") /\ Next /\ UNCHANGED <<downloadVars, sessionVars, residentVars>>
DownloadStep == Of("download") /\ Download!Next /\ UNCHANGED <<vars, sessionVars, residentVars>>
SessionStep == Of("session") /\ Stream!Next /\ UNCHANGED <<vars, downloadVars, residentVars>>
ResidentStep == Of("resident") /\ Resident!Next /\ UNCHANGED <<vars, downloadVars, sessionVars>>

\* What goroutines and ffmpeg do by themselves: everything but the clients,
\* the accounts and the resident process
GoesOn ==
    \/ /\ Of("stitch") /\ (Caller \/ Produce \/ ProducerEnds \/ CloseResults \/ \E w \in Workers : Work(w))
       /\ UNCHANGED <<downloadVars, sessionVars, residentVars>>
    \/ /\ Of("download") /\ (Download!Main \/ Download!FFmpeg \/ Download!Tagger)
       /\ UNCHANGED <<vars, sessionVars, residentVars>>
    \/ /\ Of("session") /\ (\E s \in Sessions : Stream!Main(s) \/ Stream!Background(s))
       /\ UNCHANGED <<vars, downloadVars, residentVars>>
    \/ /\ Of("resident") /\ (\E r \in Requests : Resident!Step(r))
       /\ UNCHANGED <<vars, downloadVars, sessionVars>>

StreamsNext == StitchStep \/ DownloadStep \/ SessionStep \/ ResidentStep

\* Each of them does a bounded number of steps, so that none is passed over
\* for ever if they go on together
StreamsSpec == StreamsInit /\ [][StreamsNext]_all /\ WF_all(GoesOn)

-----------------------------------------------------------------------------

(* ffmpeg and the tagger: what the client of a download has is a prefix of  *)
(* the track, what is between Stitch and the client is what is to come.     *)
DeliveredInOrder == Download!DeliveredInOrder

(* StitchAndConvertFLAC: after it has returned nobody writes to the         *)
(* response, which the server then takes back.                              *)
SilentAfterReturn == Download!SilentAfterReturn

(* downloadAndStitchHLS and -DASH: a client gets a prefix of the track, in  *)
(* order, whatever is fetched, prefetched or shared in the meantime.        *)
SentInOrder == Stream!SentInOrder

(* A track that is reported to be complete is, unless the client has left.  *)
CompleteOrError == Stream!CompleteOrError

(* The resident process: the next line is the answer to the question of the *)
(* one request that waits for it, and followers wait for their own track.   *)
RightStream == Resident!RightStream

(* Every call returns and leaves no goroutine behind, whoever gives up,     *)
(* fails or leaves; except for a ZIP whose client has left while a track is *)
(* being remuxed.                                                           *)
CallsReturn ==
    <>[](CASE which = "stitch" ->
                /\ outcome # "running"
                /\ Started => queueClosed /\ resultsClosed /\ \A w \in Workers : worker[w].at = "exited"
           [] which = "download" -> main = "returned" /\ ffmpeg # "running" /\ tagger # "reading"
           [] which = "session" -> \A s \in Sessions : Stream!Hung(s) \/ (Stream!At(s, "left") /\ prefetch[s] = Stream!Off)
           [] which = "resident" -> \A r \in Requests : Resident!At(r, "ended"))

=============================================================================
