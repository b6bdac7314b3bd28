---------------------------- MODULE TidalDownload ----------------------------
(***************************************************************************)
(* provider/tidal/downloader.go, DownloadTrack: a track is stitched from   *)
(* its segments into an ffmpeg process, which another goroutine reads,     *)
(* tags and writes to the client:                                          *)
(*                                                                         *)
(*   hls.Stitch -> stdin pipe -> ffmpeg -> stdout pipe -> tagger -> client *)
(*                                                                         *)
(* The pipes are bounded, so every stage may have to wait for the next     *)
(* one; ffmpeg is killed when the request's context is cancelled.          *)
(* Stitch is represented by its promise, OrderedStream, which HlsStitcher  *)
(* is shown to keep.  A segment becomes one chunk of audio; ffmpeg and     *)
(* the pipes keep chunks in order.                                         *)
(***************************************************************************)
EXTENDS Naturals, Sequences

CONSTANTS
    Plans,     \* fMP4 playlists: the init segment, then the media segments
    PipeCap    \* chunks a pipe holds

DownloadAssumption == PipeCap \in Nat \ {0} /\ Plans \subseteq Seq(Nat)

VARIABLES
    plan, out, outcome, cancelled,  \* of hls.Stitch, and the request's context
    piped,      \* "no", or the writer onInit returned is an ffmpeg session's stdin
    main,       \* the goroutine of the call
    stdin, stdinClosed,
    ffmpeg, chunk,     \* the process, and the chunks it is working on
    stdout, stdoutClosed,
    tagger, tagged,    \* the goroutine, and the chunk it has read
    delivered   \* chunks the client got

stitch == <<plan, out, outcome, cancelled>>
pipes == <<stdin, stdinClosed, stdout, stdoutClosed>>
vars == <<stitch, piped, main, pipes, ffmpeg, chunk, tagger, tagged, delivered>>

Stitch == INSTANCE OrderedStream

Init ==
    /\ Stitch!Init
    /\ piped \in BOOLEAN
    /\ main = "stitch"
    /\ stdin = << >> /\ stdinClosed = FALSE
    /\ ffmpeg = (IF piped THEN "running" ELSE "none") /\ chunk = << >>
    /\ stdout = << >> /\ stdoutClosed = FALSE
    /\ tagger = (IF piped THEN "reading" ELSE "none") /\ tagged = << >>
    /\ delivered = << >>

-----------------------------------------------------------------------------
(* The goroutine of the call.                                              *)

(* A write into the pipe waits for room, one to the client for the client. *)
StitchWrites ==
    /\ main = "stitch"
    /\ Stitch!Write
    /\ IF piped
       THEN /\ ffmpeg = "running" /\ Len(stdin) < PipeCap
            /\ stdin' = Append(stdin, out'[Len(out')])
            /\ UNCHANGED delivered
       ELSE /\ ~cancelled
            /\ delivered' = Append(delivered, out'[Len(out')])
            /\ UNCHANGED stdin
    /\ UNCHANGED <<piped, main, stdinClosed, stdout, stdoutClosed, ffmpeg, chunk, tagger, tagged>>

StitchEnds ==
    /\ main = "stitch"
    /\ Stitch!Succeed \/ Stitch!Fail
    /\ main' = IF piped THEN "close" ELSE "returned"
    /\ UNCHANGED <<piped, pipes, ffmpeg, chunk, tagger, tagged, delivered>>

(* The deferred function: Close, ... *)
CloseStdin ==
    /\ main = "close"
    /\ stdinClosed' = TRUE
    /\ main' = "wait"
    /\ UNCHANGED <<stitch, piped, stdin, stdout, stdoutClosed, ffmpeg, chunk, tagger, tagged, delivered>>

\* Mutant: the download returns without waiting for the tagger.
WaitFFmpegOnly ==
    /\ main = "wait" /\ ffmpeg = "exited"
    /\ stdoutClosed' = TRUE
    /\ main' = "returned"
    /\ UNCHANGED <<stitch, piped, stdin, stdinClosed, stdout, ffmpeg, chunk, tagger, tagged, delivered>>

(* ... Wait, which closes our end of the stdout pipe once ffmpeg is gone   *)
(* (os/exec), ...                                                          *)
WaitFFmpeg ==
    /\ main = "wait" /\ ffmpeg = "exited"
    /\ stdoutClosed' = TRUE
    /\ main' = "join"
    /\ UNCHANGED <<stitch, piped, stdin, stdinClosed, stdout, ffmpeg, chunk, tagger, tagged, delivered>>

(* ... and the tagger's channel. *)
JoinTagger ==
    /\ main = "join" /\ tagger = "ended"
    /\ main' = "returned"
    /\ UNCHANGED <<stitch, piped, pipes, ffmpeg, chunk, tagger, tagged, delivered>>

-----------------------------------------------------------------------------
(* External: the ffmpeg process, fed and read through its pipes.           *)

FFmpegReads ==
    /\ ffmpeg = "running" /\ stdin # << >> /\ Len(chunk) < 2
    /\ chunk' = Append(chunk, Head(stdin))
    /\ stdin' = Tail(stdin)
    /\ UNCHANGED <<stitch, piped, main, stdinClosed, stdout, stdoutClosed, ffmpeg, tagger, tagged, delivered>>

FFmpegWrites ==
    /\ ffmpeg = "running" /\ chunk # << >> /\ Len(stdout) < PipeCap
    /\ stdout' = Append(stdout, Head(chunk))
    /\ chunk' = Tail(chunk)
    /\ UNCHANGED <<stitch, piped, main, stdin, stdinClosed, stdoutClosed, ffmpeg, tagger, tagged, delivered>>

(* It ends after its input, or is killed with the context.                 *)
FFmpegExits ==
    /\ ffmpeg = "running"
    /\ cancelled \/ (stdin = << >> /\ stdinClosed /\ chunk = << >>)
    /\ ffmpeg' = "exited"
    /\ chunk' = << >>
    /\ UNCHANGED <<stitch, piped, main, pipes, tagger, tagged, delivered>>

-----------------------------------------------------------------------------
(* The goroutine that tags, or for AAC only copies, ffmpeg's output.       *)

\* Mutant: what was not written yet is overwritten by the next read.
TaggerReadsOver ==
    /\ tagger = "reading"
    /\ ~stdoutClosed /\ stdout # << >>
    /\ tagged' = <<Head(stdout)>>
    /\ stdout' = Tail(stdout)
    /\ UNCHANGED <<stitch, piped, main, stdin, stdinClosed, stdoutClosed, ffmpeg, chunk, tagger, delivered>>

TaggerReads ==
    /\ tagger = "reading" /\ tagged = << >>
    /\ ~stdoutClosed /\ stdout # << >>
    /\ tagged' = <<Head(stdout)>>
    /\ stdout' = Tail(stdout)
    /\ UNCHANGED <<stitch, piped, main, stdin, stdinClosed, stdoutClosed, ffmpeg, chunk, tagger, delivered>>

TaggerWrites ==
    /\ tagger = "reading" /\ tagged # << >> /\ ~cancelled
    /\ delivered' = delivered \o tagged
    /\ tagged' = << >>
    /\ UNCHANGED <<stitch, piped, main, pipes, ffmpeg, chunk, tagger>>

(* It ends at the end of ffmpeg's output, when the pipe is closed under    *)
(* it, or when the client is gone.                                         *)
TaggerEnds ==
    /\ tagger = "reading"
    /\ \/ tagged = << >> /\ (stdoutClosed \/ (stdout = << >> /\ ffmpeg = "exited"))
       \/ tagged # << >> /\ cancelled
    /\ tagger' = "ended"
    /\ UNCHANGED <<stitch, piped, main, pipes, ffmpeg, chunk, tagged, delivered>>

(* The client hangs up or is too slow: the server cancels the context.     *)
ClientLeaves ==
    /\ ~cancelled /\ main # "returned"
    /\ Stitch!Cancel
    /\ UNCHANGED <<piped, main, pipes, ffmpeg, chunk, tagger, tagged, delivered>>

Main == StitchWrites \/ StitchEnds \/ CloseStdin \/ WaitFFmpeg \/ JoinTagger
FFmpeg == FFmpegReads \/ FFmpegWrites \/ FFmpegExits
Tagger == TaggerReads \/ TaggerWrites \/ TaggerEnds

Next == Main \/ FFmpeg \/ Tagger \/ ClientLeaves

Spec == Init /\ [][Next]_vars

(* Goroutines and the process go on when they can.  Stitch returns (see    *)
(* HlsStitcher), and the client takes what is sent to it or is dropped.    *)
FairSpec == Spec /\ WF_vars(Main) /\ WF_vars(FFmpeg) /\ WF_vars(Tagger)

-----------------------------------------------------------------------------

TypeOK ==
    /\ plan \in Plans /\ outcome \in {"running", "nil", "error"}
    /\ piped \in BOOLEAN /\ cancelled \in BOOLEAN
    /\ main \in {"stitch", "close", "wait", "join", "returned"}
    /\ (main = "stitch") = (outcome = "running")
    /\ ffmpeg \in {"none", "running", "exited"} /\ tagger \in {"none", "reading", "ended"}
    /\ Len(stdin) <= PipeCap /\ Len(stdout) <= PipeCap /\ Len(chunk) <= 2 /\ Len(tagged) <= 1
    /\ stdinClosed \in BOOLEAN /\ stdoutClosed \in BOOLEAN

(* What the client has received is a prefix of the track, and what is      *)
(* between Stitch and the client is exactly what is still to come.         *)
DeliveredInOrder ==
    /\ delivered = SubSeq(plan, 1, Len(delivered))
    /\ ~piped => delivered = out
    /\ piped /\ ~cancelled => delivered \o tagged \o stdout \o chunk \o stdin = out

(* After the download has returned nobody writes to the response, which    *)
(* the server then takes back.                                             *)
SilentAfterReturn ==
    [][main = "returned" => delivered' = delivered]_vars

=============================================================================
