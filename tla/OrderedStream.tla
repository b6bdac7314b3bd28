---------------------------- MODULE OrderedStream ----------------------------
(***************************************************************************)
(* What a caller of hls.Stitch is promised: the segments of a playlist are *)
(* written one after the other, in playlist order and without a gap, and   *)
(* the call returns nil only when all of them were written or the caller   *)
(* gave up.  tidal/downloader.go is modelled against this promise.         *)
(***************************************************************************)
EXTENDS Naturals, Sequences

CONSTANT Plans    \* the sequences of segments a call may be asked to write

VARIABLES plan, out, outcome, cancelled

vars == <<plan, out, outcome, cancelled>>

Init ==
    /\ plan \in Plans
    /\ out = << >>
    /\ outcome = "running"
    /\ cancelled = FALSE

Write ==
    /\ outcome = "running"
    /\ Len(out) < Len(plan)
    /\ out' = Append(out, plan[Len(out) + 1])
    /\ UNCHANGED <<plan, outcome, cancelled>>

Succeed ==
    /\ outcome = "running"
    /\ out = plan \/ cancelled
    /\ outcome' = "nil"
    /\ UNCHANGED <<plan, out, cancelled>>

Fail ==
    /\ outcome = "running"
    /\ outcome' = "error"
    /\ UNCHANGED <<plan, out, cancelled>>

Cancel ==
    /\ cancelled' = TRUE
    /\ UNCHANGED <<plan, out, outcome>>

Next == Write \/ Succeed \/ Fail \/ Cancel

Spec == Init /\ [][Next]_vars
=============================================================================
