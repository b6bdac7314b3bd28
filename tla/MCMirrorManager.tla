--------------------------- MODULE MCMirrorManager ---------------------------
(* MirrorManager on one mirror: mirrors share nothing but the list.         *)
EXTENDS MirrorManager
=============================================================================
