-------------------------- MODULE MCYouTubeCatalog --------------------------
(* Two callers share what is remembered.                                     *)
EXTENDS YouTubeCatalog, MCYouTubePages

CONSTANTS c1, c2

MCCallers == {c1, c2}
=============================================================================
