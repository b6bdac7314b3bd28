----------------------------- MODULE MCSubsonic -----------------------------
(* The library of MCUserLibrary, two requests for a stream, the catalogue of  *)
(* MCYouTubePages with two callers.                                           *)
EXTENDS Subsonic, MCUserLibrary, TLC

CONSTANTS c1, c2

Pages == INSTANCE MCYouTubePages

MCCallers == {c1, c2}
MCLatency == {c2}

MCQuestions == Pages!MCAsked
MCLatin == Pages!MCLatin
MCSearchPages == Pages!MCSearchPages
MCPanels == Pages!MCPanels
MCDetails == Pages!MCDetails
MCAlbumPages == Pages!MCAlbumPages
MCArtistPages == Pages!MCArtistPages

\* A preview with lossless alternatives that are remembered as such, and a song
\* that only YouTube has
MCStarts ==
    {[offer |-> [td |-> "preview", qb |-> "full", yt |-> "full"], table |-> ("td" :> 100) @@ ("yt" :> 100),
      on |-> {"td", "qb", "yt"}],
     [offer |-> [td |-> "none", qb |-> "none", yt |-> "full"], table |-> <<>>, on |-> {"qb"}]}

ASSUME SubsonicHolds == SubsonicAssumption

=============================================================================
