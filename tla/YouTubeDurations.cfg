SPECIFICATION Spec
CONSTANTS
    c1 = c1
    c2 = c2
    None = None
    Callers <- MCCallers
    MaxBatch = 3
    Slots = 2
    TopLimit = 1
    MaxCalls = 2
    Videos = {"v1", "v2", "v3"}
    AlbumIds = {"MPRE1", "MPRE2"}
    ArtistIds = {"UC1"}
    Names = {"resonance"}
    Asked <- MCAsked
    Latin <- MCLatin
    SearchPages <- MCSearchPages
    Panels <- MCPanels
    Details <- MCDetails
    AlbumPages <- MCAlbumPages
    ArtistPages <- MCArtistPages
CHECK_DEADLOCK FALSE
PROPERTY RealDurationVerified
