SPECIFICATION SubsonicSpec
CONSTANTS
    r1 = r1
    r2 = r2
    r3 = r3
    c1 = c1
    c2 = c2
    ann = ann
    bob = bob
    NoOne = NoOne
    Providers = {"td", "dz", "yt"}
    PageSize = 2
    Users <- MCUsers
    Requests <- MCRequests
    Plans <- MCPlans
    Callers <- MCCallers
    Streamers = {"td", "qb", "yt"}
    Home = "td"
    Starts <- MCStarts
    Latency <- MCLatency
    Progressive = {"qb"}
    Flipped = {"yt"}
    MaxStreams = 2
    MaxSwitches = 1
    MaxFaults = 1
    MaxBatch = 3
    Slots = 2
    TopLimit = 1
    MaxCalls = 2
    Questions <- MCQuestions
    Videos = {"v1", "v2", "v3"}
    AlbumIds = {"MPRE1", "MPRE2"}
    ArtistIds = {"UC1"}
    Names = {"resonance"}
    Latin <- MCLatin
    SearchPages <- MCSearchPages
    Panels <- MCPanels
    Details <- MCDetails
    AlbumPages <- MCAlbumPages
    ArtistPages <- MCArtistPages
INVARIANTS MergedBest  ScrobbledIsKept   MatchTrusted BatchInOrder LossyLast
PROPERTIES SwitchRespected CallsEnd
CHECK_DEADLOCK FALSE
