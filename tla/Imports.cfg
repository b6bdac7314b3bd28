SPECIFICATION ImportsSpec
CONSTANTS
    c1 = c1
    c2 = c2
    p1 = p1
    p2 = p2
    None = None
    Callers <- MCCallers
    MaxCalls = 2
    MaxExpiries = 1
    ChunkSize = 1
    Whole = 1
    UserLimit = 2
    Asked <- MCAsked
    Tracks <- MCTracks
    Lists <- MCLists
    Users <- MCUsers
    Searches <- MCSearches
    Resources <- MCResources
    Services <- MCServices
    EmbedPages <- MCEmbedPages
    SpotifyLists <- MCSpotifyLists
    SpotifyTracks <- MCSpotifyTracks
    DeezerPages <- MCDeezerPages
    TidalLists <- MCTidalLists
    TidalErrors <- MCTidalErrors
    TidalPages <- MCTidalPages
    BrowsePages <- MCBrowsePages
    Finds <- MCFinds
    Jobs <- MCJobs
    Editors <- MCEditors
    Uris = {"a", "b"}
    Length <- MCLength
    JobSlots = 1
    Workers = 2
    MaxEdits = 1
INVARIANTS RetriedAnew FetchedInOrder  ImportedInOrder
PROPERTY EverythingImported
CHECK_DEADLOCK FALSE
