CONSTANTS
    Item = {1, 2, 3, 4}
    Artifact = {5}
    Text = {"question", "hyde", "sub"}
    Question = "question"
    Score <- MCScore
    Edges <- MCEdges
    Replacing <- MCReplacing
    DeclaredStale <- MCDeclaredStale
    None = None
    TopK = 2
    Factor = 1
    Floor = 3
    Unit <- MCUnit
    File = {1, 2, 3}
    Name <- MCName
    Number <- MCNumber
    Says <- MCSays
    Nothing = Nothing
    MaxFiles = 3
    MaxSyncs = 3
    Documents <- MCDocuments
    Statement = {s1}
    MaxChunkChars = 4
    MaxChunks = 2
SPECIFICATION MCSpec
INVARIANTS
    NearestIsExact
    ContextIsLive
    FusionIsFair
    StaleIsMarked
    SupersededIsShown
    NothingLost
CHECK_DEADLOCK FALSE
