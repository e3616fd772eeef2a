SPECIFICATION FairSpec
CONSTANTS
    p1 = p1  p2 = p2  v1 = v1  v2 = v2  t1 = t1  t2 = t2
    Player <- TwoPlayers
    Viewer <- TwoViewers
    Task <- TwoTasks
    NoPlayer = NoPlayer
    NoTask = NoTask
    Slots = 1
    MaxCache = 1
    Lifetimes = {1, 2}
    FailureTime = 1
    Pauses = {1, 2}
    LoadTime = 1
    Window = 1
    LoadLimit = 2
    ViewLimit = 2
    MaxViewers = 2
INVARIANT LoadsAreShared
PROPERTIES PausesAreKept EveryViewerIsAnswered
