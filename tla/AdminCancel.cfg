SPECIFICATION Spec
CONSTANTS
    c1 = c1  c2 = c2  j1 = j1  j2 = j2
    Card <- TwoCards
    Job <- TwoJobs
    NoCard = NoCard
    Deltas <- GiveOrTake
    Balances = {0, 1}
INVARIANT CancelledMeansUnchanged
CHECK_DEADLOCK FALSE
