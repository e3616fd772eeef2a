SPECIFICATION FairSpec
CONSTANTS
    Tables <- MCTables
    SmallBlind = 1
    BigBlind = 2
INVARIANTS HandGoesOn ChipsAreConserved ShowdownIsFair
PROPERTIES StreetClosesFairly HandEnds KeepsPromise
CHECK_DEADLOCK FALSE
