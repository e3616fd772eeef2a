SPECIFICATION FairSpec
CONSTANTS
    u1 = u1  u2 = u2  u3 = u3  r1 = r1  r2 = r2  a1 = a1  a2 = a2  a3 = a3 
    User <- ThreeUsers
    Room <- TwoRooms
    ActionId <- ThreeIds
    Nobody = Nobody
    NoRoom = NoRoom
    Capacity = 3
    BuyIns = {1, 2}
    SearchTime = 1
    TurnTime = 1
    Balances = {1, 2}
    MaxMoves = 1
INVARIANTS SeatingIsSound MoneyIsConserved StakesMatchRoster RetriesAreAnswered
PROPERTIES TimerIsNeverEarly TablesFinish
CHECK_DEADLOCK FALSE
