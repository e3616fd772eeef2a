SPECIFICATION FairSpec
CONSTANTS
    u1 = u1  u2 = u2  u3 = u3  r1 = r1  r2 = r2  a1 = a1  a2 = a2  a3 = a3  a4 = a4  h1 = h1
    BuyIn = 4
    SmallBlind = 1
    BigBlind = 2
    User <- ThreeUsers
    Room <- TwoRooms
    ActionId <- FourIds
    Nobody = Nobody
    NoRoom = NoRoom
    Hero <- OneHero
    SearchTime = 1
    TurnTime = 1
    Balances = {3, 4}
    Modes <- BothModes
INVARIANTS HandsAreSound MoneyIsConserved StakesMatchRoster
PROPERTY HandsFinish
CHECK_DEADLOCK FALSE
