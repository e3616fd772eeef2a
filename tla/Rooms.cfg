SPECIFICATION Spec
CONSTANTS
    r1 = r1  r2 = r2  s1 = s1  s2 = s2  a1 = a1  a2 = a2  a3 = a3  k1 = k1
    Room <- TwoRooms
    SlotRooms <- SlotRoom
    Socket <- OneSocket
    Session <- TwoSessions
    ActionId <- ThreeIds
    NoRoom = NoRoom
    Bets = {1}
    PlayerCards = {10, 11}
    DealerCards <- EveryCard
    Strips <- TwoReels
    VisibleRows = 2
    Paylines <- OneLine
    Paytable <- OnlySevens
    WildSymbol = "wild"
    Opening = 2
    MaxHits = 1
    MaxQueue = 2
INVARIANTS RecordsAreTheHistory RoundsArePaidFor NoEventIsMissed
PROPERTY IsRoomBook
SYMMETRY RoomSymmetry
