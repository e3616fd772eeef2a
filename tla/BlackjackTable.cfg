SPECIFICATION FairSpec
CONSTANTS
    u1 = u1  u2 = u2  r1 = r1
    User <- TwoUsers
    Room <- OneRoom
    Nobody = Nobody
    NoRoom = NoRoom
    Capacity = 2
    Bets = {2}
    TurnTime = 1
    Balances = {1, 2}
    MaxHits = 1
    MaxRounds = 2
INVARIANTS CopiesAgree MoneyIsConserved
PROPERTIES TimerIsNeverEarly StakesAreAgreed RoundsEnd LeaversGetOut
CHECK_DEADLOCK FALSE
