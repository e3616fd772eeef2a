SPECIFICATION Spec
CONSTANTS
    u1 = u1  u2 = u2  k1 = k1  k2 = k2  s1 = s1  s2 = s2
    User <- OneUser
    Key <- TwoKeys
    Session <- MCSession
    Nobody = Nobody
    NoCall = NoCall
    Claims <- NoClaims
    Adjustments <- OneStake
    Rounds <- OneRound
    WelcomeGrant = 3
    DailyBonus = 1
    ReliefGrant = 2
    ReliefThreshold = 2
    DailyCooldown = 2
    ReliefCooldown = 3
    MaxTime = 0
INVARIANT ReplayReportsFinalBalance
