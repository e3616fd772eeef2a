SPECIFICATION FairSpec
CONSTANTS
    u1 = u1  u2 = u2  k1 = k1  k2 = k2  s1 = s1  s2 = s2
    User <- TwoUsers
    Key <- TwoKeys
    Session <- MCSession
    Nobody = Nobody
    NoCall = NoCall
    Claims <- ReliefClaim
    Adjustments <- NoAdjustments
    Rounds <- OneRound
    WelcomeGrant = 3
    DailyBonus = 1
    ReliefGrant = 1
    ReliefThreshold = 2
    DailyCooldown = 2
    ReliefCooldown = 1
    MaxTime = 1
INVARIANTS BookExplainsBalance OnePostingPerKey ReplyTellsTheBook
PROPERTIES IsLedgerBook GrantsAreSpaced EveryCallEnds
