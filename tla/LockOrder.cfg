SPECIFICATION Spec
CONSTANTS
    h1 = h1  t1 = t1  r1 = r1  a1 = a1  a2 = a2  s1 = s1  s2 = s2  s3 = s3
    User <- ThreeUsers
    Newcomer <- OneNewcomer
    HoldemRoom <- TheHoldemRoom
    TableRoom <- TheTable
    SoloRoom <- TheSoloRoom
    ActionId <- TwoIds
    Session <- ThreeSessions
    Nobody = Nobody
    NoId = NoId
INVARIANTS OnlySharedIdsCollide EveryUserIsWelcomedOnce
SYMMETRY LockSymmetry
