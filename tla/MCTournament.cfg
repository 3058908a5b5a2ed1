SPECIFICATION FairSpec
CONSTANTS
    p1 = p1
    p2 = p2
    p3 = p3
    PlayerIds = {p1, p2, p3, NoPlayer}
    NoPlayer = NoPlayer
    TableSize = 3
    MaxParticipants = 5
    MaxStrength = 1
INVARIANTS
    TypeOK
    WinnerIsLastOneStanding
    OneSurvivorPerTable
    SurvivorsHeldBestRememberedHand
PROPERTIES
    KnocksOut
    TablesPartition
    RoundsShrinkTheField
    DistinctPlayersFinish
CHECK_DEADLOCK FALSE
