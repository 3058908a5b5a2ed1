SPECIFICATION FairSpec
CONSTANTS
    p1 = p1
    p2 = p2
    PlayerIds = {p1, p2}
    NoPlayer = NoPlayer
    TableSize = 2
    MaxParticipants = 3
    MaxStrength = 1
PROPERTIES
    RoundsUntilWinner
CHECK_DEADLOCK FALSE
