SPECIFICATION DealingSpec
CONSTANTS
    p1 = p1
    PlayerIds = {p1}
    NoPlayer = NoPlayer
    Capacity = 1
    HandSize = 1
    DeckSize = 1
    Size = 1
    MaxStrength = 0
    MaxWord = 1
    BlockSize = 64
    LengthSize = 8
    Seeds <- RealSeeds
    Score <- HalfOfBest
INVARIANT
    HashIsSha256
CHECK_DEADLOCK FALSE
