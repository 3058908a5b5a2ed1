SPECIFICATION FairDealingSpec
CONSTANTS
    p1 = p1
    p2 = p2
    PlayerIds = {p1, p2, NoPlayer}
    NoPlayer = NoPlayer
    Capacity = 4
    HandSize = 1
    DeckSize = 4
    Size = 4
    MaxStrength = 1
    MaxWord = 7
    BlockSize = 4
    LengthSize = 1
    Seeds <- ShortSeeds
    Score <- HalfOfBest
INVARIANTS
    TypeOK
    WinnerHasBestRememberedHand
    FairDraw
    CardsAreApart
    RevealOpensCommitment
    FramesDiffer
PROPERTIES
    DrawsFromUrn
    TableIsPlayed
CHECK_DEADLOCK FALSE
