SPECIFICATION Spec
CONSTANTS
    PlayerCounts = {2, 3}
    StartingBanks = {2, 3, 4}
    Hands <- SampleHands
INVARIANTS
    TypeOK
    PotHoldsTheBets
    BetsRiseWithTheSeat
    RankedAsDocumented
    JokerCopiesBestCard
    HandsAreStrengths
    TiesShareRanks
PROPERTIES
    RoundsConserveChips
    SoleWinnerGains
CHECK_DEADLOCK FALSE
