SPECIFICATION FairSpec
CONSTANTS
    PlayerCounts = {2}
    StartingBanks = {3}
    Hands <- SampleHands
PROPERTY
    OnePlayerRemains
CHECK_DEADLOCK FALSE
