SPECIFICATION FairSpec
CONSTANTS
    PlayerCounts = {2}
    StartingBanks = {3}
    Hands <- SampleHands
PROPERTY
    FoldedBankIsCarriedOver
CHECK_DEADLOCK FALSE
