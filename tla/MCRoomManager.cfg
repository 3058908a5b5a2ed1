SPECIFICATION Spec
CONSTANTS
    p1 = p1
    p2 = p2
    PlayerIds = {p1, p2}
    s1 = s1
    s2 = s2
    Seeds = {s1, s2}
    NoSeed = NoSeed
    c1 = c1
    c2 = c2
    Codes = {c1, c2}
    NoCode = NoCode
    Capacity = 3
    HandSize = 3
    DeckSize = 9
    Deadline = 1
    MaxRooms = 2
    Watched = 2
SYMMETRY Symmetry
INVARIANTS
    TypeOK
    OneOpenRandomRoom
    CommitmentBinds
    HandsComeFromOneDeck
    OnlyFirstSeatsDisconnect
PROPERTIES
    RoomsOnlyProgress
    RoomDealsFairly
