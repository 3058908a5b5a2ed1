SPECIFICATION Spec
CONSTANTS
    p1 = p1
    p2 = p2
    Conns = {p1, p2}
    PlayerIds = {p1, p2}
    s1 = s1
    Seeds = {s1}
    NoSeed = NoSeed
    c1 = c1
    Codes = {c1}
    NoCode = NoCode
    NoPlayer = NoPlayer
    Capacity = 3
    HandSize = 3
    DeckSize = 9
    Deadline = 1
    Messages = {"quick_match"}
    TableSize = 2
    MaxParticipants = 3
    MaxStrength = 1
    MaxRooms = 2
    MaxSeats = 4
    MaxTournaments = 1
INVARIANTS
    PlayersSawTheCommitment
CHECK_DEADLOCK FALSE
