SPECIFICATION ClientSpec
CONSTANTS
    p1 = p1
    p2 = p2
    Conns = {p1, p2}
    PlayerIds = {p1, p2}
    s1 = s1
    Seeds = {s1}
    NoSeed = NoSeed
    c1 = c1
    Codes = {c1}
    NoCode = NoCode
    NoPlayer = NoPlayer
    Capacity = 3
    HandSize = 3
    DeckSize = 9
    Deadline = 1
    Messages = {"quick_match", "create_private", "join_private", "start_room",
                "create_tournament", "join_tournament", "advance_tournament"}
    TableSize = 2
    MaxParticipants = 2
    MaxStrength = 1
    MaxRooms = 2
    MaxTournaments = 1
    MaxWire = 1
SYMMETRY Symmetry
CONSTRAINT RoomsOrTournaments
VIEW WithoutHistory
INVARIANTS
    ViewsAreTrue
PROPERTIES
    StaleViewsStay
CHECK_DEADLOCK FALSE
