SPECIFICATION Spec
CONSTANTS
    p1 = p1
    p2 = p2
    Conns = {p1, p2}
    PlayerIds = {p1, p2, NoPlayer}
    s1 = s1
    Seeds = {s1}
    NoSeed = NoSeed
    c1 = c1
    Codes = {c1}
    NoCode = NoCode
    NoPlayer = NoPlayer
    Capacity = 3
    HandSize = 3
    DeckSize = 9
    Deadline = 1
    Messages = {"reconnect", "quick_match", "create_private", "join_private", "start_room",
                "create_tournament", "join_tournament", "start_tournament", "advance_tournament"}
    TableSize = 2
    MaxParticipants = 3
    MaxStrength = 1
    MaxRooms = 2
    MaxSeats = 4
    MaxTournaments = 2
SYMMETRY ConnectionSymmetry
CONSTRAINT Followed
VIEW WithoutHistory
INVARIANTS
    TypeOK
    PlayingIsDealt
PROPERTIES
    CommitmentComesFirst
    StatusFollowsConnection
    TournamentsFollowTheirRules
CHECK_DEADLOCK FALSE
