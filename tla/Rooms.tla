-------------------------------- MODULE Rooms --------------------------------
(***************************************************************************)
(* The rooms of server/models.h and what the methods of                    *)
(* server/room_manager.cpp and server/table_logic.cpp do to them, as       *)
(* operators on a sequence of rooms, in the order they were created.       *)
(*                                                                         *)
(* A room's id is its place in the sequence.  `age` stands for             *)
(* now - created_at; it stops at Deadline, beyond which the code does not  *)
(* tell ages apart.  A hand is named by the seed of the shuffle and the    *)
(* place of its first card in the shuffled deck.  sha256_hex is a free     *)
(* constructor: two seeds never share a hash.                              *)
(***************************************************************************)
EXTENDS Naturals, Sequences, FiniteSets

CONSTANTS
    PlayerIds,   \* session ids
    Seeds,       \* values of the 32 bytes that prepare_seed draws
    NoSeed,      \* the empty seed_hash, revealed_seed or hand
    Codes,       \* codes random_base32 may draw; nothing keeps them apart
    NoCode,      \* the code of a Random room: the empty string
    Capacity,    \* seats in a room: 7
    HandSize,    \* cards in a hand: 3
    DeckSize,    \* cards in the deck: 21
    Deadline     \* ticks of the clock in 20 seconds

ASSUME SeedsAssumption == NoSeed \notin Seeds
ASSUME CodesAssumption == NoCode \notin Codes
ASSUME CapacityAssumption == Capacity \in Nat /\ Capacity >= 2
ASSUME DeckAssumption ==
    /\ HandSize \in Nat /\ HandSize >= 1
    /\ DeckSize \in Nat
    /\ Capacity * HandSize <= DeckSize
ASSUME DeadlineAssumption == Deadline \in Nat /\ Deadline >= 1

RoomTypes == {"Random", "Private"}

\* No code ever sets a room to Finished.
RoomStates == {"Waiting", "Playing"}

\* PlayerStatus; Eliminated is never set either, but deal_room looks for it.
Statuses == {"Connected", "Disconnected"}

Hash(seed) == [sha256 |-> seed]

\* 64 digits are never the empty string.
ASSUME HashAssumption == \A seed \in Seeds : Hash(seed) # NoSeed

Hashes == {Hash(seed) : seed \in Seeds} \cup {NoSeed}

NoHand == [seed |-> NoSeed, from |-> 0]

Hands == [seed : Seeds \cup {NoSeed}, from : 0..(DeckSize - 1)]

Seats == [id : PlayerIds, status : Statuses, hand : Hands]

RoomRecords ==
    [type     : RoomTypes,
     state    : RoomStates,
     code     : Codes \cup {NoCode},
     players  : Seq(Seats),
     age      : 0..Deadline,
     seed     : Seeds \cup {NoSeed},
     seedHash : Hashes,
     revealed : Seeds \cup {NoSeed}]

-----------------------------------------------------------------------------
(* One room *)

NewSeat(p) == [id |-> p, status |-> "Connected", hand |-> NoHand]

NewRoom(type, code, p) ==
    [type     |-> type,
     state    |-> "Waiting",
     code     |-> code,
     players  |-> <<NewSeat(p)>>,
     age      |-> 0,
     seed     |-> NoSeed,
     seedHash |-> NoSeed,
     revealed |-> NoSeed]

Seated(room, p) == [room EXCEPT !.players = Append(@, NewSeat(p))]

\* Mutants of Accepts: one seat too many, and without the look at the state.
AcceptsOneMore(room) == room.state = "Waiting" /\ Len(room.players) <= Capacity

AcceptsLate(room) == Len(room.players) < Capacity

Accepts(room) == room.state = "Waiting" /\ Len(room.players) < Capacity

\* Mutants of CanStart: again and again, and from three players on.
CanStartAgain(room) == Len(room.players) >= 2

CanStart(room) == room.state = "Waiting" /\ Len(room.players) >= 2

\* Mutant of Started: the hash of the seed is never computed.
StartedUncommitted(room, seed) ==
    [room EXCEPT !.state = "Playing", !.seed = seed, !.revealed = NoSeed]

\* start_room and the prepare_seed it calls.
Started(room, seed) ==
    [room EXCEPT !.state    = "Playing",
                 !.seed     = seed,
                 !.seedHash = Hash(seed),
                 !.revealed = NoSeed]

Expired(room) == room.age >= Deadline

Older(room) == [room EXCEPT !.age = IF @ < Deadline THEN @ + 1 ELSE @]

\* Mutants of DealIndex: neighbours share a card, and the first hand is skipped.
DealIndexOverlapping(s) == (HandSize - 1) * (s - 1)

DealIndexFromOne(s) == HandSize * s

\* The running index of deal_room when it comes to seat s.
DealIndex(s) == HandSize * (s - 1)

\* deal_room: a shuffle by the seed, HandSize cards to each seat in turn, and
\* the seed revealed.
Dealt(room) ==
    [room EXCEPT
        !.players  = [s \in DOMAIN @ |->
                         [@[s] EXCEPT !.hand = [seed |-> room.seed,
                                                from |-> DealIndex(s)]]],
        !.revealed = room.seed]

\* What the callers of deal_cards look at.
AwaitsDeal(room) ==
    room.state = "Playing" /\ room.revealed = NoSeed /\ room.seedHash # NoSeed

-----------------------------------------------------------------------------
(* All rooms *)

\* The scans of the code stop at the first match.
First(S) == CHOOSE k \in S : \A j \in S : k <= j

OpenRandom(rooms) ==
    {k \in DOMAIN rooms : rooms[k].type = "Random" /\ Accepts(rooms[k])}

\* The room that quick_match returns.
QuickMatchRoom(rooms) ==
    IF OpenRandom(rooms) = {} THEN Len(rooms) + 1 ELSE First(OpenRandom(rooms))

\* Mutant of StartsOnJoin: a full room waits for the deadline as well.
StartsWhenOverdue(room) == Len(room.players) >= 2 /\ Expired(room)

\* Whether quick_match starts the room it has just put a player in.
StartsOnJoin(room) ==
    \/ Len(room.players) >= Capacity
    \/ Len(room.players) >= 2 /\ Expired(room)

Joined(room, p, seed) ==
    LET joined == Seated(room, p)
    IN  IF StartsOnJoin(joined) THEN Started(joined, seed) ELSE joined

QuickMatched(rooms, p, seed) ==
    IF OpenRandom(rooms) = {}
    THEN Append(rooms, NewRoom("Random", NoCode, p))
    ELSE [rooms EXCEPT ![QuickMatchRoom(rooms)] = Joined(@, p, seed)]

PrivateCreated(rooms, code, p) == Append(rooms, NewRoom("Private", code, p))

OpenPrivate(rooms, code) ==
    {k \in DOMAIN rooms :
        rooms[k].type = "Private" /\ rooms[k].code = code /\ Accepts(rooms[k])}

PrivateJoined(rooms, code, p) ==
    [rooms EXCEPT ![First(OpenPrivate(rooms, code))] = Seated(@, p)]

IsOverdue(room) == room.type = "Random" /\ CanStart(room) /\ Expired(room)

\* start_expired_rooms; seeds[k] is the seed room k would draw.
ExpiredStarted(rooms, seeds) ==
    [k \in DOMAIN rooms |->
        IF IsOverdue(rooms[k]) THEN Started(rooms[k], seeds[k]) ELSE rooms[k]]

Aged(rooms) == [k \in DOMAIN rooms |-> Older(rooms[k])]

SeatsOf(room, p) == {s \in DOMAIN room.players : room.players[s].id = p}

RoomsOf(rooms, p) == {k \in DOMAIN rooms : SeatsOf(rooms[k], p) # {}}

FindByPlayer(rooms, p) == First(RoomsOf(rooms, p))

\* Mutant of Marked: every seat of the player, in every room.
MarkedEverywhere(rooms, p, status) ==
    [k \in DOMAIN rooms |->
        [rooms[k] EXCEPT !.players =
            [s \in DOMAIN @ |-> IF @[s].id = p THEN [@[s] EXCEPT !.status = status] ELSE @[s]]]]

\* The first seat of a player who has one.
MarkedRoom(room, p, status) ==
    [room EXCEPT !.players[First(SeatsOf(room, p))].status = status]

\* mark_disconnected and reconnect_player: the first seat in the first room
\* that has one of this player, and no other.
Marked(rooms, p, status) ==
    IF RoomsOf(rooms, p) = {}
    THEN rooms
    ELSE [rooms EXCEPT ![FindByPlayer(rooms, p)] = MarkedRoom(@, p, status)]

-----------------------------------------------------------------------------
(* What FairDeal sees of a room, besides seedHash and revealed *)

IdsOf(room) == [s \in DOMAIN room.players |-> room.players[s].id]

HandsOf(room) ==
    IF room.revealed = NoSeed
    THEN <<>>
    ELSE [s \in DOMAIN room.players |-> room.players[s].hand]

=============================================================================
