-------------------------- MODULE RoomManagerProofs --------------------------
(***************************************************************************)
(* Proofs about RoomManager, for any players, seeds and codes, any number  *)
(* of rooms, and any capacity whose hands fit the deck.                    *)
(*                                                                         *)
(* Every method either appends a room or changes single rooms in one of a  *)
(* few ways; RoomStep lists them, and the invariants are proved room by    *)
(* room.                                                                   *)
(***************************************************************************)
EXTENDS RoomManager, RoomsProofs

-----------------------------------------------------------------------------
(* The invariant of the manager *)

\* OneOpenRandomRoom alone is not inductive: a full room that still waits would
\* let quick_match open a second one.
WaitingRandomHasSpace ==
    \A k \in DOMAIN rooms :
        rooms[k].type = "Random" /\ rooms[k].state = "Waiting"
            => Len(rooms[k].players) < Capacity

IInv ==
    /\ rooms \in Seq(RoomRecords)
    /\ \A k \in DOMAIN rooms : RoomInvariant(rooms[k])
    /\ WaitingRandomHasSpace
    /\ OneOpenRandomRoom

\* A step opens a room or touches rooms one by one.
Opens(type, code, p) ==
    /\ rooms' = Append(rooms, NewRoom(type, code, p))
    /\ type = "Random" => OpenRandom(rooms) = {}

Touches ==
    /\ rooms' = [k \in DOMAIN rooms |-> rooms'[k]]
    /\ \A k \in DOMAIN rooms : RoomStep(rooms[k], rooms'[k])

\* The methods that change one room at a time.
LEMMA OneRoomStep ==
    ASSUME IInv, NEW k \in DOMAIN rooms, NEW new, RoomStep(rooms[k], new),
           rooms' = [rooms EXCEPT ![k] = new]
    PROVE  Touches
<1>1. \A j \in DOMAIN rooms : RoomStep(rooms[j], rooms[j])
  BY DEF RoomStep
<1>2. \A j \in DOMAIN rooms : RoomStep(rooms[j], rooms'[j])
  BY <1>1
<1>3. rooms' = [j \in DOMAIN rooms |-> rooms'[j]]
  OBVIOUS
<1>4. QED
  BY <1>2, <1>3 DEF Touches

LEMMA QuickMatchStep ==
    ASSUME IInv, NEW p \in PlayerIds, QuickMatch(p)
    PROVE  Opens("Random", NoCode, p) \/ Touches
<1>1. PICK seed \in Seeds : rooms' = QuickMatched(rooms, p, seed)
  BY DEF QuickMatch
<1>2. CASE OpenRandom(rooms) = {}
  BY <1>1, <1>2 DEF QuickMatched, Opens
<1>3. CASE OpenRandom(rooms) # {}
  <2> DEFINE k == First(OpenRandom(rooms))
             joined == Seated(rooms[k], p)
  <2>1. DOMAIN rooms \in SUBSET Nat
    BY DEF IInv
  <2>2. k \in OpenRandom(rooms)
    BY <1>3, <2>1, FirstIsLeast DEF OpenRandom
  <2>3. k \in DOMAIN rooms /\ Accepts(rooms[k]) /\ RoomInvariant(rooms[k])
    BY <2>2 DEF OpenRandom, IInv
  <2>4. rooms' = [rooms EXCEPT ![k] = Joined(rooms[k], p, seed)]
    BY <1>1, <1>3 DEF QuickMatched, QuickMatchRoom
  <2>5. RoomInvariant(joined)
    BY <2>3, SeatedIsFine
  <2>6. Len(joined.players) \in Nat /\ Capacity \in Nat
    BY <2>5, CapacityAssumption DEF RoomInvariant, RoomRecords
  <2>7. RoomStep(rooms[k], Joined(rooms[k], p, seed))
    <3>1. CASE StartsOnJoin(joined)
      BY <2>3, <3>1 DEF Joined, RoomStep
    <3>2. CASE ~StartsOnJoin(joined)
      <4>1. Len(joined.players) < Capacity
        BY <2>6, <3>2 DEF StartsOnJoin
      <4>2. QED
        BY <2>3, <3>2, <4>1 DEF Joined, RoomStep
    <3>3. QED
      BY <3>1, <3>2
  <2> HIDE DEF k
  <2>8. QED
    BY <2>3, <2>4, <2>7, OneRoomStep
<1>4. QED
  BY <1>2, <1>3

LEMMA MarkStep ==
    ASSUME IInv, NEW p \in PlayerIds, NEW status \in Statuses,
           rooms' = Marked(rooms, p, status)
    PROVE  Touches
<1>1. CASE RoomsOf(rooms, p) = {}
  <2>1. rooms' = rooms
    BY <1>1 DEF Marked
  <2>2. rooms' = [j \in DOMAIN rooms |-> rooms'[j]]
    BY <2>1 DEF IInv
  <2>3. QED
    BY <2>1, <2>2 DEF Touches, RoomStep
<1>2. CASE RoomsOf(rooms, p) # {}
  <2> DEFINE k == FindByPlayer(rooms, p)
             new == MarkedRoom(rooms[k], p, status)
  <2>1. DOMAIN rooms \in SUBSET Nat
    BY DEF IInv
  <2>2. k \in RoomsOf(rooms, p)
    BY <1>2, <2>1, FirstIsLeast DEF RoomsOf, FindByPlayer
  <2>3. k \in DOMAIN rooms /\ SeatsOf(rooms[k], p) # {}
    BY <2>2 DEF RoomsOf
  <2>4. RoomStep(rooms[k], new)
    BY <2>3 DEF RoomStep
  <2>5. rooms' = [rooms EXCEPT ![k] = new]
    BY <1>2 DEF Marked
  <2> HIDE DEF k, new
  <2>6. QED
    BY <2>3, <2>4, <2>5, OneRoomStep
<1>3. QED
  BY <1>1, <1>2

LEMMA NextStep ==
    ASSUME IInv, Next
    PROVE  \/ \E type \in RoomTypes, code \in Codes \cup {NoCode}, p \in PlayerIds :
                 Opens(type, code, p)
           \/ Touches
<1>1. ASSUME NEW p \in PlayerIds, QuickMatch(p)
      PROVE  \E type \in RoomTypes, code \in Codes \cup {NoCode} :
                Opens(type, code, p) \/ Touches
  BY <1>1, QuickMatchStep DEF RoomTypes
<1>2. ASSUME NEW p \in PlayerIds, CreatePrivate(p)
      PROVE  \E type \in RoomTypes, code \in Codes \cup {NoCode} : Opens(type, code, p)
  <2>1. PICK code \in Codes : rooms' = PrivateCreated(rooms, code, p)
    BY <1>2 DEF CreatePrivate
  <2>2. Opens("Private", code, p)
    BY <2>1 DEF PrivateCreated, Opens
  <2>3. QED
    BY <2>2 DEF RoomTypes
<1>3. ASSUME NEW p \in PlayerIds, NEW code \in Codes, JoinPrivate(code, p)
      PROVE  Touches
  <2> DEFINE k == First(OpenPrivate(rooms, code))
             new == Seated(rooms[k], p)
  <2>1. k \in OpenPrivate(rooms, code)
    <3>1. OpenPrivate(rooms, code) \in SUBSET Nat
      BY DEF IInv, OpenPrivate
    <3>2. QED
      BY <1>3, <3>1, FirstIsLeast DEF JoinPrivate
  <2>2. k \in DOMAIN rooms /\ Accepts(rooms[k]) /\ rooms[k].type = "Private"
    BY <2>1 DEF OpenPrivate
  <2>3. RoomStep(rooms[k], new)
    BY <2>2 DEF RoomStep
  <2>4. rooms' = [rooms EXCEPT ![k] = new]
    BY <1>3 DEF JoinPrivate, PrivateJoined
  <2> HIDE DEF k, new
  <2>5. QED
    BY <2>2, <2>3, <2>4, OneRoomStep
<1>4. ASSUME NEW p \in PlayerIds, MarkDisconnected(p) \/ ReconnectPlayer(p)
      PROVE  Touches
  BY <1>4, MarkStep DEF MarkDisconnected, ReconnectPlayer, Statuses
<1>5. ASSUME NEW k \in DOMAIN rooms, StartRoom(k)
      PROVE  Touches
  <2>1. PICK seed \in Seeds : rooms' = [rooms EXCEPT ![k] = Started(rooms[k], seed)]
    BY <1>5 DEF StartRoom
  <2>2. RoomStep(rooms[k], Started(rooms[k], seed))
    BY <1>5 DEF StartRoom, RoomStep
  <2>3. QED
    BY <2>1, <2>2, OneRoomStep
<1>6. ASSUME NEW k \in DOMAIN rooms, Deal(k)
      PROVE  Touches
  <2>1. RoomStep(rooms[k], Dealt(rooms[k])) /\ rooms' = [rooms EXCEPT ![k] = Dealt(rooms[k])]
    BY <1>6 DEF Deal, RoomStep
  <2>2. QED
    BY <2>1, OneRoomStep
<1>7. ASSUME StartExpiredRooms
      PROVE  Touches
  <2>1. PICK seeds \in [DOMAIN rooms -> Seeds] : rooms' = ExpiredStarted(rooms, seeds)
    BY <1>7 DEF StartExpiredRooms
  <2>2. ASSUME NEW k \in DOMAIN rooms
        PROVE  RoomStep(rooms[k], rooms'[k])
    <3>1. seeds[k] \in Seeds
      BY <2>1
    <3>2. CASE IsOverdue(rooms[k])
      BY <2>1, <3>1, <3>2 DEF ExpiredStarted, IsOverdue, RoomStep
    <3>3. CASE ~IsOverdue(rooms[k])
      BY <2>1, <3>3 DEF ExpiredStarted, RoomStep
    <3>4. QED
      BY <3>2, <3>3
  <2>3. rooms' = [k \in DOMAIN rooms |-> rooms'[k]]
    BY <2>1 DEF ExpiredStarted
  <2>4. QED
    BY <2>2, <2>3 DEF Touches
<1>8. ASSUME Tick
      PROVE  Touches
  BY <1>8 DEF Tick, Aged, Touches, RoomStep
<1>9. QED
  BY <1>1, <1>2, <1>3, <1>4, <1>5, <1>6, <1>7, <1>8 DEF Next

LEMMA OpenRoomKeepsInvariant ==
    ASSUME IInv,
           NEW type \in RoomTypes, NEW code \in Codes \cup {NoCode}, NEW p \in PlayerIds,
           Opens(type, code, p)
    PROVE  IInv'
<1> DEFINE room == NewRoom(type, code, p)
           n == Len(rooms)
<1>1. /\ RoomInvariant(room)
      /\ room.type = type
      /\ Len(room.players) = 1
      /\ room \in RoomRecords
  BY NewRoomIsFine DEF NewRoom, RoomInvariant
<1>2. rooms' = Append(rooms, room)
  BY DEF Opens
<1> HIDE DEF room
<1>3. /\ rooms' \in Seq(RoomRecords) /\ n \in Nat
      /\ DOMAIN rooms = 1..n /\ DOMAIN rooms' = 1..(n + 1)
      /\ rooms'[n + 1] = room
      /\ \A k \in 1..n : rooms'[k] = rooms[k]
  BY <1>1, <1>2 DEF IInv
<1>4. \A k \in DOMAIN rooms' : RoomInvariant(rooms'[k])
  BY <1>1, <1>3 DEF IInv
<1>5. WaitingRandomHasSpace'
  <2>1. \A k \in 1..(n + 1) : k = n + 1 \/ k \in 1..n
    BY <1>3
  <2>2. Len(rooms'[n + 1].players) < Capacity
    <3>1. 1 < Capacity
      BY CapacityAssumption
    <3>2. Len(rooms'[n + 1].players) = 1
      BY <1>1, <1>3, Zenon
    <3>3. QED
      BY <3>1, <3>2
  <2>3. \A k \in 1..n : rooms'[k].type = "Random" /\ rooms'[k].state = "Waiting"
                           => Len(rooms'[k].players) < Capacity
    BY <1>3 DEF IInv, WaitingRandomHasSpace
  <2>4. QED
    BY <1>3, <2>1, <2>2, <2>3 DEF WaitingRandomHasSpace
<1>6. type = "Random" => \A k \in 1..n : ~(rooms[k].type = "Random" /\ rooms[k].state = "Waiting")
  BY <1>3 DEF Opens, OpenRandom, Accepts, IInv, WaitingRandomHasSpace
<1>7. OneOpenRandomRoom'
  <2>1. \A k \in 1..(n + 1) : k = n + 1 \/ k \in 1..n
    BY <1>3
  <2>2. QED
    BY <1>1, <1>3, <1>6, <2>1 DEF IInv, OneOpenRandomRoom
<1>8. QED
  BY <1>3, <1>4, <1>5, <1>7 DEF IInv

LEMMA TouchKeepsInvariant ==
    ASSUME IInv, Touches
    PROVE  IInv'
<1> DEFINE n == Len(rooms)
<1>1. /\ n \in Nat /\ DOMAIN rooms = 1..n
      /\ DOMAIN rooms' = 1..n
      /\ \A k \in 1..n : RoomInvariant(rooms[k]) /\ RoomStep(rooms[k], rooms'[k])
  BY DEF IInv, Touches
<1>2. \A k \in 1..n :
         /\ RoomInvariant(rooms'[k])
         /\ rooms'[k].type = rooms[k].type
         /\ rooms'[k].state = "Waiting" => rooms[k].state = "Waiting"
         /\ /\ rooms'[k].type = "Random" /\ rooms'[k].state = "Waiting"
            /\ Len(rooms[k].players) < Capacity
            => Len(rooms'[k].players) < Capacity
  BY <1>1, RoomStepIsFine
<1>3. rooms' \in Seq(RoomRecords)
  <2>1. rooms' \in [1..n -> RoomRecords]
    BY <1>1, <1>2 DEF RoomInvariant, Touches
  <2>2. QED
    BY <1>1, <2>1, FunctionIsSeq
<1>4. WaitingRandomHasSpace' /\ OneOpenRandomRoom'
  BY <1>1, <1>2 DEF IInv, WaitingRandomHasSpace, OneOpenRandomRoom
<1>5. QED
  BY <1>1, <1>2, <1>3, <1>4 DEF IInv

THEOREM Invariance == Spec => []IInv
<1>1. Init => IInv
  BY DEF Init, IInv, WaitingRandomHasSpace, OneOpenRandomRoom
<1>2. ASSUME IInv, [Next]_rooms
      PROVE  IInv'
  <2>1. CASE Next
    BY <1>2, <2>1, NextStep, OpenRoomKeepsInvariant, TouchKeepsInvariant
  <2>2. CASE UNCHANGED rooms
    BY <1>2, <2>2 DEF IInv, WaitingRandomHasSpace, OneOpenRandomRoom
  <2>3. QED
    BY <1>2, <2>1, <2>2
<1>3. QED
  BY <1>1, <1>2, PTL DEF Spec

-----------------------------------------------------------------------------
(* What follows from it *)

\* Rooms keep their shape and never hold more seats than a deck can serve.
THEOREM TypeCorrectness == Spec => []TypeOK
<1>1. IInv => TypeOK
  BY DEF IInv, TypeOK, RoomInvariant
<1>2. QED
  BY <1>1, Invariance, PTL

\* Matchmaking keeps at most one Random room waiting.
THEOREM Matchmaking == Spec => []OneOpenRandomRoom
<1>1. IInv => OneOpenRandomRoom
  BY DEF IInv
<1>2. QED
  BY <1>1, Invariance, PTL

\* The hash of a room is that of the seed it deals with, and what is revealed
\* is that seed.
THEOREM Commitments == Spec => []CommitmentBinds
<1>1. IInv => CommitmentBinds
  <2>1. SUFFICES ASSUME IInv, NEW k \in DOMAIN rooms
                 PROVE  LET room == rooms[k]
                        IN  /\ room.state = "Waiting" => room.seedHash = NoSeed
                            /\ room.state = "Playing" =>
                                  room.seed # NoSeed /\ room.seedHash = Hash(room.seed)
                            /\ room.revealed \in {NoSeed, room.seed}
    BY DEF CommitmentBinds
  <2>2. rooms[k].state \in {"Waiting", "Playing"}
    BY <2>1 DEF IInv, RoomInvariant, RoomRecords, RoomStates
  <2>3. QED
    BY <2>1, <2>2, SeedsAssumption DEF IInv, RoomInvariant, SeedInvariant
<1>2. QED
  BY <1>1, Invariance, PTL

\* Hands never overlap nor leave the deck, for any capacity whose hands fit it.
THEOREM DisjointHands == Spec => []HandsComeFromOneDeck
<1>1. ASSUME IInv, NEW k \in DOMAIN rooms, rooms[k].revealed # NoSeed,
             NEW s \in DOMAIN rooms[k].players, NEW t \in DOMAIN rooms[k].players
      PROVE  LET room == rooms[k]
             IN  /\ room.players[s].hand.seed = room.revealed
                 /\ CardsOf(room.players[s]) \subseteq 0..(DeckSize - 1)
                 /\ s # t => CardsOf(room.players[s]) \cap CardsOf(room.players[t]) = {}
  <2> DEFINE room == rooms[k]
  <2>1. /\ room.players[s].hand = [seed |-> room.revealed, from |-> DealIndex(s)]
        /\ room.players[t].hand = [seed |-> room.revealed, from |-> DealIndex(t)]
    BY <1>1 DEF IInv, RoomInvariant, SeatsInvariant
  <2>2. s \in 1..Capacity /\ t \in 1..Capacity
    BY <1>1, CapacityAssumption DEF IInv, RoomInvariant, RoomRecords
  <2>3. /\ DealIndex(s) \in Nat /\ DealIndex(s) + HandSize <= DeckSize
        /\ DealIndex(t) \in Nat
        /\ t < s => DealIndex(t) + HandSize <= DealIndex(s)
        /\ s < t => DealIndex(s) + HandSize <= DealIndex(t)
    BY <2>2, DealIndexFits
  <2>4. /\ room.players[s].hand.seed = room.revealed
        /\ room.players[s].hand.from = DealIndex(s)
        /\ room.players[t].hand.from = DealIndex(t)
    BY <2>1
  <2>5. s # t => s < t \/ t < s
    BY <2>2, CapacityAssumption
  <2>6. CardsOf(room.players[s]) \subseteq 0..(DeckSize - 1)
    BY <2>3, <2>4, DeckAssumption DEF CardsOf
  <2>7. s # t => CardsOf(room.players[s]) \cap CardsOf(room.players[t]) = {}
    BY <2>3, <2>4, <2>5, DeckAssumption DEF CardsOf
  <2>8. QED
    BY <2>4, <2>6, <2>7
<1>2. IInv => HandsComeFromOneDeck
  <2>1. ASSUME IInv, NEW k \in DOMAIN rooms, rooms[k].revealed = NoSeed
        PROVE  \A s \in DOMAIN rooms[k].players : rooms[k].players[s].hand = NoHand
    BY <2>1 DEF IInv, RoomInvariant, SeatsInvariant
  <2>2. QED
    BY <1>1, <2>1 DEF HandsComeFromOneDeck
<1>3. QED
  BY <1>2, Invariance, PTL

\* mark_disconnected reaches one seat of a player in a room, always the first.
THEOREM MarksFirstSeats == Spec => []OnlyFirstSeatsDisconnect
<1>1. IInv => OnlyFirstSeatsDisconnect
  BY DEF IInv, RoomInvariant, SeatsInvariant, OnlyFirstSeatsDisconnect
<1>2. QED
  BY <1>1, Invariance, PTL

\* Rooms stay, seats stay, and a game that has begun keeps its players, its
\* commitment and its hands.
THEOREM Progress == Spec => RoomsOnlyProgress
<1> DEFINE Kept(k) ==
              /\ k \in DOMAIN rooms'
              /\ \A s \in DOMAIN rooms[k].players :
                    rooms'[k].players[s].id = rooms[k].players[s].id
              /\ rooms[k].state = "Playing" =>
                    /\ rooms'[k].state = "Playing"
                    /\ IdsOf(rooms'[k]) = IdsOf(rooms[k])
                    /\ rooms'[k].seedHash = rooms[k].seedHash
              /\ rooms[k].revealed # NoSeed =>
                    \A s \in DOMAIN rooms[k].players :
                       rooms'[k].players[s].hand = rooms[k].players[s].hand
<1>1. ASSUME IInv, [Next]_rooms, NEW k \in DOMAIN rooms
      PROVE  Kept(k)
  <2>1. CASE \E type \in RoomTypes, code \in Codes \cup {NoCode}, p \in PlayerIds :
                Opens(type, code, p)
    <3>1. k \in DOMAIN rooms' /\ rooms'[k] = rooms[k]
      <4>1. PICK room : rooms' = Append(rooms, room)
        BY <2>1 DEF Opens
      <4>2. QED
        BY <1>1, <4>1 DEF IInv
    <3>2. QED
      BY <3>1
  <2>2. CASE Touches
    <3>1. RoomInvariant(rooms[k]) /\ RoomStep(rooms[k], rooms'[k]) /\ k \in DOMAIN rooms'
      BY <1>1, <2>2 DEF IInv, Touches
    <3>2. /\ \A s \in DOMAIN rooms[k].players :
                /\ s \in DOMAIN rooms'[k].players
                /\ rooms'[k].players[s].id = rooms[k].players[s].id
                /\ rooms[k].revealed # NoSeed =>
                      rooms'[k].players[s].hand = rooms[k].players[s].hand
          /\ rooms[k].state = "Playing" =>
                /\ rooms'[k].state = "Playing"
                /\ DOMAIN rooms'[k].players = DOMAIN rooms[k].players
                /\ rooms'[k].seedHash = rooms[k].seedHash
      BY <3>1, RoomStepIsFine
    <3>3. QED
      BY <3>1, <3>2 DEF IdsOf
  <2>3. CASE UNCHANGED rooms
    BY <1>1, <2>3
  <2>4. QED
    BY <1>1, <2>1, <2>2, <2>3, NextStep
<1>2. ASSUME IInv, [Next]_rooms
      PROVE  [\A k \in DOMAIN rooms : Kept(k)]_rooms
  BY <1>1, <1>2
<1>3. QED
  BY <1>2, Invariance, PTL DEF Spec, RoomsOnlyProgress

-----------------------------------------------------------------------------
(* Refinement of FairDeal *)

LEMMA SeenWhenExists ==
    /\ Exists => FD!vars = View(rooms[Watched])
    /\ Exists' => FD!vars' = View(rooms'[Watched])
BY DEF FD!vars, WatchedSeats, WatchedHash, WatchedOpened, WatchedHands, View

\* One step of a room is a step of FairDeal or leaves what it sees alone.
LEMMA RoomStepIsFair ==
    ASSUME IInv, Touches, Exists, Exists'
    PROVE  [FD!Next]_(FD!vars)
<1> DEFINE old == rooms[Watched]
           new == rooms'[Watched]
<1>1. RoomInvariant(old) /\ RoomStep(old, new) /\ RoomInvariant(new)
  BY RoomStepIsFine DEF IInv, Exists, Touches
<1>2. /\ WatchedSeats = IdsOf(old) /\ WatchedSeats' = IdsOf(new)
      /\ WatchedHash = old.seedHash /\ WatchedHash' = new.seedHash
      /\ WatchedOpened = old.revealed /\ WatchedOpened' = new.revealed
      /\ WatchedHands = HandsOf(old) /\ WatchedHands' = HandsOf(new)
  BY DEF WatchedSeats, WatchedHash, WatchedOpened, WatchedHands
<1>3. old \in RoomRecords
  BY <1>1 DEF RoomInvariant
<1>4. ASSUME View(new) = View(old)
      PROVE  UNCHANGED FD!vars
  BY <1>4, SeenWhenExists
<1> HIDE DEF old, new
<1>5. CASE new = old
  BY <1>4, <1>5
<1>6. ASSUME NEW p \in PlayerIds, Accepts(old), new = Seated(old, p)
      PROVE  FD!SitDown(p)
  <2>1. /\ IdsOf(new) = Append(IdsOf(old), p) /\ Len(IdsOf(old)) < Capacity
        /\ old.seedHash = NoSeed /\ new.seedHash = NoSeed
        /\ old.revealed = NoSeed /\ new.revealed = NoSeed
    BY <1>1, <1>6, SeatedView
  <2>2. HandsOf(old) = HandsOf(new)
    BY <2>1 DEF HandsOf
  <2>3. QED
    BY <1>2, <2>1, <2>2 DEF FD!SitDown
<1>7. ASSUME NEW p \in PlayerIds, NEW seed \in Seeds,
             Accepts(old), new = Started(Seated(old, p), seed)
      PROVE  FD!Commit(seed)
  <2>1. /\ IdsOf(Seated(old, p)) = Append(IdsOf(old), p) /\ Len(IdsOf(old)) < Capacity
        /\ old.seedHash = NoSeed /\ old.revealed = NoSeed
        /\ Len(IdsOf(old)) = Len(old.players)
    BY <1>1, <1>7, SeatedView
  <2>2. /\ new.players = Seated(old, p).players
        /\ new.seedHash = Hash(seed) /\ new.revealed = NoSeed
    BY <1>3, <1>7 DEF Started, Seated, RoomRecords
  <2>3. IdsOf(new) = Append(IdsOf(old), p)
    BY <2>1, <2>2 DEF IdsOf
  <2>4. Len(Append(IdsOf(old), p)) >= 2
    <3>1. Len(old.players) \in Nat /\ Len(old.players) >= 1
      BY <1>1, CapacityAssumption DEF RoomInvariant
    <3>2. IdsOf(old) \in Seq(PlayerIds)
      BY <1>3, IdsOfIsSeq DEF RoomRecords
    <3>3. QED
      BY <2>1, <3>1, <3>2
  <2>5. HandsOf(old) = HandsOf(new)
    BY <2>1, <2>2 DEF HandsOf
  <2>6. QED
    BY <1>2, <2>1, <2>2, <2>3, <2>4, <2>5 DEF FD!Commit, FD!Complete, FD!Commitment, Hash
<1>8. ASSUME NEW seed \in Seeds, CanStart(old), new = Started(old, seed)
      PROVE  FD!Commit(seed)
  <2>1. /\ new.players = old.players
        /\ new.seedHash = Hash(seed) /\ new.revealed = NoSeed
    BY <1>3, <1>8 DEF Started, RoomRecords
  <2>2. old.seedHash = NoSeed /\ old.revealed = NoSeed
    BY <1>1, <1>8 DEF CanStart, RoomInvariant, SeedInvariant
  <2>3. IdsOf(new) = IdsOf(old) /\ Len(IdsOf(old)) >= 2
    <3>1. Len(IdsOf(old)) = Len(old.players)
      BY <1>3, IdsOfIsSeq DEF RoomRecords
    <3>2. QED
      BY <1>8, <2>1, <3>1 DEF CanStart, IdsOf
  <2>4. HandsOf(old) = HandsOf(new)
    BY <2>1, <2>2 DEF HandsOf
  <2>5. QED
    BY <1>2, <2>1, <2>2, <2>3, <2>4 DEF FD!Commit, FD!Complete, FD!Commitment, Hash
<1>9. ASSUME AwaitsDeal(old), new = Dealt(old)
      PROVE  FD!Open(old.seed) /\ old.seed \in Seeds
  <2>1. /\ old.seed \in Seeds /\ old.seedHash = Hash(old.seed) /\ old.revealed = NoSeed
    BY <1>1, <1>9 DEF AwaitsDeal, RoomInvariant, SeedInvariant
  <2>2. new.seedHash = old.seedHash /\ new.revealed = old.seed
    BY <1>3, <1>9 DEF Dealt, RoomRecords
  <2>3. /\ DOMAIN new.players = DOMAIN old.players
        /\ \A s \in DOMAIN old.players : new.players[s].id = old.players[s].id
    BY <1>1, <1>9, DealtIsFine
  <2>4. IdsOf(new) = IdsOf(old)
    BY <2>3 DEF IdsOf
  <2>5. new.revealed # NoSeed
    BY <2>1, <2>2, SeedsAssumption
  <2>6. \A s \in DOMAIN new.players :
           new.players[s].hand = [seed |-> old.seed, from |-> HandSize * (s - 1)]
    BY <1>1, <2>2, <2>5 DEF RoomInvariant, SeatsInvariant, DealIndex
  <2>7. HandsOf(new) = [s \in DOMAIN IdsOf(old) |->
                           [seed |-> old.seed, from |-> HandSize * (s - 1)]]
    BY <2>3, <2>5, <2>6 DEF HandsOf, IdsOf
  <2>8. QED
    BY <1>2, <2>1, <2>2, <2>4, <2>7 DEF FD!Open, FD!HandsFrom, FD!Commitment, Hash
<1>10. CASE new = Older(old)
  <2>1. /\ new.seedHash = old.seedHash /\ new.revealed = old.revealed
        /\ new.players = old.players
    BY <1>3, <1>10 DEF Older, RoomRecords
  <2>2. QED
    BY <1>1, <1>4, <2>1, UnchangedView
<1>11. ASSUME NEW p \in PlayerIds, NEW status \in Statuses,
              SeatsOf(old, p) # {},
              new = MarkedRoom(old, p, status)
       PROVE  UNCHANGED FD!vars
  <2>1. new.seedHash = old.seedHash /\ new.revealed = old.revealed
    BY <1>1, <1>11, MarkedIsFine
  <2>2. /\ DOMAIN new.players = DOMAIN old.players
        /\ \A s \in DOMAIN old.players :
              /\ new.players[s].id = old.players[s].id
              /\ new.players[s].hand = old.players[s].hand
    BY <1>1, <1>11, MarkedIsFine
  <2>3. View(new) = View(old)
    BY <1>1, <2>1, <2>2, UnchangedView
  <2>4. QED
    BY <1>4, <2>3
<1>12. QED
  BY <1>1, <1>4, <1>5, <1>6, <1>7, <1>8, <1>9, <1>10, <1>11 DEF RoomStep, FD!Next

\* The room Watched comes into being with its first player.
LEMMA OpeningIsFair ==
    ASSUME IInv,
           NEW type \in RoomTypes, NEW code \in Codes \cup {NoCode}, NEW p \in PlayerIds,
           Opens(type, code, p)
    PROVE  [FD!Next]_(FD!vars)
<1> DEFINE n == Len(rooms)
           room == NewRoom(type, code, p)
<1>1. /\ rooms' = Append(rooms, room) /\ n \in Nat
      /\ DOMAIN rooms = 1..n /\ DOMAIN rooms' = 1..(n + 1)
      /\ rooms'[n + 1] = room
      /\ \A k \in 1..n : rooms'[k] = rooms[k]
  BY DEF Opens, IInv
<1>2. CASE Watched \in 1..n
  <2>1. Exists /\ Exists' /\ rooms'[Watched] = rooms[Watched]
    BY <1>1, <1>2 DEF Exists
  <2>2. UNCHANGED FD!vars
    BY <2>1, SeenWhenExists
  <2>3. QED
    BY <2>2
<1>3. CASE Watched = n + 1
  <2>1. ~Exists /\ Exists'
    BY <1>1, <1>3 DEF Exists
  <2>2. rooms'[Watched] = room
    BY <1>1, <1>3
  <2>3. IdsOf(room) = <<p>> /\ room.seedHash = NoSeed /\ room.revealed = NoSeed
    BY DEF NewRoom, IdsOf, NewSeat
  <2>4. <<p>> = Append(<<>>, p) /\ Len(<<>>) = 0
    OBVIOUS
  <2> HIDE DEF room
  <2>5. HandsOf(room) = <<>>
    BY <2>3 DEF HandsOf
  <2>6. /\ WatchedSeats = <<>> /\ WatchedSeats' = Append(<<>>, p)
        /\ WatchedHash = NoSeed /\ WatchedHash' = NoSeed
        /\ WatchedOpened = NoSeed /\ WatchedOpened' = NoSeed
        /\ WatchedHands = <<>> /\ WatchedHands' = <<>>
    BY <2>1, <2>2, <2>3, <2>4, <2>5
       DEF WatchedSeats, WatchedHash, WatchedOpened, WatchedHands
  <2>7. 0 < Capacity
    BY CapacityAssumption
  <2>8. FD!SitDown(p)
    BY <2>4, <2>6, <2>7 DEF FD!SitDown
  <2>9. QED
    BY <2>8 DEF FD!Next
<1>4. CASE Watched \notin 1..(n + 1)
  <2>1. ~Exists /\ ~Exists'
    BY <1>1, <1>4 DEF Exists
  <2>2. UNCHANGED FD!vars
    BY <2>1 DEF FD!vars, WatchedSeats, WatchedHash, WatchedOpened, WatchedHands
  <2>3. QED
    BY <2>2
<1>5. Watched \in 1..(n + 1) => Watched \in 1..n \/ Watched = n + 1
  BY <1>1
<1>6. QED
  BY <1>2, <1>3, <1>4, <1>5

\* Whichever room one follows, it goes through the life of a fair deal.
THEOREM ImplementsFairDeal == Spec => RoomDealsFairly
<1>1. Init => FD!Init
  BY DEF Init, FD!Init, Exists, WatchedSeats, WatchedHash, WatchedOpened, WatchedHands
<1>2. ASSUME IInv, [Next]_rooms
      PROVE  [FD!Next]_(FD!vars)
  <2>1. CASE \E type \in RoomTypes, code \in Codes \cup {NoCode}, p \in PlayerIds :
                Opens(type, code, p)
    BY <1>2, <2>1, OpeningIsFair
  <2>2. CASE Touches
    <3>1. CASE Exists
      <4>1. Exists'
        BY <2>2, <3>1 DEF Touches, Exists
      <4>2. QED
        BY <1>2, <2>2, <3>1, <4>1, RoomStepIsFair
    <3>2. CASE ~Exists
      <4>1. ~Exists'
        BY <2>2, <3>2 DEF Touches, Exists
      <4>2. UNCHANGED FD!vars
        BY <3>2, <4>1 DEF FD!vars, WatchedSeats, WatchedHash, WatchedOpened, WatchedHands
      <4>3. QED
        BY <4>2
    <3>3. QED
      BY <3>1, <3>2
  <2>3. CASE UNCHANGED rooms
    <3>1. UNCHANGED FD!vars
      BY <2>3 DEF FD!vars, Exists, WatchedSeats, WatchedHash, WatchedOpened, WatchedHands
    <3>2. QED
      BY <3>1
  <2>4. QED
    BY <1>2, <2>1, <2>2, <2>3, NextStep
<1>3. QED
  BY <1>1, <1>2, Invariance, PTL DEF Spec, RoomDealsFairly, FD!Spec

=============================================================================
