----------------------------- MODULE RoomManager -----------------------------
(***************************************************************************)
(* server/room_manager.cpp: the methods sessions call, one action each, in *)
(* any order.  Deal is called only on a room that awaits its deal, as      *)
(* every caller in session.cpp makes sure.                                 *)
(***************************************************************************)
EXTENDS Rooms

CONSTANTS
    MaxRooms,   \* bound on the rooms ever created
    Watched     \* the room that RoomDealsFairly follows

VARIABLE rooms

Init == rooms = <<>>

QuickMatch(p) ==
    /\ QuickMatchRoom(rooms) <= MaxRooms
    /\ \E seed \in Seeds : rooms' = QuickMatched(rooms, p, seed)

CreatePrivate(p) ==
    /\ Len(rooms) < MaxRooms
    /\ \E code \in Codes : rooms' = PrivateCreated(rooms, code, p)

JoinPrivate(code, p) ==
    /\ OpenPrivate(rooms, code) # {}
    /\ rooms' = PrivateJoined(rooms, code, p)

StartRoom(k) ==
    /\ CanStart(rooms[k])
    /\ \E seed \in Seeds : rooms' = [rooms EXCEPT ![k] = Started(@, seed)]

Deal(k) ==
    /\ AwaitsDeal(rooms[k])
    /\ rooms' = [rooms EXCEPT ![k] = Dealt(@)]

StartExpiredRooms ==
    \E seeds \in [DOMAIN rooms -> Seeds] : rooms' = ExpiredStarted(rooms, seeds)

MarkDisconnected(p) == rooms' = Marked(rooms, p, "Disconnected")

ReconnectPlayer(p) == rooms' = Marked(rooms, p, "Connected")

\* steady_clock moves on.
Tick == rooms' = Aged(rooms)

Next ==
    \/ \E p \in PlayerIds :
          \/ QuickMatch(p)
          \/ CreatePrivate(p)
          \/ \E code \in Codes : JoinPrivate(code, p)
          \/ MarkDisconnected(p)
          \/ ReconnectPlayer(p)
    \/ \E k \in DOMAIN rooms : StartRoom(k) \/ Deal(k)
    \/ StartExpiredRooms
    \/ Tick

Spec == Init /\ [][Next]_rooms

-----------------------------------------------------------------------------
(* Properties *)

\* Rooms keep their shape and never seat more than Capacity.
TypeOK ==
    /\ rooms \in Seq(RoomRecords)
    /\ \A k \in DOMAIN rooms : Len(rooms[k].players) \in 1..Capacity

\* Matchmaking never splits the players who wait: quick_match puts everybody
\* into one Random room until that room has started, so that at most one is
\* still waiting.
OneOpenRandomRoom ==
    \A j, k \in DOMAIN rooms :
        /\ rooms[j].type = "Random" /\ rooms[j].state = "Waiting"
        /\ rooms[k].type = "Random" /\ rooms[k].state = "Waiting"
        => j = k

\* A room has committed to the seed it holds exactly when it plays, and it
\* reveals nothing else, and nothing before.
CommitmentBinds ==
    \A k \in DOMAIN rooms :
        LET room == rooms[k]
        IN  /\ room.state = "Waiting" => room.seedHash = NoSeed
            /\ room.state = "Playing" => room.seed # NoSeed /\ room.seedHash = Hash(room.seed)
            /\ room.revealed \in {NoSeed, room.seed}

CardsOf(seat) == {seat.hand.from + c : c \in 0..(HandSize - 1)}

\* Once the seed is out, every seat holds cards of the deck it shuffles, no two
\* seats a common one, and a room of any size stays inside the deck.  Until
\* then nobody holds a card.
HandsComeFromOneDeck ==
    \A k \in DOMAIN rooms :
        LET room == rooms[k]
        IN  IF room.revealed = NoSeed
            THEN \A s \in DOMAIN room.players : room.players[s].hand = NoHand
            ELSE \A s, t \in DOMAIN room.players :
                    /\ room.players[s].hand.seed = room.revealed
                    /\ CardsOf(room.players[s]) \subseteq 0..(DeckSize - 1)
                    /\ s # t => CardsOf(room.players[s]) \cap CardsOf(room.players[t]) = {}

\* Who sits in a room twice leaves it only once: the second seat of the same
\* player stays Connected whatever happens, since only the first is marked.
OnlyFirstSeatsDisconnect ==
    \A k \in DOMAIN rooms : \A s, t \in DOMAIN rooms[k].players :
        /\ rooms[k].players[s].id = rooms[k].players[t].id
        /\ s < t
        => rooms[k].players[t].status = "Connected"

\* No call takes a room away, moves a seat, lets anybody into a room that
\* plays, stops a game, draws a second seed or takes dealt cards back.
RoomsOnlyProgress ==
    [][\A k \in DOMAIN rooms :
          LET old == rooms[k]
              new == rooms'[k]
          IN  /\ k \in DOMAIN rooms'
              /\ \A s \in DOMAIN old.players : new.players[s].id = old.players[s].id
              /\ old.state = "Playing" =>
                    /\ new.state = "Playing"
                    /\ IdsOf(new) = IdsOf(old)
                    /\ new.seedHash = old.seedHash
              /\ old.revealed # NoSeed =>
                    \A s \in DOMAIN old.players : new.players[s].hand = old.players[s].hand
      ]_rooms

\* What FairDeal sees of the room Watched, whether or not it exists yet.
Exists == Watched \in DOMAIN rooms

WatchedSeats  == IF Exists THEN IdsOf(rooms[Watched])    ELSE <<>>
WatchedHash   == IF Exists THEN rooms[Watched].seedHash  ELSE NoSeed
WatchedOpened == IF Exists THEN rooms[Watched].revealed  ELSE NoSeed
WatchedHands  == IF Exists THEN HandsOf(rooms[Watched])  ELSE <<>>

FD == INSTANCE FairDeal WITH
        seats  <- WatchedSeats,
        hash   <- WatchedHash,
        opened <- WatchedOpened,
        hands  <- WatchedHands

\* Every room goes through the steps of FairDeal: seats, commitment, deal.
RoomDealsFairly == FD!Spec

=============================================================================
