----------------------------- MODULE RoomsProofs -----------------------------
(***************************************************************************)
(* Lemmas about the operators of Rooms: what each of them keeps of the     *)
(* invariant of a single room.  RoomManagerProofs rests on them.           *)
(***************************************************************************)
EXTENDS Rooms, CommonLemmas

-----------------------------------------------------------------------------
(* The scans of the code find what they look for *)

LEMMA FirstIsLeast ==
    ASSUME NEW S \in SUBSET Nat, S # {}
    PROVE  First(S) \in S /\ \A j \in S : First(S) <= j
<1> DEFINE Least(k) == \A j \in S : k <= j
<1>1. First(S) = CHOOSE k \in S : Least(k)
  BY DEF First
<1>2. \E k \in S : Least(k)
  BY LeastNat
<1> HIDE DEF Least
<1>3. First(S) \in S /\ Least(First(S))
  BY <1>1, <1>2
<1>4. QED
  BY <1>3 DEF Least

-----------------------------------------------------------------------------
(* The invariant of one room *)

SeatsInvariant(room) ==
    /\ room.revealed = NoSeed =>
          \A s \in DOMAIN room.players : room.players[s].hand = NoHand
    /\ room.revealed # NoSeed =>
          \A s \in DOMAIN room.players :
             room.players[s].hand = [seed |-> room.revealed, from |-> DealIndex(s)]
    /\ \A s, t \in DOMAIN room.players :
          room.players[s].id = room.players[t].id /\ s < t =>
             room.players[t].status = "Connected"

SeedInvariant(room) ==
    /\ room.state = "Waiting" =>
          room.seed = NoSeed /\ room.seedHash = NoSeed /\ room.revealed = NoSeed
    /\ room.state = "Playing" =>
          /\ room.seed \in Seeds
          /\ room.seedHash = Hash(room.seed)
          /\ room.revealed \in {NoSeed, room.seed}

RoomInvariant(room) ==
    /\ room \in RoomRecords
    /\ Len(room.players) \in 1..Capacity
    /\ SeatsInvariant(room)
    /\ SeedInvariant(room)

\* What one call does to one of the rooms there are.
RoomStep(old, new) ==
    \/ new = old
    \/ \E p \in PlayerIds :
          /\ Accepts(old)
          /\ new = Seated(old, p)
          /\ old.type = "Random" => Len(new.players) < Capacity
    \/ \E p \in PlayerIds, seed \in Seeds :
          /\ Accepts(old)
          /\ new = Started(Seated(old, p), seed)
    \/ \E seed \in Seeds : CanStart(old) /\ new = Started(old, seed)
    \/ AwaitsDeal(old) /\ new = Dealt(old)
    \/ new = Older(old)
    \/ \E p \in PlayerIds, status \in Statuses :
          /\ SeatsOf(old, p) # {}
          /\ new = MarkedRoom(old, p, status)

LEMMA NewSeatIsFine ==
    ASSUME NEW p \in PlayerIds
    PROVE  NewSeat(p) \in Seats
<1>1. NoHand \in Hands
  <2>1. 0 \in 0..(DeckSize - 1)
    <3>1. 1 * 1 <= Capacity * HandSize
      <4>1. Capacity * 1 <= Capacity * HandSize
        BY CapacityAssumption, DeckAssumption, TimesMonotone
      <4>2. QED
        BY <4>1, CapacityAssumption, DeckAssumption
    <3>2. QED
      BY <3>1, DeckAssumption, CapacityAssumption
  <2>2. QED
    BY <2>1 DEF NoHand, Hands
<1>2. QED
  BY <1>1 DEF NewSeat, Seats, Statuses

LEMMA NewRoomIsFine ==
    ASSUME NEW type \in RoomTypes, NEW code \in Codes \cup {NoCode}, NEW p \in PlayerIds
    PROVE  RoomInvariant(NewRoom(type, code, p))
<1> DEFINE room == NewRoom(type, code, p)
<1>1. <<NewSeat(p)>> \in Seq(Seats) /\ Len(<<NewSeat(p)>>) = 1
  BY NewSeatIsFine
<1>2. room \in RoomRecords
  BY <1>1, DeadlineAssumption DEF NewRoom, RoomRecords, RoomStates, Hashes
<1>3. Len(room.players) \in 1..Capacity
  BY <1>1, CapacityAssumption DEF NewRoom
<1>4. SeatsInvariant(room)
  BY DEF SeatsInvariant, NewRoom, NewSeat
<1>5. SeedInvariant(room)
  BY DEF SeedInvariant, NewRoom
<1>6. QED
  BY <1>2, <1>3, <1>4, <1>5 DEF RoomInvariant

LEMMA SeatedIsFine ==
    ASSUME NEW room, RoomInvariant(room), Accepts(room), NEW p \in PlayerIds
    PROVE  /\ RoomInvariant(Seated(room, p))
           /\ Seated(room, p).state = "Waiting"
           /\ Len(Seated(room, p).players) = Len(room.players) + 1
           /\ \A s \in DOMAIN room.players :
                 /\ s \in DOMAIN Seated(room, p).players
                 /\ Seated(room, p).players[s] = room.players[s]
<1> DEFINE new == Seated(room, p)
           n == Len(room.players)
<1>1. room.players \in Seq(Seats) /\ n \in Nat /\ n < Capacity /\ room.state = "Waiting"
  BY DEF RoomInvariant, RoomRecords, Accepts
<1>2. NewSeat(p) \in Seats
  BY NewSeatIsFine
<1>3. /\ new.players = Append(room.players, NewSeat(p))
      /\ new.state = room.state /\ new.seed = room.seed
      /\ new.seedHash = room.seedHash /\ new.revealed = room.revealed
  BY DEF Seated, RoomInvariant, RoomRecords
<1>4. /\ new.players \in Seq(Seats) /\ Len(new.players) = n + 1
      /\ DOMAIN new.players = 1..(n + 1) /\ DOMAIN room.players = 1..n
      /\ new.players[n + 1] = NewSeat(p)
      /\ \A s \in 1..n : new.players[s] = room.players[s]
  BY <1>1, <1>2, <1>3
<1>5. new \in RoomRecords
  BY <1>3, <1>4 DEF Seated, RoomInvariant, RoomRecords
<1>6. Len(new.players) \in 1..Capacity
  BY <1>1, <1>4, CapacityAssumption
<1>7. SeedInvariant(new)
  BY <1>3 DEF RoomInvariant, SeedInvariant
<1>8. SeatsInvariant(new)
  <2>1. new.revealed = NoSeed
    BY <1>1, <1>3 DEF RoomInvariant, SeedInvariant
  <2>2. \A s \in DOMAIN new.players : new.players[s].hand = NoHand
    BY <1>1, <1>3, <1>4, <2>1 DEF RoomInvariant, SeatsInvariant, NewSeat
  <2>3. ASSUME NEW s \in DOMAIN new.players, NEW t \in DOMAIN new.players,
               new.players[s].id = new.players[t].id, s < t
        PROVE  new.players[t].status = "Connected"
    <3>1. CASE t = n + 1
      BY <1>4, <3>1 DEF NewSeat
    <3>2. CASE t # n + 1
      <4>1. s \in 1..n /\ t \in 1..n
        BY <1>1, <1>4, <2>3, <3>2
      <4>2. QED
        BY <1>4, <2>3, <4>1 DEF RoomInvariant, SeatsInvariant
    <3>3. QED
      BY <3>1, <3>2
  <2>4. QED
    BY <2>1, <2>2, <2>3 DEF SeatsInvariant
<1>9. QED
  BY <1>1, <1>3, <1>4, <1>5, <1>6, <1>7, <1>8 DEF RoomInvariant

LEMMA StartedIsFine ==
    ASSUME NEW room, RoomInvariant(room), room.state = "Waiting", NEW seed \in Seeds
    PROVE  /\ RoomInvariant(Started(room, seed))
           /\ Started(room, seed).state = "Playing"
           /\ Started(room, seed).players = room.players
<1> DEFINE new == Started(room, seed)
<1>1. /\ new.state = "Playing" /\ new.players = room.players
      /\ new.seed = seed /\ new.seedHash = Hash(seed) /\ new.revealed = NoSeed
  BY DEF Started, RoomInvariant, RoomRecords
<1>2. new \in RoomRecords
  BY DEF Started, RoomInvariant, RoomRecords, RoomStates, Hashes
<1>3. room.revealed = NoSeed
  BY DEF RoomInvariant, SeedInvariant
<1>4. SeatsInvariant(new)
  BY <1>1, <1>3 DEF RoomInvariant, SeatsInvariant
<1>5. SeedInvariant(new)
  BY <1>1 DEF SeedInvariant
<1>6. QED
  BY <1>1, <1>2, <1>4, <1>5 DEF RoomInvariant

\* deal_room never reads past the deck, however many seats the room has, and
\* gives each seat cards of its own.
LEMMA DealIndexFits ==
    ASSUME NEW s \in 1..Capacity
    PROVE  /\ DealIndex(s) \in Nat
           /\ DealIndex(s) + HandSize <= DeckSize
           /\ \A t \in 1..Capacity : t < s => DealIndex(t) + HandSize <= DealIndex(s)
<1>1. s \in Nat /\ s - 1 \in Nat /\ s <= Capacity /\ Capacity \in Nat
      /\ HandSize \in Nat /\ DeckSize \in Nat
  BY CapacityAssumption, DeckAssumption
<1>2. HandSize * s = HandSize * (s - 1) + HandSize
  BY <1>1
<1>3. HandSize * s <= HandSize * Capacity
  BY <1>1, TimesMonotone
<1>4. HandSize * Capacity = Capacity * HandSize
  BY <1>1
<1>5. HandSize * (s - 1) \in Nat
  BY <1>1, TimesMonotone
<1>6. ASSUME NEW t \in 1..Capacity, t < s
      PROVE  HandSize * (t - 1) + HandSize <= HandSize * (s - 1)
  <2>1. t \in Nat /\ t - 1 \in Nat /\ t <= s - 1
    BY <1>1, <1>6
  <2>2. HandSize * t = HandSize * (t - 1) + HandSize
    BY <1>1, <2>1
  <2>3. HandSize * t <= HandSize * (s - 1)
    BY <1>1, <2>1, TimesMonotone
  <2>4. QED
    BY <2>2, <2>3
<1> DEFINE index == HandSize * (s - 1)
<1>7. DealIndex(s) = index
  BY DEF DealIndex
<1>8. index + HandSize <= DeckSize
  <2>1. index + HandSize <= Capacity * HandSize
    BY <1>2, <1>3, <1>4
  <2>2. index \in Nat /\ Capacity * HandSize \in Nat
    BY <1>1, <1>5, TimesMonotone
  <2> HIDE DEF index
  <2>3. QED
    BY <1>1, <2>1, <2>2, DeckAssumption
<1>9. QED
  BY <1>5, <1>6, <1>7, <1>8 DEF DealIndex

LEMMA DealtIsFine ==
    ASSUME NEW room, RoomInvariant(room), AwaitsDeal(room)
    PROVE  /\ RoomInvariant(Dealt(room))
           /\ Dealt(room).state = "Playing"
           /\ Len(Dealt(room).players) = Len(room.players)
           /\ DOMAIN Dealt(room).players = DOMAIN room.players
           /\ \A s \in DOMAIN room.players :
                 /\ Dealt(room).players[s].id = room.players[s].id
                 /\ Dealt(room).players[s].status = room.players[s].status
<1> DEFINE new == Dealt(room)
           n == Len(room.players)
           hand(s) == [seed |-> room.seed, from |-> DealIndex(s)]
<1>1. /\ room.players \in Seq(Seats) /\ n \in 1..Capacity
      /\ DOMAIN room.players = 1..n
      /\ room.state = "Playing" /\ room.seed \in Seeds
      /\ room.seedHash = Hash(room.seed) /\ room.revealed = NoSeed
  BY DEF RoomInvariant, RoomRecords, SeedInvariant, AwaitsDeal
<1>2. \A s \in 1..n : hand(s) \in Hands
  <2>1. ASSUME NEW s \in 1..n
        PROVE  DealIndex(s) \in 0..(DeckSize - 1)
    <3>1. DealIndex(s) \in Nat /\ DealIndex(s) + HandSize <= DeckSize
      BY <1>1, CapacityAssumption, DealIndexFits
    <3>2. QED
      BY <3>1, DeckAssumption
  <2>2. QED
    BY <1>1, <2>1 DEF Hands
<1>3. /\ new.players = [s \in 1..n |-> [room.players[s] EXCEPT !.hand = hand(s)]]
      /\ new.state = "Playing" /\ new.seed = room.seed
      /\ new.seedHash = room.seedHash /\ new.revealed = room.seed
  BY <1>1 DEF Dealt, RoomInvariant, RoomRecords
<1>4. \A s \in 1..n : room.players[s] \in Seats
  BY <1>1
<1> HIDE DEF hand
<1>5. \A s \in 1..n : /\ new.players[s] \in Seats
                      /\ new.players[s].hand = hand(s)
                      /\ new.players[s].id = room.players[s].id
                      /\ new.players[s].status = room.players[s].status
  BY <1>2, <1>3, <1>4 DEF Seats
<1>6. new.players \in Seq(Seats) /\ Len(new.players) = n /\ DOMAIN new.players = 1..n
  <2> DEFINE ps == new.players
  <2>1. n \in Nat
    BY <1>1, CapacityAssumption
  <2>2. ps \in [1..n -> Seats]
    <3>1. ps = [s \in 1..n |-> [room.players[s] EXCEPT !.hand = hand(s)]]
      BY <1>3
    <3>2. \A s \in 1..n : ps[s] \in Seats
      BY <1>5
    <3> HIDE DEF ps
    <3>3. QED
      BY <3>1, <3>2
  <2>3. QED
    BY <2>1, <2>2, FunctionIsSeq
<1>7. new \in RoomRecords
  BY <1>1, <1>6 DEF Dealt, RoomInvariant, RoomRecords
<1>8. SeedInvariant(new)
  BY <1>1, <1>3 DEF SeedInvariant
<1>9. SeatsInvariant(new)
  <2>1. new.revealed # NoSeed
    BY <1>1, <1>3, SeedsAssumption
  <2>2. \A s \in DOMAIN new.players :
           new.players[s].hand = [seed |-> new.revealed, from |-> DealIndex(s)]
    BY <1>3, <1>5, <1>6 DEF hand
  <2>3. \A s, t \in DOMAIN new.players :
           new.players[s].id = new.players[t].id /\ s < t =>
              new.players[t].status = "Connected"
    BY <1>1, <1>5, <1>6 DEF RoomInvariant, SeatsInvariant
  <2> HIDE DEF new
  <2>4. QED
    BY <2>1, <2>2, <2>3 DEF SeatsInvariant
<1>10. QED
  BY <1>1, <1>3, <1>5, <1>6, <1>7, <1>8, <1>9 DEF RoomInvariant

LEMMA OlderIsFine ==
    ASSUME NEW room, RoomInvariant(room)
    PROVE  /\ RoomInvariant(Older(room))
           /\ Older(room).players = room.players
           /\ Older(room).state = room.state
<1> DEFINE new == Older(room)
<1>1. /\ new.players = room.players /\ new.state = room.state
      /\ new.seed = room.seed /\ new.seedHash = room.seedHash
      /\ new.revealed = room.revealed
  BY DEF Older, RoomInvariant, RoomRecords
<1>2. new \in RoomRecords
  BY DeadlineAssumption DEF Older, RoomInvariant, RoomRecords
<1>3. SeatsInvariant(new) /\ SeedInvariant(new)
  BY <1>1 DEF RoomInvariant, SeatsInvariant, SeedInvariant
<1>4. QED
  BY <1>1, <1>2, <1>3 DEF RoomInvariant

LEMMA MarkedIsFine ==
    ASSUME NEW room, RoomInvariant(room), NEW p, NEW status \in Statuses,
           SeatsOf(room, p) # {}
    PROVE  LET new == MarkedRoom(room, p, status)
           IN  /\ RoomInvariant(new)
               /\ new.type = room.type /\ new.state = room.state
               /\ new.seedHash = room.seedHash /\ new.revealed = room.revealed
               /\ Len(new.players) = Len(room.players)
               /\ DOMAIN new.players = DOMAIN room.players
               /\ \A s \in DOMAIN room.players :
                     /\ new.players[s].id = room.players[s].id
                     /\ new.players[s].hand = room.players[s].hand
                     /\ \/ new.players[s].status = room.players[s].status
                        \/ room.players[s].id = p /\ new.players[s].status = status
<1> DEFINE new == MarkedRoom(room, p, status)
           n == Len(room.players)
           m == First(SeatsOf(room, p))
<1>1. /\ room.players \in [1..n -> Seats] /\ n \in Nat
      /\ DOMAIN room.players = 1..n
  BY DEF RoomInvariant, RoomRecords
<1>2. m \in 1..n /\ room.players[m].id = p
      /\ \A s \in 1..n : room.players[s].id = p => m <= s
  <2>1. SeatsOf(room, p) \in SUBSET Nat
    BY <1>1 DEF SeatsOf
  <2>2. QED
    BY <1>1, <2>1, FirstIsLeast DEF SeatsOf
<1> HIDE DEF m
<1>3. new.players = [room.players EXCEPT ![m] = [@ EXCEPT !.status = status]]
  BY DEF MarkedRoom, RoomInvariant, RoomRecords, m
<1>4. /\ new.type = room.type /\ new.state = room.state /\ new.seed = room.seed
      /\ new.seedHash = room.seedHash /\ new.revealed = room.revealed
  BY DEF MarkedRoom, RoomInvariant, RoomRecords
<1>5. \A s \in 1..n : /\ new.players[s] \in Seats
                      /\ new.players[s].id = room.players[s].id
                      /\ new.players[s].hand = room.players[s].hand
                      /\ s # m => new.players[s].status = room.players[s].status
                      /\ s = m => new.players[s].status = status
  BY <1>1, <1>2, <1>3 DEF Seats, Statuses
<1>6. new.players \in Seq(Seats) /\ Len(new.players) = n /\ DOMAIN new.players = 1..n
  <2>1. new.players \in [1..n -> Seats]
    BY <1>1, <1>3, <1>5
  <2>2. QED
    BY <1>1, <2>1, FunctionIsSeq
<1>7. new \in RoomRecords
  BY <1>6 DEF MarkedRoom, RoomInvariant, RoomRecords
<1>8. SeedInvariant(new)
  BY <1>4 DEF RoomInvariant, SeedInvariant
<1>9. SeatsInvariant(new)
  <2>1. /\ new.revealed = NoSeed =>
              \A s \in DOMAIN new.players : new.players[s].hand = NoHand
        /\ new.revealed # NoSeed =>
              \A s \in DOMAIN new.players :
                 new.players[s].hand = [seed |-> new.revealed, from |-> DealIndex(s)]
    BY <1>1, <1>4, <1>5, <1>6 DEF RoomInvariant, SeatsInvariant
  <2>2. ASSUME NEW s \in 1..n, NEW t \in 1..n,
               new.players[s].id = new.players[t].id, s < t
        PROVE  new.players[t].status = "Connected"
    <3>1. room.players[t].status = "Connected" /\ room.players[s].id = room.players[t].id
      BY <1>1, <1>5, <2>2 DEF RoomInvariant, SeatsInvariant
    <3>2. t # m
      BY <1>2, <2>2, <3>1
    <3>3. QED
      BY <1>5, <3>1, <3>2
  <2>3. QED
    BY <1>6, <2>1, <2>2 DEF SeatsInvariant
<1>10. QED
  BY <1>1, <1>2, <1>4, <1>5, <1>6, <1>7, <1>8, <1>9 DEF RoomInvariant

LEMMA RoomStepIsFine ==
    ASSUME NEW old, NEW new, RoomInvariant(old), RoomStep(old, new)
    PROVE  /\ RoomInvariant(new)
           /\ new.type = old.type
           /\ new.state = "Waiting" => old.state = "Waiting"
           /\ new.type = "Random" /\ new.state = "Waiting" /\ Len(old.players) < Capacity
                 => Len(new.players) < Capacity
           /\ \A s \in DOMAIN old.players :
                 /\ s \in DOMAIN new.players
                 /\ new.players[s].id = old.players[s].id
                 /\ old.revealed # NoSeed => new.players[s].hand = old.players[s].hand
           /\ old.state = "Playing" =>
                 /\ new.state = "Playing"
                 /\ DOMAIN new.players = DOMAIN old.players
                 /\ new.seedHash = old.seedHash
<1>1. old \in RoomRecords /\ (old.state = "Waiting" => old.revealed = NoSeed)
      /\ old.state \in {"Waiting", "Playing"}
  BY DEF RoomInvariant, RoomRecords, RoomStates, SeedInvariant
<1>2. CASE new = old
  BY <1>1, <1>2
<1>3. CASE \E p \in PlayerIds : /\ Accepts(old)
                                /\ new = Seated(old, p)
                                /\ old.type = "Random" => Len(new.players) < Capacity
  <2>1. PICK p \in PlayerIds : /\ Accepts(old)
                               /\ new = Seated(old, p)
                               /\ old.type = "Random" => Len(new.players) < Capacity
    BY <1>3
  <2>2. new.type = old.type /\ old.state = "Waiting"
    BY <1>1, <2>1 DEF Seated, Accepts, RoomRecords
  <2>3. QED
    BY <1>1, <2>1, <2>2, SeatedIsFine
<1>4. CASE \E p \in PlayerIds, seed \in Seeds :
              Accepts(old) /\ new = Started(Seated(old, p), seed)
  <2>1. PICK p \in PlayerIds, seed \in Seeds :
           Accepts(old) /\ new = Started(Seated(old, p), seed)
    BY <1>4
  <2> DEFINE mid == Seated(old, p)
  <2>2. mid.type = old.type /\ old.state = "Waiting"
    BY <1>1, <2>1 DEF Seated, Accepts, RoomRecords
  <2>3. /\ RoomInvariant(mid) /\ mid.state = "Waiting"
        /\ \A s \in DOMAIN old.players : s \in DOMAIN mid.players
                                         /\ mid.players[s] = old.players[s]
    BY <2>1, SeatedIsFine
  <2> HIDE DEF mid
  <2>4. RoomInvariant(new) /\ new.state = "Playing" /\ new.players = mid.players
    BY <2>1, <2>3, StartedIsFine DEF mid
  <2>5. new.type = mid.type
    BY <2>1, <2>3 DEF Started, RoomInvariant, RoomRecords, mid
  <2>6. QED
    BY <1>1, <2>2, <2>3, <2>4, <2>5
<1>5. CASE \E seed \in Seeds : CanStart(old) /\ new = Started(old, seed)
  <2>1. PICK seed \in Seeds : CanStart(old) /\ new = Started(old, seed)
    BY <1>5
  <2>2. new.type = old.type /\ old.state = "Waiting"
    BY <1>1, <2>1 DEF Started, CanStart, RoomRecords
  <2>3. QED
    BY <1>1, <2>1, <2>2, StartedIsFine
<1>6. CASE AwaitsDeal(old) /\ new = Dealt(old)
  <2>1. /\ new.type = old.type /\ new.seedHash = old.seedHash
        /\ old.state = "Playing" /\ old.revealed = NoSeed
    BY <1>1, <1>6 DEF Dealt, AwaitsDeal, RoomRecords
  <2>2. QED
    BY <1>1, <1>6, <2>1, DealtIsFine
<1>7. CASE new = Older(old)
  <2>1. new.type = old.type /\ new.seedHash = old.seedHash
    BY <1>1, <1>7 DEF Older, RoomRecords
  <2>2. QED
    BY <1>1, <1>7, <2>1, OlderIsFine
<1>8. CASE \E p \in PlayerIds, status \in Statuses :
              /\ SeatsOf(old, p) # {}
              /\ new = MarkedRoom(old, p, status)
  <2>1. PICK p \in PlayerIds, status \in Statuses :
              /\ SeatsOf(old, p) # {}
              /\ new = MarkedRoom(old, p, status)
    BY <1>8
  <2>2. QED
    BY <1>1, <2>1, MarkedIsFine
<1>9. QED
  BY <1>2, <1>3, <1>4, <1>5, <1>6, <1>7, <1>8 DEF RoomStep

-----------------------------------------------------------------------------
(* What FairDeal sees of a room *)

View(room) == <<IdsOf(room), room.seedHash, room.revealed, HandsOf(room)>>

LEMMA IdsOfIsSeq ==
    ASSUME NEW room, room.players \in Seq(Seats)
    PROVE  /\ IdsOf(room) \in Seq(PlayerIds)
           /\ Len(IdsOf(room)) = Len(room.players)
           /\ \A s \in 1..Len(room.players) : IdsOf(room)[s] = room.players[s].id
<1> DEFINE n == Len(room.players)
<1>1. n \in Nat /\ DOMAIN room.players = 1..n
  OBVIOUS
<1>2. \A s \in 1..n : room.players[s] \in Seats
  OBVIOUS
<1>3. \A s \in 1..n : room.players[s].id \in PlayerIds
  BY <1>2 DEF Seats
<1>4. IdsOf(room) = [s \in 1..n |-> room.players[s].id]
  BY <1>1 DEF IdsOf
<1>5. IdsOf(room) \in [1..n -> PlayerIds]
  BY <1>3, <1>4
<1> HIDE DEF n
<1>6. IdsOf(room) \in Seq(PlayerIds) /\ Len(IdsOf(room)) = n
  BY <1>1, <1>5, FunctionIsSeq
<1>7. QED
  BY <1>4, <1>6 DEF n

LEMMA SeatedView ==
    ASSUME NEW room, RoomInvariant(room), Accepts(room), NEW p \in PlayerIds
    PROVE  /\ IdsOf(Seated(room, p)) = Append(IdsOf(room), p)
           /\ Len(IdsOf(room)) = Len(room.players)
           /\ Seated(room, p).seedHash = NoSeed /\ Seated(room, p).revealed = NoSeed
           /\ room.seedHash = NoSeed /\ room.revealed = NoSeed
           /\ Len(room.players) < Capacity
<1> DEFINE n == Len(room.players)
           new == Seated(room, p)
<1>1. /\ room.players \in Seq(Seats) /\ n \in Nat /\ n < Capacity
      /\ room.seedHash = NoSeed /\ room.revealed = NoSeed
  BY DEF RoomInvariant, RoomRecords, Accepts, SeedInvariant
<1>2. /\ new.players = Append(room.players, NewSeat(p))
      /\ new.seedHash = NoSeed /\ new.revealed = NoSeed
  BY <1>1 DEF Seated, RoomInvariant, RoomRecords
<1>3. new.players \in Seq(Seats) /\ Len(new.players) = n + 1
  BY <1>1, <1>2, NewSeatIsFine
<1>4. /\ IdsOf(room) \in Seq(PlayerIds) /\ Len(IdsOf(room)) = n
      /\ \A s \in 1..n : IdsOf(room)[s] = room.players[s].id
  BY <1>1, IdsOfIsSeq
<1>5. DOMAIN new.players = 1..(n + 1)
      /\ new.players[n + 1].id = p
      /\ \A s \in 1..n : new.players[s] = room.players[s]
  <2>1. NewSeat(p) \in Seats /\ NewSeat(p).id = p
    BY NewSeatIsFine DEF NewSeat
  <2>2. QED
    BY <1>1, <1>2, <2>1
<1> HIDE DEF new
<1>6. \A s \in 1..(n + 1) : s = n + 1 \/ s \in 1..n
  BY <1>1
<1>7. /\ IdsOf(new) \in Seq(PlayerIds) /\ Len(IdsOf(new)) = n + 1
      /\ \A s \in 1..(n + 1) : IdsOf(new)[s] = new.players[s].id
  BY <1>3, IdsOfIsSeq
<1>8. /\ IdsOf(new)[n + 1] = p
      /\ \A s \in 1..n : IdsOf(new)[s] = IdsOf(room)[s]
  <2>1. n + 1 \in 1..(n + 1) /\ \A s \in 1..n : s \in 1..(n + 1) /\ s \in DOMAIN room.players
    BY <1>1
  <2>2. IdsOf(new)[n + 1] = p
    BY <1>5, <1>7, <2>1
  <2>3. ASSUME NEW s \in 1..n
        PROVE  IdsOf(new)[s] = IdsOf(room)[s]
    BY <1>4, <1>5, <1>7, <2>1, <2>3
  <2>4. QED
    BY <2>2, <2>3
<1>9. /\ Append(IdsOf(room), p) \in Seq(PlayerIds)
      /\ Len(Append(IdsOf(room), p)) = n + 1
      /\ Append(IdsOf(room), p)[n + 1] = p
      /\ \A s \in 1..n : Append(IdsOf(room), p)[s] = IdsOf(room)[s]
  BY <1>1, <1>4
<1>10. \A s \in 1..(n + 1) : IdsOf(new)[s] = Append(IdsOf(room), p)[s]
  BY <1>6, <1>8, <1>9
<1>11. IdsOf(new) = Append(IdsOf(room), p)
  BY <1>7, <1>9, <1>10, SeqEqual
<1>12. QED
  BY <1>1, <1>2, <1>4, <1>11 DEF new

LEMMA UnchangedView ==
    ASSUME NEW old, NEW new, RoomInvariant(old),
           new.seedHash = old.seedHash, new.revealed = old.revealed,
           DOMAIN new.players = DOMAIN old.players,
           \A s \in DOMAIN old.players :
              new.players[s].id = old.players[s].id /\ new.players[s].hand = old.players[s].hand
    PROVE  View(new) = View(old)
<1>1. IdsOf(new) = IdsOf(old)
  BY DEF IdsOf
<1>2. HandsOf(new) = HandsOf(old)
  BY DEF HandsOf
<1>3. QED
  BY <1>1, <1>2 DEF View

=============================================================================
