---------------------------- MODULE SessionProofs ----------------------------
(***************************************************************************)
(* Proofs about Session, for any number of connections and rooms.          *)
(*                                                                         *)
(* The rooms are good between two handlers: each satisfies RoomInvariant,  *)
(* plays only with its cards dealt, and waits with one seat if it is       *)
(* Random.  Therefore the prologue of handle_message finds nothing to do,  *)
(* which leaves one step of one room for every message.                    *)
(*                                                                         *)
(* Two action properties follow from what the messages are then: only a    *)
(* close and a reconnect touch the status of a seat, and a tournament is   *)
(* changed by steps of its own.  The shape of what the sessions share      *)
(* (TypeOK) needs the tournaments sound besides: who is alive has entered. *)
(*                                                                         *)
(* What a handler does to a room is one call of RoomManager, or two where  *)
(* a deal follows a start; so the promises of RoomManager hold here too,   *)
(* and every room implements FairDeal with commitment and deal in one.     *)
(*                                                                         *)
(* The web clients come last.  A step of theirs is a step of the sessions  *)
(* or leaves them alone; rooms only grow, so that a reply that was true    *)
(* when it was sent is true whenever it arrives; and no handler answers    *)
(* with the seed of a room that was open before.                           *)
(***************************************************************************)
EXTENDS WebClient, RoomsProofs

-----------------------------------------------------------------------------
(* The invariant *)

GoodRoom(room) ==
    /\ RoomInvariant(room)
    /\ room.state = "Playing" => room.revealed # NoSeed
    /\ room.type = "Random" /\ room.state = "Waiting" => Len(room.players) = 1

GoodRooms(rs) ==
    rs \in Seq(RoomRecords) /\ \A k \in DOMAIN rs : GoodRoom(rs[k])

ConnsOK == conns \in [Conns -> [phase : Phases, sid : PlayerIds]]

IInv == GoodRooms(rooms) /\ ConnsOK

-----------------------------------------------------------------------------
(* What the operators make of good rooms *)

LEMMA OpeningIsGood ==
    ASSUME NEW rs, GoodRooms(rs), NEW new, GoodRoom(new)
    PROVE  GoodRooms(Append(rs, new))
<1>1. new \in RoomRecords
  BY DEF GoodRoom, RoomInvariant
<1>2. QED
  BY <1>1 DEF GoodRooms

LEMMA ChangeIsGood ==
    ASSUME NEW rs, GoodRooms(rs), NEW k \in DOMAIN rs,
           NEW new, GoodRoom(new)
    PROVE  GoodRooms([rs EXCEPT ![k] = new])
<1>1. new \in RoomRecords
  BY DEF GoodRoom, RoomInvariant
<1>2. [rs EXCEPT ![k] = new] \in Seq(RoomRecords)
  BY <1>1 DEF GoodRooms
<1>3. QED
  BY <1>2 DEF GoodRooms


LEMMA NewRoomIsGood ==
    ASSUME NEW type \in RoomTypes, NEW code \in Codes \cup {NoCode},
           NEW p \in PlayerIds
    PROVE  GoodRoom(NewRoom(type, code, p))
<1>1. RoomInvariant(NewRoom(type, code, p))
  BY NewRoomIsFine
<1>2. NewRoom(type, code, p).players = <<NewSeat(p)>>
  BY DEF NewRoom
<1>3. \A s \in DOMAIN <<NewSeat(p)>> : <<NewSeat(p)>>[s].status = "Connected"
  BY DEF NewSeat
<1>4. QED
  BY <1>1, <1>2, <1>3 DEF GoodRoom, NewRoom

\* A room that is started and dealt in one handler is good.
LEMMA StartedAndDealtIsGood ==
    ASSUME NEW room, RoomInvariant(room), room.state = "Waiting",
           NEW seed \in Seeds
    PROVE  /\ AwaitsDeal(Started(room, seed))
           /\ GoodRoom(Dealt(Started(room, seed)))
           /\ Dealt(Started(room, seed)).revealed = seed
           /\ Started(room, seed).seedHash = Hash(seed)
<1> DEFINE started == Started(room, seed)
<1>1. /\ started.state = "Playing" /\ started.seed = seed
      /\ started.seedHash = Hash(seed) /\ started.revealed = NoSeed
      /\ RoomInvariant(started) /\ started \in RoomRecords
      /\ started.players = room.players
  BY StartedIsFine DEF Started, RoomInvariant, RoomRecords
<1>2. started.seedHash # NoSeed
  BY <1>1, HashAssumption
<1>3. AwaitsDeal(started)
  BY <1>1, <1>2 DEF AwaitsDeal
<1>4. /\ RoomInvariant(Dealt(started)) /\ Dealt(started).state = "Playing"
      /\ Dealt(started).revealed = seed
  <2> HIDE DEF started
  <2>1. Dealt(started).revealed = seed
    BY <1>1 DEF Dealt, RoomRecords
  <2>2. QED
    BY <1>1, <1>3, <2>1, DealtIsFine
<1>5. seed # NoSeed
  BY SeedsAssumption
<1> HIDE DEF started
<1>6. GoodRoom(Dealt(started))
  BY <1>4, <1>5 DEF GoodRoom
<1>7. QED
  BY <1>1, <1>3, <1>4, <1>6 DEF started

\* Seats that change their status, and clocks that go on, leave a room good.
LEMMA MarkedRoomIsGood ==
    ASSUME NEW room, GoodRoom(room), NEW p, NEW status \in Statuses,
           SeatsOf(room, p) # {}
    PROVE  GoodRoom(MarkedRoom(room, p, status))
<1> DEFINE new == MarkedRoom(room, p, status)
<1>1. RoomInvariant(room)
  BY DEF GoodRoom
<1>2. /\ RoomInvariant(new)
      /\ new.type = room.type /\ new.state = room.state /\ new.revealed = room.revealed
      /\ Len(new.players) = Len(room.players)
      /\ DOMAIN new.players = DOMAIN room.players
      /\ \A s \in DOMAIN room.players :
            /\ new.players[s].id = room.players[s].id
            /\ \/ new.players[s].status = room.players[s].status
               \/ room.players[s].id = p /\ new.players[s].status = status
  BY <1>1, MarkedIsFine
<1> HIDE DEF new
<1>3. GoodRoom(new)
  BY <1>2 DEF GoodRoom
<1>4. QED
  BY <1>3 DEF new

LEMMA MarkedIsGood ==
    ASSUME NEW rs, GoodRooms(rs), NEW p, NEW status \in Statuses
    PROVE  GoodRooms(Marked(rs, p, status))
<1>1. CASE RoomsOf(rs, p) = {}
  BY <1>1 DEF Marked
<1>2. CASE RoomsOf(rs, p) # {}
  <2> DEFINE k == FindByPlayer(rs, p)
             new == MarkedRoom(rs[k], p, status)
  <2>1. DOMAIN rs \in SUBSET Nat
    BY DEF GoodRooms
  <2>2. k \in RoomsOf(rs, p)
    BY <1>2, <2>1, FirstIsLeast DEF RoomsOf, FindByPlayer
  <2>3. k \in DOMAIN rs /\ SeatsOf(rs[k], p) # {}
    BY <2>2 DEF RoomsOf
  <2>4. GoodRoom(rs[k])
    BY <2>3 DEF GoodRooms
  <2>5. GoodRoom(new)
    BY <2>3, <2>4, MarkedRoomIsGood
  <2>6. Marked(rs, p, status) = [rs EXCEPT ![k] = new]
    BY <1>2, <2>3 DEF Marked
  <2> HIDE DEF k, new
  <2>7. k \in DOMAIN rs
    BY <2>3
  <2>8. GoodRooms([rs EXCEPT ![k] = new])
    BY <2>5, <2>7, ChangeIsGood
  <2>9. QED
    BY <2>6, <2>8
<1>3. QED
  BY <1>1, <1>2

LEMMA AgedIsGood ==
    ASSUME NEW rs, GoodRooms(rs)
    PROVE  GoodRooms(Aged(rs))
<1>1. ASSUME NEW k \in DOMAIN rs
      PROVE  GoodRoom(Older(rs[k])) /\ Older(rs[k]) \in RoomRecords
  <2>1. GoodRoom(rs[k]) /\ rs[k] \in RoomRecords
    BY <1>1 DEF GoodRooms, GoodRoom, RoomInvariant
  <2>2. /\ RoomInvariant(Older(rs[k])) /\ Older(rs[k]).players = rs[k].players
        /\ Older(rs[k]).state = rs[k].state
    BY <2>1, OlderIsFine DEF GoodRoom
  <2>3. Older(rs[k]).type = rs[k].type /\ Older(rs[k]).revealed = rs[k].revealed
    BY <2>1 DEF Older, RoomRecords
  <2>4. QED
    BY <2>1, <2>2, <2>3 DEF GoodRoom, RoomInvariant
<1>2. Len(rs) \in Nat /\ DOMAIN rs = 1..Len(rs)
  BY DEF GoodRooms
<1>3. Aged(rs) \in [1..Len(rs) -> RoomRecords]
  BY <1>1, <1>2 DEF Aged
<1>4. Aged(rs) \in Seq(RoomRecords)
  BY <1>2, <1>3, FunctionIsSeq
<1>5. QED
  BY <1>1, <1>4 DEF Aged, GoodRooms

-----------------------------------------------------------------------------
(* The prologue *)

\* What the good rooms amount to for the code: the
\* loop of start_expired_rooms and the deal before the message types are
\* never needed.
LEMMA PrologueDoesNothing ==
    ASSUME GoodRooms(rooms), NEW sid, NEW draw \in Draws
    PROVE  Prologue(sid, draw) = rooms /\ PrologueReplies(sid, draw) = <<>>
<1>1. ASSUME NEW k \in DOMAIN rooms
      PROVE  ~IsOverdue(rooms[k]) /\ ~AwaitsDeal(rooms[k])
  <2>1. GoodRoom(rooms[k])
    BY <1>1 DEF GoodRooms
  <2>2. ~AwaitsDeal(rooms[k])
    BY <2>1 DEF GoodRoom, AwaitsDeal
  <2>3. ~(rooms[k].type = "Random" /\ CanStart(rooms[k]))
    <3>1. SUFFICES ASSUME rooms[k].type = "Random", CanStart(rooms[k])
                   PROVE  FALSE
      OBVIOUS
    <3>2. Len(rooms[k].players) = 1
      BY <2>1, <3>1 DEF GoodRoom, CanStart
    <3>3. Len(rooms[k].players) >= 2
      BY <3>1 DEF CanStart
    <3>4. QED
      BY <3>2, <3>3
  <2>4. QED
    BY <2>2, <2>3 DEF IsOverdue
<1>2. ExpiredStarted(rooms, draw) = rooms
  <2>1. ExpiredStarted(rooms, draw) = [k \in DOMAIN rooms |-> rooms[k]]
    BY <1>1 DEF ExpiredStarted
  <2>2. QED
    BY <2>1 DEF GoodRooms
<1>3. ~OwesDeal(rooms, sid)
  <2>1. CASE RoomsOf(rooms, sid) = {}
    BY <2>1 DEF OwesDeal
  <2>2. CASE RoomsOf(rooms, sid) # {}
    <3>1. RoomsOf(rooms, sid) \in SUBSET Nat
      BY DEF GoodRooms, RoomsOf
    <3>2. FindByPlayer(rooms, sid) \in RoomsOf(rooms, sid)
      BY <2>2, <3>1, FirstIsLeast DEF FindByPlayer
    <3>3. FindByPlayer(rooms, sid) \in DOMAIN rooms
      BY <3>2 DEF RoomsOf
    <3>4. QED
      BY <1>1, <3>3 DEF OwesDeal
  <2>3. QED
    BY <2>1, <2>2
<1>4. QED
  BY <1>2, <1>3 DEF Prologue, PrologueReplies

-----------------------------------------------------------------------------
(* The replies *)

LEMMA QuietIsFair ==
    ASSUME NEW r, ~Reveals(r)
    PROVE  Committed(<<r>>)
<1>1. \A i \in DOMAIN <<r>> : <<r>>[i] = r
  OBVIOUS
<1>2. QED
  BY <1>1 DEF Committed

LEMMA DealRepliesAreFair ==
    ASSUME NEW k, NEW started, started.seedHash = Hash(Dealt(started).revealed)
    PROVE  /\ Committed(DealReplies(k, started))
           /\ \A r : ~Reveals(r) => Committed(<<r>> \o DealReplies(k, started))
<1> DEFINE a == [type |-> "seed_commitment", room |-> k, hash |-> started.seedHash]
           b == RoomReply("room_started", k, Dealt(started))
<1>1. DealReplies(k, started) = <<a, b>>
  BY DEF DealReplies
<1>2. /\ a.type = "seed_commitment" /\ a.room = b.room
      /\ a.hash = Hash(b.reveal)
  BY DEF RoomReply
<1>3. ~Reveals(a)
  BY DEF Reveals
<1> HIDE DEF a, b
<1>4. Committed(<<a, b>>)
  <2>1. /\ DOMAIN <<a, b>> = {1, 2} /\ <<a, b>>[1] = a /\ <<a, b>>[2] = b
    OBVIOUS
  <2>2. 1 \in 1..(2 - 1) /\ \A m \in 1..1 : m = 1
    OBVIOUS
  <2>3. QED
    BY <1>2, <1>3, <2>1, <2>2 DEF Committed
<1>5. ASSUME NEW r, ~Reveals(r)
      PROVE  Committed(<<r>> \o <<a, b>>)
  <2> DEFINE elements == {r, a, b}
             all == <<r>> \o <<a, b>>
  <2>1. <<r>> \in Seq(elements) /\ <<a, b>> \in Seq(elements) /\ Len(<<r>>) = 1 /\ Len(<<a, b>>) = 2
    OBVIOUS
  <2>2. /\ DOMAIN all = {1, 2, 3} /\ all[1] = r /\ all[2] = a /\ all[3] = b
    BY <2>1, ConcatProperties
  <2>3. 2 \in 1..(3 - 1) /\ \A m \in 1..2 : m = 1 \/ m = 2
    OBVIOUS
  <2> HIDE DEF all
  <2>4. QED
    BY <1>2, <1>3, <1>5, <2>2, <2>3 DEF Committed, all
<1>6. QED
  BY <1>1, <1>4, <1>5

-----------------------------------------------------------------------------
(* The steps *)

LEMMA InitIsGood ==
    Init => IInv /\ Committed(sent)
<1> SUFFICES ASSUME Init
             PROVE  IInv /\ Committed(sent)
  OBVIOUS
<1>1. ConnsOK
  BY ConnsAssumption DEF Init, ConnsOK, Phases
<1>2. GoodRooms(rooms)
  BY DEF Init, GoodRooms
<1>3. Committed(sent)
  BY DEF Init, Committed
<1>4. QED
  BY <1>1, <1>2, <1>3 DEF IInv

\* A handler that answers with one reply of its own after the prologue.
LEMMA AnswerIsFair ==
    ASSUME GoodRooms(rooms), NEW c, NEW draw \in Draws, NEW r, ~Reveals(r),
           Answer(c, Append(PrologueReplies(conns[c].sid, draw), r))
    PROVE  Committed(sent')
<1>1. PrologueReplies(conns[c].sid, draw) = <<>>
  BY PrologueDoesNothing
<1>2. sent' = <<r>>
  BY <1>1 DEF Answer
<1>3. QED
  BY <1>2, QuietIsFair DEF Committed

LEMMA AcceptIsGood ==
    ASSUME IInv, NEW c \in Conns, Accept(c)
    PROVE  IInv' /\ Committed(sent')
<1>1. conns' = [conns EXCEPT ![c].phase = "open"] /\ conns[c].phase = "connecting"
      /\ rooms' = rooms /\ sent' = <<Reply("welcome")>>
  BY DEF Accept, Answer
<1>2. ConnsOK'
  BY <1>1 DEF IInv, ConnsOK, Phases
<1>3. GoodRooms(rooms')
  BY <1>1 DEF IInv
<1>4. ~Reveals(Reply("welcome"))
  BY DEF Reveals, Reply
<1>5. Committed(sent')
  BY <1>1, <1>4, QuietIsFair DEF Committed
<1>6. QED
  BY <1>2, <1>3, <1>5 DEF IInv

LEMMA CloseIsGood ==
    ASSUME IInv, NEW c \in Conns, Close(c)
    PROVE  IInv' /\ Committed(sent')
<1> DEFINE sid == conns[c].sid
<1>1. /\ conns' = [conns EXCEPT ![c].phase = "closed"] /\ conns[c].phase = "open"
      /\ rooms' = Marked(rooms, sid, "Disconnected") /\ sent' = <<>>
  BY DEF Close
<1>2. ConnsOK'
  BY <1>1 DEF IInv, ConnsOK, Phases
<1>3. GoodRooms(rooms')
  BY <1>1, MarkedIsGood DEF IInv, Statuses
<1>4. Committed(sent')
  BY <1>1 DEF Committed
<1>5. QED
  BY <1>2, <1>3, <1>4 DEF IInv

LEMMA TickIsGood ==
    ASSUME IInv, Committed(sent), Tick
    PROVE  IInv' /\ Committed(sent')
<1>1. GoodRooms(rooms')
  BY AgedIsGood DEF IInv, Tick
<1>2. ConnsOK' /\ Committed(sent')
  BY DEF IInv, ConnsOK, Tick
<1>3. QED
  BY <1>1, <1>2 DEF IInv

LEMMA ReconnectIsGood ==
    ASSUME IInv, NEW c \in Conns, NEW id \in PlayerIds, NEW draw \in Draws,
           Reconnect(c, id, draw)
    PROVE  IInv' /\ Committed(sent')
<1>1. GoodRooms(rooms)
  BY DEF IInv
<1>2. /\ conns' = [conns EXCEPT ![c].sid = id] /\ conns[c].phase = "open"
      /\ rooms' = Marked(rooms, id, "Connected")
  BY <1>1, PrologueDoesNothing DEF Reconnect, Receives
<1>3. ConnsOK'
  BY <1>2 DEF IInv, ConnsOK
<1>4. GoodRooms(rooms')
  BY <1>1, <1>2, MarkedIsGood DEF Statuses
<1>5. ~Reveals(Reply("reconnected"))
  BY DEF Reveals, Reply
<1>6. Committed(sent')
  BY <1>1, <1>5, AnswerIsFair DEF Reconnect
<1>7. QED
  BY <1>3, <1>4, <1>6 DEF IInv

\* Most messages leave the connections alone.
LEMMA RoomsOnly ==
    ASSUME IInv, UNCHANGED conns, GoodRooms(rooms')
    PROVE  IInv'
BY DEF IInv, ConnsOK

\* The room that quick_match has put a player in waits or is to be dealt.
LEMMA QuickMatchedIsFine ==
    ASSUME NEW rs, GoodRooms(rs), NEW p \in PlayerIds, NEW seed \in Seeds,
           NEW k, k = QuickMatchRoom(rs), NEW joined, joined = QuickMatched(rs, p, seed)
    PROVE  /\ RoomInvariant(joined[k]) /\ joined[k].revealed = NoSeed
           /\ \/ joined[k].state = "Waiting"
              \/ AwaitsDeal(joined[k]) /\ joined[k].seedHash = Hash(joined[k].seed)
           /\ \A new : GoodRoom(new) => GoodRooms([joined EXCEPT ![k] = new])
           /\ joined = [joined EXCEPT ![k] = joined[k]]
<1>1. DOMAIN rs \in SUBSET Nat /\ rs \in Seq(RoomRecords)
  BY DEF GoodRooms
<1>2. CASE OpenRandom(rs) = {}
  <2> DEFINE room == NewRoom("Random", NoCode, p)
  <2>1. joined = Append(rs, room) /\ k = Len(rs) + 1
    BY <1>2 DEF QuickMatched, QuickMatchRoom
  <2>2. GoodRoom(room)
    BY NewRoomIsGood DEF RoomTypes
  <2>3. room.revealed = NoSeed /\ room.state = "Waiting"
    BY DEF NewRoom
  <2> HIDE DEF room
  <2>4. joined[k] = room /\ k \in DOMAIN joined /\ joined = [joined EXCEPT ![k] = joined[k]]
    <3>1. room \in RoomRecords
      BY <2>2 DEF GoodRoom, RoomInvariant
    <3>2. /\ joined \in Seq(RoomRecords) /\ k \in 1..Len(joined)
          /\ joined[k] = room
      BY <1>1, <2>1, <3>1
    <3>3. QED
      BY <3>2
  <2>5. ASSUME NEW new, GoodRoom(new)
        PROVE  GoodRooms([joined EXCEPT ![k] = new])
    <3>1. GoodRooms(joined)
      BY <2>1, <2>2, OpeningIsGood
    <3>2. QED
      BY <2>4, <2>5, <3>1, ChangeIsGood
  <2>6. QED
    BY <2>2, <2>3, <2>4, <2>5 DEF GoodRoom
<1>3. CASE OpenRandom(rs) # {}
  <2> DEFINE old == rs[k]
             mid == Seated(old, p)
             room == Joined(old, p, seed)
  <2>1. OpenRandom(rs) \in SUBSET Nat
    BY <1>1 DEF OpenRandom
  <2>2. k \in OpenRandom(rs)
    BY <1>3, <2>1, FirstIsLeast DEF QuickMatchRoom
  <2>3. k \in DOMAIN rs /\ Accepts(old) /\ GoodRoom(old)
    BY <2>2 DEF OpenRandom, GoodRooms
  <2>4. joined = [rs EXCEPT ![k] = room]
    BY <1>3 DEF QuickMatched
  <2>5. /\ RoomInvariant(mid) /\ mid.state = "Waiting"
    BY <2>3, SeatedIsFine DEF GoodRoom
  <2>6. mid.revealed = NoSeed
    BY <2>5 DEF RoomInvariant, SeedInvariant
  <2> HIDE DEF mid
  <2>7. /\ RoomInvariant(Started(mid, seed)) /\ Started(mid, seed).players = mid.players
        /\ AwaitsDeal(Started(mid, seed))
        /\ Started(mid, seed).seedHash = Hash(Started(mid, seed).seed)
        /\ Started(mid, seed).revealed = NoSeed
    BY <2>5, StartedIsFine, StartedAndDealtIsGood DEF RoomInvariant, SeedInvariant, AwaitsDeal
  <2>8. room = mid \/ room = Started(mid, seed)
    BY DEF Joined, mid
  <2> HIDE DEF room
  <2>9. joined[k] = room /\ joined = [joined EXCEPT ![k] = joined[k]]
    BY <1>1, <2>3, <2>4
  <2>10. ASSUME NEW new, GoodRoom(new)
         PROVE  GoodRooms([joined EXCEPT ![k] = new])
    <3>1. GoodRooms([rs EXCEPT ![k] = new])
      BY <2>3, <2>10, ChangeIsGood
    <3>2. [joined EXCEPT ![k] = new] = [rs EXCEPT ![k] = new]
      BY <1>1, <2>3, <2>4
    <3>3. QED
      BY <3>1, <3>2
  <2>11. QED
    BY <2>5, <2>6, <2>7, <2>8, <2>9, <2>10
<1>4. QED
  BY <1>2, <1>3

LEMMA QuickMatchIsGood ==
    ASSUME IInv, NEW c \in Conns, NEW draw \in Draws, QuickMatch(c, draw)
    PROVE  IInv' /\ Committed(sent')
<1> DEFINE sid == conns[c].sid
           mid == Prologue(sid, draw)
           k == QuickMatchRoom(mid)
           joined == QuickMatched(mid, sid, draw[k])
           room == joined[k]
           joining == RoomReply("room_joined", k, room)
           greeting == Append(PrologueReplies(sid, draw), joining)
<1>1. GoodRooms(rooms) /\ sid \in PlayerIds
  BY DEF IInv, ConnsOK
<1>2. mid = rooms /\ greeting = <<joining>>
  <2> HIDE DEF sid, joining
  <2>1. Prologue(sid, draw) = rooms /\ PrologueReplies(sid, draw) = <<>>
    BY <1>1, PrologueDoesNothing
  <2>2. QED
    BY <2>1
<1>3. UNCHANGED conns /\ k \in RoomIds
  <2>1. k \in Nat /\ k >= 1
    <3>1. rooms \in Seq(RoomRecords) /\ OpenRandom(rooms) \in SUBSET (1..Len(rooms))
      BY <1>1 DEF GoodRooms, OpenRandom
    <3>2. CASE OpenRandom(rooms) = {}
      BY <1>2, <3>1, <3>2 DEF QuickMatchRoom
    <3>3. CASE OpenRandom(rooms) # {}
      <4>1. First(OpenRandom(rooms)) \in OpenRandom(rooms)
        BY <3>1, <3>3, FirstIsLeast
      <4>2. QED
        BY <1>2, <3>1, <3>3, <4>1 DEF QuickMatchRoom
    <3>4. QED
      BY <3>2, <3>3
  <2>2. QED
    BY <2>1, BoundsAssumption DEF QuickMatch, RoomIds
<1>4. draw[k] \in Seeds
  BY <1>3 DEF Draws
<1> DEFINE seed == draw[k]
<1>5. \/ CanStart(room) /\ rooms' = StartedAndDealt(joined, k, seed)
         /\ sent' = greeting \o DealReplies(k, Started(room, seed))
      \/ AwaitsDeal(room) /\ rooms' = [joined EXCEPT ![k] = Dealt(@)]
         /\ sent' = greeting \o DealReplies(k, room)
      \/ ~CanStart(room) /\ ~AwaitsDeal(room) /\ rooms' = joined /\ sent' = greeting
  BY DEF QuickMatch, Answer
<1> HIDE DEF sid, mid, k
<1>6. /\ RoomInvariant(room) /\ room.revealed = NoSeed
      /\ \/ room.state = "Waiting"
         \/ AwaitsDeal(room) /\ room.seedHash = Hash(room.seed)
      /\ \A new : GoodRoom(new) => GoodRooms([joined EXCEPT ![k] = new])
      /\ joined = [joined EXCEPT ![k] = room]
  BY <1>1, <1>2, <1>4, QuickMatchedIsFine DEF mid, k
<1>7. ~Reveals(joining)
  BY <1>6 DEF RoomReply, Reveals
<1> HIDE DEF joined, joining, greeting, seed
<1>8. CASE CanStart(room) /\ rooms' = StartedAndDealt(joined, k, seed)
           /\ sent' = greeting \o DealReplies(k, Started(room, seed))
  <2>1. /\ GoodRoom(Dealt(Started(room, seed)))
        /\ Started(room, seed).seedHash = Hash(Dealt(Started(room, seed)).revealed)
    <3>1. RoomInvariant(room) /\ room.state = "Waiting" /\ seed \in Seeds
      BY <1>4, <1>6, <1>8 DEF CanStart, seed
    <3>2. /\ GoodRoom(Dealt(Started(room, seed)))
          /\ Dealt(Started(room, seed)).revealed = seed
          /\ Started(room, seed).seedHash = Hash(seed)
      BY <1>6, <3>1, StartedAndDealtIsGood
    <3>3. QED
      BY <3>2
  <2>2. GoodRooms(rooms')
    BY <1>6, <1>8, <2>1 DEF StartedAndDealt
  <2>3. Committed(sent')
    BY <1>2, <1>7, <1>8, <2>1, DealRepliesAreFair
  <2>4. QED
    BY <1>3, <2>2, <2>3, RoomsOnly DEF Committed
<1>9. CASE AwaitsDeal(room) /\ rooms' = [joined EXCEPT ![k] = Dealt(@)]
           /\ sent' = greeting \o DealReplies(k, room)
  <2>1. room.seedHash = Hash(room.seed) /\ Dealt(room).revealed = room.seed
    BY <1>6, <1>9 DEF AwaitsDeal, Dealt, RoomInvariant, RoomRecords
  <2>2. Dealt(room).revealed # NoSeed
    BY <1>6, <1>9, <2>1, SeedsAssumption DEF AwaitsDeal, RoomInvariant, SeedInvariant
  <2>3. /\ RoomInvariant(Dealt(room)) /\ Dealt(room).state = "Playing"
    BY <1>6, <1>9, DealtIsFine
  <2>4. GoodRoom(Dealt(room))
    BY <2>2, <2>3 DEF GoodRoom
  <2>5. GoodRooms(rooms')
    BY <1>6, <1>9, <2>4
  <2>6. Committed(sent')
    BY <1>2, <1>7, <1>9, <2>1, DealRepliesAreFair
  <2>7. QED
    BY <1>3, <2>5, <2>6, RoomsOnly DEF Committed
<1>10. CASE ~CanStart(room) /\ ~AwaitsDeal(room) /\ rooms' = joined /\ sent' = greeting
  <2>1. Len(room.players) = 1 /\ room.state = "Waiting"
    <3>1. room.state = "Waiting" /\ Len(room.players) \in 1..Capacity
      BY <1>6, <1>10 DEF RoomInvariant
    <3>2. ~(Len(room.players) >= 2)
      BY <1>10, <3>1 DEF CanStart
    <3> DEFINE n == Len(room.players)
    <3>3. n \in 1..Capacity /\ ~(n >= 2)
      BY <3>1, <3>2
    <3> HIDE DEF n
    <3>4. n = 1
      BY <3>3, CapacityAssumption
    <3>5. QED
      BY <3>1, <3>4 DEF n
  <2>2. GoodRoom(room)
    BY <1>6, <2>1 DEF GoodRoom
  <2>3. GoodRooms(rooms')
    BY <1>6, <1>10, <2>2
  <2>4. Committed(sent')
    BY <1>2, <1>7, <1>10, QuietIsFair
  <2>5. QED
    BY <1>3, <2>3, <2>4, RoomsOnly DEF Committed
<1>11. QED
  BY <1>5, <1>8, <1>9, <1>10

LEMMA CreatePrivateIsGood ==
    ASSUME IInv, NEW c \in Conns, NEW code \in Codes, NEW draw \in Draws,
           CreatePrivate(c, code, draw)
    PROVE  IInv' /\ Committed(sent')
<1> DEFINE sid == conns[c].sid
           room == NewRoom("Private", code, sid)
           k == Len(rooms) + 1
<1>1. GoodRooms(rooms) /\ sid \in PlayerIds
  BY DEF IInv, ConnsOK
<1>2. rooms' = Append(rooms, room) /\ UNCHANGED conns
  BY <1>1, PrologueDoesNothing DEF CreatePrivate, PrivateCreated
<1>3. GoodRoom(room)
  BY <1>1, NewRoomIsGood DEF RoomTypes
<1>4. GoodRooms(rooms')
  BY <1>1, <1>2, <1>3, OpeningIsGood
<1>5. room.revealed = NoSeed
  BY DEF NewRoom
<1>6. Append(rooms, room)[k] = room
  BY <1>1, <1>3 DEF GoodRooms, GoodRoom, RoomInvariant
<1>7. ~Reveals(RoomReply("room_created", k, Append(rooms, room)[k]))
  BY <1>5, <1>6 DEF Reveals, RoomReply
<1>8. Answer(c, Append(PrologueReplies(sid, draw),
                       RoomReply("room_created", k, Append(rooms, room)[k])))
  BY <1>1, PrologueDoesNothing DEF CreatePrivate, PrivateCreated
<1> HIDE DEF room, k
<1>9. Committed(sent')
  BY <1>1, <1>7, <1>8, AnswerIsFair
<1>10. QED
  BY <1>2, <1>4, <1>9, RoomsOnly

LEMMA JoinPrivateIsGood ==
    ASSUME IInv, NEW c \in Conns, NEW code \in Codes, NEW draw \in Draws,
           JoinPrivate(c, code, draw)
    PROVE  IInv' /\ Committed(sent')
<1> DEFINE sid == conns[c].sid
           k == First(OpenPrivate(rooms, code))
           room == Seated(rooms[k], sid)
<1>1. GoodRooms(rooms) /\ sid \in PlayerIds /\ UNCHANGED conns
  BY DEF IInv, ConnsOK, JoinPrivate
<1>2. Prologue(sid, draw) = rooms
  BY <1>1, PrologueDoesNothing
<1>3. CASE OpenPrivate(rooms, code) # {}
  <2>1. OpenPrivate(rooms, code) \in SUBSET Nat
    BY <1>1 DEF GoodRooms, OpenPrivate
  <2>2. k \in OpenPrivate(rooms, code)
    BY <1>3, <2>1, FirstIsLeast
  <2>3. /\ k \in DOMAIN rooms /\ Accepts(rooms[k]) /\ GoodRoom(rooms[k])
        /\ rooms[k].type = "Private"
    BY <1>1, <2>2 DEF OpenPrivate, GoodRooms
  <2>4. rooms' = [rooms EXCEPT ![k] = room]
    BY <1>2, <1>3 DEF JoinPrivate, PrivateJoined
  <2>5. /\ RoomInvariant(room) /\ room.state = "Waiting"
    BY <1>1, <2>3, SeatedIsFine DEF GoodRoom
  <2>6. room.type = "Private"
    BY <2>3 DEF Seated, GoodRoom, RoomInvariant, RoomRecords
  <2>7. GoodRoom(room) /\ room.revealed = NoSeed
    BY <2>5, <2>6 DEF GoodRoom, RoomInvariant, SeedInvariant
  <2>8. Answer(c, Append(PrologueReplies(sid, draw), RoomReply("room_joined", k, rooms'[k])))
    BY <1>2, <1>3 DEF JoinPrivate
  <2> HIDE DEF room, k
  <2>9. GoodRooms(rooms')
    BY <1>1, <2>3, <2>4, <2>7, ChangeIsGood
  <2>10. rooms'[k] = room
    BY <1>1, <2>3, <2>4 DEF GoodRooms
  <2>11. ~Reveals(RoomReply("room_joined", k, rooms'[k]))
    BY <2>7, <2>10 DEF Reveals, RoomReply
  <2>12. Committed(sent')
    BY <1>1, <2>8, <2>11, AnswerIsFair
  <2>13. QED
    BY <1>1, <2>9, <2>12, RoomsOnly
<1>4. CASE OpenPrivate(rooms, code) = {}
  <2>1. /\ rooms' = rooms
        /\ Answer(c, Append(PrologueReplies(sid, draw), Reply("error")))
    BY <1>2, <1>4 DEF JoinPrivate
  <2>2. ~Reveals(Reply("error"))
    BY DEF Reveals, Reply
  <2>3. QED
    BY <1>1, <2>1, <2>2, AnswerIsFair, RoomsOnly
<1>5. QED
  BY <1>3, <1>4

LEMMA StartRoomIsGood ==
    ASSUME IInv, NEW c \in Conns, NEW k \in RoomIds, NEW draw \in Draws,
           StartRoom(c, k, draw)
    PROVE  IInv' /\ Committed(sent')
<1> DEFINE sid == conns[c].sid
           room == rooms[k]
           seed == draw[k]
<1>1. GoodRooms(rooms) /\ UNCHANGED conns
  BY DEF IInv, StartRoom
<1>2. Prologue(sid, draw) = rooms /\ PrologueReplies(sid, draw) = <<>> /\ seed \in Seeds
  BY <1>1, PrologueDoesNothing DEF Draws
<1>3. CASE k \in DOMAIN rooms /\ CanStart(rooms[k])
  <2>1. /\ rooms' = StartedAndDealt(rooms, k, seed)
        /\ sent' = <<>> \o DealReplies(k, Started(room, seed))
    BY <1>2, <1>3 DEF StartRoom, Answer
  <2>2. GoodRoom(room) /\ room.state = "Waiting"
    BY <1>1, <1>3 DEF GoodRooms, CanStart
  <2> HIDE DEF room, seed
  <2>3. /\ GoodRoom(Dealt(Started(room, seed)))
        /\ Started(room, seed).seedHash = Hash(Dealt(Started(room, seed)).revealed)
    <3>1. /\ RoomInvariant(room) /\ seed \in Seeds
      BY <1>2, <2>2 DEF GoodRoom, seed
    <3>2. /\ GoodRoom(Dealt(Started(room, seed)))
          /\ Dealt(Started(room, seed)).revealed = seed
          /\ Started(room, seed).seedHash = Hash(seed)
      BY <2>2, <3>1, StartedAndDealtIsGood
    <3>3. QED
      BY <3>2
  <2>4. GoodRooms(rooms')
    BY <1>1, <1>3, <2>1, <2>3, ChangeIsGood DEF StartedAndDealt, room
  <2>5. sent' = DealReplies(k, Started(room, seed))
    BY <2>1 DEF DealReplies
  <2>6. Committed(sent')
    BY <2>3, <2>5, DealRepliesAreFair
  <2>7. QED
    BY <1>1, <2>4, <2>6, RoomsOnly DEF Committed
<1>4. CASE ~(k \in DOMAIN rooms /\ CanStart(rooms[k]))
  <2>1. /\ rooms' = rooms
        /\ Answer(c, Append(PrologueReplies(sid, draw), Reply("error")))
    BY <1>2, <1>4 DEF StartRoom
  <2>2. ~Reveals(Reply("error"))
    BY DEF Reveals, Reply
  <2>3. QED
    BY <1>1, <2>1, <2>2, AnswerIsFair, RoomsOnly
<1>5. QED
  BY <1>3, <1>4

\* What is left when a tournament's message has been served.
LEMMA TournamentMessageIsGood ==
    ASSUME IInv, NEW c \in Conns, NEW draw \in Draws, NEW r, ~Reveals(r),
           AnswersAfterPrologue(c, draw, r)
    PROVE  IInv' /\ Committed(sent')
<1>1. GoodRooms(rooms) /\ UNCHANGED conns
  BY DEF IInv, AnswersAfterPrologue
<1>2. rooms' = rooms
  BY <1>1, PrologueDoesNothing DEF AnswersAfterPrologue
<1>3. Committed(sent')
  BY <1>1, AnswerIsFair DEF AnswersAfterPrologue
<1>4. QED
  BY <1>1, <1>2, <1>3, RoomsOnly

LEMMA OtherMessageIsGood ==
    ASSUME IInv, NEW c \in Conns, NEW draw \in Draws, OtherMessage(c, draw)
    PROVE  IInv' /\ Committed(sent')
<1>1. GoodRooms(rooms) /\ UNCHANGED conns
  BY DEF IInv, OtherMessage
<1>2. rooms' = rooms /\ sent' = <<>>
  BY <1>1, PrologueDoesNothing DEF OtherMessage, Answer
<1>3. Committed(sent')
  BY <1>2 DEF Committed
<1>4. QED
  BY <1>1, <1>2, <1>3, RoomsOnly

LEMMA StepIsGood ==
    IInv /\ Committed(sent) /\ [Next]_vars => IInv' /\ Committed(sent')
<1> SUFFICES ASSUME IInv, Committed(sent), [Next]_vars
             PROVE  IInv' /\ Committed(sent')
  OBVIOUS
<1>1. \A type, t : ~Reveals(Reply(type)) /\ ~Reveals(TournamentReply(type, t))
  BY DEF Reveals, Reply, TournamentReply
<1>2. CASE UNCHANGED vars \/ HandlerThrows
  BY <1>2 DEF vars, HandlerThrows, IInv, ConnsOK
<1>3. CASE Tick
  BY <1>3, TickIsGood
<1>4. ASSUME NEW c \in Conns, Accept(c) \/ Close(c)
      PROVE  IInv' /\ Committed(sent')
  BY <1>4, AcceptIsGood, CloseIsGood
<1>5. ASSUME NEW c \in Conns, NEW draw \in Draws, NEW id \in PlayerIds, Reconnect(c, id, draw)
      PROVE  IInv' /\ Committed(sent')
  BY <1>5, ReconnectIsGood
<1>6. ASSUME NEW c \in Conns, NEW draw \in Draws, QuickMatch(c, draw)
      PROVE  IInv' /\ Committed(sent')
  BY <1>6, QuickMatchIsGood
<1>7. ASSUME NEW c \in Conns, NEW draw \in Draws, NEW code \in Codes,
             CreatePrivate(c, code, draw) \/ JoinPrivate(c, code, draw)
      PROVE  IInv' /\ Committed(sent')
  BY <1>7, CreatePrivateIsGood, JoinPrivateIsGood
<1>8. ASSUME NEW c \in Conns, NEW draw \in Draws, NEW k \in RoomIds, StartRoom(c, k, draw)
      PROVE  IInv' /\ Committed(sent')
  BY <1>8, StartRoomIsGood
<1>9. ASSUME NEW c \in Conns, NEW draw \in Draws, CreateTournament(c, draw)
      PROVE  IInv' /\ Committed(sent')
  <2>1. PICK r : ~Reveals(r) /\ AnswersAfterPrologue(c, draw, r)
    BY <1>1, <1>9 DEF CreateTournament
  <2>2. QED
    BY <2>1, TournamentMessageIsGood
<1>10. ASSUME NEW c \in Conns, NEW draw \in Draws, NEW k \in 1..MaxTournaments,
              JoinTournament(c, k, draw)
       PROVE  IInv' /\ Committed(sent')
  <2>1. PICK r : ~Reveals(r) /\ AnswersAfterPrologue(c, draw, r)
    BY <1>1, <1>10 DEF JoinTournament
  <2>2. QED
    BY <2>1, TournamentMessageIsGood
<1>11. ASSUME NEW c \in Conns, NEW draw \in Draws, NEW k \in 1..MaxTournaments,
              StartTournament(c, k, draw)
       PROVE  IInv' /\ Committed(sent')
  <2>1. PICK r : ~Reveals(r) /\ AnswersAfterPrologue(c, draw, r)
    BY <1>1, <1>11 DEF StartTournament
  <2>2. QED
    BY <2>1, TournamentMessageIsGood
<1>12. ASSUME NEW c \in Conns, NEW draw \in Draws, NEW k \in 1..MaxTournaments,
              AdvanceTournament(c, k, draw)
       PROVE  IInv' /\ Committed(sent')
  <2>1. PICK r : ~Reveals(r) /\ AnswersAfterPrologue(c, draw, r)
    BY <1>1, <1>12 DEF AdvanceTournament
  <2>2. QED
    BY <2>1, TournamentMessageIsGood
<1>13. ASSUME NEW c \in Conns, NEW draw \in Draws, OtherMessage(c, draw)
       PROVE  IInv' /\ Committed(sent')
  BY <1>13, OtherMessageIsGood
<1>14. QED
  BY <1>2, <1>3, <1>4, <1>5, <1>6, <1>7, <1>8, <1>9, <1>10, <1>11, <1>12, <1>13 DEF Next

-----------------------------------------------------------------------------
(* Who may change the status of a seat *)

KeptRoom(old, new) ==
    \A s \in DOMAIN old.players :
        s \in DOMAIN new.players /\ new.players[s].status = old.players[s].status

KeptRooms(rs, new) == \A k \in DOMAIN rs : k \in DOMAIN new /\ KeptRoom(rs[k], new[k])

\* What is done to a room changes no status of a seat that was there.
LEMMA SeatedKeeps ==
    ASSUME NEW room \in RoomRecords, NEW p \in PlayerIds
    PROVE  KeptRoom(room, Seated(room, p))
<1>1. room.players \in Seq(Seats) /\ NewSeat(p) \in Seats
  BY NewSeatIsFine DEF RoomRecords
<1>2. Seated(room, p).players = Append(room.players, NewSeat(p))
  BY DEF Seated, RoomRecords
<1>3. \A s \in DOMAIN room.players :
        /\ s \in DOMAIN Append(room.players, NewSeat(p))
        /\ Append(room.players, NewSeat(p))[s] = room.players[s]
  BY <1>1
<1>4. QED
  BY <1>2, <1>3 DEF KeptRoom

LEMMA StartedKeeps ==
    ASSUME NEW room \in RoomRecords, NEW seed
    PROVE  KeptRoom(room, Started(room, seed))
<1>1. Started(room, seed).players = room.players
  BY DEF Started, RoomRecords
<1>2. QED
  BY <1>1 DEF KeptRoom

LEMMA DealtKeeps ==
    ASSUME NEW room \in RoomRecords
    PROVE  KeptRoom(room, Dealt(room))
<1> DEFINE hand(s) == [seed |-> room.seed, from |-> DealIndex(s)]
<1>1. Dealt(room).players = [s \in DOMAIN room.players |-> [room.players[s] EXCEPT !.hand = hand(s)]]
  BY DEF Dealt, RoomRecords
<1>2. \A s \in DOMAIN room.players : room.players[s] \in Seats
  BY DEF RoomRecords
<1> HIDE DEF hand
<1>3. \A s \in DOMAIN room.players :
         [room.players[s] EXCEPT !.hand = hand(s)].status = room.players[s].status
  BY <1>2 DEF Seats
<1>4. QED
  BY <1>1, <1>3 DEF KeptRoom

LEMMA ChangeKeeps ==
    ASSUME NEW rs, NEW k, NEW new, KeptRoom(rs[k], new)
    PROVE  KeptRooms(rs, [rs EXCEPT ![k] = new])
<1>1. \A j \in DOMAIN rs : [rs EXCEPT ![k] = new][j] = IF j = k THEN new ELSE rs[j]
  OBVIOUS
<1>2. QED
  BY <1>1 DEF KeptRooms, KeptRoom

LEMMA AppendKeeps ==
    ASSUME NEW rs \in Seq(RoomRecords), NEW new \in RoomRecords
    PROVE  KeptRooms(rs, Append(rs, new))
<1>1. \A j \in DOMAIN rs : j \in DOMAIN Append(rs, new) /\ Append(rs, new)[j] = rs[j]
  OBVIOUS
<1>2. QED
  BY <1>1 DEF KeptRooms, KeptRoom

LEMMA KeptIsTransitive ==
    ASSUME NEW a, NEW b, NEW c, KeptRooms(a, b), KeptRooms(b, c)
    PROVE  KeptRooms(a, c)
BY DEF KeptRooms, KeptRoom

LEMMA QuickMatchKeeps ==
    ASSUME IInv, NEW c \in Conns, NEW draw \in Draws, QuickMatch(c, draw)
    PROVE  KeptRooms(rooms, rooms')
<1> DEFINE sid == conns[c].sid
           mid == Prologue(sid, draw)
           k == QuickMatchRoom(mid)
           seed == draw[k]
           joined == QuickMatched(mid, sid, seed)
           room == joined[k]
<1>1. GoodRooms(rooms) /\ sid \in PlayerIds
  BY DEF IInv, ConnsOK
<1>2. mid = rooms
  BY <1>1, PrologueDoesNothing
<1>3. \/ rooms' = [joined EXCEPT ![k] = Dealt(Started(joined[k], seed))]
      \/ rooms' = [joined EXCEPT ![k] = Dealt(joined[k])]
      \/ rooms' = joined
  BY DEF QuickMatch, StartedAndDealt
<1> HIDE DEF sid, mid
<1>4. CASE OpenRandom(rooms) = {}
  <2> DEFINE new == NewRoom("Random", NoCode, sid)
  <2>1. joined = Append(rooms, new) /\ k = Len(rooms) + 1
    BY <1>2, <1>4 DEF QuickMatched, QuickMatchRoom
  <2>2. new \in RoomRecords /\ rooms \in Seq(RoomRecords)
    BY <1>1, NewRoomIsFine DEF RoomTypes, RoomInvariant, GoodRooms
  <2> HIDE DEF new, k, joined, seed
  <2>3. KeptRooms(rooms, joined)
    BY <2>1, <2>2, AppendKeeps
  <2>4. ASSUME NEW any
        PROVE  KeptRooms(rooms, [joined EXCEPT ![k] = any])
    <3> DEFINE changed == [joined EXCEPT ![k] = any]
    <3>1. \A j \in DOMAIN rooms : j \in DOMAIN joined /\ j # k
      BY <2>1, <2>2, <2>3 DEF KeptRooms
    <3>2. \A j \in DOMAIN rooms : j \in DOMAIN changed /\ changed[j] = joined[j]
      BY <3>1
    <3> HIDE DEF changed
    <3>3. KeptRooms(rooms, changed)
      BY <3>2, <2>3 DEF KeptRooms
    <3>4. QED
      BY <3>3 DEF changed
  <2>5. QED
    BY <1>3, <2>3, <2>4
<1>5. CASE OpenRandom(rooms) # {}
  <2> DEFINE old == rooms[k]
             new == Joined(old, sid, seed)
  <2>1. joined = [rooms EXCEPT ![k] = new]
    BY <1>2, <1>5 DEF QuickMatched
  <2>2. OpenRandom(rooms) \in SUBSET Nat
    BY <1>1 DEF OpenRandom, GoodRooms
  <2>3. k \in OpenRandom(rooms)
    BY <1>2, <1>5, <2>2, FirstIsLeast DEF QuickMatchRoom
  <2>4. k \in DOMAIN rooms /\ old \in RoomRecords /\ Accepts(old) /\ RoomInvariant(old)
    BY <1>1, <2>3 DEF OpenRandom, GoodRooms, GoodRoom, RoomInvariant
  <2>5. seed \in Seeds
    <3>1. k \in RoomIds
      <4>1. k <= MaxRooms /\ k \in 1..Len(rooms) /\ Len(rooms) \in Nat
        BY <1>1, <2>4 DEF QuickMatch, mid, sid, GoodRooms
      <4>2. QED
        BY <4>1, BoundsAssumption DEF RoomIds
    <3>2. QED
      BY <3>1 DEF Draws
  <2> HIDE DEF k, joined, seed, old
  <2>6. /\ Seated(old, sid) \in RoomRecords /\ KeptRoom(old, Seated(old, sid))
        /\ Seated(old, sid).state = "Waiting" /\ RoomInvariant(Seated(old, sid))
    BY <1>1, <2>4, SeatedIsFine, SeatedKeeps DEF RoomInvariant
  <2>7. /\ Started(Seated(old, sid), seed) \in RoomRecords
        /\ KeptRoom(Seated(old, sid), Started(Seated(old, sid), seed))
    BY <2>5, <2>6, StartedIsFine, StartedKeeps DEF RoomInvariant
  <2>8. new \in RoomRecords /\ KeptRoom(old, new)
    BY <2>6, <2>7 DEF Joined, KeptRoom
  <2> HIDE DEF new
  <2>9. KeptRooms(rooms, joined) /\ joined[k] = new
    BY <2>1, <2>4, <2>8, ChangeKeeps DEF old
  <2>10. CASE rooms' = joined
    BY <2>9, <2>10
  <2>11. CASE rooms' = [joined EXCEPT ![k] = Dealt(joined[k])]
    BY <2>8, <2>9, <2>11, DealtKeeps, ChangeKeeps, KeptIsTransitive
  <2>12. CASE rooms' = [joined EXCEPT ![k] = Dealt(Started(joined[k], seed))]
    <3>1. Started(new, seed) \in RoomRecords
      BY <2>5, <2>8 DEF Started, RoomRecords, RoomStates, Hashes
    <3>2. KeptRoom(new, Dealt(Started(new, seed)))
      BY <2>8, <3>1, StartedKeeps, DealtKeeps DEF KeptRoom
    <3>3. QED
      BY <2>9, <2>12, <3>2, ChangeKeeps, KeptIsTransitive
  <2>13. QED
    BY <1>3, <2>10, <2>11, <2>12
<1>6. QED
  BY <1>4, <1>5

\* Marked changes the first seat of the player it is about, and no other.
LEMMA MarkedSeat ==
    ASSUME GoodRooms(rooms), NEW p, NEW status \in Statuses,
           NEW q, NEW k \in RoomsOf(rooms, q), NEW s \in SeatsOf(rooms[k], q)
    PROVE  LET new == Marked(rooms, p, status)
               first == k = FindByPlayer(rooms, q) /\ s = First(SeatsOf(rooms[k], q))
           IN  /\ new[k].players[s].status # rooms[k].players[s].status => p = q /\ first
               /\ p = q /\ first => new[k].players[s].status = status
<1> DEFINE m == FindByPlayer(rooms, p)
           n == First(SeatsOf(rooms[m], p))
           old == rooms[m].players
<1>1. k \in DOMAIN rooms /\ s \in DOMAIN rooms[k].players /\ rooms[k].players[s].id = q
  BY DEF RoomsOf, SeatsOf
<1>2. CASE RoomsOf(rooms, p) = {}
  <2>1. p # q
    BY <1>2
  <2>2. QED
    BY <1>2, <2>1 DEF Marked
<1>3. CASE RoomsOf(rooms, p) # {}
  <2>1. RoomsOf(rooms, p) \in SUBSET Nat
    BY DEF GoodRooms, RoomsOf
  <2>2. m \in DOMAIN rooms /\ SeatsOf(rooms[m], p) # {}
    BY <1>3, <2>1, FirstIsLeast DEF FindByPlayer, RoomsOf
  <2>3. rooms[m] \in RoomRecords
    BY <2>2 DEF GoodRooms
  <2>4. old \in Seq(Seats)
    BY <2>3 DEF RoomRecords
  <2>5. SeatsOf(rooms[m], p) \in SUBSET Nat
    BY <2>4 DEF SeatsOf
  <2>6. n \in DOMAIN old /\ old[n].id = p
    BY <2>2, <2>5, FirstIsLeast DEF SeatsOf
  <2> DEFINE marked == MarkedRoom(rooms[m], p, status)
  <2>7. marked.players = [old EXCEPT ![n] = [@ EXCEPT !.status = status]]
    BY <2>3 DEF MarkedRoom, RoomRecords
  <2>8. Marked(rooms, p, status) = [rooms EXCEPT ![m] = marked]
    BY <1>3, <2>2 DEF Marked
  <2>9. old[n] \in Seats
    BY <2>4, <2>6
  <2> HIDE DEF m, n, marked
  <2>10. marked.players[n].status = status
    BY <2>6, <2>7, <2>9 DEF Seats
  <2>11. \A t \in DOMAIN old : t # n => marked.players[t] = old[t]
    BY <2>7
  <2>12. CASE k = m /\ s = n
    <3>1. p = q
      BY <1>1, <2>6, <2>12
    <3>2. Marked(rooms, p, status)[k].players[s].status = status
      BY <1>1, <2>8, <2>10, <2>12
    <3>3. QED
      BY <2>12, <3>1, <3>2 DEF m, n
  <2>13. CASE ~(k = m /\ s = n)
    <3>1. Marked(rooms, p, status)[k].players[s] = rooms[k].players[s]
      BY <1>1, <2>2, <2>8, <2>11, <2>13
    <3>2. ~(p = q /\ k = FindByPlayer(rooms, q) /\ s = First(SeatsOf(rooms[k], q)))
      BY <2>13 DEF m, n
    <3>3. QED
      BY <3>1, <3>2
  <2>14. QED
    BY <2>12, <2>13
<1>4. QED
  BY <1>2, <1>3

\* What StatusFollowsConnection says of the seats of one player, but for what a
\* reconnect alone brings about.
ChangeRule(p) ==
    LET leaves == \E c \in Conns :
            conns[c] = [phase |-> "open", sid |-> p] /\ conns'[c].phase = "closed"
        returns == \E c \in Conns, draw \in Draws : Reconnect(c, p, draw)
    IN  \A k \in RoomsOf(rooms, p) : \A s \in SeatsOf(rooms[k], p) :
            LET first == k = FindByPlayer(rooms, p) /\ s = First(SeatsOf(rooms[k], p))
                old == rooms[k].players[s].status
                new == rooms'[k].players[s].status
            IN  /\ new # old => first /\ (leaves \/ returns)
                /\ leaves /\ first => new = "Disconnected"

\* What StatusFollowsConnection says of them.
StatusRule(p) ==
    LET leaves == \E c \in Conns :
            conns[c] = [phase |-> "open", sid |-> p] /\ conns'[c].phase = "closed"
        returns == \E c \in Conns, draw \in Draws : Reconnect(c, p, draw)
    IN  \A k \in RoomsOf(rooms, p) : \A s \in SeatsOf(rooms[k], p) :
            LET first == k = FindByPlayer(rooms, p) /\ s = First(SeatsOf(rooms[k], p))
                old == rooms[k].players[s].status
                new == rooms'[k].players[s].status
            IN  /\ new # old => first /\ (leaves \/ returns)
                /\ leaves /\ first => new = "Disconnected"
                /\ returns /\ first => new = "Connected"

\* A handler that keeps every status does right as long as nobody leaves.
LEMMA KeepsTheRule ==
    ASSUME KeptRooms(rooms, rooms'),
           \A c \in Conns : conns[c].phase = "open" => conns'[c].phase = "open",
           NEW p \in PlayerIds
    PROVE  ChangeRule(p)
<1>1. ~\E c \in Conns : conns[c] = [phase |-> "open", sid |-> p] /\ conns'[c].phase = "closed"
  OBVIOUS
<1>2. \A k \in RoomsOf(rooms, p) : \A s \in SeatsOf(rooms[k], p) :
         rooms'[k].players[s].status = rooms[k].players[s].status
  BY DEF KeptRooms, KeptRoom, RoomsOf, SeatsOf
<1>3. QED
  BY <1>1, <1>2 DEF ChangeRule

LEMMA CloseFollowsTheRule ==
    ASSUME IInv, NEW d \in Conns, Close(d), NEW p \in PlayerIds
    PROVE  ChangeRule(p)
<1> DEFINE leaves == \E c \in Conns :
              conns[c] = [phase |-> "open", sid |-> p] /\ conns'[c].phase = "closed"
<1>1. /\ conns' = [conns EXCEPT ![d].phase = "closed"] /\ conns[d].phase = "open"
      /\ rooms' = Marked(rooms, conns[d].sid, "Disconnected")
      /\ GoodRooms(rooms)
  BY DEF Close, IInv
<1>2. leaves <=> p = conns[d].sid
  <2>1. /\ \A c \in Conns : conns[c] = [phase |-> conns[c].phase, sid |-> conns[c].sid]
        /\ conns'[d].phase = "closed" /\ \A c \in Conns \ {d} : conns'[c] = conns[c]
    BY <1>1 DEF IInv, ConnsOK
  <2>2. ASSUME leaves
        PROVE  p = conns[d].sid
    <3>1. PICK c \in Conns : conns[c] = [phase |-> "open", sid |-> p] /\ conns'[c].phase = "closed"
      BY <2>2
    <3>2. c = d
      BY <2>1, <3>1
    <3>3. QED
      BY <3>1, <3>2
  <2>3. p = conns[d].sid => leaves
    BY <1>1, <2>1
  <2>4. QED
    BY <2>2, <2>3
<1> HIDE DEF leaves
<1>3. ASSUME NEW k \in RoomsOf(rooms, p), NEW s \in SeatsOf(rooms[k], p)
      PROVE  LET first == k = FindByPlayer(rooms, p) /\ s = First(SeatsOf(rooms[k], p))
                 old == rooms[k].players[s].status
                 new == rooms'[k].players[s].status
             IN  (new # old => first /\ leaves) /\ (leaves /\ first => new = "Disconnected")
  BY <1>1, <1>2, <1>3, MarkedSeat DEF Statuses
<1>4. QED
  BY <1>3 DEF ChangeRule, leaves

LEMMA ReconnectFollowsTheRule ==
    ASSUME IInv, NEW d \in Conns, NEW id \in PlayerIds, NEW draw \in Draws,
           Reconnect(d, id, draw), NEW p \in PlayerIds
    PROVE  ChangeRule(p)
<1> DEFINE leaves == \E c \in Conns :
              conns[c] = [phase |-> "open", sid |-> p] /\ conns'[c].phase = "closed"
           returns == \E c \in Conns, seeds \in Draws : Reconnect(c, p, seeds)
<1>1. GoodRooms(rooms)
  BY DEF IInv
<1>2. /\ conns' = [conns EXCEPT ![d].sid = id] /\ conns[d].phase = "open"
      /\ rooms' = Marked(rooms, id, "Connected")
  BY <1>1, PrologueDoesNothing DEF Reconnect, Receives
<1>3. ~leaves
  <2>1. \A c \in Conns : conns'[c].phase = conns[c].phase
    BY <1>2 DEF IInv, ConnsOK
  <2>2. \A c \in Conns : conns[c].phase = "open" => conns'[c].phase # "closed"
    BY <2>1
  <2>3. QED
    BY <2>2
<1>4. p = id => returns
  OBVIOUS
<1> HIDE DEF leaves, returns
<1>5. ASSUME NEW k \in RoomsOf(rooms, p), NEW s \in SeatsOf(rooms[k], p)
      PROVE  LET first == k = FindByPlayer(rooms, p) /\ s = First(SeatsOf(rooms[k], p))
                 old == rooms[k].players[s].status
                 new == rooms'[k].players[s].status
             IN  (new # old => first /\ (leaves \/ returns)) /\ (leaves /\ first => new = "Disconnected")
  BY <1>1, <1>2, <1>3, <1>4, <1>5, MarkedSeat DEF Statuses
<1>6. QED
  BY <1>5 DEF ChangeRule, leaves, returns

\* Whoever comes back finds the first of the seats connected.
LEMMA ReturnShows ==
    ASSUME IInv, NEW p \in PlayerIds,
           \E c \in Conns, draw \in Draws : Reconnect(c, p, draw),
           NEW k \in RoomsOf(rooms, p), NEW s \in SeatsOf(rooms[k], p),
           k = FindByPlayer(rooms, p) /\ s = First(SeatsOf(rooms[k], p))
    PROVE  rooms'[k].players[s].status = "Connected"
<1>1. PICK c \in Conns, draw \in Draws : Reconnect(c, p, draw)
  OBVIOUS
<1>2. GoodRooms(rooms)
  BY DEF IInv
<1>3. rooms' = Marked(rooms, p, "Connected")
  BY <1>1, <1>2, PrologueDoesNothing DEF Reconnect
<1>4. QED
  BY <1>2, <1>3, MarkedSeat DEF Statuses

\* What every other message does to the rooms.
LEMMA MessagesKeep ==
    ASSUME IInv, NEW c \in Conns, NEW draw \in Draws,
           \/ \E code \in Codes : CreatePrivate(c, code, draw) \/ JoinPrivate(c, code, draw)
           \/ \E k \in RoomIds : StartRoom(c, k, draw)
           \/ \E r : AnswersAfterPrologue(c, draw, r)
           \/ OtherMessage(c, draw)
    PROVE  KeptRooms(rooms, rooms')
<1> DEFINE sid == conns[c].sid
<1>1. GoodRooms(rooms) /\ sid \in PlayerIds
  BY DEF IInv, ConnsOK
<1>2. Prologue(sid, draw) = rooms
  BY <1>1, PrologueDoesNothing
<1>3. KeptRooms(rooms, rooms)
  BY DEF KeptRooms, KeptRoom
<1>4. CASE \E code \in Codes : CreatePrivate(c, code, draw)
  <2>1. PICK code \in Codes : rooms' = Append(rooms, NewRoom("Private", code, sid))
    BY <1>2, <1>4 DEF CreatePrivate, PrivateCreated
  <2>2. NewRoom("Private", code, sid) \in RoomRecords /\ rooms \in Seq(RoomRecords)
    BY <1>1, NewRoomIsFine DEF RoomTypes, RoomInvariant, GoodRooms
  <2>3. QED
    BY <2>1, <2>2, AppendKeeps
<1>5. CASE \E code \in Codes : JoinPrivate(c, code, draw)
  <2>1. PICK code \in Codes : JoinPrivate(c, code, draw)
    BY <1>5
  <2> DEFINE k == First(OpenPrivate(rooms, code))
  <2>2. CASE OpenPrivate(rooms, code) = {}
    BY <1>2, <1>3, <2>1, <2>2 DEF JoinPrivate
  <2>3. CASE OpenPrivate(rooms, code) # {}
    <3>1. rooms' = [rooms EXCEPT ![k] = Seated(rooms[k], sid)]
      BY <1>2, <2>1, <2>3 DEF JoinPrivate, PrivateJoined
    <3>2. OpenPrivate(rooms, code) \in SUBSET Nat
      BY <1>1 DEF GoodRooms, OpenPrivate
    <3>3. k \in OpenPrivate(rooms, code)
      BY <2>3, <3>2, FirstIsLeast
    <3> HIDE DEF k
    <3>4. rooms[k] \in RoomRecords
      BY <1>1, <3>3 DEF OpenPrivate, GoodRooms
    <3>5. QED
      BY <1>1, <3>1, <3>4, SeatedKeeps, ChangeKeeps
  <2>4. QED
    BY <2>2, <2>3
<1>6. CASE \E k \in RoomIds : StartRoom(c, k, draw)
  <2>1. PICK k \in RoomIds : StartRoom(c, k, draw)
    BY <1>6
  <2>2. CASE k \in DOMAIN rooms /\ CanStart(rooms[k])
    <3>1. rooms' = [rooms EXCEPT ![k] = Dealt(Started(rooms[k], draw[k]))]
      BY <1>2, <2>1, <2>2 DEF StartRoom, StartedAndDealt
    <3>2. rooms[k] \in RoomRecords /\ draw[k] \in Seeds
      BY <1>1, <2>1, <2>2 DEF GoodRooms, Draws
    <3>3. Started(rooms[k], draw[k]) \in RoomRecords
      BY <3>2 DEF Started, RoomRecords, RoomStates, Hashes
    <3>4. KeptRoom(rooms[k], Dealt(Started(rooms[k], draw[k])))
      BY <3>2, <3>3, StartedKeeps, DealtKeeps DEF KeptRoom
    <3>5. QED
      BY <3>1, <3>4, ChangeKeeps
  <2>3. CASE ~(k \in DOMAIN rooms /\ CanStart(rooms[k]))
    BY <1>2, <1>3, <2>1, <2>3 DEF StartRoom
  <2>4. QED
    BY <2>2, <2>3
<1>7. CASE (\E r : AnswersAfterPrologue(c, draw, r)) \/ OtherMessage(c, draw)
  BY <1>2, <1>3, <1>7 DEF AnswersAfterPrologue, OtherMessage
<1>8. QED
  BY <1>4, <1>5, <1>6, <1>7

LEMMA StepFollowsTheRule ==
    ASSUME IInv, Next, NEW p \in PlayerIds
    PROVE  ChangeRule(p)
<1>1. CASE \E c \in Conns : Accept(c)
  <2>1. PICK c \in Conns : Accept(c)
    BY <1>1
  <2>2. rooms' = rooms /\ conns' = [conns EXCEPT ![c].phase = "open"] /\ ConnsOK
    BY <2>1 DEF Accept, IInv
  <2>3. \A d \in Conns : conns[d].phase = "open" => conns'[d].phase = "open"
    BY <2>2 DEF ConnsOK
  <2>4. QED
    BY <2>2, <2>3, KeepsTheRule DEF KeptRooms, KeptRoom
<1>2. CASE \E c \in Conns : Close(c)
  BY <1>2, CloseFollowsTheRule
<1>3. CASE HandlerThrows
  BY <1>3, KeepsTheRule DEF HandlerThrows, KeptRooms, KeptRoom
<1>4. CASE Tick
  <2>1. rooms' = Aged(rooms) /\ conns' = conns /\ GoodRooms(rooms)
    BY <1>4 DEF Tick, IInv
  <2>2. \A k \in DOMAIN rooms : k \in DOMAIN rooms' /\ rooms'[k].players = rooms[k].players
    BY <2>1, OlderIsFine DEF Aged, GoodRooms, GoodRoom
  <2>3. QED
    BY <2>1, <2>2, KeepsTheRule DEF KeptRooms, KeptRoom
<1>5. ASSUME NEW c \in Conns, NEW draw \in Draws,
             \E id \in PlayerIds : Reconnect(c, id, draw)
      PROVE  ChangeRule(p)
  BY <1>5, ReconnectFollowsTheRule
<1>6. ASSUME NEW c \in Conns, NEW draw \in Draws, QuickMatch(c, draw)
      PROVE  ChangeRule(p)
  <2>1. conns' = conns
    BY <1>6 DEF QuickMatch
  <2>2. QED
    BY <1>6, <2>1, QuickMatchKeeps, KeepsTheRule
<1>7. ASSUME NEW c \in Conns, NEW draw \in Draws,
             \/ \E code \in Codes : CreatePrivate(c, code, draw) \/ JoinPrivate(c, code, draw)
             \/ \E k \in RoomIds : StartRoom(c, k, draw)
             \/ OtherMessage(c, draw)
      PROVE  ChangeRule(p)
  <2>1. conns' = conns
    BY <1>7 DEF CreatePrivate, JoinPrivate, StartRoom, OtherMessage
  <2>2. KeptRooms(rooms, rooms')
    BY <1>7, MessagesKeep
  <2>3. QED
    BY <2>1, <2>2, KeepsTheRule
<1>8. ASSUME NEW c \in Conns, NEW draw \in Draws,
             \/ CreateTournament(c, draw)
             \/ \E k \in 1..MaxTournaments : \/ JoinTournament(c, k, draw)
                                             \/ StartTournament(c, k, draw)
                                             \/ AdvanceTournament(c, k, draw)
      PROVE  ChangeRule(p)
  <2>1. PICK r : AnswersAfterPrologue(c, draw, r)
    BY <1>8 DEF CreateTournament, JoinTournament, StartTournament, AdvanceTournament
  <2>2. conns' = conns
    BY <2>1 DEF AnswersAfterPrologue
  <2>3. KeptRooms(rooms, rooms')
    BY <2>1, MessagesKeep
  <2>4. QED
    BY <2>2, <2>3, KeepsTheRule
<1>9. QED
  BY <1>1, <1>2, <1>3, <1>4, <1>5, <1>6, <1>7, <1>8 DEF Next

-----------------------------------------------------------------------------
(* Tournaments *)

\* tournaments_ is a list, of whatever.
TournamentsListed == \E S : tournaments \in Seq(S)

OwnStep(k) == tournaments'[k] = tournaments[k] \/ T(k)!Next

Changes(k) == k \notin DOMAIN tournaments \/ tournaments'[k] # tournaments[k]

OwnSteps ==
    /\ \A k \in DOMAIN tournaments : k \in DOMAIN tournaments' /\ OwnStep(k)
    /\ \A j, k \in DOMAIN tournaments' : Changes(j) /\ Changes(k) => j = k

\* One tournament changes, by a step of its own.
LEMMA OneTournamentSteps ==
    ASSUME TournamentsListed, NEW j \in DOMAIN tournaments, NEW t,
           tournaments' = [tournaments EXCEPT ![j] = t],
           tournaments'[j] = t => T(j)!Next
    PROVE  TournamentsListed' /\ OwnSteps
<1>1. PICK S : tournaments \in Seq(S)
  BY DEF TournamentsListed
<1>2. tournaments' \in Seq(S \cup {t})
  <2>1. tournaments' \in [1..Len(tournaments) -> S \cup {t}] /\ Len(tournaments) \in Nat
    BY <1>1
  <2>2. QED
    BY <2>1, FunctionIsSeq
<1>3. TournamentsListed'
  BY <1>2 DEF TournamentsListed
<1>4. /\ DOMAIN tournaments' = DOMAIN tournaments /\ tournaments'[j] = t
      /\ \A k \in DOMAIN tournaments : k # j => tournaments'[k] = tournaments[k]
  OBVIOUS
<1>5. \A k \in DOMAIN tournaments : OwnStep(k)
  BY <1>4 DEF OwnStep
<1>6. \A k \in DOMAIN tournaments' : Changes(k) => k = j
  BY <1>4 DEF Changes
<1>7. QED
  BY <1>3, <1>4, <1>5, <1>6 DEF OwnSteps

LEMMA NoTournamentSteps ==
    ASSUME TournamentsListed, UNCHANGED tournaments
    PROVE  TournamentsListed' /\ OwnSteps
BY DEF TournamentsListed, OwnSteps, OwnStep, Changes

LEMMA CreatingIsListed ==
    ASSUME TournamentsListed, NEW c, NEW draw, CreateTournament(c, draw)
    PROVE  TournamentsListed' /\ OwnSteps
<1>1. PICK S : tournaments \in Seq(S)
  BY DEF TournamentsListed
<1>2. PICK t : tournaments' = Append(tournaments, t)
  BY DEF CreateTournament
<1>3. tournaments \in Seq(S \cup {t})
  BY <1>1
<1>4. tournaments' \in Seq(S \cup {t})
  BY <1>2, <1>3
<1>5. \A k \in DOMAIN tournaments : k \in DOMAIN tournaments' /\ tournaments'[k] = tournaments[k]
  BY <1>2, <1>3
<1>6. \A k \in DOMAIN tournaments' : Changes(k) => k = Len(tournaments) + 1
  <2>1. DOMAIN tournaments' = 1..(Len(tournaments) + 1) /\ DOMAIN tournaments = 1..Len(tournaments)
        /\ Len(tournaments) \in Nat
    BY <1>2, <1>3
  <2>2. QED
    BY <1>5, <2>1 DEF Changes
<1>7. QED
  BY <1>4, <1>5, <1>6 DEF TournamentsListed, OwnSteps, OwnStep

LEMMA JoiningIsOwn ==
    ASSUME ConnsOK, TournamentsListed, NEW c \in Conns, NEW k, NEW draw,
           JoinTournament(c, k, draw)
    PROVE  TournamentsListed' /\ OwnSteps
<1>1. CASE k \in DOMAIN tournaments /\ T(k)!CanJoin(tournaments[k])
  <2> DEFINE t == T(k)!Joined(tournaments[k], conns[c].sid)
  <2>1. tournaments' = [tournaments EXCEPT ![k] = t]
    BY <1>1 DEF JoinTournament
  <2>2. conns[c].sid \in PlayerIds
    BY DEF ConnsOK
  <2>3. tournaments'[k] = t => T(k)!Next
    BY <1>1, <2>2 DEF T!Next, T!Join
  <2> HIDE DEF t
  <2>4. QED
    BY <1>1, <2>1, <2>3, OneTournamentSteps
<1>2. CASE ~(k \in DOMAIN tournaments /\ T(k)!CanJoin(tournaments[k]))
  BY <1>2, NoTournamentSteps DEF JoinTournament
<1>3. QED
  BY <1>1, <1>2

LEMMA StartingIsOwn ==
    ASSUME TournamentsListed, NEW c, NEW k, NEW draw, StartTournament(c, k, draw)
    PROVE  TournamentsListed' /\ OwnSteps
<1>1. CASE k \in DOMAIN tournaments /\ T(k)!CanStart(tournaments[k])
  <2>1. PICK hands \in [tournaments[k].alive -> T(k)!Strengths] :
            tournaments' = [tournaments EXCEPT ![k] = T(k)!Started(@, hands)]
    BY <1>1 DEF StartTournament
  <2> DEFINE t == T(k)!Started(tournaments[k], hands)
  <2>2. tournaments'[k] = t => T(k)!Next
    BY <1>1, <2>1 DEF T!Next, T!Start
  <2>3. tournaments' = [tournaments EXCEPT ![k] = t]
    BY <1>1, <2>1
  <2> HIDE DEF t
  <2>4. QED
    BY <1>1, <2>2, <2>3, OneTournamentSteps
<1>2. CASE ~(k \in DOMAIN tournaments /\ T(k)!CanStart(tournaments[k]))
  BY <1>2, NoTournamentSteps DEF StartTournament
<1>3. QED
  BY <1>1, <1>2

LEMMA AdvancingIsOwn ==
    ASSUME TournamentsListed, NEW c, NEW k, NEW draw, AdvanceTournament(c, k, draw)
    PROVE  TournamentsListed' /\ OwnSteps
<1>1. k \in DOMAIN tournaments
  BY DEF AdvanceTournament
<1>2. CASE tournaments[k].state = "Running"
  <2>1. PICK hands \in [tournaments[k].alive -> T(k)!Strengths] :
            tournaments' = [tournaments EXCEPT ![k] = T(k)!Advanced(@, hands)]
    BY <1>2 DEF AdvanceTournament
  <2> DEFINE t == T(k)!Advanced(tournaments[k], hands)
  <2>2. tournaments'[k] = t => T(k)!Next
    BY <1>2, <2>1 DEF T!Next, T!AdvanceRound
  <2>3. tournaments' = [tournaments EXCEPT ![k] = t]
    BY <1>1, <2>1
  <2> HIDE DEF t
  <2>4. QED
    BY <1>1, <2>2, <2>3, OneTournamentSteps
<1>3. CASE tournaments[k].state # "Running"
  BY <1>3, NoTournamentSteps DEF AdvanceTournament
<1>4. QED
  BY <1>2, <1>3

\* Only messages about tournaments change them.
LEMMA TournamentSteps ==
    ASSUME [Next]_vars, tournaments' # tournaments
    PROVE  \E c \in Conns, draw \in Draws :
              \/ CreateTournament(c, draw)
              \/ \E k \in 1..MaxTournaments :
                    \/ JoinTournament(c, k, draw)
                    \/ StartTournament(c, k, draw)
                    \/ AdvanceTournament(c, k, draw)
<1>1. CASE UNCHANGED vars \/ HandlerThrows \/ Tick
  BY <1>1 DEF vars, HandlerThrows, Tick
<1>2. ASSUME NEW c \in Conns, Accept(c) \/ Close(c)
      PROVE  UNCHANGED tournaments
  BY <1>2 DEF Accept, Close
<1>3. ASSUME NEW c \in Conns, NEW draw \in Draws,
             \/ \E id \in PlayerIds : Reconnect(c, id, draw)
             \/ QuickMatch(c, draw)
             \/ \E code \in Codes : CreatePrivate(c, code, draw) \/ JoinPrivate(c, code, draw)
             \/ \E k \in RoomIds : StartRoom(c, k, draw)
             \/ OtherMessage(c, draw)
      PROVE  UNCHANGED tournaments
  BY <1>3 DEF Reconnect, QuickMatch, CreatePrivate, JoinPrivate, StartRoom, OtherMessage
<1>4. QED
  BY <1>1, <1>2, <1>3 DEF Next

LEMMA StepIsOwn ==
    IInv /\ TournamentsListed /\ [Next]_vars => TournamentsListed' /\ [OwnSteps]_vars
<1> SUFFICES ASSUME IInv, TournamentsListed, [Next]_vars
             PROVE  TournamentsListed' /\ OwnSteps
  OBVIOUS
<1>1. CASE UNCHANGED tournaments
  BY <1>1, NoTournamentSteps
<1>2. CASE \E c \in Conns, draw \in Draws : CreateTournament(c, draw)
  BY <1>2, CreatingIsListed
<1>3. CASE \E c \in Conns, draw \in Draws : \E k \in 1..MaxTournaments :
              \/ JoinTournament(c, k, draw)
              \/ StartTournament(c, k, draw)
              \/ AdvanceTournament(c, k, draw)
  BY <1>3, JoiningIsOwn, StartingIsOwn, AdvancingIsOwn DEF IInv
<1>4. QED
  BY <1>1, <1>2, <1>3, TournamentSteps

-----------------------------------------------------------------------------
(* The shape of what the sessions share *)

\* No handler creates a room beyond the bound, and who is sent a commitment is
\* sent that of a room.
Bounded == Len(rooms) <= MaxRooms /\ committed \in [Conns -> SUBSET RoomIds]

\* The commitments among some replies are those of rooms.
CommitsRooms(replies) ==
    \A i \in DOMAIN replies : replies[i].type = "seed_commitment" => replies[i].room \in RoomIds

LEMMA AnswerIsBounded ==
    ASSUME Bounded, NEW c \in Conns, NEW replies, CommitsRooms(replies),
           Answer(c, replies), Len(rooms') <= MaxRooms
    PROVE  Bounded'
<1> DEFINE new == {replies[i].room : i \in {j \in DOMAIN replies :
                                               replies[j].type = "seed_commitment"}}
<1>1. new \subseteq RoomIds
  BY DEF CommitsRooms
<1>2. committed' = [committed EXCEPT ![c] = @ \cup new]
  BY DEF Answer
<1> HIDE DEF new
<1>3. committed' \in [Conns -> SUBSET RoomIds]
  BY <1>1, <1>2 DEF Bounded
<1>4. QED
  BY <1>3 DEF Bounded

\* One reply that is no commitment, after a prologue that does nothing.
LEMMA QuietAnswerIsBounded ==
    ASSUME IInv, Bounded, NEW c \in Conns, NEW draw \in Draws,
           NEW r, r.type # "seed_commitment",
           Answer(c, Append(PrologueReplies(conns[c].sid, draw), r)),
           Len(rooms') <= MaxRooms
    PROVE  Bounded'
<1>1. PrologueReplies(conns[c].sid, draw) = <<>>
  BY PrologueDoesNothing DEF IInv
<1>2. Append(<<>>, r) = <<r>> /\ DOMAIN <<r>> = {1} /\ <<r>>[1] = r
  OBVIOUS
<1>3. CommitsRooms(<<r>>)
  BY <1>2 DEF CommitsRooms
<1>4. QED
  BY <1>1, <1>2, <1>3, AnswerIsBounded

LEMMA DealRepliesCommitRooms ==
    ASSUME NEW k \in RoomIds, NEW started
    PROVE  /\ CommitsRooms(DealReplies(k, started))
           /\ \A r : r.type # "seed_commitment" => CommitsRooms(<<r>> \o DealReplies(k, started))
<1> DEFINE a == [type |-> "seed_commitment", room |-> k, hash |-> started.seedHash]
           b == RoomReply("room_started", k, Dealt(started))
<1>1. DealReplies(k, started) = <<a, b>> /\ a.room = k /\ b.room = k
  BY DEF DealReplies, RoomReply
<1> HIDE DEF a, b
<1>2. CommitsRooms(<<a, b>>)
  <2>1. DOMAIN <<a, b>> = {1, 2} /\ <<a, b>>[1] = a /\ <<a, b>>[2] = b
    OBVIOUS
  <2>2. QED
    BY <1>1, <2>1 DEF CommitsRooms
<1>3. ASSUME NEW r, r.type # "seed_commitment"
      PROVE  CommitsRooms(<<r>> \o <<a, b>>)
  <2> DEFINE elements == {r, a, b}
             all == <<r>> \o <<a, b>>
  <2>1. <<r>> \in Seq(elements) /\ <<a, b>> \in Seq(elements) /\ Len(<<r>>) = 1 /\ Len(<<a, b>>) = 2
    OBVIOUS
  <2>2. DOMAIN all = {1, 2, 3} /\ all[1] = r /\ all[2] = a /\ all[3] = b
    BY <2>1, ConcatProperties
  <2> HIDE DEF all
  <2>3. QED
    BY <1>1, <1>3, <2>2 DEF CommitsRooms, all
<1>4. QED
  BY <1>1, <1>2, <1>3

\* What is done to an element of a list leaves the length of the list.
LEMMA ChangeKeepsLength ==
    ASSUME NEW S, NEW rs \in Seq(S), NEW k, NEW new
    PROVE  Len([rs EXCEPT ![k] = new]) = Len(rs)
<1>1. Len(rs) \in Nat /\ rs \in [1..Len(rs) -> S]
  OBVIOUS
<1>2. [rs EXCEPT ![k] = new] \in [1..Len(rs) -> S \cup {new}]
  BY <1>1
<1>3. QED
  BY <1>1, <1>2, FunctionIsSeq

LEMMA MarkedKeepsLength ==
    ASSUME NEW rs \in Seq(RoomRecords), NEW p, NEW status
    PROVE  Len(Marked(rs, p, status)) = Len(rs)
BY ChangeKeepsLength DEF Marked

LEMMA QuickMatchIsBounded ==
    ASSUME IInv, Bounded, NEW c \in Conns, NEW draw \in Draws, QuickMatch(c, draw)
    PROVE  Bounded'
<1> DEFINE sid == conns[c].sid
           mid == Prologue(sid, draw)
           k == QuickMatchRoom(mid)
           joined == QuickMatched(mid, sid, draw[k])
           room == joined[k]
           joining == RoomReply("room_joined", k, room)
           greeting == Append(PrologueReplies(sid, draw), joining)
<1>1. GoodRooms(rooms) /\ sid \in PlayerIds /\ rooms \in Seq(RoomRecords)
  BY DEF IInv, ConnsOK, GoodRooms
<1>2. mid = rooms /\ greeting = <<joining>>
  <2> HIDE DEF sid, joining
  <2>1. Prologue(sid, draw) = rooms /\ PrologueReplies(sid, draw) = <<>>
    BY <1>1, PrologueDoesNothing
  <2>2. QED
    BY <2>1
<1>3. k <= MaxRooms
  BY DEF QuickMatch
<1>4. \/ /\ rooms' = StartedAndDealt(joined, k, draw[k])
         /\ Answer(c, greeting \o DealReplies(k, Started(room, draw[k])))
      \/ /\ rooms' = [joined EXCEPT ![k] = Dealt(@)]
         /\ Answer(c, greeting \o DealReplies(k, room))
      \/ /\ rooms' = joined
         /\ Answer(c, greeting)
  BY DEF QuickMatch
<1> HIDE DEF mid, sid
<1>5. k \in RoomIds /\ joined \in Seq(RoomRecords) /\ Len(joined) <= MaxRooms
  <2>1. CASE OpenRandom(rooms) = {}
    <3> DEFINE new == NewRoom("Random", NoCode, sid)
    <3>1. joined = Append(rooms, new) /\ k = Len(rooms) + 1
      BY <1>2, <2>1 DEF QuickMatched, QuickMatchRoom
    <3>2. new \in RoomRecords
      BY <1>1, NewRoomIsFine DEF RoomTypes, RoomInvariant
    <3> HIDE DEF new, joined, k
    <3>3. QED
      BY <1>1, <1>3, <3>1, <3>2, BoundsAssumption DEF RoomIds
  <2>2. CASE OpenRandom(rooms) # {}
    <3> DEFINE old == rooms[k]
    <3>1. OpenRandom(rooms) \in SUBSET Nat
      BY <1>1 DEF OpenRandom
    <3>2. k \in OpenRandom(rooms)
      BY <1>2, <2>2, <3>1, FirstIsLeast DEF QuickMatchRoom
    <3>3. k \in 1..Len(rooms) /\ RoomInvariant(old) /\ Accepts(old) /\ Len(rooms) \in Nat
      BY <1>1, <3>2 DEF OpenRandom, GoodRooms, GoodRoom
    <3>4. k \in RoomIds
      BY <1>3, <3>3, BoundsAssumption DEF RoomIds
    <3>5. draw[k] \in Seeds
      BY <3>4 DEF Draws
    <3>6. joined = [rooms EXCEPT ![k] = Joined(old, sid, draw[k])]
      BY <1>2, <2>2 DEF QuickMatched
    <3> HIDE DEF old, k
    <3>7. Joined(old, sid, draw[k]) \in RoomRecords
      BY <1>1, <3>3, <3>5, SeatedIsFine, StartedIsFine DEF Joined, RoomInvariant
    <3>8. [rooms EXCEPT ![k] = Joined(old, sid, draw[k])] \in Seq(RoomRecords)
      BY <1>1, <3>3, <3>7
    <3>9. Len(joined) = Len(rooms)
      BY <1>1, <3>6, ChangeKeepsLength
    <3>10. QED
      BY <3>4, <3>6, <3>8, <3>9 DEF Bounded
  <2>3. QED
    BY <2>1, <2>2
<1>6. Len(rooms') <= MaxRooms
  <2> HIDE DEF joined, k
  <2>1. QED
    BY <1>4, <1>5, ChangeKeepsLength DEF StartedAndDealt
<1>7. joining.type # "seed_commitment"
  BY DEF RoomReply
<1> HIDE DEF joined, k, joining, room
<1>8. CommitsRooms(<<joining>>)
  <2>1. DOMAIN <<joining>> = {1} /\ <<joining>>[1] = joining
    OBVIOUS
  <2>2. QED
    BY <1>7, <2>1 DEF CommitsRooms
<1>9. PICK replies : Answer(c, replies) /\ CommitsRooms(replies)
  BY <1>2, <1>4, <1>5, <1>7, <1>8, DealRepliesCommitRooms
<1>10. QED
  BY <1>6, <1>9, AnswerIsBounded

LEMMA StepIsBounded ==
    IInv /\ Bounded /\ [Next]_vars => Bounded'
<1> SUFFICES ASSUME IInv, Bounded, [Next]_vars
             PROVE  Bounded'
  OBVIOUS
<1>1. /\ rooms \in Seq(RoomRecords) /\ Len(rooms) \in Nat /\ GoodRooms(rooms)
      /\ \A c \in Conns, draw \in Draws :
            /\ Prologue(conns[c].sid, draw) = rooms
            /\ PrologueReplies(conns[c].sid, draw) = <<>>
  <2>1. GoodRooms(rooms) /\ rooms \in Seq(RoomRecords)
    BY DEF IInv, GoodRooms
  <2>2. Len(rooms) \in Nat
    BY <2>1
  <2>3. QED
    BY <2>1, <2>2, PrologueDoesNothing
<1>2. CASE UNCHANGED vars \/ HandlerThrows
  BY <1>2 DEF vars, HandlerThrows, Bounded
<1>3. CASE Tick
  <2>1. Len(Aged(rooms)) = Len(rooms)
    <3>1. Aged(rooms) \in [1..Len(rooms) -> {Older(rooms[k]) : k \in DOMAIN rooms}]
      BY <1>1 DEF Aged
    <3>2. QED
      BY <1>1, <3>1, FunctionIsSeq
  <2>2. QED
    BY <1>3, <2>1 DEF Tick, Bounded
<1>4. ASSUME NEW c \in Conns, Accept(c)
      PROVE  Bounded'
  <2>1. CommitsRooms(<<Reply("welcome")>>)
    <3>1. DOMAIN <<Reply("welcome")>> = {1} /\ <<Reply("welcome")>>[1].type = "welcome"
      BY DEF Reply
    <3>2. QED
      BY <3>1 DEF CommitsRooms
  <2>2. Answer(c, <<Reply("welcome")>>) /\ rooms' = rooms
    BY <1>4 DEF Accept
  <2>3. QED
    BY <2>1, <2>2, AnswerIsBounded DEF Bounded
<1>5. ASSUME NEW c \in Conns, Close(c)
      PROVE  Bounded'
  BY <1>1, <1>5, MarkedKeepsLength DEF Close, Bounded
<1>6. ASSUME NEW c \in Conns, NEW draw \in Draws, NEW id \in PlayerIds, Reconnect(c, id, draw)
      PROVE  Bounded'
  <2>1. Len(rooms') <= MaxRooms
    BY <1>1, <1>6, MarkedKeepsLength DEF Reconnect, Bounded
  <2>2. Reply("reconnected").type # "seed_commitment"
    BY DEF Reply
  <2>3. QED
    BY <1>6, <2>1, <2>2, QuietAnswerIsBounded DEF Reconnect
<1>7. ASSUME NEW c \in Conns, NEW draw \in Draws, QuickMatch(c, draw)
      PROVE  Bounded'
  BY <1>7, QuickMatchIsBounded
<1>8. ASSUME NEW c \in Conns, NEW draw \in Draws, NEW code \in Codes,
             CreatePrivate(c, code, draw)
      PROVE  Bounded'
  <2> DEFINE new == NewRoom("Private", code, conns[c].sid)
             k == Len(rooms) + 1
             r == RoomReply("room_created", k, Append(rooms, new)[k])
  <2>1. /\ rooms' = Append(rooms, new) /\ k <= MaxRooms
        /\ Answer(c, Append(PrologueReplies(conns[c].sid, draw), r))
    BY <1>1, <1>8 DEF CreatePrivate, PrivateCreated
  <2>2. new \in RoomRecords
    BY NewRoomIsFine DEF IInv, ConnsOK, RoomTypes, RoomInvariant
  <2>3. r.type # "seed_commitment"
    BY DEF RoomReply
  <2> HIDE DEF new, r
  <2>4. Len(rooms') <= MaxRooms
    BY <1>1, <2>1, <2>2
  <2>5. QED
    BY <2>1, <2>3, <2>4, QuietAnswerIsBounded
<1>9. ASSUME NEW c \in Conns, NEW draw \in Draws, NEW code \in Codes,
             JoinPrivate(c, code, draw)
      PROVE  Bounded'
  <2>1. Len(rooms') <= MaxRooms
    BY <1>1, <1>9, ChangeKeepsLength DEF JoinPrivate, PrivateJoined, Bounded
  <2>2. PICK r : r.type # "seed_commitment"
                 /\ Answer(c, Append(PrologueReplies(conns[c].sid, draw), r))
    <3>1. \A k, room : RoomReply("room_joined", k, room).type # "seed_commitment"
      BY DEF RoomReply
    <3>2. Reply("error").type # "seed_commitment"
      BY DEF Reply
    <3>3. QED
      BY <1>9, <3>1, <3>2 DEF JoinPrivate
  <2>3. QED
    BY <2>1, <2>2, QuietAnswerIsBounded
<1>10. ASSUME NEW c \in Conns, NEW draw \in Draws, NEW k \in RoomIds, StartRoom(c, k, draw)
       PROVE  Bounded'
  <2>1. Len(rooms') <= MaxRooms
    BY <1>1, <1>10, ChangeKeepsLength DEF StartRoom, StartedAndDealt, Bounded
  <2>2. CASE k \in DOMAIN rooms /\ CanStart(rooms[k])
    <3> DEFINE started == Started(rooms[k], draw[k])
    <3>1. Answer(c, <<>> \o DealReplies(k, started))
      BY <1>1, <1>10, <2>2 DEF StartRoom
    <3> HIDE DEF started
    <3>2. <<>> \o DealReplies(k, started) = DealReplies(k, started)
      BY DEF DealReplies
    <3>3. QED
      BY <2>1, <3>1, <3>2, DealRepliesCommitRooms, AnswerIsBounded
  <2>3. CASE ~(k \in DOMAIN rooms /\ CanStart(rooms[k]))
    <3>1. Answer(c, Append(PrologueReplies(conns[c].sid, draw), Reply("error")))
      BY <1>1, <1>10, <2>3 DEF StartRoom
    <3>2. Reply("error").type # "seed_commitment"
      BY DEF Reply
    <3>3. QED
      BY <2>1, <3>1, <3>2, QuietAnswerIsBounded
  <2>4. QED
    BY <2>2, <2>3
<1>11. ASSUME NEW c \in Conns, NEW draw \in Draws,
              \/ CreateTournament(c, draw)
              \/ \E k \in 1..MaxTournaments : \/ JoinTournament(c, k, draw)
                                              \/ StartTournament(c, k, draw)
                                              \/ AdvanceTournament(c, k, draw)
       PROVE  Bounded'
  <2>1. PICK r : r.type # "seed_commitment" /\ AnswersAfterPrologue(c, draw, r)
    <3>1. \A t : /\ TournamentReply("tournament_created", t).type # "seed_commitment"
                 /\ TournamentReply("tournament_joined", t).type # "seed_commitment"
                 /\ TournamentReply("tournament_round_started", t).type # "seed_commitment"
                 /\ TournamentReply("tournament_finished", t).type # "seed_commitment"
      BY DEF TournamentReply
    <3>2. Reply("error").type # "seed_commitment"
      BY DEF Reply
    <3>3. CASE CreateTournament(c, draw)
      BY <3>1, <3>3 DEF CreateTournament
    <3>4. CASE \E k \in 1..MaxTournaments : JoinTournament(c, k, draw)
      BY <3>1, <3>2, <3>4 DEF JoinTournament
    <3>5. CASE \E k \in 1..MaxTournaments : StartTournament(c, k, draw)
      BY <3>1, <3>2, <3>5 DEF StartTournament
    <3>6. CASE \E k \in 1..MaxTournaments : AdvanceTournament(c, k, draw)
      BY <3>1, <3>6 DEF AdvanceTournament
    <3>7. QED
      BY <1>11, <3>3, <3>4, <3>5, <3>6
  <2>2. rooms' = rooms
    BY <1>1, <2>1 DEF AnswersAfterPrologue
  <2>3. Len(rooms') <= MaxRooms
    BY <2>2 DEF Bounded
  <2>4. QED
    BY <2>1, <2>3, QuietAnswerIsBounded DEF AnswersAfterPrologue
<1>12. ASSUME NEW c \in Conns, NEW draw \in Draws, OtherMessage(c, draw)
       PROVE  Bounded'
  <2>1. rooms' = rooms /\ Answer(c, <<>>)
    BY <1>1, <1>12 DEF OtherMessage
  <2>2. CommitsRooms(<<>>)
    BY DEF CommitsRooms
  <2>3. QED
    BY <2>1, <2>2, AnswerIsBounded DEF Bounded
<1>13. QED
  BY <1>2, <1>3, <1>4, <1>5, <1>6, <1>7, <1>8, <1>9, <1>10, <1>11, <1>12 DEF Next

-----------------------------------------------------------------------------
(* The shape of the tournaments *)

\* Tournament!Tournaments, whichever tournament it is.
Shapes ==
    [state   : {"Registering", "Running", "Finished"},
     entries : Seq(PlayerIds),
     alive   : SUBSET (1..MaxParticipants),
     tables  : SUBSET SUBSET (1..MaxParticipants),
     hands   : UNION {[S -> 0..MaxStrength] : S \in SUBSET (1..MaxParticipants)},
     winner  : PlayerIds \cup {NoPlayer}]

\* Survivors are positions of `entries`, and while players register nobody who
\* joined is out, so that the limit of join_tournament bounds the positions.
Sound(t) ==
    /\ t \in Shapes
    /\ t.alive \subseteq DOMAIN t.entries
    /\ t.state = "Registering" => t.alive = 1..Len(t.entries)

TournamentsSound ==
    tournaments \in Seq({t \in Shapes : Sound(t)}) /\ Len(tournaments) <= MaxTournaments

LEMMA ShapesAreTyped ==
    ASSUME TournamentsSound, NEW k \in DOMAIN tournaments
    PROVE  T(k)!TypeOK
<1>1. tournaments[k] \in Shapes
  BY DEF TournamentsSound
<1>2. QED
  BY <1>1 DEF Shapes, T!TypeOK, T!Tournaments, T!TournamentStates, T!Positions, T!Strengths

\* The instance of Tournament brings a Cardinality of its own.
LEMMA SameCardinality ==
    ASSUME NEW k, NEW S
    PROVE  T(k)!Cardinality(S) = Cardinality(S)
BY DEF T!Cardinality, Cardinality

LEMMA JoinedIsSound ==
    ASSUME NEW t, Sound(t), NEW k, T(k)!CanJoin(t), NEW p \in PlayerIds
    PROVE  Sound(T(k)!Joined(t, p))
<1> DEFINE n == Len(t.entries)
           entries == Append(t.entries, p)
<1>1. /\ t \in Shapes /\ t.state = "Registering" /\ t.alive = 1..n /\ n \in Nat
      /\ t.entries \in Seq(PlayerIds) /\ Cardinality(t.alive) < MaxParticipants
  BY SameCardinality DEF Sound, Shapes, T!CanJoin
<1>2. n < MaxParticipants
  <2>1. Cardinality(1..n) = n
    BY <1>1, FS_Interval
  <2>2. QED
    BY <1>1, <2>1
<1>3. entries \in Seq(PlayerIds) /\ Len(entries) = n + 1 /\ DOMAIN entries = 1..(n + 1)
  BY <1>1
<1>4. T(k)!Joined(t, p) = [t EXCEPT !.entries = entries, !.alive = @ \cup {n + 1}]
  BY DEF T!Joined
<1>5. t.alive \cup {n + 1} = 1..(n + 1)
  BY <1>1
<1>6. 1..(n + 1) \subseteq 1..MaxParticipants
  BY <1>1, <1>2, TournamentAssumption
<1> HIDE DEF n, entries
<1>7. /\ T(k)!Joined(t, p) \in Shapes
      /\ T(k)!Joined(t, p).entries = entries
      /\ T(k)!Joined(t, p).alive = 1..(n + 1)
  BY <1>1, <1>3, <1>4, <1>5, <1>6 DEF Shapes
<1>8. QED
  BY <1>3, <1>7 DEF Sound

\* A round takes players from those who are in and crowns one of them.
LEMMA AdvancedIsSound ==
    ASSUME NEW t, Sound(t), t.state # "Registering", NEW k,
           NEW hands \in [t.alive -> 0..MaxStrength]
    PROVE  Sound(T(k)!Advanced(t, hands))
<1> DEFINE tables == T(k)!Seating(t.alive)
           rest == T(k)!Advancing(t, tables, hands)
           u == T(k)!Advanced(t, hands)
<1>1. /\ t \in Shapes /\ t.alive \subseteq DOMAIN t.entries /\ t.entries \in Seq(PlayerIds)
      /\ t.alive \subseteq 1..MaxParticipants
  BY DEF Sound, Shapes
<1>2. \A S : S \in SUBSET t.alive /\ S # {} => t.entries[T(k)!TheOne(S)] \in PlayerIds
  <2>1. \A S : S # {} => T(k)!TheOne(S) \in S
    BY DEF T!TheOne
  <2>2. \A i \in t.alive : t.entries[i] \in PlayerIds
    BY <1>1
  <2>3. QED
    BY <2>1, <2>2
<1>3. tables \in SUBSET SUBSET (1..MaxParticipants)
  BY <1>1 DEF T!Seating
<1>4. rest \in SUBSET t.alive
  BY DEF T!Advancing
<1>5. hands \in UNION {[S -> 0..MaxStrength] : S \in SUBSET (1..MaxParticipants)}
  BY <1>1
<1>6. T(k)!Remaining(t) = t.alive
  BY DEF T!Remaining
<1>7. CASE Cardinality(t.alive) <= 1
  <2>1. u = [t EXCEPT !.state = "Finished",
                      !.winner = IF t.alive = {} THEN @ ELSE t.entries[T(k)!TheOne(t.alive)]]
    BY <1>6, <1>7, SameCardinality DEF T!Advanced, T!NoOpponents
  <2>2. u \in Shapes /\ u.alive = t.alive /\ u.entries = t.entries /\ u.state = "Finished"
    BY ZenonT(30), <1>1, <1>2, <2>1 DEF Shapes
  <2>3. QED
    BY <1>1, <2>2 DEF Sound
<1>8. CASE ~(Cardinality(t.alive) <= 1)
  <2> DEFINE v == [t EXCEPT !.tables = tables, !.hands = hands, !.alive = rest]
  <2>1. u = T(k)!Crowned(v)
    BY <1>6, <1>8, SameCardinality DEF T!Advanced, T!PlayedRound
  <2> HIDE DEF tables, rest, u
  <2>2. v \in Shapes /\ v.alive = rest /\ v.entries = t.entries /\ v.state = t.state
    BY <1>1, <1>3, <1>4, <1>5 DEF Shapes
  <2> HIDE DEF v
  <2>3. CASE Cardinality(rest) = 1
    <3>1. rest # {}
      BY <2>3, FS_EmptySet
    <3>2. t.entries[T(k)!TheOne(rest)] \in PlayerIds
      BY <1>2, <1>4, <3>1
    <3>3. u = [v EXCEPT !.state = "Finished", !.winner = t.entries[T(k)!TheOne(rest)]]
      BY <2>1, <2>2, <2>3, SameCardinality DEF T!Crowned
    <3>4. u \in Shapes /\ u.alive = rest /\ u.entries = t.entries /\ u.state = "Finished"
      BY <2>2, <3>2, <3>3 DEF Shapes
    <3>5. QED
      BY <1>1, <1>4, <3>4 DEF Sound, u
  <2>4. CASE Cardinality(rest) # 1
    <3>1. u = v
      BY <2>1, <2>2, <2>4, SameCardinality DEF T!Crowned
    <3>2. QED
      BY <1>1, <1>4, <2>2, <3>1 DEF Sound, u
  <2>5. QED
    BY <2>3, <2>4
<1>9. QED
  BY <1>7, <1>8

LEMMA ChangeIsSound ==
    ASSUME TournamentsSound, NEW k \in DOMAIN tournaments, NEW t, Sound(t),
           tournaments' = [tournaments EXCEPT ![k] = t]
    PROVE  TournamentsSound'
<1> DEFINE all == {s \in Shapes : Sound(s)}
<1>1. t \in all /\ tournaments \in Seq(all)
  BY DEF TournamentsSound, Sound
<1> HIDE DEF all
<1>2. tournaments' \in Seq(all)
  BY <1>1
<1>3. Len(tournaments') = Len(tournaments)
  BY <1>1, ChangeKeepsLength
<1>4. QED
  BY <1>2, <1>3 DEF TournamentsSound, all

LEMMA NewIsSound ==
    ASSUME NEW k
    PROVE  Sound(T(k)!NewTournament)
<1> DEFINE none == [i \in {} |-> 0]
           new == T(k)!NewTournament
<1>1. none \in UNION {[S -> 0..MaxStrength] : S \in SUBSET (1..MaxParticipants)}
  <2>1. none \in [{} -> 0..MaxStrength]
    OBVIOUS
  <2>2. QED
    BY <2>1
<1>2. new = [state |-> "Registering", entries |-> <<>>, alive |-> {}, tables |-> {},
             hands |-> none, winner |-> NoPlayer]
  BY DEF T!NewTournament
<1> HIDE DEF none
<1>3. new \in Shapes /\ new.alive = {} /\ new.entries = <<>>
  BY <1>1, <1>2 DEF Shapes
<1>4. Len(<<>>) = 0 /\ 1..0 = {}
  OBVIOUS
<1> HIDE DEF new
<1>5. Sound(new)
  BY <1>3, <1>4 DEF Sound
<1>6. QED
  BY <1>5 DEF new

LEMMA InitIsSound ==
    Init => Bounded /\ TournamentsSound
<1> SUFFICES ASSUME Init
             PROVE  Bounded /\ TournamentsSound
  OBVIOUS
<1>1. Len(rooms) = 0 /\ committed \in [Conns -> SUBSET RoomIds]
  BY DEF Init
<1>2. Bounded
  BY <1>1, BoundsAssumption DEF Bounded
<1>3. TournamentsSound
  BY BoundsAssumption DEF Init, TournamentsSound
<1>4. QED
  BY <1>2, <1>3

LEMMA StepIsSound ==
    IInv /\ TournamentsSound /\ [Next]_vars => TournamentsSound'
<1> SUFFICES ASSUME IInv, TournamentsSound, [Next]_vars
             PROVE  TournamentsSound'
  OBVIOUS
<1>1. /\ \A c \in Conns : conns[c].sid \in PlayerIds
      /\ \A k \in DOMAIN tournaments : Sound(tournaments[k])
      /\ \A k : T(k)!Strengths = 0..MaxStrength
  BY DEF IInv, ConnsOK, TournamentsSound, T!Strengths
<1>2. CASE UNCHANGED tournaments
  BY <1>2 DEF TournamentsSound
<1>3. ASSUME NEW c \in Conns, NEW draw \in Draws, CreateTournament(c, draw)
      PROVE  TournamentsSound'
  <2> DEFINE k == Len(tournaments) + 1
             new == T(k)!Joined(T(k)!NewTournament, conns[c].sid)
             all == {s \in Shapes : Sound(s)}
  <2>1. /\ tournaments' = Append(tournaments, new) /\ tournaments \in Seq(all)
        /\ k <= MaxTournaments
    BY <1>3 DEF CreateTournament, TournamentsSound
  <2>2. Sound(T(k)!NewTournament)
    BY NewIsSound
  <2>3. T(k)!CanJoin(T(k)!NewTournament)
    <3>1. T(k)!Cardinality({}) = 0
      BY FS_EmptySet, SameCardinality
    <3>2. QED
      BY <3>1, CreatorAssumption, TournamentAssumption DEF T!CanJoin, T!NewTournament
  <2>4. new \in all
    BY <1>1, <2>2, <2>3, JoinedIsSound DEF Sound
  <2> HIDE DEF new, all
  <2>5. tournaments' \in Seq(all) /\ Len(tournaments') = k
    BY <2>1, <2>4
  <2>6. QED
    BY <2>1, <2>5 DEF TournamentsSound, all
<1>4. ASSUME NEW c \in Conns, NEW draw \in Draws, NEW k \in 1..MaxTournaments,
             JoinTournament(c, k, draw), ~UNCHANGED tournaments
      PROVE  TournamentsSound'
  <2> DEFINE t == T(k)!Joined(tournaments[k], conns[c].sid)
  <2>1. /\ k \in DOMAIN tournaments /\ T(k)!CanJoin(tournaments[k])
        /\ tournaments' = [tournaments EXCEPT ![k] = t]
    BY <1>4 DEF JoinTournament
  <2>2. Sound(t)
    BY <1>1, <2>1, JoinedIsSound
  <2> HIDE DEF t
  <2>3. QED
    BY <2>1, <2>2, ChangeIsSound
<1>5. ASSUME NEW c \in Conns, NEW draw \in Draws, NEW k \in 1..MaxTournaments,
             StartTournament(c, k, draw), ~UNCHANGED tournaments
      PROVE  TournamentsSound'
  <2>1. k \in DOMAIN tournaments
    BY <1>5 DEF StartTournament
  <2>2. PICK hands \in [tournaments[k].alive -> T(k)!Strengths] :
            tournaments' = [tournaments EXCEPT ![k] = T(k)!Started(@, hands)]
    BY <1>5 DEF StartTournament
  <2> DEFINE running == [tournaments[k] EXCEPT !.state = "Running"]
             t == T(k)!Advanced(running, hands)
  <2>3. tournaments' = [tournaments EXCEPT ![k] = t]
    BY <2>1, <2>2 DEF T!Started
  <2>4. /\ Sound(running) /\ running.state = "Running"
        /\ running.alive = tournaments[k].alive
    BY ZenonT(30), <1>1, <2>1 DEF Sound, Shapes
  <2> HIDE DEF running
  <2>5. Sound(t)
    BY <1>1, <2>2, <2>4, AdvancedIsSound
  <2> HIDE DEF t
  <2>6. QED
    BY <2>1, <2>3, <2>5, ChangeIsSound
<1>6. ASSUME NEW c \in Conns, NEW draw \in Draws, NEW k \in 1..MaxTournaments,
             AdvanceTournament(c, k, draw), ~UNCHANGED tournaments
      PROVE  TournamentsSound'
  <2>1. k \in DOMAIN tournaments /\ tournaments[k].state = "Running"
    BY <1>6 DEF AdvanceTournament
  <2>2. PICK hands \in [tournaments[k].alive -> T(k)!Strengths] :
            tournaments' = [tournaments EXCEPT ![k] = T(k)!Advanced(@, hands)]
    BY <1>6 DEF AdvanceTournament
  <2> DEFINE t == T(k)!Advanced(tournaments[k], hands)
  <2>3. tournaments' = [tournaments EXCEPT ![k] = t]
    BY <2>1, <2>2
  <2>4. Sound(t)
    BY <1>1, <2>1, <2>2, AdvancedIsSound
  <2> HIDE DEF t
  <2>5. QED
    BY <2>1, <2>3, <2>4, ChangeIsSound
<1>7. QED
  BY <1>2, <1>3, <1>4, <1>5, <1>6, TournamentSteps

-----------------------------------------------------------------------------
(* What a reply says of a room stays true *)

\* The players of a room keep their seats, and a hash or a seed once made
\* public is final.
GrownRoom(old, new) ==
    /\ \A s \in DOMAIN old.players :
          s \in DOMAIN new.players /\ new.players[s].id = old.players[s].id
    /\ old.seedHash # NoSeed => new.seedHash = old.seedHash
    /\ old.revealed # NoSeed => new.revealed = old.revealed

GrownRooms(rs, new) == \A k \in DOMAIN rs : k \in DOMAIN new /\ GrownRoom(rs[k], new[k])

\* Whatever may be done to a room.
LEMMA RoomStepGrows ==
    ASSUME NEW old, NEW new, RoomInvariant(old), RoomStep(old, new)
    PROVE  GrownRoom(old, new)
<1>1. /\ RoomInvariant(new)
      /\ \A s \in DOMAIN old.players :
            /\ s \in DOMAIN new.players
            /\ new.players[s].id = old.players[s].id
            /\ old.revealed # NoSeed => new.players[s].hand = old.players[s].hand
      /\ old.state = "Playing" => new.state = "Playing" /\ new.seedHash = old.seedHash
  BY RoomStepIsFine
<1>2. old.seedHash # NoSeed \/ old.revealed # NoSeed => old.state = "Playing"
  BY DEF RoomInvariant, SeedInvariant, RoomRecords, RoomStates
<1>3. ASSUME old.revealed # NoSeed
      PROVE  new.revealed = old.revealed
  <2>1. 1 \in DOMAIN old.players
    <3>1. DOMAIN old.players = 1..Len(old.players) /\ Len(old.players) \in 1..Capacity
      BY DEF RoomInvariant, RoomRecords
    <3>2. QED
      BY <3>1, CapacityAssumption
  <2>2. old.players[1].hand = [seed |-> old.revealed, from |-> DealIndex(1)]
    BY <1>3, <2>1 DEF RoomInvariant, SeatsInvariant
  <2>3. 1 \in DOMAIN new.players /\ new.players[1].hand = old.players[1].hand
    BY <1>1, <1>3, <2>1
  <2>4. \/ new.players[1].hand = NoHand
        \/ new.players[1].hand = [seed |-> new.revealed, from |-> DealIndex(1)]
    BY <1>1, <2>3 DEF RoomInvariant, SeatsInvariant
  <2>5. new.players[1].hand.seed = old.revealed
    BY <2>2, <2>3
  <2>6. QED
    BY <1>3, <2>4, <2>5 DEF NoHand
<1>4. QED
  BY <1>1, <1>2, <1>3 DEF GrownRoom

LEMMA GrowingIsTransitive ==
    ASSUME NEW a, NEW b, NEW c, GrownRooms(a, b), GrownRooms(b, c)
    PROVE  GrownRooms(a, c)
BY DEF GrownRooms, GrownRoom

LEMMA ChangeGrows ==
    ASSUME NEW rs, NEW k, NEW new, GrownRoom(rs[k], new)
    PROVE  GrownRooms(rs, [rs EXCEPT ![k] = new])
<1>1. \A j \in DOMAIN rs : [rs EXCEPT ![k] = new][j] = IF j = k THEN new ELSE rs[j]
  OBVIOUS
<1>2. QED
  BY <1>1 DEF GrownRooms, GrownRoom

LEMMA AppendGrows ==
    ASSUME NEW rs \in Seq(RoomRecords), NEW new \in RoomRecords
    PROVE  GrownRooms(rs, Append(rs, new))
<1>1. \A j \in DOMAIN rs : j \in DOMAIN Append(rs, new) /\ Append(rs, new)[j] = rs[j]
  OBVIOUS
<1>2. QED
  BY <1>1 DEF GrownRooms, GrownRoom

\* Marks and clocks.
LEMMA MarkedGrows ==
    ASSUME NEW rs, GoodRooms(rs), NEW p, NEW status \in Statuses
    PROVE  GrownRooms(rs, Marked(rs, p, status))
<1>1. CASE RoomsOf(rs, p) = {}
  BY <1>1 DEF Marked, GrownRooms, GrownRoom
<1>2. CASE RoomsOf(rs, p) # {}
  <2> DEFINE k == FindByPlayer(rs, p)
             new == MarkedRoom(rs[k], p, status)
  <2>1. RoomsOf(rs, p) \in SUBSET Nat
    BY DEF GoodRooms, RoomsOf
  <2>2. k \in DOMAIN rs /\ SeatsOf(rs[k], p) # {}
    BY <1>2, <2>1, FirstIsLeast DEF RoomsOf, FindByPlayer
  <2>3. Marked(rs, p, status) = [rs EXCEPT ![k] = new]
    BY <1>2, <2>2 DEF Marked
  <2>4. RoomInvariant(rs[k])
    BY <2>2 DEF GoodRooms, GoodRoom
  <2> HIDE DEF k
  <2>5. /\ new.seedHash = rs[k].seedHash /\ new.revealed = rs[k].revealed
        /\ DOMAIN new.players = DOMAIN rs[k].players
        /\ \A s \in DOMAIN rs[k].players : new.players[s].id = rs[k].players[s].id
    BY <2>2, <2>4, MarkedIsFine
  <2> HIDE DEF new
  <2>6. GrownRoom(rs[k], new)
    BY <2>5 DEF GrownRoom
  <2>7. GrownRooms(rs, [rs EXCEPT ![k] = new])
    BY <2>6, ChangeGrows
  <2>8. QED
    BY <2>3, <2>7
<1>3. QED
  BY <1>1, <1>2

LEMMA AgedGrows ==
    ASSUME NEW rs, GoodRooms(rs)
    PROVE  GrownRooms(rs, Aged(rs))
<1>1. ASSUME NEW k \in DOMAIN rs
      PROVE  GrownRoom(rs[k], Older(rs[k]))
  BY <1>1, RoomStepGrows DEF GoodRooms, GoodRoom, RoomStep
<1>2. QED
  BY <1>1 DEF Aged, GrownRooms

LEMMA SeatedGrows ==
    ASSUME NEW room, RoomInvariant(room), Accepts(room), NEW p \in PlayerIds
    PROVE  GrownRoom(room, Seated(room, p)) /\ SeatsOf(Seated(room, p), p) # {}
<1> DEFINE new == Seated(room, p)
           n == Len(room.players)
<1>1. room.players \in Seq(Seats) /\ n \in Nat /\ NewSeat(p) \in Seats
  BY NewSeatIsFine DEF RoomInvariant, RoomRecords
<1>2. /\ new.players = Append(room.players, NewSeat(p))
      /\ new.seedHash = room.seedHash /\ new.revealed = room.revealed
  BY DEF Seated, RoomInvariant, RoomRecords
<1>3. /\ n + 1 \in DOMAIN new.players /\ new.players[n + 1] = NewSeat(p)
      /\ \A s \in DOMAIN room.players :
            s \in DOMAIN new.players /\ new.players[s] = room.players[s]
  BY <1>1, <1>2
<1>4. n + 1 \in SeatsOf(new, p)
  BY <1>3 DEF SeatsOf, NewSeat
<1>5. QED
  BY <1>2, <1>3, <1>4 DEF GrownRoom

\* A room that has been started is ready for its deal.
LEMMA StartedAwaitsDeal ==
    ASSUME NEW room, RoomInvariant(room), NEW seed \in Seeds
    PROVE  AwaitsDeal(Started(room, seed))
<1>1. /\ Started(room, seed).state = "Playing" /\ Started(room, seed).revealed = NoSeed
      /\ Started(room, seed).seedHash = Hash(seed)
  BY DEF Started, RoomInvariant, RoomRecords
<1>2. QED
  BY <1>1, HashAssumption DEF AwaitsDeal

LEMMA StartedGrows ==
    ASSUME NEW room, RoomInvariant(room), room.state = "Waiting", NEW seed \in Seeds
    PROVE  GrownRoom(room, Started(room, seed)) /\ GrownRoom(room, Dealt(Started(room, seed)))
<1> DEFINE started == Started(room, seed)
<1>1. room.seedHash = NoSeed /\ room.revealed = NoSeed
  BY DEF RoomInvariant, SeedInvariant
<1>2. RoomInvariant(started) /\ started.players = room.players
  BY StartedIsFine
<1>3. AwaitsDeal(started)
  BY StartedAwaitsDeal
<1> HIDE DEF started
<1>4. GrownRoom(started, Dealt(started))
  BY <1>2, <1>3, RoomStepGrows DEF RoomStep
<1>5. GrownRoom(room, started)
  BY <1>1, <1>2 DEF GrownRoom
<1>6. GrownRoom(room, Dealt(started))
  BY <1>1, <1>2, <1>4 DEF GrownRoom
<1>7. QED
  BY <1>5, <1>6 DEF started

LEMMA DealtGrows ==
    ASSUME NEW room, RoomInvariant(room), AwaitsDeal(room)
    PROVE  GrownRoom(room, Dealt(room))
BY RoomStepGrows DEF RoomStep

-----------------------------------------------------------------------------
(* What the sessions make of RoomManager *)

\* RoomManager takes one method at a time, in any order; a handler calls several.
\* Its promises are about the rooms, whoever calls.
RM == INSTANCE RoomManager WITH Watched <- 1

\* One call, or two where a deal follows.
RoomSteps(old, new) ==
    \/ RoomStep(old, new)
    \/ \E mid : RoomStep(old, mid) /\ AwaitsDeal(mid) /\ new = Dealt(mid)

\* No room goes, and at most one comes: a Random one only if there is none to join.
SteppedRooms(rs, new) ==
    /\ \A k \in DOMAIN rs : k \in DOMAIN new /\ RoomSteps(rs[k], new[k])
    /\ \A k \in DOMAIN new \ DOMAIN rs :
          /\ k = Len(rs) + 1
          /\ \E type \in RoomTypes, code \in Codes \cup {NoCode}, p \in PlayerIds :
                new[k] = NewRoom(type, code, p)
          /\ new[k].type = "Random" => OpenRandom(rs) = {}

LEMMA StillIsAStep ==
    ASSUME NEW rs
    PROVE  SteppedRooms(rs, rs)
BY DEF SteppedRooms, RoomSteps, RoomStep

LEMMA ChangeSteps ==
    ASSUME NEW rs, NEW k, NEW new, RoomSteps(rs[k], new)
    PROVE  SteppedRooms(rs, [rs EXCEPT ![k] = new])
<1>1. \A j \in DOMAIN rs : [rs EXCEPT ![k] = new][j] = IF j = k THEN new ELSE rs[j]
  OBVIOUS
<1>2. \A room : RoomSteps(room, room)
  BY DEF RoomSteps, RoomStep
<1>3. QED
  BY <1>1, <1>2 DEF SteppedRooms

LEMMA OpeningSteps ==
    ASSUME NEW rs \in Seq(RoomRecords),
           NEW type \in RoomTypes, NEW code \in Codes \cup {NoCode}, NEW p \in PlayerIds,
           type = "Random" => OpenRandom(rs) = {}
    PROVE  SteppedRooms(rs, Append(rs, NewRoom(type, code, p)))
<1> DEFINE new == NewRoom(type, code, p)
<1>1. new \in RoomRecords /\ new.type = type
  BY NewRoomIsFine DEF RoomInvariant, NewRoom
<1>2. \E t \in RoomTypes, d \in Codes \cup {NoCode}, q \in PlayerIds : new = NewRoom(t, d, q)
  OBVIOUS
<1> HIDE DEF new
<1>3. /\ \A j \in DOMAIN rs : j \in DOMAIN Append(rs, new) /\ Append(rs, new)[j] = rs[j]
      /\ \A j \in DOMAIN Append(rs, new) \ DOMAIN rs :
            j = Len(rs) + 1 /\ Append(rs, new)[j] = new
  BY <1>1
<1>4. \A room : RoomSteps(room, room)
  BY DEF RoomSteps, RoomStep
<1>5. SteppedRooms(rs, Append(rs, new))
  BY <1>1, <1>2, <1>3, <1>4 DEF SteppedRooms
<1>6. QED
  BY <1>5 DEF new

LEMMA MarkedSteps ==
    ASSUME NEW rs, GoodRooms(rs), NEW p \in PlayerIds, NEW status \in Statuses
    PROVE  SteppedRooms(rs, Marked(rs, p, status))
<1>1. CASE RoomsOf(rs, p) = {}
  BY <1>1, StillIsAStep DEF Marked
<1>2. CASE RoomsOf(rs, p) # {}
  <2> DEFINE k == FindByPlayer(rs, p)
             new == MarkedRoom(rs[k], p, status)
  <2>1. RoomsOf(rs, p) \in SUBSET Nat
    BY DEF GoodRooms, RoomsOf
  <2>2. k \in DOMAIN rs /\ SeatsOf(rs[k], p) # {}
    BY <1>2, <2>1, FirstIsLeast DEF RoomsOf, FindByPlayer
  <2>3. Marked(rs, p, status) = [rs EXCEPT ![k] = new]
    BY <1>2, <2>2 DEF Marked
  <2>4. RoomSteps(rs[k], new)
    BY <2>2 DEF RoomSteps, RoomStep
  <2> HIDE DEF k, new
  <2>5. SteppedRooms(rs, [rs EXCEPT ![k] = new])
    BY <2>4, ChangeSteps
  <2>6. QED
    BY <2>3, <2>5
<1>3. QED
  BY <1>1, <1>2

LEMMA QuickMatchSteps ==
    ASSUME IInv, NEW c \in Conns, NEW draw \in Draws, QuickMatch(c, draw)
    PROVE  SteppedRooms(rooms, rooms')
<1> DEFINE sid == conns[c].sid
           mid == Prologue(sid, draw)
           k == QuickMatchRoom(mid)
           seed == draw[k]
           joined == QuickMatched(mid, sid, seed)
<1>1. GoodRooms(rooms) /\ sid \in PlayerIds
  BY DEF IInv, ConnsOK
<1>2. mid = rooms
  BY <1>1, PrologueDoesNothing
<1>3. \/ /\ CanStart(joined[k])
         /\ rooms' = [joined EXCEPT ![k] = Dealt(Started(joined[k], seed))]
      \/ AwaitsDeal(joined[k]) /\ rooms' = [joined EXCEPT ![k] = Dealt(joined[k])]
      \/ rooms' = joined
  BY DEF QuickMatch, StartedAndDealt
<1> HIDE DEF sid, mid
<1>4. CASE OpenRandom(rooms) = {}
  <2> DEFINE new == NewRoom("Random", NoCode, sid)
  <2>1. joined = Append(rooms, new) /\ k = Len(rooms) + 1
    BY <1>2, <1>4 DEF QuickMatched, QuickMatchRoom
  <2>2. new \in RoomRecords /\ rooms \in Seq(RoomRecords)
    BY <1>1, NewRoomIsFine DEF RoomTypes, RoomInvariant, GoodRooms
  <2>3. new.state = "Waiting" /\ Len(new.players) = 1
    BY DEF NewRoom
  <2> HIDE DEF new, k, joined, seed
  <2>4. joined[k] = new
    BY <2>1, <2>2
  <2>5. ~CanStart(joined[k]) /\ ~AwaitsDeal(joined[k])
    BY <2>3, <2>4 DEF CanStart, AwaitsDeal
  <2>6. SteppedRooms(rooms, Append(rooms, new))
    BY <1>1, <1>4, <2>2, OpeningSteps DEF new, RoomTypes
  <2>7. QED
    BY <1>3, <2>1, <2>5, <2>6
<1>5. CASE OpenRandom(rooms) # {}
  <2> DEFINE old == rooms[k]
             new == Joined(old, sid, seed)
  <2>1. joined = [rooms EXCEPT ![k] = new]
    BY <1>2, <1>5 DEF QuickMatched
  <2>2. OpenRandom(rooms) \in SUBSET Nat
    BY <1>1 DEF OpenRandom, GoodRooms
  <2>3. k \in OpenRandom(rooms)
    BY <1>2, <1>5, <2>2, FirstIsLeast DEF QuickMatchRoom
  <2>4. k \in DOMAIN rooms /\ Accepts(old) /\ RoomInvariant(old)
    BY <1>1, <2>3 DEF OpenRandom, GoodRooms, GoodRoom
  <2>5. seed \in Seeds
    <3>1. k \in RoomIds
      <4>1. k <= MaxRooms /\ k \in 1..Len(rooms) /\ Len(rooms) \in Nat
        BY <1>1, <2>4 DEF QuickMatch, mid, sid, GoodRooms
      <4>2. QED
        BY <4>1, BoundsAssumption DEF RoomIds
    <3>2. QED
      BY <3>1 DEF Draws
  <2> HIDE DEF k, joined, seed, old
  <2>6. joined[k] = new
    BY <2>1, <2>4
  <2>7. RoomInvariant(Seated(old, sid))
    BY <1>1, <2>4, SeatedIsFine
  <2>8. RoomStep(old, Started(Seated(old, sid), seed)) /\ AwaitsDeal(Started(Seated(old, sid), seed))
    BY <1>1, <2>4, <2>5, <2>7, StartedAwaitsDeal DEF RoomStep
  <2>9. RoomSteps(old, Dealt(Started(Seated(old, sid), seed)))
    BY <2>8 DEF RoomSteps, RoomStep
  <2>10. CASE StartsOnJoin(Seated(old, sid))
    <3>1. new = Started(Seated(old, sid), seed)
      BY <2>10 DEF Joined
    <3>2. ~CanStart(new)
      BY <2>8, <3>1 DEF AwaitsDeal, CanStart
    <3>3. RoomSteps(old, new)
      BY <2>8, <3>1 DEF RoomSteps, RoomStep
    <3> HIDE DEF new
    <3>4. rooms' = joined \/ rooms' = [rooms EXCEPT ![k] = Dealt(new)]
      BY <1>3, <2>1, <2>6, <3>2
    <3>5. QED
      BY <2>1, <2>9, <3>1, <3>3, <3>4, ChangeSteps DEF old
  <2>11. CASE ~StartsOnJoin(Seated(old, sid))
    <3>1. new = Seated(old, sid)
      BY <2>11 DEF Joined
    <3>2. Len(new.players) < Capacity
      BY <2>7, <2>11, <3>1, CapacityAssumption DEF StartsOnJoin, RoomInvariant, RoomRecords
    <3>3. RoomSteps(old, new)
      BY <1>1, <2>4, <3>1, <3>2 DEF RoomSteps, RoomStep
    <3>4. ~AwaitsDeal(new)
      BY <2>4, <3>1 DEF AwaitsDeal, Accepts, Seated, RoomInvariant, RoomRecords
    <3> HIDE DEF new
    <3>5. rooms' = joined \/ rooms' = [rooms EXCEPT ![k] = Dealt(Started(new, seed))]
      BY <1>3, <2>1, <2>6, <3>4
    <3>6. QED
      BY <2>1, <2>9, <3>1, <3>3, <3>5, ChangeSteps DEF old
  <2>12. QED
    BY <2>10, <2>11
<1>6. QED
  BY <1>4, <1>5

LEMMA MessageSteps ==
    ASSUME IInv, NEW c \in Conns, NEW draw \in Draws,
           \/ \E code \in Codes : CreatePrivate(c, code, draw) \/ JoinPrivate(c, code, draw)
           \/ \E k \in RoomIds : StartRoom(c, k, draw)
           \/ \E r : AnswersAfterPrologue(c, draw, r)
           \/ OtherMessage(c, draw)
    PROVE  SteppedRooms(rooms, rooms')
<1> DEFINE sid == conns[c].sid
<1>1. GoodRooms(rooms) /\ sid \in PlayerIds
  BY DEF IInv, ConnsOK
<1>2. Prologue(sid, draw) = rooms
  BY <1>1, PrologueDoesNothing
<1>3. CASE \E code \in Codes : CreatePrivate(c, code, draw)
  <2>1. PICK code \in Codes : rooms' = Append(rooms, NewRoom("Private", code, sid))
    BY <1>2, <1>3 DEF CreatePrivate, PrivateCreated
  <2>2. SteppedRooms(rooms, Append(rooms, NewRoom("Private", code, sid)))
    BY <1>1, OpeningSteps DEF RoomTypes, GoodRooms
  <2>3. QED
    BY <2>1, <2>2
<1>4. CASE \E code \in Codes : JoinPrivate(c, code, draw)
  <2>1. PICK code \in Codes : JoinPrivate(c, code, draw)
    BY <1>4
  <2> DEFINE k == First(OpenPrivate(rooms, code))
  <2>2. CASE OpenPrivate(rooms, code) = {}
    BY <1>2, <2>1, <2>2, StillIsAStep DEF JoinPrivate
  <2>3. CASE OpenPrivate(rooms, code) # {}
    <3>1. rooms' = [rooms EXCEPT ![k] = Seated(rooms[k], sid)]
      BY <1>2, <2>1, <2>3 DEF JoinPrivate, PrivateJoined
    <3>2. OpenPrivate(rooms, code) \in SUBSET Nat
      BY <1>1 DEF GoodRooms, OpenPrivate
    <3>3. k \in OpenPrivate(rooms, code)
      BY <2>3, <3>2, FirstIsLeast
    <3> HIDE DEF k
    <3>4. Accepts(rooms[k]) /\ rooms[k].type # "Random"
      BY <3>3 DEF OpenPrivate
    <3>5. RoomSteps(rooms[k], Seated(rooms[k], sid))
      BY <1>1, <3>4 DEF RoomSteps, RoomStep
    <3>6. QED
      BY <3>1, <3>5, ChangeSteps
  <2>4. QED
    BY <2>2, <2>3
<1>5. CASE \E k \in RoomIds : StartRoom(c, k, draw)
  <2>1. PICK k \in RoomIds : StartRoom(c, k, draw)
    BY <1>5
  <2>2. CASE k \in DOMAIN rooms /\ CanStart(rooms[k])
    <3> DEFINE started == Started(rooms[k], draw[k])
    <3>1. rooms' = [rooms EXCEPT ![k] = Dealt(started)]
      BY <1>2, <2>1, <2>2 DEF StartRoom, StartedAndDealt
    <3>2. draw[k] \in Seeds /\ RoomInvariant(rooms[k])
      BY <1>1, <2>1, <2>2 DEF GoodRooms, GoodRoom, Draws
    <3>3. RoomStep(rooms[k], started) /\ AwaitsDeal(started)
      BY <2>2, <3>2, StartedAwaitsDeal DEF RoomStep
    <3> HIDE DEF started
    <3>4. RoomSteps(rooms[k], Dealt(started))
      BY <3>3 DEF RoomSteps, RoomStep
    <3>5. QED
      BY <3>1, <3>4, ChangeSteps
  <2>3. CASE ~(k \in DOMAIN rooms /\ CanStart(rooms[k]))
    BY <1>2, <2>1, <2>3, StillIsAStep DEF StartRoom
  <2>4. QED
    BY <2>2, <2>3
<1>6. CASE (\E r : AnswersAfterPrologue(c, draw, r)) \/ OtherMessage(c, draw)
  BY <1>2, <1>6, StillIsAStep DEF AnswersAfterPrologue, OtherMessage
<1>7. QED
  BY <1>3, <1>4, <1>5, <1>6

\* Every handler, and the clock.
LEMMA EveryStepSteps ==
    ASSUME IInv, [Next]_vars
    PROVE  SteppedRooms(rooms, rooms')
<1>1. GoodRooms(rooms) /\ ConnsOK
  BY DEF IInv
<1>2. CASE UNCHANGED vars \/ HandlerThrows \/ \E c \in Conns : Accept(c)
  BY <1>2, StillIsAStep DEF vars, HandlerThrows, Accept
<1>3. ASSUME NEW c \in Conns, Close(c)
      PROVE  SteppedRooms(rooms, rooms')
  BY <1>1, <1>3, MarkedSteps DEF Close, ConnsOK, Statuses
<1>4. CASE Tick
  <2>1. rooms' = [k \in DOMAIN rooms |-> Older(rooms[k])]
    BY <1>4 DEF Tick, Aged
  <2>2. \A k \in DOMAIN rooms : RoomSteps(rooms[k], Older(rooms[k]))
    BY DEF RoomSteps, RoomStep
  <2>3. QED
    BY <2>1, <2>2 DEF SteppedRooms
<1>5. ASSUME NEW c \in Conns, NEW draw \in Draws, NEW id \in PlayerIds, Reconnect(c, id, draw)
      PROVE  SteppedRooms(rooms, rooms')
  <2>1. rooms' = Marked(rooms, id, "Connected")
    BY <1>1, <1>5, PrologueDoesNothing DEF Reconnect
  <2>2. QED
    BY <1>1, <2>1, MarkedSteps DEF Statuses
<1>6. ASSUME NEW c \in Conns, NEW draw \in Draws, QuickMatch(c, draw)
      PROVE  SteppedRooms(rooms, rooms')
  BY <1>6, QuickMatchSteps
<1>7. ASSUME NEW c \in Conns, NEW draw \in Draws,
             \/ \E code \in Codes : CreatePrivate(c, code, draw) \/ JoinPrivate(c, code, draw)
             \/ \E k \in RoomIds : StartRoom(c, k, draw)
             \/ OtherMessage(c, draw)
      PROVE  SteppedRooms(rooms, rooms')
  BY <1>7, MessageSteps
<1>8. ASSUME NEW c \in Conns, NEW draw \in Draws,
             \/ CreateTournament(c, draw)
             \/ \E k \in 1..MaxTournaments :
                   \/ JoinTournament(c, k, draw)
                   \/ StartTournament(c, k, draw)
                   \/ AdvanceTournament(c, k, draw)
      PROVE  SteppedRooms(rooms, rooms')
  <2>1. \E r : AnswersAfterPrologue(c, draw, r)
    BY <1>8 DEF CreateTournament, JoinTournament, StartTournament, AdvanceTournament
  <2>2. QED
    BY <2>1, MessageSteps
<1>9. QED
  BY <1>2, <1>3, <1>4, <1>5, <1>6, <1>7, <1>8 DEF Next

\* What RoomsOnlyProgress says of a room, in one step or in two.
ProgressedRoom(old, new) ==
    /\ \A s \in DOMAIN old.players :
          s \in DOMAIN new.players /\ new.players[s].id = old.players[s].id
    /\ old.state = "Playing" =>
          /\ new.state = "Playing"
          /\ DOMAIN new.players = DOMAIN old.players
          /\ new.seedHash = old.seedHash
    /\ old.revealed # NoSeed =>
          /\ new.revealed # NoSeed
          /\ \A s \in DOMAIN old.players : new.players[s].hand = old.players[s].hand

LEMMA StepsProgress ==
    ASSUME NEW old, NEW new, RoomInvariant(old), RoomSteps(old, new)
    PROVE  /\ ProgressedRoom(old, new)
           /\ new.type = old.type
           /\ new.state = "Waiting" => old.state = "Waiting"
<1>1. ASSUME NEW a, NEW b, RoomInvariant(a), RoomStep(a, b)
      PROVE  ProgressedRoom(a, b) /\ GrownRoom(a, b)
  <2>1. GrownRoom(a, b)
    BY <1>1, RoomStepGrows
  <2>2. /\ \A s \in DOMAIN a.players :
              /\ s \in DOMAIN b.players
              /\ b.players[s].id = a.players[s].id
              /\ a.revealed # NoSeed => b.players[s].hand = a.players[s].hand
        /\ a.state = "Playing" =>
              /\ b.state = "Playing"
              /\ DOMAIN b.players = DOMAIN a.players
              /\ b.seedHash = a.seedHash
    BY <1>1, RoomStepIsFine
  <2>3. QED
    BY <2>1, <2>2 DEF ProgressedRoom, GrownRoom
<1>2. PICK mid : RoomStep(old, mid) /\ RoomStep(mid, new)
  <2>1. \A room : RoomStep(room, room) /\ (AwaitsDeal(room) => RoomStep(room, Dealt(room)))
    BY DEF RoomStep
  <2>2. QED
    BY <2>1 DEF RoomSteps
<1>3. /\ RoomInvariant(mid) /\ mid.type = old.type
      /\ mid.state = "Waiting" => old.state = "Waiting"
  BY <1>2, RoomStepIsFine
<1>4. new.type = mid.type /\ (new.state = "Waiting" => mid.state = "Waiting")
  BY <1>2, <1>3, RoomStepIsFine
<1>5. ProgressedRoom(old, mid) /\ ProgressedRoom(mid, new)
  BY <1>1, <1>2, <1>3
<1>6. ProgressedRoom(old, new)
  BY <1>5 DEF ProgressedRoom
<1>7. QED
  BY <1>3, <1>4, <1>6

\* A waiting Random room has one seat, so that quick_match finds it.
LEMMA WaitingIsOpen ==
    ASSUME IInv, NEW k \in DOMAIN rooms, rooms[k].type = "Random", rooms[k].state = "Waiting"
    PROVE  k \in OpenRandom(rooms)
<1>1. Len(rooms[k].players) = 1
  BY DEF IInv, GoodRooms, GoodRoom
<1>2. Len(rooms[k].players) < Capacity
  BY <1>1, CapacityAssumption
<1>3. QED
  BY <1>2 DEF OpenRandom, Accepts

LEMMA StepKeepsOneOpen ==
    ASSUME IInv, IInv', RM!OneOpenRandomRoom, [Next]_vars
    PROVE  RM!OneOpenRandomRoom'
<1> DEFINE Waits(k) == rooms[k].type = "Random" /\ rooms[k].state = "Waiting"
           WaitsNext(k) == rooms'[k].type = "Random" /\ rooms'[k].state = "Waiting"
<1>1. SteppedRooms(rooms, rooms')
  BY EveryStepSteps
<1>2. ASSUME NEW k \in DOMAIN rooms', k \in DOMAIN rooms, WaitsNext(k)
      PROVE  Waits(k)
  <2>1. RoomInvariant(rooms[k]) /\ RoomSteps(rooms[k], rooms'[k])
    BY <1>1, <1>2 DEF IInv, GoodRooms, GoodRoom, SteppedRooms
  <2>2. QED
    BY <1>2, <2>1, StepsProgress
<1>3. ASSUME NEW k \in DOMAIN rooms', k \notin DOMAIN rooms, WaitsNext(k)
      PROVE  k = Len(rooms) + 1 /\ \A j \in DOMAIN rooms : ~Waits(j)
  <2>1. k = Len(rooms) + 1 /\ OpenRandom(rooms) = {}
    BY <1>1, <1>3 DEF SteppedRooms
  <2>2. QED
    BY <2>1, WaitingIsOpen
<1>4. ASSUME NEW j \in DOMAIN rooms', NEW k \in DOMAIN rooms', WaitsNext(j), WaitsNext(k)
      PROVE  j = k
  <2>1. CASE j \in DOMAIN rooms /\ k \in DOMAIN rooms
    BY <1>2, <1>4, <2>1 DEF RM!OneOpenRandomRoom
  <2>2. CASE j \notin DOMAIN rooms \/ k \notin DOMAIN rooms
    BY <1>2, <1>3, <1>4, <2>2
  <2>3. QED
    BY <2>1, <2>2
<1>5. QED
  BY <1>4 DEF RM!OneOpenRandomRoom

-----------------------------------------------------------------------------
(* A fair deal in one go *)

\* The variables of FD(k).
Seen(k) == IF k \in DOMAIN rooms THEN View(rooms[k]) ELSE <<<<>>, NoSeed, NoSeed, <<>>>>

LEMMA FairDealSees ==
    ASSUME NEW k
    PROVE  FD(k)!vars = Seen(k) /\ FD(k)!vars' = Seen(k)'
BY DEF FD!vars, Seen, View

\* What FairDeal does not notice.
QuietStep(old, new) ==
    \/ new = old
    \/ new = Older(old)
    \/ \E p \in PlayerIds, status \in Statuses :
          SeatsOf(old, p) # {} /\ new = MarkedRoom(old, p, status)

LEMMA QuietStepIsUnseen ==
    ASSUME NEW old, NEW new, RoomInvariant(old), QuietStep(old, new)
    PROVE  /\ View(new) = View(old)
           /\ new.state = old.state /\ new.revealed = old.revealed
           /\ new.seedHash = old.seedHash
<1>1. /\ new.state = old.state /\ new.revealed = old.revealed /\ new.seedHash = old.seedHash
      /\ DOMAIN new.players = DOMAIN old.players
      /\ \A s \in DOMAIN old.players :
            new.players[s].id = old.players[s].id /\ new.players[s].hand = old.players[s].hand
  <2>1. CASE new = old
    BY <2>1
  <2>2. CASE new = Older(old)
    BY <2>2 DEF Older, RoomInvariant, RoomRecords
  <2>3. CASE \E p \in PlayerIds, status \in Statuses :
                SeatsOf(old, p) # {} /\ new = MarkedRoom(old, p, status)
    BY <2>3, MarkedIsFine
  <2>4. QED
    BY <2>1, <2>2, <2>3 DEF QuietStep
<1>2. QED
  BY <1>1, UnchangedView

\* Between handlers a room that plays is dealt: a start without its deal is no
\* step that anybody sees.
LEMMA RoomDealsAtOnce ==
    ASSUME NEW k, k \in DOMAIN rooms, k \in DOMAIN rooms',
           GoodRoom(rooms[k]), GoodRoom(rooms'[k]),
           RoomSteps(rooms[k], rooms'[k])
    PROVE  [FD(k)!AtOnce]_(FD(k)!vars)
<1> DEFINE old == rooms[k]
           new == rooms'[k]
<1>1. Seen(k) = View(old) /\ Seen(k)' = View(new)
  BY DEF Seen
<1>2. ASSUME NEW p \in PlayerIds, Accepts(old), new = Seated(old, p)
      PROVE  FD(k)!SitDown(p)
  <2>1. /\ IdsOf(new) = Append(IdsOf(old), p) /\ Len(IdsOf(old)) < Capacity
        /\ old.seedHash = NoSeed /\ new.seedHash = NoSeed
        /\ old.revealed = NoSeed /\ new.revealed = NoSeed
    BY <1>2, SeatedView DEF GoodRoom
  <2>2. HandsOf(old) = HandsOf(new)
    BY <2>1 DEF HandsOf
  <2>3. QED
    BY <2>1, <2>2 DEF FD!SitDown
<1>3. ASSUME NEW seed \in Seeds, NEW mid, RoomInvariant(mid),
             mid.state = "Waiting", new = Dealt(Started(mid, seed)),
             Len(mid.players) >= 2,
             \/ mid = old
             \/ \E p \in PlayerIds : Accepts(old) /\ mid = Seated(old, p)
      PROVE  FD(k)!CommitAndOpen(seed)
  <2>1. /\ RoomInvariant(Started(mid, seed)) /\ Started(mid, seed).players = mid.players
        /\ Started(mid, seed).seed = seed /\ Started(mid, seed).seedHash = Hash(seed)
    BY <1>3, StartedIsFine DEF Started, RoomInvariant, RoomRecords
  <2>2. AwaitsDeal(Started(mid, seed))
    BY <1>3, StartedAwaitsDeal
  <2>3. /\ new.seedHash = Hash(seed) /\ new.revealed = seed
        /\ DOMAIN new.players = DOMAIN mid.players
        /\ \A s \in DOMAIN mid.players : new.players[s].id = mid.players[s].id
    <3>1. new.seedHash = Hash(seed) /\ new.revealed = seed
      BY <1>3, <2>1 DEF Dealt, RoomInvariant, RoomRecords
    <3>2. QED
      BY <1>3, <2>1, <2>2, <3>1, DealtIsFine
  <2>4. IdsOf(new) = IdsOf(mid) /\ Len(IdsOf(mid)) = Len(mid.players)
    BY <1>3, <2>3, IdsOfIsSeq DEF IdsOf, RoomInvariant, RoomRecords
  <2>5. seed # NoSeed
    BY <1>3, SeedsAssumption
  <2>6. HandsOf(new) = FD(k)!HandsFrom(seed, IdsOf(new))
    <3>1. \A s \in DOMAIN new.players :
             new.players[s].hand = [seed |-> seed, from |-> HandSize * (s - 1)]
      BY <2>3, <2>5 DEF GoodRoom, RoomInvariant, SeatsInvariant, DealIndex
    <3>2. DOMAIN IdsOf(new) = DOMAIN new.players
      BY DEF IdsOf
    <3>3. QED
      BY <2>3, <2>5, <3>1, <3>2 DEF HandsOf, FD!HandsFrom
  <2>7. /\ old.seedHash = NoSeed /\ old.revealed = NoSeed
        /\ \/ IdsOf(mid) = IdsOf(old)
           \/ Len(IdsOf(old)) < Capacity /\ \E p \in PlayerIds : IdsOf(mid) = Append(IdsOf(old), p)
    <3>1. CASE mid = old
      BY <1>3, <3>1 DEF RoomInvariant, SeedInvariant
    <3>2. CASE \E p \in PlayerIds : Accepts(old) /\ mid = Seated(old, p)
      BY <3>2, SeatedView DEF GoodRoom
    <3>3. QED
      BY <1>3, <3>1, <3>2
  <2>8. Len(IdsOf(new)) >= 2
    BY <1>3, <2>4
  <2> HIDE DEF old, new
  <2>9. /\ rooms[k] = old /\ rooms'[k] = new
    BY DEF old, new
  <2>10. FD(k)!Complete
    BY <2>4, <2>7, <2>8, <2>9 DEF FD!Complete
  <2>11. QED
    BY <2>3, <2>6, <2>7, <2>9, <2>10 DEF FD!CommitAndOpen, FD!Commitment, Hash
<1>4. ASSUME QuietStep(old, new)
      PROVE  UNCHANGED FD(k)!vars
  <2>1. View(new) = View(old)
    BY <1>4, QuietStepIsUnseen DEF GoodRoom
  <2>2. QED
    BY <1>1, <2>1, FairDealSees
<1>5. ~AwaitsDeal(old) /\ ~AwaitsDeal(new)
  BY DEF GoodRoom, AwaitsDeal
<1>6. ASSUME NEW p \in PlayerIds, Accepts(old)
      PROVE  /\ RoomInvariant(Seated(old, p)) /\ Seated(old, p).state = "Waiting"
             /\ Len(Seated(old, p).players) >= 2
  <2>1. Len(old.players) \in Nat /\ Len(old.players) >= 1
    BY CapacityAssumption DEF GoodRoom, RoomInvariant, RoomRecords
  <2>2. Len(Seated(old, p).players) = Len(old.players) + 1
    BY <1>6, SeatedIsFine DEF GoodRoom
  <2>3. QED
    BY <1>6, <2>1, <2>2, SeatedIsFine DEF GoodRoom
<1>7. CASE RoomStep(old, new)
  <2>1. ASSUME NEW p \in PlayerIds, NEW seed \in Seeds, Accepts(old)
        PROVE  new # Started(Seated(old, p), seed)
    BY <1>5, <1>6, <2>1, StartedAwaitsDeal
  <2>2. ASSUME NEW seed \in Seeds
        PROVE  new # Started(old, seed)
    BY <1>5, <2>2, StartedAwaitsDeal DEF GoodRoom
  <2>3. \/ QuietStep(old, new)
        \/ \E p \in PlayerIds : Accepts(old) /\ new = Seated(old, p)
    BY <1>5, <1>7, <2>1, <2>2 DEF RoomStep, QuietStep
  <2>4. QED
    BY <1>2, <1>4, <2>3 DEF FD!AtOnce
<1>8. CASE \E mid : RoomStep(old, mid) /\ AwaitsDeal(mid) /\ new = Dealt(mid)
  <2>1. PICK mid : RoomStep(old, mid) /\ AwaitsDeal(mid) /\ new = Dealt(mid)
    BY <1>8
  <2>2. ~QuietStep(old, mid)
    BY <1>5, <2>1, QuietStepIsUnseen DEF GoodRoom, AwaitsDeal, View
  <2>3. \A p \in PlayerIds : Accepts(old) => mid # Seated(old, p)
    BY <1>6, <2>1 DEF AwaitsDeal
  <2>4. \/ \E p \in PlayerIds, seed \in Seeds : Accepts(old) /\ mid = Started(Seated(old, p), seed)
        \/ \E seed \in Seeds : CanStart(old) /\ mid = Started(old, seed)
    BY <1>5, <2>1, <2>2, <2>3 DEF RoomStep, QuietStep
  <2>5. ASSUME NEW p \in PlayerIds, NEW seed \in Seeds, Accepts(old), mid = Started(Seated(old, p), seed)
        PROVE  FD(k)!CommitAndOpen(seed)
    BY <1>3, <1>6, <2>1, <2>5
  <2>6. ASSUME NEW seed \in Seeds, CanStart(old), mid = Started(old, seed)
        PROVE  FD(k)!CommitAndOpen(seed)
    BY <1>3, <2>1, <2>6 DEF CanStart, GoodRoom
  <2>7. QED
    BY <2>4, <2>5, <2>6 DEF FD!AtOnce
<1>9. QED
  BY <1>7, <1>8 DEF RoomSteps

\* A room comes into being with its first player.
LEMMA RoomOpensWithAPlayer ==
    ASSUME NEW k, k \notin DOMAIN rooms, k \in DOMAIN rooms',
           NEW type, NEW code, NEW p \in PlayerIds, rooms'[k] = NewRoom(type, code, p)
    PROVE  FD(k)!SitDown(p)
<1>1. /\ IdsOf(rooms'[k]) = <<p>> /\ rooms'[k].seedHash = NoSeed /\ rooms'[k].revealed = NoSeed
  BY DEF NewRoom, IdsOf, NewSeat
<1>2. HandsOf(rooms'[k]) = <<>>
  BY <1>1 DEF HandsOf
<1>3. Append(<<>>, p) = <<p>> /\ Len(<<>>) = 0 /\ 0 < Capacity
  BY CapacityAssumption
<1>4. QED
  BY <1>1, <1>2, <1>3 DEF FD!SitDown

LEMMA StepDealsAtOnce ==
    ASSUME IInv, IInv', [Next]_vars, NEW k
    PROVE  [FD(k)!AtOnce]_(FD(k)!vars)
<1>1. SteppedRooms(rooms, rooms')
  BY EveryStepSteps
<1>2. CASE k \in DOMAIN rooms
  <2>1. k \in DOMAIN rooms' /\ RoomSteps(rooms[k], rooms'[k])
    BY <1>1, <1>2 DEF SteppedRooms
  <2>2. GoodRoom(rooms[k]) /\ GoodRoom(rooms'[k])
    BY <1>2, <2>1 DEF IInv, GoodRooms
  <2>3. QED
    BY <1>2, <2>1, <2>2, RoomDealsAtOnce
<1>3. CASE k \notin DOMAIN rooms /\ k \in DOMAIN rooms'
  <2>1. PICK type \in RoomTypes, code \in Codes \cup {NoCode}, p \in PlayerIds :
            rooms'[k] = NewRoom(type, code, p)
    BY <1>1, <1>3 DEF SteppedRooms
  <2>2. QED
    BY <1>3, <2>1, RoomOpensWithAPlayer DEF FD!AtOnce
<1>4. CASE k \notin DOMAIN rooms /\ k \notin DOMAIN rooms'
  BY <1>4, FairDealSees DEF Seen
<1>5. QED
  BY <1>2, <1>3, <1>4

-----------------------------------------------------------------------------
(* What a handler answers about rooms *)

RoomReplies ==
    [type   : {"room_joined", "room_created", "room_started"},
     room   : Nat,
     hash   : Hashes,
     reveal : Seeds \cup {NoSeed}]

\* ViewsAreTrue of one reply to sid, when the rooms are rs.
TrueOf(r, rs, sid) ==
    /\ r.room \in DOMAIN rs
    /\ SeatsOf(rs[r.room], sid) # {}
    /\ r.hash \in {NoSeed, rs[r.room].seedHash}
    /\ r.reveal \in {NoSeed, rs[r.room].revealed}
    /\ r.reveal # NoSeed => r.hash = Hash(r.reveal)

\* A reply of a handler that made rs into new is true then, and if it opens a
\* room the room was not open before.
HonestReply(r, sid, rs, new) ==
    HasRoom(r) =>
        /\ r \in RoomReplies
        /\ TrueOf(r, new, sid)
        /\ r.reveal # NoSeed /\ r.room \in DOMAIN rs => rs[r.room].revealed = NoSeed

Honest(replies, sid, rs, new) ==
    \A i \in DOMAIN replies : HonestReply(replies[i], sid, rs, new)

LEMMA TruthStays ==
    ASSUME NEW r, NEW rs, NEW sid, TrueOf(r, rs, sid), NEW new, GrownRooms(rs, new)
    PROVE  TrueOf(r, new, sid)
<1>1. r.room \in DOMAIN new /\ GrownRoom(rs[r.room], new[r.room])
  BY DEF TrueOf, GrownRooms
<1>2. SeatsOf(new[r.room], sid) # {}
  BY <1>1 DEF TrueOf, GrownRoom, SeatsOf
<1>3. QED
  BY <1>1, <1>2 DEF TrueOf, GrownRoom

\* The reply that shows a room as it was when the handler got to it.
LEMMA RoomReplyIsTrue ==
    ASSUME NEW type \in {"room_joined", "room_created", "room_started"},
           NEW new, NEW k \in DOMAIN new, k \in Nat,
           NEW room, RoomInvariant(room), GrownRoom(room, new[k]),
           NEW sid, SeatsOf(room, sid) # {}
    PROVE  /\ RoomReply(type, k, room) \in RoomReplies
           /\ TrueOf(RoomReply(type, k, room), new, sid)
           /\ RoomReply(type, k, room).room = k
           /\ RoomReply(type, k, room).reveal = room.revealed
<1> DEFINE r == RoomReply(type, k, room)
<1>1. /\ r.room = k /\ r.hash = room.seedHash /\ r.reveal = room.revealed
      /\ r \in RoomReplies
  BY DEF RoomReply, RoomReplies, RoomInvariant, RoomRecords
<1>2. room.revealed # NoSeed => room.seedHash = Hash(room.revealed)
  BY DEF RoomInvariant, SeedInvariant, RoomRecords, RoomStates
<1>3. SeatsOf(new[k], sid) # {}
  BY DEF GrownRoom, SeatsOf
<1> HIDE DEF r
<1>4. TrueOf(r, new, sid)
  BY <1>1, <1>2, <1>3 DEF TrueOf, GrownRoom
<1>5. QED
  BY <1>1, <1>4 DEF r

LEMMA RoomReplyIsHonest ==
    ASSUME NEW type \in {"room_joined", "room_created", "room_started"},
           NEW rs, NEW new, NEW k \in DOMAIN new, k \in Nat,
           NEW room, RoomInvariant(room), GrownRoom(room, new[k]),
           NEW sid, SeatsOf(room, sid) # {},
           room.revealed # NoSeed /\ k \in DOMAIN rs => rs[k].revealed = NoSeed
    PROVE  HonestReply(RoomReply(type, k, room), sid, rs, new)
<1> DEFINE r == RoomReply(type, k, room)
<1>1. r \in RoomReplies /\ TrueOf(r, new, sid) /\ r.room = k /\ r.reveal = room.revealed
  BY RoomReplyIsTrue
<1> HIDE DEF r
<1>2. HonestReply(r, sid, rs, new)
  BY <1>1 DEF HonestReply
<1>3. QED
  BY <1>2 DEF r

LEMMA OneReplyIsHonest ==
    ASSUME NEW r, NEW sid, NEW rs, NEW new, HonestReply(r, sid, rs, new)
    PROVE  Honest(<<r>>, sid, rs, new)
<1>1. \A i \in DOMAIN <<r>> : <<r>>[i] = r
  OBVIOUS
<1>2. QED
  BY <1>1 DEF Honest

LEMMA DealRepliesAreHonest ==
    ASSUME NEW sid, NEW rs, NEW new, NEW k, NEW started,
           HonestReply(RoomReply("room_started", k, Dealt(started)), sid, rs, new)
    PROVE  /\ Honest(DealReplies(k, started), sid, rs, new)
           /\ \A r : HonestReply(r, sid, rs, new) =>
                        Honest(<<r>> \o DealReplies(k, started), sid, rs, new)
<1> DEFINE a == [type |-> "seed_commitment", room |-> k, hash |-> started.seedHash]
           b == RoomReply("room_started", k, Dealt(started))
<1>1. DealReplies(k, started) = <<a, b>>
  BY DEF DealReplies
<1>2. HonestReply(a, sid, rs, new) /\ HonestReply(b, sid, rs, new)
  BY DEF HonestReply, HasRoom
<1> HIDE DEF a, b
<1>3. Honest(<<a, b>>, sid, rs, new)
  <2>1. DOMAIN <<a, b>> = {1, 2} /\ <<a, b>>[1] = a /\ <<a, b>>[2] = b
    OBVIOUS
  <2>2. QED
    BY <1>2, <2>1 DEF Honest
<1>4. ASSUME NEW r, HonestReply(r, sid, rs, new)
      PROVE  Honest(<<r>> \o <<a, b>>, sid, rs, new)
  <2> DEFINE elements == {r, a, b}
             all == <<r>> \o <<a, b>>
  <2>1. <<r>> \in Seq(elements) /\ <<a, b>> \in Seq(elements) /\ Len(<<r>>) = 1 /\ Len(<<a, b>>) = 2
    OBVIOUS
  <2>2. DOMAIN all = {1, 2, 3} /\ all[1] = r /\ all[2] = a /\ all[3] = b
    BY <2>1, ConcatProperties
  <2> HIDE DEF all
  <2>3. Honest(all, sid, rs, new)
    BY <1>2, <1>4, <2>2 DEF Honest
  <2>4. QED
    BY <2>3 DEF all
<1>5. QED
  BY <1>1, <1>3, <1>4

\* What a client can rely on when a handler has served it.
ServedHonestly(c) ==
    /\ Honest(sent', conns[c].sid, rooms, rooms')
    /\ GrownRooms(rooms, rooms')

LEMMA QuickMatchIsHonest ==
    ASSUME IInv, NEW c \in Conns, NEW draw \in Draws, QuickMatch(c, draw)
    PROVE  ServedHonestly(c)
<1> DEFINE sid == conns[c].sid
           mid == Prologue(sid, draw)
           k == QuickMatchRoom(mid)
           seed == draw[k]
           joined == QuickMatched(mid, sid, seed)
           room == joined[k]
           joining == RoomReply("room_joined", k, room)
           greeting == Append(PrologueReplies(sid, draw), joining)
<1>1. GoodRooms(rooms) /\ sid \in PlayerIds /\ rooms \in Seq(RoomRecords)
  BY DEF IInv, ConnsOK, GoodRooms
<1>2. mid = rooms /\ greeting = <<joining>>
  <2> HIDE DEF sid, joining
  <2>1. Prologue(sid, draw) = rooms /\ PrologueReplies(sid, draw) = <<>>
    BY <1>1, PrologueDoesNothing
  <2>2. QED
    BY <2>1
<1>3. \/ /\ CanStart(room) /\ rooms' = StartedAndDealt(joined, k, seed)
         /\ sent' = greeting \o DealReplies(k, Started(room, seed))
      \/ /\ AwaitsDeal(room) /\ rooms' = [joined EXCEPT ![k] = Dealt(@)]
         /\ sent' = greeting \o DealReplies(k, room)
      \/ rooms' = joined /\ sent' = greeting
  BY DEF QuickMatch, Answer
<1>4. k <= MaxRooms
  BY DEF QuickMatch
<1> HIDE DEF mid, sid
<1>5. k \in Nat /\ seed \in Seeds
  <2>1. k \in Nat /\ k >= 1
    <3>1. OpenRandom(rooms) \in SUBSET (1..Len(rooms))
      BY <1>1 DEF OpenRandom
    <3>2. CASE OpenRandom(rooms) = {}
      BY <1>1, <1>2, <3>2 DEF QuickMatchRoom
    <3>3. CASE OpenRandom(rooms) # {}
      <4>1. First(OpenRandom(rooms)) \in OpenRandom(rooms)
        BY <1>1, <3>1, <3>3, FirstIsLeast
      <4>2. QED
        BY <1>1, <1>2, <3>1, <3>3, <4>1 DEF QuickMatchRoom
    <3>4. QED
      BY <3>2, <3>3
  <2>2. QED
    BY <1>4, <2>1, BoundsAssumption DEF Draws, RoomIds
<1>6. /\ RoomInvariant(room) /\ room.revealed = NoSeed
      /\ joined = [joined EXCEPT ![k] = room]
  <2> HIDE DEF seed
  <2>1. QED
    BY <1>1, <1>2, <1>5, QuickMatchedIsFine
<1>7. /\ GrownRooms(rooms, joined) /\ k \in DOMAIN joined /\ SeatsOf(room, sid) # {}
      /\ k \in DOMAIN rooms => rooms[k].revealed = NoSeed
  <2>1. CASE OpenRandom(rooms) = {}
    <3> DEFINE new == NewRoom("Random", NoCode, sid)
    <3>1. joined = Append(rooms, new) /\ k = Len(rooms) + 1
      BY <1>2, <2>1 DEF QuickMatched, QuickMatchRoom
    <3>2. new \in RoomRecords
      BY <1>1, NewRoomIsFine DEF RoomTypes, RoomInvariant
    <3>3. SeatsOf(new, sid) # {}
      <4>1. new.players = <<NewSeat(sid)>> /\ NewSeat(sid).id = sid
        BY DEF NewRoom, NewSeat
      <4>2. 1 \in DOMAIN <<NewSeat(sid)>> /\ <<NewSeat(sid)>>[1] = NewSeat(sid)
        OBVIOUS
      <4>3. 1 \in SeatsOf(new, sid)
        BY <4>1, <4>2 DEF SeatsOf
      <4>4. QED
        BY <4>3
    <3> HIDE DEF new, joined, k
    <3>4. k \in DOMAIN joined /\ joined[k] = new /\ k \notin DOMAIN rooms
      BY <1>1, <3>1, <3>2
    <3>5. GrownRooms(rooms, joined)
      BY <1>1, <3>1, <3>2, AppendGrows
    <3>6. QED
      BY <3>3, <3>4, <3>5
  <2>2. CASE OpenRandom(rooms) # {}
    <3> DEFINE old == rooms[k]
               new == Joined(old, sid, seed)
    <3>1. OpenRandom(rooms) \in SUBSET Nat
      BY <1>1 DEF OpenRandom
    <3>2. k \in OpenRandom(rooms)
      BY <1>2, <2>2, <3>1, FirstIsLeast DEF QuickMatchRoom
    <3>3. k \in DOMAIN rooms /\ RoomInvariant(old) /\ Accepts(old)
      BY <1>1, <3>2 DEF OpenRandom, GoodRooms, GoodRoom
    <3>4. old.revealed = NoSeed
      BY <3>3 DEF Accepts, RoomInvariant, SeedInvariant
    <3>5. joined = [rooms EXCEPT ![k] = new]
      BY <1>2, <2>2 DEF QuickMatched
    <3> HIDE DEF old, k, seed
    <3> DEFINE seated == Seated(old, sid)
    <3>6. /\ GrownRoom(old, seated) /\ SeatsOf(seated, sid) # {}
          /\ RoomInvariant(seated) /\ seated.state = "Waiting"
      BY <1>1, <3>3, SeatedGrows, SeatedIsFine
    <3>7. new = seated \/ new = Started(seated, seed)
      BY DEF Joined
    <3> HIDE DEF seated, new
    <3>8. GrownRoom(seated, Started(seated, seed))
      BY <1>5, <3>6, StartedGrows
    <3>9. GrownRoom(old, new) /\ SeatsOf(new, sid) # {}
      BY <3>6, <3>7, <3>8 DEF GrownRoom, SeatsOf
    <3>10. GrownRooms(rooms, [rooms EXCEPT ![k] = new])
      BY <3>9, ChangeGrows DEF old
    <3>11. k \in DOMAIN joined /\ joined[k] = new
      BY <3>3, <3>5
    <3>12. QED
      BY <3>4, <3>5, <3>9, <3>10, <3>11 DEF old
  <2>3. QED
    BY <2>1, <2>2
<1> HIDE DEF joined, k, seed
<1>8. ASSUME NEW new, GrownRoom(room, new), rooms' = [joined EXCEPT ![k] = new]
      PROVE  /\ GrownRooms(rooms, rooms') /\ k \in DOMAIN rooms' /\ rooms'[k] = new
             /\ HonestReply(joining, sid, rooms, rooms')
  <2>1. GrownRooms(joined, [joined EXCEPT ![k] = new])
    BY <1>8, ChangeGrows
  <2>2. GrownRooms(rooms, rooms')
    BY <1>7, <1>8, <2>1, GrowingIsTransitive
  <2>3. k \in DOMAIN rooms' /\ rooms'[k] = new
    BY <1>7, <1>8
  <2> HIDE DEF room
  <2>4. HonestReply(joining, sid, rooms, rooms')
    BY <1>5, <1>6, <1>7, <1>8, <2>3, RoomReplyIsHonest
  <2>5. QED
    BY <2>2, <2>3, <2>4
<1> HIDE DEF joining, greeting
<1>9. ASSUME NEW started, RoomInvariant(started), AwaitsDeal(started),
             GrownRoom(room, started),
             rooms' = [joined EXCEPT ![k] = Dealt(started)],
             sent' = greeting \o DealReplies(k, started)
      PROVE  ServedHonestly(c)
  <2> DEFINE dealt == Dealt(started)
  <2>1. RoomInvariant(dealt) /\ GrownRoom(started, dealt)
    BY <1>9, DealtIsFine, DealtGrows
  <2>2. GrownRoom(room, dealt) /\ GrownRoom(dealt, dealt) /\ SeatsOf(dealt, sid) # {}
    BY <1>7, <1>9, <2>1 DEF GrownRoom, SeatsOf
  <2> HIDE DEF room
  <2>3. /\ GrownRooms(rooms, rooms') /\ k \in DOMAIN rooms' /\ rooms'[k] = dealt
        /\ HonestReply(joining, sid, rooms, rooms')
    BY <1>8, <1>9, <2>2
  <2> HIDE DEF dealt
  <2>4. HonestReply(RoomReply("room_started", k, dealt), sid, rooms, rooms')
    BY <1>5, <1>7, <2>1, <2>2, <2>3, RoomReplyIsHonest
  <2>5. Honest(<<joining>> \o DealReplies(k, started), sid, rooms, rooms')
    BY <2>3, <2>4, DealRepliesAreHonest DEF dealt
  <2>6. QED
    BY <1>2, <1>9, <2>3, <2>5 DEF ServedHonestly, sid
<1>10. CASE CanStart(room) /\ rooms' = StartedAndDealt(joined, k, seed)
            /\ sent' = greeting \o DealReplies(k, Started(room, seed))
  <2>1. room.state = "Waiting"
    BY <1>10 DEF CanStart
  <2> DEFINE started == Started(room, seed)
  <2>2. rooms' = [joined EXCEPT ![k] = Dealt(started)]
    BY <1>10 DEF StartedAndDealt
  <2> HIDE DEF room
  <2>3. RoomInvariant(started) /\ GrownRoom(room, started)
    BY <1>5, <1>6, <2>1, StartedIsFine, StartedGrows
  <2>4. AwaitsDeal(started)
    <3>1. /\ started.state = "Playing" /\ started.revealed = NoSeed
          /\ started.seedHash = Hash(seed)
      BY <1>6 DEF Started, RoomInvariant, RoomRecords
    <3>2. QED
      BY <1>5, <3>1, HashAssumption DEF AwaitsDeal
  <2> HIDE DEF started
  <2>5. sent' = greeting \o DealReplies(k, started)
    BY <1>10 DEF started
  <2>6. QED
    BY <1>9, <2>2, <2>3, <2>4, <2>5
<1>11. CASE AwaitsDeal(room) /\ rooms' = [joined EXCEPT ![k] = Dealt(@)]
            /\ sent' = greeting \o DealReplies(k, room)
  <2>1. GrownRoom(room, room)
    BY DEF GrownRoom
  <2>2. QED
    BY <1>6, <1>9, <1>11, <2>1
<1>12. CASE rooms' = joined /\ sent' = greeting
  <2>1. GrownRoom(room, room)
    BY DEF GrownRoom
  <2>2. /\ GrownRooms(rooms, rooms') /\ HonestReply(joining, sid, rooms, rooms')
    BY <1>6, <1>8, <1>12, <2>1
  <2>3. Honest(<<joining>>, sid, rooms, rooms')
    BY <2>2, OneReplyIsHonest
  <2>4. QED
    BY <1>2, <1>12, <2>2, <2>3 DEF ServedHonestly, sid
<1>13. QED
  BY <1>3, <1>10, <1>11, <1>12

\* One reply of its own after a prologue that does nothing.
LEMMA OneAnswerIsHonest ==
    ASSUME IInv, NEW c \in Conns, NEW draw \in Draws, NEW r,
           Answer(c, Append(PrologueReplies(conns[c].sid, draw), r)),
           HonestReply(r, conns[c].sid, rooms, rooms')
    PROVE  Honest(sent', conns[c].sid, rooms, rooms')
<1>1. PrologueReplies(conns[c].sid, draw) = <<>>
  BY PrologueDoesNothing DEF IInv
<1>2. sent' = <<r>>
  BY <1>1 DEF Answer
<1>3. QED
  BY <1>2, OneReplyIsHonest

LEMMA CreatePrivateIsHonest ==
    ASSUME IInv, NEW c \in Conns, NEW code \in Codes, NEW draw \in Draws,
           CreatePrivate(c, code, draw)
    PROVE  ServedHonestly(c)
<1> DEFINE sid == conns[c].sid
           new == NewRoom("Private", code, sid)
           k == Len(rooms) + 1
<1>1. GoodRooms(rooms) /\ sid \in PlayerIds /\ rooms \in Seq(RoomRecords)
  BY DEF IInv, ConnsOK, GoodRooms
<1>2. /\ rooms' = Append(rooms, new)
      /\ Answer(c, Append(PrologueReplies(sid, draw), RoomReply("room_created", k, rooms'[k])))
  BY <1>1, PrologueDoesNothing DEF CreatePrivate, PrivateCreated
<1>3. RoomInvariant(new) /\ new.revealed = NoSeed
  BY <1>1, NewRoomIsFine DEF RoomTypes, NewRoom
<1>4. SeatsOf(new, sid) # {}
  <2>1. new.players = <<NewSeat(sid)>> /\ NewSeat(sid).id = sid
    BY DEF NewRoom, NewSeat
  <2>2. 1 \in DOMAIN <<NewSeat(sid)>> /\ <<NewSeat(sid)>>[1] = NewSeat(sid)
    OBVIOUS
  <2>3. 1 \in SeatsOf(new, sid)
    BY <2>1, <2>2 DEF SeatsOf
  <2>4. QED
    BY <2>3
<1> HIDE DEF new
<1>5. new \in RoomRecords
  BY <1>3 DEF RoomInvariant
<1>6. k \in DOMAIN rooms' /\ k \in Nat /\ rooms'[k] = new
  BY <1>1, <1>2, <1>5
<1>7. GrownRooms(rooms, rooms') /\ GrownRoom(new, rooms'[k])
  BY <1>1, <1>2, <1>5, <1>6, AppendGrows DEF GrownRoom
<1> HIDE DEF k
<1>8. HonestReply(RoomReply("room_created", k, new), sid, rooms, rooms')
  BY <1>3, <1>4, <1>6, <1>7, RoomReplyIsHonest
<1>9. Honest(sent', sid, rooms, rooms')
  BY <1>2, <1>6, <1>8, OneAnswerIsHonest
<1>10. QED
  BY <1>7, <1>9 DEF ServedHonestly

LEMMA JoinPrivateIsHonest ==
    ASSUME IInv, NEW c \in Conns, NEW code \in Codes, NEW draw \in Draws,
           JoinPrivate(c, code, draw)
    PROVE  ServedHonestly(c)
<1> DEFINE sid == conns[c].sid
           k == First(OpenPrivate(rooms, code))
           new == Seated(rooms[k], sid)
<1>1. GoodRooms(rooms) /\ sid \in PlayerIds /\ rooms \in Seq(RoomRecords)
  BY DEF IInv, ConnsOK, GoodRooms
<1>2. Prologue(sid, draw) = rooms
  BY <1>1, PrologueDoesNothing
<1>3. CASE OpenPrivate(rooms, code) # {}
  <2>1. OpenPrivate(rooms, code) \in SUBSET Nat
    BY <1>1 DEF OpenPrivate
  <2>2. k \in OpenPrivate(rooms, code)
    BY <1>3, <2>1, FirstIsLeast
  <2>3. k \in DOMAIN rooms /\ k \in Nat /\ RoomInvariant(rooms[k]) /\ Accepts(rooms[k])
    BY <1>1, <2>1, <2>2 DEF OpenPrivate, GoodRooms, GoodRoom
  <2>4. /\ rooms' = [rooms EXCEPT ![k] = new]
        /\ Answer(c, Append(PrologueReplies(sid, draw), RoomReply("room_joined", k, rooms'[k])))
    BY <1>2, <1>3 DEF JoinPrivate, PrivateJoined
  <2> HIDE DEF k
  <2>5. /\ RoomInvariant(new) /\ new.state = "Waiting"
        /\ GrownRoom(rooms[k], new) /\ SeatsOf(new, sid) # {}
    BY <1>1, <2>3, SeatedIsFine, SeatedGrows
  <2> HIDE DEF new
  <2>6. new.revealed = NoSeed
    BY <2>5 DEF RoomInvariant, SeedInvariant
  <2>7. GrownRooms(rooms, [rooms EXCEPT ![k] = new])
    BY <2>5, ChangeGrows
  <2>8. k \in DOMAIN rooms' /\ rooms'[k] = new /\ GrownRoom(new, rooms'[k])
    BY <2>3, <2>4 DEF GrownRoom
  <2>9. HonestReply(RoomReply("room_joined", k, new), sid, rooms, rooms')
    BY <2>3, <2>5, <2>6, <2>8, RoomReplyIsHonest
  <2>10. Honest(sent', sid, rooms, rooms')
    BY <2>4, <2>8, <2>9, OneAnswerIsHonest
  <2>11. QED
    BY <2>4, <2>7, <2>10 DEF ServedHonestly
<1>4. CASE OpenPrivate(rooms, code) = {}
  <2>1. /\ rooms' = rooms
        /\ Answer(c, Append(PrologueReplies(sid, draw), Reply("error")))
    BY <1>2, <1>4 DEF JoinPrivate
  <2>2. HonestReply(Reply("error"), sid, rooms, rooms')
    BY DEF HonestReply, HasRoom, Reply
  <2>3. GrownRooms(rooms, rooms')
    BY <2>1 DEF GrownRooms, GrownRoom
  <2>4. QED
    BY <2>1, <2>2, <2>3, OneAnswerIsHonest DEF ServedHonestly
<1>5. QED
  BY <1>3, <1>4

\* Who asks for the start of a room he sits in, as the button of the client does,
\* is shown that room.
LEMMA StartRoomIsHonest ==
    ASSUME IInv, NEW c \in Conns, NEW k \in RoomIds, NEW draw \in Draws,
           SeatsOf(rooms[k], conns[c].sid) # {},
           StartRoom(c, k, draw)
    PROVE  ServedHonestly(c)
<1> DEFINE sid == conns[c].sid
           room == rooms[k]
           seed == draw[k]
           started == Started(room, seed)
           dealt == Dealt(started)
<1>1. GoodRooms(rooms) /\ k \in Nat
  BY DEF IInv, RoomIds
<1>2. Prologue(sid, draw) = rooms /\ PrologueReplies(sid, draw) = <<>> /\ seed \in Seeds
  BY <1>1, PrologueDoesNothing DEF Draws
<1>3. CASE k \in DOMAIN rooms /\ CanStart(rooms[k])
  <2>1. /\ rooms' = [rooms EXCEPT ![k] = dealt]
        /\ sent' = <<>> \o DealReplies(k, started)
    BY <1>2, <1>3 DEF StartRoom, StartedAndDealt, Answer
  <2>2. RoomInvariant(room) /\ room.state = "Waiting"
    BY <1>1, <1>3 DEF GoodRooms, GoodRoom, CanStart
  <2>3. room.revealed = NoSeed
    BY <2>2 DEF RoomInvariant, SeedInvariant
  <2> HIDE DEF room, seed
  <2>4. RoomInvariant(started) /\ GrownRoom(room, dealt)
    BY <1>2, <2>2, StartedIsFine, StartedGrows
  <2>5. AwaitsDeal(started)
    <3>1. /\ started.state = "Playing" /\ started.revealed = NoSeed
          /\ started.seedHash = Hash(seed)
      BY <2>2 DEF Started, RoomInvariant, RoomRecords
    <3>2. QED
      BY <1>2, <3>1, HashAssumption DEF AwaitsDeal
  <2> HIDE DEF started
  <2>6. RoomInvariant(dealt)
    BY <2>4, <2>5, DealtIsFine
  <2>7. SeatsOf(dealt, sid) # {} /\ GrownRoom(dealt, dealt)
    BY <2>4 DEF GrownRoom, SeatsOf, room
  <2>8. sent' = DealReplies(k, started)
    BY <2>1 DEF DealReplies
  <2>9. GrownRooms(rooms, [rooms EXCEPT ![k] = dealt])
    BY <2>4, ChangeGrows DEF room
  <2>10. k \in DOMAIN rooms' /\ rooms'[k] = dealt
    BY <1>3, <2>1
  <2> HIDE DEF dealt
  <2>11. HonestReply(RoomReply("room_started", k, dealt), sid, rooms, rooms')
    BY <1>1, <2>3, <2>6, <2>7, <2>10, RoomReplyIsHonest DEF room
  <2>12. Honest(sent', sid, rooms, rooms')
    BY <2>8, <2>11, DealRepliesAreHonest DEF dealt
  <2>13. QED
    BY <2>1, <2>9, <2>12 DEF ServedHonestly
<1>4. CASE ~(k \in DOMAIN rooms /\ CanStart(rooms[k]))
  <2>1. /\ rooms' = rooms
        /\ Answer(c, Append(PrologueReplies(sid, draw), Reply("error")))
    BY <1>2, <1>4 DEF StartRoom
  <2>2. HonestReply(Reply("error"), sid, rooms, rooms')
    BY DEF HonestReply, HasRoom, Reply
  <2>3. GrownRooms(rooms, rooms')
    BY <2>1 DEF GrownRooms, GrownRoom
  <2>4. QED
    BY <2>1, <2>2, <2>3, OneAnswerIsHonest DEF ServedHonestly
<1>5. QED
  BY <1>3, <1>4

LEMMA TournamentMessageIsHonest ==
    ASSUME IInv, NEW c \in Conns, NEW draw \in Draws,
           \/ CreateTournament(c, draw)
           \/ \E k \in 1..MaxTournaments : JoinTournament(c, k, draw)
                                           \/ AdvanceTournament(c, k, draw)
    PROVE  ServedHonestly(c)
<1>1. PICK r : ~HasRoom(r) /\ AnswersAfterPrologue(c, draw, r)
  <2>1. \A type, t : ~HasRoom(Reply(type)) /\ ~HasRoom(TournamentReply(type, t))
    BY DEF HasRoom, Reply, TournamentReply
  <2>2. CASE CreateTournament(c, draw)
    BY <2>1, <2>2 DEF CreateTournament
  <2>3. CASE \E k \in 1..MaxTournaments : JoinTournament(c, k, draw)
    BY <2>1, <2>3 DEF JoinTournament
  <2>4. CASE \E k \in 1..MaxTournaments : AdvanceTournament(c, k, draw)
    BY <2>1, <2>4 DEF AdvanceTournament
  <2>5. QED
    BY <2>2, <2>3, <2>4
<1>2. rooms' = rooms
  BY <1>1, PrologueDoesNothing DEF IInv, AnswersAfterPrologue
<1>3. HonestReply(r, conns[c].sid, rooms, rooms')
  BY <1>1 DEF HonestReply
<1>4. GrownRooms(rooms, rooms')
  BY <1>2 DEF GrownRooms, GrownRoom
<1>5. QED
  BY <1>1, <1>3, <1>4, OneAnswerIsHonest DEF AnswersAfterPrologue, ServedHonestly

LEMMA AcceptIsHonest ==
    ASSUME NEW c \in Conns, Accept(c)
    PROVE  ServedHonestly(c)
<1>1. rooms' = rooms /\ sent' = <<Reply("welcome")>>
  BY DEF Accept, Answer
<1>2. HonestReply(Reply("welcome"), conns[c].sid, rooms, rooms')
  BY DEF HonestReply, HasRoom, Reply
<1>3. GrownRooms(rooms, rooms')
  BY <1>1 DEF GrownRooms, GrownRoom
<1>4. QED
  BY <1>1, <1>2, <1>3, OneReplyIsHonest DEF ServedHonestly

-----------------------------------------------------------------------------
(* The clients *)

\* What is on the way to a client and what it shows is true, and a frame is a
\* reply about a room.
ClientInv ==
    /\ wire \in [Conns -> Seq(RoomReplies)]
    /\ DOMAIN view = Conns
    /\ \A c \in Conns : \A n \in DOMAIN wire[c] : TrueOf(wire[c][n], rooms, conns[c].sid)
    /\ \A c \in Conns : view[c].room # 0 => TrueOf(view[c], rooms, conns[c].sid)

\* A frame that arrives is a reply about a room that the handler gave.
LEMMA ArrivingWasSent ==
    ASSUME NEW replies, Len(replies) \in Nat, NEW arriving \in Arrivals(replies),
           DOMAIN replies = 1..Len(replies)
    PROVE  /\ \E m \in Nat : DOMAIN arriving = 1..m
           /\ \A n \in DOMAIN arriving :
                 \E i \in DOMAIN replies : HasRoom(replies[i]) /\ arriving[n] = replies[i]
<1>1. PICK f \in Picks(Len(replies)) :
          /\ \A i \in DOMAIN f : HasRoom(replies[f[i]])
          /\ arriving = [i \in DOMAIN f |-> replies[f[i]]]
  BY DEF Arrivals
<1> DEFINE n == Len(replies)
<1>2. f \in UNION {[1..m -> 1..n] : m \in 0..n}
  BY <1>1 DEF Picks
<1> HIDE DEF n
<1>3. PICK m \in 0..n : f \in [1..m -> 1..n]
  BY <1>2
<1>4. n \in Nat /\ DOMAIN f = 1..m /\ \A i \in DOMAIN f : f[i] \in DOMAIN replies
  BY <1>3 DEF n
<1>5. QED
  BY <1>1, <1>4

\* The frames on the way to c are true when a handler that has served c honestly
\* has sent what arrives of its replies.
LEMMA SendingKeepsWires ==
    ASSUME ClientInv, IInv, NEW c \in Conns, ServedHonestly(c), Sends(c),
           \E S : sent' \in Seq(S)
    PROVE  /\ wire' \in [Conns -> Seq(RoomReplies)]
           /\ \A d \in Conns \ {c} : wire'[d] = wire[d]
           /\ \A n \in DOMAIN wire'[c] :
                 \/ n \in DOMAIN wire[c] /\ wire'[c][n] = wire[c][n]
                 \/ \E i \in DOMAIN sent' : HasRoom(sent'[i]) /\ wire'[c][n] = sent'[i]
<1>1. PICK arriving \in Arrivals(sent') : wire' = [wire EXCEPT ![c] = @ \o arriving]
  BY DEF Sends
<1>2. Len(sent') \in Nat /\ DOMAIN sent' = 1..Len(sent')
  OBVIOUS
<1>3. PICK m \in Nat : DOMAIN arriving = 1..m
  BY <1>2, ArrivingWasSent
<1>4. \A n \in 1..m : \E i \in DOMAIN sent' : HasRoom(sent'[i]) /\ arriving[n] = sent'[i]
  BY <1>2, <1>3, ArrivingWasSent
<1>5. \A n \in 1..m : arriving[n] \in RoomReplies
  BY <1>4 DEF ServedHonestly, Honest, HonestReply
<1>6. arriving = [n \in 1..m |-> arriving[n]]
  <2>1. PICK f : arriving = [i \in DOMAIN f |-> sent'[f[i]]]
    BY DEF Arrivals
  <2>2. QED
    BY <1>3, <2>1
<1>7. arriving \in Seq(RoomReplies) /\ Len(arriving) = m
  <2>1. arriving \in [1..m -> RoomReplies]
    BY <1>5, <1>6
  <2>2. QED
    BY <2>1, FunctionIsSeq
<1>8. wire[c] \in Seq(RoomReplies)
  BY DEF ClientInv
<1>9. wire[c] \o arriving \in Seq(RoomReplies)
  BY <1>7, <1>8
<1>10. /\ wire' \in [Conns -> Seq(RoomReplies)] /\ wire'[c] = wire[c] \o arriving
       /\ \A d \in Conns \ {c} : wire'[d] = wire[d]
  BY <1>1, <1>9 DEF ClientInv
<1>11. \A n \in DOMAIN (wire[c] \o arriving) :
          \/ n \in DOMAIN wire[c] /\ (wire[c] \o arriving)[n] = wire[c][n]
          \/ \E j \in 1..m : (wire[c] \o arriving)[n] = arriving[j]
  <2> DEFINE w == wire[c]
  <2>1. w \in Seq(RoomReplies)
    BY <1>8
  <2> HIDE DEF w
  <2>2. \A n \in DOMAIN (w \o arriving) :
          \/ n \in DOMAIN w /\ (w \o arriving)[n] = w[n]
          \/ n - Len(w) \in 1..m /\ (w \o arriving)[n] = arriving[n - Len(w)]
    BY <1>7, <2>1, ConcatProperties
  <2>3. QED
    BY <2>2 DEF w
<1>12. QED
  BY <1>4, <1>10, <1>11

\* A handler that answers a client sends a list of replies.
LEMMA RepliesAreListed ==
    ASSUME IInv, NEW c \in Conns,
           Accept(c) \/ \E draw \in Draws : Clicks(c, draw)
    PROVE  \E S : sent' \in Seq(S)
<1> DEFINE Listed(replies) == \E S : replies \in Seq(S)
<1>1. \A r : Listed(<<r>>)
  <2>1. \A r : <<r>> \in Seq({r})
    OBVIOUS
  <2>2. QED
    BY <2>1
<1>2. \A k, started : Listed(DealReplies(k, started)) /\ \A r : Listed(<<r>> \o DealReplies(k, started))
  <2>1. \A a, b : <<a, b>> \in Seq({a, b}) /\ \A r : <<r>> \o <<a, b>> \in Seq({r, a, b})
    OBVIOUS
  <2>2. QED
    BY <2>1 DEF DealReplies
<1> HIDE DEF Listed
<1>3. \A draw \in Draws : PrologueReplies(conns[c].sid, draw) = <<>>
  BY PrologueDoesNothing DEF IInv
<1>4. \A r : Append(<<>>, r) = <<r>>
  OBVIOUS
<1>5. CASE Accept(c)
  BY <1>1, <1>5 DEF Accept, Answer, Listed
<1>6. ASSUME NEW draw \in Draws, QuickMatch(c, draw)
      PROVE  Listed(sent')
  <2>1. \E r : Answer(c, Append(PrologueReplies(conns[c].sid, draw), r))
            \/ \E k, started : Answer(c, Append(PrologueReplies(conns[c].sid, draw), r)
                                         \o DealReplies(k, started))
    BY <1>6 DEF QuickMatch
  <2>2. \E r : sent' = <<r>> \/ \E k, started : sent' = <<r>> \o DealReplies(k, started)
    BY <1>3, <1>4, <2>1 DEF Answer
  <2>3. QED
    BY <1>1, <1>2, <2>2
<1>7. ASSUME NEW draw \in Draws, NEW code \in Codes,
             CreatePrivate(c, code, draw) \/ JoinPrivate(c, code, draw)
      PROVE  Listed(sent')
  BY <1>1, <1>3, <1>4, <1>7 DEF CreatePrivate, JoinPrivate, Answer
<1>8. ASSUME NEW draw \in Draws, NEW k, StartRoom(c, k, draw)
      PROVE  Listed(sent')
  <2>1. \A s : s \in {DealReplies(k, Started(Prologue(conns[c].sid, draw)[k], draw[k]))}
               => Listed(<<>> \o s)
    <3>1. \A a, b : <<>> \o <<a, b>> = <<a, b>>
      OBVIOUS
    <3>2. QED
      BY <1>2, <3>1 DEF DealReplies
  <2>2. QED
    BY <1>1, <1>3, <1>4, <1>8, <2>1 DEF StartRoom, Answer
<1>9. ASSUME NEW draw \in Draws,
             \/ CreateTournament(c, draw)
             \/ \E k \in DOMAIN tournaments : JoinTournament(c, k, draw) \/ AdvanceTournament(c, k, draw)
      PROVE  Listed(sent')
  <2>1. \E r : Answer(c, Append(PrologueReplies(conns[c].sid, draw), r))
    BY <1>9 DEF CreateTournament, JoinTournament, AdvanceTournament, AnswersAfterPrologue
  <2>2. QED
    BY <1>1, <1>3, <1>4, <2>1 DEF Answer
<1>10. QED
  BY <1>5, <1>6, <1>7, <1>8, <1>9 DEF Clicks, Listed

\* A click serves its client honestly, and is a message that the sessions know.
LEMMA ClickIsHonest ==
    ASSUME IInv, Bounded, TournamentsSound, ClientInv,
           NEW c \in Conns, NEW draw \in Draws, Clicks(c, draw)
    PROVE  /\ ServedHonestly(c) /\ conns' = conns
           /\ Next
<1>1. \A k \in DOMAIN tournaments : k \in 1..MaxTournaments
  BY BoundsAssumption DEF TournamentsSound
<1>2. view[c].room # 0 => view[c].room \in RoomIds /\ SeatsOf(rooms[view[c].room], conns[c].sid) # {}
  BY BoundsAssumption DEF ClientInv, TrueOf, Bounded, IInv, GoodRooms, RoomIds
<1>3. CASE QuickMatch(c, draw)
  <2>1. conns' = conns
    BY <1>3 DEF QuickMatch
  <2>2. QED
    BY <1>3, <2>1, QuickMatchIsHonest DEF Next
<1>4. ASSUME NEW code \in Codes, CreatePrivate(c, code, draw) \/ JoinPrivate(c, code, draw)
      PROVE  ServedHonestly(c) /\ conns' = conns /\ Next
  <2>1. conns' = conns
    BY <1>4 DEF CreatePrivate, JoinPrivate
  <2>2. ServedHonestly(c)
    BY <1>4, CreatePrivateIsHonest, JoinPrivateIsHonest
  <2>3. QED
    BY <1>4, <2>1, <2>2 DEF Next
<1>5. CASE view[c].room # 0 /\ StartRoom(c, view[c].room, draw)
  <2>1. conns' = conns
    BY <1>5 DEF StartRoom
  <2>2. ServedHonestly(c)
    BY <1>2, <1>5, StartRoomIsHonest
  <2>3. QED
    BY <1>2, <1>5, <2>1, <2>2 DEF Next
<1>6. CASE \/ CreateTournament(c, draw)
           \/ \E k \in DOMAIN tournaments : JoinTournament(c, k, draw)
                                            \/ AdvanceTournament(c, k, draw)
  <2>1. conns' = conns
    BY <1>6 DEF CreateTournament, JoinTournament, AdvanceTournament, AnswersAfterPrologue
  <2>2. ServedHonestly(c)
    BY <1>1, <1>6, TournamentMessageIsHonest
  <2>3. QED
    BY <1>1, <1>6, <2>1, <2>2 DEF Next
<1>7. QED
  BY <1>3, <1>4, <1>5, <1>6 DEF Clicks

\* Whatever the clients do, the sessions take a step of theirs.
LEMMA ClientStepsAreSteps ==
    ASSUME IInv, Bounded, TournamentsSound, ClientInv, [ClientNext]_clientVars
    PROVE  [Next]_vars
<1>1. CASE UNCHANGED clientVars
  BY <1>1 DEF clientVars
<1>2. ASSUME NEW c \in Conns, Click(c)
      PROVE  Next
  BY <1>2, ClickIsHonest DEF Click
<1>3. ASSUME NEW c \in Conns, Connect(c) \/ Disconnect(c)
      PROVE  Next
  BY <1>3 DEF Connect, Disconnect, Next
<1>4. CASE ServerStep
  BY <1>4 DEF ServerStep, Next
<1>5. ASSUME NEW c \in Conns, Receive(c)
      PROVE  UNCHANGED vars
  BY <1>5 DEF Receive
<1>6. QED
  BY <1>1, <1>2, <1>3, <1>4, <1>5 DEF ClientNext

\* A client that is served goes on being told the truth, and so do the others.
LEMMA ServingKeepsTruth ==
    ASSUME ClientInv, IInv, NEW c \in Conns, ServedHonestly(c), Sends(c),
           \E S : sent' \in Seq(S), \A d \in Conns : conns'[d].sid = conns[d].sid
    PROVE  ClientInv'
<1>1. GrownRooms(rooms, rooms') /\ view' = view
  BY DEF ServedHonestly, Sends
<1>2. ASSUME NEW d \in Conns, NEW n \in DOMAIN wire[d]
      PROVE  TrueOf(wire[d][n], rooms', conns'[d].sid)
  <2>1. TrueOf(wire[d][n], rooms, conns[d].sid)
    BY <1>2 DEF ClientInv
  <2>2. QED
    BY <1>1, <2>1, TruthStays
<1>3. ASSUME NEW i \in DOMAIN sent', HasRoom(sent'[i])
      PROVE  TrueOf(sent'[i], rooms', conns'[c].sid)
  BY <1>3 DEF ServedHonestly, Honest, HonestReply
<1>4. ASSUME NEW d \in Conns, NEW n \in DOMAIN wire'[d]
      PROVE  TrueOf(wire'[d][n], rooms', conns'[d].sid)
  <2>1. CASE d = c
    BY <1>2, <1>3, <1>4, <2>1, SendingKeepsWires
  <2>2. CASE d # c
    BY <1>2, <1>4, <2>2, SendingKeepsWires
  <2>3. QED
    BY <2>1, <2>2
<1>5. ASSUME NEW d \in Conns, view[d].room # 0
      PROVE  TrueOf(view[d], rooms', conns'[d].sid)
  BY <1>1, <1>5, TruthStays DEF ClientInv
<1>6. wire' \in [Conns -> Seq(RoomReplies)]
  BY SendingKeepsWires
<1>7. QED
  BY <1>1, <1>4, <1>5, <1>6 DEF ClientInv

\* What the rooms do by themselves leaves the truth true.
LEMMA GrowingKeepsTruth ==
    ASSUME ClientInv, GrownRooms(rooms, rooms'), view' = view,
           wire' \in [Conns -> Seq(RoomReplies)],
           \A d \in Conns : conns'[d].sid = conns[d].sid /\ wire'[d] \in {wire[d], <<>>}
    PROVE  ClientInv'
<1>1. ASSUME NEW d \in Conns, NEW n \in DOMAIN wire'[d]
      PROVE  TrueOf(wire'[d][n], rooms', conns'[d].sid)
  <2>1. wire'[d] = wire[d]
    BY <1>1
  <2>2. TrueOf(wire[d][n], rooms, conns[d].sid)
    BY <1>1, <2>1 DEF ClientInv
  <2>3. QED
    BY <2>1, <2>2, TruthStays
<1>2. ASSUME NEW d \in Conns, view[d].room # 0
      PROVE  TrueOf(view[d], rooms', conns'[d].sid)
  BY <1>2, TruthStays DEF ClientInv
<1>3. QED
  BY <1>1, <1>2 DEF ClientInv

LEMMA ReceivingKeepsTruth ==
    ASSUME ClientInv, NEW c \in Conns, Receive(c)
    PROVE  ClientInv'
<1> DEFINE w == wire[c]
           first == Head(w)
           rest == Tail(w)
<1>1. w \in Seq(RoomReplies) /\ w # <<>>
  BY DEF ClientInv, Receive
<1>2. /\ rest \in Seq(RoomReplies) /\ 1 \in DOMAIN w /\ first = w[1]
      /\ \A n \in DOMAIN rest : n + 1 \in DOMAIN w /\ rest[n] = w[n + 1]
  BY <1>1
<1>3. \A n \in DOMAIN w : TrueOf(w[n], rooms, conns[c].sid)
  BY DEF ClientInv
<1>4. /\ view' = [view EXCEPT ![c] = Shown(view[c], first)]
      /\ wire' = [wire EXCEPT ![c] = rest]
      /\ rooms' = rooms /\ conns' = conns
  BY DEF Receive, vars
<1> HIDE DEF w, first, rest
<1>5. TrueOf(first, rooms, conns[c].sid)
  BY <1>2, <1>3
<1>6. TrueOf(Shown(view[c], first), rooms, conns[c].sid)
  BY <1>5 DEF Shown, TrueOf
<1>7. ASSUME NEW n \in DOMAIN rest
      PROVE  TrueOf(rest[n], rooms, conns[c].sid)
  BY <1>2, <1>3, <1>7
<1>8. /\ wire' \in [Conns -> Seq(RoomReplies)] /\ DOMAIN view' = Conns
      /\ wire'[c] = rest /\ view'[c] = Shown(view[c], first)
      /\ \A d \in Conns \ {c} : wire'[d] = wire[d] /\ view'[d] = view[d]
  BY <1>2, <1>4 DEF ClientInv
<1>9. ASSUME NEW d \in Conns
      PROVE  /\ \A n \in DOMAIN wire'[d] : TrueOf(wire'[d][n], rooms', conns'[d].sid)
             /\ view'[d].room # 0 => TrueOf(view'[d], rooms', conns'[d].sid)
  <2>1. CASE d = c
    BY <1>4, <1>6, <1>7, <1>8, <2>1
  <2>2. CASE d # c
    BY <1>4, <1>8, <2>2 DEF ClientInv
  <2>3. QED
    BY <2>1, <2>2
<1>10. QED
  BY <1>8, <1>9 DEF ClientInv

LEMMA ClientStepKeepsTruth ==
    ASSUME IInv, Bounded, TournamentsSound, ClientInv, [ClientNext]_clientVars
    PROVE  ClientInv'
<1>1. CASE UNCHANGED clientVars
  BY <1>1 DEF clientVars, vars, ClientInv
<1>2. ASSUME NEW c \in Conns, Connect(c)
      PROVE  ClientInv'
  <2>1. Accept(c) /\ Sends(c)
    BY <1>2 DEF Connect
  <2>2. \A d \in Conns : conns'[d].sid = conns[d].sid
    BY <2>1 DEF Accept, IInv, ConnsOK
  <2>3. QED
    BY <2>1, <2>2, AcceptIsHonest, RepliesAreListed, ServingKeepsTruth
<1>3. ASSUME NEW c \in Conns, Click(c)
      PROVE  ClientInv'
  <2>1. PICK draw \in Draws : Clicks(c, draw)
    BY <1>3 DEF Click
  <2>2. ServedHonestly(c) /\ conns' = conns /\ Sends(c)
    BY <1>3, <2>1, ClickIsHonest DEF Click
  <2>3. QED
    BY <2>1, <2>2, RepliesAreListed, ServingKeepsTruth
<1>4. ASSUME NEW c \in Conns, Disconnect(c)
      PROVE  ClientInv'
  <2>1. /\ rooms' = Marked(rooms, conns[c].sid, "Disconnected")
        /\ \A d \in Conns : conns'[d].sid = conns[d].sid
    BY <1>4 DEF Disconnect, Close, IInv, ConnsOK
  <2>2. GrownRooms(rooms, rooms')
    BY <2>1, MarkedGrows DEF IInv, Statuses
  <2>3. /\ view' = view /\ wire' \in [Conns -> Seq(RoomReplies)]
        /\ \A d \in Conns : wire'[d] \in {wire[d], <<>>}
    BY <1>4 DEF Disconnect, ClientInv
  <2>4. QED
    BY <2>1, <2>2, <2>3, GrowingKeepsTruth
<1>5. CASE ServerStep
  <2>1. /\ view' = view /\ wire' = wire /\ conns' = conns
        /\ rooms' = rooms \/ rooms' = Aged(rooms)
    BY <1>5 DEF ServerStep, HandlerThrows, Tick
  <2>2. GrownRooms(rooms, rooms')
    BY <2>1, AgedGrows DEF IInv, GrownRooms, GrownRoom
  <2>3. QED
    BY <2>1, <2>2, GrowingKeepsTruth DEF ClientInv
<1>6. ASSUME NEW c \in Conns, Receive(c)
      PROVE  ClientInv'
  BY <1>6, ReceivingKeepsTruth
<1>7. QED
  BY <1>1, <1>2, <1>3, <1>4, <1>5, <1>6 DEF ClientNext


-----------------------------------------------------------------------------
(* What a stale view can come to *)

\* A client that still sees a room closed, with its seed out and not on the way.
Stale(c, k) ==
    /\ view[c].room = k /\ view[c].reveal = NoSeed
    /\ k \in DOMAIN rooms /\ rooms[k].revealed # NoSeed
    /\ ~Opens(wire[c], k)

StaysStale(c, k) == (view'[c].room = k => view'[c].reveal = NoSeed) /\ ~Opens(wire'[c], k)

\* A handler that serves a client does not open a room that is open already.
LEMMA ServingLeavesStale ==
    ASSUME ClientInv, IInv, NEW c \in Conns, ServedHonestly(c), Sends(c),
           \E S : sent' \in Seq(S), NEW d \in Conns, NEW k, Stale(d, k)
    PROVE  StaysStale(d, k)
<1>1. view' = view
  BY DEF Sends
<1>2. ASSUME NEW i \in DOMAIN sent', HasRoom(sent'[i]), sent'[i].room = k
      PROVE  sent'[i].reveal = NoSeed
  BY <1>2 DEF ServedHonestly, Honest, HonestReply, Stale
<1>3. ~Opens(wire'[d], k)
  <2>1. CASE d = c
    BY SMTT(30), <1>2, <2>1, SendingKeepsWires DEF Opens, Stale
  <2>2. CASE d # c
    BY <2>2, SendingKeepsWires DEF Stale
  <2>3. QED
    BY <2>1, <2>2
<1>4. QED
  BY <1>1, <1>3 DEF Stale, StaysStale

LEMMA ReceivingLeavesStale ==
    ASSUME ClientInv, NEW c \in Conns, Receive(c), NEW d \in Conns, NEW k, Stale(d, k)
    PROVE  StaysStale(d, k)
<1> DEFINE w == wire[c]
           first == Head(w)
           rest == Tail(w)
<1>1. w \in Seq(RoomReplies) /\ w # <<>>
  BY DEF ClientInv, Receive
<1>2. /\ 1 \in DOMAIN w /\ first = w[1]
      /\ \A n \in DOMAIN rest : n + 1 \in DOMAIN w /\ rest[n] = w[n + 1]
  BY <1>1
<1>3. /\ view' = [view EXCEPT ![c] = Shown(view[c], first)]
      /\ wire' = [wire EXCEPT ![c] = rest]
  BY DEF Receive
<1> HIDE DEF first, rest
<1>4. CASE d = c
  <2>1. ~Opens(w, k)
    BY <1>4 DEF Stale
  <2> HIDE DEF w
  <2>2. first.room = k => first.reveal = NoSeed
    BY <1>2, <2>1 DEF Opens
  <2>3. ~Opens(rest, k)
    BY <1>2, <2>1 DEF Opens
  <2>4. view'[c] = Shown(view[c], first) /\ wire'[c] = rest
    BY <1>3 DEF ClientInv
  <2>5. QED
    BY <1>4, <2>2, <2>3, <2>4 DEF StaysStale, Shown
<1>5. CASE d # c
  BY <1>3, <1>5 DEF ClientInv, Stale, StaysStale
<1>6. QED
  BY <1>4, <1>5

LEMMA StepLeavesStale ==
    ASSUME IInv, Bounded, TournamentsSound, ClientInv, [ClientNext]_clientVars,
           NEW d \in Conns, NEW k, Stale(d, k)
    PROVE  StaysStale(d, k)
<1>1. CASE UNCHANGED clientVars
  BY <1>1 DEF clientVars, Stale, StaysStale
<1>2. ASSUME NEW c \in Conns, Connect(c)
      PROVE  StaysStale(d, k)
  BY <1>2, AcceptIsHonest, RepliesAreListed, ServingLeavesStale DEF Connect
<1>3. ASSUME NEW c \in Conns, Click(c)
      PROVE  StaysStale(d, k)
  <2>1. PICK draw \in Draws : Clicks(c, draw)
    BY <1>3 DEF Click
  <2>2. ServedHonestly(c) /\ Sends(c)
    BY <1>3, <2>1, ClickIsHonest DEF Click
  <2>3. QED
    BY <2>1, <2>2, RepliesAreListed, ServingLeavesStale
<1>4. ASSUME NEW c \in Conns, Disconnect(c)
      PROVE  StaysStale(d, k)
  <2>1. view' = view /\ wire'[d] \in {wire[d], <<>>}
    BY <1>4 DEF Disconnect, ClientInv
  <2>2. ~Opens(<<>>, k)
    BY DEF Opens
  <2>3. QED
    BY <2>1, <2>2 DEF Stale, StaysStale
<1>5. CASE ServerStep
  BY <1>5 DEF ServerStep, Stale, StaysStale
<1>6. ASSUME NEW c \in Conns, Receive(c)
      PROVE  StaysStale(d, k)
  BY <1>6, ReceivingLeavesStale
<1>7. QED
  BY <1>1, <1>2, <1>3, <1>4, <1>5, <1>6 DEF ClientNext

-----------------------------------------------------------------------------
(* The theorems *)

\* The rooms are good in every state a handler leaves.
THEOREM RoomsAreGood == Spec => []IInv
<1> DEFINE Ok == Committed(sent)
<1>1. Init => IInv /\ Ok
  BY InitIsGood
<1>2. IInv /\ Ok /\ [Next]_vars => IInv' /\ Ok'
  BY StepIsGood
<1> HIDE DEF Ok
<1>3. QED
  BY <1>1, <1>2, PTL DEF Spec

\* The seed of a room is sent only after the hash it answers to, in whatever
\* order the handlers run.
THEOREM CommitmentIsFirst == Spec => CommitmentComesFirst
<1> DEFINE Ok == Committed(sent)
<1>1. Init => IInv /\ Ok
  BY InitIsGood
<1>2. IInv /\ Ok /\ [Next]_vars => IInv' /\ Ok' /\ [Committed(sent')]_vars
  BY StepIsGood
<1> HIDE DEF Ok
<1>3. QED
  BY <1>1, <1>2, PTL DEF Spec, CommitmentComesFirst

\* The limits hold and every tournament is sound, in every state a handler leaves.
THEOREM SharedStateIsSound == Spec => [](Bounded /\ TournamentsSound)
BY InitIsSound, StepIsBounded, StepIsSound, RoomsAreGood, PTL DEF Spec

\* What the sessions share keeps the shape of its components: rooms that are
\* rooms, tournaments that are tournaments, and no more than the limits allow.
THEOREM SharedStateIsTyped == Spec => []TypeOK
<1>1. Init => up \in BOOLEAN
  BY DEF Init
<1>2. up \in BOOLEAN /\ [Next]_vars => (up \in BOOLEAN)'
  <2> SUFFICES ASSUME up \in BOOLEAN, [Next]_vars
               PROVE  (up \in BOOLEAN)'
    OBVIOUS
  <2>1. CASE UNCHANGED vars \/ HandlerThrows \/ Tick
    BY <2>1 DEF vars, HandlerThrows, Tick
  <2>2. CASE \E c \in Conns : Accept(c) \/ Close(c)
    BY <2>2 DEF Accept, Close
  <2>3. ASSUME NEW c \in Conns, NEW draw \in Draws,
               \/ \E id \in PlayerIds : Reconnect(c, id, draw)
               \/ QuickMatch(c, draw)
               \/ \E code \in Codes : CreatePrivate(c, code, draw) \/ JoinPrivate(c, code, draw)
               \/ \E k \in RoomIds : StartRoom(c, k, draw)
               \/ OtherMessage(c, draw)
        PROVE  up' = up
    BY <2>3 DEF Reconnect, QuickMatch, CreatePrivate, JoinPrivate, StartRoom, OtherMessage
  <2>4. ASSUME NEW c \in Conns, NEW draw \in Draws,
               \/ CreateTournament(c, draw)
               \/ \E k \in 1..MaxTournaments :
                     \/ JoinTournament(c, k, draw)
                     \/ StartTournament(c, k, draw)
                     \/ AdvanceTournament(c, k, draw)
        PROVE  up' = up
    BY <2>4 DEF CreateTournament, JoinTournament, StartTournament, AdvanceTournament,
                AnswersAfterPrologue
  <2>5. QED
    BY <2>1, <2>2, <2>3, <2>4 DEF Next
<1>3. IInv /\ Bounded /\ TournamentsSound /\ up \in BOOLEAN => TypeOK
  BY ShapesAreTyped DEF IInv, GoodRooms, ConnsOK, Bounded, TournamentsSound, TypeOK
<1>4. QED
  BY <1>1, <1>2, <1>3, SharedStateIsSound, RoomsAreGood, PTL DEF Spec

\* No handler leaves a room that plays without its cards.
THEOREM PlayingRoomsAreDealt == Spec => []PlayingIsDealt
<1>1. IInv => PlayingIsDealt
  BY DEF IInv, GoodRooms, GoodRoom, PlayingIsDealt
<1>2. QED
  BY <1>1, RoomsAreGood, PTL

\* Matchmaking of the whole server never splits those who wait.
THEOREM MatchmakingOfSessions == Spec => []RM!OneOpenRandomRoom
<1>1. Init => RM!OneOpenRandomRoom
  BY DEF Init, RM!OneOpenRandomRoom
<1>2. IInv /\ IInv' /\ RM!OneOpenRandomRoom /\ [Next]_vars => RM!OneOpenRandomRoom'
  BY StepKeepsOneOpen
<1>3. QED
  BY <1>1, <1>2, RoomsAreGood, PTL DEF Spec

\* No handler takes a room away, moves a seat, lets anybody into a room that
\* plays, stops a game, draws a second seed or takes dealt cards back.
THEOREM SessionsOnlyProgress == Spec => RM!RoomsOnlyProgress
<1> DEFINE Kept(k) ==
              /\ k \in DOMAIN rooms'
              /\ \A s \in DOMAIN rooms[k].players :
                    rooms'[k].players[s].id = rooms[k].players[s].id
              /\ rooms[k].state = "Playing" =>
                    /\ rooms'[k].state = "Playing"
                    /\ RM!IdsOf(rooms'[k]) = RM!IdsOf(rooms[k])
                    /\ rooms'[k].seedHash = rooms[k].seedHash
              /\ rooms[k].revealed # NoSeed =>
                    \A s \in DOMAIN rooms[k].players :
                       rooms'[k].players[s].hand = rooms[k].players[s].hand
<1>1. ASSUME IInv, [Next]_vars, NEW k \in DOMAIN rooms
      PROVE  Kept(k)
  <2>1. k \in DOMAIN rooms' /\ RoomInvariant(rooms[k]) /\ RoomSteps(rooms[k], rooms'[k])
    BY <1>1, EveryStepSteps DEF SteppedRooms, IInv, GoodRooms, GoodRoom
  <2>2. ProgressedRoom(rooms[k], rooms'[k])
    BY <2>1, StepsProgress
  <2>3. QED
    BY <2>1, <2>2 DEF ProgressedRoom, RM!IdsOf
<1>2. ASSUME IInv, [Next]_vars
      PROVE  [\A k \in DOMAIN rooms : Kept(k)]_rooms
  BY <1>1, <1>2
<1>3. QED
  BY <1>2, RoomsAreGood, PTL DEF Spec, RM!RoomsOnlyProgress

\* A room of the server commits to the seed it holds, deals all its hands from
\* the one deck of that seed, and drops only first seats.
THEOREM RoomsOfSessionsAreFair ==
    Spec => [](RM!CommitmentBinds /\ RM!HandsComeFromOneDeck /\ RM!OnlyFirstSeatsDisconnect)
<1>1. IInv => RM!CommitmentBinds
  <2>1. SUFFICES ASSUME IInv, NEW k \in DOMAIN rooms
                 PROVE  LET room == rooms[k]
                        IN  /\ room.state = "Waiting" => room.seedHash = NoSeed
                            /\ room.state = "Playing" =>
                                  room.seed # NoSeed /\ room.seedHash = Hash(room.seed)
                            /\ room.revealed \in {NoSeed, room.seed}
    BY DEF RM!CommitmentBinds, RM!Hash, Hash
  <2>2. rooms[k].state \in {"Waiting", "Playing"} /\ RoomInvariant(rooms[k])
    BY <2>1 DEF IInv, GoodRooms, GoodRoom, RoomInvariant, RoomRecords, RoomStates
  <2>3. QED
    BY <2>2, SeedsAssumption DEF RoomInvariant, SeedInvariant
<1>2. IInv => RM!HandsComeFromOneDeck
  <2>1. ASSUME NEW k \in DOMAIN rooms, RoomInvariant(rooms[k]), rooms[k].revealed # NoSeed,
               NEW s \in DOMAIN rooms[k].players, NEW t \in DOMAIN rooms[k].players
        PROVE  LET seats == rooms[k].players
               IN  /\ seats[s].hand.seed = rooms[k].revealed
                   /\ RM!CardsOf(seats[s]) \subseteq 0..(DeckSize - 1)
                   /\ s # t => RM!CardsOf(seats[s]) \cap RM!CardsOf(seats[t]) = {}
    <3> DEFINE room == rooms[k]
    <3>1. /\ room.players[s].hand = [seed |-> room.revealed, from |-> DealIndex(s)]
          /\ room.players[t].hand = [seed |-> room.revealed, from |-> DealIndex(t)]
      BY <2>1 DEF RoomInvariant, SeatsInvariant
    <3>2. s \in 1..Capacity /\ t \in 1..Capacity
      BY <2>1, CapacityAssumption DEF RoomInvariant, RoomRecords
    <3>3. /\ DealIndex(s) \in Nat /\ DealIndex(s) + HandSize <= DeckSize
          /\ DealIndex(t) \in Nat
          /\ t < s => DealIndex(t) + HandSize <= DealIndex(s)
          /\ s < t => DealIndex(s) + HandSize <= DealIndex(t)
      BY <3>2, DealIndexFits
    <3>4. /\ room.players[s].hand.seed = room.revealed
          /\ room.players[s].hand.from = DealIndex(s)
          /\ room.players[t].hand.from = DealIndex(t)
      BY <3>1
    <3>5. s # t => s < t \/ t < s
      BY <3>2, CapacityAssumption
    <3>6. RM!CardsOf(room.players[s]) \subseteq 0..(DeckSize - 1)
      BY <3>3, <3>4, DeckAssumption DEF RM!CardsOf
    <3>7. s # t => RM!CardsOf(room.players[s]) \cap RM!CardsOf(room.players[t]) = {}
      BY <3>3, <3>4, <3>5, DeckAssumption DEF RM!CardsOf
    <3>8. QED
      BY <3>4, <3>6, <3>7
  <2>2. ASSUME NEW k \in DOMAIN rooms, RoomInvariant(rooms[k]), rooms[k].revealed = NoSeed
        PROVE  \A s \in DOMAIN rooms[k].players : rooms[k].players[s].hand = RM!NoHand
    BY <2>2 DEF RoomInvariant, SeatsInvariant, NoHand, RM!NoHand
  <2>3. IInv => \A k \in DOMAIN rooms : RoomInvariant(rooms[k])
    BY DEF IInv, GoodRooms, GoodRoom
  <2>4. QED
    BY <2>1, <2>2, <2>3 DEF RM!HandsComeFromOneDeck
<1>3. IInv => RM!OnlyFirstSeatsDisconnect
  BY DEF IInv, GoodRooms, GoodRoom, RoomInvariant, SeatsInvariant, RM!OnlyFirstSeatsDisconnect
<1>4. QED
  BY <1>1, <1>2, <1>3, RoomsAreGood, PTL

\* Every room of the server goes through a fair deal, and no handler leaves it
\* between the commitment and the deal.
THEOREM SessionsDealAtOnce == Spec => RoomsDealAtOnce
<1>1. ASSUME NEW k \in RoomIds
      PROVE  Spec => FD(k)!AtOnceSpec
  <2>1. Init => FD(k)!Init
    BY DEF Init, FD!Init
  <2>2. ASSUME IInv, IInv', [Next]_vars
        PROVE  [FD(k)!AtOnce]_(FD(k)!vars)
    BY <2>2, StepDealsAtOnce
  <2>3. QED
    BY <2>1, <2>2, RoomsAreGood, PTL DEF Spec, FD!AtOnceSpec
<1>2. QED
  BY <1>1 DEF RoomsDealAtOnce

\* A seat changes its status only when somebody leaves or comes back under the id
\* of its player, and shows the last of these events that was noticed.
THEOREM LastEventDecides == Spec => StatusFollowsConnection
<1> DEFINE Rule == \A p \in PlayerIds : StatusRule(p)
<1>1. IInv /\ [Next]_vars => [Rule]_vars
  <2>1. ASSUME IInv, Next, NEW p \in PlayerIds
        PROVE  StatusRule(p)
    <3>1. ChangeRule(p)
      BY <2>1, StepFollowsTheRule
    <3>2. ASSUME \E c \in Conns, draw \in Draws : Reconnect(c, p, draw)
          PROVE  \A k \in RoomsOf(rooms, p) : \A s \in SeatsOf(rooms[k], p) :
                    k = FindByPlayer(rooms, p) /\ s = First(SeatsOf(rooms[k], p))
                        => rooms'[k].players[s].status = "Connected"
      BY <2>1, <3>2, ReturnShows
    <3>3. QED
      BY <3>1, <3>2 DEF ChangeRule, StatusRule
  <2>2. QED
    BY <2>1
<1>2. Rule <=> \A p \in PlayerIds :
          LET leaves == \E c \in Conns :
                  conns[c] = [phase |-> "open", sid |-> p] /\ conns'[c].phase = "closed"
              returns == \E c \in Conns, draw \in Draws : Reconnect(c, p, draw)
          IN  \A k \in RoomsOf(rooms, p) : \A s \in SeatsOf(rooms[k], p) :
                  LET first == k = FindByPlayer(rooms, p) /\ s = First(SeatsOf(rooms[k], p))
                      old == rooms[k].players[s].status
                      new == rooms'[k].players[s].status
                  IN  /\ new # old => first /\ (leaves \/ returns)
                      /\ leaves /\ first => new = "Disconnected"
                      /\ returns /\ first => new = "Connected"
  BY DEF StatusRule
<1> HIDE DEF Rule
<1>3. QED
  BY <1>1, <1>2, RoomsAreGood, PTL DEF Spec, StatusFollowsConnection

\* Whatever a message does to the list of tournaments is, for each of them, a step
\* of that tournament alone, as TournamentProofs reasons about it; and no message
\* touches two of them.
THEOREM TournamentsStepAlone == Spec => TournamentsFollowTheirRules
<1>1. Init => TournamentsListed
  <2>1. <<>> \in Seq({})
    OBVIOUS
  <2>2. QED
    BY <2>1 DEF Init, TournamentsListed
<1>2. OwnSteps <=>
          LET Changed(k) == k \notin DOMAIN tournaments \/ tournaments'[k] # tournaments[k]
          IN  /\ \A k \in DOMAIN tournaments :
                    /\ k \in DOMAIN tournaments'
                    /\ tournaments'[k] = tournaments[k] \/ T(k)!Next
              /\ \A j, k \in DOMAIN tournaments' : Changed(j) /\ Changed(k) => j = k
  BY DEF OwnSteps, OwnStep, Changes
<1> HIDE DEF OwnSteps
<1>3. QED
  BY <1>1, <1>2, StepIsOwn, RoomsAreGood, PTL DEF Spec, TournamentsFollowTheirRules

\* Whatever the clients click and however little arrives, the sessions do what
\* Session allows them, so that every theorem about Spec is one about the clients.
THEOREM ClientsAreSessions == ClientSpec => Spec /\ []ClientInv
<1> DEFINE CInv == IInv /\ Committed(sent) /\ Bounded /\ TournamentsSound /\ ClientInv
<1>1. ClientInit => CInv
  <2> SUFFICES ASSUME ClientInit
               PROVE  CInv
    OBVIOUS
  <2>1. Init
    BY DEF ClientInit
  <2>2. ClientInv
    <3>1. /\ wire = [c \in Conns |-> <<>>] /\ view = [c \in Conns |-> NoRoom]
      BY DEF ClientInit
    <3>2. NoRoom.room = 0
      BY DEF NoRoom
    <3>3. QED
      BY <3>1, <3>2 DEF ClientInv
  <2>3. QED
    BY <2>1, <2>2, InitIsGood, InitIsSound
<1>2. CInv /\ [ClientNext]_clientVars => CInv' /\ [Next]_vars
  <2> SUFFICES ASSUME CInv, [ClientNext]_clientVars
               PROVE  CInv' /\ [Next]_vars
    OBVIOUS
  <2>1. [Next]_vars
    BY ClientStepsAreSteps
  <2>2. IInv' /\ Committed(sent')
    BY <2>1, StepIsGood
  <2>3. Bounded' /\ TournamentsSound'
    BY <2>1, StepIsBounded, StepIsSound
  <2>4. ClientInv'
    BY ClientStepKeepsTruth
  <2>5. QED
    BY <2>1, <2>2, <2>3, <2>4
<1>3. CInv => ClientInv
  OBVIOUS
<1>4. ClientInit => Init
  BY DEF ClientInit
<1> HIDE DEF CInv
<1>5. QED
  BY <1>1, <1>2, <1>3, <1>4, PTL DEF ClientSpec, Spec

\* A client shows a room it sits in, and nothing of it that is not so, whatever
\* is lost on the way.
THEOREM ViewsStayTrue == ClientSpec => []ViewsAreTrue
<1>1. ClientInv => ViewsAreTrue
  BY DEF ClientInv, TrueOf, ViewsAreTrue
<1>2. QED
  BY <1>1, ClientsAreSessions, PTL

\* Nobody is shown the cards of an open room later on.
THEOREM StaleViewsAreStuck == ClientSpec => StaleViewsStay
<1> DEFINE Rule == \A c \in Conns : Stale(c, view[c].room) => StaysStale(c, view[c].room)
<1>1. IInv /\ Bounded /\ TournamentsSound /\ ClientInv /\ [ClientNext]_clientVars => [Rule]_clientVars
  BY StepLeavesStale
<1>2. ClientInv /\ Rule =>
       \A c \in Conns :
          LET k == view[c].room
          IN  /\ k # 0 /\ rooms[k].type = "Random"
              /\ view[c].reveal = NoSeed /\ rooms[k].revealed # NoSeed
              /\ ~Opens(wire[c], k)
              => /\ view'[c].room = k => view'[c].reveal = NoSeed
                 /\ ~Opens(wire'[c], k)
  BY DEF ClientInv, TrueOf, Stale, StaysStale
<1> HIDE DEF Rule
<1>3. Spec => [](IInv /\ Bounded /\ TournamentsSound)
  BY SharedStateIsSound, RoomsAreGood, PTL
<1>4. QED
  BY <1>1, <1>2, <1>3, ClientsAreSessions, PTL DEF ClientSpec, StaleViewsStay

=============================================================================
