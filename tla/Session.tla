------------------------------- MODULE Session -------------------------------
(***************************************************************************)
(* The server as its sessions drive it: server/session.cpp on top of the   *)
(* rooms and the tournaments that every session shares (server_state.cpp). *)
(*                                                                         *)
(* main.cpp runs the io_context on one thread, so that a handler runs to   *)
(* its end before another begins: one action per handler.  Handlers of     *)
(* different connections come in any order, and the end of a connection is *)
(* noticed at any later moment.  A message is answered to its sender only; *)
(* `sent` is what the last handler answered.                               *)
(*                                                                         *)
(* A message that is not a JSON object changes nothing and is left out.    *)
(***************************************************************************)
EXTENDS Rooms

CONSTANTS
    Conns,            \* the connections, each named by the id on_accept draws for it
    Messages,         \* the message types a run looks at
    NoPlayer,         \* the empty string: the winner_id of a tournament that has none
    TableSize,        \* seats at a tournament table: 7
    MaxParticipants,  \* registrations a tournament takes: 300
    MaxStrength,      \* bound on the strength of a hand
    MaxRooms,         \* bound on the rooms ever created
    MaxTournaments    \* bound on the tournaments ever created

\* PlayerIds holds whatever a message may claim to be the id of its sender: ids
\* of other connections, of none, and the empty one.
ASSUME ConnsAssumption == Conns \subseteq PlayerIds

ASSUME MessagesAssumption ==
    Messages \subseteq {"reconnect", "quick_match", "create_private", "join_private",
                        "start_room", "create_tournament", "join_tournament",
                        "start_tournament", "advance_tournament"}

ASSUME BoundsAssumption == MaxRooms \in Nat /\ MaxTournaments \in Nat

\* What Tournament assumes of its constants.
ASSUME TournamentAssumption ==
    /\ TableSize \in Nat /\ TableSize >= 2
    /\ MaxParticipants \in Nat /\ MaxStrength \in Nat

\* create_tournament does not look whether there is room for its creator.
ASSUME CreatorAssumption == MaxParticipants >= 1

VARIABLES
    up,           \* the process runs
    conns,        \* per connection: phase, and session_id_
    rooms,        \* rooms_ of the RoomManager
    tournaments,  \* tournaments_ of the TournamentManager
    sent,         \* the replies of the last handler, in order
    committed     \* per connection: the rooms whose seed_commitment it got

vars == <<up, conns, rooms, tournaments, sent, committed>>

\* The k-th tournament, seen as the component of its own that it is.
T(k) == INSTANCE Tournament WITH tournament <- tournaments[k]

Phases == {"connecting", "open", "closed"}

RoomIds == 1..MaxRooms

Draws == [RoomIds -> Seeds]

-----------------------------------------------------------------------------
(* Replies *)

Reply(type) == [type |-> type]

RoomReply(type, k, room) ==
    [type |-> type, room |-> k, hash |-> room.seedHash, reveal |-> room.revealed]

TournamentReply(type, t) == [type |-> type, state |-> t.state]

\* Mutant of DealReplies: the room first.
DealRepliesSwapped(k, started) ==
    <<RoomReply("room_started", k, Dealt(started)),
      [type |-> "seed_commitment", room |-> k, hash |-> started.seedHash]>>

\* What a handler answers when it deals room k; only make_room_state shows the
\* seed.
DealReplies(k, started) ==
    <<[type |-> "seed_commitment", room |-> k, hash |-> started.seedHash],
      RoomReply("room_started", k, Dealt(started))>>

Answer(c, replies) ==
    /\ sent' = replies
    /\ committed' = [committed EXCEPT ![c] = @ \cup
          {replies[i].room : i \in {j \in DOMAIN replies :
                                       replies[j].type = "seed_commitment"}}]

-----------------------------------------------------------------------------
(* What handle_message does before it looks at the type: start the rooms   *)
(* that are overdue, then deal the sender's room if nobody has dealt it.   *)

\* Mutant of OwesDeal: a room that plays is dealt again.
OwesDealAgain(rs, sid) ==
    RoomsOf(rs, sid) # {} /\ rs[FindByPlayer(rs, sid)].state = "Playing"

OwesDeal(rs, sid) ==
    RoomsOf(rs, sid) # {} /\ AwaitsDeal(rs[FindByPlayer(rs, sid)])

Prologue(sid, draw) ==
    LET started == ExpiredStarted(rooms, draw)
        mine == FindByPlayer(started, sid)
    IN  IF OwesDeal(started, sid)
        THEN [started EXCEPT ![mine] = Dealt(@)]
        ELSE started

PrologueReplies(sid, draw) ==
    LET started == ExpiredStarted(rooms, draw)
        mine == FindByPlayer(started, sid)
    IN  IF OwesDeal(started, sid)
        THEN DealReplies(mine, started[mine])
        ELSE <<>>

\* Mutant of StartedAndDealt: the deal is left to the prologue of a later message.
StartedOnly(rs, k, seed) == [rs EXCEPT ![k] = Started(@, seed)]

\* start_room, and deal_cards when it succeeds.
StartedAndDealt(rs, k, seed) == [rs EXCEPT ![k] = Dealt(Started(@, seed))]

-----------------------------------------------------------------------------
(* Connections *)

Init ==
    /\ up = TRUE
    /\ conns = [c \in Conns |-> [phase |-> "connecting", sid |-> c]]
    /\ rooms = <<>>
    /\ tournaments = <<>>
    /\ sent = <<>>
    /\ committed = [c \in Conns |-> {}]

Accept(c) ==
    /\ up
    /\ conns[c].phase = "connecting"
    /\ conns' = [conns EXCEPT ![c].phase = "open"]
    /\ Answer(c, <<Reply("welcome")>>)
    /\ UNCHANGED <<up, rooms, tournaments>>

\* on_read fails or finds the connection closed.
Close(c) ==
    /\ up
    /\ conns[c].phase = "open"
    /\ conns' = [conns EXCEPT ![c].phase = "closed"]
    /\ rooms' = Marked(rooms, conns[c].sid, "Disconnected")
    /\ sent' = <<>>
    /\ UNCHANGED <<up, tournaments, committed>>

\* An exception (a field that is missing or no string, no entropy) passes
\* through ioc.run() and ends the process, and with it all there was.
HandlerThrows ==
    /\ up
    /\ \E c \in Conns : conns[c].phase \in {"connecting", "open"}
    /\ up' = FALSE
    /\ UNCHANGED <<conns, rooms, tournaments, sent, committed>>

Tick ==
    /\ up
    /\ rooms' = Aged(rooms)
    /\ UNCHANGED <<up, conns, tournaments, sent, committed>>

-----------------------------------------------------------------------------
(* Messages about rooms *)

Receives(c, type) ==
    /\ up
    /\ conns[c].phase = "open"
    /\ type \in Messages

\* Mutant of Reconnect: reconnect_player is never called.
ReconnectUnmarked(c, id, draw) ==
    /\ Receives(c, "reconnect")
    /\ conns' = [conns EXCEPT ![c].sid = id]
    /\ rooms' = Prologue(conns[c].sid, draw)
    /\ Answer(c, Append(PrologueReplies(conns[c].sid, draw), Reply("reconnected")))
    /\ UNCHANGED <<up, tournaments>>

\* The sender is whoever the message says; session_id_ takes any string.
Reconnect(c, id, draw) ==
    LET sid == conns[c].sid
    IN  /\ Receives(c, "reconnect")
        /\ conns' = [conns EXCEPT ![c].sid = id]
        /\ rooms' = Marked(Prologue(sid, draw), id, "Connected")
        /\ Answer(c, Append(PrologueReplies(sid, draw), Reply("reconnected")))
        /\ UNCHANGED <<up, tournaments>>

QuickMatch(c, draw) ==
    LET sid == conns[c].sid
        mid == Prologue(sid, draw)
        k == QuickMatchRoom(mid)
        joined == QuickMatched(mid, sid, draw[k])
        room == joined[k]
        greeting == Append(PrologueReplies(sid, draw), RoomReply("room_joined", k, room))
    IN  /\ Receives(c, "quick_match")
        /\ k <= MaxRooms
        /\ \/ /\ CanStart(room)
              /\ rooms' = StartedAndDealt(joined, k, draw[k])
              /\ Answer(c, greeting \o DealReplies(k, Started(room, draw[k])))
           \/ /\ AwaitsDeal(room)
              /\ rooms' = [joined EXCEPT ![k] = Dealt(@)]
              /\ Answer(c, greeting \o DealReplies(k, room))
           \/ /\ ~CanStart(room) /\ ~AwaitsDeal(room)
              /\ rooms' = joined
              /\ Answer(c, greeting)
        /\ UNCHANGED <<up, conns, tournaments>>

CreatePrivate(c, code, draw) ==
    LET sid == conns[c].sid
        created == PrivateCreated(Prologue(sid, draw), code, sid)
        k == Len(rooms) + 1
    IN  /\ Receives(c, "create_private")
        /\ k <= MaxRooms
        /\ rooms' = created
        /\ Answer(c, Append(PrologueReplies(sid, draw),
                            RoomReply("room_created", k, created[k])))
        /\ UNCHANGED <<up, conns, tournaments>>

JoinPrivate(c, code, draw) ==
    LET sid == conns[c].sid
        mid == Prologue(sid, draw)
        k == First(OpenPrivate(mid, code))
        joined == PrivateJoined(mid, code, sid)
    IN  /\ Receives(c, "join_private")
        /\ IF OpenPrivate(mid, code) # {}
           THEN /\ rooms' = joined
                /\ Answer(c, Append(PrologueReplies(sid, draw),
                                    RoomReply("room_joined", k, joined[k])))
           ELSE /\ rooms' = mid
                /\ Answer(c, Append(PrologueReplies(sid, draw), Reply("error")))
        /\ UNCHANGED <<up, conns, tournaments>>

StartRoom(c, k, draw) ==
    LET sid == conns[c].sid
        mid == Prologue(sid, draw)
    IN  /\ Receives(c, "start_room")
        /\ IF k \in DOMAIN mid /\ CanStart(mid[k])
           THEN /\ rooms' = StartedAndDealt(mid, k, draw[k])
                /\ Answer(c, PrologueReplies(sid, draw)
                                \o DealReplies(k, Started(mid[k], draw[k])))
           ELSE /\ rooms' = mid
                /\ Answer(c, Append(PrologueReplies(sid, draw), Reply("error")))
        /\ UNCHANGED <<up, conns, tournaments>>

-----------------------------------------------------------------------------
(* Messages about tournaments *)

\* The prologue runs for these as well; `reply` comes after its replies.
AnswersAfterPrologue(c, draw, reply) ==
    /\ rooms' = Prologue(conns[c].sid, draw)
    /\ Answer(c, Append(PrologueReplies(conns[c].sid, draw), reply))
    /\ UNCHANGED <<up, conns>>

\* The creator is the first to join.
CreateTournament(c, draw) ==
    LET k == Len(tournaments) + 1
        new == T(k)!Joined(T(k)!NewTournament, conns[c].sid)
    IN  /\ Receives(c, "create_tournament")
        /\ k <= MaxTournaments
        /\ tournaments' = Append(tournaments, new)
        /\ AnswersAfterPrologue(c, draw, TournamentReply("tournament_created", new))

JoinTournament(c, k, draw) ==
    /\ Receives(c, "join_tournament")
    /\ IF k \in DOMAIN tournaments /\ T(k)!CanJoin(tournaments[k])
       THEN /\ tournaments' = [tournaments EXCEPT ![k] = T(k)!Joined(@, conns[c].sid)]
            /\ AnswersAfterPrologue(c, draw,
                  TournamentReply("tournament_joined", tournaments'[k]))
       ELSE /\ UNCHANGED tournaments
            /\ AnswersAfterPrologue(c, draw, Reply("error"))

StartTournament(c, k, draw) ==
    /\ Receives(c, "start_tournament")
    /\ IF k \in DOMAIN tournaments /\ T(k)!CanStart(tournaments[k])
       THEN \E hands \in [tournaments[k].alive -> T(k)!Strengths] :
               /\ tournaments' = [tournaments EXCEPT ![k] = T(k)!Started(@, hands)]
               /\ AnswersAfterPrologue(c, draw,
                     TournamentReply("tournament_round_started", tournaments'[k]))
       ELSE /\ UNCHANGED tournaments
            /\ AnswersAfterPrologue(c, draw, Reply("error"))

\* Mutant of AdvanceTournament: every tournament that runs plays a round.
AdvanceEveryRunning(c, k, draw) ==
    /\ Receives(c, "advance_tournament")
    /\ k \in DOMAIN tournaments
    /\ \E hands \in [1..MaxParticipants -> T(k)!Strengths] :
          tournaments' = [j \in DOMAIN tournaments |->
              IF tournaments[j].state = "Running"
              THEN T(j)!Advanced(tournaments[j], [i \in tournaments[j].alive |-> hands[i]])
              ELSE tournaments[j]]
    /\ AnswersAfterPrologue(c, draw, TournamentReply("tournament_round_started", tournaments'[k]))

\* advance_round does nothing unless the tournament is running; the answer
\* looks at the state afterwards.
AdvanceTournament(c, k, draw) ==
    /\ Receives(c, "advance_tournament")
    /\ k \in DOMAIN tournaments
    /\ IF tournaments[k].state = "Running"
       THEN \E hands \in [tournaments[k].alive -> T(k)!Strengths] :
               tournaments' = [tournaments EXCEPT ![k] = T(k)!Advanced(@, hands)]
       ELSE UNCHANGED tournaments
    /\ AnswersAfterPrologue(c, draw,
          TournamentReply(IF tournaments'[k].state = "Finished"
                          THEN "tournament_finished"
                          ELSE "tournament_round_started", tournaments'[k]))

\* A message of no known type, or about a tournament that does not exist and
\* that nobody can advance: only the prologue.
OtherMessage(c, draw) ==
    /\ up
    /\ conns[c].phase = "open"
    /\ rooms' = Prologue(conns[c].sid, draw)
    /\ Answer(c, PrologueReplies(conns[c].sid, draw))
    /\ UNCHANGED <<up, conns, tournaments>>

-----------------------------------------------------------------------------

Next ==
    \/ \E c \in Conns : Accept(c) \/ Close(c)
    \/ HandlerThrows
    \/ Tick
    \/ \E c \in Conns, draw \in Draws :
          \/ \E id \in PlayerIds : Reconnect(c, id, draw)
          \/ QuickMatch(c, draw)
          \/ \E code \in Codes : CreatePrivate(c, code, draw)
          \/ \E code \in Codes : JoinPrivate(c, code, draw)
          \/ \E k \in RoomIds : StartRoom(c, k, draw)
          \/ CreateTournament(c, draw)
          \/ \E k \in 1..MaxTournaments :
                \/ JoinTournament(c, k, draw)
                \/ StartTournament(c, k, draw)
                \/ AdvanceTournament(c, k, draw)
          \/ OtherMessage(c, draw)

Spec == Init /\ [][Next]_vars

-----------------------------------------------------------------------------
(* Properties *)

\* The state the sessions share keeps the shape of its components.
TypeOK ==
    /\ up \in BOOLEAN
    /\ conns \in [Conns -> [phase : Phases, sid : PlayerIds]]
    /\ rooms \in Seq(RoomRecords)
    /\ Len(rooms) <= MaxRooms
    /\ Len(tournaments) <= MaxTournaments
    /\ \A k \in DOMAIN tournaments : T(k)!TypeOK
    /\ committed \in [Conns -> SUBSET RoomIds]

\* Between two handlers no room plays without its cards: whoever makes it
\* start deals it before giving way.  Otherwise a message of somebody outside
\* the room could start it and nobody inside would see a card until he wrote.
PlayingIsDealt ==
    \A k \in DOMAIN rooms : rooms[k].state = "Playing" => rooms[k].revealed # NoSeed

Reveals(reply) == "reveal" \in DOMAIN reply /\ reply.reveal # NoSeed

\* No seed comes out in the replies but after the hash it answers to.
Committed(replies) ==
    \A i \in DOMAIN replies :
        Reveals(replies[i]) =>
            \E j \in 1..(i - 1) :
                /\ replies[j].type = "seed_commitment"
                /\ replies[j].room = replies[i].room
                /\ replies[j].hash = Hash(replies[i].reveal)
                /\ \A m \in 1..j : Reveals(replies[m]) => replies[m].room # replies[i].room

\* In the replies to one message the seed of a room comes out only after the
\* hash it answers to, and never before it; README.md:73 says so of the server.
CommitmentComesFirst == [][Committed(sent')]_vars

\* A seat changes its status only when a connection that goes by its player's
\* id ends or somebody comes back by that id, and only the seat that
\* find_by_player meets first; and both always show there.  The last of these
\* events decides what the seat says, whichever connection it came from.
StatusFollowsConnection ==
    [][\A p \in PlayerIds :
          LET leaves == \E c \in Conns :
                  conns[c] = [phase |-> "open", sid |-> p] /\ conns'[c].phase = "closed"
              returns == \E c \in Conns, draw \in Draws : Reconnect(c, p, draw)
          IN  \A k \in RoomsOf(rooms, p) : \A s \in SeatsOf(rooms[k], p) :
                  LET first == k = FindByPlayer(rooms, p) /\ s = First(SeatsOf(rooms[k], p))
                      old == rooms[k].players[s].status
                      new == rooms'[k].players[s].status
                  IN  /\ new # old => first /\ (leaves \/ returns)
                      /\ leaves /\ first => new = "Disconnected"
                      /\ returns /\ first => new = "Connected"]_vars

\* What FairDeal sees of the k-th room, whether or not it exists yet.
FD(k) == INSTANCE FairDeal WITH
            seats  <- IF k \in DOMAIN rooms THEN IdsOf(rooms[k])   ELSE <<>>,
            hash   <- IF k \in DOMAIN rooms THEN rooms[k].seedHash ELSE NoSeed,
            opened <- IF k \in DOMAIN rooms THEN rooms[k].revealed ELSE NoSeed,
            hands  <- IF k \in DOMAIN rooms THEN HandsOf(rooms[k]) ELSE <<>>

\* Whatever the sessions do, every room goes through a fair deal of which no
\* handler ever does half: players sit down one by one, and the handler that
\* commits to a seed opens it.
RoomsDealAtOnce == \A k \in RoomIds : FD(k)!AtOnceSpec

\* Whatever the sessions do to a tournament is a step of it alone, and a message
\* creates, joins, starts or advances no more than one: which one a player meant
\* is no business of anybody else's tournament.
TournamentsFollowTheirRules ==
    [][LET Changes(k) == k \notin DOMAIN tournaments \/ tournaments'[k] # tournaments[k]
       IN  /\ \A k \in DOMAIN tournaments :
                 /\ k \in DOMAIN tournaments'
                 /\ tournaments'[k] = tournaments[k] \/ T(k)!Next
           /\ \A j, k \in DOMAIN tournaments' : Changes(j) /\ Changes(k) => j = k]_vars

\* README.md:73: the server sends seedHash before the deal.  The players of a
\* dealt room, that is, have been sent it.
PlayersSawTheCommitment ==
    \A k \in DOMAIN rooms : rooms[k].revealed # NoSeed =>
        \A s \in DOMAIN rooms[k].players :
            \E c \in Conns : conns[c].sid = rooms[k].players[s].id /\ k \in committed[c]

\* README.md:76: a quick match waits for 2..7 players and starts by itself, or
\* after 20 seconds with two or more.  A random room that plays, that is, has
\* players to play against each other, and is full or overdue.
QuickMatchAsDescribed ==
    \A k \in DOMAIN rooms : rooms[k].type = "Random" /\ rooms[k].state = "Playing" =>
        /\ \E s, t \in DOMAIN rooms[k].players :
              rooms[k].players[s].id # rooms[k].players[t].id
        /\ Len(rooms[k].players) = Capacity \/ Expired(rooms[k])

=============================================================================
