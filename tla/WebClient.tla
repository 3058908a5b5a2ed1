------------------------------ MODULE WebClient ------------------------------
(***************************************************************************)
(* Web clients (client/app.js) on the sessions of the server.  A client    *)
(* keeps the last room it was sent and sends what its buttons send: it     *)
(* never reconnects and has no button that starts a tournament.            *)
(*                                                                         *)
(* Between the two lies what send_json makes of a reply.  async_write is   *)
(* given a buffer that is gone when send_json returns.  A stream that is   *)
(* idle takes the first reply from the buffer at once; the next one waits  *)
(* with a dangling buffer, and one more finds another waiting, which       *)
(* websocket::stream does not allow.  Such a reply may arrive, arrive      *)
(* unreadable (JSON.parse throws and the client keeps what it has) or not  *)
(* at all; here any reply may be lost.  Replies without a room leave       *)
(* roomState alone and are not followed on their way.  The demo button,    *)
(* which shows an invented room, is left out.                              *)
(***************************************************************************)
EXTENDS Session

CONSTANT MaxWire  \* bound on the frames on the way when a handler runs

VARIABLES
    wire,  \* per connection: the replies on the way to the client
    view   \* per connection: roomState of the client

clientVars == <<vars, wire, view>>

NoRoom == [room |-> 0, hash |-> NoSeed, reveal |-> NoSeed]

ClientInit ==
    /\ Init
    /\ wire = [c \in Conns |-> <<>>]
    /\ view = [c \in Conns |-> NoRoom]

HasRoom(reply) == "reveal" \in DOMAIN reply

\* The ways to keep some places of a list of n, in their order.
Picks(n) ==
    {f \in UNION {[1..m -> 1..n] : m \in 0..n} : \A i, j \in DOMAIN f : i < j => f[i] < f[j]}

\* What may arrive of the replies of one handler.
Arrivals(replies) ==
    {[i \in DOMAIN f |-> replies[f[i]]] :
        f \in {g \in Picks(Len(replies)) : \A i \in DOMAIN g : HasRoom(replies[g[i]])}}

Sends(c) ==
    /\ Len(wire[c]) <= MaxWire
    /\ \E arriving \in Arrivals(sent') : wire' = [wire EXCEPT ![c] = @ \o arriving]
    /\ UNCHANGED view

\* The buttons of app.js.
Clicks(c, draw) ==
    \/ QuickMatch(c, draw)
    \/ \E code \in Codes : CreatePrivate(c, code, draw) \/ JoinPrivate(c, code, draw)
    \/ view[c].room # 0 /\ StartRoom(c, view[c].room, draw)
    \/ CreateTournament(c, draw)
    \/ \E k \in DOMAIN tournaments : JoinTournament(c, k, draw) \/ AdvanceTournament(c, k, draw)

Click(c) ==
    /\ \E draw \in Draws : Clicks(c, draw)
    /\ Sends(c)

Connect(c) == Accept(c) /\ Sends(c)

Disconnect(c) ==
    /\ Close(c)
    /\ wire' = [wire EXCEPT ![c] = <<>>]
    /\ UNCHANGED view

ServerStep ==
    /\ HandlerThrows \/ Tick
    /\ UNCHANGED <<wire, view>>

\* Mutant of Shown: the state is merged into a room that keeps its id.
ShownUnderFirstId(old, reply) ==
    [room |-> IF old.room = 0 THEN reply.room ELSE old.room,
     hash |-> reply.hash, reveal |-> reply.reveal]

\* The message handler replaces roomState.
Shown(old, reply) == [room |-> reply.room, hash |-> reply.hash, reveal |-> reply.reveal]

Receive(c) ==
    /\ wire[c] # <<>>
    /\ view' = [view EXCEPT ![c] = Shown(@, Head(wire[c]))]
    /\ wire' = [wire EXCEPT ![c] = Tail(@)]
    /\ UNCHANGED vars

ClientNext ==
    \/ \E c \in Conns : Connect(c) \/ Click(c) \/ Disconnect(c) \/ Receive(c)
    \/ ServerStep

ClientSpec == ClientInit /\ [][ClientNext]_clientVars

-----------------------------------------------------------------------------
(* Properties *)

\* A client shows a room it sits in, under the hash and the seed of that very
\* room, and a seed only with its hash: what is lost on the way makes a view old,
\* never false.
ViewsAreTrue ==
    \A c \in Conns : view[c].room # 0 =>
        LET room == rooms[view[c].room]
        IN  /\ SeatsOf(room, conns[c].sid) # {}
            /\ view[c].hash \in {NoSeed, room.seedHash}
            /\ view[c].reveal \in {NoSeed, room.revealed}
            /\ view[c].reveal # NoSeed => view[c].hash = Hash(view[c].reveal)

\* The seed of room k is on the way.
Opens(replies, k) == \E n \in DOMAIN replies : replies[n].room = k /\ replies[n].reveal # NoSeed

\* A room of a quick match is shown with its cards to the one who made it start,
\* and to nobody else ever: a player who still sees it waiting when it plays, with
\* nothing on the way to him, keeps seeing it so whatever he clicks.
StaleViewsStay ==
    [][\A c \in Conns :
          LET k == view[c].room
          IN  /\ k # 0 /\ rooms[k].type = "Random"
              /\ view[c].reveal = NoSeed /\ rooms[k].revealed # NoSeed
              /\ ~Opens(wire[c], k)
              => /\ view'[c].room = k => view'[c].reveal = NoSeed
                 /\ ~Opens(wire'[c], k)]_clientVars

=============================================================================
