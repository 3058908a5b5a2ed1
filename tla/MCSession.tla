------------------------------ MODULE MCSession ------------------------------
(* Model checking of Session; each run picks the messages it looks at. *)
EXTENDS Session, TLC

CONSTANT MaxSeats  \* bound on the seats of all rooms together

\* Nothing tells the connections apart.
ConnectionSymmetry == Permutations(Conns)

\* Rooms and tournaments share nothing but the prologue of a handler, and a
\* tournament does not look at who sends: a behaviour is followed as long as it
\* has rooms only, or tournaments and nobody has reconnected.
RoomsOrTournaments ==
    \/ Len(tournaments) = 0
    \/ Len(rooms) = 0 /\ \A c \in Conns : conns[c].sid = c

\* No action reads sent and committed.
WithoutHistory == <<up, conns, rooms, tournaments>>

SeatsInAll == Cardinality({<<k, s>> \in RoomIds \X (1..Capacity) :
                              k \in DOMAIN rooms /\ s \in DOMAIN rooms[k].players})

\* Nothing follows the end of the process.
Followed == up /\ RoomsOrTournaments /\ SeatsInAll <= MaxSeats

=============================================================================
