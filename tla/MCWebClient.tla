------------------------------ MODULE MCWebClient ------------------------------
(* Model checking of WebClient. *)
EXTENDS WebClient, TLC

\* Nothing tells the connections apart, and there is a single seed.
Symmetry == Permutations(Conns)

\* sent and committed are read by no action.
WithoutHistory == <<up, conns, rooms, tournaments, wire, view>>

\* Rooms and tournaments share nothing but the prologue of a handler.
RoomsOrTournaments == Len(tournaments) = 0 \/ Len(rooms) = 0

=============================================================================
