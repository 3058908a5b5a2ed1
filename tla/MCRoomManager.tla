---------------------------- MODULE MCRoomManager ----------------------------
(* Model checking of RoomManager and of its refinement of FairDeal. *)
EXTENDS RoomManager, TLC

\* Nothing tells the players, the seeds or the codes apart.
Symmetry == Permutations(PlayerIds) \cup Permutations(Seeds) \cup Permutations(Codes)

=============================================================================
