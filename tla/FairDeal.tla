------------------------------- MODULE FairDeal -------------------------------
(***************************************************************************)
(* What a room promises its players: who sits down sits down before the    *)
(* room commits to a seed; the seed is then opened once, and it is the one *)
(* the commitment is about; the hands follow from it and from the seats.   *)
(***************************************************************************)
EXTENDS Naturals, Sequences

CONSTANTS PlayerIds, Seeds, NoSeed, Capacity, HandSize

VARIABLES
    seats,   \* who plays, in the order of arrival
    hash,    \* the commitment
    opened,  \* the seed, once it is revealed
    hands    \* what each seat was dealt

vars == <<seats, hash, opened, hands>>

Commitment(seed) == [sha256 |-> seed]

Init ==
    /\ seats = <<>>
    /\ hash = NoSeed
    /\ opened = NoSeed
    /\ hands = <<>>

SitDown(p) ==
    /\ hash = NoSeed
    /\ Len(seats) < Capacity
    /\ seats' = Append(seats, p)
    /\ UNCHANGED <<hash, opened, hands>>

\* The last one to sit down may make the room commit.
Complete ==
    /\ \/ seats' = seats
       \/ Len(seats) < Capacity /\ \E p \in PlayerIds : seats' = Append(seats, p)
    /\ Len(seats') >= 2

HandsFrom(seed, who) == [s \in DOMAIN who |-> [seed |-> seed, from |-> HandSize * (s - 1)]]

Commit(seed) ==
    /\ hash = NoSeed
    /\ Complete
    /\ hash' = Commitment(seed)
    /\ UNCHANGED <<opened, hands>>

Open(seed) ==
    /\ hash = Commitment(seed)
    /\ opened = NoSeed
    /\ opened' = seed
    /\ hands' = HandsFrom(seed, seats)
    /\ UNCHANGED <<seats, hash>>

Next ==
    \/ \E p \in PlayerIds : SitDown(p)
    \/ \E seed \in Seeds : Commit(seed) \/ Open(seed)

Spec == Init /\ [][Next]_vars

-----------------------------------------------------------------------------
(* The same for who looks only when a handler is done *)

\* Commit and Open with nothing in between.
CommitAndOpen(seed) ==
    /\ hash = NoSeed /\ opened = NoSeed
    /\ Complete
    /\ hash' = Commitment(seed)
    /\ opened' = seed
    /\ hands' = HandsFrom(seed, seats')

AtOnce ==
    \/ \E p \in PlayerIds : SitDown(p)
    \/ \E seed \in Seeds : CommitAndOpen(seed)

AtOnceSpec == Init /\ [][AtOnce]_vars

=============================================================================
