------------------------------ MODULE TableLogic ------------------------------
(***************************************************************************)
(* The two loops of server/table_logic.cpp, seat by seat: deal_room gives  *)
(* every seat the next cards of the shuffled deck, room_winner_id keeps    *)
(* the best hand so far.  Rooms and Tournament describe the results of     *)
(* these loops in one stroke (Dealt, TableWinner); here they are shown to  *)
(* be what the loops compute.                                              *)
(*                                                                         *)
(* A hand is its first card's place in the deck and its strength, which    *)
(* HandValue::operator> compares and the shuffle decides.  NoPlayer, the   *)
(* empty string, may be a session id: reconnect adopts any (session.cpp:83)*)
(***************************************************************************)
EXTENDS Naturals, Sequences, FiniteSets

CONSTANTS
    PlayerIds,    \* session ids
    NoPlayer,     \* the empty string
    Capacity,     \* seats at a table: 7
    HandSize,     \* cards in a hand: 3
    DeckSize,     \* cards in the deck: 21
    MaxStrength   \* bound on the strength of a hand

ASSUME DeckAssumption ==
    /\ Capacity \in Nat /\ HandSize \in Nat /\ DeckSize \in Nat
    /\ Capacity * HandSize <= DeckSize
ASSUME MaxStrengthAssumption == MaxStrength \in Nat

VARIABLES
    players,  \* the seats: id, and whether the status is Eliminated
    hands,    \* per seat, NoHand until it is dealt
    index,    \* the next card of the deck
    at,       \* the seat the running loop is at
    best,     \* strength of the best hand so far
    winner,   \* who holds it
    pc        \* the loop that runs: "deal", "judge", or "done"

vars == <<players, hands, index, at, best, winner, pc>>

Strengths == 0..MaxStrength

NoHand == [from |-> 0, strength |-> 0, dealt |-> FALSE]

SeatNumbers == DOMAIN players

Active(s) == ~players[s].eliminated

Init ==
    /\ \E n \in 1..Capacity :
          players \in [1..n -> [id : PlayerIds, eliminated : BOOLEAN]]
    /\ hands = [s \in DOMAIN players |-> NoHand]
    /\ index = 0
    /\ at = 1
    /\ best = 0
    /\ winner = NoPlayer
    /\ pc = "deal"

Running(loop) == pc = loop /\ at \in SeatNumbers

\* Mutant of Skip: the seat is counted in the body of the loop as well.
SkipTwice(loop) ==
    /\ Running(loop)
    /\ ~Active(at)
    /\ at' = at + 2
    /\ UNCHANGED <<players, hands, index, best, winner, pc>>

Skip(loop) ==
    /\ Running(loop)
    /\ ~Active(at)
    /\ at' = at + 1
    /\ UNCHANGED <<players, hands, index, best, winner, pc>>

\* Mutant of NextHand: a card dealt twice.
NextHandOverlapping(i) == i + HandSize - 1

\* The index after the three cards of a hand.
NextHand(i) == i + HandSize

DealSeat ==
    /\ Running("deal")
    /\ Active(at)
    /\ \E strength \in Strengths :
          hands' = [hands EXCEPT ![at] =
                       [from |-> index, strength |-> strength, dealt |-> TRUE]]
    /\ index' = NextHand(index)
    /\ at' = at + 1
    /\ UNCHANGED <<players, best, winner, pc>>

\* The table is dealt; room_winner_id begins.
BeginJudging ==
    /\ pc = "deal"
    /\ at \notin SeatNumbers
    /\ pc' = "judge"
    /\ at' = 1
    /\ UNCHANGED <<players, hands, index, best, winner>>

\* Mutant of Improves: the last of the best hands wins.
ImprovesOrTies(s) == winner = NoPlayer \/ hands[s].strength >= best

\* winner.empty() || value > best
Improves(s) == winner = NoPlayer \/ hands[s].strength > best

JudgeSeat ==
    /\ Running("judge")
    /\ Active(at)
    /\ IF Improves(at)
       THEN best' = hands[at].strength /\ winner' = players[at].id
       ELSE UNCHANGED <<best, winner>>
    /\ at' = at + 1
    /\ UNCHANGED <<players, hands, index, pc>>

Return ==
    /\ pc = "judge"
    /\ at \notin SeatNumbers
    /\ pc' = "done"
    /\ UNCHANGED <<players, hands, index, at, best, winner>>

Next ==
    \/ \E loop \in {"deal", "judge"} : Skip(loop)
    \/ DealSeat
    \/ BeginJudging
    \/ JudgeSeat
    \/ Return

Spec == Init /\ [][Next]_vars

-----------------------------------------------------------------------------
(* Properties *)

\* The loops keep their variables in range: in particular the deck is never
\* read past its end, which vector::operator[] would not notice.
TypeOK ==
    /\ players \in Seq([id : PlayerIds, eliminated : BOOLEAN])
    /\ Len(players) \in 1..Capacity
    /\ hands \in [SeatNumbers -> [from : 0..DeckSize, strength : Strengths, dealt : BOOLEAN]]
    /\ index \in 0..DeckSize
    /\ at \in 1..(Len(players) + 1)
    /\ best \in Strengths
    /\ winner \in PlayerIds \cup {NoPlayer}
    /\ pc \in {"deal", "judge", "done"}

\* deal_room deals each active seat HandSize cards no other seat gets, however
\* many eliminated players sit between them, and nothing to the others.
HandsAreApart ==
    /\ \A s \in SeatNumbers : hands[s].dealt => Active(s) /\ hands[s].from + HandSize <= index
    /\ \A s, t \in SeatNumbers :
          hands[s].dealt /\ hands[t].dealt /\ s < t => hands[s].from + HandSize <= hands[t].from
    /\ pc # "deal" => \A s \in SeatNumbers : Active(s) => hands[s].dealt

\* Seat t beats seat s: a better hand, or as good a hand in an earlier seat.
Beats(t, s) ==
    \/ hands[t].strength > hands[s].strength
    \/ hands[t].strength = hands[s].strength /\ t < s

\* The loop has forgotten seat t when it is at seat s: in between, or at t itself,
\* sits somebody under the empty id, which winner.empty() takes for no winner.
ForgottenAt(t, s) ==
    \E e \in SeatNumbers : Active(e) /\ players[e].id = NoPlayer /\ t <= e /\ e < s

\* room_winner_id returns the id of an active seat that none beats which the loop
\* remembers; where nobody has the empty id, of the first of the best hands: the
\* strict comparison decides ties for who sits earlier.  Without an active seat it
\* returns the empty id.
WinnerHasBestRememberedHand ==
    pc = "done" =>
        IF \E s \in SeatNumbers : Active(s)
        THEN \E s \in SeatNumbers :
                /\ Active(s) /\ winner = players[s].id
                /\ \A t \in SeatNumbers : Active(t) /\ Beats(t, s) => ForgottenAt(t, s)
        ELSE winner = NoPlayer

=============================================================================
