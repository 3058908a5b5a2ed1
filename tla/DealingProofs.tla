---------------------------- MODULE DealingProofs ----------------------------
(***************************************************************************)
(* Proofs about Dealing and what it is made of, for a deck of any size,    *)
(* words of any width, any number of seats the deck serves and any range   *)
(* of hands, blocks of any size and messages of any length: the loops of   *)
(* TableLogic deal apart and find the first best hand; in the Shuffle each *)
(* card that is left is drawn by equally many words; Sha256 frames no two  *)
(* messages alike, so that a hash opens to one seed.                       *)
(***************************************************************************)
EXTENDS Dealing, CommonLemmas

-----------------------------------------------------------------------------
(* The two loops of table_logic.cpp *)

\* What the dealing loop has done when it is at seat `at`: the seats before it
\* that are active hold their cards, the others nothing, and it has read no more
\* of the deck than one hand for each seat it passed.
DealtSoFar ==
    /\ winner = NoPlayer
    /\ index <= HandSize * (at - 1)
    /\ \A s \in SeatNumbers : hands[s].dealt => s < at
    /\ \A s \in SeatNumbers : Active(s) /\ s < at => hands[s].dealt

\* Seat s leads before seat `bound`: none that the loop remembers beats it, and
\* if it has the empty id it is the last the loop met.
LeadsAt(s, bound) ==
    /\ players[s].id = NoPlayer => \A t \in SeatNumbers : Active(t) /\ t < bound => t <= s
    /\ \A t \in SeatNumbers : Active(t) /\ t < bound /\ Beats(t, s) => ForgottenAt(t, s)

\* What room_winner_id knows of the seats before `bound`.
BestSoFar(bound) ==
    IF \E s \in SeatNumbers : Active(s) /\ s < bound
    THEN \E s \in SeatNumbers :
            /\ Active(s) /\ s < bound
            /\ winner = players[s].id
            /\ best = hands[s].strength
            /\ LeadsAt(s, bound)
    ELSE winner = NoPlayer

IInv ==
    /\ TypeOK
    /\ HandsAreApart
    /\ pc = "deal" => DealtSoFar
    /\ pc = "judge" => BestSoFar(at)
    /\ pc = "done" => BestSoFar(Len(players) + 1)

LEMMA SeatNumbersAre ==
    ASSUME TypeOK
    PROVE  /\ Len(players) \in Nat
           /\ SeatNumbers = 1..Len(players)
           /\ SeatNumbers \subseteq Nat
           /\ \A s \in SeatNumbers : players[s].id \in PlayerIds
           /\ at \in Nat
<1>1. /\ players \in Seq([id : PlayerIds, eliminated : BOOLEAN])
      /\ Len(players) \in Nat
      /\ at \in Nat
  BY DeckAssumption DEF TypeOK
<1>2. DOMAIN players = 1..Len(players)
  BY <1>1
<1>3. \A s \in 1..Len(players) : players[s] \in [id : PlayerIds, eliminated : BOOLEAN]
  BY <1>1, ElementOfSeq
<1>4. QED
  BY <1>1, <1>2, <1>3 DEF SeatNumbers

\* Judging one more active seat keeps the summary; ties go to the earlier seat.
LEMMA OneMoreSeat ==
    ASSUME TypeOK, TypeOK', pc = "judge", BestSoFar(at), JudgeSeat
    PROVE  BestSoFar(at)'
<1>1. /\ at \in SeatNumbers /\ Active(at) /\ at' = at + 1
      /\ UNCHANGED <<players, hands>>
  BY DEF JudgeSeat, Running
<1>2. /\ SeatNumbers \subseteq Nat /\ at \in Nat
      /\ \A s \in SeatNumbers : players[s].id \in PlayerIds
  BY SeatNumbersAre
<1>3. \A s \in SeatNumbers : hands[s].strength \in Nat
  BY MaxStrengthAssumption DEF TypeOK, Strengths
<1>4. \A s \in SeatNumbers : s < at + 1 <=> s < at \/ s = at
  BY <1>2
<1>5. SeatNumbers' = SeatNumbers /\ \A s \in SeatNumbers : Active(s)' <=> Active(s)
  BY <1>1 DEF SeatNumbers, Active
<1>6. SUFFICES \E s \in SeatNumbers :
                  /\ Active(s) /\ s < at + 1
                  /\ winner' = players[s].id
                  /\ best' = hands[s].strength
                  /\ LeadsAt(s, at + 1)
  <2>1. \E s \in SeatNumbers : Active(s) /\ s < at + 1
    BY <1>1, <1>4
  <2>2. \A s \in SeatNumbers : LeadsAt(s, at)' <=> LeadsAt(s, at + 1)
    BY <1>1, <1>5 DEF LeadsAt, Beats, ForgottenAt
  <2>3. QED
    BY <1>1, <1>5, <1>6, <2>1, <2>2 DEF BestSoFar
<1>7. CASE \E s \in SeatNumbers : Active(s) /\ s < at
  <2>1. PICK s \in SeatNumbers : /\ Active(s) /\ s < at
                                 /\ winner = players[s].id
                                 /\ best = hands[s].strength
                                 /\ LeadsAt(s, at)
    BY <1>7 DEF BestSoFar
  <2>2. Improves(at) <=> players[s].id = NoPlayer \/ hands[at].strength > hands[s].strength
    BY <2>1 DEF Improves
  <2>3. CASE Improves(at)
    <3>1. ASSUME NEW t \in SeatNumbers, Active(t), t < at + 1, Beats(t, at)
          PROVE  ForgottenAt(t, at)
      <4>1. t < at
        BY <3>1, <1>1, <1>2, <1>3, <1>4 DEF Beats
      <4>2. CASE players[s].id = NoPlayer
        <5>1. t <= s
          BY <2>1, <3>1, <4>1, <4>2 DEF LeadsAt
        <5>2. QED
          BY <2>1, <4>2, <5>1 DEF ForgottenAt
      <4>3. CASE hands[at].strength > hands[s].strength
        <5>1. hands[t].strength > hands[s].strength
          BY <1>1, <1>3, <3>1, <4>3 DEF Beats
        <5>2. ForgottenAt(t, s)
          BY <2>1, <3>1, <4>1, <5>1 DEF LeadsAt, Beats
        <5>3. PICK e \in SeatNumbers :
                 Active(e) /\ players[e].id = NoPlayer /\ t <= e /\ e < s
          BY <5>2 DEF ForgottenAt
        <5>4. e < at
          BY <1>2, <2>1, <5>3
        <5>5. QED
          BY <5>3, <5>4 DEF ForgottenAt
      <4>4. QED
        BY <2>2, <2>3, <4>2, <4>3
    <3>2. \A t \in SeatNumbers : t < at + 1 => t <= at
      BY <1>2
    <3>3. LeadsAt(at, at + 1)
      BY <3>1, <3>2 DEF LeadsAt
    <3>4. winner' = players[at].id /\ best' = hands[at].strength
      BY <2>3 DEF JudgeSeat
    <3>5. QED
      BY <3>3, <3>4, <1>1, <1>2
  <2>4. CASE ~Improves(at)
    <3>1. players[s].id # NoPlayer /\ ~(hands[at].strength > hands[s].strength)
      BY <2>2, <2>4
    <3>2. ~Beats(at, s)
      BY <1>1, <1>2, <1>3, <2>1, <3>1 DEF Beats
    <3>3. \A t \in SeatNumbers : t < at + 1 /\ Beats(t, s) => t < at
      BY <1>4, <3>2
    <3>4. LeadsAt(s, at + 1)
      BY <2>1, <3>1, <3>3 DEF LeadsAt
    <3>5. winner' = winner /\ best' = best
      BY <2>4 DEF JudgeSeat
    <3>6. QED
      BY <3>4, <3>5, <1>4, <2>1
  <2>5. QED
    BY <2>3, <2>4
<1>8. CASE ~\E s \in SeatNumbers : Active(s) /\ s < at
  <2>1. winner' = players[at].id /\ best' = hands[at].strength
    BY <1>8 DEF BestSoFar, JudgeSeat, Improves
  <2>2. \A t \in SeatNumbers : Active(t) /\ t < at + 1 => t = at
    BY <1>4, <1>8
  <2>3. ~Beats(at, at)
    BY <1>1, <1>2, <1>3 DEF Beats
  <2>4. LeadsAt(at, at + 1)
    BY <1>2, <2>2, <2>3 DEF LeadsAt
  <2>5. QED
    BY <2>1, <2>4, <1>1, <1>2
<1>9. QED
  BY <1>7, <1>8

\* Dealing a seat: it reads the next HandSize cards, which the deck still has.
LEMMA OneMoreHand ==
    ASSUME IInv, DealSeat
    PROVE  IInv'
<1>1. /\ pc = "deal" /\ at \in SeatNumbers /\ Active(at)
      /\ index' = index + HandSize /\ at' = at + 1
      /\ UNCHANGED <<players, best, winner, pc>>
  BY DEF DealSeat, Running, NextHand
<1>2. PICK strength \in Strengths :
         hands' = [hands EXCEPT ![at] =
                      [from |-> index, strength |-> strength, dealt |-> TRUE]]
  BY DEF DealSeat
<1>3. /\ TypeOK /\ HandsAreApart /\ DealtSoFar
  BY <1>1 DEF IInv
<1>4. /\ Len(players) \in Nat /\ SeatNumbers = 1..Len(players) /\ at \in Nat
      /\ SeatNumbers' = SeatNumbers /\ \A s \in SeatNumbers : Active(s)' <=> Active(s)
  BY <1>1, <1>3, SeatNumbersAre DEF SeatNumbers, Active
<1>5. HandSize \in Nat /\ Capacity \in Nat /\ DeckSize \in Nat /\ index \in Nat
  BY DeckAssumption, <1>3 DEF TypeOK
<1>6. index + HandSize <= HandSize * at
  <2>1. HandSize * at = HandSize * (at - 1) + HandSize
    BY <1>4, <1>5
  <2>2. at - 1 \in Nat
    BY <1>1, <1>4
  <2>3. HandSize * (at - 1) \in Nat
    BY <1>5, <2>2
  <2>4. QED
    BY <2>1, <2>3, <1>3, <1>5 DEF DealtSoFar
<1>7. index + HandSize <= DeckSize
  <2>1. at <= Capacity
    BY <1>1, <1>3, <1>4, <1>5 DEF TypeOK
  <2>2. /\ HandSize * at \in Nat /\ HandSize * Capacity \in Nat
        /\ HandSize * at <= HandSize * Capacity
    BY <2>1, <1>4, <1>5, TimesMonotone
  <2>3. HandSize * Capacity <= DeckSize
    BY DeckAssumption
  <2>4. QED
    BY <1>5, <1>6, <2>2, <2>3
<1>8. \A s \in SeatNumbers :
         /\ s = at => hands'[s] = [from |-> index, strength |-> strength, dealt |-> TRUE]
         /\ s # at => hands'[s] = hands[s]
  BY <1>2, <1>3 DEF TypeOK
<1>9. TypeOK'
  <2>1. hands' \in [SeatNumbers -> [from : 0..DeckSize, strength : Strengths, dealt : BOOLEAN]]
    <3>1. [from |-> index, strength |-> strength, dealt |-> TRUE]
            \in [from : 0..DeckSize, strength : Strengths, dealt : BOOLEAN]
      BY <1>5, <1>7
    <3>2. QED
      BY <1>2, <1>3, <3>1 DEF TypeOK
  <2>2. at' \in 1..(Len(players) + 1)
    BY <1>1, <1>4
  <2>3. index' \in 0..DeckSize
    BY <1>1, <1>5, <1>7
  <2>4. QED
    BY <1>1, <1>3, <1>4, <2>1, <2>2, <2>3 DEF TypeOK
<1>10. \A s \in SeatNumbers : hands[s].dealt => s < at /\ hands[s].from + HandSize <= index
  BY <1>3 DEF DealtSoFar, HandsAreApart
<1>11. HandsAreApart'
  <2>1. ASSUME NEW s \in SeatNumbers, hands'[s].dealt
        PROVE  Active(s)' /\ hands'[s].from + HandSize <= index'
    <3>1. CASE s = at
      BY <3>1, <1>1, <1>4, <1>5, <1>8
    <3>2. CASE s # at
      <4>1. hands[s].dealt /\ hands'[s].from = hands[s].from
        BY <1>8, <2>1, <3>2
      <4>2. hands[s].from \in Nat
        BY <1>3, <1>5 DEF TypeOK
      <4>3. QED
        BY <4>1, <4>2, <1>1, <1>3, <1>4, <1>5, <1>10 DEF HandsAreApart
    <3>3. QED
      BY <3>1, <3>2
  <2>2. ASSUME NEW s \in SeatNumbers, NEW t \in SeatNumbers,
               hands'[s].dealt, hands'[t].dealt, s < t
        PROVE  hands'[s].from + HandSize <= hands'[t].from
    <3>1. CASE t = at
      BY <3>1, <2>2, <1>4, <1>8, <1>10
    <3>2. CASE s = at
      BY <3>2, <2>2, <1>4, <1>8, <1>10
    <3>3. CASE s # at /\ t # at
      BY <3>3, <2>2, <1>3, <1>8 DEF HandsAreApart
    <3>4. QED
      BY <3>1, <3>2, <3>3
  <2>3. QED
    BY <2>1, <2>2, <1>1, <1>4 DEF HandsAreApart
<1>12. DealtSoFar'
  <2>1. \A s \in SeatNumbers : hands'[s].dealt => s < at + 1
    BY <1>4, <1>8, <1>10
  <2>2. \A s \in SeatNumbers : Active(s) /\ s < at + 1 => hands'[s].dealt
    BY <1>3, <1>4, <1>8 DEF DealtSoFar
  <2>3. index' <= HandSize * (at' - 1)
    <3>1. at' - 1 = at
      BY <1>1, <1>4
    <3>2. QED
      BY <1>1, <1>6, <3>1
  <2>4. QED
    BY <1>1, <1>3, <1>4, <2>1, <2>2, <2>3 DEF DealtSoFar
<1>13. QED
  BY <1>1, <1>9, <1>11, <1>12 DEF IInv

LEMMA SkippedSeat ==
    ASSUME IInv, NEW loop \in {"deal", "judge"}, Skip(loop)
    PROVE  IInv'
<1>1. /\ pc = loop /\ at \in SeatNumbers /\ ~Active(at) /\ at' = at + 1
      /\ UNCHANGED <<players, hands, index, best, winner, pc>>
  BY DEF Skip, Running
<1>2. /\ Len(players) \in Nat /\ SeatNumbers = 1..Len(players) /\ at \in Nat
      /\ SeatNumbers' = SeatNumbers /\ \A s \in SeatNumbers : Active(s)' <=> Active(s)
  BY <1>1, SeatNumbersAre DEF SeatNumbers, Active, IInv
<1>3. TypeOK'
  BY <1>1, <1>2 DEF IInv, TypeOK
<1>4. HandsAreApart'
  BY <1>1, <1>2 DEF IInv, HandsAreApart
<1>5. \A s \in SeatNumbers : Active(s) => (s < at + 1 <=> s < at)
  BY <1>1, <1>2
<1>6. CASE pc = "deal"
  <2>1. DealtSoFar /\ index \in Nat /\ HandSize \in Nat
    BY <1>6, DeckAssumption DEF IInv, TypeOK
  <2>2. index <= HandSize * (at' - 1)
    <3>1. at - 1 \in Nat /\ at' - 1 \in Nat /\ at - 1 <= at' - 1
      BY <1>1, <1>2
    <3>2. HandSize * (at - 1) \in Nat /\ HandSize * (at' - 1) \in Nat
          /\ HandSize * (at - 1) <= HandSize * (at' - 1)
      BY <2>1, <3>1, TimesMonotone
    <3>3. QED
      BY <2>1, <3>2 DEF DealtSoFar
  <2>3. \A s \in SeatNumbers : hands[s].dealt => s < at + 1
    BY <1>2, <2>1 DEF DealtSoFar
  <2>4. DealtSoFar'
    BY <1>1, <1>2, <1>5, <2>1, <2>2, <2>3 DEF DealtSoFar
  <2>5. QED
    BY <1>1, <1>3, <1>4, <1>6, <2>4 DEF IInv
<1>7. CASE pc = "judge"
  <2>1. BestSoFar(at)
    BY <1>7 DEF IInv
  <2>2. \A s \in SeatNumbers : LeadsAt(s, at)' <=> LeadsAt(s, at)
    BY <1>1, <1>2, <1>5 DEF LeadsAt, Beats, ForgottenAt
  <2>3. \A s \in SeatNumbers : (Active(s) /\ s < at)' <=> (Active(s) /\ s < at)
    BY <1>1, <1>2, <1>5
  <2>4. BestSoFar(at)'
    BY <1>1, <1>2, <2>1, <2>2, <2>3 DEF BestSoFar
  <2>5. QED
    BY <1>1, <1>3, <1>4, <1>7, <2>4 DEF IInv
<1>8. QED
  BY <1>1, <1>6, <1>7

\* The loops keep the invariant.
THEOREM Invariance == Spec => []IInv
<1>1. Init => IInv
  <2> SUFFICES ASSUME Init PROVE IInv
    OBVIOUS
  <2>1. PICK n \in 1..Capacity :
           players \in [1..n -> [id : PlayerIds, eliminated : BOOLEAN]]
    BY DEF Init
  <2>2. n \in Nat
    BY DeckAssumption
  <2>3. players \in Seq([id : PlayerIds, eliminated : BOOLEAN]) /\ Len(players) = n
    BY <2>1, <2>2, FunctionIsSeq
  <2>4. /\ hands = [s \in SeatNumbers |-> NoHand]
        /\ index = 0 /\ at = 1 /\ best = 0 /\ winner = NoPlayer /\ pc = "deal"
    BY DEF Init, SeatNumbers
  <2>5. SeatNumbers = 1..n
    BY <2>1 DEF SeatNumbers
  <2>6. TypeOK
    <3>1. NoHand \in [from : 0..DeckSize, strength : Strengths, dealt : BOOLEAN]
      BY DeckAssumption, MaxStrengthAssumption DEF NoHand, Strengths
    <3>2. hands \in [SeatNumbers -> [from : 0..DeckSize, strength : Strengths, dealt : BOOLEAN]]
      BY <2>4, <3>1
    <3>3. best \in Strengths /\ index \in 0..DeckSize /\ at \in 1..(Len(players) + 1)
      BY <2>2, <2>3, <2>4, DeckAssumption, MaxStrengthAssumption DEF Strengths
    <3>4. QED
      BY <2>3, <2>4, <3>2, <3>3 DEF TypeOK
  <2>7. \A s \in SeatNumbers : ~hands[s].dealt
    BY <2>4 DEF NoHand
  <2>8. DealtSoFar
    <3>1. index <= HandSize * (at - 1)
      BY <2>4, DeckAssumption
    <3>2. \A s \in SeatNumbers : ~(s < at)
      BY <2>2, <2>4, <2>5
    <3>3. QED
      BY <2>4, <2>7, <3>1, <3>2 DEF DealtSoFar
  <2>9. QED
    BY <2>4, <2>6, <2>7, <2>8 DEF IInv, HandsAreApart
<1>2. IInv /\ [Next]_vars => IInv'
  <2> SUFFICES ASSUME IInv, [Next]_vars PROVE IInv'
    OBVIOUS
  <2>1. ASSUME NEW loop \in {"deal", "judge"}, Skip(loop) PROVE IInv'
    BY <2>1, SkippedSeat
  <2>2. CASE DealSeat
    BY <2>2, OneMoreHand
  <2>3. CASE BeginJudging
    <3>1. /\ pc = "deal" /\ pc' = "judge" /\ at \notin SeatNumbers /\ at' = 1
          /\ UNCHANGED <<players, hands, index, best, winner>>
      BY <2>3 DEF BeginJudging
    <3>2. /\ Len(players) \in Nat /\ SeatNumbers = 1..Len(players) /\ at \in Nat
          /\ SeatNumbers' = SeatNumbers /\ \A s \in SeatNumbers : Active(s)' <=> Active(s)
      BY <3>1, SeatNumbersAre DEF SeatNumbers, Active, IInv
    <3>3. TypeOK'
      BY <3>1, <3>2 DEF IInv, TypeOK
    <3>4. \A s \in SeatNumbers : s < at
      BY <3>1, <3>2 DEF IInv, TypeOK
    <3>5. \A s \in SeatNumbers : Active(s) => hands[s].dealt
      BY <3>1, <3>4 DEF IInv, DealtSoFar
    <3>6. HandsAreApart'
      BY <3>1, <3>2, <3>5 DEF IInv, HandsAreApart
    <3>7. BestSoFar(at)'
      <4>1. \A s \in SeatNumbers : ~(s < 1)
        BY <3>2
      <4>2. winner' = NoPlayer
        BY <3>1 DEF IInv, DealtSoFar
      <4>3. QED
        BY <3>1, <3>2, <4>1, <4>2 DEF BestSoFar
    <3>8. QED
      BY <3>1, <3>3, <3>6, <3>7 DEF IInv
  <2>4. CASE JudgeSeat
    <3>1. /\ pc = "judge" /\ pc' = "judge" /\ at \in SeatNumbers /\ at' = at + 1
          /\ UNCHANGED <<players, hands, index>>
      BY <2>4 DEF JudgeSeat, Running
    <3>2. /\ Len(players) \in Nat /\ SeatNumbers = 1..Len(players) /\ at \in Nat
          /\ SeatNumbers' = SeatNumbers /\ \A s \in SeatNumbers : Active(s)' <=> Active(s)
          /\ \A s \in SeatNumbers : players[s].id \in PlayerIds
      BY <3>1, SeatNumbersAre DEF SeatNumbers, Active, IInv
    <3>3. /\ best' \in Strengths
          /\ winner' \in PlayerIds \cup {NoPlayer}
      <4>1. CASE Improves(at)
        BY <2>4, <3>1, <3>2, <4>1 DEF IInv, TypeOK, JudgeSeat
      <4>2. CASE ~Improves(at)
        BY <2>4, <4>2 DEF IInv, TypeOK, JudgeSeat
      <4>3. QED
        BY <4>1, <4>2
    <3>4. TypeOK'
      BY <3>1, <3>2, <3>3 DEF IInv, TypeOK
    <3>5. HandsAreApart'
      BY <3>1, <3>2 DEF IInv, HandsAreApart
    <3>6. BestSoFar(at)'
      BY <2>4, <3>1, <3>4, OneMoreSeat DEF IInv
    <3>7. QED
      BY <3>1, <3>4, <3>5, <3>6 DEF IInv
  <2>5. CASE Return
    <3>1. /\ pc = "judge" /\ pc' = "done" /\ at \notin SeatNumbers
          /\ UNCHANGED <<players, hands, index, at, best, winner>>
      BY <2>5 DEF Return
    <3>2. at = Len(players) + 1
      <4>1. /\ Len(players) \in Nat /\ SeatNumbers = 1..Len(players)
            /\ at \in 1..(Len(players) + 1)
        BY SeatNumbersAre DEF IInv, TypeOK
      <4>2. QED
        BY <3>1, <4>1
    <3>3. TypeOK' /\ HandsAreApart'
      BY <3>1 DEF IInv, TypeOK, HandsAreApart, SeatNumbers, Active
    <3>4. BestSoFar(at)
      BY <3>1 DEF IInv
    <3>5. BestSoFar(Len(players) + 1)'
      BY <3>1, <3>2, <3>4 DEF BestSoFar, LeadsAt, Beats, ForgottenAt, SeatNumbers, Active
    <3>6. QED
      BY <3>1, <3>3, <3>5 DEF IInv
  <2>6. CASE UNCHANGED vars
    BY <2>6 DEF vars, IInv, TypeOK, HandsAreApart, DealtSoFar, BestSoFar, LeadsAt, Beats, ForgottenAt,
                SeatNumbers, Active
  <2>7. QED
    BY <2>1, <2>2, <2>3, <2>4, <2>5, <2>6 DEF Next
<1>3. QED
  BY <1>1, <1>2, PTL DEF Spec

\* The dealing loop never reads past the end of the deck, whatever the seats.
THEOREM TypeCorrectness == Spec => []TypeOK
<1>1. IInv => TypeOK
  BY DEF IInv
<1>2. QED
  BY <1>1, Invariance, PTL

\* Every active seat is dealt its own cards of the deck, no other seat any.
THEOREM DealsApart == Spec => []HandsAreApart
<1>1. IInv => HandsAreApart
  BY DEF IInv
<1>2. QED
  BY <1>1, Invariance, PTL

\* room_winner_id returns the id of an active seat that none beats but those which
\* an empty id at or behind their seat made it forget.
THEOREM JudgesCorrectly == Spec => []WinnerHasBestRememberedHand
<1>1. IInv => WinnerHasBestRememberedHand
  <2> SUFFICES ASSUME IInv, pc = "done"
               PROVE  IF \E s \in SeatNumbers : Active(s)
                      THEN \E s \in SeatNumbers :
                              /\ Active(s) /\ winner = players[s].id
                              /\ \A t \in SeatNumbers :
                                    Active(t) /\ Beats(t, s) => ForgottenAt(t, s)
                      ELSE winner = NoPlayer
    BY DEF WinnerHasBestRememberedHand
  <2>1. \A s \in SeatNumbers : s < Len(players) + 1
    BY SeatNumbersAre DEF IInv
  <2>2. BestSoFar(Len(players) + 1)
    BY DEF IInv
  <2>3. QED
    BY <2>1, <2>2 DEF BestSoFar, LeadsAt
<1>2. QED
  BY <1>1, Invariance, PTL

-----------------------------------------------------------------------------
(* The shuffle *)

Distinct == \A p, q \in Cards : deck[p] = deck[q] => p = q

ShuffleInv == ShuffleTypeOK /\ Distinct

LEMMA ShuffleBegins == ShuffleInit => ShuffleInv
<1> SUFFICES ASSUME ShuffleInit
             PROVE  ShuffleInv
  OBVIOUS
<1>1. Size \in Nat /\ deck = [place \in Cards |-> place] /\ i = Size - 1 /\ word = NoWord
  BY SizeAssumption DEF ShuffleInit
<1>2. ShuffleTypeOK
  BY <1>1 DEF ShuffleTypeOK, Cards
<1>3. Distinct
  BY <1>1 DEF Distinct
<1>4. QED
  BY <1>2, <1>3 DEF ShuffleInv

\* random_index returns a place that has not been drawn for yet.
LEMMA IndexInRange ==
    ASSUME ShuffleTypeOK, i > 0, NEW w \in Words
    PROVE  /\ i \in Nat /\ i \in Cards /\ Outcomes(i) \in Nat /\ Outcomes(i) > 0
           /\ Index(i, w) \in 0..i /\ Index(i, w) \in Cards
<1> DEFINE n == Outcomes(i)
<1>1. i \in Nat /\ i <= Size - 1 /\ w \in Nat
  BY SizeAssumption, MaxWordAssumption DEF ShuffleTypeOK, Words
<1>2. n \in Nat /\ n > 0 /\ n - 1 = i
  BY <1>1 DEF Outcomes
<1>3. Index(i, w) = w % n
  BY DEF Index
<1> HIDE DEF n
<1>4. w % n \in 0..(n - 1)
  BY <1>1, <1>2, DivMod
<1>5. Index(i, w) \in 0..i
  BY <1>2, <1>3, <1>4
<1>6. i \in Cards /\ \A p \in 0..i : p \in Cards
  BY <1>1, SizeAssumption DEF Cards
<1>7. QED
  BY <1>1, <1>2, <1>5, <1>6 DEF n

LEMMA ShuffleGoesOn == ShuffleInv /\ [ShuffleNext]_shuffleVars => ShuffleInv'
<1> SUFFICES ASSUME ShuffleInv, [ShuffleNext]_shuffleVars
             PROVE  ShuffleInv'
  OBVIOUS
<1>1. CASE Fill \/ UNCHANGED shuffleVars
  BY <1>1 DEF Fill, shuffleVars, ShuffleInv, ShuffleTypeOK, Distinct
<1>2. CASE Swap
  <2> DEFINE j == Index(i, word)
  <2>1. /\ i > 0 /\ word \in Words /\ word' = NoWord /\ i' = i - 1
        /\ deck' = [deck EXCEPT ![i] = deck[j], ![j] = deck[i]]
    BY <1>2 DEF Swap, Accepted, Swapped
  <2>2. i \in Cards /\ j \in Cards /\ i \in Nat
    BY <2>1, IndexInRange DEF ShuffleInv
  <2> HIDE DEF j
  <2>3. deck \in [Cards -> Cards]
    BY DEF ShuffleInv, ShuffleTypeOK
  <2>4. deck' \in [Cards -> Cards]
    BY <2>1, <2>2, <2>3
  <2>5. \A p \in Cards : deck'[p] = IF p = j THEN deck[i] ELSE IF p = i THEN deck[j] ELSE deck[p]
    BY <2>1, <2>2, <2>3
  <2>6. Distinct'
    BY <2>2, <2>5 DEF ShuffleInv, Distinct
  <2>7. i' \in -1..(Size - 1) /\ (Size > 0 => i' >= 0) /\ word' \in Words \cup {NoWord}
    BY <2>1, <2>2, SizeAssumption DEF ShuffleInv, ShuffleTypeOK, Cards
  <2>8. QED
    BY <2>4, <2>6, <2>7 DEF ShuffleInv, ShuffleTypeOK
<1>3. QED
  BY <1>1, <1>2 DEF ShuffleNext

-----------------------------------------------------------------------------
(* The urn *)

LEMMA UrnIsFull == ShuffleInit => Draws!Init
<1> SUFFICES ASSUME ShuffleInit
             PROVE  Draws!Init
  OBVIOUS
<1>1. Size \in Nat /\ deck = [place \in Cards |-> place] /\ i = Size - 1
  BY SizeAssumption DEF ShuffleInit
<1>2. Urn = Cards
  BY <1>1 DEF Urn, Cards
<1>3. Row = <<>>
  BY <1>1 DEF Row
<1>4. QED
  BY <1>2, <1>3 DEF Draws!Init

LEMMA SwapIsDraw ==
    ASSUME ShuffleInv, Swap
    PROVE  Draws!Draw
<1> DEFINE j == Index(i, word)
           card == deck[j]
<1>1. /\ i > 0 /\ word \in Words /\ i' = i - 1
      /\ deck' = [deck EXCEPT ![i] = deck[j], ![j] = deck[i]]
  BY DEF Swap, Accepted, Swapped
<1>2. i \in Nat /\ i \in Cards /\ j \in Cards /\ j \in 0..i
  BY <1>1, IndexInRange DEF ShuffleInv
<1> HIDE DEF j
<1>3. deck \in [Cards -> Cards] /\ \A p \in 0..i : p \in Cards
  BY <1>2, SizeAssumption DEF ShuffleInv, ShuffleTypeOK, Cards
<1>4. \A p \in Cards : deck'[p] = IF p = j THEN deck[i] ELSE IF p = i THEN deck[j] ELSE deck[p]
  BY <1>1, <1>2, <1>3
<1>5. card \in Urn
  BY <1>2 DEF Urn
<1>6. Urn' = Urn \ {card}
  <2>1. 0..i' = (0..i) \ {i}
    BY <1>1, <1>2
  <2>2. Urn' = {deck'[p] : p \in (0..i) \ {i}}
    BY <2>1 DEF Urn
  <2>3. ASSUME NEW c \in Urn'
        PROVE  c \in Urn \ {card}
    <3>1. PICK p \in (0..i) \ {i} : c = deck'[p]
      BY <2>2
    <3>2. CASE p = j
      <4>1. c = deck[i] /\ i # j
        BY <1>3, <1>4, <3>1, <3>2
      <4>2. QED
        BY <1>2, <4>1 DEF Urn, ShuffleInv, Distinct
    <3>3. CASE p # j
      <4>1. c = deck[p] /\ p \in Cards /\ p \in 0..i
        BY <1>3, <1>4, <3>1, <3>3
      <4>2. QED
        BY <1>2, <3>3, <4>1 DEF Urn, ShuffleInv, Distinct
    <3>4. QED
      BY <3>2, <3>3
  <2>4. ASSUME NEW c \in Urn, c # card
        PROVE  c \in Urn'
    <3>1. PICK p \in 0..i : c = deck[p]
      BY DEF Urn
    <3>2. p # j
      BY <2>4, <3>1
    <3>3. CASE p = i
      <4>1. deck'[j] = c /\ j \in (0..i) \ {i}
        BY <1>2, <1>4, <3>1, <3>2, <3>3
      <4>2. QED
        BY <2>2, <4>1
    <3>4. CASE p # i
      <4>1. deck'[p] = c
        BY <1>3, <1>4, <3>1, <3>2, <3>4
      <4>2. QED
        BY <2>2, <3>1, <3>4, <4>1
    <3>5. QED
      BY <3>3, <3>4
  <2>5. QED
    BY <2>3, <2>4
<1>7. Row' = <<card>> \o Row
  <2> DEFINE m == Size - 1 - i
  <2>1. /\ m \in Nat /\ Size - 1 - i' = m + 1
        /\ \A n \in 1..m : i + n \in Cards /\ i + n # i /\ i + n # j
    BY <1>1, <1>2, SizeAssumption DEF Cards
  <2>2. Row = [n \in 1..m |-> deck[i + n]] /\ Row \in [1..m -> Cards]
    BY <1>3, <2>1 DEF Row
  <2>3. Row \in Seq(Cards) /\ Len(Row) = m
    BY <2>1, <2>2, FunctionIsSeq
  <2>4. card \in Cards /\ <<card>> \in Seq(Cards) /\ Len(<<card>>) = 1
    BY <1>2, <1>3
  <2>5. Row' = [n \in 1..(m + 1) |-> deck'[i' + n]]
    BY <2>1 DEF Row
  <2>6. \A n \in 1..(m + 1) : Row'[n] = IF n = 1 THEN card ELSE Row[n - 1]
    <3>1. ASSUME NEW n \in 1..(m + 1), n # 1
          PROVE  Row'[n] = Row[n - 1]
      <4>1. i' + n = i + (n - 1) /\ n - 1 \in 1..m
        BY <1>1, <1>2, <2>1, <3>1
      <4>2. Row'[n] = deck'[i + (n - 1)]
        BY <2>5, <4>1
      <4>3. QED
        BY <1>4, <2>1, <2>2, <4>1, <4>2
    <3>2. Row'[1] = card
      <4>1. i' + 1 = i /\ 1 \in 1..(m + 1)
        BY <1>1, <1>2, <2>1
      <4>2. Row'[1] = deck'[i]
        BY <2>5, <4>1
      <4>3. QED
        BY <1>2, <1>4, <4>2
    <3>3. QED
      BY <3>1, <3>2
  <2>7. \A n \in 1..(m + 1) : Row'[n] \in Cards
    BY <2>1, <2>2, <2>4, <2>6
  <2>8. Row' \in Seq(Cards) /\ Len(Row') = m + 1
    <3>1. Row' \in [1..(m + 1) -> Cards]
      BY <2>5, <2>7
    <3>2. QED
      BY <2>1, <3>1, FunctionIsSeq
  <2> DEFINE longer == <<card>> \o Row
  <2>9. longer \in Seq(Cards) /\ Len(longer) = m + 1
        /\ \A n \in 1..(m + 1) : longer[n] = IF n = 1 THEN card ELSE Row[n - 1]
    BY <2>1, <2>3, <2>4, ConcatProperties
  <2> HIDE DEF longer, m, card
  <2>10. Row' = longer
    BY <2>6, <2>8, <2>9, SeqEqual
  <2>11. QED
    BY <2>10 DEF longer
<1>8. QED
  BY <1>5, <1>6, <1>7 DEF Draws!Draw

-----------------------------------------------------------------------------
(* The rejection *)

\* The words below n * q that leave the remainder j.
Residues(n, q, j) == {w \in Nat : w < n * q /\ w % n = j}

\* Every remainder comes out of equally many words.
LEMMA ResiduesAreEqual ==
    ASSUME NEW n \in Nat, n > 0, NEW q \in Nat, NEW j \in 0..(n - 1), NEW k \in 0..(n - 1)
    PROVE  Cardinality(Residues(n, q, j)) = Cardinality(Residues(n, q, k))
<1> DEFINE f == [w \in Residues(n, q, j) |-> w - j + k]
<1>1. ASSUME NEW a \in 0..(n - 1), NEW b \in 0..(n - 1), NEW w \in Residues(n, q, a)
      PROVE  w - a + b \in Residues(n, q, b)
  <2> DEFINE d == w \div n
             m == n * d
  <2>1. w \in Nat /\ w < n * q /\ w % n = a
    BY DEF Residues
  <2>2. d \in Nat /\ w = m + a
    BY <2>1, DivMod
  <2>3. m \in Nat /\ w - a + b = m + b
    BY <2>2
  <2>4. (m + b) % n = b
    BY <2>2, ModIs
  <2>5. d + 1 <= q
    <3>1. SUFFICES ASSUME q <= d
                   PROVE  FALSE
      BY <2>2
    <3>2. n * q <= m /\ n * q \in Nat
      BY <2>2, <3>1, TimesMonotone
    <3> HIDE DEF m
    <3>3. QED
      BY <2>1, <2>2, <2>3, <3>2
  <2>6. m + b < n * q
    <3>1. n * (d + 1) <= n * q /\ n * q \in Nat
      BY <2>2, <2>5, TimesMonotone
    <3>2. n * (d + 1) = m + n
      BY <2>2
    <3> HIDE DEF m
    <3>3. QED
      BY <2>3, <3>1, <3>2
  <2>7. QED
    BY <2>3, <2>4, <2>6 DEF Residues
<1>2. f \in [Residues(n, q, j) -> Residues(n, q, k)]
  BY <1>1
<1>3. \A v, w \in Residues(n, q, j) : f[v] = f[w] => v = w
  BY DEF Residues
<1>4. \A u \in Residues(n, q, k) : \E w \in Residues(n, q, j) : f[w] = u
  <2>1. SUFFICES ASSUME NEW u \in Residues(n, q, k)
                 PROVE  \E w \in Residues(n, q, j) : f[w] = u
    OBVIOUS
  <2>2. u - k + j \in Residues(n, q, j)
    BY <1>1
  <2>3. u \in Nat
    BY DEF Residues
  <2>4. f[u - k + j] = u
    BY <2>2, <2>3
  <2>5. QED
    BY <2>2, <2>4
<1>5. ExistsBijection(Residues(n, q, j), Residues(n, q, k))
  <2> HIDE DEF f
  <2>1. f \in Bijection(Residues(n, q, j), Residues(n, q, k))
    BY <1>2, <1>3, <1>4 DEF Bijection, Injection, Surjection, IsInjective
  <2>2. QED
    BY <2>1 DEF ExistsBijection
<1>6. IsFiniteSet(Residues(n, q, j))
  <2>1. n * q \in Nat /\ Residues(n, q, j) \subseteq 0..(n * q)
    BY DEF Residues
  <2> DEFINE m == n * q
  <2>2. m \in Int /\ Residues(n, q, j) \in SUBSET (0..m)
    BY <2>1
  <2> HIDE DEF m
  <2>3. IsFiniteSet(0..m)
    BY <2>2, FS_Interval
  <2>4. QED
    BY <2>2, <2>3, FS_Subset
<1>7. QED
  BY <1>5, <1>6, FS_Bijection

LEMMA DrawIsFair ==
    ASSUME ShuffleInv
    PROVE  FairDraw
<1>1. SUFFICES ASSUME i > 0, NEW c \in Urn, NEW d \in Urn
               PROVE  WordsFor(c) # {} /\ Cardinality(WordsFor(c)) = Cardinality(WordsFor(d))
  BY DEF FairDraw
<1> DEFINE n == Outcomes(i)
           q == MaxWord \div n
<1>2. i \in Nat /\ i <= Size - 1 /\ n \in Nat /\ n > 0 /\ n - 1 = i /\ n <= MaxWord
  BY <1>1, SizeAssumption, MaxWordAssumption DEF ShuffleInv, ShuffleTypeOK, Outcomes
<1>3. Limit(i) = MaxWord - (MaxWord % n)
  BY DEF Limit
<1>4. \A card, w : w \in WordsFor(card) <=>
         w \in Words /\ w < Limit(i) /\ deck[w % n] = card
  BY DEF WordsFor, Accepted, Index
<1> HIDE DEF n
<1>5. /\ q \in Nat /\ MaxWord % n \in 0..(n - 1)
      /\ MaxWord = n * q + (MaxWord % n) /\ MaxWord \in Nat
  BY <1>2, MaxWordAssumption, DivMod
<1> HIDE DEF q
<1>6. n * q \in Nat
  BY <1>2, <1>5
<1>7. Limit(i) = n * q /\ n * q <= MaxWord
  <2> DEFINE m == n * q
             r == MaxWord % n
  <2>1. MaxWord = m + r /\ r \in Nat /\ Limit(i) = MaxWord - r /\ m \in Nat
    BY <1>2, <1>3, <1>5, <1>6
  <2> HIDE DEF m, r
  <2>2. Limit(i) = m /\ m <= MaxWord
    BY <1>5, <2>1
  <2>3. QED
    BY <2>2 DEF m
<1>8. ASSUME NEW j \in 0..i
      PROVE  WordsFor(deck[j]) = Residues(n, q, j)
  <2>1. j \in Cards /\ \A p \in 0..i : p \in Cards
    BY <1>2, SizeAssumption DEF Cards
  <2>2. ASSUME NEW w \in Nat
        PROVE  deck[w % n] = deck[j] <=> w % n = j
    <3>1. w % n \in 0..i
      BY <1>2, DivMod
    <3>2. QED
      BY <2>1, <3>1 DEF ShuffleInv, Distinct
  <2>3. \A w : w \in Words /\ w < n * q <=> w \in Nat /\ w < n * q
    BY <1>5, <1>6, <1>7 DEF Words
  <2>4. QED
    BY <1>4, <1>7, <2>2, <2>3 DEF Residues, Words
<1>9. PICK j \in 0..i, k \in 0..i : c = deck[j] /\ d = deck[k]
  BY <1>1 DEF Urn
<1>10. Cardinality(WordsFor(c)) = Cardinality(WordsFor(d))
  BY <1>2, <1>5, <1>8, <1>9, ResiduesAreEqual
<1>11. j \in Residues(n, q, j)
  <2>1. j % n = j
    <3>1. n * 0 + j = j
      BY <1>2
    <3>2. (n * 0 + j) % n = j
      BY <1>2, ModIs
    <3>3. QED
      BY <3>1, <3>2
  <2>2. 1 <= q
    <3>1. SUFFICES ASSUME q = 0
                   PROVE  FALSE
      BY <1>5
    <3>2. n * q = 0
      BY <1>2, <3>1
    <3>3. QED
      BY <1>2, <1>5, <3>2
  <2>3. n * 1 <= n * q
    BY <1>2, <1>5, <2>2, TimesMonotone
  <2>4. j < n * q
    BY <1>2, <1>6, <2>3
  <2>5. QED
    BY <1>2, <2>1, <2>4 DEF Residues
<1>12. QED
  BY <1>8, <1>9, <1>10, <1>11

-----------------------------------------------------------------------------
(* The composition *)

LEMMA DealingRefines ==
    /\ DealingInit => Init /\ ShuffleInit
    /\ [DealingNext]_dealingVars => [Next]_vars /\ [ShuffleNext]_shuffleVars
<1>1. DealingInit => Init /\ ShuffleInit
  BY DEF DealingInit
<1>2. ASSUME PrepareSeed \/ ShuffleStep \/ UNCHANGED dealingVars
      PROVE  [Next]_vars /\ [ShuffleNext]_shuffleVars
  BY <1>2 DEF PrepareSeed, ShuffleStep, dealingVars
<1>3. ASSUME SkipSeat \/ DealCards \/ RevealSeed \/ Judge
      PROVE  [Next]_vars /\ [ShuffleNext]_shuffleVars
  BY <1>3 DEF SkipSeat, DealCards, RevealSeed, Judge, Next
<1>4. QED
  BY <1>1, <1>2, <1>3 DEF DealingNext

\* However the words fall, a place of the deck never holds two cards.
THEOREM DeckStaysDeck == DealingSpec => []ShuffleInv
<1>1. DealingInit => ShuffleInv
  BY DealingRefines, ShuffleBegins
<1>2. ShuffleInv /\ [DealingNext]_dealingVars => ShuffleInv'
  BY DealingRefines, ShuffleGoesOn
<1>3. QED
  BY <1>1, <1>2, PTL DEF DealingSpec

\* The shuffle draws the cards one by one from those that are left.
THEOREM ShuffleDraws == DealingSpec => DrawsFromUrn
<1>1. DealingInit => Draws!Init
  BY DealingRefines, UrnIsFull
<1>2. ShuffleInv /\ [DealingNext]_dealingVars => [Draws!Draw]_<<Urn, Row>>
  <2> SUFFICES ASSUME ShuffleInv, [ShuffleNext]_shuffleVars
               PROVE  [Draws!Draw]_<<Urn, Row>>
    BY DealingRefines
  <2>1. CASE Fill \/ UNCHANGED shuffleVars
    BY <2>1 DEF Fill, shuffleVars, Urn, Row
  <2>2. CASE Swap
    BY <2>2, SwapIsDraw
  <2>3. QED
    BY <2>1, <2>2 DEF ShuffleNext
<1>3. QED
  BY <1>1, <1>2, DeckStaysDeck, PTL DEF DealingSpec, DrawsFromUrn, Draws!Spec

\* Each card that is left is drawn by equally many of the words accepted.
THEOREM ShuffleIsFair == DealingSpec => []FairDraw
<1>1. ShuffleInv => FairDraw
  BY DrawIsFair
<1>2. QED
  BY <1>1, DeckStaysDeck, PTL

\* No card gets into two hands of a table.
THEOREM HandsShareNoCard == DealingSpec => []CardsAreApart
<1>1. DealingSpec => Spec
  BY DealingRefines, PTL DEF DealingSpec, Spec
<1>2. ASSUME IInv, ShuffleInv
      PROVE  CardsAreApart
  <2> SUFFICES ASSUME NEW s \in SeatNumbers, NEW t \in SeatNumbers, s # t,
                      hands[s].dealt, hands[t].dealt
               PROVE  HandFrom(hands[s].from) \cap HandFrom(hands[t].from) = {}
    BY DEF CardsAreApart
  <2>1. /\ hands[s].from + HandSize <= index /\ hands[t].from + HandSize <= index
        /\ s < t => hands[s].from + HandSize <= hands[t].from
        /\ t < s => hands[t].from + HandSize <= hands[s].from
    BY <1>2 DEF IInv, HandsAreApart
  <2>2. /\ hands[s].from \in Nat /\ hands[t].from \in Nat /\ index \in Nat
        /\ index <= DeckSize
        /\ s < t \/ t < s
    BY <1>2, DeckAssumption, SeatNumbersAre DEF IInv, TypeOK
  <2> DEFINE a == hands[s].from
             b == hands[t].from
  <2>3. /\ \A p \in a..(a + HandSize - 1) : p \in Cards /\ p \notin b..(b + HandSize - 1)
        /\ \A p \in b..(b + HandSize - 1) : p \in Cards
    <3>1. /\ a \in Nat /\ b \in Nat /\ HandSize \in Nat /\ Size \in Nat
          /\ a + HandSize <= Size /\ b + HandSize <= Size
          /\ a + HandSize <= b \/ b + HandSize <= a
      BY <2>1, <2>2, DeckAssumption, OneDeckAssumption
    <3> HIDE DEF a, b
    <3>2. QED
      BY <3>1 DEF Cards
  <2>4. SUFFICES ASSUME NEW c, c \in HandFrom(a), c \in HandFrom(b)
                 PROVE  FALSE
    OBVIOUS
  <2> HIDE DEF a, b
  <2>5. PICK p \in a..(a + HandSize - 1), q \in b..(b + HandSize - 1) : c = deck[p] /\ c = deck[q]
    BY <2>4 DEF HandFrom
  <2>6. QED
    BY <1>2, <2>3, <2>5 DEF ShuffleInv, Distinct
<1>3. QED
  BY <1>1, <1>2, Invariance, DeckStaysDeck, PTL

\* The loops of the composition are the loops of TableLogic: its winner has the
\* best, so far as the loop remembers, of the hands the shuffle dealt.
THEOREM BestHandWins == DealingSpec => []WinnerHasBestRememberedHand
<1>1. DealingSpec => Spec
  BY DealingRefines, PTL DEF DealingSpec, Spec
<1>2. QED
  BY <1>1, JudgesCorrectly, PTL

-----------------------------------------------------------------------------
(* What Rooms and Tournament make of a table *)

RoomsSay == INSTANCE Rooms WITH
                NoSeed <- <<>>, Codes <- {}, NoCode <- NoPlayer, Deadline <- 1

\* What follows does not depend on the size of a table or the limit.
TournamentSays == INSTANCE TournamentProofs WITH
                      TableSize <- Capacity + 2, MaxParticipants <- Capacity,
                      tournament <- players

Ids == [s \in SeatNumbers |-> players[s].id]

Strength == [s \in SeatNumbers |-> hands[s].strength]

\* At a table without an eliminated player, and there is no other in the server,
\* the loops of table_logic.cpp give what Rooms and Tournament say in one stroke:
\* the hand of every seat and the winner.
LoopsDoAsSaid ==
    (\A s \in SeatNumbers : Active(s)) =>
        /\ \A s \in SeatNumbers : hands[s].dealt => hands[s].from = RoomsSay!DealIndex(s)
        /\ pc = "done" =>
              winner = players[TournamentSays!TableWinner(Ids, SeatNumbers, Strength)].id

\* The index keeps step with the loop.
InStride ==
    (\A s \in SeatNumbers : Active(s)) =>
        /\ pc = "deal" => index = HandSize * (at - 1)
        /\ \A s \in SeatNumbers : hands[s].dealt => hands[s].from = HandSize * (s - 1)

LEMMA StrideIsKept ==
    ASSUME TypeOK, InStride, [Next]_vars
    PROVE  InStride'
<1> USE DEF SeatNumbers, Active
<1>1. /\ at \in Nat /\ HandSize \in Nat
      /\ DOMAIN hands = DOMAIN players
  <2>1. Len(players) \in Nat
    BY DEF TypeOK
  <2>2. QED
    BY <2>1, DeckAssumption DEF TypeOK
<1>2. CASE UNCHANGED vars
  BY <1>2 DEF vars, InStride
<1>3. ASSUME NEW loop, Skip(loop)
      PROVE  InStride'
  BY <1>3 DEF Skip, Running, InStride
<1>4. CASE DealSeat
  <2>1. /\ pc = "deal" /\ pc' = "deal" /\ index' = index + HandSize /\ at' = at + 1
        /\ players' = players /\ at \in DOMAIN hands
    BY <1>1, <1>4 DEF DealSeat, Running, NextHand
  <2>2. PICK strength \in Strengths :
           hands' = [hands EXCEPT ![at] = [from |-> index, strength |-> strength, dealt |-> TRUE]]
    BY <1>4 DEF DealSeat
  <2>3. \A s \in DOMAIN hands : hands'[s] = hands[s] \/ (s = at /\ hands'[s].from = index)
    BY <2>2
  <2>4. HandSize * (at - 1) + HandSize = HandSize * ((at + 1) - 1)
    BY <1>1
  <2>5. QED
    BY <1>1, <2>1, <2>3, <2>4 DEF InStride
<1>5. CASE BeginJudging \/ JudgeSeat \/ Return
  BY <1>5 DEF BeginJudging, JudgeSeat, Return, Running, InStride
<1>6. QED
  BY <1>2, <1>3, <1>4, <1>5 DEF Next

\* A run of the loop as Tournament writes it down: who leads after n seats.
IsRun(leader) ==
    /\ leader[0] = 0
    /\ \A n \in 1..Len(Ids) :
          leader[n] = IF n \in SeatNumbers
                         /\ TournamentSays!Takes(Ids, Strength, n, leader[n - 1])
                      THEN n ELSE leader[n - 1]

\* `winner` and `best` are the leader's.
IsOf(k) ==
    IF k = 0 THEN winner = NoPlayer
    ELSE k \in SeatNumbers /\ winner = players[k].id /\ best = hands[k].strength

\* The loop is where that run is.
InStep ==
    (\A s \in SeatNumbers : Active(s)) =>
        /\ pc = "deal" => winner = NoPlayer
        /\ pc = "done" => at \notin SeatNumbers
        /\ pc \in {"judge", "done"} => \A leader : IsRun(leader) => IsOf(leader[at - 1])

LEMMA IdsAre ==
    ASSUME TypeOK
    PROVE  /\ Len(Ids) = Len(players) /\ Len(players) \in Nat
           /\ SeatNumbers = 1..Len(players) /\ at \in 1..(Len(players) + 1)
           /\ \A s \in SeatNumbers :
                 /\ Ids[s] = players[s].id
                 /\ Strength[s] = hands[s].strength
                 /\ Strength[s] \in Strengths
<1>1. /\ SeatNumbers = 1..Len(players) /\ Len(players) \in Nat
      /\ at \in 1..(Len(players) + 1)
      /\ \A s \in SeatNumbers : players[s].id \in PlayerIds
  BY SeatNumbersAre DEF TypeOK
<1>2. Ids \in [1..Len(players) -> PlayerIds]
  BY <1>1 DEF Ids
<1>3. Len(Ids) = Len(players)
  BY <1>1, <1>2, FunctionIsSeq
<1>4. \A s \in SeatNumbers : hands[s].strength \in Strengths
  BY DEF TypeOK
<1>5. QED
  BY <1>1, <1>3, <1>4 DEF Ids, Strength

LEMMA StepIsKept ==
    ASSUME TypeOK, TypeOK', InStep, [Next]_vars
    PROVE  InStep'
<1> SUFFICES ASSUME (\A s \in SeatNumbers : Active(s))'
             PROVE  /\ pc' = "deal" => winner' = NoPlayer
                    /\ pc' = "done" => (at \notin SeatNumbers)'
                    /\ pc' \in {"judge", "done"} =>
                          \A leader : IsRun(leader)' => IsOf(leader[at - 1])'
  BY DEF InStep
<1>1. /\ Len(Ids) = Len(players) /\ Len(players) \in Nat
      /\ SeatNumbers = 1..Len(players) /\ at \in Nat /\ at >= 1
  BY IdsAre
<1>2. players' = players
  BY DEF Next, Skip, DealSeat, BeginJudging, JudgeSeat, Return, vars
<1>3. /\ SeatNumbers' = SeatNumbers /\ Ids' = Ids
      /\ \A s \in SeatNumbers : Active(s)
  BY <1>2 DEF SeatNumbers, Ids, Active
<1>4. ASSUME hands' = hands
      PROVE  \A leader : IsRun(leader)' <=> IsRun(leader)
  <2>1. Strength' = Strength
    BY <1>3, <1>4 DEF Strength
  <2>2. QED
    BY <1>3, <2>1 DEF IsRun, TournamentSays!Takes
<1>5. CASE UNCHANGED vars \/ Return
  <2>1. /\ UNCHANGED <<hands, at, best, winner>>
        /\ pc' = pc \/ (pc = "judge" /\ pc' = "done" /\ at \notin SeatNumbers)
    BY <1>5 DEF vars, Return
  <2>2. \A k : IsOf(k)' <=> IsOf(k)
    BY <1>2, <1>3, <2>1 DEF IsOf
  <2>3. QED
    BY <1>3, <1>4, <2>1, <2>2 DEF InStep
<1>6. CASE \E loop \in {"deal", "judge"} : Skip(loop)
  BY <1>3, <1>6 DEF Skip, Running
<1>7. CASE DealSeat
  BY <1>3, <1>7 DEF DealSeat, Running, InStep
<1>8. CASE BeginJudging
  <2>1. pc = "deal" /\ pc' = "judge" /\ at' = 1 /\ winner' = winner
    BY <1>8 DEF BeginJudging
  <2>2. winner' = NoPlayer
    BY <1>3, <2>1 DEF InStep
  <2>3. ASSUME NEW leader, IsRun(leader)'
        PROVE  IsOf(leader[at - 1])'
    <3>1. at' - 1 = 0 /\ leader[0] = 0
      BY <2>1, <2>3 DEF IsRun
    <3>2. QED
      BY <2>2, <3>1 DEF IsOf
  <2>4. QED
    BY <2>1, <2>3
<1>9. CASE JudgeSeat
  <2>1. /\ pc = "judge" /\ pc' = "judge" /\ at \in SeatNumbers /\ at' = at + 1
        /\ hands' = hands
    BY <1>9 DEF JudgeSeat, Running
  <2>2. ASSUME NEW leader, IsRun(leader)'
        PROVE  IsOf(leader[at - 1])'
    <3>1. PICK k : k = leader[at - 1] /\ IsRun(leader) /\ IsOf(k)
      BY <1>3, <1>4, <2>1, <2>2 DEF InStep
    <3>2. at' - 1 = at /\ at \in 1..Len(Ids)
      BY <1>1, <2>1
    <3>3. leader[at] = IF at \in SeatNumbers /\ TournamentSays!Takes(Ids, Strength, at, k)
                       THEN at ELSE k
      BY <3>1, <3>2 DEF IsRun
    <3>4. at # 0 /\ Ids[at] = players[at].id /\ Strength[at] = hands[at].strength
      BY <1>1, <2>1, IdsAre
    <3>5. k # 0 => /\ k \in SeatNumbers /\ Ids[k] = winner /\ Strength[k] = best
                   /\ winner = players[k].id
      BY <3>1, IdsAre DEF IsOf
    <3>6. k = 0 => winner = NoPlayer
      BY <3>1 DEF IsOf
    <3>7. Improves(at) <=> TournamentSays!Takes(Ids, Strength, at, k)
      BY <3>4, <3>5, <3>6 DEF Improves, TournamentSays!Takes
    <3>8. CASE Improves(at)
      <4>1. winner' = players[at].id /\ best' = hands[at].strength
        BY <1>9, <3>8 DEF JudgeSeat
      <4>2. leader[at' - 1] = at
        BY <2>1, <3>2, <3>3, <3>7, <3>8
      <4>3. QED
        BY <1>2, <1>3, <2>1, <3>4, <4>1, <4>2 DEF IsOf
    <3>9. CASE ~Improves(at)
      <4>1. winner' = winner /\ best' = best
        BY <1>9, <3>9 DEF JudgeSeat
      <4>2. leader[at' - 1] = k
        BY <3>2, <3>3, <3>7, <3>9
      <4>3. IsOf(k)'
        BY <1>2, <1>3, <2>1, <3>1, <4>1 DEF IsOf
      <4>4. QED
        BY <4>2, <4>3
    <3>10. QED
      BY <3>8, <3>9
  <2>3. QED
    BY <2>1, <2>2
<1>10. QED
  BY <1>5, <1>6, <1>7, <1>8, <1>9 DEF Next

\* What is true of Tournament is true at this table.
LEMMA TournamentApplies ==
    /\ TournamentSays!TableSizeAssumption
    /\ TournamentSays!MaxParticipantsAssumption
    /\ TournamentSays!MaxStrengthAssumption
BY DeckAssumption, MaxStrengthAssumption
   DEF TournamentSays!TableSizeAssumption, TournamentSays!MaxParticipantsAssumption,
       TournamentSays!MaxStrengthAssumption

\* So that what is proved about rooms and tournaments is about the code of
\* table_logic.cpp, not about its description.
THEOREM DealtAndJudgedAsSaid == DealingSpec => []LoopsDoAsSaid
<1>1. Init => InStride /\ InStep
  <2> SUFFICES ASSUME Init
               PROVE  InStride /\ InStep
    OBVIOUS
  <2>1. HandSize * (1 - 1) = 0
    BY DeckAssumption
  <2>2. InStride
    BY <2>1 DEF Init, InStride, NoHand, SeatNumbers
  <2>3. InStep
    BY DEF Init, InStep
  <2>4. QED
    BY <2>2, <2>3
<1>2. DealingSpec => Spec
  BY DealingRefines, PTL DEF DealingSpec, Spec
<1>3. TypeOK /\ TypeOK' /\ InStride /\ InStep /\ [Next]_vars => InStride' /\ InStep'
  BY StrideIsKept, StepIsKept
<1>4. TypeOK /\ InStride /\ InStep => LoopsDoAsSaid
  <2> SUFFICES ASSUME TypeOK, InStride, InStep, \A s \in SeatNumbers : Active(s)
               PROVE  /\ \A s \in SeatNumbers :
                            hands[s].dealt => hands[s].from = RoomsSay!DealIndex(s)
                      /\ pc = "done" =>
                            winner = players[TournamentSays!TableWinner(Ids, SeatNumbers, Strength)].id
    BY DEF LoopsDoAsSaid
  <2>1. \A s \in SeatNumbers : hands[s].dealt => hands[s].from = RoomsSay!DealIndex(s)
    BY DEF InStride, RoomsSay!DealIndex
  <2>2. ASSUME pc = "done"
        PROVE  winner = players[TournamentSays!TableWinner(Ids, SeatNumbers, Strength)].id
    <3> DEFINE w == TournamentSays!TableWinner(Ids, SeatNumbers, Strength)
    <3>1. /\ Len(Ids) = Len(players) /\ Len(players) \in Nat
          /\ SeatNumbers = 1..Len(players) /\ at \in 1..(Len(players) + 1)
      BY IdsAre
    <3>2. PICK leader : w = leader[Len(Ids)] /\ IsRun(leader)
      <4>1. Len(Ids) \in Nat
        BY <3>1
      <4>2. QED
        BY <4>1, TournamentApplies, TournamentSays!LoopTurns DEF IsRun
    <3>3. at - 1 = Len(Ids)
      BY <2>2, <3>1 DEF InStep
    <3>4. IsOf(w)
      BY <2>2, <3>2, <3>3 DEF InStep
    <3>5. w # 0
      <4>1. 1 \in SeatNumbers
        BY <3>1 DEF TypeOK
      <4>2. \A s \in SeatNumbers : Strength[s] \in TournamentSays!Strengths
        BY IdsAre DEF Strengths, TournamentSays!Strengths
      <4>3. w \in SeatNumbers
        BY <3>1, <4>1, <4>2, TournamentApplies, TournamentSays!TableWinnerIsBest
      <4>4. QED
        BY <3>1, <4>3
    <3>6. QED
      BY <3>4, <3>5 DEF IsOf
  <2>3. QED
    BY <2>1, <2>2
<1>5. Spec => [](InStride /\ InStep)
  BY <1>1, <1>3, TypeCorrectness, PTL DEF Spec
<1>6. QED
  BY <1>2, <1>4, <1>5, TypeCorrectness, PTL

-----------------------------------------------------------------------------
(* The hash: update, byte by byte *)

Highest(T) == CHOOSE n \in T : \A m \in T : n >= m

\* The table of what update comes to on the bytes at the places of a set.
Absorbs(g, h, data) ==
    g = [T \in SUBSET DOMAIN data |->
            IF T = {} THEN h ELSE Absorb(g[T \ {Highest(T)}], data[Highest(T)])]

LEMMA UpdateIsTabulated ==
    ASSUME NEW h, NEW data
    PROVE  Update(h, data) = (CHOOSE g : Absorbs(g, h, data))[DOMAIN data]
BY DEF Update, S!FoldLeft, S!MapThenFoldSet, S!Max, Absorbs, Highest


LEMMA HighestIs ==
    ASSUME NEW len \in Nat
    PROVE  /\ \A T \in SUBSET (1..len) : T # {} => Highest(T) \in T
           /\ \A n \in 1..len : Highest(1..n) = n
<1>1. ASSUME NEW T \in SUBSET (1..len), T # {}
      PROVE  Highest(T) \in T
  <2> DEFINE Gaps == {len - n : n \in T}
  <2>1. Gaps \in SUBSET Nat /\ Gaps # {}
    <3>1. \A n \in T : n \in 1..len /\ len - n \in Nat
      BY <1>1
    <3>2. PICK n \in T : TRUE
      BY <1>1
    <3>3. len - n \in Gaps
      OBVIOUS
    <3>4. Gaps \subseteq Nat
      BY <3>1
    <3>5. QED
      BY <3>3, <3>4
  <2>2. PICK g \in Gaps : \A k \in Gaps : g <= k
    <3> HIDE DEF Gaps
    <3>1. QED
      BY <2>1, LeastNat
  <2>3. PICK n \in T : \A m \in T : n >= m
    <3>1. PICK n \in T : g = len - n
      BY <2>2
    <3>2. \A m \in T : len - m \in Gaps
      OBVIOUS
    <3>3. \A m \in T : len - n <= len - m
      BY <2>2, <3>1, <3>2
    <3>4. \A m \in T : n >= m
      BY <3>3
    <3>5. QED
      BY <3>4
  <2>4. QED
    BY <2>3 DEF Highest
<1>2. ASSUME NEW n \in 1..len
      PROVE  Highest(1..n) = n
  BY DEF Highest
<1>3. QED
  BY <1>1, <1>2

LEMMA SomeAbsorption ==
    ASSUME NEW h, NEW data, NEW len \in Nat, DOMAIN data = 1..len
    PROVE  \E g : Absorbs(g, h, data)
<1> DEFINE Places == 1..len
           Upto(n) == {T \in SUBSET Places : Cardinality(T) <= n}
           After(g, T) == IF T = {} THEN h ELSE Absorb(g[T \ {Highest(T)}], data[Highest(T)])
           Step(g, n) == [T \in Upto(n) |-> After(g, T)]
           G == {n \in Nat : \E g : g = Step(g, n)}
<1>1. IsFiniteSet(Places)
  BY FS_Interval
<1>2. \A T \in SUBSET Places : IsFiniteSet(T) /\ Cardinality(T) \in Nat
  BY <1>1, FS_Subset, FS_CardinalityType
<1>3. \A T \in SUBSET Places : T # {} => Highest(T) \in T
  BY HighestIs
<1> HIDE DEF Places
<1>4. 0 \in G
  <2> DEFINE g == [T \in Upto(0) |-> h]
  <2>1. \A T \in Upto(0) : T = {}
    BY <1>2, FS_EmptySet
  <2>2. g = Step(g, 0)
    BY <2>1
  <2>3. QED
    BY <2>2
<1>5. ASSUME NEW n \in Nat, n \in G
      PROVE  n + 1 \in G
  <2>1. PICK g : g = Step(g, n)
    BY <1>5
  <2> DEFINE k == Step(g, n + 1)
  <2>2. \A T \in Upto(n) : k[T] = g[T]
    <3> SUFFICES ASSUME NEW T \in Upto(n)
                 PROVE  k[T] = g[T]
      OBVIOUS
    <3>1. T \in Upto(n + 1)
      BY <1>2
    <3>2. k[T] = After(g, T)
      BY <3>1
    <3>3. g[T] = After(g, T)
      BY <2>1
    <3>4. QED
      BY <3>2, <3>3
  <2>3. ASSUME NEW T \in Upto(n + 1), T # {}
        PROVE  T \ {Highest(T)} \in Upto(n)
    <3>1. Highest(T) \in T
      BY <1>3, <2>3
    <3>2. Cardinality(T \ {Highest(T)}) = Cardinality(T) - 1
      BY <1>2, <3>1, FS_RemoveElement
    <3>3. QED
      BY <1>2, <3>2
  <2>4. k = Step(k, n + 1)
    <3>1. \A T \in Upto(n + 1) : T # {} => k[T \ {Highest(T)}] = g[T \ {Highest(T)}]
      BY <2>2, <2>3
    <3>2. QED
      BY <3>1
  <2> HIDE DEF k, Step
  <2>5. \E f : f = Step(f, n + 1)
    BY <2>4
  <2>6. QED
    BY <2>5
<1> HIDE DEF G
<1>6. Cardinality(Places) \in G
  <2>1. \A n \in Nat : n \in G
    BY <1>4, <1>5, NatLadder
  <2>2. QED
    BY <1>2, <2>1
<1>7. Upto(Cardinality(Places)) = SUBSET Places
  BY <1>1, <1>2, FS_Subset
<1>8. PICK g : g = Step(g, Cardinality(Places))
  BY <1>6 DEF G
<1> HIDE DEF Upto
<1>9. Absorbs(g, h, data)
  BY <1>7, <1>8 DEF Absorbs, Places
<1>10. QED
  BY <1>9

\* What update has come to after the first bytes.
Absorbed(h, data, n) == (CHOOSE g : Absorbs(g, h, data))[1..n]

\* update takes the bytes one by one, from the first.
LEMMA UpdateIsStepwise ==
    ASSUME NEW h, NEW data, NEW len \in Nat, DOMAIN data = 1..len
    PROVE  /\ Absorbed(h, data, 0) = h
           /\ \A n \in 1..len : Absorbed(h, data, n) = Absorb(Absorbed(h, data, n - 1), data[n])
           /\ Update(h, data) = Absorbed(h, data, len)
<1> DEFINE g == CHOOSE f : Absorbs(f, h, data)
<1>1. Absorbs(g, h, data)
  BY SomeAbsorption
<1>2. Update(h, data) = g[1..len]
  BY UpdateIsTabulated
<1>3. \A n : Absorbed(h, data, n) = g[1..n]
  BY DEF Absorbed
<1> HIDE DEF g
<1>4. \A T \in SUBSET (1..len) :
         g[T] = IF T = {} THEN h ELSE Absorb(g[T \ {Highest(T)}], data[Highest(T)])
  BY <1>1 DEF Absorbs
<1>5. g[1..0] = h
  <2>1. g[{}] = h
    BY <1>4
  <2>2. 1..0 = {}
    OBVIOUS
  <2>3. QED
    BY <2>1, <2>2
<1>6. ASSUME NEW n \in 1..len
      PROVE  g[1..n] = Absorb(g[1..(n - 1)], data[n])
  <2>1. 1..n \in SUBSET (1..len) /\ 1..n # {} /\ (1..n) \ {n} = 1..(n - 1)
    <3>1. \A m \in 1..n : m \in 1..len /\ (m # n <=> m \in 1..(n - 1))
      OBVIOUS
    <3>2. \A m \in 1..(n - 1) : m \in 1..n
      OBVIOUS
    <3>3. n \in 1..n
      OBVIOUS
    <3>4. QED
      BY <3>1, <3>2, <3>3
  <2>2. QED
    BY <1>4, <2>1, HighestIs
<1>7. QED
  BY <1>2, <1>3, <1>5, <1>6

-----------------------------------------------------------------------------
(* The hash: what it holds of a stream of bytes *)

\* After the first bytes of a stream: the whole chunks, and the rest in the buffer.
Framed(stream, len) ==
    [bits   |-> (8 * BlockSize) * (len \div BlockSize),
     buffer |-> [k \in 1..(len % BlockSize) |-> stream[BlockSize * (len \div BlockSize) + k]],
     chunks |-> [n \in 1..(len \div BlockSize) |->
                    [k \in 1..BlockSize |-> stream[BlockSize * (n - 1) + k]]]]

LEMMA BlockIs == BlockSize \in Nat /\ BlockSize > 1
BY BlockAssumption

LEMMA InBlocks ==
    ASSUME NEW len, NEW q \in Nat, NEW r \in 0..(BlockSize - 1), len = BlockSize * q + r
    PROVE  len \div BlockSize = q /\ len % BlockSize = r
BY BlockIs, DivIs, ModIs

LEMMA Lengthened ==
    ASSUME NEW T, NEW n \in Nat, NEW f \in [1..n -> T], NEW c \in T
    PROVE  Append(f, c) = [k \in 1..(n + 1) |-> IF k = n + 1 THEN c ELSE f[k]]
<1>1. f \in Seq(T) /\ Len(f) = n
  BY FunctionIsSeq
<1>2. /\ Append(f, c) \in Seq(T)
      /\ Len(Append(f, c)) = Len(f) + 1
      /\ \A k \in 1..Len(f) : Append(f, c)[k] = f[k]
      /\ Append(f, c)[Len(f) + 1] = c
  BY <1>1, AppendProperties
<1>3. DOMAIN Append(f, c) = 1..(n + 1) /\ Append(f, c) = [k \in 1..(n + 1) |-> Append(f, c)[k]]
  BY <1>1, <1>2, LenProperties
<1>4. \A k \in 1..(n + 1) : Append(f, c)[k] = IF k = n + 1 THEN c ELSE f[k]
  BY <1>1, <1>2
<1>5. QED
  BY <1>3, <1>4

\* One byte more.
LEMMA AbsorbFrames ==
    ASSUME NEW stream, NEW len \in Nat
    PROVE  Absorb(Framed(stream, len), stream[len + 1]) = Framed(stream, len + 1)
<1> DEFINE T == {stream[k] : k \in 1..(len + 1)}
<1>1. \A k \in 1..(len + 1) : stream[k] \in T
  OBVIOUS
<1> HIDE DEF T
<1> DEFINE q == len \div BlockSize
           r == len % BlockSize
           rest == [k \in 1..r |-> stream[BlockSize * q + k]]
           chunk(n) == [k \in 1..BlockSize |-> stream[BlockSize * (n - 1) + k]]
           chunks == [n \in 1..q |-> chunk(n)]
           h == Framed(stream, len)
<1>2. /\ q \in Nat /\ r \in 0..(BlockSize - 1) /\ len = BlockSize * q + r
      /\ BlockSize * q \in Nat
  BY BlockIs, DivMod
<1>3. /\ h = [bits |-> (8 * BlockSize) * q, buffer |-> rest, chunks |-> chunks]
      /\ Framed(stream, len + 1) =
            [bits |-> (8 * BlockSize) * ((len + 1) \div BlockSize),
             buffer |-> [k \in 1..((len + 1) % BlockSize) |->
                            stream[BlockSize * ((len + 1) \div BlockSize) + k]],
             chunks |-> [n \in 1..((len + 1) \div BlockSize) |-> chunk(n)]]
  BY DEF Framed
<1> HIDE DEF q, r, h
<1>4. \A n \in 1..q : \A k \in 1..BlockSize : BlockSize * (n - 1) + k \in 1..(len + 1)
  <2> SUFFICES ASSUME NEW n \in 1..q, NEW k \in 1..BlockSize
               PROVE  BlockSize * (n - 1) + k \in 1..(len + 1)
    OBVIOUS
  <2>1. n - 1 \in Nat /\ n \in Nat /\ n <= q
    BY <1>2
  <2>2. BlockSize * n <= BlockSize * q /\ BlockSize * n \in Nat /\ BlockSize * q \in Nat
    BY <1>2, <2>1, BlockIs, TimesMonotone
  <2>3. BlockSize * n = BlockSize * (n - 1) + BlockSize /\ BlockSize * (n - 1) \in Nat
    BY <2>1, BlockIs
  <2>4. QED
    BY <1>2, <2>2, <2>3, BlockIs
<1>5. /\ rest \in [1..r -> T]
      /\ Append(rest, stream[len + 1]) = [k \in 1..(r + 1) |-> stream[BlockSize * q + k]]
      /\ Len(rest) = r
  <2>1. \A k \in 1..(r + 1) : BlockSize * q + k \in 1..(len + 1)
    BY <1>2, BlockIs
  <2>2. rest \in [1..r -> T] /\ stream[len + 1] \in T
    BY <1>1, <1>2, <2>1
  <2>3. r \in Nat
    BY <1>2
  <2>4. Append(rest, stream[len + 1]) = [k \in 1..(r + 1) |-> IF k = r + 1 THEN stream[len + 1] ELSE rest[k]]
    <3> HIDE DEF rest
    <3>1. QED
      BY <2>2, <2>3, Lengthened
  <2>5. Len(rest) = r
    <3> HIDE DEF rest
    <3>1. QED
      BY <2>2, <2>3, FunctionIsSeq
  <2>6. \A k \in 1..(r + 1) : (IF k = r + 1 THEN stream[len + 1] ELSE rest[k]) = stream[BlockSize * q + k]
    <3>1. len + 1 = BlockSize * q + (r + 1)
      BY <1>2
    <3>2. \A k \in 1..(r + 1) : k = r + 1 \/ k \in 1..r
      BY <1>2
    <3>3. QED
      BY <3>1, <3>2
  <2>7. QED
    BY <2>2, <2>4, <2>5, <2>6
<1>6. CASE r + 1 < BlockSize
  <2>1. len + 1 = BlockSize * q + (r + 1) /\ r + 1 \in 0..(BlockSize - 1)
    BY <1>2, <1>6, BlockIs
  <2>2. (len + 1) \div BlockSize = q /\ (len + 1) % BlockSize = r + 1
    BY <1>2, <2>1, InBlocks
  <2>3. h.buffer = rest /\ Len(h.buffer) + 1 < BlockSize
    BY <1>3, <1>5, <1>6
  <2>4. Absorb(h, stream[len + 1]) = [h EXCEPT !.buffer = Append(h.buffer, stream[len + 1])]
    BY <2>3 DEF Absorb
  <2> HIDE DEF rest, chunks, chunk
  <2>5. [h EXCEPT !.buffer = Append(h.buffer, stream[len + 1])] =
           [bits |-> (8 * BlockSize) * q, buffer |-> Append(rest, stream[len + 1]), chunks |-> chunks]
    <3> DEFINE bits == (8 * BlockSize) * q
               more == Append(h.buffer, stream[len + 1])
    <3>1. h = [bits |-> bits, buffer |-> rest, chunks |-> chunks]
      BY <1>3
    <3>2. more = Append(rest, stream[len + 1])
      BY <2>3
    <3> HIDE DEF bits, more
    <3>3. [h EXCEPT !.buffer = more] = [bits |-> bits, buffer |-> more, chunks |-> chunks]
      BY <3>1
    <3>4. QED
      BY <3>2, <3>3 DEF bits, more
  <2>6. Framed(stream, len + 1) =
           [bits |-> (8 * BlockSize) * q, buffer |-> [k \in 1..(r + 1) |-> stream[BlockSize * q + k]],
            chunks |-> [n \in 1..q |-> chunk(n)]]
    BY <1>3, <2>2
  <2>7. QED
    BY <1>5, <2>4, <2>5, <2>6 DEF chunks, h
<1>7. CASE ~(r + 1 < BlockSize)
  <2>1. r + 1 = BlockSize
    BY <1>2, <1>7, BlockIs
  <2>2. q + 1 \in Nat /\ 0 \in 0..(BlockSize - 1) /\ len + 1 = BlockSize * (q + 1) + 0
    BY <1>2, <2>1, BlockIs
  <2>3. (len + 1) \div BlockSize = q + 1 /\ (len + 1) % BlockSize = 0
    <3>1. len + 1 = BlockSize * (q + 1) + 0
      BY <2>2
    <3>2. QED
      BY <2>2, <3>1, InBlocks
  <2>4. h.buffer = rest /\ h.chunks = chunks /\ h.bits = (8 * BlockSize) * q
        /\ ~(Len(h.buffer) + 1 < BlockSize)
    BY <1>3, <1>5, <1>7
  <2>5. Absorb(h, stream[len + 1]) =
           [bits |-> h.bits + 8 * BlockSize, buffer |-> <<>>,
            chunks |-> Append(h.chunks, Append(h.buffer, stream[len + 1]))]
    BY <2>4 DEF Absorb
  <2>6. Append(h.buffer, stream[len + 1]) = chunk(q + 1)
    <3>1. chunk(q + 1) = [k \in 1..BlockSize |-> stream[BlockSize * q + k]]
      BY <1>2
    <3>2. QED
      BY <1>5, <2>1, <2>4, <3>1
  <2>7. Append(chunks, chunk(q + 1)) = [n \in 1..(q + 1) |-> chunk(n)]
    <3>1. chunks \in [1..q -> [1..BlockSize -> T]]
      BY <1>1, <1>4
    <3>2. chunk(q + 1) \in [1..BlockSize -> T]
      <4>1. \A k \in 1..BlockSize : BlockSize * q + k \in 1..(len + 1)
        BY <1>2, <2>1, BlockIs
      <4>2. chunk(q + 1) = [k \in 1..BlockSize |-> stream[BlockSize * q + k]]
        BY <1>2
      <4> HIDE DEF chunk
      <4>3. QED
        BY <1>1, <4>1, <4>2
    <3>3. Append(chunks, chunk(q + 1)) = [n \in 1..(q + 1) |-> IF n = q + 1 THEN chunk(q + 1) ELSE chunks[n]]
      <4> HIDE DEF chunks, chunk
      <4>1. QED
        BY <1>2, <3>1, <3>2, Lengthened
    <3>4. \A n \in 1..(q + 1) : (IF n = q + 1 THEN chunk(q + 1) ELSE chunks[n]) = chunk(n)
      <4> HIDE DEF chunk
      <4>1. QED
        BY <1>2
    <3> HIDE DEF chunk, chunks
    <3>5. QED
      BY <3>3, <3>4
  <2>8. (8 * BlockSize) * q + 8 * BlockSize = (8 * BlockSize) * (q + 1)
    BY <1>2, BlockIs
  <2>9. [k \in 1..0 |-> stream[BlockSize * (q + 1) + k]] = <<>>
    OBVIOUS
  <2> HIDE DEF chunk, chunks, rest
  <2>10. Framed(stream, len + 1) =
           [bits |-> (8 * BlockSize) * (q + 1), buffer |-> [k \in 1..0 |-> stream[BlockSize * (q + 1) + k]],
            chunks |-> [n \in 1..(q + 1) |-> chunk(n)]]
    BY <1>3, <2>3
  <2>11. QED
    BY <2>4, <2>5, <2>6, <2>7, <2>8, <2>9, <2>10 DEF h
<1>8. QED
  BY <1>6, <1>7


\* Some bytes more.
LEMMA UpdateFrames ==
    ASSUME NEW stream, NEW a \in Nat, NEW len \in Nat, NEW data, DOMAIN data = 1..len,
           \A k \in 1..len : data[k] = stream[a + k]
    PROVE  Update(Framed(stream, a), data) = Framed(stream, a + len)
<1> DEFINE h == Framed(stream, a)
           state(n) == Absorbed(h, data, n)
           Good == {n \in Nat : n <= len => state(n) = Framed(stream, a + n)}
<1> HIDE DEF h
<1>1. /\ state(0) = h
      /\ \A n \in 1..len : state(n) = Absorb(state(n - 1), data[n])
      /\ Update(h, data) = state(len)
  BY UpdateIsStepwise
<1> USE DEF h
<1>2. 0 \in Good
  BY <1>1
<1> HIDE DEF state
<1>3. ASSUME NEW n \in Nat, n \in Good
      PROVE  n + 1 \in Good
  <2> SUFFICES ASSUME n + 1 <= len
               PROVE  state(n + 1) = Framed(stream, a + (n + 1))
    OBVIOUS
  <2>1. state(n) = Framed(stream, a + n) /\ n + 1 \in 1..len /\ (n + 1) - 1 = n
    BY <1>3
  <2>2. state(n + 1) = Absorb(Framed(stream, a + n), data[n + 1])
    BY <1>1, <2>1
  <2>3. data[n + 1] = stream[(a + n) + 1]
    BY <2>1
  <2>4. Absorb(Framed(stream, a + n), stream[(a + n) + 1]) = Framed(stream, (a + n) + 1)
    BY AbsorbFrames, a + n \in Nat
  <2>5. (a + n) + 1 = a + (n + 1)
    OBVIOUS
  <2>6. QED
    BY <2>2, <2>3, <2>4, <2>5
<1> HIDE DEF Good
<1>4. len \in Good
  BY <1>2, <1>3, NatLadder
<1>5. QED
  BY <1>1, <1>4 DEF Good

LEMMA NothingIsFramed == \A stream : Framed(stream, 0) = Hasher
<1>1. 0 \div BlockSize = 0 /\ 0 % BlockSize = 0
  <2>1. 0 = BlockSize * 0 + 0 /\ 0 \in 0..(BlockSize - 1)
    BY BlockIs
  <2>2. QED
    BY <2>1, BlockIs, DivIs, ModIs
<1>2. SUFFICES ASSUME NEW stream
               PROVE  Framed(stream, 0) = Hasher
  OBVIOUS
<1>3. Framed(stream, 0) =
         [bits |-> (8 * BlockSize) * 0,
          buffer |-> [k \in 1..0 |-> stream[BlockSize * 0 + k]],
          chunks |-> [n \in 1..0 |-> [k \in 1..BlockSize |-> stream[BlockSize * (n - 1) + k]]]]
  BY <1>1 DEF Framed
<1>4. (8 * BlockSize) * 0 = 0
  BY BlockIs
<1>5. /\ [k \in 1..0 |-> stream[BlockSize * 0 + k]] = <<>>
      /\ [n \in 1..0 |-> [k \in 1..BlockSize |-> stream[BlockSize * (n - 1) + k]]] = <<>>
  OBVIOUS
<1>6. QED
  BY <1>3, <1>4, <1>5 DEF Hasher

\* How much a message of some length is padded, and how many chunks that makes.
LEMMA PaddedLength ==
    ASSUME NEW a \in Nat
    PROVE  LET p == PadLength(a % BlockSize)
               q == (a + LengthSize) \div BlockSize
           IN  /\ p \in 1..BlockSize /\ q \in Nat
               /\ a + p + LengthSize = BlockSize * (q + 1)
<1> DEFINE d == a \div BlockSize
           r == a % BlockSize
           p == PadLength(r)
<1>1. /\ d \in Nat /\ r \in 0..(BlockSize - 1) /\ a = BlockSize * d + r /\ BlockSize * d \in Nat
      /\ LengthSize \in 1..(BlockSize - 1) /\ BlockSize \in Nat /\ BlockSize > 1
      /\ Boundary = BlockSize - LengthSize
  BY BlockIs, BlockAssumption, DivMod DEF Boundary
<1> HIDE DEF d, r
<1>2. CASE r < Boundary
  <2>1. p = Boundary - r
    BY <1>2 DEF PadLength
  <2>2. a + LengthSize = BlockSize * d + (r + LengthSize) /\ r + LengthSize \in 0..(BlockSize - 1)
    BY <1>1, <1>2
  <2>3. (a + LengthSize) \div BlockSize = d
    BY <1>1, <2>2, DivIs
  <2>4. BlockSize * (d + 1) = BlockSize * d + BlockSize
    BY <1>1
  <2>5. QED
    BY <1>1, <1>2, <2>1, <2>3, <2>4 DEF r
<1>3. CASE ~(r < Boundary)
  <2>1. p = BlockSize + Boundary - r
    BY <1>3 DEF PadLength
  <2>2. BlockSize * (d + 1) = BlockSize * d + BlockSize
    BY <1>1
  <2>3. /\ a + LengthSize = BlockSize * (d + 1) + (r + LengthSize - BlockSize)
        /\ r + LengthSize - BlockSize \in 0..(BlockSize - 1) /\ d + 1 \in Nat
    BY <1>1, <1>3, <2>2
  <2>4. (a + LengthSize) \div BlockSize = d + 1
    BY <1>1, <2>3, DivIs
  <2>5. BlockSize * ((d + 1) + 1) = BlockSize * (d + 1) + BlockSize
    BY <1>1
  <2>6. a + p + LengthSize = BlockSize * ((d + 1) + 1)
    BY <1>1, <2>1, <2>2, <2>5
  <2>7. p \in 1..BlockSize /\ d + 1 \in Nat
    BY <1>1, <1>3, <2>1
  <2>8. QED
    BY <2>4, <2>6, <2>7 DEF r
<1>4. QED
  BY <1>2, <1>3

\* What a message becomes a stream of: itself, a bit, zeros and the length.
LEMMA DigestFrames ==
    ASSUME NEW T, NEW message \in Seq(T)
    PROVE  LET a == Len(message)
               p == PadLength(a % BlockSize)
           IN  /\ Len(Update(Hasher, message).buffer) = a % BlockSize
               /\ \E stream :
                     /\ Digested(Update(Hasher, message)) = Framed(stream, a + p + LengthSize)
                     /\ \A k \in 1..a : stream[k] = message[k]
                     /\ stream[a + 1] = 128
                     /\ \A k \in (a + 2)..(a + p) : stream[k] = 0
<1> DEFINE a == Len(message)
           r == a % BlockSize
           p == PadLength(r)
           h == Update(Hasher, message)
           padding == Padding(r)
           padded == Update(h, padding)
           ending == LengthBytes(padded.bits + 8 * Len(padded.buffer))
           stream == [k \in 1..(a + p + LengthSize) |->
                         IF k <= a THEN message[k]
                         ELSE IF k <= a + p THEN padding[k - a]
                         ELSE ending[k - (a + p)]]
<1>1. /\ a \in Nat /\ r \in Nat /\ p \in Nat /\ p >= 1 /\ LengthSize \in Nat
      /\ DOMAIN message = 1..a
  <2>1. a \in Nat /\ DOMAIN message = 1..a
    BY LenProperties
  <2>2. r \in Nat /\ LengthSize \in Nat
    BY <2>1, BlockIs, BlockAssumption, DivMod
  <2>3. p \in 1..BlockSize
    BY <2>1, PaddedLength
  <2>4. QED
    BY <2>1, <2>2, <2>3, BlockIs
<1>2. DOMAIN padding = 1..p /\ \A k \in 1..p : padding[k] = IF k = 1 THEN 128 ELSE 0
  BY DEF Padding
<1>3. DOMAIN ending = 1..LengthSize
  BY DEF LengthBytes
<1> HIDE DEF a, r, p, h, padding, padded, ending
<1>4. /\ \A k \in 1..a : message[k] = stream[k]
      /\ \A k \in 1..p : padding[k] = stream[a + k]
      /\ \A k \in 1..LengthSize : ending[k] = stream[(a + p) + k]
  <2>1. ASSUME NEW k \in 1..a
        PROVE  message[k] = stream[k]
    BY <1>1
  <2>2. ASSUME NEW k \in 1..p
        PROVE  padding[k] = stream[a + k]
    BY <1>1
  <2>3. ASSUME NEW k \in 1..LengthSize
        PROVE  ending[k] = stream[(a + p) + k]
    BY <1>1
  <2>4. QED
    BY <2>1, <2>2, <2>3
<1> HIDE DEF stream
<1>5. h = Framed(stream, a)
  <2>1. \A k \in 1..a : message[k] = stream[0 + k]
    BY <1>1, <1>4
  <2>2. Update(Framed(stream, 0), message) = Framed(stream, 0 + a)
    BY <1>1, <2>1, UpdateFrames
  <2>3. QED
    BY <1>1, <2>2, NothingIsFramed DEF h
<1>6. Len(h.buffer) = r
  <2>1. h.buffer = [k \in 1..r |-> stream[BlockSize * (a \div BlockSize) + k]]
    BY <1>5 DEF Framed, r
  <2>2. QED
    BY <1>1, <2>1
<1>7. padded = Framed(stream, a + p)
  <2>1. a \in Nat /\ p \in Nat /\ DOMAIN padding = 1..p
    BY <1>1, <1>2
  <2>2. Update(Framed(stream, a), padding) = Framed(stream, a + p)
    BY <1>4, <2>1, UpdateFrames
  <2>3. QED
    BY <1>5, <2>2 DEF padded
<1>8. Update(padded, ending) = Framed(stream, (a + p) + LengthSize)
  <2> DEFINE m == a + p
             len == LengthSize
  <2>1. m \in Nat /\ len \in Nat /\ DOMAIN ending = 1..len
    BY <1>1, <1>3
  <2>2. \A k \in 1..len : ending[k] = stream[m + k]
    BY <1>4
  <2> HIDE DEF m, len
  <2>3. Update(Framed(stream, m), ending) = Framed(stream, m + len)
    BY <2>1, <2>2, UpdateFrames
  <2>4. QED
    BY <1>7, <2>3 DEF m, len
<1>9. Digested(h) = Framed(stream, a + p + LengthSize)
  BY <1>6, <1>8 DEF Digested, padded, ending, padding
<1>10. /\ stream[a + 1] = 128
       /\ \A k \in (a + 2)..(a + p) : stream[k] = 0
  <2>1. stream[a + 1] = padding[1]
    BY <1>1, <1>4
  <2>2. \A k \in (a + 2)..(a + p) : k - a \in 1..p /\ k - a # 1 /\ a + (k - a) = k
    BY <1>1
  <2>3. \A k \in (a + 2)..(a + p) : stream[k] = padding[k - a]
    BY <1>4, <2>2
  <2>4. QED
    BY <1>1, <1>2, <2>1, <2>2, <2>3
<1>11. QED
  BY <1>4, <1>6, <1>9, <1>10 DEF a, r, p, h


-----------------------------------------------------------------------------
(* The hash: framing *)

\* What the digest of a message is made of.
LEMMA FramedMessage ==
    ASSUME NEW T, NEW message \in Seq(T)
    PROVE  LET a == Len(message)
               p == PadLength(a % BlockSize)
               q == (a + LengthSize) \div BlockSize
               done == Digested(Update(Hasher, message))
           IN  /\ a \in Nat /\ q \in Nat /\ p \in 1..BlockSize
               /\ PadLength(Len(Update(Hasher, message).buffer)) = p
               /\ done.buffer = <<>> /\ Len(done.chunks) = q + 1
               /\ a + p + LengthSize = BlockSize * (q + 1)
               /\ \E stream :
                     /\ done.chunks = [n \in 1..(q + 1) |->
                                          [k \in 1..BlockSize |-> stream[BlockSize * (n - 1) + k]]]
                     /\ \A k \in 1..a : stream[k] = message[k]
                     /\ stream[a + 1] = 128
                     /\ \A k \in (a + 2)..(a + p) : stream[k] = 0
<1> DEFINE a == Len(message)
           p == PadLength(a % BlockSize)
           q == (a + LengthSize) \div BlockSize
           done == Digested(Update(Hasher, message))
<1>1. a \in Nat
  BY LenProperties
<1> HIDE DEF a
<1>2. p \in 1..BlockSize /\ q \in Nat /\ a + p + LengthSize = BlockSize * (q + 1)
  BY <1>1, PaddedLength
<1>3. /\ Len(Update(Hasher, message).buffer) = a % BlockSize
      /\ \E stream :
            /\ done = Framed(stream, a + p + LengthSize)
            /\ \A k \in 1..a : stream[k] = message[k]
            /\ stream[a + 1] = 128
            /\ \A k \in (a + 2)..(a + p) : stream[k] = 0
  BY DigestFrames DEF a
<1> HIDE DEF p, q, done
<1>4. PICK stream : /\ done = Framed(stream, a + p + LengthSize)
                    /\ \A k \in 1..a : stream[k] = message[k]
                    /\ stream[a + 1] = 128
                    /\ \A k \in (a + 2)..(a + p) : stream[k] = 0
  BY <1>3
<1>5. (a + p + LengthSize) \div BlockSize = q + 1 /\ (a + p + LengthSize) % BlockSize = 0
  <2>1. a + p + LengthSize = BlockSize * (q + 1) + 0 /\ q + 1 \in Nat /\ 0 \in 0..(BlockSize - 1)
    BY <1>2, BlockIs
  <2>2. QED
    BY <2>1, InBlocks
<1>6. /\ done.buffer = [k \in 1..0 |-> stream[BlockSize * (q + 1) + k]]
      /\ done.chunks = [n \in 1..(q + 1) |-> [k \in 1..BlockSize |-> stream[BlockSize * (n - 1) + k]]]
  BY <1>4, <1>5 DEF Framed
<1>7. done.buffer = <<>>
  <2>1. [k \in 1..0 |-> stream[BlockSize * (q + 1) + k]] = <<>>
    OBVIOUS
  <2>2. QED
    BY <1>6, <2>1
<1>8. Len(done.chunks) = q + 1
  <2> DEFINE chunk(n) == [k \in 1..BlockSize |-> stream[BlockSize * (n - 1) + k]]
  <2>1. done.chunks = [n \in 1..(q + 1) |-> chunk(n)]
    BY <1>6
  <2> HIDE DEF chunk
  <2>2. Len([n \in 1..(q + 1) |-> chunk(n)]) = q + 1
    BY <1>2
  <2>3. QED
    BY <2>1, <2>2
<1>9. PadLength(Len(Update(Hasher, message).buffer)) = p
  BY <1>3 DEF p
<1>10. QED
  BY <1>1, <1>2, <1>4, <1>6, <1>7, <1>8, <1>9 DEF a, p, q, done

\* No two messages are framed alike, of whatever length: behind the message comes
\* a byte 128 and nothing but zeros up to the length at the end.
LEMMA NoShorterMessage ==
    ASSUME NEW T, NEW message \in Seq(T), NEW other \in Seq(T),
           Digest(message) = Digest(other), Len(message) <= Len(other)
    PROVE  message = other
<1> DEFINE a == Len(message)
           p == PadLength(a % BlockSize)
           q == (a + LengthSize) \div BlockSize
           b == Len(other)
           m == PadLength(b % BlockSize)
           n == (b + LengthSize) \div BlockSize
           chunksOf(s, e) == [d \in 1..(e + 1) |-> [k \in 1..BlockSize |-> s[BlockSize * (d - 1) + k]]]
<1>1. PICK stream : /\ Digest(message) = chunksOf(stream, q)
                    /\ \A k \in 1..a : stream[k] = message[k]
                    /\ stream[a + 1] = 128
                    /\ \A k \in (a + 2)..(a + p) : stream[k] = 0
  BY ZenonT(30), FramedMessage DEF Digest
<1>2. PICK flow : /\ Digest(other) = chunksOf(flow, n)
                  /\ \A k \in 1..b : flow[k] = other[k]
                  /\ flow[b + 1] = 128
                  /\ \A k \in (b + 2)..(b + m) : flow[k] = 0
  BY ZenonT(30), FramedMessage DEF Digest
<1>3. /\ a \in Nat /\ q \in Nat /\ p \in 1..BlockSize /\ a + p + LengthSize = BlockSize * (q + 1)
      /\ b \in Nat /\ n \in Nat /\ m \in 1..BlockSize /\ b + m + LengthSize = BlockSize * (n + 1)
  BY FramedMessage
<1> HIDE DEF a, p, q, b, m, n
<1>4. n = q
  <2>1. DOMAIN chunksOf(stream, q) = 1..(q + 1) /\ DOMAIN chunksOf(flow, n) = 1..(n + 1)
    OBVIOUS
  <2> HIDE DEF chunksOf
  <2>2. 1..(q + 1) = 1..(n + 1)
    BY <1>1, <1>2, <2>1
  <2>3. q + 1 \in 1..(n + 1) /\ n + 1 \in 1..(q + 1)
    BY <1>3, <2>2
  <2>4. QED
    BY <1>3, <2>3
<1>5. \A k \in 1..(BlockSize * (q + 1)) : stream[k] = flow[k]
  <2> SUFFICES ASSUME NEW k \in 1..(BlockSize * (q + 1))
               PROVE  stream[k] = flow[k]
    OBVIOUS
  <2> DEFINE d == (k - 1) \div BlockSize
             r == (k - 1) % BlockSize
  <2>1. /\ BlockSize * (q + 1) \in Nat /\ k - 1 \in Nat
    BY <1>3, BlockIs
  <2>2. d \in Nat /\ r \in 0..(BlockSize - 1) /\ k - 1 = BlockSize * d + r /\ BlockSize * d \in Nat
    BY <2>1, BlockIs, DivMod
  <2> HIDE DEF d, r
  <2>3. d <= q
    <3>1. SUFFICES ASSUME q + 1 <= d
                   PROVE  FALSE
      BY <1>3, <2>2
    <3>2. BlockSize * (q + 1) <= BlockSize * d
      BY <1>3, <2>2, <3>1, BlockIs, TimesMonotone
    <3>3. QED
      BY <2>1, <2>2, <3>2
  <2>4. /\ d + 1 \in 1..(q + 1) /\ r + 1 \in 1..BlockSize /\ (d + 1) - 1 = d
        /\ BlockSize * d + (r + 1) = k
    BY <1>3, <2>1, <2>2, <2>3, BlockIs
  <2>5. /\ chunksOf(stream, q)[d + 1][r + 1] = stream[BlockSize * ((d + 1) - 1) + (r + 1)]
        /\ chunksOf(flow, q)[d + 1][r + 1] = flow[BlockSize * ((d + 1) - 1) + (r + 1)]
    BY <2>4
  <2> HIDE DEF chunksOf
  <2>6. chunksOf(stream, q) = chunksOf(flow, q)
    BY <1>1, <1>2, <1>4
  <2>7. BlockSize * ((d + 1) - 1) + (r + 1) = k
    BY <2>4
  <2>8. QED
    BY <2>5, <2>6, <2>7
<1>6. a = b
  <2>1. SUFFICES ASSUME a < b
                 PROVE  FALSE
    BY <1>3 DEF a, b
  <2>2. LengthSize \in Nat /\ BlockSize * (q + 1) \in Nat
    BY BlockAssumption, <1>3
  <2>3. b + 1 \in (a + 2)..(a + p) /\ b + 1 \in 1..(BlockSize * (q + 1))
    BY <1>3, <1>4, <2>1, <2>2
  <2>4. stream[b + 1] = 0 /\ flow[b + 1] = 128 /\ stream[b + 1] = flow[b + 1]
    BY <1>1, <1>2, <1>5, <2>3
  <2>5. QED
    BY <2>4
<1>7. \A k \in 1..a : message[k] = other[k]
  <2>1. LengthSize \in Nat /\ BlockSize * (q + 1) \in Nat
    BY BlockAssumption, <1>3
  <2>2. \A k \in 1..a : k \in 1..(BlockSize * (q + 1))
    BY <1>3, <2>1
  <2>3. QED
    BY <1>1, <1>2, <1>5, <1>6, <2>2
<1>8. QED
  BY <1>6, <1>7, SeqEqual DEF a, b

\* The digests of two messages are different, whatever their length.
LEMMA DigestTells ==
    ASSUME NEW T, NEW message \in Seq(T), NEW other \in Seq(T), Digest(message) = Digest(other)
    PROVE  message = other
<1>1. Len(message) \in Nat /\ Len(other) \in Nat
  BY LenProperties
<1>2. Len(message) <= Len(other) \/ Len(other) <= Len(message)
  BY <1>1
<1>3. QED
  BY <1>2, NoShorterMessage


\* Whole chunks, a padding that is not read past its end, and as many digests as
\* messages.
LEMMA FramesAreApart == MessagesAreFramedApart
<1> DEFINE n == 2 * BlockSize + 1
           code == [message \in ShortMessages |->
                       <<Len(message), {k \in 1..Len(message) : message[k] = 128}>>]
           digest == [message \in ShortMessages |-> Digest(message)]
           Digests == {Digest(message) : message \in ShortMessages}
<1>1. \A message \in ShortMessages : message \in Seq({0, 128}) /\ Len(message) \in 0..n
  <2>1. ASSUME NEW len \in 0..n, NEW message \in [1..len -> {0, 128}]
        PROVE  message \in Seq({0, 128}) /\ Len(message) \in 0..n
    <3>1. len \in Nat
      BY BlockIs
    <3>2. QED
      BY <3>1, FunctionIsSeq
  <2>2. QED
    BY <2>1 DEF ShortMessages, Messages
<1>2. IsFiniteSet(ShortMessages)
  <2> DEFINE Codes == (0..n) \X SUBSET (1..n)
  <2>1. n \in Nat
    BY BlockIs
  <2> HIDE DEF n
  <2>2. IsFiniteSet(Codes)
    <3>1. IsFiniteSet(0..n) /\ IsFiniteSet(1..n)
      BY <2>1, FS_Interval
    <3>2. IsFiniteSet(SUBSET (1..n))
      BY <3>1, FS_SUBSET
    <3>3. QED
      BY <3>1, <3>2, FS_Product
  <2>3. \A message \in ShortMessages : code[message] \in Codes
    <3> SUFFICES ASSUME NEW message \in ShortMessages
                 PROVE  code[message] \in Codes
      OBVIOUS
    <3>1. Len(message) \in 0..n /\ \A k \in 1..Len(message) : k \in 1..n
      BY <1>1, <2>1
    <3>2. QED
      BY <3>1
  <2>4. \A message, other \in ShortMessages : code[message] = code[other] => message = other
    <3> SUFFICES ASSUME NEW message \in ShortMessages, NEW other \in ShortMessages,
                        code[message] = code[other]
                 PROVE  message = other
      OBVIOUS
    <3>1. /\ Len(message) = Len(other)
          /\ {k \in 1..Len(message) : message[k] = 128} = {k \in 1..Len(other) : other[k] = 128}
      OBVIOUS
    <3>2. message \in Seq({0, 128}) /\ other \in Seq({0, 128})
      BY <1>1
    <3>3. \A k \in 1..Len(message) : message[k] \in {0, 128} /\ other[k] \in {0, 128}
      BY <3>1, <3>2, ElementOfSeq
    <3>4. \A k \in 1..Len(message) : message[k] = 128 <=> other[k] = 128
      BY <3>1
    <3>5. \A k \in 1..Len(message) : message[k] = other[k]
      BY <3>3, <3>4
    <3>6. QED
      BY <3>1, <3>2, <3>5, SeqEqual
  <2> HIDE DEF Codes
  <2>5. code \in [ShortMessages -> Codes]
    BY <2>3
  <2> HIDE DEF code
  <2>6. code \in Injection(ShortMessages, Codes)
    BY <2>4, <2>5 DEF Injection, IsInjective
  <2>7. QED
    BY <2>2, <2>6, FS_Injection
<1>3. Cardinality(Digests) = Cardinality(ShortMessages)
  <2>1. \A message, other \in ShortMessages : digest[message] = digest[other] => message = other
    BY <1>1, DigestTells
  <2>2. digest \in [ShortMessages -> Digests] /\ \A d \in Digests : \E m \in ShortMessages : digest[m] = d
    OBVIOUS
  <2> HIDE DEF digest, Digests
  <2>3. digest \in Bijection(ShortMessages, Digests)
    BY <2>1, <2>2 DEF Bijection, Injection, Surjection, IsInjective
  <2>4. QED
    BY <1>2, <2>3, FS_Bijection DEF ExistsBijection
<1>4. ASSUME NEW message \in ShortMessages
      PROVE  LET h == Update(Hasher, message)
                 done == Digested(h)
             IN  /\ PadLength(Len(h.buffer)) \in 1..BlockSize
                 /\ done.buffer = <<>>
                 /\ Len(done.chunks) = (Len(message) + LengthSize) \div BlockSize + 1
  <2>1. message \in Seq({0, 128})
    BY <1>1
  <2>2. QED
    BY <2>1, FramedMessage
<1>5. QED
  BY <1>3, <1>4 DEF MessagesAreFramedApart

-----------------------------------------------------------------------------
(* The seed *)

\* seed_hash is that of the seed that was drawn, and nothing but this seed is ever
\* revealed.
CommitmentInv ==
    /\ seed # <<>> => seed \in Seeds /\ seedHash = Digest(seed)
    /\ revealed # <<>> => seed # <<>> /\ revealed = Hex(seed)

\* Whatever is revealed is the only seed that has the hash published before the
\* deal.
THEOREM RevealedSeedIsCommitted == DealingSpec => []RevealOpensCommitment
<1>1. DealingInit => CommitmentInv
  BY DEF DealingInit, CommitmentInv
<1>2. ASSUME CommitmentInv, [DealingNext]_dealingVars
      PROVE  CommitmentInv'
  <2>1. CASE PrepareSeed
    BY <2>1 DEF PrepareSeed, CommitmentInv
  <2>2. CASE RevealSeed
    BY <1>2, <2>2 DEF RevealSeed, Shuffled, CommitmentInv, seedVars
  <2>3. CASE ShuffleStep \/ SkipSeat \/ DealCards \/ Judge \/ UNCHANGED dealingVars
    <3>1. UNCHANGED seedVars
      BY <2>3 DEF ShuffleStep, SkipSeat, DealCards, Judge, dealingVars
    <3>2. QED
      BY <1>2, <3>1 DEF CommitmentInv, seedVars
  <2>4. QED
    BY <1>2, <2>1, <2>2, <2>3 DEF DealingNext
<1>3. ASSUME CommitmentInv
      PROVE  RevealOpensCommitment
  <2> SUFFICES ASSUME revealed # <<>>
               PROVE  /\ \E s \in Seeds : Hex(s) = revealed /\ Digest(s) = seedHash
                      /\ \A s \in Seeds : Digest(s) = seedHash => Hex(s) = revealed
    BY DEF RevealOpensCommitment
  <2>1. seed \in Seeds /\ seedHash = Digest(seed) /\ revealed = Hex(seed)
    BY <1>3 DEF CommitmentInv
  <2>2. \A s \in Seeds : s \in Seq(0..255)
    BY SeedsAssumption
  <2>3. \A s \in Seeds : Digest(s) = seedHash => s = seed
    BY <2>1, <2>2, DigestTells
  <2>4. QED
    BY <2>1, <2>3
<1>4. QED
  BY <1>1, <1>2, <1>3, PTL DEF DealingSpec

\* It does not matter into which two pieces a message is cut.
LEMMA PiecesDoNotMatter ==
    ASSUME NEW T, NEW a \in Seq(T), NEW b \in Seq(T)
    PROVE  Update(Update(Hasher, a), b) = Update(Hasher, a \o b)
<1> DEFINE stream == a \o b
<1>1. /\ Len(a) \in Nat /\ DOMAIN a = 1..Len(a)
      /\ Len(b) \in Nat /\ DOMAIN b = 1..Len(b)
  BY LenProperties
<1>2. /\ stream \in Seq(T) /\ Len(stream) = Len(a) + Len(b)
      /\ \A k \in 1..Len(a) : a[k] = stream[0 + k]
      /\ \A k \in 1..Len(b) : b[k] = stream[Len(a) + k]
  <2>1. /\ stream \in Seq(T) /\ Len(stream) = Len(a) + Len(b)
        /\ \A k \in 1..(Len(a) + Len(b)) :
              stream[k] = IF k <= Len(a) THEN a[k] ELSE b[k - Len(a)]
    BY ConcatProperties
  <2> HIDE DEF stream
  <2>2. \A k \in 1..Len(a) : 0 + k \in 1..(Len(a) + Len(b)) /\ 0 + k = k /\ k <= Len(a)
    BY <1>1
  <2>3. \A k \in 1..Len(b) :
           /\ Len(a) + k \in 1..(Len(a) + Len(b))
           /\ ~(Len(a) + k <= Len(a)) /\ (Len(a) + k) - Len(a) = k
    BY <1>1
  <2>4. QED
    BY <2>1, <2>2, <2>3
<1>3. DOMAIN stream = 1..(Len(a) + Len(b)) /\ \A k \in 1..(Len(a) + Len(b)) : stream[k] = stream[0 + k]
  BY <1>1, <1>2, LenProperties
<1> HIDE DEF stream
<1>4. Framed(stream, 0) = Hasher
  BY NothingIsFramed
<1>5. Update(Hasher, a) = Framed(stream, 0 + Len(a)) /\ 0 + Len(a) = Len(a)
  BY <1>1, <1>2, <1>4, UpdateFrames
<1>6. Update(Framed(stream, Len(a)), b) = Framed(stream, Len(a) + Len(b))
  BY <1>1, <1>2, UpdateFrames
<1>7. Update(Hasher, stream) = Framed(stream, 0 + (Len(a) + Len(b)))
  BY <1>1, <1>3, <1>4, UpdateFrames
<1>8. QED
  BY <1>1, <1>5, <1>6, <1>7 DEF stream

\* The messages of FramesDiffer are hashed in whole chunks, and no two of them
\* alike; moreover no two messages of bytes, of whatever length, are framed alike,
\* and a message may be handed to update in two pieces.
THEOREM FramesStayApart ==
    /\ DealingSpec => []FramesDiffer
    /\ \A m, n \in Seq(0..255) : Digest(m) = Digest(n) => m = n
    /\ \A a, b \in Seq(0..255) : Update(Update(Hasher, a), b) = Update(Hasher, a \o b)
<1>1. DealingSpec => []FramesDiffer
  <2>1. FramesDiffer
    BY FramesAreApart DEF FramesDiffer
  <2>2. QED
    BY <2>1, PTL
<1>2. \A m, n \in Seq(0..255) : Digest(m) = Digest(n) => m = n
  BY DigestTells
<1>3. \A a, b \in Seq(0..255) : Update(Update(Hasher, a), b) = Update(Hasher, a \o b)
  BY PiecesDoNotMatter
<1>4. QED
  BY <1>1, <1>2, <1>3

=============================================================================
