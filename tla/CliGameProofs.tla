---------------------------- MODULE CliGameProofs ----------------------------
(***************************************************************************)
(* Proofs about CliGame, for any number of players, any banks and any      *)
(* hands of the deck.                                                      *)
(***************************************************************************)
EXTENDS CliGame, EvaluatorProofs

-----------------------------------------------------------------------------
(* The invariant *)

\* While the bets are made those still in hold cards and have bet between the
\* ante and the highest bet; without it a player's debt could be negative.
StillIn ==
    pc = "bet" => \A i \in Contenders :
        players[i].hand \in Hands /\ minBet <= players[i].bet /\ players[i].bet <= highest

IInv == TypeOK /\ StillIn /\ BetsRiseWithTheSeat

LEMMA SeatsAre ==
    ASSUME TypeOK
    PROVE  /\ Len(players) \in Nat /\ Seats = 1..Len(players)
           /\ players \in [1..Len(players) -> Players]
           /\ \A i \in Seats : /\ players[i] \in Players
                               /\ players[i].bank \in Nat /\ players[i].bet \in Nat
<1>1. players \in Seq(Players)
  BY DEF TypeOK
<1>2. /\ Len(players) \in Nat /\ Seats = 1..Len(players)
      /\ players \in [1..Len(players) -> Players]
  BY <1>1 DEF Seats
<1>3. \A p \in Players : p.bank \in Nat /\ p.bet \in Nat
  BY DEF Players
<1>4. \A i \in Seats : players[i] \in Players
  BY <1>2
<1>5. QED
  BY <1>2, <1>3, <1>4

\* A sequence of as many players.
LEMMA SameSeats ==
    ASSUME TypeOK, NEW new, new = [i \in Seats |-> new[i]], \A i \in Seats : new[i] \in Players
    PROVE  /\ new \in Seq(Players) /\ Len(new) = Len(players)
           /\ DOMAIN new = Seats
<1>1. Len(players) \in Nat /\ Seats = 1..Len(players)
  BY SeatsAre
<1>2. new \in [1..Len(players) -> Players]
  BY <1>1
<1>3. QED
  BY <1>1, <1>2, FunctionIsSeq

-----------------------------------------------------------------------------
(* The steps *)

LEMMA Begins == Init => IInv
<1> SUFFICES ASSUME Init
             PROVE  IInv
  OBVIOUS
<1>1. PICK n \in PlayerCounts, bank \in StartingBanks :
         /\ players = [i \in 1..n |-> [human |-> i = 1, bank |-> bank, folded |-> FALSE,
                                       bet |-> 0, hand |-> NoCards]]
         /\ minBet \in 1..bank
  BY DEF Init
<1>2. n \in Nat /\ n > 0 /\ bank \in Nat
  BY PlayerCountsAssumption, StartingBanksAssumption
<1>3. players \in [1..n -> Players]
  BY <1>1, <1>2 DEF Players
<1>4. players \in Seq(Players) /\ Len(players) = n
  BY <1>2, <1>3, FunctionIsSeq
<1>5. /\ minBet \in Nat \ {0} /\ pot = 0 /\ highest = 0 /\ at = 1 /\ dealer = 0 /\ pc = "round"
  BY <1>1, <1>2 DEF Init
<1>6. QED
  BY <1>2, <1>4, <1>5 DEF IInv, TypeOK, StillIn, BetsRiseWithTheSeat

LEMMA RoundStarts ==
    ASSUME IInv, StartRound
    PROVE  IInv'
<1>1. PICK dealt \in [Seats -> Hands] : players' = [i \in Seats |-> Anted(i, dealt[i])]
  BY DEF StartRound
<1>2. /\ pc' = "bet" /\ at' = 1 /\ highest' = minBet /\ minBet' = minBet /\ dealer' = dealer
      /\ pot' = minBet * Cardinality({i \in Seats : CanAnte(i)})
  BY DEF StartRound
<1>3. /\ TypeOK /\ minBet \in Nat /\ minBet # 0 /\ dealer \in Nat
      /\ Len(players) \in Nat /\ Seats = 1..Len(players)
  BY SeatsAre DEF IInv, TypeOK
<1>4. ASSUME NEW i \in Seats
      PROVE  /\ players'[i] \in Players
             /\ ~players'[i].folded => players'[i].bet = minBet /\ players'[i].hand \in Hands
  <2>1. players[i] \in Players /\ players[i].bank \in Nat /\ dealt[i] \in Hands
    BY <1>3, SeatsAre
  <2>2. players'[i] = Anted(i, dealt[i])
    BY <1>1
  <2>3. CASE CanAnte(i)
    <3>1. players[i].bank - minBet \in Nat
      BY <1>3, <2>1, <2>3 DEF CanAnte
    <3>2. QED
      BY <1>3, <2>1, <2>2, <2>3, <3>1 DEF Anted, Players
  <2>4. CASE ~CanAnte(i)
    <3> DEFINE new == [players[i] EXCEPT !.folded = TRUE, !.bet = 0, !.hand = NoCards]
    <3>1. players'[i] = new
      BY <2>2, <2>4 DEF Anted
    <3>2. new \in Players
      BY <2>1 DEF Players
    <3>3. new.folded = TRUE
      BY <2>1 DEF Players
    <3> HIDE DEF new
    <3>4. QED
      BY <3>1, <3>2, <3>3
  <2>5. QED
    BY <2>3, <2>4
<1>5. players' \in Seq(Players) /\ Len(players') = Len(players) /\ DOMAIN players' = Seats
  BY <1>1, <1>3, <1>4, SameSeats
<1>6. pot' \in Nat
  <2>1. IsFiniteSet(Seats) /\ {i \in Seats : CanAnte(i)} \in SUBSET Seats
    BY <1>3, FS_Interval
  <2>2. Cardinality({i \in Seats : CanAnte(i)}) \in Nat
    BY <2>1, FS_Subset, FS_CardinalityType
  <2>3. QED
    BY <1>2, <1>3, <2>2
<1>7. TypeOK'
  BY <1>2, <1>3, <1>5, <1>6 DEF TypeOK
<1>8. \A i \in Contenders' :
         players'[i].hand \in Hands /\ players'[i].bet = minBet
  BY <1>4, <1>5 DEF Contenders, Seats
<1>9. StillIn' /\ BetsRiseWithTheSeat'
  <2>1. Contenders' \subseteq Nat
    BY <1>3, <1>5 DEF Contenders, Seats
  <2>2. StillIn'
    BY <1>2, <1>3, <1>8 DEF StillIn
  <2>3. \A j \in Contenders' : ~(j < at')
    BY <1>2, <1>3, <1>5 DEF Contenders, Seats
  <2>4. BetsRiseWithTheSeat'
    BY <1>2, <1>3, <1>8, <2>3 DEF BetsRiseWithTheSeat
  <2>5. QED
    BY <2>2, <2>4
<1>10. QED
  BY <1>7, <1>9 DEF IInv

\* What the betting does to the player who is asked: to be out, or to stay in
\* for the highest bet there is by then.
LEMMA OneBet ==
    ASSUME IInv, Asked, NextPlayer,
           players' \in Seq(Players), Len(players') = Len(players),
           \A i \in Seats \ {at} : players'[i] = players[i],
           pot' \in Nat, highest' \in Nat, highest <= highest',
           \/ players'[at].folded
           \/ /\ ~players[at].folded
              /\ players'[at].bet = highest' /\ players'[at].hand \in Hands
    PROVE  IInv'
<1>1. /\ pc = "bet" /\ pc' = "bet" /\ at' = at + 1 /\ minBet' = minBet /\ dealer' = dealer
      /\ at \in Seats
  BY DEF Asked, NextPlayer
<1>2. /\ Len(players) \in Nat /\ Seats = 1..Len(players) /\ at \in Nat
      /\ minBet \in Nat /\ minBet # 0 /\ highest \in Nat /\ dealer \in Nat
      /\ \A i \in Seats : players[i].bet \in Nat
  BY <1>1, SeatsAre DEF IInv, TypeOK
<1>3. Seats' = Seats
  BY <1>2 DEF Seats
<1>4. TypeOK'
  <2>1. at' \in 1..(Len(players') + 1)
    BY <1>1, <1>2
  <2>2. QED
    BY <1>1, <1>2, <2>1 DEF TypeOK
<1>5. /\ \A i \in Contenders : /\ players[i].hand \in Hands
                               /\ minBet <= players[i].bet /\ players[i].bet <= highest
      /\ \A i, j \in Contenders : i < j /\ j < at => players[i].bet <= players[j].bet
  BY <1>1 DEF IInv, StillIn, BetsRiseWithTheSeat
<1>6. \A i \in Contenders' :
         /\ i \in Seats /\ i \in Nat
         /\ i # at => i \in Contenders /\ players'[i] = players[i]
         /\ i = at => players'[i].bet = highest' /\ players'[i].hand \in Hands
  BY <1>2, <1>3 DEF Contenders
<1>7. \A i \in Contenders : minBet <= highest
  <2>1. SUFFICES ASSUME NEW i \in Contenders
                 PROVE  minBet <= highest
    OBVIOUS
  <2>2. minBet <= players[i].bet /\ players[i].bet <= highest /\ players[i].bet \in Nat
    BY <1>2, <1>5 DEF Contenders
  <2>3. QED
    BY <1>2, <2>2
<1>8. ASSUME NEW i \in Contenders'
      PROVE  /\ players'[i].hand \in Hands /\ players'[i].bet \in Nat
             /\ minBet <= players'[i].bet /\ players'[i].bet <= highest'
  <2>1. CASE i # at
    <3>1. /\ i \in Contenders /\ players'[i] = players[i] /\ players[i].bet \in Nat
          /\ minBet <= players[i].bet /\ players[i].bet <= highest /\ players[i].hand \in Hands
      BY <1>2, <1>5, <1>6, <2>1
    <3>2. QED
      BY <1>2, <3>1
  <2>2. CASE i = at
    <3>1. players'[i].bet = highest' /\ players'[i].hand \in Hands /\ at \in Contenders
      BY <1>1, <1>6, <2>2 DEF Asked, Contenders
    <3>2. minBet <= highest
      BY <1>7, <3>1
    <3>3. QED
      BY <1>2, <3>1, <3>2
  <2>3. QED
    BY <2>1, <2>2
<1>9. ASSUME NEW i \in Contenders', NEW j \in Contenders', i < j, j < at'
      PROVE  players'[i].bet <= players'[j].bet
  <2>1. i \in Nat /\ j \in Nat /\ i # at
    BY <1>1, <1>2, <1>6, <1>9
  <2>2. CASE j = at
    BY <1>6, <1>8, <2>2
  <2>3. CASE j # at
    <3>1. j < at
      BY <1>1, <1>2, <1>9, <2>1, <2>3
    <3>2. QED
      BY <1>5, <1>6, <1>9, <2>1, <2>3, <3>1
  <2>4. QED
    BY <2>2, <2>3
<1>10. StillIn' /\ BetsRiseWithTheSeat'
  BY <1>1, <1>8, <1>9 DEF StillIn, BetsRiseWithTheSeat
<1>11. QED
  BY <1>4, <1>10 DEF IInv

LEMMA Passing ==
    ASSUME IInv, PassOver
    PROVE  IInv'
<1>1. /\ Asked /\ NextPlayer /\ players[at].folded /\ UNCHANGED <<players, pot, highest>>
      /\ players \in Seq(Players) /\ pot \in Nat /\ highest \in Nat
  BY DEF PassOver, IInv, TypeOK
<1>2. highest <= highest'
  BY <1>1
<1>3. QED
  BY <1>1, <1>2, OneBet

\* The players after one of them has changed.
LEMMA OnePlayerChanges ==
    ASSUME IInv, Asked, NEW new \in Players, players' = [players EXCEPT ![at] = new]
    PROVE  /\ players' \in Seq(Players) /\ Len(players') = Len(players)
           /\ players'[at] = new
           /\ \A i \in Seats \ {at} : players'[i] = players[i]
<1>1. players \in Seq(Players) /\ at \in DOMAIN players
  BY DEF IInv, TypeOK, Asked, Seats
<1>2. QED
  BY <1>1 DEF Seats

LEMMA Folding ==
    ASSUME IInv, Folds
    PROVE  IInv'
<1> DEFINE new == [players[at] EXCEPT !.folded = TRUE]
<1>1. /\ Asked /\ NextPlayer /\ players' = [players EXCEPT ![at] = new]
      /\ UNCHANGED <<pot, highest>> /\ at \in Seats
      /\ pot \in Nat /\ highest \in Nat /\ players[at] \in Players
  BY SeatsAre DEF Folds, IInv, TypeOK, Asked
<1>2. new \in Players /\ new.folded = TRUE
  BY <1>1 DEF Players
<1> HIDE DEF new
<1>3. /\ players' \in Seq(Players) /\ Len(players') = Len(players)
      /\ players'[at] = new /\ \A i \in Seats \ {at} : players'[i] = players[i]
  BY <1>1, <1>2, OnePlayerChanges
<1>4. highest <= highest'
  BY <1>1
<1>5. QED
  BY <1>1, <1>2, <1>3, <1>4, OneBet

\* To pay a bet that is not below the highest: no bank gets negative, and the
\* pot takes a natural number of chips.
LEMMA Paying ==
    ASSUME IInv, Asked, ~players[at].folded, NextPlayer,
           NEW bet \in Nat, highest <= bet, highest' = bet, Pays(bet)
    PROVE  IInv'
<1> DEFINE p == players[at]
           need == bet - p.bet
<1>1. /\ at \in Seats /\ p \in Players /\ p.bank \in Nat /\ p.bet \in Nat
      /\ pot \in Nat /\ highest \in Nat /\ pc = "bet"
  BY SeatsAre DEF IInv, TypeOK, Asked
<1>2. p.hand \in Hands /\ p.bet <= highest
  <2>1. at \in Contenders
    BY <1>1 DEF Contenders
  <2>2. QED
    BY <1>1, <2>1 DEF IInv, StillIn
<1>3. need \in Nat
  BY <1>1, <1>2
<1>4. CASE need > p.bank
  <2> DEFINE new == [p EXCEPT !.folded = TRUE]
  <2>1. players' = [players EXCEPT ![at] = new] /\ pot' = pot
    BY <1>4 DEF Pays
  <2>2. new \in Players /\ new.folded = TRUE
    BY <1>1 DEF Players
  <2> HIDE DEF new, p, need
  <2>3. /\ players' \in Seq(Players) /\ Len(players') = Len(players)
        /\ players'[at] = new /\ \A i \in Seats \ {at} : players'[i] = players[i]
    BY <2>1, <2>2, OnePlayerChanges
  <2>4. QED
    BY <1>1, <2>1, <2>2, <2>3, OneBet
<1>5. CASE ~(need > p.bank)
  <2> DEFINE new == [p EXCEPT !.bank = @ - need, !.bet = bet]
  <2>1. players' = [players EXCEPT ![at] = new] /\ pot' = pot + need
    BY <1>5 DEF Pays
  <2>2. new \in Players /\ new.bet = bet /\ new.hand = p.hand
    <3>1. p.bank - need \in Nat
      BY <1>1, <1>3, <1>5
    <3> HIDE DEF need
    <3>2. QED
      BY <1>1, <3>1 DEF Players
  <2> HIDE DEF new, need
  <2>3. /\ players' \in Seq(Players) /\ Len(players') = Len(players)
        /\ players'[at] = new /\ \A i \in Seats \ {at} : players'[i] = players[i]
    BY <2>1, <2>2, OnePlayerChanges
  <2>4. pot' \in Nat /\ highest' \in Nat /\ highest <= highest'
    BY <1>1, <1>3, <2>1
  <2>5. players'[at].bet = highest' /\ players'[at].hand \in Hands
    BY <1>2, <2>2, <2>3
  <2> HIDE DEF p
  <2>6. QED
    BY <2>3, <2>4, <2>5, OneBet
<1>6. QED
  BY <1>4, <1>5

LEMMA Calling ==
    ASSUME IInv, Calls
    PROVE  IInv'
<1>1. /\ Asked /\ ~players[at].folded /\ NextPlayer /\ Pays(highest) /\ highest' = highest
      /\ highest \in Nat
  BY DEF Calls, IInv, TypeOK
<1>2. highest <= highest
  BY <1>1
<1>3. QED
  BY <1>1, <1>2, Paying

LEMMA Raising ==
    ASSUME IInv, Raises
    PROVE  IInv'
<1> DEFINE bet == highest + minBet
<1>1. /\ Asked /\ ~players[at].folded /\ NextPlayer /\ Pays(bet) /\ highest' = bet
      /\ bet \in Nat /\ highest <= bet
  BY DEF Raises, IInv, TypeOK
<1> HIDE DEF bet
<1>2. QED
  BY <1>1, Paying

\* Among those still in there is a best hand, so that the pot is never divided
\* by zero.
LEMMA SomebodyWins ==
    ASSUME IInv, pc = "bet", Contenders # {}
    PROVE  Winners # {} /\ IsFiniteSet(Winners)
<1> DEFINE hand(i) == players[i].hand
<1>1. /\ Len(players) \in Nat /\ Seats = 1..Len(players) /\ Contenders \in SUBSET Nat
      /\ Contenders \subseteq Seats
  BY SeatsAre DEF IInv, Contenders
<1>2. \A i \in Contenders : hand(i) \in Hands
  BY DEF IInv, StillIn
<1> DEFINE below(v) == Cardinality({w \in Values : Less(w, v)})
<1>3. /\ \A i \in Contenders : Worth[hand(i)] \in Values
      /\ \A x, y \in Values : /\ below(x) \in 0..Cardinality(Values)
                              /\ Less(x, y) <=> below(x) < below(y)
  <2>1. \A i \in Contenders : Worth[hand(i)] \in Values
    BY <1>2, HandsAssumption DEF Worth, Values
  <2>2. QED
    BY <2>1, ValuesType, CountedInNumbers
<1> HIDE DEF below
<1> DEFINE score == [i \in Contenders |-> below(Worth[hand(i)])]
<1>4. PICK m \in Contenders : \A j \in Contenders :
         score[m] > score[j] \/ (score[m] = score[j] /\ m <= j)
  <2>1. Cardinality(Values) \in Nat
    BY ValuesType, FS_CardinalityType
  <2>2. \A k \in Contenders : score[k] \in 0..Cardinality(Values)
    BY <1>3
  <2> HIDE DEF score
  <2>3. QED
    BY <1>1, <2>1, <2>2, FirstOfBest
<1> DEFINE IsBest(k) == \A j \in Contenders : ~Less(Worth[hand(k)], Worth[hand(j)])
<1>5. IsBest(m)
  <2> SUFFICES ASSUME NEW j \in Contenders
               PROVE  ~Less(Worth[hand(m)], Worth[hand(j)])
    OBVIOUS
  <2>1. below(Worth[hand(m)]) \in Nat /\ below(Worth[hand(j)]) \in Nat
    BY <1>3
  <2>2. ~(below(Worth[hand(m)]) < below(Worth[hand(j)]))
    BY <1>4, <2>1
  <2>3. QED
    BY <1>3, <2>2
<1>6. \E i \in Contenders : BestHand = Worth[hand(i)]
  <2>1. BestHand = Worth[hand(CHOOSE i \in Contenders : IsBest(i))]
    BY DEF BestHand
  <2>2. (CHOOSE i \in Contenders : IsBest(i)) \in Contenders
    BY <1>5
  <2>3. QED
    BY <2>1, <2>2
<1>7. Winners # {}
  BY <1>6 DEF Winners
<1>8. IsFiniteSet(Winners)
  <2>1. Winners \in SUBSET Seats
    BY <1>1 DEF Winners
  <2>2. IsFiniteSet(Seats)
    BY <1>1, FS_Interval
  <2>3. QED
    BY <2>1, <2>2, FS_Subset
<1>9. QED
  BY <1>7, <1>8

LEMMA ShareIsNatural ==
    ASSUME IInv, pc = "bet", Contenders # {}
    PROVE  Share \in Nat
<1> DEFINE n == Cardinality(Winners)
<1>1. n \in Nat /\ n # 0
  BY SomebodyWins, FS_CardinalityType, FS_EmptySet
<1>2. pot \in Nat /\ Share = pot \div n
  BY DEF IInv, TypeOK, Share
<1> HIDE DEF n
<1>3. QED
  BY <1>1, <1>2, DivMod

LEMMA Showing ==
    ASSUME IInv, Showdown
    PROVE  IInv'
<1>1. /\ pc = "bet" /\ pc' = "end" /\ UNCHANGED <<minBet, highest, at, dealer>>
      /\ TypeOK /\ players \in Seq(Players) /\ pot \in Nat
  BY DEF Showdown, IInv, TypeOK
<1>2. CASE Contenders = {}
  BY <1>1, <1>2 DEF Showdown, IInv, TypeOK, StillIn, BetsRiseWithTheSeat
<1>3. CASE Contenders # {}
  <2>1. /\ players' = [i \in Seats |->
                         IF i \in Winners THEN [players[i] EXCEPT !.bank = @ + Share]
                                          ELSE players[i]]
        /\ pot' = 0
    BY <1>3 DEF Showdown
  <2>2. Share \in Nat
    BY <1>1, <1>3, ShareIsNatural
  <2>3. ASSUME NEW i \in Seats
        PROVE  players'[i] \in Players
    <3>1. players[i] \in Players /\ players[i].bank + Share \in Nat
      BY <1>1, <2>2, SeatsAre
    <3>2. [players[i] EXCEPT !.bank = @ + Share] \in Players
      BY <3>1 DEF Players
    <3>3. QED
      BY <2>1, <3>1, <3>2
  <2>4. players' \in Seq(Players) /\ Len(players') = Len(players)
    BY <1>1, <2>1, <2>3, SameSeats
  <2>5. TypeOK'
    BY <1>1, <2>1, <2>4 DEF TypeOK
  <2>6. QED
    BY <1>1, <2>5 DEF IInv, StillIn, BetsRiseWithTheSeat
<1>4. QED
  BY <1>2, <1>3

LEMMA RoundEnds ==
    ASSUME IInv, EndRound
    PROVE  IInv'
<1> DEFINE n == Cardinality(Left)
<1>1. /\ pc = "end" /\ UNCHANGED <<minBet, pot, highest, at>> /\ TypeOK
      /\ dealer \in Nat /\ minBet \in Nat \ {0} /\ pot \in Nat /\ highest \in Nat
  BY DEF EndRound, IInv, TypeOK
<1>2. n \in Nat
  <2>1. IsFiniteSet(Seats) /\ Left \in SUBSET Seats
    BY <1>1, SeatsAre, FS_Interval DEF Left
  <2>2. QED
    BY <2>1, FS_Subset, FS_CardinalityType
<1>3. PICK order \in [1..n -> Left] : players' = [k \in DOMAIN order |-> players[order[k]]]
  BY DEF EndRound
<1>4. players' \in Seq(Players) /\ Len(players') = n
  <2>1. \A j \in Left : players[j] \in Players
    BY <1>1, SeatsAre DEF Left
  <2> HIDE DEF n
  <2>2. players' \in [1..n -> Players]
    BY <1>3, <2>1
  <2>3. QED
    BY <1>2, <2>2, FunctionIsSeq
<1> HIDE DEF n
<1>5. /\ pc' \in {"round", "crashed"} /\ dealer' \in Nat
      /\ pc' = "round" /\ players' # <<>> => dealer' < Len(players')
  <2>1. CASE players' = <<>>
    <3>1. (pc' = "crashed" /\ dealer' = dealer) \/ (pc' = "round" /\ dealer' = dealer + 1)
      BY <2>1 DEF EndRound
    <3>2. dealer + 1 \in Nat
      BY <1>1
    <3>3. QED
      BY <1>1, <2>1, <3>1, <3>2
  <2>2. CASE players' # <<>>
    <3>1. pc' = "round" /\ dealer' = (dealer + 1) % Len(players')
      BY <2>2 DEF EndRound
    <3>2. n # 0
      BY <1>4, <2>2
    <3>3. (dealer + 1) % n \in 0..(n - 1)
      BY <1>1, <1>2, <3>2, DivMod
    <3>4. QED
      BY <1>2, <1>4, <3>1, <3>3
  <2>3. QED
    BY <2>1, <2>2
<1>6. TypeOK'
  BY <1>1, <1>4, <1>5 DEF TypeOK
<1>7. QED
  BY <1>5, <1>6 DEF IInv, StillIn, BetsRiseWithTheSeat

LEMMA Finishing ==
    ASSUME IInv, Finish \/ UNCHANGED vars
    PROVE  IInv'
<1>1. CASE Finish
  <2>1. pc' = "over" /\ UNCHANGED <<players, minBet, pot, highest, at, dealer>>
    BY <1>1 DEF Finish
  <2>2. TypeOK'
    BY <2>1 DEF IInv, TypeOK
  <2>3. QED
    BY <2>1, <2>2 DEF IInv, StillIn, BetsRiseWithTheSeat
<1>2. CASE UNCHANGED vars
  BY <1>2 DEF vars, IInv, TypeOK, StillIn, BetsRiseWithTheSeat, Contenders, Seats
<1>3. QED
  BY <1>1, <1>2

-----------------------------------------------------------------------------
(* The theorems *)

LEMMA GameGoesOn == IInv /\ [Next]_vars => IInv'
BY RoundStarts, Passing, Folding, Calling, Raising, Showing, RoundEnds, Finishing DEF Next

THEOREM GameInvariance == Spec => []IInv
BY Begins, GameGoesOn, PTL DEF Spec

\* No bank, bet, share or pot ever gets negative or is divided by zero winners.
THEOREM GameIsTypeCorrect == Spec => []TypeOK
<1>1. IInv => TypeOK
  BY DEF IInv
<1>2. QED
  BY <1>1, GameInvariance, PTL

\* Nobody still in has bet less than one who was asked before: the one pass of
\* betting_round leaves early callers below a later raise, for any table.
THEOREM BetsRise == Spec => []BetsRiseWithTheSeat
<1>1. IInv => BetsRiseWithTheSeat
  BY DEF IInv
<1>2. QED
  BY <1>1, GameInvariance, PTL

-----------------------------------------------------------------------------
(* The chips *)

\* What each seat has bet, and what it has left.
BetOf == [i \in Seats |-> players[i].bet]

BankOf == [i \in Seats |-> players[i].bank]

\* Bets and Banks as sums over the seats.
Summed ==
    /\ IsFiniteSet(Seats)
    /\ Bets = SumFunctionOnSet(BetOf, Seats)
    /\ Banks = SumFunctionOnSet(BankOf, Seats)
    /\ \A i \in Seats : /\ BetOf[i] = players[i].bet /\ BetOf[i] \in Nat
                        /\ BankOf[i] = players[i].bank /\ BankOf[i] \in Nat
    /\ Bets \in Nat /\ Banks \in Nat /\ pot \in Nat

LEMMA ChipsAreSummed == TypeOK => Summed
<1> SUFFICES ASSUME TypeOK
             PROVE  Summed
  OBVIOUS
<1>1. /\ Len(players) \in Nat /\ Seats = 1..Len(players)
      /\ \A i \in Seats : players[i].bank \in Nat /\ players[i].bet \in Nat
  BY SeatsAre
<1>2. IsFiniteSet(Seats)
  BY <1>1, FS_Interval
<1>3. Bets = SumFunctionOnSet(BetOf, Seats) /\ Banks = SumFunctionOnSet(BankOf, Seats)
  BY DEF Bets, Banks, BetOf, BankOf, SumFunction
<1>4. \A i \in Seats : BetOf[i] = players[i].bet /\ BankOf[i] = players[i].bank
  BY DEF BetOf, BankOf
<1>5. SumFunctionOnSet(BetOf, Seats) \in Nat /\ SumFunctionOnSet(BankOf, Seats) \in Nat
  BY <1>1, <1>2, <1>4, SumType
<1>6. QED
  BY <1>1, <1>2, <1>3, <1>4, <1>5 DEF Summed, TypeOK

\* The same after a step.
LEMMA ChipsAreSummedNext == TypeOK' => Summed'
BY ChipsAreSummed, PTL

\* The ante: as much goes to the pot as leaves the banks, and all bets together
\* are as much.
LEMMA AntesArePaid ==
    ASSUME IInv, StartRound
    PROVE  pot' = Bets' /\ Banks = Banks' + pot'
<1> DEFINE Anters == {i \in Seats : CanAnte(i)}
<1>1. PICK dealt \in [Seats -> Hands] : players' = [i \in Seats |-> Anted(i, dealt[i])]
  BY DEF StartRound
<1>2. /\ TypeOK /\ minBet \in Nat /\ Seats' = Seats /\ pot' = minBet * Cardinality(Anters)
      /\ \A i \in Seats : players[i] \in Players /\ players[i].bank \in Nat
  <2>1. TypeOK /\ minBet \in Nat
    BY DEF IInv, TypeOK
  <2>2. QED
    BY <1>1, <2>1, SeatsAre DEF Seats, StartRound
<1>3. Summed /\ Summed'
  BY <1>2, RoundStarts, ChipsAreSummed, ChipsAreSummedNext DEF IInv
<1>4. ASSUME NEW i \in Seats
      PROVE  /\ players'[i].bet = IF i \in Anters THEN minBet ELSE 0
             /\ players[i].bank = players'[i].bank + players'[i].bet
  <2>1. players'[i] = Anted(i, dealt[i])
    BY <1>1
  <2>2. CASE CanAnte(i)
    <3>1. players'[i].bet = minBet /\ players'[i].bank = players[i].bank - minBet
      BY <1>2, <2>1, <2>2 DEF Anted, Players
    <3>2. QED
      BY <1>2, <2>2, <3>1
  <2>3. CASE ~CanAnte(i)
    <3>1. players'[i].bet = 0 /\ players'[i].bank = players[i].bank
      BY <1>2, <2>1, <2>3 DEF Anted, Players
    <3>2. QED
      BY <1>2, <2>3, <3>1
  <2>4. QED
    BY <2>2, <2>3
<1>5. SumFunctionOnSet(BetOf', Seats) = minBet * Cardinality(Anters)
  <2>1. \A i \in Seats : BetOf'[i] = IF i \in Anters THEN minBet ELSE 0
    BY <1>2, <1>3, <1>4 DEF Summed
  <2>2. IsFiniteSet(Seats) /\ Anters \in SUBSET Seats
    BY <1>3 DEF Summed
  <2> HIDE DEF Anters
  <2>3. QED
    BY <1>2, <2>1, <2>2, SumOfEqualParts
<1> HIDE DEF Anters
<1>6. SumFunctionOnSet(BankOf, Seats) =
         SumFunctionOnSet(BankOf', Seats) + SumFunctionOnSet(BetOf', Seats)
  <2>1. /\ IsFiniteSet(Seats)
        /\ \A i \in Seats : /\ BankOf'[i] \in Nat /\ BetOf'[i] \in Nat
                            /\ BankOf[i] = BankOf'[i] + BetOf'[i]
    BY <1>2, <1>3, <1>4 DEF Summed
  <2>2. QED
    BY <2>1, SumPlus
<1>7. QED
  BY <1>2, <1>3, <1>5, <1>6 DEF Summed

\* One seat pays an amount to the pot, or none.
LEMMA OneSeatPays ==
    ASSUME TypeOK, TypeOK', Asked, NEW amount \in Nat, NEW new,
           players' = [players EXCEPT ![at] = new],
           new.bet = players[at].bet + amount, players[at].bank = new.bank + amount,
           pot' = pot + amount
    PROVE  Bets' + pot = Bets + pot' /\ Chips' = Chips
<1>1. Summed /\ Summed'
  BY ChipsAreSummed, ChipsAreSummedNext
<1>2. /\ at \in Seats /\ Seats' = Seats
      /\ players'[at] = new /\ \A i \in Seats \ {at} : players'[i] = players[i]
  BY DEF Asked, Seats
<1>3. /\ \A i \in Seats : BetOf[i] \in Nat /\ BetOf'[i] \in Nat
      /\ \A i \in Seats : BankOf[i] \in Nat /\ BankOf'[i] \in Nat
      /\ \A i \in Seats \ {at} : BetOf'[i] = BetOf[i] /\ BankOf'[i] = BankOf[i]
      /\ BetOf'[at] = BetOf[at] + amount /\ BankOf[at] = BankOf'[at] + amount
  BY <1>1, <1>2 DEF Summed
<1>4. /\ SumFunctionOnSet(BetOf', Seats) + BetOf[at] = SumFunctionOnSet(BetOf, Seats) + BetOf'[at]
      /\ SumFunctionOnSet(BankOf', Seats) + BankOf[at] = SumFunctionOnSet(BankOf, Seats) + BankOf'[at]
  BY <1>1, <1>2, <1>3, SumOneChange DEF Summed
<1>5. /\ Bets' + BetOf[at] = Bets + BetOf'[at]
      /\ Banks' + BankOf[at] = Banks + BankOf'[at]
      /\ Bets \in Nat /\ Bets' \in Nat /\ Banks \in Nat /\ Banks' \in Nat /\ pot \in Nat
  BY <1>1, <1>2, <1>4 DEF Summed
<1>6. BetOf[at] \in Nat /\ BankOf'[at] \in Nat
  BY <1>2, <1>3
<1>7. Bets' = Bets + amount /\ Banks = Banks' + amount
  BY <1>3, <1>5, <1>6
<1>8. QED
  BY <1>5, <1>7 DEF Chips

\* Whatever the player who is asked does moves chips from their bank to the pot
\* and is counted in their bet.
LEMMA BetsArePaid ==
    ASSUME IInv, PassOver \/ Folds \/ Calls \/ Raises
    PROVE  pc = "bet" /\ pc' = "bet" /\ Bets' + pot = Bets + pot' /\ Chips' = Chips
<1>1. TypeOK /\ TypeOK' /\ Asked /\ pc = "bet" /\ pc' = "bet" /\ pot \in Nat
  <2>1. IInv'
    BY Passing, Folding, Calling, Raising
  <2>2. QED
    BY <2>1 DEF IInv, TypeOK, PassOver, Folds, Calls, Raises, Asked, NextPlayer
<1>2. /\ at \in Seats /\ players[at] \in Players
      /\ players[at].bank \in Nat /\ players[at].bet \in Nat
  BY <1>1, SeatsAre DEF Asked
<1>3. ASSUME players' = [players EXCEPT ![at].folded = TRUE], pot' = pot
      PROVE  Bets' + pot = Bets + pot' /\ Chips' = Chips
  <2> DEFINE new == [players[at] EXCEPT !.folded = TRUE]
  <2>1. new.bet = players[at].bet + 0 /\ players[at].bank = new.bank + 0
    BY <1>2 DEF Players
  <2>2. players' = [players EXCEPT ![at] = new] /\ pot' = pot + 0
    BY <1>1, <1>3
  <2> HIDE DEF new
  <2>3. QED
    BY <1>1, <2>1, <2>2, OneSeatPays
<1>4. ASSUME ~players[at].folded, NEW bet \in Nat, highest <= bet, Pays(bet)
      PROVE  Bets' + pot = Bets + pot' /\ Chips' = Chips
  <2> DEFINE need == bet - players[at].bet
  <2>1. need \in Nat
    <3>1. at \in Contenders
      BY <1>2, <1>4 DEF Contenders
    <3>2. players[at].bet <= highest /\ highest \in Nat
      BY <1>1, <3>1 DEF IInv, StillIn, TypeOK
    <3>3. QED
      BY <1>2, <1>4, <3>2
  <2>2. CASE need > players[at].bank
    BY <1>3, <1>4, <2>2 DEF Pays
  <2>3. CASE ~(need > players[at].bank)
    <3> DEFINE new == [players[at] EXCEPT !.bank = @ - need, !.bet = bet]
    <3>1. players' = [players EXCEPT ![at] = new] /\ pot' = pot + need
      BY <1>4, <2>3 DEF Pays
    <3>2. new.bet = bet /\ new.bank = players[at].bank - need
      BY <1>2 DEF Players
    <3>3. new.bet = players[at].bet + need /\ players[at].bank = new.bank + need
      BY <1>2, <1>4, <3>2
    <3> HIDE DEF new, need
    <3>4. QED
      BY <1>1, <2>1, <3>1, <3>3, OneSeatPays
  <2>4. QED
    BY <2>2, <2>3
<1>5. CASE PassOver
  <2>1. players' = players /\ pot' = pot
    BY <1>5 DEF PassOver
  <2>2. Bets' = Bets /\ Banks' = Banks
    BY <2>1 DEF Bets, Banks, Seats
  <2>3. QED
    BY <1>1, <2>1, <2>2 DEF Chips
<1>6. CASE Folds
  BY <1>1, <1>3, <1>6 DEF Folds
<1>7. CASE Calls
  <2>1. ~players[at].folded /\ highest \in Nat /\ highest <= highest /\ Pays(highest)
    BY <1>7 DEF Calls, IInv, TypeOK
  <2>2. QED
    BY <1>1, <1>4, <2>1
<1>8. CASE Raises
  <2>1. /\ ~players[at].folded /\ highest + minBet \in Nat /\ highest <= highest + minBet
        /\ Pays(highest + minBet)
    BY <1>8 DEF Raises, IInv, TypeOK
  <2>2. QED
    BY <1>1, <1>4, <2>1
<1>9. QED
  BY <1>1, <1>5, <1>6, <1>7, <1>8

\* The showdown pays the pot out but for less than one chip a winner, and keeps
\* what it does not pay out to nobody.
LEMMA PotIsShared ==
    ASSUME IInv, Showdown
    PROVE  \/ Contenders = {} /\ Chips' = Chips
           \/ /\ Contenders # {}
              /\ Winners \subseteq Seats
              /\ Cardinality(Winners) \in Nat
              /\ Chips' <= Chips
              /\ Chips - Chips' < Cardinality(Winners)
<1> DEFINE n == Cardinality(Winners)
<1>1. /\ pc = "bet" /\ TypeOK /\ TypeOK' /\ Summed /\ Summed'
  BY Showing, ChipsAreSummed, ChipsAreSummedNext DEF Showdown, IInv
<1>2. CASE Contenders = {}
  <2>1. players' = players /\ pot' = pot
    BY <1>2 DEF Showdown
  <2>2. QED
    BY <1>2, <2>1 DEF Chips, Banks, Seats
<1>3. CASE Contenders # {}
  <2>1. /\ players' = [i \in Seats |->
                         IF i \in Winners THEN [players[i] EXCEPT !.bank = @ + Share]
                                          ELSE players[i]]
        /\ pot' = 0 /\ Seats' = Seats
    BY <1>3 DEF Showdown, Seats
  <2>2. /\ n \in Nat /\ n # 0 /\ Winners \in SUBSET Seats
        /\ Share = pot \div n /\ Share \in Nat
    BY <1>1, <1>3, SomebodyWins, ShareIsNatural, FS_CardinalityType, FS_EmptySet
    DEF Winners, Contenders, Share
  <2>3. Share * n <= pot /\ pot - Share * n < n /\ Share * n \in Nat
    <3>1. pot \in Nat /\ n \in Nat /\ n > 0
      BY <1>1, <2>2 DEF Summed
    <3>2. pot = n * (pot \div n) + (pot % n) /\ pot % n \in 0..(n - 1)
      BY <3>1, DivMod
    <3>3. n * Share \in Nat /\ Share * n = n * Share
      BY <2>2
    <3>4. pot = n * Share + (pot % n)
      BY <2>2, <3>2
    <3> DEFINE paid == n * Share
               rest == pot % n
    <3>5. paid \in Nat /\ Share * n = paid /\ rest \in 0..(n - 1) /\ pot = paid + rest
      BY <3>2, <3>3, <3>4
    <3> HIDE DEF paid, rest, n
    <3>6. QED
      BY <3>1, <3>5
  <2> DEFINE won == [i \in Seats |-> IF i \in Winners THEN Share ELSE 0]
  <2>4. SumFunctionOnSet(won, Seats) = Share * n
    <3>1. \A i \in Seats : won[i] = IF i \in Winners THEN Share ELSE 0
      OBVIOUS
    <3> HIDE DEF won
    <3>2. QED
      BY <1>1, <2>2, <3>1, SumOfEqualParts DEF Summed
  <2>5. \A i \in Seats : BankOf'[i] = BankOf[i] + won[i]
    <3> SUFFICES ASSUME NEW i \in Seats
                 PROVE  BankOf'[i] = BankOf[i] + won[i]
      OBVIOUS
    <3>1. players[i] \in Players /\ players[i].bank \in Nat
      BY <1>1, SeatsAre
    <3>2. BankOf[i] = players[i].bank /\ BankOf'[i] = players'[i].bank
      BY <1>1, <2>1 DEF Summed
    <3>3. CASE i \in Winners
      <4>1. players'[i].bank = players[i].bank + Share
        BY <2>1, <3>1, <3>3 DEF Players
      <4>2. QED
        BY <3>2, <3>3, <4>1
    <3>4. CASE i \notin Winners
      BY <2>1, <3>1, <3>2, <3>4
    <3>5. QED
      BY <3>3, <3>4
  <2>6. Banks' = Banks + Share * n
    <3>1. /\ IsFiniteSet(Seats)
          /\ \A i \in Seats : BankOf[i] \in Nat /\ won[i] \in Nat /\ BankOf'[i] = BankOf[i] + won[i]
      BY <1>1, <2>2, <2>5 DEF Summed
    <3> HIDE DEF won
    <3>2. SumFunctionOnSet(BankOf', Seats) =
             SumFunctionOnSet(BankOf, Seats) + SumFunctionOnSet(won, Seats)
      BY <3>1, SumPlus
    <3>3. QED
      BY <1>1, <2>1, <2>4, <3>2 DEF Summed
  <2> HIDE DEF n, won
  <2>7. Chips = Banks + pot /\ Chips' = Banks + Share * n + 0 /\ Banks \in Nat /\ pot \in Nat
    BY <1>1, <2>1, <2>6 DEF Chips, Summed
  <2>8. Chips' <= Chips /\ Chips - Chips' < n
    BY <2>2, <2>3, <2>7
  <2>9. QED
    BY <1>3, <2>2, <2>8 DEF n
<1>4. QED
  BY <1>2, <1>3

\* The banks of those who are left, by their old seats and by their new ones.
LEMMA BanksMoveUp ==
    ASSUME NEW K, IsFiniteSet(K), NEW order \in Bijection(K, Left),
           \A k \in K : BankOf'[k] = BankOf[order[k]] /\ BankOf'[k] \in Nat
    PROVE  SumFunctionOnSet(BankOf', K) = SumFunctionOnSet(BankOf, Left)
BY SumReordered

\* Whoever has no chips left takes none along.
LEMMA BrokePlayersLeave ==
    ASSUME IInv, EndRound
    PROVE  Chips' = Chips
<1> DEFINE n == Cardinality(Left)
<1>1. /\ TypeOK /\ TypeOK' /\ Summed /\ Summed' /\ pot' = pot
  BY RoundEnds, ChipsAreSummed, ChipsAreSummedNext DEF EndRound, IInv
<1>2. /\ IsFiniteSet(Left) /\ n \in Nat /\ Left \in SUBSET Seats /\ Left \subseteq Nat
  <2>1. IsFiniteSet(Seats) /\ Left \in SUBSET Seats
    BY <1>1 DEF Left, Summed
  <2>2. Left \subseteq Nat
    BY <1>1, <2>1, SeatsAre
  <2>3. QED
    BY <2>1, <2>2, FS_Subset, FS_CardinalityType
<1>3. PICK order \in [1..n -> Left] :
         InOrder(order) /\ players' = [k \in DOMAIN order |-> players[order[k]]]
  BY DEF EndRound
<1>4. Seats' = 1..n
  BY <1>3 DEF Seats
<1>5. \A j, k \in 1..n : order[j] = order[k] => j = k
  <2> SUFFICES ASSUME NEW j \in 1..n, NEW k \in 1..n, order[j] = order[k], j # k
               PROVE  FALSE
    OBVIOUS
  <2>1. order[j] \in Nat /\ order[k] \in Nat
    BY <1>2, <1>3
  <2>2. CASE j < k
    BY <1>3, <2>1, <2>2 DEF InOrder
  <2>3. CASE k < j
    BY <1>3, <2>1, <2>3 DEF InOrder
  <2>4. QED
    BY <1>2, <2>2, <2>3
<1>6. order \in Bijection(1..n, Left)
  <2>1. order \in Injection(1..n, Left)
    BY <1>3, <1>5 DEF Injection, IsInjective
  <2>2. Cardinality(1..n) = Cardinality(Left)
    BY <1>2, FS_Interval
  <2> HIDE DEF n
  <2>3. order \in Surjection(1..n, Left)
    BY <1>2, <2>1, <2>2, FS_Injection
  <2>4. QED
    BY <2>1, <2>3 DEF Bijection
<1> HIDE DEF n
<1>7. SumFunctionOnSet(BankOf', 1..n) = SumFunctionOnSet(BankOf, Left)
  <2>1. \A k \in 1..n : BankOf'[k] = BankOf[order[k]] /\ BankOf'[k] \in Nat
    <3> SUFFICES ASSUME NEW k \in 1..n
                 PROVE  BankOf'[k] = BankOf[order[k]] /\ BankOf'[k] \in Nat
      OBVIOUS
    <3>1. order[k] \in Seats /\ players'[k] = players[order[k]]
      BY <1>2, <1>3
    <3>2. BankOf'[k] = players'[k].bank /\ BankOf'[k] \in Nat
      BY <1>1, <1>4 DEF Summed
    <3>3. BankOf[order[k]] = players[order[k]].bank
      BY <1>1, <3>1 DEF Summed
    <3>4. QED
      BY <3>1, <3>2, <3>3
  <2>2. IsFiniteSet(1..n)
    BY <1>2, FS_Interval
  <2>3. QED
    BY <1>6, <2>1, <2>2, BanksMoveUp
<1>8. SumFunctionOnSet(BankOf, Left) = SumFunctionOnSet(BankOf, Seats)
  <2>1. \A i \in Seats \ Left : BankOf[i] = 0
    BY <1>1 DEF Summed, Left, HasChips
  <2>2. QED
    BY <1>1, <1>2, <2>1, SumWithoutZeros DEF Summed
<1>9. QED
  BY <1>1, <1>4, <1>7, <1>8 DEF Chips, Summed

-----------------------------------------------------------------------------
(* What becomes of the pot *)

LEMMA PotIsKept ==
    ASSUME IInv, PotHoldsTheBets, [Next]_vars
    PROVE  PotHoldsTheBets'
<1>1. CASE StartRound
  BY <1>1, AntesArePaid DEF PotHoldsTheBets
<1>2. CASE PassOver \/ Folds \/ Calls \/ Raises
  <2>1. pot \in Nat /\ pot' \in Nat /\ Bets \in Nat /\ Bets' \in Nat
    <3>1. TypeOK /\ TypeOK'
      BY GameGoesOn DEF IInv
    <3>2. QED
      BY <3>1, ChipsAreSummed, ChipsAreSummedNext DEF Summed
  <2>2. pot = Bets /\ Bets' + pot = Bets + pot'
    BY <1>2, BetsArePaid DEF PotHoldsTheBets
  <2>3. QED
    BY <2>1, <2>2 DEF PotHoldsTheBets
<1>3. CASE Showdown \/ EndRound \/ Finish
  BY <1>3 DEF PotHoldsTheBets, Showdown, EndRound, Finish
<1>4. CASE UNCHANGED vars
  BY <1>4 DEF PotHoldsTheBets, Bets, Seats, vars
<1>5. QED
  BY <1>1, <1>2, <1>3, <1>4 DEF Next

\* While the betting goes on the pot is, to the chip, what the players have bet,
\* those who folded since included (betting_round's need and the antes).
THEOREM PotIsTheBets == Spec => []PotHoldsTheBets
<1>1. Init => PotHoldsTheBets
  BY DEF Init, PotHoldsTheBets
<1>2. IInv /\ PotHoldsTheBets /\ [Next]_vars => PotHoldsTheBets'
  BY PotIsKept
<1>3. QED
  BY <1>1, <1>2, GameInvariance, PTL DEF Spec

\* No step makes chips, and while a round is played only the division of the pot
\* loses any.
THEOREM ChipsOnlyLeave == Spec => RoundsConserveChips
<1> DEFINE Step ==
             /\ Chips' <= Chips
             /\ pc # "round" /\ Chips' < Chips =>
                   pc = "bet" /\ pc' = "end" /\ Chips - Chips' < Cardinality(Winners)
<1>1. ASSUME IInv, Next
      PROVE  Step
  <2>1. Chips \in Nat /\ Chips' \in Nat /\ Chips = Banks + pot /\ Banks \in Nat /\ pot \in Nat
        /\ Chips' = Banks' + pot' /\ Banks' \in Nat /\ pot' \in Nat
    <3>1. TypeOK /\ TypeOK'
      BY <1>1, GameGoesOn DEF IInv
    <3>2. QED
      BY <3>1, ChipsAreSummed, ChipsAreSummedNext DEF Summed, Chips
  <2>2. Chips' = Chips => Step
    <3>1. Chips \in Nat
      BY <2>1
    <3>2. QED
      BY <3>1
  <2>3. CASE StartRound
    <3>1. Chips' <= Chips
      BY <1>1, <2>1, <2>3, AntesArePaid
    <3>2. pc = "round"
      BY <2>3 DEF StartRound
    <3>3. QED
      BY <3>1, <3>2
  <2>4. CASE PassOver \/ Folds \/ Calls \/ Raises
    <3>1. Chips' = Chips
      BY <1>1, <2>4, BetsArePaid
    <3>2. QED
      BY <2>1, <3>1, <2>2
  <2>5. CASE Showdown
    <3>1. pc = "bet" /\ pc' = "end"
      BY <2>5 DEF Showdown
    <3>2. \/ Chips' = Chips
          \/ Chips' <= Chips /\ Chips - Chips' < Cardinality(Winners)
      BY <1>1, <2>5, PotIsShared
    <3>3. QED
      BY <2>2, <3>1, <3>2
  <2>6. CASE EndRound
    <3>1. Chips' = Chips
      BY <1>1, <2>6, BrokePlayersLeave
    <3>2. QED
      BY <2>2, <3>1
  <2>7. CASE Finish
    <3>1. Chips' = Chips
      BY <2>7 DEF Finish, Chips, Banks, Seats
    <3>2. QED
      BY <2>2, <3>1
  <2>8. QED
    BY <1>1, <2>3, <2>4, <2>5, <2>6, <2>7 DEF Next
<1>2. IInv /\ [Next]_vars => [Step]_vars
  BY <1>1
<1>3. QED
  BY <1>2, GameInvariance, PTL DEF Spec, RoundsConserveChips

\* A sole winner gets the whole pot, which holds at least their own bet and
\* that of everybody who has bet with them.
THEOREM SoleWinnersGain == Spec => SoleWinnerGains
<1> DEFINE Gains(w) ==
             /\ players'[w].bank >= players[w].bank + players[w].bet
             /\ (\E i \in Seats \ {w} : players[i].bet > 0) =>
                   players'[w].bank > players[w].bank + players[w].bet
           Step == \A w \in Seats : pc = "bet" /\ pc' = "end" /\ Winners = {w} => Gains(w)
<1>1. ASSUME IInv, PotHoldsTheBets, Next, NEW w \in Seats, pc = "bet", pc' = "end", Winners = {w}
      PROVE  Gains(w)
  <2>1. Showdown
    <3>1. ~StartRound /\ ~EndRound /\ ~Finish
      BY <1>1 DEF StartRound, EndRound, Finish
    <3>2. ~PassOver /\ ~Folds /\ ~Calls /\ ~Raises
      BY <1>1, BetsArePaid
    <3>3. QED
      BY <1>1, <3>1, <3>2 DEF Next
  <2>2. w \in Contenders
    BY <1>1 DEF Winners
  <2>3. TypeOK /\ Summed /\ pot = Bets
    BY <1>1, ChipsAreSummed DEF IInv, PotHoldsTheBets
  <2>4. Share = pot
    <3>1. Cardinality(Winners) = 1
      BY <1>1, FS_Singleton
    <3>2. pot \in Nat /\ pot \div 1 = pot
      BY <2>3 DEF Summed
    <3>3. QED
      BY <3>1, <3>2 DEF Share
  <2>5. players'[w].bank = players[w].bank + pot
    <3>1. players[w] \in Players
      BY <2>3, SeatsAre
    <3>2. players'[w] = [players[w] EXCEPT !.bank = @ + Share]
      BY <1>1, <2>1, <2>2 DEF Showdown
    <3>3. QED
      BY <2>4, <3>1, <3>2 DEF Players
  <2>6. /\ players[w].bet <= pot
        /\ \A i \in Seats : w # i => players[w].bet + players[i].bet <= pot
    <3>1. /\ \A x \in Seats : BetOf[x] <= SumFunctionOnSet(BetOf, Seats)
          /\ \A x, y \in Seats : x # y => BetOf[x] + BetOf[y] <= SumFunctionOnSet(BetOf, Seats)
      BY <2>3, SumAtLeast DEF Summed
    <3>2. QED
      BY <2>3, <3>1 DEF Summed
  <2>7. /\ players[w].bank \in Nat /\ pot \in Nat
        /\ \A i \in Seats : players[i].bet \in Nat
    BY <2>3, SeatsAre DEF TypeOK
  <2>8. QED
    BY <2>5, <2>6, <2>7
<1> HIDE DEF Gains
<1>2. IInv /\ PotHoldsTheBets /\ [Next]_vars => [Step]_vars
  BY <1>1
<1>3. QED
  BY <1>2, GameInvariance, PotIsTheBets, PTL DEF Spec, SoleWinnerGains, Gains

-----------------------------------------------------------------------------
(* The hands *)

\* What the rules say of a hand holds of every hand of the deck, in every round.
THEOREM PatternsRank == Spec => []RankedAsDocumented
<1>1. RankedAsDocumented
  BY RankedByPattern DEF RankedAsDocumented
<1>2. QED
  BY <1>1, PTL

\* The joker is worth what src/README.md says, whatever hand it is in.
THEOREM JokersCopyTheBest == Spec => []JokerCopiesBestCard
<1>1. JokerCopiesBestCard
  BY JokerCopiesBest DEF JokerCopiesBestCard
<1>2. QED
  BY <1>1, PTL

\* The comparisons of showdown agree with each other for all hands of the deck.
THEOREM OneScaleRanks == Spec => []HandsAreStrengths
<1>1. HandsAreStrengths
  BY OneScaleForHands DEF HandsAreStrengths
<1>2. QED
  BY <1>1, PTL

\* Only hands of the same points share a pot, and no two threes of a kind.
THEOREM TiesAreFair == Spec => []TiesShareRanks
<1>1. TiesShareRanks
  BY TiesAreAlike DEF TiesShareRanks
<1>2. QED
  BY <1>1, PTL

=============================================================================
