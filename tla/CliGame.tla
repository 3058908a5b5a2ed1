------------------------------- MODULE CliGame -------------------------------
(***************************************************************************)
(* The game on the console (src/game.cpp): rounds of ante, one pass of     *)
(* betting, showdown, until one player is left.  Player 1 is the human,    *)
(* whose answers are arbitrary; the bots follow their hand and a coin.     *)
(*                                                                         *)
(* Hands are the cards themselves, as src/rules.cpp evaluates them; a run   *)
(* deals from a few hands, a proof from any.                               *)
(***************************************************************************)
EXTENDS Evaluator, Functions

CONSTANTS
    PlayerCounts,   \* what main.cpp lets one choose: 2..7
    StartingBanks,  \* 20..1000
    Hands           \* the hands that may be dealt

ASSUME PlayerCountsAssumption == PlayerCounts \subseteq Nat \ {0}
ASSUME StartingBanksAssumption == StartingBanks \subseteq Nat \ {0}
ASSUME HandsAssumption == Hands \subseteq Deals

\* What a hand is worth (src/rules.cpp).
Worth == [hand \in Hands |-> EvaluateHand(hand)]

VARIABLES
    players,  \* players_: the human first, then the bots that still have chips
    minBet,   \* options_.min_bet
    pot,      \* pot_
    highest,  \* highest_bet of betting_round
    at,       \* the player betting_round asks
    dealer,   \* dealer_index_
    pc        \* "round", "bet", "end" of a round; "over"; "crashed"

vars == <<players, minBet, pot, highest, at, dealer, pc>>

NoCards == <<>>

Players == [human : BOOLEAN, bank : Nat, folded : BOOLEAN, bet : Nat, hand : Hands \cup {NoCards}]

Seats == DOMAIN players

Init ==
    /\ \E n \in PlayerCounts, bank \in StartingBanks :
          /\ players = [i \in 1..n |-> [human |-> i = 1, bank |-> bank, folded |-> FALSE,
                                        bet |-> 0, hand |-> NoCards]]
          /\ minBet \in 1..bank
    /\ pot = 0
    /\ highest = 0
    /\ at = 1
    /\ dealer = 0
    /\ pc = "round"

\* Mutant of CanAnte: whoever has a chip left antes.
CanAnteOnAnything(i) == players[i].bank > 0

CanAnte(i) == players[i].bank >= minBet

\* A player who antes is dealt a hand; the others fold.
Anted(i, hand) ==
    IF CanAnte(i)
    THEN [players[i] EXCEPT !.bank = @ - minBet, !.folded = FALSE, !.bet = minBet, !.hand = hand]
    ELSE [players[i] EXCEPT !.folded = TRUE, !.bet = 0, !.hand = NoCards]

\* No card is drawn twice (src/deck.cpp).
Apart(hands) == \A i, j \in DOMAIN hands : i # j => CardsOf(hands[i]) \cap CardsOf(hands[j]) = {}

StartRound ==
    /\ pc = "round"
    /\ Len(players) > 1
    /\ \E hands \in [Seats -> Hands] :
          /\ Apart(hands)
          /\ players' = [i \in Seats |-> Anted(i, hands[i])]
    /\ pot' = minBet * Cardinality({i \in Seats : CanAnte(i)})
    /\ highest' = minBet
    /\ at' = 1
    /\ pc' = "bet"
    /\ UNCHANGED <<minBet, dealer>>

Asked == pc = "bet" /\ at \in Seats

NextPlayer == at' = at + 1 /\ UNCHANGED <<minBet, dealer, pc>>

PassOver ==
    /\ Asked
    /\ players[at].folded
    /\ NextPlayer
    /\ UNCHANGED <<players, pot, highest>>

\* The human folds at will, a bot on the coin when it has not even a pair.
Folds ==
    /\ Asked
    /\ ~players[at].folded
    /\ players[at].human \/ Worth[players[at].hand].category < Pair
    /\ players' = [players EXCEPT ![at].folded = TRUE]
    /\ NextPlayer
    /\ UNCHANGED <<pot, highest>>

MayRaise(p) == p.human \/ Worth[p.hand].category >= Straight

MayCall(p) == p.human \/ Worth[p.hand].category < Straight

\* Mutant of Pays: the whole bet goes to the pot again.
PaysTwice(bet) ==
    LET need == bet - players[at].bet
    IN  IF need > players[at].bank
        THEN /\ players' = [players EXCEPT ![at].folded = TRUE]
             /\ UNCHANGED pot
        ELSE /\ players' = [players EXCEPT ![at].bank = @ - need, ![at].bet = bet]
             /\ pot' = pot + bet

\* Pay up to the highest bet, or fold for want of chips.
Pays(bet) ==
    LET need == bet - players[at].bet
    IN  IF need > players[at].bank
        THEN /\ players' = [players EXCEPT ![at].folded = TRUE]
             /\ UNCHANGED pot
        ELSE /\ players' = [players EXCEPT ![at].bank = @ - need, ![at].bet = bet]
             /\ pot' = pot + need

Calls ==
    /\ Asked
    /\ ~players[at].folded
    /\ MayCall(players[at])
    /\ Pays(highest)
    /\ NextPlayer
    /\ UNCHANGED highest

\* Mutant of Raises: the others need not follow.
RaisesAlone ==
    /\ Asked
    /\ ~players[at].folded
    /\ MayRaise(players[at])
    /\ UNCHANGED highest
    /\ Pays(highest + minBet)
    /\ NextPlayer

\* The bet is raised before the raiser is found able to pay it.
Raises ==
    /\ Asked
    /\ ~players[at].folded
    /\ MayRaise(players[at])
    /\ highest' = highest + minBet
    /\ Pays(highest + minBet)
    /\ NextPlayer

Contenders == {i \in Seats : ~players[i].folded}

BestHand ==
    Worth[players[CHOOSE i \in Contenders :
              \A j \in Contenders : ~Less(Worth[players[i].hand], Worth[players[j].hand])].hand]

Winners == {i \in Contenders : Worth[players[i].hand] = BestHand}

\* Mutants of Share: rounded up, and divided among all who are still in.
ShareRoundedUp == (pot + Cardinality(Winners) - 1) \div Cardinality(Winners)

ShareOfContenders == pot \div Cardinality(Contenders)

Share == pot \div Cardinality(Winners)

Showdown ==
    /\ pc = "bet"
    /\ at \notin Seats
    /\ IF Contenders = {}
       THEN UNCHANGED <<players, pot>>
       ELSE /\ players' = [i \in Seats |->
                              IF i \in Winners THEN [players[i] EXCEPT !.bank = @ + Share]
                                               ELSE players[i]]
            /\ pot' = 0
    /\ pc' = "end"
    /\ UNCHANGED <<minBet, highest, at, dealer>>

HasChips(p) == p.bank > 0

Left == {i \in Seats : HasChips(players[i])}

\* Those who are left, in their order.
InOrder(order) == \A j, k \in DOMAIN order : j < k => order[j] < order[k]

\* remove_broke_players, then the next dealer.  With nobody left the remainder
\* divides by zero: x86 traps, ARM leaves the dividend.
EndRound ==
    /\ pc = "end"
    /\ \E order \in [1..Cardinality(Left) -> Left] :
          /\ InOrder(order)
          /\ players' = [k \in DOMAIN order |-> players[order[k]]]
    /\ IF players' = <<>>
       THEN \/ pc' = "crashed" /\ UNCHANGED dealer
            \/ pc' = "round" /\ dealer' = dealer + 1
       ELSE pc' = "round" /\ dealer' = (dealer + 1) % Len(players')
    /\ UNCHANGED <<minBet, pot, highest, at>>

Finish ==
    /\ pc = "round"
    /\ Len(players) <= 1
    /\ pc' = "over"
    /\ UNCHANGED <<players, minBet, pot, highest, at, dealer>>

Next ==
    \/ StartRound
    \/ PassOver
    \/ Folds
    \/ Calls
    \/ Raises
    \/ Showdown
    \/ EndRound
    \/ Finish

Spec == Init /\ [][Next]_vars

\* run() never waits for anything but the human's answers, and takes them.
FairSpec == Spec /\ WF_vars(Next)

-----------------------------------------------------------------------------
(* Properties *)

\* No bank, bet or pot is ever negative, and the dealer is one of the players.
TypeOK ==
    /\ players \in Seq(Players)
    /\ minBet \in Nat \ {0}
    /\ pot \in Nat
    /\ highest \in Nat
    /\ at \in 1..(Len(players) + 1) \/ pc # "bet"
    /\ dealer \in Nat
    /\ pc \in {"round", "bet", "end", "over", "crashed"}
    /\ pc = "round" /\ players # <<>> => dealer < Len(players)

Bets == SumFunction([i \in Seats |-> players[i].bet])

Banks == SumFunction([i \in Seats |-> players[i].bank])

Chips == Banks + pot

\* While the betting goes on the pot is what the players, those included who
\* folded since, have put in.
PotHoldsTheBets == pc = "bet" => pot = Bets

\* betting_round asks everybody once.  Those still in have bet at least the
\* ante, and never less than one who was asked before them: a caller who comes
\* early never answers a later raise.
BetsRiseWithTheSeat ==
    pc = "bet" =>
        /\ \A i \in Contenders : players[i].bet >= minBet
        /\ \A i, j \in Contenders : i < j /\ j < at =>
              players[i].bet <= players[j].bet /\ players[j].bet <= highest

\* Chips never appear, and while a round is played they leave the game nowhere
\* but in the division of the pot: what is lost is less than a chip a winner.
RoundsConserveChips ==
    [][/\ Chips' <= Chips
       /\ pc # "round" /\ Chips' < Chips =>
             pc = "bet" /\ pc' = "end" /\ Chips - Chips' < Cardinality(Winners)]_vars

\* A sole winner gets back at least what the round cost them, and more when
\* somebody else has paid.
SoleWinnerGains ==
    [][\A w \in Seats : pc = "bet" /\ pc' = "end" /\ Winners = {w} =>
          /\ players'[w].bank >= players[w].bank + players[w].bet
          /\ (\E i \in Seats \ {w} : players[i].bet > 0) =>
                players'[w].bank > players[w].bank + players[w].bet]_vars

\* The showdown compares hands by the documented ranking: of every hand of the
\* deck the chain of tests in evaluate_hand finds the strongest pattern it shows.
RankedAsDocumented == pc = "bet" => RankingRule

\* Trying the joker as either of the other cards comes, for every hand it can be
\* in, to the card src/README.md:14 says it copies.
JokerCopiesBestCard == pc = "bet" => JokerRule

\* All hands of the deck lie on one scale, so that Winners is the same set in
\* whatever order showdown compares them.
HandsAreStrengths == pc = "bet" => OneScale

\* A pot is shared only by hands of the same points, card by card, and never by
\* two threes of a kind.
TiesShareRanks == pc = "bet" => TieRule

\* showdown tells the players of a round they have all folded that the bank is
\* carried over (src/src/game.cpp:131): the next pot starts with it.
FoldedBankIsCarriedOver ==
    [][pc = "round" /\ pc' = "bet" => pot' = pot + Bets']_vars

\* Between two rounds, or after the last, nobody can pay the ante.
NobodyCanAnte == pc \in {"round", "over", "crashed"} /\ \A i \in Seats : ~CanAnte(i)

\* game.h: "Runs the game loop until one player remains."  When nobody can play
\* on, that is, the loop has come to its end and one player is left.
OnePlayerRemains == NobodyCanAnte ~> pc = "over" /\ Len(players) = 1

=============================================================================
