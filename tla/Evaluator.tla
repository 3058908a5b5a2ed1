------------------------------ MODULE Evaluator ------------------------------
(***************************************************************************)
(* The cards and what a hand of three is worth: core/card.cpp,             *)
(* core/deck.cpp and core/evaluator.cpp, and the same files again under    *)
(* src/ (card.cpp, deck.cpp and rules.cpp differ in the namespace only).   *)
(* Pure functions: no state.                                               *)
(***************************************************************************)
EXTENDS Integers, Sequences, FiniteSets

Suits == <<"Spades", "Hearts", "Diamonds", "Clubs">>

\* Ten to Ace; the enumerators are the points.
Ranks == <<10, 11, 12, 13, 14>>

Card(rank, suit) == [rank |-> rank, suit |-> suit, joker |-> FALSE]

Joker == [rank |-> 0, suit |-> "None", joker |-> TRUE]

\* Suit by suit, the joker last.
Deck == [n \in 1..21 |-> IF n = 21 THEN Joker
                         ELSE Card(Ranks[((n - 1) % 5) + 1], Suits[((n - 1) \div 5) + 1])]

Value(card) == IF card.joker THEN 0 ELSE card.rank

-----------------------------------------------------------------------------
(* HandValue *)

\* enum class HandCategory
HighCard      == 0
Pair          == 1
Straight      == 2
Flush         == 3
StraightFlush == 4
ThreeOfAKind  == 5

\* Mutant of HandValue: the kickers left out.
HandValueBare(category, score, kickers) ==
    [category |-> category, score |-> score, kickers |-> <<>>]

HandValue(category, score, kickers) ==
    [category |-> category, score |-> score, kickers |-> kickers]

\* Mutant of LexLess: the first kicker decides alone.
FirstLess(a, b) == a # <<>> /\ b # <<>> /\ a[1] < b[1]

\* operator< of std::vector: the first difference decides, or the end of a prefix.
LexLess(a, b) ==
    \E n \in 1..Len(b) :
        /\ n <= Len(a) + 1
        /\ \A i \in 1..(n - 1) : a[i] = b[i]
        /\ n <= Len(a) => a[n] < b[n]

\* HandValue::operator<
Less(x, y) ==
    \/ x.category < y.category
    \/ /\ x.category = y.category
       /\ \/ x.score < y.score
          \/ x.score = y.score /\ LexLess(x.kickers, y.kickers)

-----------------------------------------------------------------------------
(* evaluate_hand *)

\* Mutant of IsFlush: a card of no suit goes with any.
IsFlushWithJoker(cards) ==
    \A i, j \in DOMAIN cards : "None" \in {cards[i].suit, cards[j].suit}
                                   \/ cards[i].suit = cards[j].suit

IsFlush(cards) ==
    \E suit \in {"Spades", "Hearts", "Diamonds", "Clubs"} :
        \A i \in DOMAIN cards : cards[i].suit = suit

IsStraight(v) == v[1] + 1 = v[2] /\ v[2] + 1 = v[3]

\* std::sort of three values.
Sorted(v) ==
    CHOOSE w \in {<<v[p[1]], v[p[2]], v[6 - p[1] - p[2]]>> :
                     p \in {q \in (1..3) \X (1..3) : q[1] # q[2]}} :
        w[1] <= w[2] /\ w[2] <= w[3]

WithoutJoker(cards) ==
    LET v == Sorted([i \in 1..3 |-> Value(cards[i])])
        down == <<v[3], v[2], v[1]>>
        kicker == IF v[1] = v[2] THEN v[3] ELSE v[1]
    IN  IF v[1] = v[3] THEN HandValue(ThreeOfAKind, 300 + v[3], <<v[3]>>)
        ELSE IF IsFlush(cards) /\ IsStraight(v) THEN HandValue(StraightFlush, 250 + v[3], <<v[3]>>)
        ELSE IF IsFlush(cards) THEN HandValue(Flush, 200 + v[1] + v[2] + v[3], down)
        ELSE IF IsStraight(v) THEN HandValue(Straight, 150 + v[3], <<v[3]>>)
        ELSE IF v[2] \in {v[1], v[3]}
             THEN HandValue(Pair, 100 + v[2] * 10 + kicker, <<v[2], kicker>>)
        ELSE HandValue(HighCard, v[3], down)

\* non_jokers, when one of the three is the joker.
NonJokers(cards) ==
    LET place == CHOOSE i \in 1..3 : cards[i].joker
    IN  [i \in 1..2 |-> cards[IF i < place THEN i ELSE i + 1]]

\* The joker as a copy of one of the others, in no suit.
Adjusted(others, i) == Append(others, Card(others[i].rank, "None"))

\* Mutant of MaxElement: the first candidate.
FirstCandidate(a, b) == a

\* std::max_element of the two candidates.
MaxElement(a, b) == IF Less(a, b) THEN b ELSE a

\* Three cards, one joker at most; evaluate_hand throws on anything else.
EvaluateHand(cards) ==
    LET others == NonJokers(cards)
    IN  IF \A i \in 1..3 : ~cards[i].joker
        THEN WithoutJoker(cards)
        ELSE MaxElement(WithoutJoker(Adjusted(others, 1)), WithoutJoker(Adjusted(others, 2)))

-----------------------------------------------------------------------------
(* What the rules say of every hand that can be dealt; CliGame, which is played *)
(* by them, states them as its properties.                                     *)

\* The hands of three cards, in every order.
Deals == {<<Deck[d[1]], Deck[d[2]], Deck[d[3]]>> :
             d \in {t \in (1..21) \X (1..21) \X (1..21) :
                                 t[1] # t[2] /\ t[1] # t[3] /\ t[2] # t[3]}}

CardsOf(cards) == {cards[i] : i \in DOMAIN cards}

Values == {EvaluateHand(cards) : cards \in Deals}

\* README.md:14: the joker copies the card with the most points, and has no suit.
Played(cards) ==
    LET best == CHOOSE p \in {c.rank : c \in CardsOf(cards)} :
                   \A c \in CardsOf(cards) : p >= c.rank
    IN  [i \in 1..3 |-> IF cards[i].joker THEN Card(best, "None") ELSE cards[i]]

\* README.md:15: the patterns, each by itself, in the order of their strength.
Shows(cards, category) ==
    LET points == {c.rank : c \in CardsOf(cards)}
        oneSuit == {c.suit : c \in CardsOf(cards)} \in {{Suits[n]} : n \in 1..4}
        run == \E low \in points : points = {low, low + 1, low + 2}
    IN  CASE category = HighCard      -> TRUE
          [] category = Pair          -> Cardinality(points) <= 2
          [] category = Straight      -> run
          [] category = Flush         -> oneSuit
          [] category = StraightFlush -> run /\ oneSuit
          [] category = ThreeOfAKind  -> Cardinality(points) = 1

\* The chain of tests finds the strongest pattern that the hand shows.
RankingRule ==
    \A cards \in Deals :
        LET category == EvaluateHand(cards).category
        IN  /\ Shows(Played(cards), category)
            /\ \A c \in (category + 1)..ThreeOfAKind : ~Shows(Played(cards), c)

\* Trying the joker as either card comes to what README.md:14 says.
JokerRule ==
    \A cards \in Deals : Joker \in CardsOf(cards) =>
        EvaluateHand(cards) = WithoutJoker(Played(cards))

\* operator< ranks the hands on one scale, so that the best of a table exists
\* and does not depend on the order of the comparisons, and a number may stand
\* for a hand as it does in the modules about tables and tournaments.
OneScale ==
    LET values == Values
        strength == [v \in values |-> Cardinality({w \in values : Less(w, v)})]
    IN  \A x, y \in values :
            /\ Less(x, y) <=> strength[x] < strength[y]
            /\ x = y <=> strength[x] = strength[y]

\* A pot is shared only by hands of the same points, card by card, and never by
\* three of a kind: two such hands would have a card in common.
TieRule ==
    LET points(cards) == Sorted([i \in 1..3 |-> Played(cards)[i].rank])
        worth == {[value |-> EvaluateHand(cards), points |-> points(cards)] : cards \in Deals}
        threes == {cards \in Deals : EvaluateHand(cards).category = ThreeOfAKind}
    IN  /\ \A a, b \in worth : a.value = b.value => a = b
        /\ \A a, b \in threes :
              EvaluateHand(a) = EvaluateHand(b) => CardsOf(a) \cap CardsOf(b) # {}

=============================================================================
