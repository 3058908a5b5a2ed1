------------------------------- MODULE Shuffle -------------------------------
(***************************************************************************)
(* shuffle_deck and random_index of core/shuffle.cpp.  A card is named by  *)
(* its place in the new deck.  Which words the generator fills in is       *)
(* arbitrary: SeededRng's are a function of the seed, SecureRng's are the  *)
(* operating system's.                                                     *)
(***************************************************************************)
EXTENDS Integers, Sequences, FiniteSets

CONSTANTS
    Size,    \* cards in the deck: 21
    MaxWord  \* the largest word: 2^32 - 1

ASSUME SizeAssumption == Size \in Nat
ASSUME MaxWordAssumption == MaxWord \in Nat /\ Size <= MaxWord

VARIABLES
    deck,  \* the deck, from place 0
    i,     \* the place that is drawn for
    word   \* `value` of random_index, NoWord before the first one

shuffleVars == <<deck, i, word>>

Cards == 0..(Size - 1)

Words == 0..MaxWord

NoWord == -1

ShuffleInit ==
    /\ deck = [place \in Cards |-> place]
    /\ i = Size - 1
    /\ word = NoWord

\* random_index(k) chooses among 0..k.
Outcomes(k) == k + 1

\* Mutant of Limit: every word will do.
NoLimit(k) == MaxWord + 1

\* Words from the limit on are rejected.
Limit(k) == MaxWord - (MaxWord % Outcomes(k))

Accepted(k) == {w \in Words : w < Limit(k)}

Index(k, w) == w % Outcomes(k)

\* Mutant of Fill: the generator is asked before the loop only.
FillOnce ==
    /\ i > 0
    /\ word = NoWord
    /\ word' \in Words
    /\ UNCHANGED <<deck, i>>

\* The body of the loop of random_index.
Fill ==
    /\ i > 0
    /\ word = NoWord \/ word >= Limit(i)
    /\ word' \in Words
    /\ UNCHANGED <<deck, i>>

\* Mutant of Swapped: the card that is drawn stays in the urn as well.
Copied(j) == [deck EXCEPT ![i] = deck[j]]

Swapped(j) == [deck EXCEPT ![i] = deck[j], ![j] = deck[i]]

Swap ==
    /\ i > 0
    /\ word \in Accepted(i)
    /\ deck' = Swapped(Index(i, word))
    /\ i' = i - 1
    /\ word' = NoWord

ShuffleNext == Fill \/ Swap

ShuffleSpec == ShuffleInit /\ [][ShuffleNext]_shuffleVars

-----------------------------------------------------------------------------
(* Properties *)

\* The loop variable and the word stay in range, the places hold cards.
ShuffleTypeOK ==
    /\ deck \in [Cards -> Cards]
    /\ i \in -1..(Size - 1)
    /\ Size > 0 => i >= 0
    /\ word \in Words \cup {NoWord}

Urn == {deck[place] : place \in 0..i}

Row == [n \in 1..(Size - 1 - i) |-> deck[i + n]]

Draws == INSTANCE Urn WITH urn <- Urn, row <- Row

\* README.md:72 claims Fisher-Yates: each step draws a card from those that are
\* left and none is lost or doubled on the way.
DrawsFromUrn == Draws!Spec

WordsFor(card) == {w \in Accepted(i) : deck[Index(i, w)] = card}

\* The rejection makes it fair: equally many words draw each card that is left,
\* at least one.
FairDraw ==
    i > 0 => \A c, d \in Urn :
        WordsFor(c) # {} /\ Cardinality(WordsFor(c)) = Cardinality(WordsFor(d))

=============================================================================
