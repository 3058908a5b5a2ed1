------------------------------ MODULE MCDealing ------------------------------
(* Model checking of Dealing. *)
EXTENDS Dealing

\* Two seeds with bytes of the padding in them, one of them the other padded.
ShortSeeds == {<<128>>, <<128, 128>>}

\* 32 bytes, as prepare_seed draws them.
RealSeeds == {[k \in 1..32 |-> 65]}

\* Hands tie: the cards go in pairs of the same strength.
HalfOfBest ==
    [cards \in SUBSET (0..(DeckSize - 1)) |->
        IF cards = {} THEN 0 ELSE (CHOOSE c \in cards : \A d \in cards : c >= d) \div 2]

=============================================================================
