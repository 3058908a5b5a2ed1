------------------------------- MODULE Dealing -------------------------------
(***************************************************************************)
(* A table from its seed to its winner, server/table_logic.cpp as a whole: *)
(* prepare_seed draws and hashes a seed, deal_room shuffles the deck by it *)
(* (Shuffle), deals (TableLogic) and reveals the seed, room_winner_id      *)
(* judges.  advance_round does the three for every table of a tournament.  *)
(***************************************************************************)
EXTENDS TableLogic, Shuffle, Sha256

CONSTANTS
    Seeds,  \* what random_bytes may draw
    Score   \* the strength of a set of HandSize cards

ASSUME OneDeckAssumption == Size = DeckSize
ASSUME SeedsAssumption == Seeds \subseteq Seq(0..255)
ASSUME ScoreAssumption == Score \in [SUBSET (0..(DeckSize - 1)) -> Strengths]

VARIABLES
    seed,      \* seed_bytes, empty before prepare_seed
    seedHash,  \* seed_hash
    revealed   \* revealed_seed

seedVars == <<seed, seedHash, revealed>>

DealingInit ==
    /\ Init
    /\ ShuffleInit
    /\ seed = <<>> /\ seedHash = <<>> /\ revealed = <<>>

\* Mutant of PrepareSeed: the hash is of another draw.
PrepareSeedTwice ==
    /\ seed = <<>>
    /\ seed' \in Seeds
    /\ \E other \in Seeds : seedHash' = Digest(other)
    /\ revealed' = <<>>
    /\ UNCHANGED <<vars, shuffleVars>>

PrepareSeed ==
    /\ seed = <<>>
    /\ seed' \in Seeds
    /\ seedHash' = Digest(seed')
    /\ revealed' = <<>>
    /\ UNCHANGED <<vars, shuffleVars>>

ShuffleStep ==
    /\ seed # <<>>
    /\ ShuffleNext
    /\ UNCHANGED <<vars, seedVars>>

Shuffled == seed # <<>> /\ i <= 0

SkipSeat ==
    /\ Shuffled
    /\ \E loop \in {"deal", "judge"} : Skip(loop)
    /\ UNCHANGED <<seedVars, shuffleVars>>

HandFrom(from) == {deck[place] : place \in from..(from + HandSize - 1)}

DealCards ==
    /\ Shuffled
    /\ DealSeat
    /\ hands'[at].strength = Score[HandFrom(index)]
    /\ UNCHANGED <<seedVars, shuffleVars>>

\* The end of deal_room.
RevealSeed ==
    /\ Shuffled
    /\ BeginJudging
    /\ revealed' = Hex(seed)
    /\ UNCHANGED <<seed, seedHash, shuffleVars>>

Judge ==
    /\ JudgeSeat \/ Return
    /\ UNCHANGED <<seedVars, shuffleVars>>

DealingNext ==
    \/ PrepareSeed
    \/ ShuffleStep
    \/ SkipSeat
    \/ DealCards
    \/ RevealSeed
    \/ Judge

dealingVars == <<vars, seedVars, shuffleVars>>

DealingSpec == DealingInit /\ [][DealingNext]_dealingVars

\* A handler runs to its end; no generator fills in words to
\* be rejected for ever.
FairDealingSpec ==
    /\ DealingSpec
    /\ WF_dealingVars(DealingNext)
    /\ SF_dealingVars(ShuffleStep /\ word' \in Accepted(i) /\ i' = i)

-----------------------------------------------------------------------------
(* Properties *)

\* No card is in two hands: the deck is still a deck after the shuffle, and no
\* place of it is dealt twice.
CardsAreApart ==
    \A s, t \in SeatNumbers : s # t /\ hands[s].dealt /\ hands[t].dealt =>
        HandFrom(hands[s].from) \cap HandFrom(hands[t].from) = {}

\* Who has seen the hash before the deal knows afterwards that the seed was fixed
\* by then: the digits revealed are those of the only seed with this hash.
RevealOpensCommitment ==
    revealed # <<>> =>
        /\ \E s \in Seeds : Hex(s) = revealed /\ Digest(s) = seedHash
        /\ \A s \in Seeds : Digest(s) = seedHash => Hex(s) = revealed

\* What seed_hash commits to: the messages of zeros and padding bytes of up to two
\* chunks and a byte are framed in whole chunks, and no two of them alike.
FramesDiffer == seedHash # <<>> => MessagesAreFramedApart

\* Every table gets its winner: neither the shuffle nor a loop goes on for ever.
TableIsPlayed == <>(pc = "done")

\* README.md:6 calls it sha256: seed_hash is the hash that any other
\* implementation computes of the revealed seed.
HashIsSha256 == seedHash # <<>> => seedHash = Standard(seed)

=============================================================================
