# Verification of SEKA Online

TLA+ specifications, TLC runs and TLAPS proofs for the Seka card game of this
repository: the WebSocket server (`server/`, on the domain logic of `core/`)
and the console game (`src/`, `include/seka/`). Source lines below are relative
to the repository; `README.md:n` is the repository's own README.

## 1. The system

| Component | State it keeps | Operations | Talks to |
|---|---|---|---|
| Sessions (`server/session.cpp`) | per connection: the stream, `session_id_` | `on_accept`, `on_read`, ten message types in `handle_message` | calls the two managers, answers its own client only |
| Server state (`server/server_state.cpp`, `server.cpp`, `main.cpp`) | one `RoomManager`, one `TournamentManager`, one RNG | accepts connections; one `io_context` on one thread | shared by all sessions by reference |
| Room manager (`server/room_manager.cpp`) | `rooms_`: type, state, code, seats, seed, hash, reveal, creation time | `quick_match`, `create_private`, `join_private`, `start_room`, `deal_cards`, `start_expired_rooms`, `mark_disconnected`, `reconnect_player` | table logic |
| Tournament manager (`server/tournament_manager.cpp`) | `tournaments_`: state, participants, tables, winner | `create_tournament`, `join_tournament`, `start_tournament`, `advance_round` | table logic |
| Table logic (`server/table_logic.cpp`) | none (works on a room) | `prepare_seed`, `deal_room`, `room_winner_id` | deck, shuffle, evaluator, sha256 |
| Cards (`core/evaluator.cpp`, `card.cpp`, `deck.cpp`) | none | `evaluate_hand`, the order of hand values | - |
| Shuffle (`core/shuffle.cpp`) | the deck, the loop, one random word | `shuffle_deck`, `random_index` | the generator it is given: the seed's for a table |
| SHA-256 (`core/sha256.cpp`) | `buffer_`, `bit_len_`, `state_` | `update`, `digest` | - |
| Console game (`src/game.cpp`) | players with banks, pot, dealer | `start_round`, `betting_round`, `showdown`, `remove_broke_players` in a loop | `src/rules.cpp` (the same evaluator), `src/ui.cpp` |
| Web client (`client/app.js`) | last session id, room and tournament it was sent | sends the messages, renders | the server |

What is hard here is not parallelism: `main.cpp` runs one thread, so handlers
are atomic. It is the order in which handlers of different connections come,
that nobody but the sender of a message is answered, that a player may sit
several times, in one room or in several, that the end of a connection is
noticed late, that the clock is only looked at when somebody writes, and the
boundaries: seven seats of three cards are the whole deck, a tie, a table of
one, an odd chip, an empty bank, a word above the limit of a fair draw, a
buffer that is just full. Replies are handed to `async_write` in a way that may
lose them, and nobody asks for them again. There is no persistence; an exception in a
handler ends the process (`HandlerThrows`). `PROJECT.json` lists every hazard
at its line with the properties that watch it.

What makes each component correct:

- *Room manager*: one waiting Random room at a time; commitment before the
  deal, one seed per room; disjoint hands of one deck; nobody enters a room that
  plays; nothing is taken back.
- *Tournament manager*: the tables of a round are together the field and share
  nobody; of distinct entries each table keeps one, the holder of its best hand
  where nobody plays under the empty id; a finished tournament has one
  participant left.
- *Table logic*: every active seat gets its own cards, the winner holds the
  first of the best hands the loop remembers (it forgets them at an empty id).
- *Sessions*: no room is left playing without cards; the hash goes out before
  the seed; the last close or reconnect noticed under an id decides the status
  of the first seat of that id.
- *Shuffle and commitment*: every card that is left is drawn by equally many
  words; a deck stays a deck; the revealed seed is the only one with its hash.
- *Evaluator*: the hands are ranked as README.md:14-15 says, on one scale.
- *Web client*: what it shows may be old, never false.
- *Console game*: a round loses chips nowhere but in the remainder of a shared
  pot; a bank never goes negative; the game ends. The last is not so, nor is the
  bank of a round everybody folded carried over: see the violations of section 3.

## 2. Modules

| Module | Models | State and actions against the code |
|---|---|---|
| `Tournament` | one tournament | `entries`/`alive` are `participants` (a round only drops elements and keeps the order); `tables` and `hands` are the tables of the last round; `Join`, `Start`, `AdvanceRound` |
| `Knockout` | abstract: a field that shrinks to one champion | implemented by `Tournament` (`KnocksOut`) |
| `Rooms` | a room, and what every method does to the list of rooms, as operators | shared by `RoomManager` and `Session`; no state |
| `RoomManager` | `RoomManager` and its methods in any order | `rooms` is `rooms_`; one action per method, `Tick` for the clock |
| `FairDeal` | abstract: sit down, commit to a seed, open it | implemented by every room (`RoomDealsFairly`, for the room `Watched`); between the handlers of `Session` commitment and opening are one step (`AtOnceSpec`, `RoomsDealAtOnce`) |
| `TableLogic` | the loops of `deal_room` and `room_winner_id`, seat by seat | `at` is the loop variable, `index`, `best`, `winner` the locals |
| `Evaluator` | cards, `evaluate_hand`, the order of `HandValue` (the same code twice, `core/evaluator.cpp` and `src/rules.cpp`) | pure operators: `WithoutJoker` is `evaluate_without_joker`, `Less` is `operator<` |
| `Shuffle` | `shuffle_deck` with `random_index` inside | `deck`, the loop variable `i`, the word of `random_index`; `Fill` and `Swap` are the two loop bodies |
| `Urn` | abstract: cards drawn one by one without putting one back | implemented by `Shuffle` (`DrawsFromUrn`) |
| `Sha256` | the counters of `update`, the padding and the length of `digest`, `hex_from_bytes` | pure operators; the chunks handed to `transform` stand for the hash |
| `Dealing` | one table as `advance_round` plays it: `prepare_seed`, `deal_room`, `room_winner_id` | composes `Shuffle`, `TableLogic` and `Sha256`; `seed`, `seedHash`, `revealed` of the room |
| `Session` | the sessions over the shared managers | one action per message type and per connection event; `sent` holds the replies of the last handler; every tournament is an instance of `Tournament` |
| `WebClient` | web clients on `Session` | `view` is `roomState`, `wire` the replies on the way; `Click` is a button with the handler it triggers, `Receive` the message listener |
| `CliGame` | the console game, its hands evaluated by `Evaluator` | `Raises`, `Calls`, `Folds`, `PassOver` are the turns of `betting_round`; `EndRound` is the rest of the loop of `run` |
| `MC...` | the instances TLC checks | values of the constants are in the `.cfg` files |
| `CommonLemmas`, `TournamentProofs`, `RoomsProofs`, `RoomManagerProofs`, `DealingProofs`, `SessionProofs`, `EvaluatorProofs`, `CliGameProofs` | the theorems | section 5 |

`Session` EXTENDS `Rooms` and INSTANCEs `Tournament` once for each element of
`tournaments` and `FairDeal` once for each room. `RoomManager` EXTENDS `Rooms` as well: it is the room manager
under any caller whatever, while `Session` calls it the way `handle_message`
does. `Rooms` takes the result of a deal in one stroke, and `Tournament` scans a
table for its winner by a recursive function; `TableLogic` walks the loops seat by
seat, and `Dealing` puts them behind the shuffle and the seed. `WebClient` EXTENDS
`Session`, so that every handler runs unchanged below the clients, and `CliGame`
EXTENDS `Evaluator`.

Abstractions, in every module:

- A session id, a seed, a code is a model value. Ids of rooms and tournaments
  (eight random bytes) are positions in the list, hence unique; the codes of
  private rooms (six letters) may collide, since nothing prevents it and
  `join_private` takes the first match.
- A hand is the seed it was dealt by and its place in the shuffled deck
  (`Rooms`), or its strength (`Tournament`, `TableLogic`), a number that
  `HandValue::operator>` compares; `HandsAreStrengths` shows that the values of
  all hands can be numbered so. In `Dealing` the strength is any function of the
  cards (`Score`), in `CliGame` a hand is three cards. Which words a seed
  generates is arbitrary.
- In `Rooms` and `Session` `sha256_hex` is a free constructor: two seeds do not
  share a hash. `Sha256` opens it as far as the chunks given to `transform`.
- A reply of one handler may be lost or arrive unreadable, because `send_json`
  lends a local string to `async_write` and starts a write while another is
  pending; those that arrive keep their order. Without replies lost, `Session`
  looks at what is handed over.
- `age` counts ticks of the clock and stops at `Deadline`, the 20 seconds after
  which the code does not tell ages apart.
- Names, JSON layout and wording are left out. `Reply` keeps the type of a
  message and what the properties look at. A payload that is no object changes
  nothing and is no action.
- A connection (`Conns`) is named by the id it drew when it was accepted.
  `reconnect` adopts whatever string it is sent: any element of `PlayerIds`, be
  it the id of another connection, open or not, of none, or the empty string,
  which is the `NoPlayer` of `winner_id`.
- Operators whose comment begins with *Mutant of* are variants with a plausible
  mistake. No specification uses them: each shows that one of the properties
  can fail, when it takes the place of the definition below it.

## 3. Runs

Every run but the violations finishes without an error. `CHECK_DEADLOCK FALSE`
stands where the system may stop: a finished tournament or game, a server whose
process ended.

| Run | Bounds | What it shows |
|---|---|---|
| `tournament` | 3 players and the empty id, up to 5 entries, tables of 3, two strengths; `FairSpec` | a round seats the whole field (a full table, a short one, a table of one all occur), ties, duplicate entries, the empty id before and after better hands, winner, refinement of `Knockout`; rounds of distinct entries shrink the field, and such a tournament ends |
| `rooms` | 2 players, 2 seeds, 2 codes, 2 rooms of 3 seats, deck of exactly 9 cards; symmetric in players, seeds and codes | the seven properties of `RoomManager`; 2 players fill 3 seats because a player may sit twice, so that the full room, the overdue room and the late joiner occur |
| `session` | 2 connections and the empty id, every message; 2 rooms of 3 seats with 4 of them taken (`MaxSeats`), one seed, one code, or 2 tournaments of up to 3 entries (`RoomsOrTournaments`) | all interleavings of the messages, closes, reconnects and the clock; a late close after a return, two connections under one id; messages on different tournaments do not disturb each other; creator joins first |
| `client` | 2 clients, one seed, 2 rooms, one tournament, at most one frame waiting when a handler runs (`MaxWire`) | clicks, lost and late replies, the end of connections and of the server |
| `table_logic` | 2 ids and the empty one on up to 4 seats, any of them eliminated, two strengths so that hands tie, deck of exactly 4 cards, words of 3 bits, blocks of 4 bytes with a length of 1; `FairDealingSpec` | a whole table for every word the generator may give; for the ranges 2, 3 and 4 of this deck some words are rejected; seeds that contain the bytes of the padding; messages around one and two blocks |
| `cli_game` | 2 or 3 players, banks of 2 to 4 chips, every minimum bet up to the bank, five hands of every kind the bots tell apart; the evaluator over all 7980 ordered hands | whole games: ante that some cannot pay, raise that nobody can pay, ties with odd chips, elimination of the human; the ranking of hands |

The seat, deck and table bounds keep the ratio that matters in the code (the
deck just serves a full room) and shrink the number: `Capacity` 3 for 7,
`TableSize` 3 for 7, `MaxParticipants` 5 for 300. The banks of `cli_game` are
below the 20 chips the menu asks for; banks and bets only matter by comparison
and in the remainder of the pot, and games with 20 chips pass through tables
with so few. Words of 3 bits (`MaxWord` 7) stand for 32: what matters is that the
number of words below the limit is a multiple of the range, and that some are
above it. A block of 4 bytes stands for one of 64; `digest_standard` takes the
real sizes. `RoomsOrTournaments` is a CONSTRAINT: behaviours that have both rooms
and tournaments are cut, since a message about one never touches the other but
for the prologue, which runs alike for all; for tournaments nobody has
reconnected, as they never look at who sends beyond the id (the ids themselves,
the empty one included, are the business of `tournament`). `Followed` adds that
the process runs, since no handler follows its end, and `MaxSeats`. A step into a
state that is cut is still checked. The `VIEW` of `session` and `client` leaves
out `sent` and `committed`, which no action reads: `CommitmentComesFirst` speaks
of the replies of the step, not of the state, and is looked at for every step.
`MaxRooms`, `MaxTournaments` bound what would grow without end.

Symmetry is used where the properties are invariants or `[][A]_v` formulas that
do not name an element of a symmetric set; `tournament` has a liveness property
and uses none.

Fairness: `Tournament!FairSpec` has weak fairness on `AdvanceRound` only: the
server plays a round when a client asks, so a tournament ends only if somebody
keeps asking, and nobody has to join. `CliGame!FairSpec` has weak fairness on
`Next`: the loop runs by itself and the human answers its prompts.
`Dealing!FairDealingSpec` has weak fairness on `DealingNext`, because a handler
runs to its end, and strong fairness on drawing a word that is accepted: each
word is accepted with a probability of a half at least, so that the loop of
`random_index` does not run for ever (`TableIsPlayed`). Sessions and clients have
no liveness property: nothing makes a user write.

Runs that expect a violation, one documented promise each:

| Run | Promise | What the code does |
|---|---|---|
| `tournament_rejoin` | README.md:78, "раунды до победителя" | `join_tournament` accepts the same player twice; both of his seats carry the winner's id and advance, so a tournament with only him left never ends |
| `session_commitment` | README.md:73, `seedHash` before the deal | only the sender of the message that starts the room is answered; the player who waited never gets the commitment, and learns the hash together with the seed |
| `quick_match` | README.md:76, "ожидание 2..7 игроков → старт автоматически (или через 20 секунд при 2+)" | a second `quick_match` of the same connection takes the second seat of the room it waits in; and two seats start the room, at once: nobody waits for a third, nor for 20 seconds |
| `cli_end` | game.h:32, "until one player remains" | everybody all-in, everybody folds, nobody remains: `% players_.size()` with size 0. `OnePlayerRemains` fails as well at every table of players who have less than the ante and fold for ever (game.cpp:51); TLC prints one trace, of the emptied table |
| `cli_carry` | game.cpp:131, "Все пасовали. Банк переносится." | `start_round` sets `pot_` to 0 (game.cpp:42) before it takes the antes: the bank of the round everybody folded is lost |
| `digest_standard` | README.md:6, "sha256" | `digest` adds `buffer_len_` to `bit_len_` after `update` has run on the padding: a 32-byte seed is hashed with the length 448 instead of 256, and a client that checks `seedReveal` against `seedHash` with any other SHA-256 finds them different |

Also worth knowing: because the quick-match handler starts a room at two seats
(session.cpp:100), `start_expired_rooms` never finds a room to start and the deals
of session.cpp:67 and :111 are never owed (`PrologueDoesNothing` in
`SessionProofs`; `RoomManager`, under any caller, has them all the same). The web
client shows what follows: of the two players of a quick match one never sees his
cards (`StaleViewsStay`), since the client asks for nothing again and offers no
reconnect. It has no button for `start_tournament` either, so that the scenario
of README.md:78 cannot be played with it. A player who reconnects with the empty
id (session.cpp:83) makes `winner.empty()` (table_logic.cpp:71) true again after
his seat, so that whoever sits next takes the lead with any hand; if he wins the
tournament, its `winner_id` is empty and the client shows "-" (app.js:62). No
document speaks of such ids, hence no violation: `WinnerHasBestRememberedHand`
and `SurvivorsHeldBestRememberedHand` say exactly what comes of it. Nor is there
a promise about whose close or reconnect counts: anybody may come back under
anybody's id, and a close that is noticed late overrides the return of the same
player (`StatusFollowsConnection` holds all the same: the last event decides).

## 4. Properties

*Tournament*: `WinnerIsLastOneStanding`, `OneSurvivorPerTable` (when no entry
is repeated), `SurvivorsHeldBestRememberedHand`, `KnocksOut`, `TablesPartition`,
`RoundsShrinkTheField`, `DistinctPlayersFinish`; `RoundsUntilWinner` (violated).

*RoomManager*: `OneOpenRandomRoom`, `CommitmentBinds`, `HandsComeFromOneDeck`,
`OnlyFirstSeatsDisconnect`, `RoomsOnlyProgress` (what no call may do to a
room), `RoomDealsFairly`.

*Session*: `PlayingIsDealt`, `CommitmentComesFirst`, `StatusFollowsConnection`,
`TournamentsFollowTheirRules`; `PlayersSawTheCommitment`, `QuickMatchAsDescribed`
(violated); `RoomsDealAtOnce` is proved only, since TLC does not take a refinement
for every room at once.

*TableLogic*, *Shuffle*, *Dealing*: `WinnerHasBestRememberedHand`, `FairDraw`,
`DrawsFromUrn`, `CardsAreApart` (no card in two hands of a table),
`RevealOpensCommitment`, `TableIsPlayed`; `HandsAreApart` is proved only.

*Sha256*: `FramesDiffer` (whole chunks, and no two messages framed alike although
the length is not the standard's), `HashIsSha256` (violated).

*WebClient*: `ViewsAreTrue`, `StaleViewsStay`.

*Evaluator*, each over every hand of the deck and stated by `CliGame`, whose
rounds are played by it: `RankedAsDocumented`, `JokerCopiesBestCard`,
`HandsAreStrengths`, `TiesShareRanks`.

*CliGame*: `PotHoldsTheBets`, `BetsRiseWithTheSeat`, `RoundsConserveChips`,
`SoleWinnerGains`; `OnePlayerRemains`, `FoldedBankIsCarriedOver` (violated).

The state machines have one `TypeOK` each, which also carries the capacity
limit.

## 5. Proofs

The theorems hold for every value of the constants that satisfies the named
assumptions of the module: `Capacity >= 2` seats which the deck serves
(`Capacity * HandSize <= DeckSize`), tables of at least two, markers such as
`NoSeed` outside the sets they mark.

- `TournamentProofs`. The inductive invariant is `IInv == TypeOK /\ Registration
  /\ EntriesOfSurvivors /\ WinnerIsLastOneStanding`. `Registration` says that
  while players register everybody who joined is in and there are neither tables
  nor a winner, which the first round starts from; `EntriesOfSurvivors` says that
  survivors are positions of `entries`, so that `entries[winner_id]` is one. A
  running tournament keeps two participants or more because a round takes one
  from every table and `Crowned` ends it at one. `TableWinnerIsBest` is an
  induction on the scan of a table (`LoopTurns`, `TurnKeepsLead`): somebody leads
  after its first seat, and nobody the scan remembers beats the leader, whatever
  the ids are. What the last round left of its tables is proved on
  top of `IInv` by `RoundIsFair` and `RoundSeatsEverybody`. The latter counts:
  the index at which the loop meets a player is a bijection of the field and
  `0..n-1` (`SeatIndexCounts`), its remainder by `TableSize` tells the players of
  a table apart and its quotient the tables (`TablesAreFilled`). Of distinct
  entries the tables and those who go on are in a bijection
  (`OneForEachTable`), so that a round of `n` leaves `n / TableSize`, rounded up,
  which is less than `n` (`FewerThanBefore`): `RoundsShrinkTheField`, the measure
  by which `DistinctPlayersFinish` terminates, and as much of it as can be proved
  here.
  Theorems: `TypeCorrectness`, `WinnerTheorem`, `OneGoesOn`, `TheBestGoOn`,
  `EverybodyIsSeated`, `RoundsShrink`, `ImplementsKnockout`.
- `RoomsProofs`. What each operator of `Rooms` does to a single room: it keeps
  the room invariant and is one of the steps a room may take (`RoomStep`); and
  what `FairDeal` sees of it (`View`).
- `RoomManagerProofs`. Every action changes each room by a room step or leaves it
  alone; from the room invariant follow `TypeCorrectness`, `Commitments`,
  `DisjointHands`, `MarksFirstSeats`; `Progress` and `ImplementsFairDeal` follow
  from the step; `Matchmaking` needs in addition that a waiting Random room has
  a free seat, which is why `quick_match` starts a full one at once.
- `DealingProofs`. First `TableLogic` by itself, with two loop invariants:
  `DealtSoFar` (which seats have cards, and `index <= HandSize * (at - 1)`, so
  that the deck suffices) and `BestSoFar` (winner and best summarise the active
  seats before `at` that are not forgotten). A step of `Dealing` is one of `Shuffle`, one of
  `TableLogic` or neither, so that their invariants carry over: `ShuffleInv`
  (the deck holds each card once) and the loop invariants. `FairDraw` rests on
  `ModIs`: below the limit every remainder is taken equally often, by a
  bijection of the words that draw one card and another. Theorems: `DealsApart`,
  `JudgesCorrectly`, `DeckStaysDeck`, `ShuffleDraws` (every step is a `Draw` of
  `Urn` or a stutter), `ShuffleIsFair`, `HandsShareNoCard`, `BestHandWins`.
  The last section opens the hash as far as its framing, for seeds of bytes
  (`SeedsAssumption`) and blocks of any size. `UpdateIsStepwise` turns the fold
  of `update` into one step per byte; `Framed(stream, n)` says what the buffer,
  the chunks and the counter are after `n` bytes, and `AbsorbFrames` that a byte
  keeps it so. Therefore the chunks of a digest are the message, the padding and
  the length, cut in blocks (`FramedMessage`), and the message can be read back
  from them (`DigestTells`): two messages with as many chunks and the same bytes
  in them differ in length by nothing, since where the shorter one has zeros the
  longer one has the 128 that starts its padding. Theorems:
  `RevealedSeedIsCommitted`, and `FramesStayApart`, which says three things: the
  property `FramesDiffer`, of the short messages TLC enumerates; that the digest
  of byte sequences of any length is injective; and that a message may be handed
  to `update` in two pieces.
  `Rooms` and `Tournament` write the outcome of these loops in one line:
  `DealtAndJudgedAsSaid` shows that at a table of which nobody is out the loops
  give seat `s` the cards from `DealIndex(s)` on and crown the `TableWinner`, so
  that the short form the other modules use is not an assumption.
  All are about `DealingSpec`, without fairness.
- `SessionProofs`. The invariant of `RoomsProofs` for every room, and: no waiting
  Random room has more than one seat, every room that plays is dealt. From it follows `PrologueDoesNothing`:
  `start_expired_rooms` and the deal that `handle_message` owes never find
  anything to do, which is what makes the replies of the handlers so short that
  `CommitmentComesFirst` can be read off them. `MessagesKeep` and
  `QuickMatchKeeps` say that no message but `reconnect` changes the status of a
  seat, `MarkedSeat` which seat that one and a close change, and `ReturnShows`
  that a return does. A message on a
  tournament is a step of `Tournament` for it and leaves the others as they are
  (`StepIsOwn`). `TypeOK` needs two invariants more: `Bounded` (the limits of the
  instance, and commitments to rooms that exist) and `TournamentsSound` (a
  tournament has its shape, its survivors are entries, and while it registers all
  of its entries are). Theorems: `RoomsAreGood`, `CommitmentIsFirst`,
  `PlayingRoomsAreDealt`, `LastEventDecides`, `TournamentsStepAlone`, `SharedStateIsSound`,
  `SharedStateIsTyped`.
  `SteppedRooms` says that what a step does to a room is one call of
  `RoomManager`, or two where a deal follows (`RoomSteps`), and that at most one
  room is new, a Random one only if there was none to join. From it follow the
  promises of `RoomManager` for a server that calls several of its methods in a
  handler, and the refinement of `FairDeal`: since no handler leaves a room that
  plays without its cards, a start alone is never seen, and start and deal
  together are `CommitAndOpen`. Theorems: `MatchmakingOfSessions`,
  `SessionsOnlyProgress`, `RoomsOfSessionsAreFair`, `SessionsDealAtOnce`.
  The web clients are proved about in the same module. A click is a handler of
  `Session` (`ClientsAreSessions`), so that all of the above holds of a server
  with such clients. The invariant is `ClientInv`: every frame on the way and
  every view is true of the rooms (`TrueOf`). It is inductive by two facts about
  handlers, `ServedHonestly`: what is answered is true when it is answered, and
  rooms only grow (`GrownRooms`: a seat stays its player's, a hash and a seed
  that are out are final), so that what is true stays true however late it comes
  (`TruthStays`) and whichever frames are lost (`ArrivingWasSent`). The first
  fact also says that a reply opens only rooms that were closed before, which is
  why nobody can make the server show an open room again. Theorems:
  `ViewsStayTrue`, `StaleViewsAreStuck`.
- `EvaluatorProofs`. `LexLess`, the comparison of the vectors of a `HandValue`,
  is a strict order (`LexLessPassesOn`, `LexLessDecides`). `EveryHand` says what
  `EvaluateHand` makes of the hands of the deck, by the ranks it plays as: a hand
  without the joker by itself, one with it as the copy of the higher of the other
  two cards (`HigherCopyWins`). Theorems, over all hands and not over samples:
  `JokerCopiesBest`, `RankedByPattern`, `OneScaleForHands` (a number for every
  value, counting the values below it) and `TiesAreAlike`.
- `CliGameProofs`. `StillIn`: while bets are made, those still in hold cards and
  have bet between the ante and the highest bet; a debt is then never negative.
  `SomebodyWins` finds a best hand among the contenders by the scale of
  `EvaluatorProofs`, for any `Hands` of the deck (`HandsAssumption`); so the pot
  is never divided by zero. The pot and the banks are sums over the seats.
  `PotIsTheBets` follows what each action does to the two sums (`AntesArePaid`,
  `BetsArePaid`, `PotIsShared`, `BrokePlayersLeave`): a payment moves chips from
  one to the other, winners who take `pot / n` each leave `pot % n` behind, and
  `remove_broke_players` drops banks of 0 and keeps the order of the others.
  `ChipsOnlyLeave` and `SoleWinnersGain` follow from the same lemmas.
  Theorems: `GameIsTypeCorrect`, `BetsRise`, `PotIsTheBets`, `ChipsOnlyLeave`,
  `SoleWinnersGain`, and the four of the evaluator as invariants of a game.
- `CommonLemmas`. Least elements of sets of naturals, the first of the best,
  functions on `1..n` as sequences, monotonicity of multiplication, division with
  remainder and rounded up, and sums of the values of a function over a finite
  set: what adding, changing, renaming an element does to one. The library's
  induction theorems take an operator, which the provers cannot instantiate, and
  the sum is a fold, defined by a recursive function that is chosen. Both are got
  round by sets: `NatLadder` and `SetLadder` state induction with a set of good
  numbers or of good subsets in the place of the operator, and `SomeTable` shows
  that a table of all the subsets with their sums exists, which the chosen
  function then is.

Assumptions beyond the markers: `ConnsAssumption` (the ids of connections are
among those a message may name; of the others, the empty one included, nothing is
assumed), `CreatorAssumption` (`MaxParticipants >= 1`,
since `create_tournament` joins its creator without a look at the limit, which
is 300 in the code), `OneDeckAssumption` (`Dealing` shuffles the deck it deals
from), and `HashAssumption` of `Rooms`, that two seeds do not share a hash. Every
run evaluates those of its modules.

Only model-checked: liveness (`DistinctPlayersFinish`, `TableIsPlayed`), which is
out of the prover's reach. Every other property of a run that passes is the
conclusion of a theorem. The violations have no theorem: they are refuted.

## 6. Not modelled

- `Sha256::transform` (sha256.cpp:67-116): 32-bit arithmetic on 16 words in 64
  rounds is out of TLC's reach, and that it is collision free is an assumption
  of any use of it.
- What the operating system draws (`core/secure_rng.cpp`) and what
  `std::seed_seq` and `mt19937_64` make of a seed: any words. A source that fails
  throws, which is in `HandlerThrows`. `std::shuffle` of the console game is any
  choice of distinct cards.
- JSON and its layout (`server/protocol.cpp` beyond what the properties look at),
  the accept loop of `server/server.cpp`, `Card::to_string`.
- Rendering, the tournament a client shows, its demo.
- The console's prompts (`src/ui.cpp`): the human's answers are arbitrary. A prompt
  whose input has ended asks for ever (ui.cpp:29, 43).
- Restarts: nothing is stored, a new process starts from `Init`.

## 7. Plan

Done: every component of section 1, with proofs about all state machines. What
would come next:

1. The tournament a client shows, with the same transport as the room.
2. `Dealing` as the inside of `Dealt`: a refinement of one step of `Rooms` by the
   shuffle and the loops, of which `DealtAndJudgedAsSaid` is the outcome.
