------------------------------ MODULE Tournament ------------------------------
(***************************************************************************)
(* One tournament of server/tournament_manager.cpp: registration, the      *)
(* start, and the rounds that seat the remaining participants at tables,   *)
(* deal every table and keep the winner of each.                           *)
(*                                                                         *)
(* The vector `participants` is the registration list `entries` together   *)
(* with the set `alive` of its positions that are still in: a round only   *)
(* drops elements and keeps the order of the others, so the vector is      *)
(* always `entries` restricted to `alive`.  One player id may hold several *)
(* entries, because join_tournament does not look for it.                  *)
(* A hand is its strength only: a number, the larger the better, the way   *)
(* HandValue::operator> compares; two players may hold equally good hands. *)
(* The empty string is a session id like any other: a client that sends    *)
(* reconnect with it plays under it (session.cpp:83), and room_winner_id   *)
(* takes a winner with that id for none at all.                            *)
(***************************************************************************)
EXTENDS Naturals, Sequences, FiniteSets

CONSTANTS
    PlayerIds,        \* session ids that may join; NoPlayer may be one of them
    NoPlayer,         \* the empty string: a winner_id not set yet
    TableSize,        \* seats at a table: 7
    MaxParticipants,  \* registrations a tournament takes: 300
    MaxStrength       \* bound on the strength of a hand

ASSUME TableSizeAssumption == TableSize \in Nat /\ TableSize >= 2
ASSUME MaxParticipantsAssumption == MaxParticipants \in Nat
ASSUME MaxStrengthAssumption == MaxStrength \in Nat

VARIABLE tournament

Strengths == 0..MaxStrength

TournamentStates == {"Registering", "Running", "Finished"}

NewTournament ==
    [state   |-> "Registering",
     entries |-> <<>>,
     alive   |-> {},
     tables  |-> {},
     hands   |-> [i \in {} |-> 0],
     winner  |-> NoPlayer]

-----------------------------------------------------------------------------
(* Registration *)

\* Mutants of CanJoin: one player too many, and without the look at the state.
CanJoinOneTooMany(t) == t.state = "Registering" /\ Cardinality(t.alive) <= MaxParticipants

CanJoinAnyTime(t) == Cardinality(t.alive) < MaxParticipants

CanJoin(t) ==
    /\ t.state = "Registering"
    /\ Cardinality(t.alive) < MaxParticipants

Joined(t, p) ==
    [t EXCEPT !.entries = Append(@, p),
              !.alive   = @ \cup {Len(t.entries) + 1}]

-----------------------------------------------------------------------------
(* One round.  Nothing in the server ever sets a status to Eliminated and  *)
(* mark_disconnected looks at rooms only, so the filter that builds        *)
(* `remaining` copies every participant.                                   *)

Remaining(t) == t.alive

\* The index at which the loop over `remaining` meets entry i, from 0.
SeatIndex(seated, i) == Cardinality({j \in seated : j < i})

TableOf(seated, i) == SeatIndex(seated, i) \div TableSize

\* Mutant of Seating: leaves out who does not fill a last table.
SeatingFullTables(seated) ==
    {table \in {{j \in seated : TableOf(seated, j) = TableOf(seated, i)} : i \in seated} :
        Cardinality(table) = TableSize \/ Cardinality(seated) < TableSize}

\* Consecutive slices of TableSize players; the last one takes what is left.
Seating(seated) ==
    {{j \in seated : TableOf(seated, j) = TableOf(seated, i)} : i \in seated}

\* Mutant of Takes: ties go to the later seat.
TakesOnTie(entries, hands, i, best) ==
    best = 0 \/ entries[best] = NoPlayer \/ hands[i] >= hands[best]

\* The condition of the loop: seat i replaces the best so far when nobody
\* leads, or the id of who does is empty, or the hand is strictly better.
Takes(entries, hands, i, best) ==
    best = 0 \/ entries[best] = NoPlayer \/ hands[i] > hands[best]

\* room_winner_id: the seat that leads after the loop over the table's players,
\* 0 as long as none does.
TableWinner(entries, table, hands) ==
    LET leader[n \in 0..Len(entries)] ==
            IF n = 0 THEN 0
            ELSE LET best == leader[n - 1]
                 IN  IF n \in table /\ Takes(entries, hands, n, best) THEN n ELSE best
    IN  leader[Len(entries)]

\* Mutant of Advancing: everybody who ties with the winner advances.
AdvancingOnTies(t, tables, hands) ==
    {i \in t.alive : \E table \in tables :
        i \in table /\ hands[i] = hands[TableWinner(t.entries, table, hands)]}

\* Every player of the table who carries the winner's id advances.
Advancing(t, tables, hands) ==
    {i \in t.alive : \E table \in tables :
        i \in table /\ t.entries[i] = t.entries[TableWinner(t.entries, table, hands)]}

TheOne(S) == CHOOSE i \in S : TRUE

Crowned(t) ==
    IF Cardinality(t.alive) = 1
    THEN [t EXCEPT !.state = "Finished", !.winner = t.entries[TheOne(t.alive)]]
    ELSE t

PlayedRound(t, hands) ==
    LET tables == Seating(Remaining(t))
    IN  Crowned([t EXCEPT !.tables = tables,
                          !.hands  = hands,
                          !.alive  = Advancing(t, tables, hands)])

\* The early return for at most one remaining player.
NoOpponents(t) ==
    [t EXCEPT !.state  = "Finished",
              !.winner = IF Remaining(t) = {} THEN @
                         ELSE t.entries[TheOne(Remaining(t))]]

Advanced(t, hands) ==
    IF Cardinality(Remaining(t)) <= 1
    THEN NoOpponents(t)
    ELSE PlayedRound(t, hands)

\* Mutant of CanStart: without the test for two participants.
CanStartAlone(t) == t.state = "Registering"

CanStart(t) ==
    /\ t.state = "Registering"
    /\ Cardinality(t.alive) >= 2

Started(t, hands) == Advanced([t EXCEPT !.state = "Running"], hands)

-----------------------------------------------------------------------------
(* The state machine *)

Init == tournament = NewTournament

Join(p) ==
    /\ CanJoin(tournament)
    /\ tournament' = Joined(tournament, p)

Start ==
    /\ CanStart(tournament)
    /\ \E hands \in [tournament.alive -> Strengths] :
          tournament' = Started(tournament, hands)

AdvanceRound ==
    /\ tournament.state = "Running"
    /\ \E hands \in [tournament.alive -> Strengths] :
          tournament' = Advanced(tournament, hands)

Next ==
    \/ \E p \in PlayerIds : Join(p)
    \/ Start
    \/ AdvanceRound

Spec == Init /\ [][Next]_tournament

\* Rounds are played on request (advance_tournament): fairness assumes that
\* some client keeps asking for the next round while there is one.
FairSpec == Spec /\ WF_tournament(AdvanceRound)

-----------------------------------------------------------------------------
(* Properties *)

Positions == 1..MaxParticipants

Tournaments ==
    [state   : TournamentStates,
     entries : Seq(PlayerIds),
     alive   : SUBSET Positions,
     tables  : SUBSET SUBSET Positions,
     hands   : UNION {[S -> Strengths] : S \in SUBSET Positions},
     winner  : PlayerIds \cup {NoPlayer}]

\* The shape of a tournament.  No more than MaxParticipants positions of the
\* registration list are ever taken (the limit join_tournament tests).
TypeOK == tournament \in Tournaments

\* advance_round ends with one participant exactly when it declares the
\* tournament finished: a running one always has somebody to play against
\* (so that the early return for at most one player is never taken), a
\* finished one has the single survivor as its winner.
WinnerIsLastOneStanding ==
    /\ tournament.state = "Running" =>
          Cardinality(tournament.alive) >= 2 /\ tournament.winner = NoPlayer
    /\ tournament.state = "Finished" =>
          \E i \in tournament.alive :
             tournament.alive = {i} /\ tournament.winner = tournament.entries[i]

DistinctEntries ==
    \A i, j \in DOMAIN tournament.entries :
        tournament.entries[i] = tournament.entries[j] => i = j

\* When nobody registered twice, each table of the last round sends exactly
\* one player on, and nobody advances without having sat at a table.
OneSurvivorPerTable ==
    DistinctEntries /\ tournament.tables # {} =>
        /\ \A table \in tournament.tables : Cardinality(table \cap tournament.alive) = 1
        /\ tournament.alive \subseteq UNION tournament.tables

\* A step that is no registration: start_tournament's first round or a later one.
IsRound == tournament'.entries = tournament.entries

\* A round seats the whole field: everybody who is left sits at exactly one
\* table, the tables are as few as the players allow, and no table outgrows the
\* deck that deals it.
TablesPartition ==
    [][LET tables == tournament'.tables
       IN  IsRound =>
               /\ UNION tables = tournament.alive
               /\ \A table \in tables : Cardinality(table) \in 1..TableSize
               /\ \A a, b \in tables : a = b \/ a \cap b = {}
               /\ Cardinality(tables)
                    = (Cardinality(tournament.alive) + TableSize - 1) \div TableSize]_tournament

\* Seat j beats seat k: a better hand, or as good a hand in an earlier seat.
Beats(hands, j, k) == hands[j] > hands[k] \/ (hands[j] = hands[k] /\ j < k)

\* Who advances shares the id of a player of the table whom nobody there beats,
\* except who sits at, or before, a seat with the empty id that comes before that
\* player: room_winner_id takes the empty id for no winner, and forgets the best
\* hand when it meets the next seat.
SurvivorsHeldBestRememberedHand ==
    \A table \in tournament.tables : \A i \in table \cap tournament.alive :
        \E k \in table :
            /\ tournament.entries[k] = tournament.entries[i]
            /\ \A j \in table : Beats(tournament.hands, j, k) =>
                  \E e \in table : tournament.entries[e] = NoPlayer /\ j <= e /\ e < k

\* A tournament that two different players or more started, each registered
\* once, comes to an end: every round loses somebody.
DistinctPlayersFinish ==
    (tournament.state = "Running" /\ DistinctEntries) ~> (tournament.state = "Finished")

\* Why it does: a round leaves as many players as it had tables, one for each seven
\* or fewer, and that is less than it began with.
RoundsShrinkTheField ==
    [][LET n == Cardinality(tournament.alive)
           left == Cardinality(tournament'.alive)
       IN  IsRound /\ DistinctEntries =>
               left = (n + TableSize - 1) \div TableSize /\ left < n]_tournament

\* README.md:78 promises rounds until there is a winner.
RoundsUntilWinner ==
    (tournament.state = "Running") ~> (tournament.state = "Finished")

KO == INSTANCE Knockout WITH
        phase    <- tournament.state,
        entrants <- tournament.entries,
        field    <- tournament.alive,
        champion <- tournament.winner

\* A tournament keeps the promise of Knockout: its rounds only drop players,
\* never all of them, and crown the one who is left, once.
KnocksOut == KO!Spec

=============================================================================
