--------------------------- MODULE TournamentProofs ---------------------------
(***************************************************************************)
(* Proofs about Tournament, for any number of players, table size, limit   *)
(* of registrations and range of hands.                                    *)
(***************************************************************************)
EXTENDS Tournament, CommonLemmas

-----------------------------------------------------------------------------
(* The winner of a table *)

\* The loop of room_winner_id, as the table of who leads after n entries.
LoopOver(entries, tbl, hands, leader) ==
    leader = [n \in 0..Len(entries) |->
        IF n = 0 THEN 0
        ELSE IF n \in tbl /\ Takes(entries, hands, n, leader[n - 1]) THEN n ELSE leader[n - 1]]

LEMMA SomeLoop ==
    ASSUME NEW entries, Len(entries) \in Nat, NEW tbl, NEW hands
    PROVE  \E leader : LoopOver(entries, tbl, hands, leader)
<1> DEFINE Step(g, m) ==
              [n \in 0..m |->
                  IF n = 0 THEN 0
                  ELSE IF n \in tbl /\ Takes(entries, hands, n, g[n - 1]) THEN n ELSE g[n - 1]]
           G == {m \in Nat : \E g : g = Step(g, m)}
<1>1. 0 \in G
  <2>1. [n \in 0..0 |-> 0] = Step([n \in 0..0 |-> 0], 0)
    OBVIOUS
  <2>2. QED
    BY <2>1
<1>2. ASSUME NEW m \in Nat, m \in G
      PROVE  m + 1 \in G
  <2>1. PICK g : g = Step(g, m)
    BY <1>2
  <2> DEFINE h == Step(g, m + 1)
  <2>2. \A n \in 0..m : h[n] = g[n]
    <3> SUFFICES ASSUME NEW n \in 0..m
                 PROVE  h[n] = g[n]
      OBVIOUS
    <3>1. n \in 0..(m + 1)
      OBVIOUS
    <3>2. h[n] = IF n = 0 THEN 0
                 ELSE IF n \in tbl /\ Takes(entries, hands, n, g[n - 1]) THEN n ELSE g[n - 1]
      BY <3>1
    <3>3. g[n] = IF n = 0 THEN 0
                 ELSE IF n \in tbl /\ Takes(entries, hands, n, g[n - 1]) THEN n ELSE g[n - 1]
      BY <2>1
    <3>4. QED
      BY <3>2, <3>3
  <2>3. h = Step(h, m + 1)
    <3>1. ASSUME NEW n \in 0..(m + 1), n # 0
          PROVE  h[n - 1] = g[n - 1]
      <4>1. n - 1 \in 0..m
        BY <3>1
      <4>2. QED
        BY <2>2, <4>1
    <3>2. h = Step(g, m + 1)
      OBVIOUS
    <3> HIDE DEF h
    <3>3. Step(g, m + 1) = Step(h, m + 1)
      BY <3>1
    <3>4. QED
      BY <3>2, <3>3
  <2> HIDE DEF h, Step
  <2>4. \E k : k = Step(k, m + 1)
    BY <2>3
  <2>5. QED
    BY <2>4
<1>3. \A m \in Nat : m \in G
  <2> HIDE DEF G
  <2>1. QED
    BY <1>1, <1>2, NatLadder
<1>4. PICK g : g = Step(g, Len(entries))
  BY <1>3
<1>5. QED
  BY <1>4 DEF LoopOver

\* One turn of the loop after the other.
LEMMA LoopTurns ==
    ASSUME NEW entries, Len(entries) \in Nat, NEW tbl, NEW hands
    PROVE  \E leader :
              /\ TableWinner(entries, tbl, hands) = leader[Len(entries)]
              /\ leader[0] = 0
              /\ \A n \in 1..Len(entries) :
                    leader[n] = IF n \in tbl /\ Takes(entries, hands, n, leader[n - 1])
                                THEN n ELSE leader[n - 1]
<1> DEFINE f == CHOOSE leader : LoopOver(entries, tbl, hands, leader)
<1>1. TableWinner(entries, tbl, hands) = f[Len(entries)]
  BY DEF TableWinner, LoopOver
<1>2. LoopOver(entries, tbl, hands, f)
  BY SomeLoop
<1> HIDE DEF f
<1>3. f[0] = 0
  BY <1>2 DEF LoopOver
<1>4. ASSUME NEW n \in 1..Len(entries)
      PROVE  f[n] = IF n \in tbl /\ Takes(entries, hands, n, f[n - 1]) THEN n ELSE f[n - 1]
  <2>1. n \in 0..Len(entries) /\ n # 0
    OBVIOUS
  <2>2. QED
    BY <1>2, <2>1 DEF LoopOver
<1>5. QED
  BY <1>1, <1>3, <1>4

\* Player k leads after n entries: nobody has a seat before, or k does and beats
\* the others except those an empty id made the loop forget.
Leads(entries, tbl, hands, n, k) ==
    /\ k = 0 => \A j \in tbl : j > n
    /\ k # 0 =>
          /\ k \in tbl /\ k <= n
          /\ entries[k] = NoPlayer => \A j \in tbl : j <= k \/ j > n
          /\ \A j \in tbl : j <= n /\ Beats(hands, j, k) =>
                \E e \in tbl : entries[e] = NoPlayer /\ j <= e /\ e < k

LEMMA TurnKeepsLead ==
    ASSUME NEW tbl \in SUBSET Nat, NEW hands, \A i \in tbl : hands[i] \in Nat,
           NEW entries, NEW n \in Nat, NEW k \in Nat,
           Leads(entries, tbl, hands, n, k), 0 \notin tbl
    PROVE  Leads(entries, tbl, hands, n + 1,
                 IF n + 1 \in tbl /\ Takes(entries, hands, n + 1, k) THEN n + 1 ELSE k)
<1> DEFINE m == n + 1
<1>1. \A j \in Nat : j <= m <=> j <= n \/ j = m
  OBVIOUS
<1>2. \A j \in tbl : hands[j] \in Nat /\ j \in Nat /\ j # 0
  OBVIOUS
<1>3. CASE m \notin tbl
  <2>1. \A j \in tbl : j <= m <=> j <= n
    BY <1>1, <1>2, <1>3
  <2>2. \A j \in tbl : j > m <=> j > n
    BY <1>2, <2>1
  <2>3. k <= n => k <= m
    OBVIOUS
  <2>4. Leads(entries, tbl, hands, m, k)
    BY <2>1, <2>2, <2>3 DEF Leads
  <2>5. QED
    BY <1>3, <2>4
<1>4. CASE m \in tbl /\ Takes(entries, hands, m, k)
  <2>1. m # 0 /\ m <= m
    OBVIOUS
  <2>2. \A j \in tbl : j <= m \/ j > m
    BY <1>2
  <2>3. ASSUME NEW j \in tbl, j <= m, Beats(hands, j, m)
        PROVE  \E e \in tbl : entries[e] = NoPlayer /\ j <= e /\ e < m
    <3>1. hands[j] >= hands[m] /\ j # m
      BY <1>2, <1>4, <2>3 DEF Beats
    <3>2. j <= n
      BY <1>1, <1>2, <2>3, <3>1
    <3>3. k # 0
      BY <1>2, <3>2 DEF Leads
    <3>4. k \in tbl /\ k <= n /\ k < m
      BY <3>3 DEF Leads
    <3>5. CASE entries[k] = NoPlayer
      <4>1. j <= k
        BY <1>2, <3>2, <3>3, <3>5 DEF Leads
      <4>2. QED
        BY <3>4, <3>5, <4>1
    <3>6. CASE entries[k] # NoPlayer
      <4>1. hands[m] > hands[k]
        BY <1>4, <3>3, <3>6 DEF Takes
      <4>2. hands[j] > hands[k]
        BY <1>2, <1>4, <3>1, <3>4, <4>1
      <4>3. PICK e \in tbl : entries[e] = NoPlayer /\ j <= e /\ e < k
        BY <3>2, <3>3, <4>2 DEF Leads, Beats
      <4>4. e < m
        BY <1>2, <3>4, <4>3
      <4>5. QED
        BY <4>3, <4>4
    <3>7. QED
      BY <3>5, <3>6
  <2> HIDE DEF m
  <2>4. Leads(entries, tbl, hands, m, m)
    BY <1>4, <2>1, <2>2, <2>3 DEF Leads
  <2>5. QED
    BY <1>4, <2>4 DEF m
<1>5. CASE m \in tbl /\ ~Takes(entries, hands, m, k)
  <2>1. k # 0 /\ entries[k] # NoPlayer /\ ~(hands[m] > hands[k])
    BY <1>5 DEF Takes
  <2>2. k \in tbl /\ k <= n /\ k <= m /\ k < m
    BY <2>1 DEF Leads
  <2>3. ~Beats(hands, m, k)
    BY <1>2, <1>5, <2>1, <2>2 DEF Beats
  <2>4. \A j \in tbl : j <= m /\ Beats(hands, j, k) => j <= n
    BY <1>1, <1>2, <2>3
  <2>5. Leads(entries, tbl, hands, m, k)
    BY <2>1, <2>2, <2>4 DEF Leads
  <2>6. QED
    BY <1>5, <2>5
<1>6. QED
  BY <1>3, <1>4, <1>5

\* room_winner_id names a player of the table, and who beats that player sits at
\* or before a seat with the empty id in front of the winner.
LEMMA TableWinnerIsBest ==
    ASSUME NEW entries, Len(entries) \in Nat,
           NEW tbl \in SUBSET (1..Len(entries)), tbl # {},
           NEW hands, \A i \in tbl : hands[i] \in Strengths
    PROVE  LET w == TableWinner(entries, tbl, hands)
           IN  /\ w \in tbl
               /\ \A j \in tbl : Beats(hands, j, w) =>
                     \E e \in tbl : entries[e] = NoPlayer /\ j <= e /\ e < w
<1> DEFINE N == Len(entries)
<1>1. PICK leader :
         /\ TableWinner(entries, tbl, hands) = leader[N]
         /\ leader[0] = 0
         /\ \A n \in 1..N :
               leader[n] = IF n \in tbl /\ Takes(entries, hands, n, leader[n - 1])
                           THEN n ELSE leader[n - 1]
  BY LoopTurns
<1>2. tbl \in SUBSET Nat /\ 0 \notin tbl /\ \A i \in tbl : hands[i] \in Nat
  BY MaxStrengthAssumption DEF Strengths
<1> DEFINE G == {n \in Nat : n <= N => leader[n] \in Nat /\ Leads(entries, tbl, hands, n, leader[n])}
<1>3. 0 \in G
  <2>1. \A j \in tbl : j > 0
    OBVIOUS
  <2>2. QED
    BY <1>1, <2>1 DEF Leads
<1>4. ASSUME NEW n \in Nat, n \in G
      PROVE  n + 1 \in G
  <2> SUFFICES ASSUME n + 1 <= N
               PROVE  leader[n + 1] \in Nat /\ Leads(entries, tbl, hands, n + 1, leader[n + 1])
    OBVIOUS
  <2>1. n + 1 \in 1..N /\ (n + 1) - 1 = n /\ n <= N
    OBVIOUS
  <2>2. leader[n + 1] = IF n + 1 \in tbl /\ Takes(entries, hands, n + 1, leader[n])
                        THEN n + 1 ELSE leader[n]
    BY <1>1, <2>1
  <2>3. leader[n] \in Nat /\ Leads(entries, tbl, hands, n, leader[n])
    BY <1>4, <2>1
  <2> HIDE DEF N
  <2>4. QED
    BY <1>2, <2>2, <2>3, TurnKeepsLead
<1>5. \A n \in Nat : n \in G
  <2> HIDE DEF G
  <2>1. QED
    BY <1>3, <1>4, NatLadder
<1>6. leader[N] \in Nat /\ Leads(entries, tbl, hands, N, leader[N])
  BY <1>5
<1>7. \A j \in tbl : j \in Nat /\ j <= N /\ ~(j > N)
  OBVIOUS
<1>8. leader[N] # 0
  BY <1>6, <1>7 DEF Leads
<1>9. QED
  BY <1>1, <1>6, <1>7, <1>8 DEF Leads

-----------------------------------------------------------------------------
(* The tables of a round *)

\* Every seated player sits at a table, tables seat only them, and two tables
\* that share a player are the same.
LEMMA SeatingPartitions ==
    ASSUME NEW seated
    PROVE  /\ UNION Seating(seated) = seated
           /\ {} \notin Seating(seated)
           /\ \A a, b \in Seating(seated) : a \cap b # {} => a = b
<1> DEFINE Slice(i) == {j \in seated : TableOf(seated, j) = TableOf(seated, i)}
<1>1. Seating(seated) = {Slice(i) : i \in seated}
  BY DEF Seating
<1>2. \A i \in seated : i \in Slice(i) /\ Slice(i) \subseteq seated
  OBVIOUS
<1>3. ASSUME NEW a \in Seating(seated), NEW b \in Seating(seated), a \cap b # {}
      PROVE  a = b
  <2>1. PICK i \in seated : a = Slice(i)
    BY <1>1
  <2>2. PICK k \in seated : b = Slice(k)
    BY <1>1
  <2>3. TableOf(seated, i) = TableOf(seated, k)
    BY <1>3, <2>1, <2>2
  <2>4. QED
    BY <2>1, <2>2, <2>3
<1>4. UNION Seating(seated) = seated
  BY <1>1, <1>2
<1>5. {} \notin Seating(seated)
  BY <1>1, <1>2
<1>6. QED
  BY <1>3, <1>4, <1>5

-----------------------------------------------------------------------------
(* The inductive invariant *)

\* TypeOK says nothing of how many positions are taken: that the limit of
\* MaxParticipants bounds them needs that nobody leaves while registering.
Registration ==
    tournament.state = "Registering" =>
        /\ tournament.alive = 1..Len(tournament.entries)
        /\ tournament.tables = {}
        /\ tournament.winner = NoPlayer

EntriesOfSurvivors == tournament.alive \subseteq DOMAIN tournament.entries

IInv == TypeOK /\ Registration /\ EntriesOfSurvivors /\ WinnerIsLastOneStanding

\* What a round does to a tournament that at least two players are in.
LEMMA RoundKeepsSomebody ==
    ASSUME NEW t, Len(t.entries) \in Nat,
           t.alive \in SUBSET (1..Len(t.entries)), t.alive # {},
           NEW hands \in [t.alive -> Strengths]
    PROVE  /\ Advancing(t, Seating(Remaining(t)), hands) \subseteq t.alive
           /\ Advancing(t, Seating(Remaining(t)), hands) # {}
<1> DEFINE tables == Seating(t.alive)
<1>1. Remaining(t) = t.alive
  BY DEF Remaining
<1>2. PICK i \in t.alive : TRUE
  OBVIOUS
<1>3. PICK table \in tables : i \in table
  BY <1>2, SeatingPartitions
<1>4. table \subseteq t.alive
  BY SeatingPartitions
<1>5. TableWinner(t.entries, table, hands) \in table
  BY <1>3, <1>4, TableWinnerIsBest
<1>6. TableWinner(t.entries, table, hands) \in Advancing(t, tables, hands)
  BY <1>4, <1>5 DEF Advancing
<1>7. QED
  BY <1>1, <1>6 DEF Advancing

LEMMA PositionsFinite ==
    /\ Positions \subseteq Nat
    /\ \A S \in SUBSET Positions : IsFiniteSet(S) /\ Cardinality(S) \in Nat
<1>1. Positions \subseteq Nat
  BY MaxParticipantsAssumption DEF Positions
<1>2. IsFiniteSet(Positions)
  BY FS_Interval, MaxParticipantsAssumption DEF Positions
<1>3. ASSUME NEW S \in SUBSET Positions
      PROVE  IsFiniteSet(S) /\ Cardinality(S) \in Nat
  BY <1>2, FS_Subset, FS_CardinalityType
<1>4. QED
  BY <1>1, <1>3


\* A round that two players or more play: somebody stays, and the tournament is
\* over exactly when one does.
LEMMA RoundPlayed ==
    ASSUME NEW t \in Tournaments,
           t.state = "Running", t.winner = NoPlayer,
           t.alive \subseteq DOMAIN t.entries,
           Cardinality(t.alive) >= 2,
           NEW hands \in [t.alive -> Strengths],
           NEW u, u = Advanced(t, hands)
    PROVE  /\ u \in Tournaments
           /\ u.entries = t.entries
           /\ u.tables = Seating(t.alive)
           /\ u.hands = hands
           /\ u.alive = Advancing(t, Seating(t.alive), hands)
           /\ u.alive \subseteq t.alive
           /\ \/ /\ u.state = "Running"
                 /\ u.winner = NoPlayer
                 /\ Cardinality(u.alive) >= 2
              \/ /\ u.state = "Finished"
                 /\ \E i \in u.alive : u.alive = {i} /\ u.winner = u.entries[i]
<1> DEFINE tables == Seating(t.alive)
           rest == Advancing(t, tables, hands)
           v == [t EXCEPT !.tables = tables, !.hands = hands, !.alive = rest]
<1>1. /\ t.alive \in SUBSET Positions /\ Cardinality(t.alive) \in Nat
      /\ Len(t.entries) \in Nat /\ t.alive \in SUBSET (1..Len(t.entries))
  BY PositionsFinite DEF Tournaments
<1>2. t.alive # {}
  <2>1. Cardinality({}) = 0
    BY FS_EmptySet
  <2>2. ~(0 >= 2)
    OBVIOUS
  <2>3. QED
    BY ZenonT(20), <2>1, <2>2
<1>3. rest \subseteq t.alive /\ rest # {}
  BY <1>1, <1>2, RoundKeepsSomebody DEF Remaining
<1>4. tables \in SUBSET SUBSET Positions
  <2>1. UNION tables = t.alive
    BY SeatingPartitions
  <2> HIDE DEF tables
  <2>2. QED
    BY <1>1, <2>1
<1>5. u = Crowned(v)
  BY <1>1 DEF Advanced, PlayedRound, Remaining
<1>6. /\ v \in Tournaments
      /\ v.entries = t.entries /\ v.tables = tables /\ v.hands = hands
      /\ v.alive = rest /\ v.state = "Running" /\ v.winner = NoPlayer
  <2>1. hands \in UNION {[S -> Strengths] : S \in SUBSET Positions}
    BY <1>1
  <2>2. rest \in SUBSET Positions
    BY <1>1, <1>3
  <2> HIDE DEF tables, rest
  <2>3. QED
    BY <2>1, <2>2, <1>4 DEF Tournaments
<1>7. IsFiniteSet(rest) /\ Cardinality(rest) \in Nat
  BY <1>1, <1>3, PositionsFinite
<1> HIDE DEF tables, v
<1>8. CASE Cardinality(rest) = 1
  <2> HIDE DEF rest
  <2>1. PICK i : rest = {i}
    BY <1>7, <1>8, FS_Singleton
  <2>2. TheOne(rest) = i
    BY <2>1 DEF TheOne
  <2>3. u = [v EXCEPT !.state = "Finished", !.winner = t.entries[i]]
    BY <1>5, <1>6, <1>8, <2>2 DEF Crowned
  <2>4. t.entries[i] \in PlayerIds
    BY <1>3, <2>1 DEF Tournaments
  <2>5. /\ u \in Tournaments
        /\ u.entries = t.entries /\ u.tables = tables /\ u.hands = hands
        /\ u.alive = rest /\ u.state = "Finished" /\ u.winner = t.entries[i]
    BY ZenonT(30), <2>3, <2>4, <1>6 DEF Tournaments, TournamentStates
  <2>6. QED
    BY <2>1, <2>5, <1>3 DEF rest, tables
<1>9. CASE Cardinality(rest) # 1
  <2>1. u = v
    BY <1>5, <1>6, <1>9 DEF Crowned
  <2>2. Cardinality(rest) # 0
    BY <1>3, <1>7, FS_EmptySet
  <2>3. Cardinality(rest) >= 2
    BY <1>7, <1>9, <2>2
  <2>4. QED
    BY <2>1, <2>3, <1>3, <1>6 DEF tables
<1>10. QED
  BY <1>8, <1>9

-----------------------------------------------------------------------------
(* The invariant is inductive *)

LEMMA JoinKeepsInvariant ==
    ASSUME IInv, NEW p \in PlayerIds, Join(p)
    PROVE  IInv'
<1> DEFINE n == Len(tournament.entries)
<1>1. /\ tournament.state = "Registering"
      /\ tournament.alive = 1..n
      /\ tournament.tables = {} /\ tournament.winner = NoPlayer
      /\ tournament.entries \in Seq(PlayerIds) /\ n \in Nat
  BY DEF IInv, TypeOK, Tournaments, Registration, Join, CanJoin
<1>2. n < MaxParticipants
  <2>1. Cardinality(1..n) = n
    BY <1>1, FS_Interval
  <2>2. QED
    BY <1>1, <2>1 DEF Join, CanJoin
<1>3. tournament' = [tournament EXCEPT !.entries = Append(@, p), !.alive = @ \cup {n + 1}]
  BY DEF Join, Joined
<1>4. Append(tournament.entries, p) \in Seq(PlayerIds)
      /\ Len(Append(tournament.entries, p)) = n + 1
  BY <1>1
<1>5. tournament.alive \cup {n + 1} = 1..(n + 1)
  BY <1>1
<1>6. 1..(n + 1) \in SUBSET Positions
  BY <1>1, <1>2, MaxParticipantsAssumption DEF Positions
<1> HIDE DEF n
<1>7. /\ tournament' \in Tournaments
      /\ tournament'.state = "Registering"
      /\ tournament'.entries = Append(tournament.entries, p)
      /\ tournament'.alive = 1..(n + 1)
      /\ tournament'.tables = {} /\ tournament'.winner = NoPlayer
  BY <1>1, <1>3, <1>4, <1>5, <1>6 DEF IInv, TypeOK, Tournaments
<1>8. QED
  BY <1>4, <1>7 DEF IInv, TypeOK, Registration, EntriesOfSurvivors, WinnerIsLastOneStanding

\* A start and a request for the next round both come down to a round that at
\* least two players play.
LEMMA RoundIsPlayed ==
    ASSUME IInv, Start \/ AdvanceRound
    PROVE  \E t \in Tournaments : \E hands \in [tournament.alive -> Strengths] :
              /\ t = [tournament EXCEPT !.state = "Running"]
              /\ t.state = "Running" /\ t.winner = NoPlayer
              /\ t.entries = tournament.entries /\ t.alive = tournament.alive
              /\ t.alive \subseteq DOMAIN t.entries
              /\ Cardinality(t.alive) >= 2
              /\ tournament' = Advanced(t, hands)
<1> DEFINE t == [tournament EXCEPT !.state = "Running"]
<1>1. t \in Tournaments /\ t.state = "Running" /\ t.entries = tournament.entries
      /\ t.alive = tournament.alive /\ t.winner = tournament.winner
  BY DEF IInv, TypeOK, Tournaments, TournamentStates
<1>2. t.alive \subseteq DOMAIN t.entries
  BY <1>1 DEF IInv, EntriesOfSurvivors
<1>3. CASE Start
  <2>1. PICK hands \in [tournament.alive -> Strengths] :
           tournament' = Advanced(t, hands)
    BY <1>3 DEF Start, Started
  <2>2. tournament.winner = NoPlayer /\ Cardinality(tournament.alive) >= 2
    BY <1>3 DEF Start, CanStart, IInv, Registration
  <2>3. QED
    BY <1>1, <1>2, <2>1, <2>2
<1>4. CASE AdvanceRound
  <2>1. t = tournament
    BY <1>4 DEF AdvanceRound, IInv, TypeOK, Tournaments
  <2>2. PICK hands \in [tournament.alive -> Strengths] :
           tournament' = Advanced(t, hands)
    BY <1>4, <2>1 DEF AdvanceRound
  <2>3. tournament.winner = NoPlayer /\ Cardinality(tournament.alive) >= 2
    BY <1>4 DEF AdvanceRound, IInv, WinnerIsLastOneStanding
  <2>4. QED
    BY <1>1, <1>2, <2>2, <2>3
<1>5. QED
  BY <1>3, <1>4

LEMMA RoundKeepsInvariant ==
    ASSUME IInv, Start \/ AdvanceRound
    PROVE  IInv'
<1>1. PICK t \in Tournaments, hands \in [tournament.alive -> Strengths] :
           /\ t.state = "Running" /\ t.winner = NoPlayer
           /\ t.alive = tournament.alive
           /\ t.alive \subseteq DOMAIN t.entries
           /\ Cardinality(t.alive) >= 2
           /\ tournament' = Advanced(t, hands)
  BY RoundIsPlayed
<1>2. /\ tournament' \in Tournaments
      /\ tournament'.alive \subseteq DOMAIN tournament'.entries
      /\ \/ /\ tournament'.state = "Running"
            /\ tournament'.winner = NoPlayer
            /\ Cardinality(tournament'.alive) >= 2
         \/ /\ tournament'.state = "Finished"
            /\ \E i \in tournament'.alive :
                  tournament'.alive = {i} /\ tournament'.winner = tournament'.entries[i]
  BY <1>1, RoundPlayed
<1>3. QED
  BY <1>2 DEF IInv, TypeOK, Registration, EntriesOfSurvivors, WinnerIsLastOneStanding

LEMMA InitEstablishesInvariant == Init => IInv
<1>1. SUFFICES ASSUME Init PROVE IInv
  OBVIOUS
<1>2. tournament = NewTournament
  BY <1>1 DEF Init
<1>3. TypeOK
  <2>1. [i \in {} |-> 0] \in UNION {[S -> Strengths] : S \in SUBSET Positions}
    <3>1. [i \in {} |-> 0] \in [{} -> Strengths]
      OBVIOUS
    <3>2. QED
      BY <3>1
  <2>2. QED
    BY <1>2, <2>1 DEF TypeOK, Tournaments, NewTournament, TournamentStates
<1>4. QED
  BY <1>2, <1>3 DEF NewTournament, IInv, Registration, EntriesOfSurvivors,
                    WinnerIsLastOneStanding

\* IInv holds of every reachable state.
THEOREM Invariance == Spec => []IInv
<1>1. ASSUME IInv, [Next]_tournament
      PROVE  IInv'
  <2>1. CASE \E p \in PlayerIds : Join(p)
    BY <1>1, <2>1, JoinKeepsInvariant
  <2>2. CASE Start \/ AdvanceRound
    BY <1>1, <2>2, RoundKeepsInvariant
  <2>3. CASE UNCHANGED tournament
    BY <1>1, <2>3 DEF IInv, TypeOK, Registration, EntriesOfSurvivors,
                      WinnerIsLastOneStanding
  <2>4. QED
    BY <1>1, <2>1, <2>2, <2>3 DEF Next
<1>2. QED
  BY <1>1, InitEstablishesInvariant, PTL DEF Spec

-----------------------------------------------------------------------------
(* What follows from it *)

\* A tournament keeps its shape, and join_tournament's limit bounds the
\* positions of the registration list that are in use.
THEOREM TypeCorrectness == Spec => []TypeOK
<1>1. IInv => TypeOK
  BY DEF IInv
<1>2. QED
  BY <1>1, Invariance, PTL

\* However many play, a running tournament always has two players left and no
\* winner, and a finished one has the last player as its winner.
THEOREM WinnerTheorem == Spec => []WinnerIsLastOneStanding
<1>1. IInv => WinnerIsLastOneStanding
  BY DEF IInv
<1>2. QED
  BY <1>1, Invariance, PTL

-----------------------------------------------------------------------------
(* Who advances from a round *)

LEMMA AdvancingFromTable ==
    ASSUME NEW t \in Tournaments, t.alive \subseteq DOMAIN t.entries,
           NEW hands \in [t.alive -> Strengths],
           NEW table \in Seating(t.alive), NEW i \in table,
           i \in Advancing(t, Seating(t.alive), hands)
    PROVE  LET w == TableWinner(t.entries, table, hands)
           IN  /\ w \in table
               /\ w \in Advancing(t, Seating(t.alive), hands)
               /\ t.entries[w] = t.entries[i]
               /\ \A j \in table : Beats(hands, j, w) =>
                     \E e \in table : t.entries[e] = NoPlayer /\ j <= e /\ e < w
<1> DEFINE w == TableWinner(t.entries, table, hands)
<1>1. PICK other \in Seating(t.alive) :
         i \in other /\ t.entries[i] = t.entries[TableWinner(t.entries, other, hands)]
  BY DEF Advancing
<1>2. other = table
  <2>1. other \cap table # {}
    BY <1>1
  <2>2. QED
    BY <2>1, SeatingPartitions
<1>3. table \subseteq t.alive
  BY SeatingPartitions
<1>4. Len(t.entries) \in Nat /\ t.alive \in SUBSET (1..Len(t.entries))
  BY DEF Tournaments
<1>5. /\ table \in SUBSET (1..Len(t.entries)) /\ table # {}
      /\ \A k \in table : hands[k] \in Strengths
  BY <1>3, <1>4
<1>6. /\ w \in table
      /\ \A j \in table : Beats(hands, j, w) =>
            \E e \in table : t.entries[e] = NoPlayer /\ j <= e /\ e < w
  BY <1>4, <1>5, TableWinnerIsBest
<1>7. w \in Advancing(t, Seating(t.alive), hands)
  BY <1>3, <1>6 DEF Advancing
<1>8. QED
  BY <1>1, <1>2, <1>6, <1>7

LEMMA TableSendsItsWinner ==
    ASSUME NEW t \in Tournaments, t.alive \subseteq DOMAIN t.entries,
           NEW hands \in [t.alive -> Strengths],
           NEW table \in Seating(t.alive)
    PROVE  TableWinner(t.entries, table, hands)
              \in table \cap Advancing(t, Seating(t.alive), hands)
<1>1. table \subseteq t.alive /\ table # {}
  BY SeatingPartitions
<1>2. Len(t.entries) \in Nat /\ t.alive \in SUBSET (1..Len(t.entries))
  BY DEF Tournaments
<1>3. table \in SUBSET (1..Len(t.entries)) /\ \A k \in table : hands[k] \in Strengths
  BY <1>1, <1>2
<1>4. TableWinner(t.entries, table, hands) \in table
  BY <1>1, <1>2, <1>3, TableWinnerIsBest
<1>5. QED
  BY <1>1, <1>4 DEF Advancing

LEMMA RoundIsFair ==
    ASSUME IInv, Start \/ AdvanceRound
    PROVE  OneSurvivorPerTable' /\ SurvivorsHeldBestRememberedHand'
<1>1. PICK t \in Tournaments, hands \in [tournament.alive -> Strengths] :
           /\ t.state = "Running" /\ t.winner = NoPlayer
           /\ t.alive = tournament.alive
           /\ t.alive \subseteq DOMAIN t.entries
           /\ Cardinality(t.alive) >= 2
           /\ tournament' = Advanced(t, hands)
  BY RoundIsPlayed
<1> DEFINE tables == Seating(t.alive)
           rest == Advancing(t, tables, hands)
<1>2. /\ tournament'.entries = t.entries /\ tournament'.tables = tables
      /\ tournament'.hands = hands /\ tournament'.alive = rest
      /\ rest \subseteq t.alive
  BY <1>1, RoundPlayed
<1>3. hands \in [t.alive -> Strengths]
  BY <1>1
<1>4. \A table \in tables : table \subseteq t.alive
  BY SeatingPartitions
<1>5. SurvivorsHeldBestRememberedHand'
  <2>1. ASSUME NEW table \in tables, NEW i \in table \cap rest
        PROVE  \E k \in table :
                  /\ t.entries[k] = t.entries[i]
                  /\ \A j \in table : Beats(hands, j, k) =>
                        \E e \in table : t.entries[e] = NoPlayer /\ j <= e /\ e < k
    BY <1>1, <1>3, <2>1, AdvancingFromTable
  <2> HIDE DEF tables, rest
  <2>2. QED
    BY <1>2, <2>1 DEF SurvivorsHeldBestRememberedHand
<1>6. ASSUME DistinctEntries', NEW table \in tables
      PROVE  \E w : table \cap rest = {w}
  <2>1. \A i, j \in DOMAIN t.entries : t.entries[i] = t.entries[j] => i = j
    BY <1>2, <1>6 DEF DistinctEntries
  <2> DEFINE w == TableWinner(t.entries, table, hands)
  <2>2. w \in table \cap rest
    BY <1>1, <1>3, <1>6, TableSendsItsWinner
  <2>3. ASSUME NEW i \in table \cap rest
        PROVE  i = w
    <3>1. t.entries[i] = t.entries[w] /\ w \in table
      BY <1>1, <1>3, <1>6, <2>3, AdvancingFromTable
    <3> HIDE DEF w, rest
    <3>2. i \in DOMAIN t.entries /\ w \in DOMAIN t.entries
      BY <1>1, <1>4, <3>1
    <3>3. QED
      BY <2>1, <3>1, <3>2
  <2>4. table \cap rest = {w}
    BY <2>2, <2>3
  <2>5. QED
    BY <2>4
<1>7. OneSurvivorPerTable'
  <2>1. UNION tables = t.alive
    BY SeatingPartitions
  <2> HIDE DEF tables, rest
  <2>2. ASSUME DistinctEntries', NEW table \in tables
        PROVE  Cardinality(table \cap rest) = 1
    BY <1>6, <2>2, FS_Singleton
  <2>3. QED
    BY <1>2, <2>1, <2>2 DEF OneSurvivorPerTable
<1>8. QED
  BY <1>5, <1>7

\* No table sends two players on and none goes home empty-handed, unless a
\* player registered twice; who goes on shares the id of a player nobody at the
\* table beat, but for those an empty id made the loop forget.
THEOREM FairRounds == Spec => [](OneSurvivorPerTable /\ SurvivorsHeldBestRememberedHand)
<1> DEFINE Fair == OneSurvivorPerTable /\ SurvivorsHeldBestRememberedHand
<1>1. Init => Fair
  BY DEF Init, NewTournament, OneSurvivorPerTable, SurvivorsHeldBestRememberedHand
<1>2. ASSUME IInv, IInv', Fair, [Next]_tournament
      PROVE  Fair'
  <2>1. CASE \E p \in PlayerIds : Join(p)
    <3>1. tournament.state = "Registering" /\ tournament'.state = "Registering"
      BY <1>2, <2>1 DEF Join, CanJoin, Joined, IInv, TypeOK, Tournaments
    <3>2. tournament'.tables = {}
      BY <1>2, <3>1 DEF IInv, Registration
    <3>3. QED
      BY <3>2 DEF OneSurvivorPerTable, SurvivorsHeldBestRememberedHand
  <2>2. CASE Start \/ AdvanceRound
    BY <1>2, <2>2, RoundIsFair
  <2>3. CASE UNCHANGED tournament
    BY <1>2, <2>3 DEF OneSurvivorPerTable, SurvivorsHeldBestRememberedHand, DistinctEntries
  <2>4. QED
    BY <1>2, <2>1, <2>2, <2>3 DEF Next
<1>3. QED
  BY <1>1, <1>2, Invariance, PTL DEF Spec

\* Each table sends exactly one player on, and nobody advances without having sat
\* at one, unless somebody registered twice.
THEOREM OneGoesOn == Spec => []OneSurvivorPerTable
BY FairRounds, PTL

\* Who goes on from a table without the empty id shares the id of the first of the
\* best hands there; at a table with such a seat, only who sat at or before it can
\* have been passed over.
THEOREM TheBestGoOn == Spec => []SurvivorsHeldBestRememberedHand
BY FairRounds, PTL

-----------------------------------------------------------------------------
(* The tables of a round *)

\* The loop meets the players in order, each with an index of its own.
LEMMA SeatIndexCounts ==
    ASSUME NEW seated \in SUBSET Nat, IsFiniteSet(seated)
    PROVE  [i \in seated |-> SeatIndex(seated, i)] \in Bijection(seated, 0..(Cardinality(seated) - 1))
<1> DEFINE n == Cardinality(seated)
           Below(i) == {j \in seated : j < i}
           f == [i \in seated |-> SeatIndex(seated, i)]
<1>1. n \in Nat
  BY FS_CardinalityType
<1>2. ASSUME NEW i \in seated
      PROVE  SeatIndex(seated, i) \in 0..(n - 1)
  <2>1. Below(i) \in SUBSET (seated \ {i})
    OBVIOUS
  <2>2. IsFiniteSet(seated \ {i}) /\ Cardinality(seated \ {i}) = n - 1
    BY FS_RemoveElement
  <2>3. Cardinality(Below(i)) \in Nat /\ Cardinality(Below(i)) <= n - 1
    BY <2>1, <2>2, FS_Subset, FS_CardinalityType
  <2>4. SeatIndex(seated, i) = Cardinality(Below(i))
    BY DEF SeatIndex
  <2> HIDE DEF Below
  <2>5. QED
    BY <1>1, <2>3, <2>4
<1>3. ASSUME NEW i \in seated, NEW k \in seated, i < k
      PROVE  SeatIndex(seated, i) < SeatIndex(seated, k)
  <2>1. Below(i) \in SUBSET (Below(k) \ {i}) /\ i \in Below(k)
    <3>1. \A j \in seated : j < i => j < k /\ j # i
      BY <1>3
    <3>2. QED
      BY <1>3, <3>1
  <2>2. IsFiniteSet(Below(k))
    <3>1. Below(k) \in SUBSET seated
      OBVIOUS
    <3>2. QED
      BY <3>1, FS_Subset
  <2> HIDE DEF Below
  <2>3. /\ IsFiniteSet(Below(k) \ {i})
        /\ Cardinality(Below(k) \ {i}) = Cardinality(Below(k)) - 1
    BY <2>1, <2>2, FS_RemoveElement
  <2>4. /\ Cardinality(Below(i)) <= Cardinality(Below(k)) - 1
        /\ Cardinality(Below(i)) \in Nat /\ Cardinality(Below(k)) \in Nat
    <3>1. IsFiniteSet(Below(i)) /\ Cardinality(Below(i)) <= Cardinality(Below(k) \ {i})
      BY <2>1, <2>3, FS_Subset
    <3>2. QED
      BY <2>2, <2>3, <3>1, FS_CardinalityType
  <2>5. SeatIndex(seated, i) = Cardinality(Below(i)) /\ SeatIndex(seated, k) = Cardinality(Below(k))
    BY DEF SeatIndex, Below
  <2>6. QED
    BY <2>4, <2>5
<1>4. f \in Injection(seated, 0..(n - 1))
  <2>1. f \in [seated -> 0..(n - 1)]
    BY <1>2
  <2>2. ASSUME NEW i \in seated, NEW k \in seated, f[i] = f[k]
        PROVE  i = k
    <3>1. SeatIndex(seated, i) = SeatIndex(seated, k) /\ SeatIndex(seated, i) \in Nat
      BY <1>1, <1>2, <2>2
    <3>2. ~(i < k) /\ ~(k < i)
      BY <1>3, <3>1
    <3>3. QED
      BY <3>2
  <2>3. DOMAIN f = seated
    OBVIOUS
  <2> HIDE DEF f, n
  <2>4. IsInjective(f)
    BY <2>2, <2>3 DEF IsInjective
  <2>5. QED
    BY <2>1, <2>4 DEF Injection
<1>5. IsFiniteSet(0..(n - 1)) /\ Cardinality(0..(n - 1)) = n
  <2>1. CASE n = 0
    BY <1>1, <2>1, FS_Interval
  <2>2. CASE n > 0
    BY <1>1, <2>2, FS_Interval
  <2>3. QED
    BY <1>1, <2>1, <2>2
<1>6. f \in Surjection(seated, 0..(n - 1))
  <2> HIDE DEF f, n
  <2>1. Cardinality(seated) = Cardinality(0..(n - 1))
    BY <1>5 DEF n
  <2>2. QED
    BY <1>4, <1>5, <2>1, FS_Injection
<1>7. QED
  BY <1>4, <1>6 DEF Bijection

\* The slices of the field: none is larger than a table, and there are as many as
\* multiples of TableSize below the number of players.
LEMMA TablesAreFilled ==
    ASSUME NEW seated \in SUBSET Nat, IsFiniteSet(seated)
    PROVE  /\ \A table \in Seating(seated) : Cardinality(table) \in 1..TableSize
           /\ Cardinality(Seating(seated)) = (Cardinality(seated) + TableSize - 1) \div TableSize
<1> DEFINE n == Cardinality(seated)
           m == (n + TableSize - 1) \div TableSize
           index == [i \in seated |-> SeatIndex(seated, i)]
           Slice(q) == {j \in seated : TableOf(seated, j) = q}
<1>1. n \in Nat /\ TableSize \in Nat /\ TableSize > 0
  BY FS_CardinalityType, TableSizeAssumption
<1>2. m \in Nat /\ \A q \in Nat : q < m <=> TableSize * q < n
  BY <1>1, CeilIs
<1>3. /\ index \in [seated -> 0..(n - 1)]
      /\ \A i, k \in seated : index[i] = index[k] => i = k
      /\ \A k \in 0..(n - 1) : \E i \in seated : index[i] = k
  <2>1. index \in Bijection(seated, 0..(n - 1))
    BY SeatIndexCounts
  <2> HIDE DEF index, n
  <2>2. QED
    BY <2>1 DEF Bijection, Injection, Surjection, IsInjective
<1>4. ASSUME NEW i \in seated
      PROVE  /\ TableOf(seated, i) \in 0..(m - 1)
             /\ index[i] = TableSize * TableOf(seated, i) + (index[i] % TableSize)
             /\ index[i] % TableSize \in 0..(TableSize - 1)
  <2>1. index[i] \in 0..(n - 1) /\ TableOf(seated, i) = index[i] \div TableSize
    BY <1>3 DEF TableOf
  <2> DEFINE q == TableOf(seated, i)
             r == index[i] % TableSize
  <2>2. q \in Nat /\ r \in 0..(TableSize - 1) /\ index[i] = TableSize * q + r
    BY <1>1, <2>1, DivMod
  <2> HIDE DEF q, r, m, index
  <2>3. TableSize * q < n
    BY <1>1, <2>1, <2>2
  <2>4. q < m
    BY <1>2, <2>2, <2>3
  <2>5. q \in 0..(m - 1)
    BY <1>2, <2>2, <2>4
  <2>6. QED
    BY <2>2, <2>5 DEF q, r
<1>5. ASSUME NEW q \in 0..(m - 1)
      PROVE  \E i \in seated : TableOf(seated, i) = q
  <2>1. q \in Nat /\ TableSize * q \in Nat /\ TableSize * q < n
    BY <1>1, <1>2
  <2>2. PICK i \in seated : index[i] = TableSize * q
    BY <1>1, <1>3, <2>1
  <2>3. (TableSize * q + 0) \div TableSize = q
    BY <1>1, <2>1, DivIs
  <2>4. TableOf(seated, i) = (TableSize * q) \div TableSize
    BY <2>2 DEF TableOf
  <2>5. QED
    BY <2>1, <2>3, <2>4
<1>6. Seating(seated) = {Slice(TableOf(seated, i)) : i \in seated}
  BY DEF Seating
<1>7. ASSUME NEW table \in Seating(seated)
      PROVE  Cardinality(table) \in 1..TableSize
  <2>1. PICK i \in seated : table = Slice(TableOf(seated, i))
    BY <1>6
  <2> DEFINE place == [j \in table |-> index[j] % TableSize]
  <2>2. place \in [table -> 0..(TableSize - 1)]
    <3>1. \A j \in table : j \in seated
      BY <2>1
    <3> HIDE DEF index
    <3>2. QED
      BY <1>4, <3>1
  <2>3. ASSUME NEW j \in table, NEW k \in table, place[j] = place[k]
        PROVE  j = k
    <3>1. /\ j \in seated /\ k \in seated
          /\ TableOf(seated, j) = TableOf(seated, k)
      BY <2>1
    <3> HIDE DEF index
    <3>2. index[j] % TableSize = index[k] % TableSize
      BY <2>3
    <3>3. index[j] = index[k]
      BY <1>4, <3>1, <3>2
    <3>4. QED
      BY <1>3, <3>1, <3>3
  <2>4. DOMAIN place = table
    OBVIOUS
  <2> HIDE DEF place, index
  <2>5. place \in Injection(table, 0..(TableSize - 1))
    BY <2>2, <2>3, <2>4 DEF Injection, IsInjective
  <2>6. IsFiniteSet(0..(TableSize - 1)) /\ Cardinality(0..(TableSize - 1)) = TableSize
    <3>1. TableSize - 1 \in Int /\ ~(0 > TableSize - 1) /\ (TableSize - 1) - 0 + 1 = TableSize
      BY <1>1
    <3>2. QED
      BY <3>1, FS_Interval
  <2>7. IsFiniteSet(table) /\ Cardinality(table) <= TableSize
    BY <2>5, <2>6, FS_Injection
  <2>8. table # {}
    BY <2>1
  <2>9. QED
    BY <1>1, <2>7, <2>8, FS_CardinalityType, FS_EmptySet
<1>8. Cardinality(Seating(seated)) = m
  <2> DEFINE slices == [q \in 0..(m - 1) |-> Slice(q)]
  <2> HIDE DEF m, index
  <2>1. \A q \in 0..(m - 1) : slices[q] = Slice(q) /\ slices[q] \in Seating(seated)
    BY <1>5, <1>6
  <2>2. \A q \in 0..(m - 1) : \E i \in slices[q] : TableOf(seated, i) = q
    BY <1>5
  <2>3. \A q, p \in 0..(m - 1) : slices[q] = slices[p] => q = p
    BY <2>1, <2>2
  <2>4. \A table \in Seating(seated) : \E q \in 0..(m - 1) : slices[q] = table
    BY <1>4, <1>6
  <2>5. slices \in [0..(m - 1) -> Seating(seated)] /\ DOMAIN slices = 0..(m - 1)
    BY <2>1
  <2> HIDE DEF slices
  <2>6. slices \in Bijection(0..(m - 1), Seating(seated))
    BY <2>3, <2>4, <2>5 DEF Bijection, Injection, Surjection, IsInjective
  <2>7. IsFiniteSet(0..(m - 1)) /\ Cardinality(0..(m - 1)) = m
    <3>1. CASE m = 0
      BY <3>1, FS_Interval
    <3>2. CASE m > 0
      BY <1>2, <3>2, FS_Interval
    <3>3. QED
      BY <1>2, <3>1, <3>2
  <2>8. QED
    BY <2>6, <2>7, FS_Bijection DEF ExistsBijection
<1>9. QED
  BY <1>7, <1>8
LEMMA RoundSeatsEverybody ==
    ASSUME IInv, Start \/ AdvanceRound
    PROVE  LET tables == tournament'.tables
           IN  /\ UNION tables = tournament.alive
               /\ \A table \in tables : Cardinality(table) \in 1..TableSize
               /\ \A a, b \in tables : a = b \/ a \cap b = {}
               /\ Cardinality(tables)
                    = (Cardinality(tournament.alive) + TableSize - 1) \div TableSize
<1>1. PICK t \in Tournaments, hands \in [tournament.alive -> Strengths] :
           /\ t.state = "Running" /\ t.winner = NoPlayer
           /\ t.alive = tournament.alive
           /\ t.alive \subseteq DOMAIN t.entries
           /\ Cardinality(t.alive) >= 2
           /\ tournament' = Advanced(t, hands)
  BY RoundIsPlayed
<1> DEFINE tables == Seating(t.alive)
<1>2. tournament'.tables = tables
  BY <1>1, RoundPlayed
<1>3. t.alive \in SUBSET Nat /\ IsFiniteSet(t.alive)
  BY PositionsFinite DEF Tournaments
<1>4. /\ \A table \in tables : Cardinality(table) \in 1..TableSize
      /\ Cardinality(tables) = (Cardinality(t.alive) + TableSize - 1) \div TableSize
  BY <1>3, TablesAreFilled
<1>5. UNION tables = t.alive /\ \A a, b \in tables : a = b \/ a \cap b = {}
  BY SeatingPartitions
<1> HIDE DEF tables
<1>6. QED
  BY <1>1, <1>2, <1>4, <1>5

\* A step that registers nobody and changes the tournament is a round.
LEMMA RoundsAreThese ==
    ASSUME IInv, [Next]_tournament, IsRound
    PROVE  Start \/ AdvanceRound \/ UNCHANGED tournament
<1>1. ASSUME NEW p \in PlayerIds, Join(p)
      PROVE  FALSE
  <2>1. tournament.entries \in Seq(PlayerIds)
        /\ tournament'.entries = Append(tournament.entries, p)
    BY <1>1 DEF Join, Joined, IInv, TypeOK, Tournaments
  <2>2. Len(tournament'.entries) = Len(tournament.entries) + 1 /\ Len(tournament.entries) \in Nat
    BY <2>1
  <2>3. QED
    BY <2>2 DEF IsRound
<1>2. QED
  BY <1>1 DEF Next

\* In every round everybody who is left sits at exactly one table, the tables are
\* as few as possible and none seats more than TableSize, for which the deck is
\* big enough.
THEOREM EverybodyIsSeated == Spec => TablesPartition
<1> DEFINE Seated ==
        LET tables == tournament'.tables
        IN  IsRound =>
                /\ UNION tables = tournament.alive
                /\ \A table \in tables : Cardinality(table) \in 1..TableSize
                /\ \A a, b \in tables : a = b \/ a \cap b = {}
                /\ Cardinality(tables)
                     = (Cardinality(tournament.alive) + TableSize - 1) \div TableSize
<1>1. ASSUME IInv, [Next]_tournament
      PROVE  [Seated]_tournament
  <2>1. CASE ~IsRound
    BY <2>1
  <2>2. CASE UNCHANGED tournament
    BY <2>2
  <2>3. CASE Start \/ AdvanceRound
    BY <1>1, <2>3, RoundSeatsEverybody
  <2>4. QED
    BY <1>1, <2>1, <2>2, <2>3, RoundsAreThese
<1> HIDE DEF Seated
<1>2. Spec => [][Seated]_tournament
  BY <1>1, Invariance, PTL DEF Spec
<1>3. QED
  BY <1>2 DEF Seated, TablesPartition

-----------------------------------------------------------------------------
(* How fast the field shrinks *)

\* Each table is left by one player, and no two tables by the same.
LEMMA OneForEachTable ==
    ASSUME NEW t \in Tournaments, NEW hands \in [t.alive -> Strengths],
           t.alive \subseteq DOMAIN t.entries,
           \A i, j \in DOMAIN t.entries : t.entries[i] = t.entries[j] => i = j
    PROVE  Cardinality(Advancing(t, Seating(t.alive), hands)) = Cardinality(Seating(t.alive))
<1> DEFINE tables == Seating(t.alive)
           rest == Advancing(t, tables, hands)
           sent == [table \in tables |-> TableWinner(t.entries, table, hands)]
<1>1. /\ UNION tables = t.alive
      /\ \A a, b \in tables : a \cap b # {} => a = b
  BY SeatingPartitions
<1>2. IsFiniteSet(tables)
  <2>1. IsFiniteSet(t.alive)
    BY PositionsFinite DEF Tournaments
  <2>2. tables \in SUBSET SUBSET t.alive
    BY <1>1
  <2>3. QED
    BY <2>1, <2>2, FS_SUBSET, FS_Subset
<1>3. \A table \in tables : sent[table] \in table \cap rest
  BY TableSendsItsWinner
<1>4. \A table \in tables : \A i \in table \cap rest : i = sent[table]
  <2> SUFFICES ASSUME NEW table \in tables, NEW i \in table \cap rest
               PROVE  i = sent[table]
    OBVIOUS
  <2>1. t.entries[i] = t.entries[sent[table]]
    BY AdvancingFromTable
  <2>2. sent[table] \in table /\ table \subseteq t.alive
    BY <1>1, <1>3
  <2> HIDE DEF tables, rest, sent
  <2>3. QED
    BY <2>1, <2>2
<1>5. rest \subseteq t.alive
  BY DEF Advancing
<1>6. DOMAIN sent = tables
  OBVIOUS
<1>7. sent = [table \in tables |-> sent[table]]
  OBVIOUS
<1> HIDE DEF tables, rest, sent
<1>8. sent \in Bijection(tables, rest)
  <2>1. sent \in [tables -> rest]
    BY <1>3, <1>7
  <2>2. \A a, b \in tables : sent[a] = sent[b] => a = b
    BY <1>1, <1>3
  <2>3. \A i \in rest : \E table \in tables : sent[table] = i
    BY <1>1, <1>4, <1>5
  <2>4. sent \in Injection(tables, rest) /\ sent \in Surjection(tables, rest)
    BY <2>1, <2>2, <2>3 DEF Injection, IsInjective, Surjection
  <2>5. QED
    BY <2>4 DEF Bijection
<1>9. QED
  BY <1>2, <1>8, FS_Bijection DEF ExistsBijection, tables, rest

LEMMA FewerThanBefore ==
    ASSUME NEW n \in Nat, n >= 2
    PROVE  (n + TableSize - 1) \div TableSize < n
<1> DEFINE m == (n + TableSize - 1) \div TableSize
<1>1. TableSize \in Nat /\ TableSize > 0 /\ TableSize >= 2
  BY TableSizeAssumption
<1>2. m \in Nat /\ \A q \in Nat : q < m <=> TableSize * q < n
  BY <1>1, CeilIs
<1> HIDE DEF m
<1>3. TableSize * (n - 1) >= 2 * (n - 1)
  <2>1. n - 1 \in Nat /\ (n - 1) * 2 <= (n - 1) * TableSize
    BY <1>1, TimesMonotone
  <2>2. QED
    BY <1>1, <2>1
<1>4. TableSize * (n - 1) \in Nat /\ ~(TableSize * (n - 1) < n)
  BY <1>1, <1>3
<1>5. m < n
  BY <1>2, <1>4
<1>6. QED
  BY <1>5 DEF m

\* The measure that ends a tournament of distinct players: a round divides the
\* field by the size of a table, rounded up.
THEOREM RoundsShrink == Spec => RoundsShrinkTheField
<1> DEFINE Shrinks ==
        LET n == Cardinality(tournament.alive)
            left == Cardinality(tournament'.alive)
        IN  IsRound /\ DistinctEntries =>
                left = (n + TableSize - 1) \div TableSize /\ left < n
<1>1. ASSUME IInv, [Next]_tournament
      PROVE  [Shrinks]_tournament
  <2> SUFFICES ASSUME Start \/ AdvanceRound, DistinctEntries
               PROVE  LET n == Cardinality(tournament.alive)
                          left == Cardinality(tournament'.alive)
                      IN  left = (n + TableSize - 1) \div TableSize /\ left < n
    BY <1>1, RoundsAreThese
  <2>1. PICK t \in Tournaments, hands \in [tournament.alive -> Strengths] :
             /\ t.state = "Running" /\ t.winner = NoPlayer
             /\ t.entries = tournament.entries /\ t.alive = tournament.alive
             /\ t.alive \subseteq DOMAIN t.entries
             /\ Cardinality(t.alive) >= 2
             /\ tournament' = Advanced(t, hands)
    BY <1>1, RoundIsPlayed
  <2>2. tournament'.alive = Advancing(t, Seating(t.alive), hands)
    BY <2>1, RoundPlayed
  <2>3. Cardinality(tournament'.alive) = Cardinality(Seating(t.alive))
    BY <2>1, <2>2, OneForEachTable DEF DistinctEntries
  <2>4. /\ t.alive \in SUBSET Nat /\ IsFiniteSet(t.alive)
        /\ Cardinality(t.alive) \in Nat
    BY PositionsFinite DEF Tournaments
  <2>5. Cardinality(Seating(t.alive)) = (Cardinality(t.alive) + TableSize - 1) \div TableSize
    BY <2>4, TablesAreFilled
  <2>6. QED
    BY <2>1, <2>3, <2>4, <2>5, FewerThanBefore
<1> HIDE DEF Shrinks
<1>2. Spec => [][Shrinks]_tournament
  BY <1>1, Invariance, PTL DEF Spec
<1>3. QED
  BY <1>2 DEF Shrinks, RoundsShrinkTheField

-----------------------------------------------------------------------------
(* Refinement of Knockout *)

LEMMA RoundNarrowsOrCrowns ==
    ASSUME IInv, Start \/ AdvanceRound
    PROVE  KO!Next
<1>1. PICK t \in Tournaments, hands \in [tournament.alive -> Strengths] :
           /\ t.state = "Running" /\ t.winner = NoPlayer
           /\ t.entries = tournament.entries /\ t.alive = tournament.alive
           /\ t.alive \subseteq DOMAIN t.entries
           /\ Cardinality(t.alive) >= 2
           /\ tournament' = Advanced(t, hands)
  BY RoundIsPlayed
<1> DEFINE rest == tournament'.alive
<1>2. /\ tournament' \in Tournaments
      /\ tournament'.entries = tournament.entries
      /\ rest \subseteq tournament.alive
      /\ \/ /\ tournament'.state = "Running"
            /\ tournament'.winner = NoPlayer
            /\ Cardinality(rest) >= 2
         \/ /\ tournament'.state = "Finished"
            /\ \E i \in rest :
                  rest = {i} /\ tournament'.winner = tournament'.entries[i]
  BY <1>1, RoundPlayed
<1>3. tournament.state \in {"Registering", "Running"} /\ tournament.winner = NoPlayer
  BY DEF Start, CanStart, AdvanceRound, IInv, Registration, WinnerIsLastOneStanding
<1>4. /\ IsFiniteSet(rest) /\ IsFiniteSet(tournament.alive)
      /\ \E i, j \in tournament.alive : i # j
  <2>1. IsFiniteSet(rest) /\ IsFiniteSet(tournament.alive)
    BY <1>2, PositionsFinite DEF IInv, TypeOK, Tournaments
  <2>2. QED
    BY <1>1, <2>1, TwoElements
<1>5. CASE tournament'.state = "Running"
  <2>1. \E i, j \in rest : i # j
    BY <1>2, <1>4, <1>5, TwoElements
  <2>2. KO!Narrow(rest)
    BY <1>2, <1>3, <1>5, <2>1 DEF KO!Narrow
  <2>3. QED
    BY <1>2, <2>2 DEF KO!Next
<1>6. CASE tournament'.state = "Finished"
  <2>1. PICK i \in rest : rest = {i} /\ tournament'.winner = tournament.entries[i]
    BY <1>2, <1>6
  <2>2. KO!Crown(i)
    BY <1>2, <1>3, <1>4, <1>6, <2>1 DEF KO!Crown
  <2>3. QED
    BY <1>2, <2>1, <2>2 DEF KO!Next
<1>7. QED
  BY <1>2, <1>5, <1>6

\* A tournament implements Knockout: after registration every step drops
\* players, never the last of them, and the title is given once.
THEOREM ImplementsKnockout == Spec => KnocksOut
<1>1. Init => KO!Init
  BY DEF Init, NewTournament, KO!Init
<1>2. ASSUME IInv, [Next]_tournament
      PROVE  [KO!Next]_(KO!vars)
  <2>1. ASSUME NEW p \in PlayerIds, Join(p)
        PROVE  KO!Register(p)
    BY <1>2, <2>1 DEF Join, CanJoin, Joined, KO!Register, IInv, TypeOK, Tournaments
  <2>2. CASE Start \/ AdvanceRound
    BY <1>2, <2>2, RoundNarrowsOrCrowns
  <2>3. CASE UNCHANGED tournament
    BY <2>3 DEF KO!vars
  <2>4. QED
    BY <1>2, <2>1, <2>2, <2>3 DEF Next, KO!Next
<1>3. QED
  BY <1>1, <1>2, Invariance, PTL DEF Spec, KnocksOut, KO!Spec

=============================================================================
