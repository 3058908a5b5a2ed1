--------------------------- MODULE EvaluatorProofs ---------------------------
(***************************************************************************)
(* Proofs about Evaluator: operator< is a strict order of the values, and  *)
(* what the rules say of the hands holds of each of them.                  *)
(***************************************************************************)
EXTENDS Evaluator, CommonLemmas

-----------------------------------------------------------------------------
(* operator< *)

\* Lists of numbers, compared like std::vector.
LEMMA NothingIsLessThanItself ==
    ASSUME NEW a \in Seq(Nat)
    PROVE  ~LexLess(a, a)
<1> SUFFICES ASSUME NEW n \in 1..Len(a), n <= Len(a) => a[n] < a[n]
             PROVE  FALSE
  BY DEF LexLess
<1>1. n <= Len(a) /\ a[n] \in Nat
  OBVIOUS
<1>2. QED
  BY <1>1

LEMMA LexLessPassesOn ==
    ASSUME NEW a \in Seq(Nat), NEW b \in Seq(Nat), NEW c \in Seq(Nat),
           LexLess(a, b), LexLess(b, c)
    PROVE  LexLess(a, c)
<1>1. PICK m \in 1..Len(b) : /\ m <= Len(a) + 1
                             /\ \A i \in 1..(m - 1) : a[i] = b[i]
                             /\ m <= Len(a) => a[m] < b[m]
  BY DEF LexLess
<1>2. PICK n \in 1..Len(c) : /\ n <= Len(b) + 1
                             /\ \A i \in 1..(n - 1) : b[i] = c[i]
                             /\ n <= Len(b) => b[n] < c[n]
  BY DEF LexLess
<1>3. /\ Len(a) \in Nat /\ Len(b) \in Nat /\ Len(c) \in Nat
      /\ \A k \in 1..Len(a) : a[k] \in Nat
      /\ \A k \in 1..Len(b) : b[k] \in Nat
      /\ \A k \in 1..Len(c) : c[k] \in Nat
  OBVIOUS
<1>4. CASE m < n
  <2>1. /\ m \in 1..Len(c) /\ m <= Len(a) + 1
        /\ \A i \in 1..(m - 1) : a[i] = c[i]
        /\ b[m] = c[m]
    BY <1>1, <1>2, <1>3, <1>4
  <2>2. m <= Len(a) => a[m] < c[m]
    BY <1>1, <2>1
  <2>3. QED
    BY <2>1, <2>2 DEF LexLess
<1>5. CASE n <= m
  <2>1. n <= Len(a) + 1 /\ n <= Len(b) /\ m \in Nat /\ n \in Nat
    BY <1>1, <1>2, <1>3, <1>5
  <2>2. \A i \in 1..(n - 1) : a[i] = c[i]
    <3> SUFFICES ASSUME NEW i \in 1..(n - 1)
                 PROVE  a[i] = c[i]
      OBVIOUS
    <3>1. i \in 1..(m - 1)
      BY <1>5, <2>1
    <3>2. a[i] = b[i]
      BY <1>1, <3>1
    <3>3. QED
      BY <1>2, <3>2
  <2>3. ASSUME n <= Len(a)
        PROVE  a[n] < c[n]
    <3>1. a[n] <= b[n]
      <4>1. CASE n < m
        <5>1. n \in 1..(m - 1) /\ n \in 1..Len(a)
          BY <1>2, <2>1, <2>3, <4>1
        <5>2. a[n] = b[n] /\ a[n] \in Nat
          BY <1>1, <1>3, <5>1
        <5>3. QED
          BY <5>2
      <4>2. CASE n = m
        <5>1. n \in 1..Len(a) /\ n \in 1..Len(b)
          BY <1>2, <1>3, <2>1, <2>3
        <5>2. a[n] < b[n] /\ a[n] \in Nat /\ b[n] \in Nat
          BY <1>1, <1>3, <2>3, <4>2, <5>1
        <5>3. QED
          BY <5>2
      <4>3. QED
        BY <1>5, <4>1, <4>2
    <3>2. b[n] < c[n]
      BY <1>2, <2>1
    <3>3. a[n] \in Nat /\ b[n] \in Nat /\ c[n] \in Nat
      <4>1. n \in 1..Len(a) /\ n \in 1..Len(b) /\ n \in 1..Len(c)
        BY <1>2, <1>3, <2>1, <2>3
      <4>2. QED
        BY <1>3, <4>1
    <3>4. QED
      BY <3>1, <3>2, <3>3
  <2>4. QED
    BY <1>2, <2>1, <2>3, <2>2 DEF LexLess
<1>6. QED
  BY <1>3, <1>4, <1>5

LEMMA LexLessDecides ==
    ASSUME NEW a \in Seq(Nat), NEW b \in Seq(Nat), a # b
    PROVE  LexLess(a, b) \/ LexLess(b, a)
<1>1. /\ Len(a) \in Nat /\ Len(b) \in Nat
      /\ \A k \in 1..Len(a) : a[k] \in Nat
      /\ \A k \in 1..Len(b) : b[k] \in Nat
  OBVIOUS
<1> DEFINE Differ == {n \in Nat : n \in 1..Len(a) /\ n \in 1..Len(b) /\ a[n] # b[n]}
<1>2. CASE Differ = {}
  <2>1. \A k \in Nat : k \in 1..Len(a) /\ k \in 1..Len(b) => a[k] = b[k]
    BY <1>2
  <2> HIDE DEF Differ
  <2>2. Len(a) # Len(b)
    <3> SUFFICES ASSUME Len(a) = Len(b)
                 PROVE  FALSE
      OBVIOUS
    <3>1. \A k \in 1..Len(a) : a[k] = b[k]
      BY <1>1, <2>1
    <3>2. QED
      BY <3>1, SeqEqual
  <2>3. CASE Len(a) < Len(b)
    <3>1. /\ Len(a) + 1 \in 1..Len(b) /\ Len(a) + 1 <= Len(a) + 1
          /\ \A k \in 1..(Len(a) + 1 - 1) : a[k] = b[k]
          /\ ~(Len(a) + 1 <= Len(a))
      BY <1>1, <2>3, <2>1
    <3>2. QED
      BY <3>1 DEF LexLess
  <2>4. CASE Len(b) < Len(a)
    <3>1. /\ Len(b) + 1 \in 1..Len(a) /\ Len(b) + 1 <= Len(b) + 1
          /\ \A k \in 1..(Len(b) + 1 - 1) : b[k] = a[k]
          /\ ~(Len(b) + 1 <= Len(b))
      BY <1>1, <2>4, <2>1
    <3>2. QED
      BY <3>1 DEF LexLess
  <2>5. QED
    BY <1>1, <2>2, <2>3, <2>4
<1>3. CASE Differ # {}
  <2>1. PICK n \in Differ : \A k \in Differ : n <= k
    <3>1. Differ \in SUBSET Nat
      OBVIOUS
    <3>2. QED
      BY <1>3, <3>1, LeastNat
  <2>2. n \in Nat /\ n \in 1..Len(a) /\ n \in 1..Len(b) /\ a[n] # b[n]
    BY <2>1
  <2>3. ASSUME NEW k \in 1..(n - 1)
        PROVE  a[k] = b[k]
    <3>1. k \in Nat /\ k \in 1..Len(a) /\ k \in 1..Len(b) /\ ~(n <= k)
      BY <1>1, <2>2
    <3>2. k \notin Differ
      BY <2>1, <3>1
    <3>3. QED
      BY <3>1, <3>2
  <2> HIDE DEF Differ
  <2>4. a[n] < b[n] \/ b[n] < a[n]
    BY <1>1, <2>2
  <2>5. n <= Len(a) + 1 /\ n <= Len(b) + 1 /\ n <= Len(a) /\ n <= Len(b)
    BY <1>1, <2>2
  <2>6. \A k \in 1..(n - 1) : a[k] = b[k] /\ b[k] = a[k]
    BY <2>3
  <2>7. CASE a[n] < b[n]
    <3>1. LexLess(a, b)
      BY <2>2, <2>5, <2>6, <2>7 DEF LexLess
    <3>2. QED
      BY <3>1
  <2>8. CASE b[n] < a[n]
    <3>1. LexLess(b, a)
      BY <2>2, <2>5, <2>6, <2>8 DEF LexLess
    <3>2. QED
      BY <3>1
  <2>9. QED
    BY <2>4, <2>7, <2>8
<1>4. QED
  BY <1>2, <1>3

\* Whatever HandValue can hold.
HandValues == [category : Nat, score : Nat, kickers : Seq(Nat)]

\* HandValue::operator< is a strict order of which any two values have one first.
LEMMA LessIsAnOrder ==
    /\ \A x \in HandValues : ~Less(x, x)
    /\ \A x, y, z \in HandValues : Less(x, y) /\ Less(y, z) => Less(x, z)
    /\ \A x, y \in HandValues : x # y => Less(x, y) \/ Less(y, x)
<1>1. \A x \in HandValues : x.category \in Nat /\ x.score \in Nat /\ x.kickers \in Seq(Nat)
  BY DEF HandValues
<1>2. ASSUME NEW x \in HandValues
      PROVE  ~Less(x, x)
  BY <1>1, NothingIsLessThanItself DEF Less
<1>3. ASSUME NEW x \in HandValues, NEW y \in HandValues, NEW z \in HandValues,
             Less(x, y), Less(y, z)
      PROVE  Less(x, z)
  <2>1. LexLess(x.kickers, y.kickers) /\ LexLess(y.kickers, z.kickers)
           => LexLess(x.kickers, z.kickers)
    BY <1>1, LexLessPassesOn
  <2>2. /\ x.category \in Nat /\ y.category \in Nat /\ z.category \in Nat
        /\ x.score \in Nat /\ y.score \in Nat /\ z.score \in Nat
    BY <1>1
  <2>3. QED
    BY <1>3, <2>1, <2>2 DEF Less
<1>4. ASSUME NEW x \in HandValues, NEW y \in HandValues, x # y
      PROVE  Less(x, y) \/ Less(y, x)
  <2>1. x.category # y.category \/ x.score # y.score \/ x.kickers # y.kickers
    BY <1>4 DEF HandValues
  <2>2. x.kickers # y.kickers => LexLess(x.kickers, y.kickers) \/ LexLess(y.kickers, x.kickers)
    BY <1>1, LexLessDecides
  <2>3. QED
    BY <1>1, <2>1, <2>2 DEF Less
<1>5. QED
  BY <1>2, <1>3, <1>4

-----------------------------------------------------------------------------
(* std::sort *)

\* The three numbers of v, in this order.
Arranged(v, x, y, z) ==
    \/ <<x, y, z>> = <<v[1], v[2], v[3]>>
    \/ <<x, y, z>> = <<v[1], v[3], v[2]>>
    \/ <<x, y, z>> = <<v[2], v[1], v[3]>>
    \/ <<x, y, z>> = <<v[2], v[3], v[1]>>
    \/ <<x, y, z>> = <<v[3], v[1], v[2]>>
    \/ <<x, y, z>> = <<v[3], v[2], v[1]>>

\* There is one way to sort three numbers, and Sorted finds it.
LEMMA SortedIs ==
    ASSUME NEW v, v[1] \in Nat, v[2] \in Nat, v[3] \in Nat
    PROVE  /\ \E x, y, z \in Nat : /\ Arranged(v, x, y, z) /\ x <= y /\ y <= z
                                   /\ Sorted(v) = <<x, y, z>>
           /\ \A x, y, z : Arranged(v, x, y, z) /\ x <= y /\ y <= z => Sorted(v) = <<x, y, z>>
<1> DEFINE Ways == {<<v[p[1]], v[p[2]], v[6 - p[1] - p[2]]>> :
                       p \in {q \in (1..3) \X (1..3) : q[1] # q[2]}}
<1>1. \A x, y, z : Arranged(v, x, y, z) <=> <<x, y, z>> \in Ways
  <2>1. ASSUME NEW x, NEW y, NEW z, Arranged(v, x, y, z)
        PROVE  <<x, y, z>> \in Ways
    <3> DEFINE Way(p, q) == <<v[p], v[q], v[6 - p - q]>>
    <3>1. \A p, q \in 1..3 : p # q => Way(p, q) \in Ways
      <4> SUFFICES ASSUME NEW p \in 1..3, NEW q \in 1..3, p # q
                   PROVE  Way(p, q) \in Ways
        OBVIOUS
      <4>1. <<p, q>> \in {r \in (1..3) \X (1..3) : r[1] # r[2]}
        OBVIOUS
      <4>2. QED
        BY <4>1
    <3>2. /\ <<v[1], v[2], v[3]>> = Way(1, 2) /\ <<v[1], v[3], v[2]>> = Way(1, 3)
          /\ <<v[2], v[1], v[3]>> = Way(2, 1) /\ <<v[2], v[3], v[1]>> = Way(2, 3)
          /\ <<v[3], v[1], v[2]>> = Way(3, 1) /\ <<v[3], v[2], v[1]>> = Way(3, 2)
      OBVIOUS
    <3> HIDE DEF Ways, Way
    <3>3. QED
      BY <2>1, <3>1, <3>2 DEF Arranged
  <2>2. ASSUME NEW x, NEW y, NEW z, <<x, y, z>> \in Ways
        PROVE  Arranged(v, x, y, z)
    <3>1. PICK p \in 1..3, q \in 1..3 :
             p # q /\ <<x, y, z>> = <<v[p], v[q], v[6 - p - q]>>
      BY <2>2
    <3>2. p \in {1, 2, 3} /\ q \in {1, 2, 3}
      BY <3>1
    <3>3. QED
      BY <3>1, <3>2 DEF Arranged
  <2>3. QED
    BY <2>1, <2>2
<1>2. \A w \in Ways : \E x, y, z : w = <<x, y, z>>
  OBVIOUS
<1> HIDE DEF Ways
<1>3. PICK x \in Nat, y \in Nat, z \in Nat : Arranged(v, x, y, z) /\ x <= y /\ y <= z
  <2>1. \E x, y, z \in Nat : /\ x <= y /\ y <= z
                             /\ x \in {v[1], v[2], v[3]} /\ Arranged(v, x, y, z)
    BY DEF Arranged
  <2>2. QED
    BY <2>1
<1>4. \A a, b, c : Arranged(v, a, b, c) /\ a <= b /\ b <= c => a = x /\ b = y /\ c = z
  BY <1>3 DEF Arranged
<1>5. Sorted(v) = <<x, y, z>>
  <2>1. Sorted(v) = CHOOSE w \in Ways : w[1] <= w[2] /\ w[2] <= w[3]
    BY DEF Sorted, Ways
  <2>2. <<x, y, z>> \in Ways /\ <<x, y, z>>[1] <= <<x, y, z>>[2] /\ <<x, y, z>>[2] <= <<x, y, z>>[3]
    BY <1>1, <1>3
  <2>3. \A w \in Ways : w[1] <= w[2] /\ w[2] <= w[3] => w = <<x, y, z>>
    BY <1>1, <1>2, <1>4
  <2>4. QED
    BY <2>1, <2>2, <2>3
<1>6. QED
  BY <1>3, <1>4, <1>5

-----------------------------------------------------------------------------
(* evaluate_without_joker, by the sorted points of the cards *)

Points(cards) == [i \in 1..3 |-> Value(cards[i])]

ValueOf(x, y, z, flush) ==
    IF x = z THEN HandValue(ThreeOfAKind, 300 + z, <<z>>)
    ELSE IF flush /\ x + 1 = y /\ y + 1 = z THEN HandValue(StraightFlush, 250 + z, <<z>>)
    ELSE IF flush THEN HandValue(Flush, 200 + x + y + z, <<z, y, x>>)
    ELSE IF x + 1 = y /\ y + 1 = z THEN HandValue(Straight, 150 + z, <<z>>)
    ELSE IF y \in {x, z}
         THEN HandValue(Pair, 100 + y * 10 + (IF x = y THEN z ELSE x), <<y, IF x = y THEN z ELSE x>>)
    ELSE HandValue(HighCard, z, <<z, y, x>>)

LEMMA WithoutJokerIs ==
    ASSUME NEW cards, NEW x \in Nat, NEW y \in Nat, NEW z \in Nat,
           Arranged(Points(cards), x, y, z), x <= y, y <= z
    PROVE  WithoutJoker(cards) = ValueOf(x, y, z, IsFlush(cards))
<1> DEFINE v == Sorted(Points(cards))
<1>1. v = <<x, y, z>>
  <2>1. \A i \in 1..3 : Points(cards)[i] \in {x, y, z}
    <3>1. Points(cards)[1] \in {x, y, z} /\ Points(cards)[2] \in {x, y, z} /\ Points(cards)[3] \in {x, y, z}
      BY DEF Arranged
    <3>2. QED
      BY <3>1
  <2>2. QED
    BY <2>1, SortedIs
<1>2. v[1] = x /\ v[2] = y /\ v[3] = z
  BY <1>1
<1>3. WithoutJoker(cards) =
         LET down == <<v[3], v[2], v[1]>>
             kicker == IF v[1] = v[2] THEN v[3] ELSE v[1]
         IN  IF v[1] = v[3] THEN HandValue(ThreeOfAKind, 300 + v[3], <<v[3]>>)
             ELSE IF IsFlush(cards) /\ IsStraight(v)
                  THEN HandValue(StraightFlush, 250 + v[3], <<v[3]>>)
             ELSE IF IsFlush(cards) THEN HandValue(Flush, 200 + v[1] + v[2] + v[3], down)
             ELSE IF IsStraight(v) THEN HandValue(Straight, 150 + v[3], <<v[3]>>)
             ELSE IF v[2] \in {v[1], v[3]}
                  THEN HandValue(Pair, 100 + v[2] * 10 + kicker, <<v[2], kicker>>)
             ELSE HandValue(HighCard, v[3], down)
  BY DEF WithoutJoker, Points
<1>4. IsStraight(v) <=> x + 1 = y /\ y + 1 = z
  BY <1>2 DEF IsStraight
<1> HIDE DEF v
<1>5. QED
  BY <1>2, <1>3, <1>4 DEF ValueOf

LEMMA ValueOfType ==
    ASSUME NEW x \in Nat, NEW y \in Nat, NEW z \in Nat, NEW flush \in BOOLEAN
    PROVE  ValueOf(x, y, z, flush) \in HandValues
<1> DEFINE kicker == IF x = y THEN z ELSE x
<1>1. \A c, s \in Nat, k \in Seq(Nat) : HandValue(c, s, k) \in HandValues
  BY DEF HandValue, HandValues
<1>2. /\ HighCard \in Nat /\ Pair \in Nat /\ Straight \in Nat /\ Flush \in Nat
      /\ StraightFlush \in Nat /\ ThreeOfAKind \in Nat
  BY DEF HighCard, Pair, Straight, Flush, StraightFlush, ThreeOfAKind
<1>3. /\ kicker \in Nat /\ <<z>> \in Seq(Nat) /\ <<z, y, x>> \in Seq(Nat)
      /\ 300 + z \in Nat /\ 250 + z \in Nat /\ 200 + x + y + z \in Nat /\ 150 + z \in Nat
  OBVIOUS
<1> HIDE DEF kicker
<1>4. <<y, kicker>> \in Seq(Nat) /\ 100 + y * 10 + kicker \in Nat
  BY <1>3
<1>5. /\ HandValue(ThreeOfAKind, 300 + z, <<z>>) \in HandValues
      /\ HandValue(StraightFlush, 250 + z, <<z>>) \in HandValues
      /\ HandValue(Flush, 200 + x + y + z, <<z, y, x>>) \in HandValues
      /\ HandValue(Straight, 150 + z, <<z>>) \in HandValues
      /\ HandValue(Pair, 100 + y * 10 + kicker, <<y, kicker>>) \in HandValues
      /\ HandValue(HighCard, z, <<z, y, x>>) \in HandValues
  BY <1>1, <1>2, <1>3, <1>4
<1>6. QED
  BY <1>5 DEF ValueOf, kicker

\* Two hands of the same value have the same points, card by card.
LEMMA ValueTellsPoints ==
    ASSUME NEW x \in Nat, NEW y \in Nat, NEW z \in Nat, NEW flush \in BOOLEAN, x <= y, y <= z,
           NEW a \in Nat, NEW b \in Nat, NEW c \in Nat, NEW suited \in BOOLEAN, a <= b, b <= c,
           ValueOf(x, y, z, flush) = ValueOf(a, b, c, suited)
    PROVE  x = a /\ y = b /\ z = c
<1> DEFINE v == ValueOf(x, y, z, flush)
           w == ValueOf(a, b, c, suited)
<1>1. v.category = w.category /\ v.kickers = w.kickers
  OBVIOUS
<1>2. /\ v.category = ThreeOfAKind => x = z /\ v.kickers = <<z>>
      /\ v.category \in {Straight, StraightFlush} => x + 1 = y /\ y + 1 = z /\ v.kickers = <<z>>
      /\ v.category \in {Flush, HighCard} => v.kickers = <<z, y, x>>
      /\ v.category = Pair => y \in {x, z} /\ x # z /\ v.kickers = <<y, IF x = y THEN z ELSE x>>
      /\ v.category \in {ThreeOfAKind, Straight, StraightFlush, Flush, HighCard, Pair}
  BY DEF ValueOf, HandValue, HighCard, Pair, Straight, Flush, StraightFlush, ThreeOfAKind
<1>3. /\ w.category = ThreeOfAKind => a = c /\ w.kickers = <<c>>
      /\ w.category \in {Straight, StraightFlush} => a + 1 = b /\ b + 1 = c /\ w.kickers = <<c>>
      /\ w.category \in {Flush, HighCard} => w.kickers = <<c, b, a>>
      /\ w.category = Pair => b \in {a, c} /\ a # c /\ w.kickers = <<b, IF a = b THEN c ELSE a>>
  BY DEF ValueOf, HandValue, HighCard, Pair, Straight, Flush, StraightFlush, ThreeOfAKind
<1> HIDE DEF v, w
<1>4. CASE v.category = ThreeOfAKind
  BY <1>1, <1>2, <1>3, <1>4
<1>5. CASE v.category \in {Straight, StraightFlush}
  BY <1>1, <1>2, <1>3, <1>5
<1>6. CASE v.category \in {Flush, HighCard}
  BY <1>1, <1>2, <1>3, <1>6
<1>7. CASE v.category = Pair
  BY <1>1, <1>2, <1>3, <1>7
<1>8. QED
  BY <1>2, <1>4, <1>5, <1>6, <1>7

-----------------------------------------------------------------------------
(* The deck and the hands *)

SuitNames == {"Spades", "Hearts", "Diamonds", "Clubs"}

PlainCards == [rank : 10..14, suit : SuitNames, joker : {FALSE}]

LEMMA DeckIs ==
    /\ \A n \in 1..21 : Deck[n] \in PlainCards \cup {Joker}
    /\ \A m, n \in 1..21 : Deck[m] = Deck[n] => m = n
<1> DEFINE r(n) == ((n - 1) % 5) + 1
           q(n) == ((n - 1) \div 5) + 1
<1>1. \A n \in 1..20 : r(n) \in 1..5 /\ q(n) \in 1..4 /\ n = 5 * (q(n) - 1) + r(n)
  OBVIOUS
<1>2. /\ \A k \in 1..5 : Ranks[k] = 9 + k
      /\ \A k \in 1..4 : Suits[k] \in SuitNames
      /\ \A k, m \in 1..4 : Suits[k] = Suits[m] => k = m
  <2>1. \A k \in 1..5 : k \in {1, 2, 3, 4, 5}
    OBVIOUS
  <2>2. \A k \in 1..4 : k \in {1, 2, 3, 4}
    OBVIOUS
  <2>3. QED
    BY <2>1, <2>2 DEF Ranks, Suits, SuitNames
<1>3. \A n \in 1..20 : Deck[n] = Card(Ranks[r(n)], Suits[q(n)])
  BY DEF Deck
<1>4. Deck[21] = Joker
  BY DEF Deck
<1> HIDE DEF r, q
<1>5. ASSUME NEW n \in 1..20
      PROVE  /\ Deck[n] = [rank |-> 9 + r(n), suit |-> Suits[q(n)], joker |-> FALSE]
             /\ Deck[n] \in PlainCards
  <2>1. Deck[n] = [rank |-> 9 + r(n), suit |-> Suits[q(n)], joker |-> FALSE]
    BY <1>1, <1>2, <1>3 DEF Card
  <2>2. 9 + r(n) \in 10..14 /\ Suits[q(n)] \in SuitNames
    BY <1>1, <1>2
  <2>3. QED
    BY <2>1, <2>2 DEF PlainCards
<1>6. ASSUME NEW m \in 1..20, NEW n \in 1..20, Deck[m] = Deck[n]
      PROVE  m = n
  <2>1. 9 + r(m) = 9 + r(n) /\ Suits[q(m)] = Suits[q(n)]
    BY <1>5, <1>6
  <2>2. r(m) = r(n) /\ q(m) = q(n)
    BY <1>1, <1>2, <2>1
  <2>3. QED
    BY <1>1, <2>2
<1>7. \A n \in 1..20 : Deck[n] # Joker
  BY <1>5 DEF Joker
<1>8. \A n \in 1..21 : n \in 1..20 \/ n = 21
  OBVIOUS
<1>9. QED
  BY <1>4, <1>5, <1>6, <1>7, <1>8

\* Three different cards, of which one at most is the joker.
LEMMA DealsAre ==
    ASSUME NEW cards \in Deals
    PROVE  /\ cards = <<cards[1], cards[2], cards[3]>>
           /\ DOMAIN cards = 1..3
           /\ \A i \in 1..3 : cards[i] \in PlainCards \cup {Joker}
           /\ \A i, j \in 1..3 : cards[i] = cards[j] => i = j
<1>1. PICK a \in 1..21, b \in 1..21, c \in 1..21 :
         a # b /\ a # c /\ b # c /\ cards = <<Deck[a], Deck[b], Deck[c]>>
  BY DEF Deals
<1>2. cards[1] = Deck[a] /\ cards[2] = Deck[b] /\ cards[3] = Deck[c] /\ DOMAIN cards = 1..3
  BY <1>1
<1>3. \A i \in 1..3 : i \in {1, 2, 3}
  OBVIOUS
<1>4. \A i \in 1..3 : cards[i] \in PlainCards \cup {Joker}
  BY <1>2, <1>3, DeckIs
<1>5. cards[1] # cards[2] /\ cards[1] # cards[3] /\ cards[2] # cards[3]
  BY <1>1, <1>2, DeckIs
<1>6. QED
  BY <1>1, <1>2, <1>3, <1>4, <1>5

LEMMA CardFacts ==
    /\ \A c \in PlainCards : /\ c.rank \in 10..14 /\ c.suit \in SuitNames
                             /\ c.joker = FALSE /\ Value(c) = c.rank
    /\ Joker.rank = 0 /\ Joker.joker = TRUE /\ Joker.suit = "None" /\ "None" \notin SuitNames
    /\ \A n : /\ Card(n, "None").rank = n /\ Card(n, "None").suit = "None"
              /\ Card(n, "None").joker = FALSE /\ Value(Card(n, "None")) = n
BY DEF PlainCards, SuitNames, Joker, Card, Value

\* A card of no suit spoils the flush.
LEMMA NoFlush ==
    ASSUME NEW cards, NEW i \in DOMAIN cards, cards[i].suit = "None"
    PROVE  IsFlush(cards) = FALSE
BY DEF IsFlush

\* The two candidates of the joker: the copy of the higher card wins.
LEMMA HigherCopyWins ==
    ASSUME NEW low \in 10..14, NEW high \in 10..14, low <= high
    PROVE  /\ MaxElement(ValueOf(low, high, high, FALSE), ValueOf(low, low, high, FALSE))
                = ValueOf(low, high, high, FALSE)
           /\ MaxElement(ValueOf(low, low, high, FALSE), ValueOf(low, high, high, FALSE))
                = ValueOf(low, high, high, FALSE)
<1> DEFINE weak == ValueOf(low, low, high, FALSE)
           strong == ValueOf(low, high, high, FALSE)
<1>1. CASE low = high
  BY <1>1 DEF MaxElement
<1>2. CASE low < high
  <2>1. weak = HandValue(Pair, 100 + low * 10 + high, <<low, high>>)
    BY <1>2 DEF ValueOf
  <2>2. strong = HandValue(Pair, 100 + high * 10 + low, <<high, low>>)
    BY <1>2 DEF ValueOf
  <2> HIDE DEF weak, strong
  <2>3. /\ weak.category = Pair /\ strong.category = Pair
        /\ weak.score = 100 + low * 10 + high /\ strong.score = 100 + high * 10 + low
    BY <2>1, <2>2 DEF HandValue
  <2>4. weak.score < strong.score /\ ~(strong.score < weak.score) /\ weak.score # strong.score
    <3>1. low \in Nat /\ high \in Nat
      OBVIOUS
    <3>2. QED
      BY <1>2, <2>3, <3>1
  <2>5. Less(weak, strong) /\ ~Less(strong, weak)
    BY <2>3, <2>4 DEF Less, Pair
  <2>6. QED
    BY <2>5 DEF MaxElement, weak, strong
<1>3. low = high \/ low < high
  OBVIOUS
<1>4. QED
  BY <1>1, <1>2, <1>3

\* A hand as it is played: its sorted points, and what it is worth by them.
PlaysAs(cards, x, y, z) ==
    /\ x <= y /\ y <= z
    /\ Arranged(Points(Played(cards)), x, y, z)
    /\ \A i \in 1..3 : /\ Played(cards)[i].joker = FALSE
                       /\ Played(cards)[i].rank = Points(Played(cards))[i]
                       /\ Played(cards)[i].rank \in 10..14
    /\ EvaluateHand(cards) = ValueOf(x, y, z, IsFlush(Played(cards)))
    /\ WithoutJoker(Played(cards)) = ValueOf(x, y, z, IsFlush(Played(cards)))

\* Three numbers can be sorted.
LEMMA Sortable ==
    ASSUME NEW v, v[1] \in 10..14, v[2] \in 10..14, v[3] \in 10..14
    PROVE  \E x, y, z \in 10..14 : Arranged(v, x, y, z) /\ x <= y /\ y <= z
<1>1. PICK x \in Nat, y \in Nat, z \in Nat : Arranged(v, x, y, z) /\ x <= y /\ y <= z
  BY SortedIs
<1>2. x \in 10..14 /\ y \in 10..14 /\ z \in 10..14
  BY <1>1 DEF Arranged
<1>3. QED
  BY <1>1, <1>2

LEMMA PlainHand ==
    ASSUME NEW cards \in Deals, \A i \in 1..3 : ~cards[i].joker
    PROVE  \E x, y, z \in 10..14 : PlaysAs(cards, x, y, z)
<1>1. \A i \in 1..3 : cards[i].joker = FALSE /\ cards[i].rank \in 10..14 /\ Value(cards[i]) = cards[i].rank
  BY DealsAre, CardFacts
<1>2. DOMAIN cards = 1..3 /\ cards = <<cards[1], cards[2], cards[3]>>
  BY DealsAre
<1>3. Played(cards) = cards
  <2>1. Played(cards) = [i \in 1..3 |-> cards[i]]
    BY <1>1 DEF Played
  <2>2. QED
    BY <1>2, <2>1
<1>4. \A i \in 1..3 : Points(cards)[i] = cards[i].rank
  BY <1>1 DEF Points
<1>5. PICK x \in 10..14, y \in 10..14, z \in 10..14 :
         Arranged(Points(cards), x, y, z) /\ x <= y /\ y <= z
  BY <1>1, <1>4, Sortable
<1>6. x \in Nat /\ y \in Nat /\ z \in Nat
  OBVIOUS
<1>7. WithoutJoker(cards) = ValueOf(x, y, z, IsFlush(cards))
  BY <1>5, <1>6, WithoutJokerIs
<1>8. EvaluateHand(cards) = WithoutJoker(cards)
  BY DEF EvaluateHand
<1>9. PlaysAs(cards, x, y, z)
  BY <1>1, <1>3, <1>4, <1>5, <1>7, <1>8 DEF PlaysAs
<1>10. QED
  BY <1>9

LEMMA Appended ==
    ASSUME NEW S, NEW s \in Seq(S), NEW c \in S
    PROVE  /\ DOMAIN Append(s, c) = 1..(Len(s) + 1)
           /\ \A i \in 1..Len(s) : Append(s, c)[i] = s[i]
           /\ Append(s, c)[Len(s) + 1] = c
<1>1. Append(s, c) \in Seq(S) /\ Len(Append(s, c)) = Len(s) + 1
  BY AppendProperties
<1>2. QED
  BY <1>1, AppendProperties

\* A third card behind two.
LEMMA OneMore ==
    ASSUME NEW S, NEW two \in [1..2 -> S], NEW c
    PROVE  /\ DOMAIN Append(two, c) = 1..3
           /\ Append(two, c)[1] = two[1] /\ Append(two, c)[2] = two[2] /\ Append(two, c)[3] = c
<1> DEFINE Some == S \cup {c}
           three == Append(two, c)
<1>1. two \in [1..2 -> Some] /\ c \in Some
  OBVIOUS
<1> HIDE DEF Some
<1>2. two \in Seq(Some) /\ Len(two) = 2
  BY <1>1, FunctionIsSeq
<1>3. /\ DOMAIN three = 1..(Len(two) + 1)
      /\ \A i \in 1..Len(two) : three[i] = two[i]
      /\ three[Len(two) + 1] = c
  <2>1. two \in Seq(Some) /\ c \in Some
    BY <1>1, <1>2
  <2>2. QED
    BY <2>1, Appended
<1> HIDE DEF three
<1>4. Len(two) + 1 = 3 /\ 1 \in 1..Len(two) /\ 2 \in 1..Len(two)
  BY <1>2
<1>5. QED
  BY <1>3, <1>4 DEF three

\* What the copy of a card is worth beside the two cards there are.
LEMMA CopyIsWorth ==
    ASSUME NEW others \in [1..2 -> PlainCards], NEW k \in 1..2,
           NEW x \in 10..14, NEW y \in 10..14, NEW z \in 10..14, x <= y, y <= z,
           Arranged(<<others[1].rank, others[2].rank, others[k].rank>>, x, y, z)
    PROVE  WithoutJoker(Adjusted(others, k)) = ValueOf(x, y, z, FALSE)
<1> DEFINE copy == Card(others[k].rank, "None")
           cards == Adjusted(others, k)
<1>1. DOMAIN cards = 1..3 /\ cards[1] = others[1] /\ cards[2] = others[2] /\ cards[3] = copy
  BY OneMore DEF Adjusted
<1>2. /\ \A i \in 1..2 : others[i] \in PlainCards /\ Value(others[i]) = others[i].rank
      /\ Value(copy) = others[k].rank /\ copy.suit = "None"
  <2>1. \A i \in 1..2 : others[i] \in PlainCards
    OBVIOUS
  <2>2. QED
    BY <2>1, CardFacts
<1> HIDE DEF copy, cards
<1>3. IsFlush(cards) = FALSE
  <2>1. 3 \in DOMAIN cards /\ cards[3].suit = "None"
    BY <1>1, <1>2
  <2>2. QED
    BY <2>1, NoFlush
<1>4. /\ Points(cards)[1] = others[1].rank /\ Points(cards)[2] = others[2].rank
      /\ Points(cards)[3] = others[k].rank
  BY <1>1, <1>2 DEF Points
<1>5. Arranged(Points(cards), x, y, z)
  BY <1>4 DEF Arranged
<1>6. x \in Nat /\ y \in Nat /\ z \in Nat
  OBVIOUS
<1>7. WithoutJoker(cards) = ValueOf(x, y, z, FALSE)
  BY <1>3, <1>5, <1>6, WithoutJokerIs
<1>8. QED
  BY <1>7 DEF cards

LEMMA JokerHand ==
    ASSUME NEW cards \in Deals, NEW place \in 1..3, cards[place].joker
    PROVE  \E x, y, z \in 10..14 : PlaysAs(cards, x, y, z)
<1>1. /\ cards[place] = Joker
      /\ \A i \in 1..3 : i # place => cards[i] \in PlainCards
      /\ \A i \in 1..3 : i # place => cards[i].joker = FALSE /\ cards[i].rank \in 10..14
      /\ DOMAIN cards = 1..3
  BY DealsAre, CardFacts
<1>2. (CHOOSE i \in 1..3 : cards[i].joker) = place
  BY <1>1
<1> DEFINE others == NonJokers(cards)
           a == others[1]
           b == others[2]
<1>3. others = [i \in 1..2 |-> cards[IF i < place THEN i ELSE i + 1]]
  BY <1>2 DEF NonJokers
<1>4. /\ others = [i \in 1..2 |-> IF i = 1 THEN a ELSE b]
      /\ others[1] = a /\ others[2] = b
      /\ a = cards[IF place = 1 THEN 2 ELSE 1]
      /\ b = cards[IF place = 3 THEN 2 ELSE 3]
  <2>1. a = cards[IF 1 < place THEN 1 ELSE 2] /\ b = cards[IF 2 < place THEN 2 ELSE 3]
    BY <1>3
  <2>2. \A i \in 1..2 : i = 1 \/ i = 2
    OBVIOUS
  <2>3. others = [i \in 1..2 |-> IF i = 1 THEN a ELSE b]
    BY <1>3, <2>2
  <2>4. QED
    BY <2>1, <2>3
<1>5. a \in PlainCards /\ b \in PlainCards /\ a.rank \in 10..14 /\ b.rank \in 10..14
  BY <1>1, <1>4
<1> HIDE DEF others, a, b
<1>6. others \in [1..2 -> PlainCards]
  BY <1>4, <1>5
<1> DEFINE low == IF a.rank <= b.rank THEN a.rank ELSE b.rank
           high == IF a.rank <= b.rank THEN b.rank ELSE a.rank
           P == Played(cards)
<1>7. /\ low \in 10..14 /\ high \in 10..14 /\ low <= high /\ low <= low /\ high <= high
      /\ 1 \in 1..2 /\ 2 \in 1..2
  BY <1>5
<1>8. EvaluateHand(cards) = ValueOf(low, high, high, FALSE)
  <2>1. EvaluateHand(cards) =
           MaxElement(WithoutJoker(Adjusted(others, 1)), WithoutJoker(Adjusted(others, 2)))
    BY DEF EvaluateHand, others
  <2>2. others[1] = a /\ others[2] = b
    BY <1>4
  <2>3. CASE a.rank <= b.rank
    <3>1. /\ Arranged(<<others[1].rank, others[2].rank, others[1].rank>>, low, low, high)
          /\ Arranged(<<others[1].rank, others[2].rank, others[2].rank>>, low, high, high)
      BY <2>2, <2>3 DEF Arranged
    <3> HIDE DEF low, high
    <3>2. WithoutJoker(Adjusted(others, 1)) = ValueOf(low, low, high, FALSE)
      BY ZenonT(30), <1>6, <1>7, <3>1, CopyIsWorth
    <3>3. WithoutJoker(Adjusted(others, 2)) = ValueOf(low, high, high, FALSE)
      BY ZenonT(30), <1>6, <1>7, <3>1, CopyIsWorth
    <3>4. MaxElement(ValueOf(low, low, high, FALSE), ValueOf(low, high, high, FALSE))
             = ValueOf(low, high, high, FALSE)
      BY <1>7, HigherCopyWins
    <3>5. QED
      BY <2>1, <3>2, <3>3, <3>4
  <2>4. CASE ~(a.rank <= b.rank)
    <3>1. /\ Arranged(<<others[1].rank, others[2].rank, others[1].rank>>, low, high, high)
          /\ Arranged(<<others[1].rank, others[2].rank, others[2].rank>>, low, low, high)
      BY <2>2, <2>4 DEF Arranged
    <3> HIDE DEF low, high
    <3>2. WithoutJoker(Adjusted(others, 1)) = ValueOf(low, high, high, FALSE)
      BY ZenonT(30), <1>6, <1>7, <3>1, CopyIsWorth
    <3>3. WithoutJoker(Adjusted(others, 2)) = ValueOf(low, low, high, FALSE)
      BY ZenonT(30), <1>6, <1>7, <3>1, CopyIsWorth
    <3>4. MaxElement(ValueOf(low, high, high, FALSE), ValueOf(low, low, high, FALSE))
             = ValueOf(low, high, high, FALSE)
      BY <1>7, HigherCopyWins
    <3>5. QED
      BY <2>1, <3>2, <3>3, <3>4
  <2>5. QED
    BY <2>3, <2>4
<1>9. P = [i \in 1..3 |-> IF i = place THEN Card(high, "None") ELSE cards[i]]
  <2> DEFINE Ranked == {c.rank : c \in CardsOf(cards)}
             Tops(p) == \A c \in CardsOf(cards) : p >= c.rank
  <2>1. CardsOf(cards) = {Joker, a, b}
    <3>1. \A i \in 1..3 : cards[i] \in {Joker, a, b}
      BY <1>1, <1>4
    <3>2. \A c \in {Joker, a, b} : \E i \in 1..3 : c = cards[i]
      BY <1>1, <1>4
    <3>3. QED
      BY <1>1, <3>1, <3>2 DEF CardsOf
  <2>2. high \in Ranked /\ Tops(high)
    <3>1. high \in {a.rank, b.rank} /\ high >= 0 /\ high >= a.rank /\ high >= b.rank
      BY <1>5
    <3>2. Joker.rank = 0
      BY CardFacts
    <3>3. QED
      BY <2>1, <3>1, <3>2
  <2>3. \A p \in Ranked : Tops(p) => p = high
    <3>1. high = a.rank \/ high = b.rank
      OBVIOUS
    <3>2. ASSUME NEW p \in Ranked, Tops(p)
          PROVE  p = high
      <4>1. p \in {0, a.rank, b.rank} /\ p >= a.rank /\ p >= b.rank
        BY <2>1, <3>2, CardFacts
      <4>2. QED
        BY <1>5, <4>1
    <3>3. QED
      BY <3>2
  <2>4. P = LET best == CHOOSE p \in Ranked : Tops(p)
            IN  [i \in 1..3 |-> IF cards[i].joker THEN Card(best, "None") ELSE cards[i]]
    BY DEF Played
  <2> HIDE DEF Ranked, Tops, high
  <2>5. (CHOOSE p \in Ranked : Tops(p)) = high
    BY <2>2, <2>3
  <2>6. P = [i \in 1..3 |-> IF cards[i].joker THEN Card(high, "None") ELSE cards[i]]
    BY <2>4, <2>5
  <2>7. \A i \in 1..3 : cards[i].joker <=> i = place
    BY <1>1
  <2>8. QED
    BY <2>6, <2>7
<1>10. \A i \in 1..3 : P[i].joker = FALSE /\ P[i].rank = Points(P)[i] /\ P[i].rank \in 10..14
  <2> HIDE DEF P, high, low
  <2>1. \A i \in 1..3 : /\ i = place => P[i] = Card(high, "None")
                        /\ i # place => P[i] = cards[i]
    BY <1>9
  <2>2. \A i \in 1..3 : Points(P)[i] = Value(P[i])
    BY DEF Points
  <2>3. QED
    BY <1>1, <1>7, <2>1, <2>2, CardFacts
<1>11. Arranged(Points(P), low, high, high)
  <2>1. \A i \in 1..3 : Points(P)[i] = IF i = place THEN high ELSE cards[i].rank
    <3> HIDE DEF P, high, low
    <3>1. \A i \in 1..3 : P[i].rank = IF i = place THEN high ELSE cards[i].rank
      BY <1>9, CardFacts
    <3>2. QED
      BY <1>10, <3>1
  <2> DEFINE u == Points(P)
  <2>2. CASE place = 1
    <3>1. u[1] = high /\ u[2] = a.rank /\ u[3] = b.rank
      BY <1>4, <2>1, <2>2
    <3> HIDE DEF u, P
    <3>2. QED
      BY <1>5, <3>1 DEF Arranged, u
  <2>3. CASE place = 2
    <3>1. u[2] = high /\ u[1] = a.rank /\ u[3] = b.rank
      BY <1>4, <2>1, <2>3
    <3> HIDE DEF u, P
    <3>2. QED
      BY <1>5, <3>1 DEF Arranged, u
  <2>4. CASE place = 3
    <3>1. u[3] = high /\ u[1] = a.rank /\ u[2] = b.rank
      BY <1>4, <2>1, <2>4
    <3> HIDE DEF u, P
    <3>2. QED
      BY <1>5, <3>1 DEF Arranged, u
  <2>5. QED
    BY <2>2, <2>3, <2>4
<1>12. IsFlush(P) = FALSE
  <2> HIDE DEF P, high, low
  <2>1. place \in DOMAIN P /\ P[place].suit = "None"
    BY <1>9, CardFacts
  <2>2. QED
    BY <2>1, NoFlush
<1>13. WithoutJoker(P) = ValueOf(low, high, high, FALSE)
  <2> HIDE DEF P, high, low
  <2>1. low \in Nat /\ high \in Nat /\ high <= high
    BY <1>7
  <2>2. QED
    BY <1>7, <1>11, <1>12, <2>1, WithoutJokerIs
<1>14. PlaysAs(cards, low, high, high)
  <2>1. high <= high
    BY <1>7
  <2> HIDE DEF high, low
  <2>2. QED
    BY <1>7, <1>8, <1>10, <1>11, <1>12, <1>13, <2>1 DEF PlaysAs
<1> HIDE DEF high, low
<1>15. QED
  BY <1>7, <1>14

LEMMA EveryHand == \A cards \in Deals : \E x, y, z \in 10..14 : PlaysAs(cards, x, y, z)
<1> SUFFICES ASSUME NEW cards \in Deals
             PROVE  \E x, y, z \in 10..14 : PlaysAs(cards, x, y, z)
  OBVIOUS
<1>1. CASE \A i \in 1..3 : ~cards[i].joker
  BY <1>1, PlainHand
<1>2. CASE ~(\A i \in 1..3 : ~cards[i].joker)
  <2>1. PICK place \in 1..3 : cards[place].joker
    BY <1>2
  <2>2. QED
    BY <2>1, JokerHand
<1>3. QED
  BY <1>1, <1>2

-----------------------------------------------------------------------------
(* What the rules say *)

\* README.md:14 for every hand with the joker: trying both copies comes to the
\* copy of the card with the most points.
THEOREM JokerCopiesBest == JokerRule
<1>1. \A cards \in Deals : EvaluateHand(cards) = WithoutJoker(Played(cards))
  BY EveryHand DEF PlaysAs
<1>2. QED
  BY <1>1 DEF JokerRule

\* How many points three sorted numbers are.
LEMMA PointsCounted ==
    ASSUME NEW x \in 10..14, NEW y \in 10..14, NEW z \in 10..14, x <= y, y <= z
    PROVE  /\ Cardinality({x, y, z}) <= 2 <=> x = y \/ y = z
           /\ Cardinality({x, y, z}) = 1 <=> x = z
<1>1. IsFiniteSet({x}) /\ Cardinality({x}) = 1
  BY FS_Singleton
<1>2. /\ IsFiniteSet({x} \cup {y})
      /\ Cardinality({x} \cup {y}) = IF y \in {x} THEN 1 ELSE 2
  BY <1>1, FS_AddElement
<1>3. Cardinality(({x} \cup {y}) \cup {z}) =
         IF z \in {x} \cup {y} THEN Cardinality({x} \cup {y}) ELSE Cardinality({x} \cup {y}) + 1
  BY <1>2, FS_AddElement
<1>4. {x, y, z} = ({x} \cup {y}) \cup {z}
  OBVIOUS
<1>5. Cardinality({x, y, z}) =
         IF z \in {x} \cup {y} THEN (IF y \in {x} THEN 1 ELSE 2) ELSE (IF y \in {x} THEN 1 ELSE 2) + 1
  BY <1>2, <1>3, <1>4
<1>6. QED
  BY <1>5

\* The patterns of a hand, by its sorted points.
LEMMA ShowsIs ==
    ASSUME NEW cards \in Deals, NEW x \in 10..14, NEW y \in 10..14, NEW z \in 10..14,
           PlaysAs(cards, x, y, z)
    PROVE  LET P == Played(cards) IN
           /\ Shows(P, HighCard)
           /\ Shows(P, Pair) <=> x = y \/ y = z
           /\ Shows(P, Straight) <=> x + 1 = y /\ y + 1 = z
           /\ Shows(P, Flush) <=> IsFlush(P)
           /\ Shows(P, StraightFlush) <=> x + 1 = y /\ y + 1 = z /\ IsFlush(P)
           /\ Shows(P, ThreeOfAKind) <=> x = z
<1> DEFINE P == Played(cards)
           points == {c.rank : c \in CardsOf(P)}
           oneSuit == {c.suit : c \in CardsOf(P)} \in {{Suits[n]} : n \in 1..4}
           run == \E low \in points : points = {low, low + 1, low + 2}
<1>1. DOMAIN P = 1..3
  BY DEF Played
<1>2. /\ x <= y /\ y <= z /\ Arranged(Points(P), x, y, z)
      /\ \A i \in 1..3 : P[i].rank = Points(P)[i]
  BY DEF PlaysAs
<1> HIDE DEF P
<1>3. points = {x, y, z}
  <2>1. points = {P[1].rank, P[2].rank, P[3].rank}
    <3>1. \A i \in 1..3 : i \in {1, 2, 3}
      OBVIOUS
    <3>2. QED
      BY <1>1, <3>1 DEF CardsOf
  <2>2. points = {Points(P)[1], Points(P)[2], Points(P)[3]}
    BY <1>2, <2>1
  <2> HIDE DEF points
  <2>3. QED
    BY <1>2, <2>2 DEF Arranged
<1>4. oneSuit <=> IsFlush(P)
  <2>1. {{Suits[n]} : n \in 1..4} = {{s} : s \in SuitNames}
    <3>1. \A n \in 1..4 : n \in {1, 2, 3, 4}
      OBVIOUS
    <3>2. \A n \in 1..4 : Suits[n] \in SuitNames
      BY <3>1 DEF Suits, SuitNames
    <3>3. \A s \in SuitNames : \E n \in 1..4 : Suits[n] = s
      BY DEF Suits, SuitNames
    <3>4. QED
      BY <3>2, <3>3
  <2>2. \A s : {c.suit : c \in CardsOf(P)} = {s} <=> \A i \in 1..3 : P[i].suit = s
    <3>1. {c.suit : c \in CardsOf(P)} = {P[i].suit : i \in 1..3}
      BY <1>1 DEF CardsOf
    <3>2. P[1].suit \in {P[i].suit : i \in 1..3}
      OBVIOUS
    <3>3. QED
      BY <3>1, <3>2
  <2>3. oneSuit <=> \E s \in SuitNames : {c.suit : c \in CardsOf(P)} = {s}
    BY <2>1
  <2>4. IsFlush(P) <=> \E s \in SuitNames : \A i \in 1..3 : P[i].suit = s
    BY <1>1 DEF IsFlush, SuitNames
  <2>5. QED
    BY <2>2, <2>3, <2>4
<1>5. run <=> x + 1 = y /\ y + 1 = z
  <2>1. ASSUME x + 1 = y, y + 1 = z
        PROVE  run
    <3>1. x \in points /\ points = {x, x + 1, x + 2}
      BY <1>3, <2>1
    <3>2. QED
      BY <3>1
  <2>2. ASSUME NEW low \in points, points = {low, low + 1, low + 2}
        PROVE  x + 1 = y /\ y + 1 = z
    <3>1. low \in Nat
      BY <1>3, <2>2
    <3>2. /\ x \in {low, low + 1, low + 2} /\ y \in {low, low + 1, low + 2}
          /\ z \in {low, low + 1, low + 2}
          /\ low \in {x, y, z} /\ low + 1 \in {x, y, z} /\ low + 2 \in {x, y, z}
      BY <1>3, <2>2
    <3> HIDE DEF points
    <3>3. QED
      BY <1>2, <3>1, <3>2
  <2>3. QED
    BY <2>1, <2>2
<1>6. /\ Shows(P, HighCard)
      /\ Shows(P, Pair) <=> Cardinality(points) <= 2
      /\ Shows(P, Straight) <=> run
      /\ Shows(P, Flush) <=> oneSuit
      /\ Shows(P, StraightFlush) <=> run /\ oneSuit
      /\ Shows(P, ThreeOfAKind) <=> Cardinality(points) = 1
  BY DEF Shows, HighCard, Pair, Straight, Flush, StraightFlush, ThreeOfAKind
<1> HIDE DEF points, oneSuit, run
<1>7. /\ Cardinality({x, y, z}) <= 2 <=> x = y \/ y = z
      /\ Cardinality({x, y, z}) = 1 <=> x = z
  <2>1. x <= y /\ y <= z
    BY <1>2
  <2>2. QED
    BY SMTT(30), <2>1, PointsCounted
<1>8. QED
  BY <1>3, <1>4, <1>5, <1>6, <1>7 DEF P

\* The chain of tests of evaluate_without_joker finds the strongest pattern that
\* a hand shows, whatever hand of the deck it is.
THEOREM RankedByPattern == RankingRule
<1> SUFFICES ASSUME NEW cards \in Deals
             PROVE  LET category == EvaluateHand(cards).category
                    IN  /\ Shows(Played(cards), category)
                        /\ \A c \in (category + 1)..ThreeOfAKind : ~Shows(Played(cards), c)
  BY DEF RankingRule
<1>1. PICK x \in 10..14, y \in 10..14, z \in 10..14 : PlaysAs(cards, x, y, z)
  BY EveryHand
<1> DEFINE P == Played(cards)
           flush == IsFlush(P)
           run == x + 1 = y /\ y + 1 = z
           category == EvaluateHand(cards).category
<1>2. /\ Shows(P, HighCard)
      /\ Shows(P, Pair) <=> x = y \/ y = z
      /\ Shows(P, Straight) <=> run
      /\ Shows(P, Flush) <=> flush
      /\ Shows(P, StraightFlush) <=> run /\ flush
      /\ Shows(P, ThreeOfAKind) <=> x = z
  BY <1>1, ShowsIs
<1>3. x <= y /\ y <= z /\ EvaluateHand(cards) = ValueOf(x, y, z, flush)
  BY <1>1 DEF PlaysAs
<1>4. category =
         IF x = z THEN ThreeOfAKind
         ELSE IF flush /\ run THEN StraightFlush
         ELSE IF flush THEN Flush
         ELSE IF run THEN Straight
         ELSE IF y \in {x, z} THEN Pair
         ELSE HighCard
  BY <1>3 DEF ValueOf, HandValue
<1> HIDE DEF P, flush, category
<1>5. Shows(P, category)
  BY <1>2, <1>4
<1>6. /\ HighCard = 0 /\ Pair = 1 /\ Straight = 2 /\ Flush = 3 /\ StraightFlush = 4
      /\ ThreeOfAKind = 5
  BY DEF HighCard, Pair, Straight, Flush, StraightFlush, ThreeOfAKind
<1>7. \A c \in (category + 1)..ThreeOfAKind :
         /\ c \in {Pair, Straight, Flush, StraightFlush, ThreeOfAKind}
         /\ c > category
  <2>1. category \in 0..5
    BY <1>4, <1>6
  <2>2. QED
    BY <1>6, <2>1
<1>8. \A c \in (category + 1)..ThreeOfAKind : ~Shows(P, c)
  <2> SUFFICES ASSUME NEW c \in (category + 1)..ThreeOfAKind, Shows(P, c)
               PROVE  FALSE
    OBVIOUS
  <2>1. c \in {Pair, Straight, Flush, StraightFlush, ThreeOfAKind} /\ c > category
    BY <1>7
  <2>2. CASE c = Pair
    BY <1>2, <1>3, <1>4, <1>6, <2>1, <2>2
  <2>3. CASE c = Straight
    BY <1>2, <1>3, <1>4, <1>6, <2>1, <2>3
  <2>4. CASE c = Flush
    BY <1>2, <1>3, <1>4, <1>6, <2>1, <2>4
  <2>5. CASE c = StraightFlush
    BY <1>2, <1>3, <1>4, <1>6, <2>1, <2>5
  <2>6. CASE c = ThreeOfAKind
    BY <1>2, <1>3, <1>4, <1>6, <2>1, <2>6
  <2>7. QED
    BY <2>1, <2>2, <2>3, <2>4, <2>5, <2>6
<1>9. QED
  BY <1>5, <1>8 DEF P, category

-----------------------------------------------------------------------------
(* One scale *)

\* A strict order of finitely many values can be counted: by how many values are
\* less.
LEMMA CountedInNumbers ==
    ASSUME NEW S \in SUBSET HandValues, IsFiniteSet(S)
    PROVE  \A x, y \in S :
              LET below(v) == Cardinality({w \in S : Less(w, v)}) IN
              /\ below(x) \in 0..Cardinality(S)
              /\ Less(x, y) <=> below(x) < below(y)
              /\ x = y <=> below(x) = below(y)
<1> DEFINE Below(v) == {w \in S : Less(w, v)}
           count(v) == Cardinality(Below(v))
<1>1. /\ \A x \in S : ~Less(x, x)
      /\ \A x, y, z \in S : Less(x, y) /\ Less(y, z) => Less(x, z)
      /\ \A x, y \in S : x # y => Less(x, y) \/ Less(y, x)
  BY LessIsAnOrder
<1>2. \A v \in S : /\ IsFiniteSet(Below(v)) /\ count(v) \in Nat
                   /\ count(v) <= Cardinality(S) /\ Cardinality(S) \in Nat
  BY FS_Subset, FS_CardinalityType
<1>3. ASSUME NEW x \in S, NEW y \in S, Less(x, y)
      PROVE  count(x) < count(y)
  <2>1. Below(x) \in SUBSET Below(y) /\ x \in Below(y) /\ x \notin Below(x)
    BY <1>1, <1>3
  <2>2. /\ Cardinality(Below(x)) <= Cardinality(Below(y))
        /\ Cardinality(Below(x)) = Cardinality(Below(y)) => Below(y) = Below(x)
    BY <1>2, <2>1, FS_Subset
  <2>3. QED
    BY <1>2, <2>1, <2>2
<1> HIDE DEF Below
<1>4. \A x, y \in S : /\ count(x) \in 0..Cardinality(S)
                      /\ Less(x, y) <=> count(x) < count(y)
                      /\ x = y <=> count(x) = count(y)
  BY <1>1, <1>2, <1>3
<1>5. QED
  BY <1>4 DEF Below

LEMMA DealsAreFinite == IsFiniteSet(Deals)
<1> DEFINE N == 1..21
           Draws == {d \in (N \X N) \X N : d[1][1] # d[1][2] /\ d[1][1] # d[2] /\ d[1][2] # d[2]}
           deal == [d \in Draws |-> <<Deck[d[1][1]], Deck[d[1][2]], Deck[d[2]]>>]
<1>1. IsFiniteSet(Draws)
  <2> DEFINE All == (N \X N) \X N
  <2>1. \A n \in Nat : IsFiniteSet(1..n)
    BY FS_Interval
  <2>2. IsFiniteSet(N)
    BY <2>1
  <2>3. IsFiniteSet(All)
    BY <2>2, FS_Product
  <2>4. Draws \in SUBSET All
    OBVIOUS
  <2> HIDE DEF All, Draws
  <2>5. QED
    BY <2>3, <2>4, FS_Subset
<1>2. \A d \in Draws : deal[d] \in Deals
  <2> SUFFICES ASSUME NEW a \in N, NEW b \in N, NEW c \in N, a # b, a # c, b # c
               PROVE  <<Deck[a], Deck[b], Deck[c]>> \in Deals
    OBVIOUS
  <2>1. <<a, b, c>> \in {t \in N \X N \X N : t[1] # t[2] /\ t[1] # t[3] /\ t[2] # t[3]}
    OBVIOUS
  <2>2. QED
    BY <2>1 DEF Deals
<1>3. \A cards \in Deals : \E d \in Draws : deal[d] = cards
  <2> SUFFICES ASSUME NEW cards \in Deals
               PROVE  \E d \in Draws : deal[d] = cards
    OBVIOUS
  <2>1. PICK a \in N, b \in N, c \in N :
           a # b /\ a # c /\ b # c /\ cards = <<Deck[a], Deck[b], Deck[c]>>
    BY DEF Deals
  <2>2. <<<<a, b>>, c>> \in Draws /\ deal[<<<<a, b>>, c>>] = cards
    BY <2>1
  <2>3. QED
    BY <2>2
<1> HIDE DEF Draws
<1>4. deal \in Surjection(Draws, Deals)
  BY <1>2, <1>3 DEF Surjection
<1>5. QED
  BY <1>1, <1>4, FS_Surjection

\* Every hand of the deck is worth a value, and there are finitely many.
LEMMA ValuesType == Values \in SUBSET HandValues /\ IsFiniteSet(Values)
<1>1. \A cards \in Deals : EvaluateHand(cards) \in HandValues
  <2> SUFFICES ASSUME NEW cards \in Deals
               PROVE  EvaluateHand(cards) \in HandValues
    OBVIOUS
  <2>1. PICK x \in 10..14, y \in 10..14, z \in 10..14 : PlaysAs(cards, x, y, z)
    BY EveryHand
  <2>2. EvaluateHand(cards) = ValueOf(x, y, z, IsFlush(Played(cards)))
    BY <2>1 DEF PlaysAs
  <2>3. IsFlush(Played(cards)) \in BOOLEAN
    BY DEF IsFlush
  <2>4. QED
    BY <2>2, <2>3, ValueOfType
<1> DEFINE value == [cards \in Deals |-> EvaluateHand(cards)]
<1>2. value \in Surjection(Deals, Values)
  BY DEF Surjection, Values
<1>3. IsFiniteSet(Values)
  BY <1>2, DealsAreFinite, FS_Surjection
<1>4. QED
  BY <1>1, <1>3 DEF Values

\* operator< ranks the hands of the deck on one scale.
THEOREM OneScaleForHands == OneScale
<1>1. \A x, y \in Values :
         /\ Less(x, y) <=> Cardinality({w \in Values : Less(w, x)}) < Cardinality({w \in Values : Less(w, y)})
         /\ x = y <=> Cardinality({w \in Values : Less(w, x)}) = Cardinality({w \in Values : Less(w, y)})
  BY ValuesType, CountedInNumbers
<1>2. QED
  BY <1>1 DEF OneScale

-----------------------------------------------------------------------------
(* Ties *)

\* Three of a kind is three cards of the points of their value, or two of them
\* and the joker.
LEMMA ThreeOfAKindIs ==
    ASSUME NEW cards \in Deals, EvaluateHand(cards).category = ThreeOfAKind
    PROVE  \E r \in 10..14 : /\ EvaluateHand(cards).kickers = <<r>>
                             /\ \A i \in 1..3 : cards[i] = Joker \/ cards[i].rank = r
<1>1. PICK x \in 10..14, y \in 10..14, z \in 10..14 : PlaysAs(cards, x, y, z)
  BY EveryHand
<1>2. x <= y /\ y <= z /\ Arranged(Points(Played(cards)), x, y, z)
      /\ EvaluateHand(cards) = ValueOf(x, y, z, IsFlush(Played(cards)))
      /\ \A i \in 1..3 : Played(cards)[i].rank = Points(Played(cards))[i]
  BY <1>1 DEF PlaysAs
<1>3. x = z /\ EvaluateHand(cards).kickers = <<z>>
  BY <1>2 DEF ValueOf, HandValue, HighCard, Pair, Straight, Flush, StraightFlush, ThreeOfAKind
<1>4. \A i \in 1..3 : Points(Played(cards))[i] = z
  <2>1. y = z
    BY <1>2, <1>3
  <2>2. /\ Points(Played(cards))[1] = z /\ Points(Played(cards))[2] = z
        /\ Points(Played(cards))[3] = z
    BY <1>2, <1>3, <2>1 DEF Arranged
  <2>3. \A i \in 1..3 : i \in {1, 2, 3}
    OBVIOUS
  <2>4. QED
    BY <2>2, <2>3
<1>5. \A i \in 1..3 : cards[i] = Joker \/ cards[i].rank = z
  <2> SUFFICES ASSUME NEW i \in 1..3, cards[i] # Joker
               PROVE  cards[i].rank = z
    OBVIOUS
  <2>1. cards[i].joker = FALSE
    BY DealsAre, CardFacts
  <2>2. Played(cards)[i] = cards[i]
    BY <2>1 DEF Played
  <2>3. QED
    BY <1>2, <1>4, <2>2
<1>6. QED
  BY <1>3, <1>5

\* There are five cards that three of a kind of given points is made of: two such
\* hands share one.
LEMMA ThreesShareACard ==
    ASSUME NEW a \in Deals, NEW b \in Deals, NEW r \in 10..14,
           \A i \in 1..3 : a[i] = Joker \/ a[i].rank = r,
           \A i \in 1..3 : b[i] = Joker \/ b[i].rank = r
    PROVE  CardsOf(a) \cap CardsOf(b) # {}
<1> DEFINE card == [n \in 1..5 |-> IF n = 5 THEN Joker ELSE Card(r, Suits[n])]
           Five == {card[n] : n \in 1..5}
<1>1. IsFiniteSet(Five) /\ Cardinality(Five) <= 5
  <2>1. card \in Surjection(1..5, Five)
    BY DEF Surjection
  <2>2. IsFiniteSet(1..5) /\ Cardinality(1..5) = 5
    <3>1. \A n \in Nat : IsFiniteSet(1..n) /\ Cardinality(1..n) = IF 1 > n THEN 0 ELSE n
      BY FS_Interval
    <3>2. 5 \in Nat /\ ~(1 > 5)
      OBVIOUS
    <3>3. QED
      BY <3>1, <3>2
  <2> HIDE DEF Five, card
  <2>3. QED
    BY <2>1, <2>2, FS_Surjection
<1>2. ASSUME NEW h \in Deals, \A i \in 1..3 : h[i] = Joker \/ h[i].rank = r
      PROVE  CardsOf(h) \subseteq Five /\ Cardinality(CardsOf(h)) = 3
  <2>1. DOMAIN h = 1..3 /\ \A i \in 1..3 : h[i] \in PlainCards \cup {Joker}
    BY DealsAre
  <2>2. Joker \in Five /\ \A c \in PlainCards : c.rank = r => c \in Five
    <3>1. card[5] = Joker
      OBVIOUS
    <3>2. ASSUME NEW c \in PlainCards, c.rank = r
          PROVE  \E n \in 1..4 : card[n] = c
      <4>1. PICK n \in 1..4 : Suits[n] = c.suit
        BY DEF PlainCards, SuitNames, Suits
      <4>2. c = Card(r, c.suit)
        BY <3>2 DEF PlainCards, Card
      <4>3. QED
        BY <4>1, <4>2
    <3>3. QED
      BY <3>1, <3>2
  <2>3. CardsOf(h) \subseteq Five
    BY <1>2, <2>1, <2>2 DEF CardsOf
  <2>4. h \in Bijection(1..3, CardsOf(h))
    <3>1. \A i, j \in 1..3 : h[i] = h[j] => i = j
      BY DealsAre
    <3>2. h = [i \in 1..3 |-> h[i]]
      BY <2>1, DealsAre
    <3>3. h \in [1..3 -> CardsOf(h)]
      BY <2>1, <3>2 DEF CardsOf
    <3>4. QED
      BY <2>1, <3>1, <3>3 DEF CardsOf, Bijection, Injection, Surjection, IsInjective
  <2>5. Cardinality(CardsOf(h)) = 3
    BY <2>4, FS_CountingElements DEF ExistsBijection
  <2>6. QED
    BY <2>3, <2>5
<1> HIDE DEF Five
<1>3. Cardinality(Five) \in Nat /\ Cardinality(CardsOf(a)) + Cardinality(CardsOf(b)) > Cardinality(Five)
  BY <1>1, <1>2, FS_CardinalityType
<1>4. QED
  BY <1>1, <1>2, <1>3, FS_MajoritiesIntersect

\* Hands of the same value have the same points, card by card, and two threes of a
\* kind of the same value would have a card in common.
THEOREM TiesAreAlike == TieRule
<1> DEFINE points(cards) == Sorted([i \in 1..3 |-> Played(cards)[i].rank])
<1>1. \A a, b \in Deals : EvaluateHand(a) = EvaluateHand(b) => points(a) = points(b)
  <2> SUFFICES ASSUME NEW a \in Deals, NEW b \in Deals, EvaluateHand(a) = EvaluateHand(b)
               PROVE  points(a) = points(b)
    OBVIOUS
  <2>1. PICK x \in 10..14, y \in 10..14, z \in 10..14 : PlaysAs(a, x, y, z)
    BY EveryHand
  <2>2. PICK k \in 10..14, m \in 10..14, n \in 10..14 : PlaysAs(b, k, m, n)
    BY EveryHand
  <2>3. ASSUME NEW h \in Deals, NEW p \in 10..14, NEW q \in 10..14, NEW s \in 10..14,
               PlaysAs(h, p, q, s)
        PROVE  points(h) = <<p, q, s>>
    <3>1. /\ p <= q /\ q <= s /\ Arranged(Points(Played(h)), p, q, s)
          /\ \A i \in 1..3 : /\ Played(h)[i].rank = Points(Played(h))[i]
                             /\ Played(h)[i].rank \in 10..14
      BY <2>3 DEF PlaysAs
    <3>2. [i \in 1..3 |-> Played(h)[i].rank] = Points(Played(h))
      BY <3>1 DEF Points
    <3>3. /\ Points(Played(h))[1] \in Nat /\ Points(Played(h))[2] \in Nat
          /\ Points(Played(h))[3] \in Nat
      BY <3>1
    <3>4. QED
      BY <3>1, <3>2, <3>3, SortedIs
  <2>4. points(a) = <<x, y, z>> /\ points(b) = <<k, m, n>>
    BY <2>1, <2>2, <2>3
  <2>5. /\ x <= y /\ y <= z /\ EvaluateHand(a) = ValueOf(x, y, z, IsFlush(Played(a)))
        /\ k <= m /\ m <= n /\ EvaluateHand(b) = ValueOf(k, m, n, IsFlush(Played(b)))
        /\ IsFlush(Played(a)) \in BOOLEAN /\ IsFlush(Played(b)) \in BOOLEAN
    BY <2>1, <2>2 DEF PlaysAs, IsFlush
  <2>6. x = k /\ y = m /\ z = n
    <3>1. ValueOf(x, y, z, IsFlush(Played(a))) = ValueOf(k, m, n, IsFlush(Played(b)))
      BY <2>5
    <3>2. QED
      BY SMTT(30), <2>5, <3>1, ValueTellsPoints
  <2>7. QED
    BY <2>4, <2>6
<1>2. ASSUME NEW a \in Deals, NEW b \in Deals, EvaluateHand(a) = EvaluateHand(b),
             EvaluateHand(a).category = ThreeOfAKind
      PROVE  CardsOf(a) \cap CardsOf(b) # {}
  <2>1. PICK r \in 10..14 : /\ EvaluateHand(a).kickers = <<r>>
                            /\ \A i \in 1..3 : a[i] = Joker \/ a[i].rank = r
    BY <1>2, ThreeOfAKindIs
  <2>2. PICK q \in 10..14 : /\ EvaluateHand(b).kickers = <<q>>
                            /\ \A i \in 1..3 : b[i] = Joker \/ b[i].rank = q
    BY <1>2, ThreeOfAKindIs
  <2>3. q = r
    BY <1>2, <2>1, <2>2
  <2>4. QED
    BY <2>1, <2>2, <2>3, ThreesShareACard
<1> HIDE DEF points
<1>3. LET worth == {[value |-> EvaluateHand(cards), points |-> points(cards)] : cards \in Deals}
      IN  \A a, b \in worth : a.value = b.value => a = b
  BY <1>1
<1>4. QED
  BY <1>2, <1>3 DEF TieRule, points

=============================================================================
