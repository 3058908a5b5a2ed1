---------------------------- MODULE CommonLemmas ----------------------------
(* Facts on naturals, sequences and finite sets that several proofs rest on. *)
EXTENDS Naturals, Sequences, FiniteSets, SequenceTheorems, WellFoundedInduction, NaturalsInduction,
        FiniteSetTheorems, TLAPS

\* A set of naturals that is not empty has a least element.  The proofs need
\* it wherever the code scans a vector for the first or the best element.
LEMMA LeastNat ==
    ASSUME NEW T \in SUBSET Nat, T # {}
    PROVE  \E x \in T : \A y \in T : x <= y
<1> DEFINE R == OpToRel(<, Nat)
<1>1. IsWellFoundedOn(R, Nat)
  BY NatLessThanWellFounded DEF OpToRel
<1>2. R = {p \in Nat \X Nat : p[1] < p[2]}
  BY DEF OpToRel
<1> HIDE DEF R
<1>3. PICK x \in T : \A y \in T : ~(<<y, x>> \in R)
  BY <1>1, WFMin
<1>4. \A y \in T : ~(y < x)
  BY <1>2, <1>3
<1>5. QED
  BY <1>4

\* Whatever is measured by bounded naturals has a best element, and among the
\* best ones a first: the winner that a scan with a strict comparison keeps.
LEMMA FirstOfBest ==
    ASSUME NEW T \in SUBSET Nat, T # {}, NEW bound \in Nat,
           NEW score, \A i \in T : score[i] \in 0..bound
    PROVE  \E i \in T : \A j \in T :
              score[i] > score[j] \/ (score[i] = score[j] /\ i <= j)
<1> DEFINE Gaps == {g \in Nat : \E i \in T : g = bound - score[i]}
<1>1. \A i \in T : bound - score[i] \in Gaps
  OBVIOUS
<1>2. PICK m \in T : \A j \in T : bound - score[m] <= bound - score[j]
  <2>1. PICK g \in Gaps : \A y \in Gaps : g <= y
    BY <1>1, LeastNat
  <2>2. QED
    BY <1>1, <2>1
<1>3. \A j \in T : score[m] >= score[j]
  BY <1>2
<1> DEFINE Best == {i \in T : score[i] = score[m]}
<1>4. PICK i \in Best : \A j \in Best : i <= j
  <2>1. Best \in SUBSET Nat /\ m \in Best
    OBVIOUS
  <2>2. QED
    BY <2>1, LeastNat
<1>5. \A j \in T : score[i] > score[j] \/ (score[i] = score[j] /\ i <= j)
  <2> SUFFICES ASSUME NEW j \in T
               PROVE  score[i] > score[j] \/ (score[i] = score[j] /\ i <= j)
    OBVIOUS
  <2>1. score[i] = score[m] /\ score[j] \in Nat /\ score[m] \in Nat
    OBVIOUS
  <2>2. CASE score[j] = score[m]
    BY <2>1, <2>2, <1>4
  <2>3. CASE score[j] # score[m]
    BY <2>1, <2>3, <1>3
  <2>4. QED
    BY <2>2, <2>3
<1>6. QED
  BY <1>5

\* A function on 1..n is a sequence of length n.
LEMMA FunctionIsSeq ==
    ASSUME NEW S, NEW n \in Nat, NEW f \in [1..n -> S]
    PROVE  f \in Seq(S) /\ Len(f) = n
<1>1. f \in Seq(S)
  BY SeqDef
<1>2. Len(f) \in Nat /\ DOMAIN f = 1..Len(f)
  BY <1>1, LenProperties
<1>3. 1..n = 1..Len(f)
  BY <1>2
<1>4. Len(f) = n
  <2>1. \A x \in Int : x \in 1..n <=> x \in 1..Len(f)
    BY <1>3
  <2>2. CASE n < Len(f)
    BY <1>2, <2>1, <2>2
  <2>3. CASE n > Len(f)
    BY <1>2, <2>1, <2>3
  <2>4. QED
    BY <1>2, <2>2, <2>3
<1>5. QED
  BY <1>1, <1>4

\* Multiplication by a natural keeps the order.
LEMMA TimesMonotone ==
    ASSUME NEW h \in Nat, NEW a \in Nat, NEW b \in Nat, a <= b
    PROVE  h * a \in Nat /\ h * b \in Nat /\ h * a <= h * b
<1>1. h * b = h * a + h * (b - a)
  OBVIOUS
<1>2. h * (b - a) >= 0
  OBVIOUS
<1>3. QED
  BY <1>1, <1>2

\* More than one element means two different ones.
LEMMA TwoElements ==
    ASSUME NEW S, IsFiniteSet(S)
    PROVE  Cardinality(S) >= 2 <=> \E i, j \in S : i # j
<1>1. Cardinality(S) \in Nat
  BY FS_CardinalityType
<1>2. Cardinality(S) = 0 <=> S = {}
  BY FS_EmptySet
<1>3. Cardinality(S) = 1 <=> \E x : S = {x}
  BY FS_Singleton
<1>4. (\E i, j \in S : i # j) <=> (S # {} /\ ~\E x : S = {x})
  <2>1. ASSUME S # {}, ~\E x : S = {x}
        PROVE  \E i, j \in S : i # j
    <3>1. PICK i \in S : TRUE
      BY <2>1
    <3>2. QED
      BY <2>1, <3>1
  <2>2. QED
    BY <2>1
<1>5. QED
  BY <1>1, <1>2, <1>3, <1>4

\* Division with remainder, and that the remainder is the only one.
LEMMA DivMod ==
    ASSUME NEW M \in Nat, NEW n \in Nat, n > 0
    PROVE  /\ M \div n \in Nat /\ M % n \in 0..(n - 1)
           /\ M = n * (M \div n) + (M % n)
OBVIOUS

LEMMA ModIs ==
    ASSUME NEW n \in Nat, n > 0, NEW d \in Nat, NEW k \in 0..(n - 1)
    PROVE  (n * d + k) % n = k
<1> DEFINE x == n * d + k
           e == x \div n
           r == x % n
<1>1. x \in Nat /\ n * d \in Nat
  OBVIOUS
<1>2. e \in Nat /\ r \in 0..(n - 1) /\ x = n * e + r
  BY <1>1, DivMod
<1> HIDE DEF e, r
<1>3. ~(d + 1 <= e)
  <2>1. SUFFICES ASSUME d + 1 <= e PROVE FALSE
    OBVIOUS
  <2>2. n * (d + 1) <= n * e
    BY <1>2, <2>1, TimesMonotone
  <2>3. n * (d + 1) = n * d + n
    OBVIOUS
  <2> DEFINE a == n * d
             b == n * e
  <2>4. a + n <= b /\ a + k = b + r /\ a \in Nat /\ b \in Nat
    BY <1>1, <1>2, <2>2, <2>3
  <2> HIDE DEF a, b
  <2>5. QED
    BY <1>2, <2>4
<1>4. ~(e + 1 <= d)
  <2>1. SUFFICES ASSUME e + 1 <= d PROVE FALSE
    OBVIOUS
  <2>2. n * (e + 1) <= n * d
    BY <1>2, <2>1, TimesMonotone
  <2>3. n * (e + 1) = n * e + n
    BY <1>2
  <2> DEFINE a == n * d
             b == n * e
  <2>4. b + n <= a /\ a + k = b + r /\ a \in Nat /\ b \in Nat
    BY <1>1, <1>2, <2>2, <2>3
  <2> HIDE DEF a, b
  <2>5. QED
    BY <1>2, <2>4
<1>5. e = d
  BY <1>2, <1>3, <1>4
<1>6. r = k
  BY <1>1, <1>2, <1>5
<1>7. QED
  BY <1>6 DEF r

LEMMA DivIs ==
    ASSUME NEW n \in Nat, n > 0, NEW d \in Nat, NEW k \in 0..(n - 1)
    PROVE  (n * d + k) \div n = d
<1> DEFINE x == n * d + k
           e == x \div n
           r == x % n
<1>1. x \in Nat /\ n * d \in Nat
  OBVIOUS
<1>2. e \in Nat /\ r \in 0..(n - 1) /\ x = n * e + r
  BY <1>1, DivMod
<1>3. r = k
  BY ModIs
<1> HIDE DEF e, r
<1>4. n * e = n * d
  BY <1>1, <1>2, <1>3
<1>5. ~(d + 1 <= e) /\ ~(e + 1 <= d)
  <2>1. ASSUME d + 1 <= e PROVE FALSE
    <3>1. n * (d + 1) <= n * e
      BY <1>2, <2>1, TimesMonotone
    <3>2. n * (d + 1) = n * d + n
      OBVIOUS
    <3>3. QED
      BY <1>1, <1>4, <3>1, <3>2
  <2>2. ASSUME e + 1 <= d PROVE FALSE
    <3>1. n * (e + 1) <= n * d
      BY <1>2, <2>2, TimesMonotone
    <3>2. n * (e + 1) = n * e + n
      BY <1>2
    <3>3. QED
      BY <1>1, <1>4, <3>1, <3>2
  <2>3. QED
    BY <2>1, <2>2
<1>6. e = d
  BY <1>2, <1>5
<1>7. QED
  BY <1>6 DEF e

\* A quotient rounded up counts the multiples that come before.
LEMMA CeilIs ==
    ASSUME NEW n \in Nat, NEW t \in Nat, t > 0
    PROVE  LET m == (n + t - 1) \div t
           IN  /\ m \in Nat
               /\ \A q \in Nat : q < m <=> t * q < n
<1> DEFINE m == (n + t - 1) \div t
           r == (n + t - 1) % t
<1>1. m \in Nat /\ r \in 0..(t - 1) /\ n + t - 1 = t * m + r
  <2>1. n + t - 1 \in Nat
    OBVIOUS
  <2>2. QED
    BY <2>1, DivMod
<1> HIDE DEF m, r
<1>2. ASSUME NEW q \in Nat
      PROVE  q < m <=> t * q < n
  <2>1. t * q \in Nat /\ t * m \in Nat /\ t * (q + 1) = t * q + t
    BY <1>1
  <2>2. ASSUME q < m PROVE t * q < n
    <3>1. t * (q + 1) <= t * m
      BY <1>1, <2>2, TimesMonotone
    <3>2. QED
      BY <1>1, <2>1, <3>1
  <2>3. ASSUME m <= q PROVE ~(t * q < n)
    <3>1. t * m <= t * q
      BY <1>1, <2>3, TimesMonotone
    <3>2. QED
      BY <1>1, <2>1, <3>1
  <2>4. QED
    BY <1>1, <2>2, <2>3
<1>3. QED
  BY <1>1, <1>2 DEF m

-----------------------------------------------------------------------------
(* Induction, with the set of the good values in place of a predicate *)

\* Whatever holds of 0 and of the successor of what it holds of holds of every
\* natural number.
LEMMA NatLadder ==
    ASSUME NEW Good, 0 \in Good, \A n \in Nat : n \in Good => n + 1 \in Good
    PROVE  \A n \in Nat : n \in Good
<1> SUFFICES ASSUME Nat \ Good # {}
             PROVE  FALSE
  OBVIOUS
<1>1. PICK n \in Nat \ Good : \A m \in Nat \ Good : n <= m
  <2>1. Nat \ Good \in SUBSET Nat
    OBVIOUS
  <2>2. QED
    BY <2>1, LeastNat
<1>2. n # 0 /\ n - 1 \in Nat /\ n - 1 < n
  BY <1>1
<1>3. n - 1 \in Good
  BY <1>1, <1>2
<1>4. n - 1 + 1 \in Good /\ n - 1 + 1 = n
  BY <1>2, <1>3
<1>5. QED
  BY <1>1, <1>4

\* A set of which every element can be taken away first: what holds of a set
\* because it holds of the set without any one of its elements holds of every
\* subset of a finite set.
LEMMA SetLadder ==
    ASSUME NEW S, IsFiniteSet(S), NEW Good,
           \A T \in SUBSET S : (\A x \in T : T \ {x} \in Good) => T \in Good
    PROVE  \A T \in SUBSET S : T \in Good
<1> DEFINE G == {n \in Nat : \A T \in SUBSET S : Cardinality(T) = n => T \in Good}
<1>1. \A T \in SUBSET S : IsFiniteSet(T) /\ Cardinality(T) \in Nat
  BY FS_Subset, FS_CardinalityType
<1>2. 0 \in G
  <2> SUFFICES ASSUME NEW T \in SUBSET S, Cardinality(T) = 0
               PROVE  T \in Good
    OBVIOUS
  <2>1. T = {}
    BY <1>1, FS_EmptySet
  <2>2. QED
    BY <2>1
<1>3. ASSUME NEW n \in Nat, n \in G
      PROVE  n + 1 \in G
  <2> SUFFICES ASSUME NEW T \in SUBSET S, Cardinality(T) = n + 1
               PROVE  T \in Good
    OBVIOUS
  <2>1. ASSUME NEW x \in T
        PROVE  T \ {x} \in Good
    <3>1. Cardinality(T \ {x}) = n
      BY <1>1, FS_RemoveElement
    <3>2. QED
      BY <1>3, <3>1
  <2>2. QED
    BY <2>1
<1> HIDE DEF G
<1>4. \A n \in Nat : n \in G
  BY <1>2, <1>3, NatLadder
<1>5. QED
  BY <1>1, <1>4 DEF G

-----------------------------------------------------------------------------
(* Sums: what SumFunctionOnSet adds up, element by element *)

Picked(S) == CHOOSE x \in S : TRUE

\* The table of the sums over the subsets of S.
Tabulates(g, f, S) ==
    g = [T \in SUBSET S |-> IF T = {} THEN 0 ELSE f[Picked(T)] + g[T \ {Picked(T)}]]

LEMMA SumIsTabulated ==
    ASSUME NEW f, NEW S
    PROVE  SumFunctionOnSet(f, S) = (CHOOSE g : Tabulates(g, f, S))[S]
BY DEF SumFunctionOnSet, FoldFunctionOnSet, MapThenFoldSet, Tabulates, Picked

LEMMA SomeTable ==
    ASSUME NEW f, NEW S, IsFiniteSet(S)
    PROVE  \E g : Tabulates(g, f, S)
<1> DEFINE Upto(n) == {T \in SUBSET S : Cardinality(T) <= n}
           Step(g, n) == [T \in Upto(n) |-> IF T = {} THEN 0 ELSE f[Picked(T)] + g[T \ {Picked(T)}]]
           G == {n \in Nat : \E g : g = Step(g, n)}
<1>1. \A T \in SUBSET S : IsFiniteSet(T) /\ Cardinality(T) \in Nat
  BY FS_Subset, FS_CardinalityType
<1>2. 0 \in G
  <2> DEFINE g == [T \in Upto(0) |-> 0]
  <2>1. \A T \in Upto(0) : T = {}
    BY <1>1, FS_EmptySet
  <2>2. g = Step(g, 0)
    BY <2>1
  <2>3. QED
    BY <2>2
<1>3. ASSUME NEW n \in Nat, n \in G
      PROVE  n + 1 \in G
  <2>1. PICK g : g = Step(g, n)
    BY <1>3
  <2> DEFINE h == Step(g, n + 1)
  <2>2. \A T \in Upto(n) : h[T] = g[T]
    <3> SUFFICES ASSUME NEW T \in Upto(n)
                 PROVE  h[T] = g[T]
      OBVIOUS
    <3>1. T \in Upto(n + 1)
      BY <1>1
    <3>2. h[T] = IF T = {} THEN 0 ELSE f[Picked(T)] + g[T \ {Picked(T)}]
      BY <3>1
    <3>3. g[T] = IF T = {} THEN 0 ELSE f[Picked(T)] + g[T \ {Picked(T)}]
      BY <2>1
    <3>4. QED
      BY <3>2, <3>3
  <2>3. ASSUME NEW T \in Upto(n + 1), T # {}
        PROVE  T \ {Picked(T)} \in Upto(n)
    <3>1. Picked(T) \in T
      BY <2>3 DEF Picked
    <3>2. Cardinality(T \ {Picked(T)}) = Cardinality(T) - 1
      BY <1>1, <3>1, FS_RemoveElement
    <3>3. QED
      BY <1>1, <3>2
  <2>4. h = Step(h, n + 1)
    <3>1. \A T \in Upto(n + 1) : T # {} => h[T \ {Picked(T)}] = g[T \ {Picked(T)}]
      BY <2>2, <2>3
    <3>2. QED
      BY <3>1
  <2> HIDE DEF h, Step
  <2>5. \E k : k = Step(k, n + 1)
    BY <2>4
  <2>6. QED
    BY <2>5
<1> HIDE DEF G
<1>4. Cardinality(S) \in G
  <2>1. \A n \in Nat : n \in G
    BY <1>2, <1>3, NatLadder
  <2>2. QED
    BY <1>1, <2>1
<1>5. Upto(Cardinality(S)) = SUBSET S
  BY <1>1, FS_Subset
<1>6. PICK g : g = Step(g, Cardinality(S))
  BY <1>4 DEF G
<1> HIDE DEF Upto
<1>7. Tabulates(g, f, S)
  BY <1>5, <1>6 DEF Tabulates
<1>8. QED
  BY <1>7

\* Nothing adds up to 0, and a set that has elements to the one picked and the
\* sum of the rest.
LEMMA SumFromThePicked ==
    ASSUME NEW f, NEW S, IsFiniteSet(S)
    PROVE  /\ S = {} => SumFunctionOnSet(f, S) = 0
           /\ S # {} => /\ Picked(S) \in S
                        /\ SumFunctionOnSet(f, S) =
                              f[Picked(S)] + SumFunctionOnSet(f, S \ {Picked(S)})
<1> DEFINE table(T) == CHOOSE g : Tabulates(g, f, T)
<1>1. \A T \in SUBSET S : Tabulates(table(T), f, T) /\ SumFunctionOnSet(f, T) = table(T)[T]
  BY SomeTable, SumIsTabulated, FS_Subset
<1> HIDE DEF table
<1>2. ASSUME NEW R \in SUBSET S
      PROVE  \A T \in SUBSET R : table(R)[T] = table(S)[T]
  <2> DEFINE Good == {T \in SUBSET R : table(R)[T] = table(S)[T]}
  <2>1. ASSUME NEW T \in SUBSET R, \A x \in T : T \ {x} \in Good
        PROVE  T \in Good
    <3>1. R \in SUBSET S /\ T \in SUBSET S
      OBVIOUS
    <3>2. Tabulates(table(R), f, R) /\ Tabulates(table(S), f, S)
      BY <1>1
    <3>3. table(R)[T] = IF T = {} THEN 0 ELSE f[Picked(T)] + table(R)[T \ {Picked(T)}]
      BY <3>2 DEF Tabulates
    <3>4. table(S)[T] = IF T = {} THEN 0 ELSE f[Picked(T)] + table(S)[T \ {Picked(T)}]
      BY <3>1, <3>2 DEF Tabulates
    <3>5. T # {} => Picked(T) \in T
      BY DEF Picked
    <3>6. T # {} => table(R)[T \ {Picked(T)}] = table(S)[T \ {Picked(T)}]
      BY <2>1, <3>5
    <3>7. QED
      BY <3>3, <3>4, <3>6
  <2>2. IsFiniteSet(R)
    BY FS_Subset
  <2> HIDE DEF Good
  <2>3. \A T \in SUBSET R : T \in Good
    BY <2>1, <2>2, SetLadder
  <2>4. QED
    BY <2>3 DEF Good
<1>3. SumFunctionOnSet(f, S) =
         IF S = {} THEN 0 ELSE f[Picked(S)] + table(S)[S \ {Picked(S)}]
  BY <1>1 DEF Tabulates
<1>4. S # {} => Picked(S) \in S
  BY DEF Picked
<1>5. table(S)[S \ {Picked(S)}] = SumFunctionOnSet(f, S \ {Picked(S)})
  BY <1>1, <1>2
<1>6. QED
  BY <1>3, <1>4, <1>5

LEMMA SumType ==
    ASSUME NEW f, NEW S, IsFiniteSet(S), \A x \in S : f[x] \in Nat
    PROVE  SumFunctionOnSet(f, S) \in Nat
<1> DEFINE Good == {T \in SUBSET S : SumFunctionOnSet(f, T) \in Nat}
<1>1. ASSUME NEW T \in SUBSET S, \A x \in T : T \ {x} \in Good
      PROVE  T \in Good
  <2>1. IsFiniteSet(T)
    BY FS_Subset
  <2>2. CASE T = {}
    <3>1. SumFunctionOnSet(f, T) = 0
      BY <2>1, <2>2, SumFromThePicked
    <3>2. QED
      BY <3>1
  <2>3. CASE T # {}
    <3>1. Picked(T) \in T /\ SumFunctionOnSet(f, T) = f[Picked(T)] + SumFunctionOnSet(f, T \ {Picked(T)})
      BY <2>1, <2>3, SumFromThePicked
    <3>2. SumFunctionOnSet(f, T \ {Picked(T)}) \in Nat /\ f[Picked(T)] \in Nat
      BY <1>1, <3>1
    <3>3. QED
      BY <3>1, <3>2
  <2>4. QED
    BY <2>2, <2>3
<1> HIDE DEF Good
<1>2. S \in Good
  <2>1. \A T \in SUBSET S : T \in Good
    BY <1>1, SetLadder
  <2>2. QED
    BY <2>1
<1>3. QED
  BY <1>2 DEF Good

\* The sum of a set is any element of it and the sum of the others.
LEMMA SumTakesOut ==
    ASSUME NEW f, NEW S, IsFiniteSet(S), \A x \in S : f[x] \in Nat
    PROVE  \A x \in S : SumFunctionOnSet(f, S) = f[x] + SumFunctionOnSet(f, S \ {x})
<1> DEFINE Sum(T) == SumFunctionOnSet(f, T)
           Good == {T \in SUBSET S : \A x \in T : Sum(T) = f[x] + Sum(T \ {x})}
<1>1. \A T \in SUBSET S : IsFiniteSet(T) /\ Sum(T) \in Nat
  <2> SUFFICES ASSUME NEW T \in SUBSET S
               PROVE  IsFiniteSet(T) /\ Sum(T) \in Nat
    OBVIOUS
  <2>1. IsFiniteSet(T)
    BY FS_Subset
  <2>2. QED
    BY <2>1, SumType
<1>2. \A T \in SUBSET S : T # {} => Picked(T) \in T /\ Sum(T) = f[Picked(T)] + Sum(T \ {Picked(T)})
  BY <1>1, SumFromThePicked
<1> HIDE DEF Sum
<1>3. ASSUME NEW T \in SUBSET S, \A x \in T : T \ {x} \in Good
      PROVE  T \in Good
  <2> SUFFICES ASSUME NEW x \in T, x # Picked(T)
               PROVE  Sum(T) = f[x] + Sum(T \ {x})
    BY <1>2
  <2> DEFINE c == Picked(T)
             rest == (T \ {c}) \ {x}
  <2>1. c \in T /\ x \in T \ {c} /\ c \in T \ {x} /\ rest = (T \ {x}) \ {c}
    BY <1>2
  <2>2. Sum(T) = f[c] + Sum(T \ {c})
    BY <1>2, <2>1
  <2>3. Sum(T \ {c}) = f[x] + Sum(rest)
    BY <1>3, <2>1
  <2>4. Sum(T \ {x}) = f[c] + Sum(rest)
    BY <1>3, <2>1
  <2>5. f[c] \in Nat /\ f[x] \in Nat /\ Sum(rest) \in Nat
    BY <1>1, <2>1
  <2> HIDE DEF c, rest
  <2>6. QED
    BY <2>2, <2>3, <2>4, <2>5
<1> HIDE DEF Good
<1>4. S \in Good
  <2>1. \A T \in SUBSET S : T \in Good
    BY <1>3, SetLadder
  <2>2. QED
    BY <2>1
<1>5. QED
  BY <1>4 DEF Good, Sum

\* Two functions that agree on a set add up alike.
LEMMA SumSame ==
    ASSUME NEW f, NEW g, NEW S, IsFiniteSet(S), \A x \in S : f[x] = g[x]
    PROVE  SumFunctionOnSet(f, S) = SumFunctionOnSet(g, S)
<1> DEFINE Good == {T \in SUBSET S : SumFunctionOnSet(f, T) = SumFunctionOnSet(g, T)}
<1>1. ASSUME NEW T \in SUBSET S, \A x \in T : T \ {x} \in Good
      PROVE  T \in Good
  <2>1. IsFiniteSet(T)
    BY FS_Subset
  <2>2. CASE T = {}
    BY <2>1, <2>2, SumFromThePicked
  <2>3. CASE T # {}
    <3>1. /\ Picked(T) \in T
          /\ SumFunctionOnSet(f, T) = f[Picked(T)] + SumFunctionOnSet(f, T \ {Picked(T)})
          /\ SumFunctionOnSet(g, T) = g[Picked(T)] + SumFunctionOnSet(g, T \ {Picked(T)})
      BY <2>1, <2>3, SumFromThePicked
    <3>2. /\ SumFunctionOnSet(f, T \ {Picked(T)}) = SumFunctionOnSet(g, T \ {Picked(T)})
          /\ f[Picked(T)] = g[Picked(T)]
      BY <1>1, <3>1
    <3>3. QED
      BY <3>1, <3>2
  <2>4. QED
    BY <2>2, <2>3
<1> HIDE DEF Good
<1>2. S \in Good
  <2>1. \A T \in SUBSET S : T \in Good
    BY <1>1, SetLadder
  <2>2. QED
    BY <2>1
<1>3. QED
  BY <1>2 DEF Good

\* Sums add up term by term.
LEMMA SumPlus ==
    ASSUME NEW f, NEW g, NEW h, NEW S, IsFiniteSet(S),
           \A x \in S : f[x] \in Nat /\ g[x] \in Nat /\ h[x] = f[x] + g[x]
    PROVE  SumFunctionOnSet(h, S) = SumFunctionOnSet(f, S) + SumFunctionOnSet(g, S)
<1> DEFINE Good == {T \in SUBSET S :
                      SumFunctionOnSet(h, T) = SumFunctionOnSet(f, T) + SumFunctionOnSet(g, T)}
<1>1. ASSUME NEW T \in SUBSET S, \A x \in T : T \ {x} \in Good
      PROVE  T \in Good
  <2>1. IsFiniteSet(T)
    BY FS_Subset
  <2>2. CASE T = {}
    <3>1. SumFunctionOnSet(f, T) = 0 /\ SumFunctionOnSet(g, T) = 0 /\ SumFunctionOnSet(h, T) = 0
      BY <2>1, <2>2, SumFromThePicked
    <3>2. QED
      BY <3>1
  <2>3. CASE T # {}
    <3> DEFINE c == Picked(T)
               rest == T \ {c}
    <3>1. /\ c \in T
          /\ SumFunctionOnSet(f, T) = f[c] + SumFunctionOnSet(f, rest)
          /\ SumFunctionOnSet(g, T) = g[c] + SumFunctionOnSet(g, rest)
          /\ SumFunctionOnSet(h, T) = h[c] + SumFunctionOnSet(h, rest)
      BY <2>1, <2>3, SumFromThePicked
    <3>2. /\ SumFunctionOnSet(h, rest) = SumFunctionOnSet(f, rest) + SumFunctionOnSet(g, rest)
          /\ f[c] \in Nat /\ g[c] \in Nat /\ h[c] = f[c] + g[c]
      BY <1>1, <3>1
    <3>3. SumFunctionOnSet(f, rest) \in Nat /\ SumFunctionOnSet(g, rest) \in Nat
      <4>1. IsFiniteSet(rest)
        BY <2>1, FS_Subset
      <4>2. QED
        BY <4>1, SumType
    <3> HIDE DEF c, rest
    <3>4. QED
      BY <3>1, <3>2, <3>3
  <2>4. QED
    BY <2>2, <2>3
<1> HIDE DEF Good
<1>2. S \in Good
  <2>1. \A T \in SUBSET S : T \in Good
    BY <1>1, SetLadder
  <2>2. QED
    BY <2>1
<1>3. QED
  BY <1>2 DEF Good

\* The same amount at some places and nothing at the others.
LEMMA SumOfEqualParts ==
    ASSUME NEW f, NEW S, IsFiniteSet(S), NEW K \in SUBSET S, NEW amount \in Nat,
           \A x \in S : f[x] = IF x \in K THEN amount ELSE 0
    PROVE  SumFunctionOnSet(f, S) = amount * Cardinality(K)
<1> DEFINE Good == {T \in SUBSET S : SumFunctionOnSet(f, T) = amount * Cardinality(T \cap K)}
<1>1. ASSUME NEW T \in SUBSET S, \A x \in T : T \ {x} \in Good
      PROVE  T \in Good
  <2>1. IsFiniteSet(T) /\ IsFiniteSet(T \cap K) /\ Cardinality(T \cap K) \in Nat
    BY FS_Subset, FS_CardinalityType
  <2>2. CASE T = {}
    <3>1. T \cap K = {}
      BY <2>2
    <3>2. SumFunctionOnSet(f, T) = 0 /\ Cardinality(T \cap K) = 0
      BY <2>1, <2>2, <3>1, SumFromThePicked, FS_EmptySet
    <3>3. QED
      BY <3>2
  <2>3. CASE T # {}
    <3> DEFINE c == Picked(T)
               rest == T \ {c}
    <3>1. c \in T /\ SumFunctionOnSet(f, T) = f[c] + SumFunctionOnSet(f, rest)
      BY <2>1, <2>3, SumFromThePicked
    <3>2. SumFunctionOnSet(f, rest) = amount * Cardinality(rest \cap K)
      BY <1>1, <3>1
    <3>3. rest \cap K = (T \cap K) \ {c}
      OBVIOUS
    <3>4. Cardinality(rest \cap K) = IF c \in T \cap K THEN Cardinality(T \cap K) - 1
                                                       ELSE Cardinality(T \cap K)
      BY <2>1, <3>3, FS_RemoveElement
    <3>5. f[c] = IF c \in K THEN amount ELSE 0
      BY <3>1
    <3>6. CASE c \in K
      <4>1. SumFunctionOnSet(f, T) = amount + amount * (Cardinality(T \cap K) - 1)
        BY <3>1, <3>2, <3>4, <3>5, <3>6
      <4>2. \A n \in Nat : amount + amount * (n - 1) = amount * n
        OBVIOUS
      <4>3. QED
        BY <2>1, <4>1, <4>2
    <3>7. CASE c \notin K
      <4>1. SumFunctionOnSet(f, T) = 0 + amount * Cardinality(T \cap K)
        BY <3>1, <3>2, <3>4, <3>5, <3>7
      <4>2. \A n \in Nat : 0 + amount * n = amount * n
        OBVIOUS
      <4>3. QED
        BY <2>1, <4>1, <4>2
    <3>8. QED
      BY <3>6, <3>7
  <2>4. QED
    BY <2>2, <2>3
<1> HIDE DEF Good
<1>2. S \in Good
  <2>1. \A T \in SUBSET S : T \in Good
    BY <1>1, SetLadder
  <2>2. QED
    BY <2>1
<1>3. S \cap K = K
  OBVIOUS
<1>4. QED
  BY <1>2, <1>3 DEF Good

\* Places that hold nothing may be left out.
LEMMA SumWithoutZeros ==
    ASSUME NEW f, NEW S, IsFiniteSet(S), NEW K \in SUBSET S,
           \A x \in S : f[x] \in Nat, \A x \in S \ K : f[x] = 0
    PROVE  SumFunctionOnSet(f, S) = SumFunctionOnSet(f, K)
<1> DEFINE Good == {T \in SUBSET S : SumFunctionOnSet(f, T) = SumFunctionOnSet(f, T \cap K)}
<1>1. ASSUME NEW T \in SUBSET S, \A x \in T : T \ {x} \in Good
      PROVE  T \in Good
  <2>1. IsFiniteSet(T) /\ IsFiniteSet(T \cap K)
    BY FS_Subset
  <2>2. CASE T \subseteq K
    <3>1. T \cap K = T
      BY <2>2
    <3>2. QED
      BY <3>1
  <2>3. CASE ~(T \subseteq K)
    <3>1. PICK x \in T : x \notin K
      BY <2>3
    <3>2. SumFunctionOnSet(f, T) = f[x] + SumFunctionOnSet(f, T \ {x})
      BY <2>1, SumTakesOut
    <3>3. (T \ {x}) \cap K = T \cap K
      BY <3>1
    <3>4. SumFunctionOnSet(f, T \ {x}) = SumFunctionOnSet(f, T \cap K)
      BY <1>1, <3>3
    <3>5. SumFunctionOnSet(f, T \cap K) \in Nat
      BY <2>1, SumType
    <3>6. f[x] = 0
      BY <3>1
    <3>7. QED
      BY <3>2, <3>4, <3>5, <3>6
  <2>4. QED
    BY <2>2, <2>3
<1> HIDE DEF Good
<1>2. S \in Good
  <2>1. \A T \in SUBSET S : T \in Good
    BY <1>1, SetLadder
  <2>2. QED
    BY <2>1
<1>3. S \cap K = K
  OBVIOUS
<1>4. QED
  BY <1>2, <1>3 DEF Good

\* Places renamed one by one keep their sum.
LEMMA SumReordered ==
    ASSUME NEW f, NEW g, NEW S, IsFiniteSet(S), NEW K, NEW name \in Bijection(S, K),
           \A x \in S : g[x] = f[name[x]] /\ g[x] \in Nat
    PROVE  SumFunctionOnSet(g, S) = SumFunctionOnSet(f, K)
<1> DEFINE Named(T) == {name[x] : x \in T}
           Good == {T \in SUBSET S : SumFunctionOnSet(g, T) = SumFunctionOnSet(f, Named(T))}
<1>1. /\ name \in [S -> K] /\ \A x, y \in S : name[x] = name[y] => x = y
      /\ \A y \in K : \E x \in S : name[x] = y
  BY DEF Bijection, Injection, Surjection, IsInjective
<1>2. ASSUME NEW T \in SUBSET S, \A x \in T : T \ {x} \in Good
      PROVE  T \in Good
  <2>1. IsFiniteSet(T) /\ IsFiniteSet(Named(T))
    <3>1. IsFiniteSet(T)
      BY FS_Subset
    <3>2. [x \in T |-> name[x]] \in Surjection(T, Named(T))
      BY DEF Surjection
    <3>3. QED
      BY <3>1, <3>2, FS_Surjection
  <2>2. CASE T = {}
    <3>1. Named(T) = {}
      BY <2>2
    <3>2. QED
      BY <2>1, <2>2, <3>1, SumFromThePicked
  <2>3. CASE T # {}
    <3>1. PICK x : x \in T
      BY <2>3
    <3>2. SumFunctionOnSet(g, T) = g[x] + SumFunctionOnSet(g, T \ {x})
      BY <2>1, <3>1, SumTakesOut
    <3>3. \A y \in Named(T) : f[y] \in Nat
      OBVIOUS
    <3>4. SumFunctionOnSet(f, Named(T)) = f[name[x]] + SumFunctionOnSet(f, Named(T) \ {name[x]})
      BY <2>1, <3>1, <3>3, SumTakesOut
    <3>5. Named(T) \ {name[x]} = Named(T \ {x})
      BY <1>1, <3>1
    <3>6. SumFunctionOnSet(g, T \ {x}) = SumFunctionOnSet(f, Named(T \ {x}))
      BY <1>2, <3>1
    <3>7. QED
      BY <3>1, <3>2, <3>4, <3>5, <3>6
  <2>4. QED
    BY <2>2, <2>3
<1> HIDE DEF Good
<1>3. S \in Good
  <2>1. \A T \in SUBSET S : T \in Good
    BY <1>2, SetLadder
  <2>2. QED
    BY <2>1
<1>4. Named(S) = K
  BY <1>1
<1>5. QED
  BY <1>3, <1>4 DEF Good

\* One place changes: the sum changes by as much.
LEMMA SumOneChange ==
    ASSUME NEW f, NEW g, NEW S, IsFiniteSet(S), NEW x \in S,
           \A y \in S : f[y] \in Nat /\ g[y] \in Nat, \A y \in S \ {x} : g[y] = f[y]
    PROVE  SumFunctionOnSet(g, S) + f[x] = SumFunctionOnSet(f, S) + g[x]
<1>1. /\ SumFunctionOnSet(f, S) = f[x] + SumFunctionOnSet(f, S \ {x})
      /\ SumFunctionOnSet(g, S) = g[x] + SumFunctionOnSet(g, S \ {x})
  BY SumTakesOut
<1>2. IsFiniteSet(S \ {x})
  BY FS_RemoveElement
<1>3. SumFunctionOnSet(f, S \ {x}) = SumFunctionOnSet(g, S \ {x})
  BY <1>2, SumSame
<1>4. SumFunctionOnSet(f, S \ {x}) \in Nat
  BY <1>2, SumType
<1>5. QED
  BY <1>1, <1>3, <1>4

\* A sum is at least as great as any two of its terms.
LEMMA SumAtLeast ==
    ASSUME NEW f, NEW S, IsFiniteSet(S), \A x \in S : f[x] \in Nat
    PROVE  /\ \A x \in S : f[x] <= SumFunctionOnSet(f, S)
           /\ \A x, y \in S : x # y => f[x] + f[y] <= SumFunctionOnSet(f, S)
<1>1. ASSUME NEW T \in SUBSET S
      PROVE  /\ IsFiniteSet(T) /\ SumFunctionOnSet(f, T) \in Nat
             /\ \A x \in T : SumFunctionOnSet(f, T) = f[x] + SumFunctionOnSet(f, T \ {x})
  <2>1. IsFiniteSet(T)
    BY FS_Subset
  <2>2. QED
    BY <2>1, SumType, SumTakesOut
<1>2. ASSUME NEW x \in S
      PROVE  /\ f[x] <= SumFunctionOnSet(f, S)
             /\ \A y \in S : x # y => f[x] + f[y] <= SumFunctionOnSet(f, S)
  <2>1. /\ SumFunctionOnSet(f, S) = f[x] + SumFunctionOnSet(f, S \ {x})
        /\ SumFunctionOnSet(f, S \ {x}) \in Nat
    BY <1>1
  <2>2. ASSUME NEW y \in S, x # y
        PROVE  f[y] <= SumFunctionOnSet(f, S \ {x})
    <3>1. /\ SumFunctionOnSet(f, S \ {x}) = f[y] + SumFunctionOnSet(f, (S \ {x}) \ {y})
          /\ SumFunctionOnSet(f, (S \ {x}) \ {y}) \in Nat
      <4>1. S \ {x} \in SUBSET S /\ (S \ {x}) \ {y} \in SUBSET S /\ y \in S \ {x}
        BY <2>2
      <4>2. QED
        BY <1>1, <4>1
    <3>2. QED
      BY <3>1
  <2>3. ASSUME NEW y \in S, x # y
        PROVE  f[x] + f[y] <= SumFunctionOnSet(f, S)
    BY <2>1, <2>2, <2>3
  <2>4. QED
    BY <2>1, <2>3
<1>3. QED
  BY <1>2

=============================================================================
