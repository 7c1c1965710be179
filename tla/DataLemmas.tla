------------------------------ MODULE DataLemmas ------------------------------
(***************************************************************************)
(* Facts about numbers, sets and sequences that the other proofs cite: the *)
(* well-ordering of the naturals as facts about sets (least and greatest   *)
(* elements, induction, ranks), what FlattenSeq and sums return, and how   *)
(* the loops of a text nest.                                               *)
(***************************************************************************)
EXTENDS LoopText, Ranking, SequencesExt, TLAPS, NaturalsInduction, WellFoundedInduction, FiniteSetTheorems

\* Every nonempty set of naturals has a least element.
LEMMA LeastNatural ==
  ASSUME NEW T \in SUBSET Nat, T # {}
  PROVE  \E x \in T : \A y \in T : x <= y
<1> DEFINE R == {ss \in Nat \X Nat : ss[1] < ss[2]}
<1>1. IsWellFoundedOn(R, Nat)
  BY NatLessThanWellFounded DEF OpToRel
<1>2. ASSUME NEW x \in T, NEW y \in T, <<y, x>> \notin R
      PROVE  x <= y
  BY <1>2
<1> HIDE DEF R
<1>3. \E x \in T : \A y \in T : ~ (<<y, x>> \in R)
  BY <1>1, WFMin
<1>4. QED
  BY <1>2, <1>3

\* Min of FiniteSetsExt is the least element of a set of naturals.
LEMMA MinIsLeast ==
  ASSUME NEW T \in SUBSET Nat, T # {}
  PROVE  Min(T) \in T /\ \A y \in T : Min(T) <= y
BY LeastNatural DEF Min

\* A nonempty set of naturals with an upper bound has a greatest element, which
\* is Max of FiniteSetsExt.
LEMMA MaxIsGreatest ==
  ASSUME NEW T \in SUBSET Nat, T # {}, NEW n \in Nat, \A x \in T : x <= n
  PROVE  Max(T) \in T /\ \A y \in T : y <= Max(T)
<1> DEFINE U == {n - x : x \in T}
<1>1. U \in SUBSET Nat /\ U # {}
  <2>1. \A x \in T : x \in Nat /\ n - x \in Nat
    OBVIOUS
  <2>2. PICK t \in T : TRUE
    OBVIOUS
  <2>3. n - t \in U
    BY <2>2
  <2>4. QED
    BY <2>1, <2>3
<1>2. PICK u \in U : \A v \in U : u <= v
  BY <1>1, LeastNatural
<1>3. PICK x \in T : u = n - x
  BY <1>2
<1>4. \A y \in T : y <= x
  BY <1>2, <1>3
<1>5. QED
  BY <1>4 DEF Max

\* Induction over the naturals, for a property given as a set.
LEMMA NaturalsBySet ==
  ASSUME NEW T, 0 \in T, \A n \in Nat : n \in T => n + 1 \in T
  PROVE  Nat \subseteq T
<1> SUFFICES ASSUME Nat \ T # {} PROVE FALSE
  OBVIOUS
<1>1. PICK x \in Nat \ T : \A y \in Nat \ T : x <= y
  BY LeastNatural
<1>2. x # 0 /\ x - 1 \in Nat /\ x - 1 \in T
  BY <1>1
<1>3. QED
  BY <1>2

\* A set of n numbers or more has an n-th least, and Ranked is that one of the set.
LEMMA RankedIsMember ==
  ASSUME NEW n \in Nat, NEW S \in SUBSET (0 .. n - 1), NEW k \in 1 .. Cardinality(S)
  PROVE  Ranked(S, k) \in S /\ Cardinality({x \in S : x <= Ranked(S, k)}) = k
<1> DEFINE upTo(m) == {x \in S : x <= m}
<1> DEFINE T == {m \in Nat : Cardinality(upTo(m)) >= k}
<1>1. IsFiniteSet(S) /\ Cardinality(S) \in Nat
  <2>1. IsFiniteSet(0 .. n - 1)
    BY FS_Interval
  <2>2. QED
    BY <2>1, FS_Subset, FS_CardinalityType
<1>2. \A m \in Int : IsFiniteSet(upTo(m)) /\ Cardinality(upTo(m)) \in Nat
  <2> TAKE m \in Int
  <2>1. upTo(m) \subseteq S
    OBVIOUS
  <2>2. QED
    BY <2>1, <1>1, FS_Subset, FS_CardinalityType
<1>3. n \in T
  <2>1. upTo(n) = S
    <3>1. \A x \in S : x <= n
      OBVIOUS
    <3>2. QED
      BY <3>1
  <2>2. Cardinality(upTo(n)) >= k
    <3> HIDE DEF upTo
    <3> QED
      BY <2>1, <1>1
  <2>3. QED
    BY <2>2
<1>4. PICK m \in T : \A y \in T : m <= y
  BY <1>3, LeastNatural
<1> HIDE DEF T
<1>a. m \in Nat /\ Cardinality(upTo(m)) >= k /\ S \subseteq Int
      /\ \A y \in Nat : Cardinality(upTo(y)) >= k => m <= y
  BY <1>4 DEF T
<1> HIDE DEF upTo
<1>b. m - 1 \in Int /\ IsFiniteSet(upTo(m - 1)) /\ Cardinality(upTo(m - 1)) \in Nat
      /\ Cardinality(upTo(m)) \in Nat
  BY <1>a, <1>2
<1>c. k \in Nat /\ k >= 1 /\ k <= Cardinality(S)
  BY <1>1
<1>5. Cardinality(upTo(m - 1)) < k
  <2>1. CASE m = 0
    <3>1. \A x \in S : ~(x <= m - 1)
      BY <2>1
    <3>2. upTo(m - 1) = {}
      BY <3>1 DEF upTo
    <3>3. QED
      BY <3>2, <1>c, FS_EmptySet
  <2>2. CASE m # 0
    <3>1. m - 1 \in Nat /\ ~(m <= m - 1)
      BY <1>a, <2>2
    <3>2. ~(Cardinality(upTo(m - 1)) >= k)
      BY <3>1, <1>a
    <3>3. QED
      BY <3>2, <1>b, <1>c
  <2>3. QED
    BY <2>1, <2>2
<1>6. m \in S
  <2>1. SUFFICES ASSUME m \notin S PROVE FALSE
    OBVIOUS
  <2>2. \A x \in S : x <= m <=> x <= m - 1
    BY <2>1, <1>a
  <2>3. upTo(m) = upTo(m - 1)
    BY <2>2 DEF upTo
  <2>4. QED
    BY <2>3, <1>a, <1>b, <1>c, <1>5
<1>7. Cardinality(upTo(m)) = k
  <2>1. upTo(m) = upTo(m - 1) \cup {m} /\ m \notin upTo(m - 1)
    <3>1. \A x \in S : x <= m <=> x <= m - 1 \/ x = m
      BY <1>a
    <3>2. ~(m <= m - 1) /\ m <= m
      BY <1>a
    <3>3. QED
      BY <3>1, <3>2, <1>6 DEF upTo
  <2>2. Cardinality(upTo(m)) = Cardinality(upTo(m - 1)) + 1
    BY <2>1, <1>b, FS_AddElement
  <2>3. QED
    BY <2>2, <1>a, <1>b, <1>c, <1>5
<1>8. QED
  BY <1>6, <1>7 DEF Ranked, upTo

\* An element of a set of numbers is found by its rank.
LEMMA RankedUnique ==
  ASSUME NEW n \in Nat, NEW S \in SUBSET (0 .. n - 1), NEW m \in S, NEW k,
         Cardinality({x \in S : x <= m}) = k
  PROVE  Ranked(S, k) = m
<1> DEFINE upTo(y) == {x \in S : x <= y}
<1>1. IsFiniteSet(S)
  <2>1. IsFiniteSet(0 .. n - 1)
    BY FS_Interval
  <2>2. QED
    BY <2>1, FS_Subset
<1>2. ASSUME NEW x \in S, NEW y \in S, x < y PROVE Cardinality(upTo(x)) # Cardinality(upTo(y))
  <2>1. x \in Int /\ y \in Int /\ \A z \in S : z \in Int
    OBVIOUS
  <2>2. upTo(x) \subseteq upTo(y) /\ y \in upTo(y) /\ y \notin upTo(x)
    <3>1. \A z \in S : z <= x => z <= y
      BY <1>2, <2>1
    <3>2. y <= y /\ ~(y <= x)
      BY <1>2, <2>1
    <3>3. QED
      BY <3>1, <3>2
  <2>3. IsFiniteSet(upTo(y))
    <3>1. upTo(y) \subseteq S
      OBVIOUS
    <3>2. QED
      BY <1>1, <3>1, FS_Subset
  <2> HIDE DEF upTo
  <2>4. QED
    BY <2>2, <2>3, FS_Subset
<1>3. \A y \in S : Cardinality(upTo(y)) = k => y = m
  <2> SUFFICES ASSUME NEW y \in S, Cardinality(upTo(y)) = k PROVE y = m
    OBVIOUS
  <2>1. Cardinality(upTo(m)) = k
    OBVIOUS
  <2>2. m \in Int /\ y \in Int
    OBVIOUS
  <2> HIDE DEF upTo
  <2>3. ~(y < m) /\ ~(m < y)
    BY <1>2, <2>1
  <2>4. QED
    BY <2>2, <2>3
<1>4. QED
  BY <1>3 DEF Ranked

\* With an element above all others, the set has one rank more.
LEMMA RankedGrows ==
  ASSUME NEW n \in Nat, NEW S \in SUBSET (0 .. n - 1), NEW m \in Nat, \A x \in S : x < m
  PROVE  /\ Cardinality(S) \in Nat /\ Cardinality(S \cup {m}) = Cardinality(S) + 1
         /\ Ranked(S \cup {m}, Cardinality(S) + 1) = m
         /\ \A k \in 1 .. Cardinality(S) : Ranked(S \cup {m}, k) = Ranked(S, k)
<1>1. IsFiniteSet(S)
  <2>1. IsFiniteSet(0 .. n - 1)
    BY FS_Interval
  <2>2. QED
    BY <2>1, FS_Subset
<1>2. m \notin S /\ S \subseteq Int
  OBVIOUS
<1>3. Cardinality(S) \in Nat /\ Cardinality(S \cup {m}) = Cardinality(S) + 1
  BY <1>1, <1>2, FS_CardinalityType, FS_AddElement
<1>4. PICK N \in Nat : S \cup {m} \in SUBSET (0 .. N - 1)
  <2> DEFINE N == IF n <= m THEN m + 1 ELSE n
  <2>1. N \in Nat /\ \A x \in S \cup {m} : x \in 0 .. N - 1
    OBVIOUS
  <2>2. QED
    BY <2>1
<1>5. Ranked(S \cup {m}, Cardinality(S) + 1) = m
  <2>1. {x \in S \cup {m} : x <= m} = S \cup {m}
    <3>1. \A x \in S \cup {m} : x <= m
      BY \A x \in S : x \in Int
    <3>2. QED
      BY <3>1
  <2>2. QED
    BY <1>3, <1>4, <2>1, RankedUnique
<1>6. ASSUME NEW k \in 1 .. Cardinality(S) PROVE Ranked(S \cup {m}, k) = Ranked(S, k)
  <2> DEFINE r == Ranked(S, k)
  <2>1. r \in S /\ Cardinality({x \in S : x <= r}) = k
    BY RankedIsMember
  <2> HIDE DEF r
  <2>2. {x \in S \cup {m} : x <= r} = {x \in S : x <= r}
    <3>1. r < m /\ r \in Int
      BY <2>1
    <3>2. ~(m <= r)
      BY <3>1
    <3>3. QED
      BY <3>2
  <2>3. Ranked(S \cup {m}, k) = r
    <3>1. r \in S \cup {m} /\ Cardinality({x \in S \cup {m} : x <= r}) = k
      BY <2>1, <2>2
    <3>2. QED
      BY <1>4, <3>1, RankedUnique
  <2>4. QED
    BY <2>3 DEF r
<1>7. QED
  BY <1>3, <1>5, <1>6

\* Ranks are in the order of the numbers.
LEMMA RankedAscends ==
  ASSUME NEW n \in Nat, NEW S \in SUBSET (0 .. n - 1),
         NEW j \in 1 .. Cardinality(S), NEW k \in 1 .. Cardinality(S), j < k
  PROVE  Ranked(S, j) < Ranked(S, k)
<1> DEFINE upTo(y) == {x \in S : x <= y}
<1>1. IsFiniteSet(S)
  <2>1. IsFiniteSet(0 .. n - 1)
    BY FS_Interval
  <2>2. QED
    BY <2>1, FS_Subset
<1>2. PICK x \in S, y \in S : /\ x = Ranked(S, j) /\ Cardinality(upTo(x)) = j
                             /\ y = Ranked(S, k) /\ Cardinality(upTo(y)) = k
  <2>1. /\ Ranked(S, j) \in S /\ Cardinality(upTo(Ranked(S, j))) = j
        /\ Ranked(S, k) \in S /\ Cardinality(upTo(Ranked(S, k))) = k
    BY RankedIsMember
  <2> HIDE DEF upTo
  <2>2. QED
    BY <2>1
<1>3. x \in Int /\ y \in Int
  OBVIOUS
<1>4. SUFFICES ASSUME y <= x PROVE FALSE
  BY <1>2, <1>3
<1>5. upTo(y) \subseteq upTo(x) /\ upTo(x) \subseteq S
  <2>1. \A z \in S : z \in Int
    OBVIOUS
  <2>2. \A z \in S : z <= y => z <= x
    BY <1>3, <1>4, <2>1
  <2>3. QED
    BY <2>2
<1> HIDE DEF upTo
<1>6. Cardinality(upTo(y)) <= Cardinality(upTo(x)) /\ j \in Int /\ k \in Int
  BY <1>1, <1>5, FS_Subset
<1>7. QED
  BY <1>2, <1>6

-----------------------------------------------------------------------------
\* f maps each number up to N to the concatenation of that many sequences.
Joins(N, seqs, f) == f = [i \in 1 .. N |-> IF i = 1 THEN seqs[i] ELSE f[i - 1] \o seqs[i]]

LEMMA JoinsExist ==
  ASSUME NEW N \in Nat, NEW seqs
  PROVE  \E f : Joins(N, seqs, f)
<1> DEFINE T == {n \in Nat : \E f : Joins(n, seqs, f)}
<1>1. 0 \in T
  <2>1. Joins(0, seqs, [i \in 1 .. 0 |-> 0])
    BY DEF Joins
  <2>2. QED
    BY <2>1
<1>2. \A n \in Nat : n \in T => n + 1 \in T
  <2> SUFFICES ASSUME NEW n \in Nat, NEW g, Joins(n, seqs, g)
               PROVE  \E f : Joins(n + 1, seqs, f)
    OBVIOUS
  <2> DEFINE f == [i \in 1 .. n + 1 |-> IF i = 1 THEN seqs[i] ELSE g[i - 1] \o seqs[i]]
  <2>1. ASSUME NEW i \in 1 .. n + 1
        PROVE  f[i] = IF i = 1 THEN seqs[i] ELSE f[i - 1] \o seqs[i]
    <3>1. CASE i = 1
      BY <3>1
    <3>2. CASE i # 1
      <4>1. i - 1 \in 1 .. n /\ i - 1 \in 1 .. n + 1
        BY <3>2
      <4>2. g[i - 1] = IF i - 1 = 1 THEN seqs[i - 1] ELSE g[(i - 1) - 1] \o seqs[i - 1]
        BY <4>1 DEF Joins
      <4>3. f[i - 1] = IF i - 1 = 1 THEN seqs[i - 1] ELSE g[(i - 1) - 1] \o seqs[i - 1]
        BY <4>1
      <4>4. f[i] = g[i - 1] \o seqs[i]
        BY <3>2
      <4> HIDE DEF f
      <4>5. QED
        BY <3>2, <4>2, <4>3, <4>4
    <3>3. QED
      BY <3>1, <3>2
  <2>2. Joins(n + 1, seqs, f)
    BY <2>1 DEF Joins
  <2>3. QED
    BY <2>2
<1> HIDE DEF T
<1>3. N \in T
  BY <1>1, <1>2, NaturalsBySet
<1>4. QED
  BY <1>3 DEF T

\* Flattening gives a sequence of the elements of the sequences flattened.
LEMMA FlattenElements ==
  ASSUME NEW E, NEW seqs \in Seq(Seq(E))
  PROVE  FlattenSeq(seqs) \in Seq(E)
<1> DEFINE N == Len(seqs)
<1>1. N \in Nat /\ \A i \in 1 .. N : seqs[i] \in Seq(E)
  OBVIOUS
<1>2. CASE N = 0
  <2>1. seqs = << >>
    BY <1>2
  <2>2. QED
    BY <2>1, <1>2 DEF FlattenSeq
<1>3. CASE N # 0
  <2>1. FlattenSeq(seqs) = (CHOOSE f : Joins(N, seqs, f))[N]
    BY <1>3 DEF FlattenSeq, Joins
  <2>2. PICK f : f = (CHOOSE g : Joins(N, seqs, g)) /\ Joins(N, seqs, f)
    BY <1>1, JoinsExist
  <2> HIDE DEF N
  <2>3. \A i \in 1 .. N : f[i] = IF i = 1 THEN seqs[i] ELSE f[i - 1] \o seqs[i]
    BY <2>2 DEF Joins
  <2> DEFINE T == {n \in Nat : n \in 1 .. N => f[n] \in Seq(E)}
  <2>4. 0 \in T
    BY <1>1
  <2>5. \A n \in Nat : n \in T => n + 1 \in T
    <3> SUFFICES ASSUME NEW n \in Nat, n \in 1 .. N => f[n] \in Seq(E), n + 1 \in 1 .. N
                 PROVE  f[n + 1] \in Seq(E)
      OBVIOUS
    <3>1. f[n + 1] = IF n + 1 = 1 THEN seqs[n + 1] ELSE f[(n + 1) - 1] \o seqs[n + 1]
      BY <2>3
    <3>2. CASE n = 0
      BY <3>1, <3>2, <1>1
    <3>3. CASE n # 0
      <4>1. n \in 1 .. N /\ (n + 1) - 1 = n /\ n + 1 # 1
        BY <3>3, <1>1
      <4>2. f[n] \in Seq(E) /\ seqs[n + 1] \in Seq(E)
        BY <4>1, <1>1
      <4>3. f[n] \o seqs[n + 1] \in Seq(E)
        BY <4>2
      <4>4. QED
        BY <3>1, <4>1, <4>3
    <3>4. QED
      BY <3>2, <3>3
  <2>6. Nat \subseteq T
    <3> HIDE DEF T
    <3> QED
      BY <2>4, <2>5, NaturalsBySet
  <2>7. f[N] \in Seq(E)
    BY <2>6, <1>1, <1>3
  <2>8. QED
    BY <2>1, <2>2, <2>7
<1>4. QED
  BY <1>2, <1>3

\* What flattening n + 1 sequences adds to flattening the first n.
LEMMA FlattenLast ==
  ASSUME NEW E, NEW n \in Nat, NEW seqs \in [1 .. n + 1 -> Seq(E)], NEW front \in [1 .. n -> Seq(E)],
         \A i \in 1 .. n : front[i] = seqs[i]
  PROVE  FlattenSeq(seqs) = FlattenSeq(front) \o seqs[n + 1]
<1>1. Len(seqs) = n + 1 /\ Len(front) = n /\ n + 1 # 0 /\ n + 1 \in 1 .. n + 1
      /\ seqs \in Seq(Seq(E)) /\ front \in Seq(Seq(E))
  OBVIOUS
<1>2. FlattenSeq(seqs) = (CHOOSE f : Joins(n + 1, seqs, f))[n + 1]
  BY <1>1 DEF FlattenSeq, Joins
<1>3. PICK f : f = (CHOOSE h : Joins(n + 1, seqs, h)) /\ Joins(n + 1, seqs, f)
  <2>1. n + 1 \in Nat
    OBVIOUS
  <2>2. QED
    BY <2>1, JoinsExist
<1>4. \A i \in 1 .. n + 1 : f[i] = IF i = 1 THEN seqs[i] ELSE f[i - 1] \o seqs[i]
  BY <1>3 DEF Joins
<1>5. CASE n = 0
  <2>1. FlattenSeq(front) = << >>
    BY <1>1, <1>5 DEF FlattenSeq
  <2>2. f[n + 1] = seqs[n + 1] /\ seqs[n + 1] \in Seq(E)
    BY <1>1, <1>4, <1>5
  <2>3. QED
    BY <1>2, <1>3, <2>1, <2>2
<1>6. CASE n # 0
  <2>1. FlattenSeq(front) = (CHOOSE g : Joins(n, front, g))[n]
    BY <1>1, <1>6 DEF FlattenSeq, Joins
  <2>2. PICK g : g = (CHOOSE h : Joins(n, front, h)) /\ Joins(n, front, g)
    BY JoinsExist
  <2>3. \A i \in 1 .. n : g[i] = IF i = 1 THEN seqs[i] ELSE g[i - 1] \o seqs[i]
    <3>1. g = [i \in 1 .. n |-> IF i = 1 THEN front[i] ELSE g[i - 1] \o front[i]]
      BY <2>2 DEF Joins
    <3>2. \A i \in 1 .. n : g[i] = IF i = 1 THEN front[i] ELSE g[i - 1] \o front[i]
      BY <3>1
    <3>3. QED
      BY <3>2
  <2> DEFINE T == {i \in Nat : i \in 1 .. n => f[i] = g[i]}
  <2>4. 0 \in T
    OBVIOUS
  <2>5. ASSUME NEW i \in Nat, i \in T PROVE i + 1 \in T
    <3> SUFFICES ASSUME i + 1 \in 1 .. n PROVE f[i + 1] = g[i + 1]
      OBVIOUS
    <3>1. i + 1 \in 1 .. n + 1
      OBVIOUS
    <3>2. f[i + 1] = IF i + 1 = 1 THEN seqs[i + 1] ELSE f[(i + 1) - 1] \o seqs[i + 1]
      BY <1>4, <3>1
    <3>3. g[i + 1] = IF i + 1 = 1 THEN seqs[i + 1] ELSE g[(i + 1) - 1] \o seqs[i + 1]
      BY <2>3
    <3>4. i + 1 # 1 => f[(i + 1) - 1] = g[(i + 1) - 1]
      BY <2>5
    <3>5. QED
      BY <3>2, <3>3, <3>4
  <2>6. n \in T
    <3> HIDE DEF T
    <3> QED
      BY <2>4, <2>5, NaturalsBySet
  <2>7. f[n] = g[n]
    BY <2>6, <1>6
  <2>8. f[n + 1] = f[n] \o seqs[n + 1]
    <3>1. f[n + 1] = IF n + 1 = 1 THEN seqs[n + 1] ELSE f[(n + 1) - 1] \o seqs[n + 1]
      BY <1>1, <1>4
    <3>2. n + 1 # 1 /\ (n + 1) - 1 = n
      BY <1>6
    <3>3. QED
      BY <3>1, <3>2
  <2>9. QED
    BY <1>2, <1>3, <2>1, <2>2, <2>7, <2>8
<1>7. QED
  BY <1>5, <1>6

-----------------------------------------------------------------------------
(* What SumFunction of Functions returns.                                  *)

\* The recursive function that MapThenFoldSet makes of a sum over S: g[s] is the
\* sum of c over s.
Sums(S, c, g) ==
  g = [s \in SUBSET S |->
         IF s = {} THEN 0 ELSE LET x == CHOOSE y \in s : TRUE IN c[x] + g[s \ {x}]]

LEMMA SumsExist ==
  ASSUME NEW S, IsFiniteSet(S), NEW c
  PROVE  \E g : Sums(S, c, g)
<1> DEFINE step(g, s) == IF s = {} THEN 0
                         ELSE LET x == CHOOSE y \in s : TRUE IN c[x] + g[s \ {x}]
<1> DEFINE upTo(n, g) == \A s \in SUBSET S : Cardinality(s) <= n => g[s] = step(g, s)
<1> DEFINE T == {n \in Nat : \E g : upTo(n, g)}
<1>1. \A s \in SUBSET S : IsFiniteSet(s) /\ Cardinality(s) \in Nat /\ Cardinality(s) <= Cardinality(S)
  BY FS_Subset, FS_CardinalityType
<1>2. \A s \in SUBSET S : s # {} =>
        LET x == CHOOSE y \in s : TRUE
        IN  x \in s /\ s \ {x} \in SUBSET S /\ Cardinality(s \ {x}) = Cardinality(s) - 1
  BY <1>1, FS_RemoveElement
<1>3. 0 \in T
  <2> DEFINE g == [s \in SUBSET S |-> 0]
  <2>1. \A s \in SUBSET S : Cardinality(s) <= 0 => s = {}
    <3>1. \A s \in SUBSET S : Cardinality(s) <= 0 => Cardinality(s) = 0
      BY <1>1
    <3>2. \A s \in SUBSET S : Cardinality(s) = 0 => s = {}
      BY <1>1, FS_EmptySet, Zenon
    <3>3. QED
      BY <3>1, <3>2
  <2>2. upTo(0, g)
    BY <2>1
  <2>3. QED
    BY <2>2
<1> HIDE DEF upTo
<1>4. \A n \in Nat : n \in T => n + 1 \in T
  <2> SUFFICES ASSUME NEW n \in Nat, NEW g, upTo(n, g)
               PROVE  \E h : upTo(n + 1, h)
    OBVIOUS
  <2> DEFINE h == [s \in SUBSET S |-> step(g, s)]
  <2>1. \A s \in SUBSET S : Cardinality(s) <= n => h[s] = g[s]
    BY DEF upTo
  <2>2. ASSUME NEW s \in SUBSET S, Cardinality(s) <= n + 1
        PROVE  h[s] = step(h, s)
    <3>1. CASE s = {}
      BY <3>1
    <3>2. CASE s # {}
      <4> DEFINE x == CHOOSE y \in s : TRUE
      <4>1. s \ {x} \in SUBSET S /\ Cardinality(s \ {x}) <= n
        BY <1>1, <1>2, <2>2, <3>2
      <4>2. h[s \ {x}] = g[s \ {x}]
        BY <2>1, <4>1
      <4>3. h[s] = c[x] + g[s \ {x}]
        BY <3>2
      <4> HIDE DEF h
      <4>4. QED
        BY <3>2, <4>2, <4>3
    <3>3. QED
      BY <3>1, <3>2
  <2>3. upTo(n + 1, h)
    <3> HIDE DEF h, step
    <3> QED
      BY <2>2 DEF upTo
  <2>4. QED
    BY <2>3
<1>5. PICK g : upTo(Cardinality(S), g)
  <2>1. Cardinality(S) \in T
    <3> HIDE DEF T
    <3> QED
      BY <1>3, <1>4, <1>1, NaturalsBySet
  <2>2. QED
    BY <2>1
<1> DEFINE h == [s \in SUBSET S |-> g[s]]
<1>6. ASSUME NEW s \in SUBSET S
      PROVE  h[s] = step(h, s)
  <2>1. g[s] = step(g, s)
    BY <1>1, <1>5 DEF upTo
  <2>2. CASE s = {}
    BY <2>1, <2>2
  <2>3. CASE s # {}
    BY <1>2, <2>1, <2>3
  <2>4. QED
    BY <2>2, <2>3
<1>7. h = [s \in SUBSET S |-> step(h, s)]
  BY <1>6
<1>8. Sums(S, c, h)
  BY <1>7 DEF Sums
<1>9. QED
  BY <1>8

\* The recursive function SumFunction is: the sum over any part of the domain.
LEMMA SumIs ==
  ASSUME NEW S, IsFiniteSet(S), NEW c, DOMAIN c = S
  PROVE  \E g : Sums(S, c, g) /\ SumFunction(c) = g[S]
<1>1. PICK g : g = (CHOOSE f : Sums(S, c, f)) /\ Sums(S, c, g)
  BY SumsExist
<1>2. SumFunction(c) = (CHOOSE f : Sums(S, c, f))[S]
  BY DEF SumFunction, SumFunctionOnSet, FoldFunctionOnSet, MapThenFoldSet, Sums
<1>3. QED
  BY <1>1, <1>2

\* A sum of numbers is a number, and any of them may be taken first.
Numbers(S, c) == DOMAIN c = S /\ \A x \in S : c[x] \in Int
Agree(S, c, d) == \A x \in S : c[x] = d[x]
AnyOrder(S, c, g) ==
  \A s \in SUBSET S : g[s] \in Int /\ \A k \in s : g[s] = c[k] + g[s \ {k}]

LEMMA SumInAnyOrder ==
  ASSUME NEW S, IsFiniteSet(S), NEW c, Numbers(S, c), NEW g, Sums(S, c, g)
  PROVE  AnyOrder(S, c, g)
<1> DEFINE fine(s) == g[s] \in Int /\ \A k \in s : g[s] = c[k] + g[s \ {k}]
<1> DEFINE T == {n \in Nat : \A s \in SUBSET S : Cardinality(s) <= n => fine(s)}
<1>1. \A s \in SUBSET S : IsFiniteSet(s) /\ Cardinality(s) \in Nat
  BY FS_Subset, FS_CardinalityType
<1>2. fine({})
  <2>1. g[{}] = 0
    BY DEF Sums
  <2>2. QED
    BY <2>1
<1>3. 0 \in T
  <2>1. \A s \in SUBSET S : Cardinality(s) <= 0 => Cardinality(s) = 0
    BY <1>1
  <2>2. \A s \in SUBSET S : Cardinality(s) = 0 => s = {}
    BY <1>1, FS_EmptySet, Zenon
  <2> HIDE DEF fine
  <2>3. QED
    BY <1>2, <2>1, <2>2
<1>4. ASSUME NEW n \in Nat, \A s \in SUBSET S : Cardinality(s) <= n => fine(s),
             NEW s \in SUBSET S, Cardinality(s) <= n + 1, s # {}
      PROVE  fine(s)
  <2>1. PICK z \in s : z = CHOOSE y \in s : TRUE
    BY <1>4
  <2>2. g[s] = c[z] + g[s \ {z}]
    <3>1. g[s] = LET y == CHOOSE u \in s : TRUE IN c[y] + g[s \ {y}]
      BY <1>4 DEF Sums
    <3>2. QED
      BY <2>1, <3>1
  <2>3. ASSUME NEW k \in s
        PROVE  s \ {k} \in SUBSET S /\ Cardinality(s \ {k}) <= n /\ c[k] \in Int
    <3>1. Cardinality(s \ {k}) = Cardinality(s) - 1
      BY <1>1, FS_RemoveElement
    <3>2. QED
      BY <1>1, <1>4, <3>1 DEF Numbers
  <2>4. fine(s \ {z})
    BY <1>4, <2>3
  <2>5. ASSUME NEW k \in s, k # z
        PROVE  g[s] = c[k] + g[s \ {k}]
    <3>1. fine(s \ {k})
      BY <1>4, <2>3
    <3> DEFINE u == s \ {z, k}
    <3>2. k \in s \ {z} /\ z \in s \ {k} /\ (s \ {z}) \ {k} = u /\ (s \ {k}) \ {z} = u
      BY <2>5
    <3>3. u \in SUBSET S /\ Cardinality(u) <= n
      <4>1. IsFiniteSet(s \ {z}) /\ u \in SUBSET (s \ {z})
        BY <1>1
      <4>2. Cardinality(u) <= Cardinality(s \ {z}) /\ Cardinality(u) \in Nat
        BY <4>1, FS_Subset, FS_CardinalityType
      <4>3. QED
        BY <4>2, <2>3, <1>1
    <3>4. g[u] \in Int
      BY <1>4, <3>3
    <3>5. g[s \ {z}] = c[k] + g[u] /\ g[s \ {k}] = c[z] + g[u]
      BY <2>4, <3>1, <3>2
    <3>6. c[z] \in Int /\ c[k] \in Int
      BY <2>3
    <3>7. c[z] + (c[k] + g[u]) = c[k] + (c[z] + g[u])
      BY <3>4, <3>6
    <3> HIDE DEF u
    <3>8. QED
      BY <2>2, <3>5, <3>7
  <2>6. g[s] \in Int
    <3>1. c[z] \in Int /\ g[s \ {z}] \in Int
      BY <2>3, <2>4
    <3>2. c[z] + g[s \ {z}] \in Int
      BY <3>1
    <3>3. QED
      BY <2>2, <3>2
  <2>7. \A k \in s : g[s] = c[k] + g[s \ {k}]
    BY <2>2, <2>5
  <2>8. QED
    BY <2>6, <2>7
<1>5. Nat \subseteq T
  <2> HIDE DEF fine
  <2>1. ASSUME NEW n \in Nat, n \in T
        PROVE  n + 1 \in T
    <3>1. \A s \in SUBSET S : Cardinality(s) <= n => fine(s)
      BY <2>1
    <3>2. \A s \in SUBSET S : Cardinality(s) <= n + 1 => fine(s)
      BY <1>2, <1>4, <3>1
    <3>3. QED
      BY <3>2
  <2> HIDE DEF T
  <2>2. QED
    BY <1>3, <2>1, NaturalsBySet
<1>6. \A s \in SUBSET S : fine(s)
  <2> HIDE DEF fine
  <2> QED
    BY <1>1, <1>5
<1>7. QED
  BY <1>6 DEF AnyOrder

\* Two sums over the same numbers are the same.
LEMMA SumsAgree ==
  ASSUME NEW S, NEW R \in SUBSET S, IsFiniteSet(S),
         NEW c, Numbers(S, c), NEW d, Numbers(R, d), Agree(R, c, d),
         NEW g, Sums(S, c, g), NEW h, Sums(R, d, h)
  PROVE  g[R] = h[R]
<1>1. IsFiniteSet(R)
  BY FS_Subset
<1>2. \A s \in SUBSET R : IsFiniteSet(s) /\ Cardinality(s) \in Nat
  BY <1>1, FS_Subset, FS_CardinalityType
<1>3. AnyOrder(S, c, g)
  BY SumInAnyOrder
<1>4. AnyOrder(R, d, h)
  BY <1>1, SumInAnyOrder
<1> DEFINE T == {n \in Nat : \A s \in SUBSET R : Cardinality(s) = n => g[s] = h[s]}
<1>5. g[{}] = h[{}]
  BY DEF Sums
<1>6. 0 \in T
  <2>1. \A s \in SUBSET R : Cardinality(s) = 0 => s = {}
    BY <1>2, FS_EmptySet, Zenon
  <2>2. QED
    BY <1>5, <2>1
<1>7. ASSUME NEW n \in Nat, \A s \in SUBSET R : Cardinality(s) = n => g[s] = h[s],
             NEW s \in SUBSET R, Cardinality(s) = n + 1
      PROVE  g[s] = h[s]
  <2>1. CASE s = {}
    BY <2>1, <1>5
  <2>2. CASE s # {}
    <3>1. PICK k \in s : TRUE
      BY <2>2
    <3>2. Cardinality(s \ {k}) = Cardinality(s) - 1
      BY <1>2, FS_RemoveElement
    <3>3. g[s \ {k}] = h[s \ {k}]
      <4>1. s \ {k} \in SUBSET R /\ Cardinality(s \ {k}) = n
        BY <1>7, <3>2
      <4>2. QED
        BY <1>7, <4>1
    <3>4. c[k] = d[k] /\ s \in SUBSET S
      BY DEF Agree
    <3>5. g[s] = c[k] + g[s \ {k}] /\ h[s] = d[k] + h[s \ {k}]
      BY <1>3, <1>4, <3>4 DEF AnyOrder
    <3>6. QED
      BY <3>3, <3>4, <3>5
  <2>3. QED
    BY <2>1, <2>2
<1>8. Cardinality(R) \in T
  <2>1. \A n \in Nat : n \in T => n + 1 \in T
    BY <1>7
  <2> HIDE DEF T
  <2>2. QED
    BY <1>1, <1>6, <2>1, NaturalsBySet, FS_CardinalityType
<1>9. QED
  BY <1>8

\* A sum is one of the numbers and the sum of the others.
OneMore(k, c, d) ==
  SumFunction(c) \in Int /\ SumFunction(d) \in Int /\ SumFunction(c) = c[k] + SumFunction(d)

LEMMA SumWithout ==
  ASSUME NEW S, IsFiniteSet(S), NEW k \in S,
         NEW c, Numbers(S, c), NEW d, Numbers(S \ {k}, d), Agree(S \ {k}, c, d)
  PROVE  OneMore(k, c, d)
<1>1. IsFiniteSet(S \ {k}) /\ S \ {k} \in SUBSET S /\ S \in SUBSET S
  BY FS_Subset
<1>2. DOMAIN c = S /\ DOMAIN d = S \ {k}
  BY DEF Numbers
<1>3. PICK g : Sums(S, c, g) /\ SumFunction(c) = g[S]
  BY <1>2, SumIs
<1>4. PICK h : Sums(S \ {k}, d, h) /\ SumFunction(d) = h[S \ {k}]
  BY <1>1, <1>2, SumIs
<1>5. g[S \ {k}] = h[S \ {k}]
  BY <1>1, <1>3, <1>4, SumsAgree
<1>6. g[S] \in Int /\ g[S] = c[k] + g[S \ {k}] /\ g[S \ {k}] \in Int
  <2>1. AnyOrder(S, c, g)
    BY <1>3, SumInAnyOrder
  <2>2. QED
    BY <1>1, <2>1 DEF AnyOrder
<1>7. QED
  BY <1>3, <1>4, <1>5, <1>6 DEF OneMore

\* A sum changes by what one of its numbers changes.
LEMMA SumUpdate ==
  ASSUME NEW S, IsFiniteSet(S), NEW k \in S,
         NEW c, Numbers(S, c), NEW d, Numbers(S, d), Agree(S \ {k}, c, d)
  PROVE  SumFunction(c) \in Int /\ SumFunction(d) = SumFunction(c) + (d[k] - c[k])
<1>1. PICK rest : Numbers(S \ {k}, rest) /\ Agree(S \ {k}, c, rest) /\ Agree(S \ {k}, d, rest)
  <2> DEFINE f == [x \in S \ {k} |-> c[x]]
  <2>1. Numbers(S \ {k}, f) /\ Agree(S \ {k}, c, f) /\ Agree(S \ {k}, d, f)
    BY DEF Numbers, Agree
  <2> HIDE DEF f
  <2>2. QED
    BY <2>1
<1>2. OneMore(k, c, rest)
  BY <1>1, SumWithout, Zenon
<1>3. OneMore(k, d, rest)
  BY <1>1, SumWithout, Zenon
<1>4. c[k] \in Int /\ d[k] \in Int
  BY DEF Numbers
<1>5. QED
  BY <1>2, <1>3, <1>4 DEF OneMore

\* The sum over one number more.
LEMMA SumExtend ==
  ASSUME NEW n \in Nat, NEW c, Numbers(1 .. n + 1, c), NEW d, Numbers(1 .. n, d),
         Agree(1 .. n, c, d)
  PROVE  SumFunction(d) \in Int /\ SumFunction(c) = SumFunction(d) + c[n + 1]
<1>1. IsFiniteSet(1 .. n + 1)
  <2>1. 1 \in Int /\ n + 1 \in Int
    OBVIOUS
  <2>2. QED
    BY <2>1, FS_Interval
<1>2. (1 .. n + 1) \ {n + 1} = 1 .. n /\ n + 1 \in 1 .. n + 1
  OBVIOUS
<1>3. Numbers((1 .. n + 1) \ {n + 1}, d) /\ Agree((1 .. n + 1) \ {n + 1}, c, d)
  BY <1>2, Zenon
<1>4. OneMore(n + 1, c, d)
  BY <1>1, <1>2, <1>3, SumWithout, Zenon
<1>5. c[n + 1] \in Int
  BY <1>2 DEF Numbers
<1>6. QED
  BY <1>4, <1>5 DEF OneMore

LEMMA SumOfZeroes ==
  ASSUME NEW S, IsFiniteSet(S), NEW c, c = [x \in S |-> 0]
  PROVE  SumFunction(c) = 0
<1>1. PICK g : Sums(S, c, g) /\ SumFunction(c) = g[S]
  BY SumIs
<1> DEFINE T == {n \in Nat : \A s \in SUBSET S : Cardinality(s) = n => g[s] = 0}
<1>2. \A s \in SUBSET S : IsFiniteSet(s) /\ Cardinality(s) \in Nat
  BY FS_Subset, FS_CardinalityType
<1>3. 0 \in T
  <2>1. \A s \in SUBSET S : Cardinality(s) = 0 => s = {}
    BY <1>2, FS_EmptySet, Zenon
  <2>2. g[{}] = 0
    BY <1>1 DEF Sums
  <2>3. QED
    BY <2>1, <2>2
<1>4. \A n \in Nat : n \in T => n + 1 \in T
  <2> SUFFICES ASSUME NEW n \in Nat, n \in T, NEW s \in SUBSET S, Cardinality(s) = n + 1
               PROVE  g[s] = 0
    OBVIOUS
  <2>1. CASE s = {}
    BY <1>1, <2>1 DEF Sums
  <2>2. CASE s # {}
    <3>1. PICK x \in s : x = CHOOSE y \in s : TRUE
      BY <2>2
    <3>2. s \ {x} \in SUBSET S /\ Cardinality(s \ {x}) = n
      <4>1. Cardinality(s \ {x}) = Cardinality(s) - 1
        BY <1>2, FS_RemoveElement
      <4>2. QED
        BY <4>1
    <3>3. g[s] = LET y == CHOOSE z \in s : TRUE IN c[y] + g[s \ {y}]
      BY <1>1, <2>2 DEF Sums
    <3>4. g[s \ {x}] = 0 /\ c[x] = 0
      BY <3>2
    <3>5. QED
      BY <3>1, <3>3, <3>4
  <2>3. QED
    BY <2>1, <2>2
<1>5. Cardinality(S) \in T
  <2> HIDE DEF T
  <2> QED
    BY <1>2, <1>3, <1>4, NaturalsBySet
<1>6. QED
  BY <1>1, <1>5

-----------------------------------------------------------------------------
(* Remainders.                                                             *)

LEMMA QuotientRemainder ==
  ASSUME NEW M \in Nat \ {0}, NEW a \in Int
  PROVE  \E d \in Int, r \in 0 .. M - 1 : a = M * d + r /\ r = a % M
<1>1. a \div M \in Int
  OBVIOUS
<1>2. a % M \in 0 .. M - 1
  OBVIOUS
<1>3. a = (a \div M) * M + (a % M)
  BY SMTT(30)
<1>4. QED
  BY <1>1, <1>2, <1>3

\* A remainder does not see a multiple of the divisor.
LEMMA ModShift ==
  ASSUME NEW M \in Nat \ {0}, NEW a \in Int, NEW b \in Int, NEW q \in Int, a = b + M * q
  PROVE  a % M = b % M
<1>1. PICK d \in Int, r \in 0 .. M - 1 : b = M * d + r /\ r = b % M
  BY QuotientRemainder
<1>2. a = M * (d + q) + r
  BY <1>1
<1>3. (M * (d + q) + r) % M = r
  OBVIOUS
<1>4. QED
  BY <1>1, <1>2, <1>3

\* A number and what is kept of it to a width add alike.
LEMMA ModAdd ==
  ASSUME NEW M \in Nat \ {0}, NEW a \in Int, NEW b \in Int
  PROVE  ((a % M) + b) % M = (a + b) % M
<1>1. PICK d \in Int, r \in 0 .. M - 1 : a = M * d + r /\ r = a % M
  BY QuotientRemainder
<1>2. a + b = (r + b) + M * d /\ a + b \in Int /\ r + b \in Int
  <2>1. PICK m \in Int : m = M * d
    OBVIOUS
  <2>2. r \in Int
    OBVIOUS
  <2>3. a = m + r
    BY <1>1, <2>1
  <2>4. a + b = (r + b) + m
    BY <2>2, <2>3
  <2>5. QED
    BY <2>1, <2>2, <2>4
<1>3. (a + b) % M = (r + b) % M
  BY <1>2, ModShift
<1>4. QED
  BY <1>1, <1>3

-----------------------------------------------------------------------------
(* Loop texts.                                                             *)

\* Where a region opens, one more is open.
LEMMA DepthGrows ==
  ASSUME NEW code, NEW p \in Nat, Opens(code[p + 1].op)
  PROVE  Depth(code, p) \in Int /\ Depth(code, p + 1) = Depth(code, p) + 1
<1> DEFINE o(n) == {q \in 1 .. n : Opens(code[q].op)}
           c(n) == {q \in 1 .. n : Closes(code[q].op)}
<1>1. IsFiniteSet(o(p)) /\ IsFiniteSet(c(p))
  <2>1. 1 \in Int /\ p \in Int
    OBVIOUS
  <2>2. IsFiniteSet(1 .. p)
    BY <2>1, FS_Interval
  <2>3. o(p) \subseteq 1 .. p /\ c(p) \subseteq 1 .. p
    OBVIOUS
  <2>4. QED
    BY <2>2, <2>3, FS_Subset
<1>2. o(p + 1) = o(p) \cup {p + 1} /\ p + 1 \notin o(p) /\ c(p + 1) = c(p)
  <2>1. 1 .. p + 1 = (1 .. p) \cup {p + 1} /\ p + 1 \notin 1 .. p
    OBVIOUS
  <2>2. ~Closes(code[p + 1].op)
    BY DEF Opens, Closes
  <2>3. QED
    BY <2>1, <2>2
<1>3. Depth(code, p) = Cardinality(o(p)) - Cardinality(c(p))
  BY DEF Depth
<1>4. Depth(code, p + 1) = Cardinality(o(p + 1)) - Cardinality(c(p + 1))
  BY DEF Depth
<1> HIDE DEF o, c
<1>5. Cardinality(o(p)) \in Nat /\ Cardinality(c(p)) \in Nat
  BY <1>1, FS_CardinalityType
<1>6. Cardinality(o(p + 1)) = Cardinality(o(p)) + 1
  BY <1>1, <1>2, FS_AddElement
<1>7. QED
  BY <1>2, <1>3, <1>4, <1>5, <1>6

\* A loop that starts in another ends in it.
LEMMA LoopsNest ==
  ASSUME NEW code, Structured(code), NEW l \in Loops(code), NEW m \in Loops(code),
         l < m, m <= End(code, l)
  PROVE  End(code, m) < End(code, l)
<1>1. /\ l \in Nat /\ m \in Nat /\ End(code, l) \in Nat /\ End(code, m) \in Nat
      /\ m < End(code, m) /\ code[m].op = "for" /\ code[End(code, l)].op = "end"
      /\ EndsAt(code, l, End(code, l)) /\ EndsAt(code, m, End(code, m))
  BY DEF Structured, Loops
<1>2. m < End(code, l)
  BY <1>1
<1>3. PICK n \in Nat : n + 1 = m
  <2>1. m - 1 \in Nat /\ (m - 1) + 1 = m
    BY <1>1
  <2>2. QED
    BY <2>1
<1>4. Depth(code, n) \in Int /\ Depth(code, m) = Depth(code, n) + 1
  BY <1>1, <1>3, DepthGrows DEF Opens
<1>5. n \in l .. End(code, l) - 1
  BY <1>1, <1>2, <1>3
<1>6. Depth(code, l) <= Depth(code, n) /\ Depth(code, End(code, l)) = Depth(code, l) - 1
  BY <1>1, <1>5 DEF EndsAt
<1>7. /\ Depth(code, End(code, m)) = Depth(code, m) - 1
      /\ \A r \in m .. End(code, m) - 1 : Depth(code, r) >= Depth(code, m)
  BY <1>1 DEF EndsAt
<1>8. Depth(code, l) \in Int
  <2>1. l - 1 \in Nat /\ (l - 1) + 1 = l /\ Opens(code[l].op)
    BY <1>1 DEF Structured, Loops, Opens
  <2>2. QED
    BY <2>1, DepthGrows
<1>9. Depth(code, End(code, l)) < Depth(code, End(code, m))
  BY <1>4, <1>6, <1>7, <1>8
<1>10. ~(End(code, l) \in m .. End(code, m) - 1)
  BY <1>4, <1>6, <1>7, <1>8
<1>11. End(code, l) # End(code, m)
  BY <1>4, <1>6, <1>7, <1>8, <1>9
<1>12. QED
  BY <1>1, <1>2, <1>10, <1>11

\* No two loops share an end: an end tells its loop.
LEMMA EndsDiffer ==
  ASSUME NEW code, Structured(code), NEW l \in Loops(code), NEW m \in Loops(code), l # m
  PROVE  End(code, l) # End(code, m)
<1>1. l \in Nat /\ m \in Nat /\ l <= End(code, l) /\ m <= End(code, m)
      /\ End(code, l) \in Nat /\ End(code, m) \in Nat
  BY DEF Structured, Loops
<1>2. SUFFICES ASSUME End(code, l) = End(code, m) PROVE FALSE
  OBVIOUS
<1>3. CASE l < m
  BY <1>1, <1>2, <1>3, LoopsNest
<1>4. CASE m < l
  BY <1>1, <1>2, <1>4, LoopsNest
<1>5. QED
  BY <1>1, <1>3, <1>4

\* Two loops whose ids are the same are one.
LEMMA LoopIdsDiffer ==
  ASSUME NEW code, Structured(code), NEW l \in Loops(code), NEW m \in Loops(code), l # m
  PROVE  LoopId(code, l) # LoopId(code, m)
<1> DEFINE before(n) == {q \in Loops(code) : End(code, q) < End(code, n)}
<1>1. IsFiniteSet(Loops(code))
  <2>1. Loops(code) \subseteq 1 .. Len(code) /\ 1 \in Int /\ Len(code) \in Int
    BY DEF Structured, Loops
  <2>2. QED
    BY <2>1, FS_Interval, FS_Subset
<1>2. \A n \in Loops(code) : End(code, n) \in Int
  BY DEF Structured
<1>3. ASSUME NEW x \in Loops(code), NEW y \in Loops(code), End(code, x) < End(code, y)
      PROVE  LoopId(code, x) # LoopId(code, y)
  <2>1. before(x) \subseteq before(y) /\ x \in before(y) /\ x \notin before(x)
    BY <1>2, <1>3
  <2>2. before(y) \subseteq Loops(code)
    OBVIOUS
  <2>3. LoopId(code, x) = Cardinality(before(x)) /\ LoopId(code, y) = Cardinality(before(y))
    BY DEF LoopId
  <2> HIDE DEF before
  <2>4. IsFiniteSet(before(y))
    BY <1>1, <2>2, FS_Subset
  <2>5. before(x) # before(y)
    BY <2>1
  <2>6. Cardinality(before(x)) # Cardinality(before(y))
    BY <2>1, <2>4, <2>5, FS_Subset
  <2>7. QED
    BY <2>3, <2>6
<1>4. End(code, l) # End(code, m) /\ End(code, l) \in Int /\ End(code, m) \in Int
  BY <1>2, EndsDiffer
<1>5. CASE End(code, l) < End(code, m)
  BY <1>3, <1>5
<1>6. CASE End(code, m) < End(code, l)
  BY <1>3, <1>6
<1>7. QED
  BY <1>4, <1>5, <1>6

\* Past an operation that is no loop's, the loops around stay.
LEMMA AroundNext ==
  ASSUME NEW code, Structured(code), NEW p \in DOMAIN code, code[p].op \notin {"for", "end"}
  PROVE  LoopsAround(code, p + 1) = LoopsAround(code, p)
<1>1. \A l \in Loops(code) : l \in Int /\ End(code, l) \in Int /\ l # p /\ End(code, l) # p
  BY DEF Structured, Loops
<1>2. p \in Int
  BY DEF Structured
<1>3. QED
  BY <1>1, <1>2 DEF LoopsAround

\* In a loop's body it is one of the loops around, and the innermost.
LEMMA AroundBody ==
  ASSUME NEW code, Structured(code), NEW l \in Loops(code)
  PROVE  /\ LoopsAround(code, l + 1) = LoopsAround(code, l) \cup {l}
         /\ LoopsAround(code, End(code, l)) = LoopsAround(code, l) \cup {l}
         /\ LoopsAround(code, End(code, l) + 1) = LoopsAround(code, l)
         /\ \A m \in LoopsAround(code, l) : m \in Int /\ m < l
<1>1. PICK e \in Int : e = End(code, l) /\ l \in Int /\ l < e /\ code[l].op = "for" /\ code[e].op = "end"
  BY DEF Structured, Loops
<1>2. \A m \in Loops(code) : /\ m \in Int /\ End(code, m) \in Int /\ m < End(code, m)
                             /\ m # e /\ End(code, m) # l
  BY <1>1 DEF Structured, Loops
<1>3. \A m \in Loops(code) : m # l => End(code, m) # e
  BY <1>1, EndsDiffer
<1>4. \A m \in Loops(code) : l < m /\ m <= e => End(code, m) < e
  BY <1>1, LoopsNest
<1>5. \A m \in Loops(code) : m < l /\ l <= End(code, m) => e < End(code, m)
  BY <1>1, LoopsNest
<1>6. \A m \in Loops(code) :
         m < l + 1 /\ l + 1 <= End(code, m) <=> m = l \/ (m < l /\ l <= End(code, m))
  BY <1>1, <1>2
<1>7. \A m \in Loops(code) : m < e /\ e <= End(code, m) <=> m = l \/ (m < l /\ l <= End(code, m))
  BY <1>1, <1>2, <1>3, <1>4, <1>5
<1>8. \A m \in Loops(code) : m < e + 1 /\ e + 1 <= End(code, m) <=> m < l /\ l <= End(code, m)
  BY <1>1, <1>2, <1>3, <1>4, <1>5
<1>9. LoopsAround(code, l + 1) = LoopsAround(code, l) \cup {l}
  <2>1. \A m : m \in LoopsAround(code, l + 1) <=> m \in LoopsAround(code, l) \/ m = l
    BY <1>6, l \in Loops(code) DEF LoopsAround
  <2>2. QED
    BY <2>1
<1>10. LoopsAround(code, e) = LoopsAround(code, l) \cup {l}
  <2>1. \A m : m \in LoopsAround(code, e) <=> m \in LoopsAround(code, l) \/ m = l
    BY <1>7, l \in Loops(code) DEF LoopsAround
  <2>2. QED
    BY <2>1
<1>11. LoopsAround(code, e + 1) = LoopsAround(code, l)
  BY <1>8 DEF LoopsAround
<1>12. \A m \in LoopsAround(code, l) : m \in Int /\ m < l
  BY <1>2 DEF LoopsAround
<1>13. QED
  BY <1>1, <1>9, <1>10, <1>11, <1>12
=============================================================================
