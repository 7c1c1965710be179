----------------------- MODULE DataflowStreams_proofs -----------------------
(***************************************************************************)
(* Proofs about the stages and their channels, for every function the      *)
(* conversion accepts: any number of bands and buffers, nests of any depth *)
(* and any interleaving.                                                   *)
(*                                                                         *)
(* The argument counts: a channel has one band at each end, so the n-th    *)
(* load of a buffer returns the value of its n-th store (FifoInv,          *)
(* LoadInv); which of the stores that is in the sequential program is what *)
(* InStep says of the two nests.                                           *)
(***************************************************************************)
EXTENDS DataflowStreams, DataLemmas, FiniteSetTheorems

-----------------------------------------------------------------------------
(* What a band executes.                                                   *)

\* f maps each number from l on to the product of the factors w after it.
Products(N, w, l, f) == f = [m \in l .. N |-> IF m = N THEN 1 ELSE f[m + 1] * w[m + 1]]

\* There is such a function, and its values are naturals.
LEMMA ProductsNatural ==
  ASSUME NEW N \in Nat, NEW w \in [1 .. N -> Nat]
  PROVE  (\E f : Products(N, w, 0, f)) /\ \A f : Products(N, w, 0, f) => f[0] \in Nat
<1> DEFINE Good(l, f) == Products(N, w, l, f)
<1> DEFINE T == {d \in Nat : d <= N => \E f : Good(N - d, f)}
<1>1. 0 \in T
  <2> DEFINE f == [m \in N .. N |-> 1]
  <2>1. Good(N, f)
    BY DEF Products
  <2>2. N - 0 = N
    OBVIOUS
  <2>3. QED
    BY <2>1, <2>2
<1>2. \A d \in Nat : d \in T => d + 1 \in T
  <2> SUFFICES ASSUME NEW d \in Nat, d <= N => \E f : Good(N - d, f), d + 1 <= N
               PROVE  \E f : Good(N - (d + 1), f)
    OBVIOUS
  <2> DEFINE l == N - d
  <2>1. PICK g : Good(l, g)
    OBVIOUS
  <2>2. l \in 1 .. N /\ N - (d + 1) = l - 1
    OBVIOUS
  <2> HIDE DEF l
  <2> DEFINE f == [m \in l - 1 .. N |-> IF m = l - 1 THEN g[l] * w[l] ELSE g[m]]
  <2>3. ASSUME NEW m \in l - 1 .. N
        PROVE  f[m] = IF m = N THEN 1 ELSE f[m + 1] * w[m + 1]
    <3>1. CASE m = l - 1
      <4>1. m + 1 = l /\ m # N /\ l \in l - 1 .. N /\ l # l - 1
        BY <3>1, <2>2
      <4>2. f[m + 1] = g[l] /\ f[m] = g[l] * w[l]
        BY <4>1, <3>1
      <4>3. QED
        BY <4>1, <4>2
    <3>2. CASE m # l - 1
      <4>1. m \in l .. N /\ f[m] = g[m]
        BY <3>2, <2>2
      <4>2. g[m] = IF m = N THEN 1 ELSE g[m + 1] * w[m + 1]
        BY <2>1, <4>1 DEF Products
      <4>3. m # N => m + 1 \in l .. N /\ f[m + 1] = g[m + 1]
        BY <4>1, <2>2
      <4>4. QED
        BY <4>1, <4>2, <4>3
    <3>3. QED
      BY <3>1, <3>2
  <2>4. Good(l - 1, f)
    BY <2>3 DEF Products
  <2>5. QED
    BY <2>2, <2>4
<1>3. \E f : Good(0, f)
  <2>1. Nat \subseteq T
    <3> HIDE DEF T
    <3> QED
      BY <1>1, <1>2, NaturalsBySet
  <2>2. N \in T /\ N - N = 0
    BY <2>1
  <2>3. QED
    BY <2>2
<1>4. ASSUME NEW g, Good(0, g) PROVE g[0] \in Nat
  <2> DEFINE U == {d \in Nat : d <= N => g[N - d] \in Nat}
  <2>0. \A m \in 0 .. N : g[m] = IF m = N THEN 1 ELSE g[m + 1] * w[m + 1]
    BY <1>4 DEF Products
  <2>1. 0 \in U
    BY <2>0
  <2>2. \A d \in Nat : d \in U => d + 1 \in U
    <3> SUFFICES ASSUME NEW d \in Nat, g[N - d] \in Nat, d + 1 <= N
                 PROVE  g[N - (d + 1)] \in Nat
      OBVIOUS
    <3> DEFINE m == N - (d + 1)
    <3>1. m \in 0 .. N /\ m # N /\ m + 1 = N - d /\ m + 1 \in 1 .. N
      OBVIOUS
    <3>2. g[m] = g[m + 1] * w[m + 1]
      BY <3>1, <2>0
    <3>3. g[m + 1] \in Nat /\ w[m + 1] \in Nat
      BY <3>1
    <3> HIDE DEF m
    <3>4. g[m] \in Nat
      BY <3>2, <3>3
    <3>5. QED
      BY <3>4 DEF m
  <2>3. Nat \subseteq U
    <3> HIDE DEF U
    <3> QED
      BY <2>1, <2>2, NaturalsBySet
  <2>4. N \in Nat /\ N - N = 0
    OBVIOUS
  <2>5. N \in U
    <3> HIDE DEF U
    <3> QED
      BY <2>3
  <2>6. QED
    BY <2>4, <2>5
<1>5. QED
  BY <1>3, <1>4

\* A nest has a whole number of iterations.
LEMMA IterationsNatural ==
  ASSUME NEW band, band.loops \in Seq(Seq(Int))
  PROVE  Iterations(band) \in Nat
<1> DEFINE N == Len(band.loops)
<1> DEFINE w == [m \in 1 .. N |-> Len(band.loops[m])]
<1> DEFINE Good(f) == Products(N, w, 0, f)
<1> DEFINE Real(f) == f = [m \in 0 .. N |-> IF m = N THEN 1 ELSE f[m + 1] * Len(band.loops[m + 1])]
<1>1. N \in Nat /\ w \in [1 .. N -> Nat]
  OBVIOUS
<1>2. \A m \in 0 .. N : m # N => w[m + 1] = Len(band.loops[m + 1])
  BY <1>1
<1>3. \A f : Good(f) <=> Real(f)
  <2> HIDE DEF w, N
  <2> QED
    BY <1>2 DEF Products
<1>4. (\E f : Good(f)) /\ \A f : Good(f) => f[0] \in Nat
  <2> HIDE DEF w, N
  <2> QED
    BY <1>1, ProductsNatural
<1>5. Iterations(band) = (CHOOSE f : Real(f))[0]
  BY DEF Iterations, Inner
<1> HIDE DEF Good, Real
<1>6. QED
  BY <1>3, <1>4, <1>5

\* Every access a band makes is one of its body's.
LEMMA TraceIsOfBody ==
  ASSUME NEW p \in Programs, NEW s \in DOMAIN p.bands
  PROVE  LET t == Trace(p.bands[s])
             body == p.bands[s].body
         IN  /\ Len(t) \in Nat /\ DOMAIN t = 1 .. Len(t)
             /\ \A k \in DOMAIN t :
                  /\ t[k] = [op |-> t[k].op, buf |-> t[k].buf, elem |-> t[k].elem]
                  /\ t[k].op \in {"load", "store"} /\ t[k].buf \in DOMAIN p.bufs
                  /\ \E i \in DOMAIN body : t[k].op = body[i].op /\ t[k].buf = body[i].buf
<1> DEFINE band == p.bands[s]
           n == Len(band.body)
           N == n * Iterations(band)
           access(m) == band.body[1 + (m % n)]
           turns == {m \in 0 .. N - 1 : Executes(band, access(m), m \div n)}
           made(m) == [op |-> access(m).op, buf |-> access(m).buf, elem |-> Element(band, access(m), m \div n)]
           t == Trace(band)
<1>1. band \in [loops : Seq(Seq(Int)), body : Seq(AccessesOf(p))]
  <2> DEFINE B == [loops : Seq(Seq(Int)), body : Seq(AccessesOf(p))]
  <2>1. p.bands \in Seq(B)
    BY ProgramsAssumption
  <2> HIDE DEF B
  <2>2. p.bands[s] \in B
    BY <2>1
  <2>3. QED
    BY <2>2 DEF B
<1>2. n \in Nat /\ DOMAIN band.body = 1 .. n /\ \A i \in 1 .. n : band.body[i] \in AccessesOf(p)
  BY <1>1
<1>3. Iterations(band) \in Nat
  BY <1>1, IterationsNatural
<1> HIDE DEF band
<1>4. N \in Nat
  BY <1>2, <1>3
<1>a. t = [k \in 1 .. Cardinality(turns) |-> made(Ranked(turns, k))]
  BY DEF Trace
<1>b. N > 0 => n > 0
  BY <1>2, <1>3
<1> HIDE DEF N, n
<1>5. turns \in SUBSET (0 .. N - 1)
  OBVIOUS
<1> HIDE DEF turns
<1>6. Cardinality(turns) \in Nat
  <2>1. IsFiniteSet(0 .. N - 1)
    BY <1>4, FS_Interval
  <2>2. QED
    BY <2>1, <1>5, FS_Subset, FS_CardinalityType
<1>8. ASSUME NEW m \in turns
      PROVE  1 + (m % n) \in 1 .. n
  <2>1. m \in Nat /\ m <= N - 1
    BY <1>4, <1>5
  <2>2. n > 0
    BY <2>1, <1>4, <1>b
  <2>3. m % n \in 0 .. n - 1
    BY <2>1, <2>2, <1>2
  <2>4. QED
    BY <2>3, <1>2
<1>9. ASSUME NEW k \in 1 .. Cardinality(turns)
      PROVE  Ranked(turns, k) \in turns
  BY <1>4, <1>5, RankedIsMember
<1> HIDE DEF t
<1>10. Len(t) \in Nat /\ DOMAIN t = 1 .. Len(t) /\ Len(t) = Cardinality(turns)
  BY <1>6, <1>a
<1>11. ASSUME NEW k \in DOMAIN t
       PROVE  \E i \in 1 .. n : t[k] = [op |-> band.body[i].op, buf |-> band.body[i].buf, elem |-> t[k].elem]
  <2> DEFINE i == 1 + (Ranked(turns, k) % n)
  <2>1. i \in 1 .. n
    BY <1>8, <1>9, <1>10
  <2>2. t[k] = made(Ranked(turns, k))
    BY <1>a, <1>10
  <2>3. t[k].elem = Element(band, access(Ranked(turns, k)), Ranked(turns, k) \div n)
    BY <2>2
  <2>4. t[k] = [op |-> band.body[i].op, buf |-> band.body[i].buf, elem |-> t[k].elem]
    BY <2>2, <2>3
  <2>5. QED
    BY <2>1, <2>4
<1>12. ASSUME NEW k \in DOMAIN t
       PROVE  /\ t[k] = [op |-> t[k].op, buf |-> t[k].buf, elem |-> t[k].elem]
              /\ t[k].op \in {"load", "store"} /\ t[k].buf \in DOMAIN p.bufs
              /\ \E i \in DOMAIN band.body : t[k].op = band.body[i].op /\ t[k].buf = band.body[i].buf
  <2>1. PICK i \in 1 .. n : t[k] = [op |-> band.body[i].op, buf |-> band.body[i].buf, elem |-> t[k].elem]
    BY <1>11
  <2>2. t[k].op = band.body[i].op /\ t[k].buf = band.body[i].buf
    BY <2>1
  <2>3. band.body[i].op \in {"load", "store"} /\ band.body[i].buf \in DOMAIN p.bufs
    BY <1>2 DEF AccessesOf
  <2>4. t[k] = [op |-> t[k].op, buf |-> t[k].buf, elem |-> t[k].elem]
    BY <2>1, <2>2
  <2>5. QED
    BY <2>2, <2>3, <2>4, <1>2
<1>13. QED
  BY <1>10, <1>12 DEF t, band

-----------------------------------------------------------------------------
(* The function being run, which no step changes.                          *)

Given == prog \in Programs /\ Converted(prog) /\ code = [s \in Bands |-> Trace(prog.bands[s])]

\* The access at code[s][k] is an op on b.
Is(s, k, op, b) == code[s][k].op = op /\ code[s][k].buf = b

\* What the proofs use of it.  A converted buffer has one band that stores to it
\* and one that loads from it.
CodeFacts ==
  /\ DOMAIN code = Bands
  /\ \A s \in Bands : Len(code[s]) \in Nat /\ DOMAIN code[s] = 1 .. Len(code[s])
  /\ \A s \in Bands : \A k \in DOMAIN code[s] :
       /\ code[s][k] = [op |-> code[s][k].op, buf |-> code[s][k].buf, elem |-> code[s][k].elem]
       /\ code[s][k].op \in {"load", "store"} /\ code[s][k].buf \in Buffers
  /\ \A b \in Buffers : StreamDepth(prog, b) \in Nat
  /\ \A b \in Buffers, op \in {"load", "store"} :
       \E e \in Bands : \A s \in Bands : \A k \in DOMAIN code[s] : Is(s, k, op, b) => s = e

LEMMA GivenCode == Given => CodeFacts
<1> SUFFICES ASSUME Given PROVE CodeFacts
  OBVIOUS
<1>1. DOMAIN code = Bands /\ \A s \in Bands : code[s] = Trace(prog.bands[s])
  BY DEF Given
<1>2. ASSUME NEW s \in Bands
      PROVE  /\ Len(code[s]) \in Nat /\ DOMAIN code[s] = 1 .. Len(code[s])
             /\ \A k \in DOMAIN code[s] :
                  /\ code[s][k] = [op |-> code[s][k].op, buf |-> code[s][k].buf, elem |-> code[s][k].elem]
                  /\ code[s][k].op \in {"load", "store"} /\ code[s][k].buf \in Buffers
                  /\ \E i \in DOMAIN prog.bands[s].body :
                       Is(s, k, prog.bands[s].body[i].op, prog.bands[s].body[i].buf)
  <2>1. code[s] = Trace(prog.bands[s]) /\ prog \in Programs /\ s \in DOMAIN prog.bands
    BY <1>1 DEF Given, Bands
  <2> DEFINE body == prog.bands[s].body
             Fact(t) == /\ Len(t) \in Nat /\ DOMAIN t = 1 .. Len(t)
                        /\ \A k \in DOMAIN t :
                             /\ t[k] = [op |-> t[k].op, buf |-> t[k].buf, elem |-> t[k].elem]
                             /\ t[k].op \in {"load", "store"} /\ t[k].buf \in DOMAIN prog.bufs
                             /\ \E i \in DOMAIN body : t[k].op = body[i].op /\ t[k].buf = body[i].buf
  <2>2. Fact(Trace(prog.bands[s]))
    BY <2>1, TraceIsOfBody
  <2>3. Fact(code[s])
    <3> HIDE DEF Fact
    <3> QED
      BY <2>1, <2>2
  <2>4. QED
    BY <2>3 DEF Is, Buffers
<1>3. \A b \in Buffers : StreamDepth(prog, b) \in Nat
  BY ProgramsAssumption DEF Given, StreamDepth, Buffers
<1>4. ASSUME NEW b \in Buffers, NEW op \in {"load", "store"}
      PROVE  \E e \in Bands : \A s \in Bands : \A k \in DOMAIN code[s] : Is(s, k, op, b) => s = e
  <2>1. BufferToStream(prog, b)
    BY DEF Given, Converted, Buffers
  <2>2. PICK u \in Users(prog, b, op) : Users(prog, b, op) = {u}
    BY <2>1 DEF BufferToStream
  <2>3. ASSUME NEW s \in Bands, NEW k \in DOMAIN code[s], Is(s, k, op, b)
        PROVE  s = u[1]
    <3>1. PICK i \in DOMAIN prog.bands[s].body : Is(s, k, prog.bands[s].body[i].op, prog.bands[s].body[i].buf)
      BY <1>2
    <3>2. prog.bands[s].body[i].op = op /\ prog.bands[s].body[i].buf = b
      BY <3>1, <2>3 DEF Is
    <3>3. <<s, i>> \in Users(prog, b, op)
      BY <3>2 DEF Users, Bands
    <3>4. QED
      BY <3>3, <2>2
  <2>4. u[1] \in Bands
    BY <2>2 DEF Users, Bands
  <2>5. QED
    BY <2>3, <2>4
<1>5. QED
  BY <1>1, <1>2, <1>3, <1>4 DEF CodeFacts

-----------------------------------------------------------------------------
(* The inductive invariant.                                                *)

\* The band that makes the accesses op to b, and those it has made so far.
EndOf(b, op) ==
  CHOOSE e \in Bands : \A s \in Bands : \A k \in DOMAIN code[s] : Is(s, k, op, b) => s = e
Made(b, op) == {i \in 1 .. at[EndOf(b, op)] : Is(EndOf(b, op), i, op, b)}
Count(b, op) == Cardinality(Made(b, op))

\* A value of b: it was made by a store to b.
ValueOf(u, b) ==
  u = <<u[1], u[2]>> /\ u[1] \in Bands /\ u[2] \in DOMAIN code[u[1]] /\ Is(u[1], u[2], "store", b)
PlaceOf(u) == Place(code[u[1]], u[2])

ShapeInv ==
  /\ at \in [Bands -> Nat]
  /\ \A s \in Bands : at[s] <= Len(code[s])
  /\ DOMAIN chan = Buffers
  /\ \A b \in Buffers : chan[b] \in Seq(Bands \X Nat) /\ Len(chan[b]) <= StreamDepth(prog, b)
  /\ DOMAIN loads = Bands
  /\ \A s \in Bands : DOMAIN loads[s] = DOMAIN code[s]

\* A channel holds what was stored and not loaded yet, in the order of the stores.
FifoInv ==
  \A b \in Buffers :
    /\ Len(chan[b]) = Count(b, "store") - Count(b, "load")
    /\ \A i \in 1 .. Len(chan[b]) :
         ValueOf(chan[b][i], b) /\ PlaceOf(chan[b][i]) = Count(b, "load") + i

\* The n-th load of a buffer got the value of the n-th store.
LoadInv ==
  \A s \in Bands : \A k \in Loaded(s) :
    ValueOf(loads[s][k], code[s][k].buf) /\ PlaceOf(loads[s][k]) = Place(code[s], k)

StreamInv == Given /\ ShapeInv /\ FifoInv /\ LoadInv

LEMMA EndIsOne ==
  ASSUME CodeFacts, NEW b \in Buffers, NEW op \in {"load", "store"}
  PROVE  /\ EndOf(b, op) \in Bands
         /\ \A s \in Bands : \A k \in DOMAIN code[s] : Is(s, k, op, b) => s = EndOf(b, op)
<1>1. \E e \in Bands : \A s \in Bands : \A k \in DOMAIN code[s] : Is(s, k, op, b) => s = e
  BY DEF CodeFacts
<1> HIDE DEF Is
<1>2. QED
  BY <1>1 DEF EndOf

\* One access more: of its kind there is one more, and of no other.
LEMMA CountStep ==
  ASSUME CodeFacts, at \in [Bands -> Nat],
         NEW s \in Bands, at[s] < Len(code[s]), Advance(s), UNCHANGED program,
         NEW b \in Buffers, NEW op \in {"load", "store"}
  PROVE  /\ Count(b, op) \in Nat
         /\ Is(s, at[s] + 1, op, b) =>
              /\ Count(b, op)' = Count(b, op) + 1
              /\ Place(code[s], at[s] + 1) = Count(b, op) + 1
         /\ ~Is(s, at[s] + 1, op, b) => Count(b, op)' = Count(b, op)
<1> DEFINE e == EndOf(b, op)
<1>1. prog' = prog /\ code' = code /\ at' = [at EXCEPT ![s] = @ + 1]
  BY DEF program, Advance
<1>2. e \in Bands /\ \A r \in Bands : \A k \in DOMAIN code[r] : Is(r, k, op, b) => r = e
  BY EndIsOne
<1>3. EndOf(b, op)' = EndOf(b, op)
  BY <1>1 DEF EndOf, Is, Bands
<1>4. at[e] \in Nat /\ at[s] \in Nat /\ Len(code[s]) \in Nat /\ DOMAIN code[s] = 1 .. Len(code[s])
  BY <1>2 DEF CodeFacts
<1>5. Made(b, op) = {i \in 1 .. at[e] : Is(e, i, op, b)}
  BY DEF Made
<1>6. Made(b, op)' = {i \in 1 .. at'[e] : Is(e, i, op, b)}
  BY <1>1, <1>3 DEF Made, Is
<1> HIDE DEF e
<1>7. IsFiniteSet(Made(b, op)) /\ Count(b, op) \in Nat
  <2>1. IsFiniteSet(1 .. at[e])
    <3>1. 1 \in Int /\ at[e] \in Int
      BY <1>4
    <3>2. QED
      BY <3>1, FS_Interval
  <2>2. Made(b, op) \subseteq 1 .. at[e]
    BY <1>5
  <2>3. QED
    BY <2>1, <2>2, FS_Subset, FS_CardinalityType DEF Count
<1>8. ASSUME Is(s, at[s] + 1, op, b)
      PROVE  Count(b, op)' = Count(b, op) + 1 /\ Place(code[s], at[s] + 1) = Count(b, op) + 1
  <2>1. s = e
    BY <1>2, <1>4, <1>8
  <2>2. at'[e] = at[e] + 1
    BY <2>1, <1>1, <1>2
  <2>3. at[e] + 1 \notin Made(b, op)
    BY <1>4, <1>5
  <2>4. Made(b, op)' = Made(b, op) \cup {at[e] + 1}
    <3>1. 1 .. at[e] + 1 = (1 .. at[e]) \cup {at[e] + 1}
      BY <1>4
    <3>2. Is(e, at[e] + 1, op, b)
      BY <2>1, <1>8
    <3>3. QED
      BY <2>2, <3>1, <3>2, <1>5, <1>6
  <2>5. Cardinality(Made(b, op) \cup {at[e] + 1}) = Count(b, op) + 1
    BY <1>7, <2>3, FS_AddElement DEF Count
  <2>6. {i \in 1 .. at[s] + 1 : code[s][i].op = code[s][at[s] + 1].op /\ code[s][i].buf = code[s][at[s] + 1].buf}
        = Made(b, op) \cup {at[e] + 1}
    BY <2>1, <2>2, <2>4, <1>6, <1>8 DEF Is
  <2>7. QED
    BY <2>4, <2>5, <2>6 DEF Count, Place
<1>9. ASSUME ~Is(s, at[s] + 1, op, b)
      PROVE  Count(b, op)' = Count(b, op)
  <2>1. CASE s = e
    <3>1. at'[e] = at[e] + 1
      BY <2>1, <1>1, <1>2
    <3>2. Made(b, op)' = Made(b, op)
      BY <2>1, <3>1, <1>4, <1>5, <1>6, <1>9
    <3>3. QED
      BY <3>2 DEF Count
  <2>2. CASE s # e
    <3>1. at'[e] = at[e]
      BY <2>2, <1>1, <1>2
    <3>2. Made(b, op)' = Made(b, op)
      BY <3>1, <1>5, <1>6
    <3>3. QED
      BY <3>2 DEF Count
  <2>3. QED
    BY <2>1, <2>2
<1>10. QED
  BY <1>7, <1>8, <1>9

\* What does not depend on where the bands are.
LEMMA CodeStays ==
  ASSUME UNCHANGED program
  PROVE  /\ Bands' = Bands /\ Buffers' = Buffers
         /\ \A b : StreamDepth(prog, b)' = StreamDepth(prog, b)
         /\ Given => Given'
         /\ \A u, b : ValueOf(u, b)' <=> ValueOf(u, b)
         /\ \A u : PlaceOf(u)' = PlaceOf(u)
         /\ \A s, k : Place(code[s], k)' = Place(code[s], k)
BY DEF program, Bands, Buffers, StreamDepth, Given, Converted, ValueOf, Is, PlaceOf

\* The next access of a band is of some operation and buffer.
LEMMA NextAccess ==
  ASSUME CodeFacts, ShapeInv, NEW s \in Bands, NEW op \in {"load", "store"}, Upcoming(s, op)
  PROVE  /\ at[s] \in Nat /\ Len(code[s]) \in Nat /\ at[s] < Len(code[s])
         /\ at[s] + 1 \in DOMAIN code[s] /\ DOMAIN code[s] = 1 .. Len(code[s])
         /\ Chan(s) \in Buffers /\ Is(s, at[s] + 1, op, Chan(s))
         /\ \A c \in {"load", "store"}, b \in Buffers :
              Is(s, at[s] + 1, c, b) <=> c = op /\ b = Chan(s)
<1>1. at[s] \in Nat /\ Len(code[s]) \in Nat /\ at[s] < Len(code[s]) /\ code[s][at[s] + 1].op = op
      /\ DOMAIN code[s] = 1 .. Len(code[s])
  BY DEF ShapeInv, CodeFacts, Upcoming
<1>2. at[s] + 1 \in DOMAIN code[s]
  BY <1>1
<1>3. QED
  BY <1>1, <1>2 DEF CodeFacts, Chan, Is

\* A store appends the value it makes to the channel of its buffer.
LEMMA WriteKeeps ==
  ASSUME StreamInv, NEW s \in Bands, StreamWrite(s), NEW b, b = Chan(s), NEW k, k = at[s] + 1
  PROVE  StreamInv'
<1>0. CodeFacts
  BY GivenCode DEF StreamInv
<1>1. /\ Upcoming(s, "store") /\ Advance(s) /\ UNCHANGED program /\ loads' = loads
      /\ Len(chan[b]) < StreamDepth(prog, b)
      /\ chan' = [chan EXCEPT ![b] = Append(@, <<s, k>>)]
  BY DEF StreamWrite
<1>2. /\ at[s] \in Nat /\ Len(code[s]) \in Nat /\ at[s] < Len(code[s])
      /\ k \in DOMAIN code[s] /\ DOMAIN code[s] = 1 .. Len(code[s])
      /\ b \in Buffers /\ Is(s, k, "store", b)
      /\ \A c \in {"load", "store"}, d \in Buffers : Is(s, k, c, d) <=> c = "store" /\ d = b
  BY <1>0, <1>1, NextAccess DEF StreamInv
<1>3. at' = [at EXCEPT ![s] = k]
  BY <1>1 DEF Advance
<1>4. /\ Count(b, "store")' = Count(b, "store") + 1
      /\ Place(code[s], k) = Count(b, "store") + 1
      /\ \A d \in Buffers : Count(d, "load") \in Nat /\ Count(d, "store") \in Nat
      /\ \A d \in Buffers : Count(d, "load")' = Count(d, "load")
      /\ \A d \in Buffers : d # b => Count(d, "store")' = Count(d, "store")
  <2>1. at \in [Bands -> Nat]
    BY DEF StreamInv, ShapeInv
  <2>2. ASSUME NEW d \in Buffers, NEW c \in {"load", "store"}
        PROVE  /\ Count(d, c) \in Nat
               /\ d = b /\ c = "store" => /\ Count(d, c)' = Count(d, c) + 1
                                          /\ Place(code[s], k) = Count(d, c) + 1
               /\ ~(d = b /\ c = "store") => Count(d, c)' = Count(d, c)
    BY <2>1, <1>0, <1>1, <1>2, CountStep
  <2>3. QED
    BY <2>2, <1>2
<1>5. chan[b] \in Seq(Bands \X Nat) /\ <<s, k>> \in Bands \X Nat
  BY <1>2 DEF StreamInv, ShapeInv
<1>6. /\ DOMAIN chan = Buffers /\ DOMAIN chan' = Buffers
      /\ chan'[b] = Append(chan[b], <<s, k>>)
      /\ \A d \in Buffers : d # b => chan'[d] = chan[d]
  BY <1>1, <1>2 DEF StreamInv, ShapeInv
<1>7. Given'
  BY <1>1, CodeStays DEF StreamInv
<1>8. ShapeInv'
  <2>1. at' \in [Bands -> Nat] /\ \A r \in Bands : at'[r] <= Len(code[r])
    <3>1. k \in Nat /\ k <= Len(code[s])
      BY <1>2
    <3>2. QED
      BY <3>1, <1>3 DEF StreamInv, ShapeInv
  <2>2. ASSUME NEW d \in Buffers
        PROVE  chan'[d] \in Seq(Bands \X Nat) /\ Len(chan'[d]) <= StreamDepth(prog, d)
    <3>1. StreamDepth(prog, d) \in Nat
      BY <1>0 DEF CodeFacts
    <3>2. CASE d = b
      <4> HIDE DEF StreamInv
      <4>1. Append(chan[b], <<s, k>>) \in Seq(Bands \X Nat) /\ Len(Append(chan[b], <<s, k>>)) = Len(chan[b]) + 1
            /\ Len(chan[b]) \in Nat
        BY <1>5
      <4>2. QED
        BY <3>1, <3>2, <4>1, <1>1, <1>6
    <3>3. CASE d # b
      BY <3>3, <1>6 DEF StreamInv, ShapeInv
    <3>4. QED
      BY <3>2, <3>3
  <2>3. loads' = loads /\ code' = code
    BY <1>1 DEF program
  <2>4. QED
    BY <2>1, <2>2, <2>3, <1>1, <1>6, CodeStays DEF StreamInv, ShapeInv
<1>9. FifoInv'
  <2>1. ASSUME NEW d \in Buffers
        PROVE  /\ Len(chan'[d]) = Count(d, "store")' - Count(d, "load")'
               /\ \A i \in 1 .. Len(chan'[d]) :
                    ValueOf(chan'[d][i], d) /\ PlaceOf(chan'[d][i]) = Count(d, "load")' + i
    <3>1. /\ Len(chan[d]) = Count(d, "store") - Count(d, "load")
          /\ \A i \in 1 .. Len(chan[d]) :
               ValueOf(chan[d][i], d) /\ PlaceOf(chan[d][i]) = Count(d, "load") + i
      BY DEF StreamInv, FifoInv
    <3>2. CASE d # b
      BY <3>1, <3>2, <1>4, <1>6
    <3>3. CASE d = b
      <4>1. Len(chan[b]) \in Nat /\ Len(chan'[b]) = Len(chan[b]) + 1
            /\ chan'[b][Len(chan[b]) + 1] = <<s, k>>
            /\ \A i \in 1 .. Len(chan[b]) : chan'[b][i] = chan[b][i]
        BY <1>5, <1>6
      <4>2. ValueOf(<<s, k>>, b) /\ PlaceOf(<<s, k>>) = Place(code[s], k)
        BY <1>2 DEF ValueOf, PlaceOf
      <4>3. Place(code[s], k) = Count(b, "load") + (Len(chan[b]) + 1)
        BY <3>1, <3>3, <1>2, <1>4
      <4>4. ASSUME NEW i \in 1 .. Len(chan'[b])
            PROVE  ValueOf(chan'[b][i], b) /\ PlaceOf(chan'[b][i]) = Count(b, "load") + i
        <5>1. CASE i = Len(chan[b]) + 1
          BY <5>1, <4>1, <4>2, <4>3
        <5>2. CASE i # Len(chan[b]) + 1
          <6>1. i \in 1 .. Len(chan[b])
            BY <5>2, <4>1
          <6>2. QED
            BY <6>1, <4>1, <3>1, <3>3
        <5>3. QED
          BY <5>1, <5>2
      <4>5. Len(chan'[b]) = Count(b, "store")' - Count(b, "load")'
        BY <4>1, <3>1, <3>3, <1>2, <1>4
      <4>6. QED
        BY <3>3, <4>4, <4>5, <1>2, <1>4
    <3>4. QED
      BY <3>2, <3>3
  <2>2. QED
    BY <2>1, <1>1, CodeStays DEF FifoInv
<1>10. LoadInv'
  <2>1. ASSUME NEW r \in Bands, NEW j \in 1 .. at'[r], code[r][j].op = "load"
        PROVE  j \in Loaded(r)
    <3>1. CASE r = s
      <4>1. at'[r] = k /\ at[s] + 1 = k /\ code[s][k].op = "store"
        BY <3>1, <1>2, <1>3 DEF Is, StreamInv, ShapeInv
      <4>2. j # k
        BY <4>1, <2>1, <3>1
      <4>3. QED
        BY <4>1, <4>2, <2>1, <3>1, <1>2 DEF Loaded
    <3>2. CASE r # s
      BY <3>2, <2>1, <1>3 DEF Loaded, StreamInv, ShapeInv
    <3>3. QED
      BY <3>1, <3>2
  <2>2. \A r \in Bands : Loaded(r)' \subseteq Loaded(r)
    BY <2>1, <1>1 DEF Loaded, program
  <2>3. loads' = loads /\ code' = code
    BY <1>1 DEF program
  <2>4. QED
    BY <2>2, <2>3, <1>1, CodeStays DEF StreamInv, LoadInv
<1>11. QED
  BY <1>7, <1>8, <1>9, <1>10 DEF StreamInv

\* A load takes the first value of the channel of its buffer, and keeps it.
LEMMA ReadKeeps ==
  ASSUME StreamInv, NEW s \in Bands, StreamRead(s), NEW b, b = Chan(s), NEW k, k = at[s] + 1
  PROVE  StreamInv'
<1>0. CodeFacts
  BY GivenCode DEF StreamInv
<1>1. /\ Upcoming(s, "load") /\ Advance(s) /\ UNCHANGED program /\ chan[b] # << >>
      /\ loads' = [loads EXCEPT ![s][k] = Head(chan[b])]
      /\ chan' = [chan EXCEPT ![b] = Tail(@)]
  BY DEF StreamRead
<1>2. /\ at[s] \in Nat /\ Len(code[s]) \in Nat /\ at[s] < Len(code[s])
      /\ k \in DOMAIN code[s] /\ DOMAIN code[s] = 1 .. Len(code[s])
      /\ b \in Buffers /\ Is(s, k, "load", b)
      /\ \A c \in {"load", "store"}, d \in Buffers : Is(s, k, c, d) <=> c = "load" /\ d = b
  BY <1>0, <1>1, NextAccess DEF StreamInv
<1>3. at' = [at EXCEPT ![s] = k] /\ at \in [Bands -> Nat] /\ at' \in [Bands -> Nat]
      /\ at'[s] = k /\ \A r \in Bands : r # s => at'[r] = at[r]
  BY <1>1, <1>2 DEF Advance, StreamInv, ShapeInv
<1>4. /\ Count(b, "load")' = Count(b, "load") + 1
      /\ Place(code[s], k) = Count(b, "load") + 1
      /\ \A d \in Buffers : Count(d, "load") \in Nat /\ Count(d, "store") \in Nat
      /\ \A d \in Buffers : Count(d, "store")' = Count(d, "store")
      /\ \A d \in Buffers : d # b => Count(d, "load")' = Count(d, "load")
  <2>1. ASSUME NEW d \in Buffers, NEW c \in {"load", "store"}
        PROVE  /\ Count(d, c) \in Nat
               /\ d = b /\ c = "load" => /\ Count(d, c)' = Count(d, c) + 1
                                         /\ Place(code[s], k) = Count(d, c) + 1
               /\ ~(d = b /\ c = "load") => Count(d, c)' = Count(d, c)
    BY <1>0, <1>1, <1>2, <1>3, CountStep
  <2>2. QED
    BY <2>1, <1>2
<1>5. /\ chan[b] \in Seq(Bands \X Nat) /\ Len(chan[b]) \in Nat /\ Len(chan[b]) > 0
      /\ Head(chan[b]) = chan[b][1]
      /\ Tail(chan[b]) \in Seq(Bands \X Nat) /\ Len(Tail(chan[b])) = Len(chan[b]) - 1
      /\ \A i \in 1 .. Len(chan[b]) - 1 : Tail(chan[b])[i] = chan[b][i + 1]
  <2>1. chan[b] \in Seq(Bands \X Nat)
    BY <1>2 DEF StreamInv, ShapeInv
  <2>2. QED
    BY <2>1, <1>1
<1>6. /\ DOMAIN chan = Buffers /\ DOMAIN chan' = Buffers
      /\ chan'[b] = Tail(chan[b])
      /\ \A d \in Buffers : d # b => chan'[d] = chan[d]
  BY <1>1, <1>2 DEF StreamInv, ShapeInv
<1>7. /\ DOMAIN loads' = Bands /\ \A r \in Bands : DOMAIN loads'[r] = DOMAIN code[r]
      /\ loads'[s][k] = Head(chan[b])
      /\ \A r \in Bands : \A j \in DOMAIN code[r] : ~(r = s /\ j = k) => loads'[r][j] = loads[r][j]
  <2>1. DOMAIN loads = Bands /\ \A r \in Bands : DOMAIN loads[r] = DOMAIN code[r]
    BY DEF StreamInv, ShapeInv
  <2>2. QED
    BY <2>1, <1>1, <1>2
<1>8. /\ Len(chan[b]) = Count(b, "store") - Count(b, "load")
      /\ \A i \in 1 .. Len(chan[b]) :
           ValueOf(chan[b][i], b) /\ PlaceOf(chan[b][i]) = Count(b, "load") + i
  BY <1>2 DEF StreamInv, FifoInv
<1>9. Given'
  BY <1>1, CodeStays DEF StreamInv
<1>10. ShapeInv'
  <2>1. \A r \in Bands : at'[r] <= Len(code[r])
    BY <1>2, <1>3 DEF StreamInv, ShapeInv
  <2>2. ASSUME NEW d \in Buffers
        PROVE  chan'[d] \in Seq(Bands \X Nat) /\ Len(chan'[d]) <= StreamDepth(prog, d)
    <3>1. StreamDepth(prog, d) \in Nat /\ Len(chan[d]) <= StreamDepth(prog, d)
      BY <1>0 DEF CodeFacts, StreamInv, ShapeInv
    <3>2. CASE d = b
      BY <3>1, <3>2, <1>5, <1>6
    <3>3. CASE d # b
      BY <3>3, <1>6 DEF StreamInv, ShapeInv
    <3>4. QED
      BY <3>2, <3>3
  <2>3. code' = code
    BY <1>1 DEF program
  <2>4. QED
    BY <2>1, <2>2, <2>3, <1>1, <1>3, <1>6, <1>7, CodeStays DEF ShapeInv
<1>11. FifoInv'
  <2>1. ASSUME NEW d \in Buffers
        PROVE  /\ Len(chan'[d]) = Count(d, "store")' - Count(d, "load")'
               /\ \A i \in 1 .. Len(chan'[d]) :
                    ValueOf(chan'[d][i], d) /\ PlaceOf(chan'[d][i]) = Count(d, "load")' + i
    <3>1. CASE d # b
      <4>1. /\ Len(chan[d]) = Count(d, "store") - Count(d, "load")
            /\ \A i \in 1 .. Len(chan[d]) :
                 ValueOf(chan[d][i], d) /\ PlaceOf(chan[d][i]) = Count(d, "load") + i
        BY DEF StreamInv, FifoInv
      <4>2. QED
        BY <4>1, <3>1, <1>4, <1>6
    <3>2. CASE d = b
      <4>1. Len(chan'[b]) = Count(b, "store")' - Count(b, "load")'
        BY <1>2, <1>4, <1>5, <1>6, <1>8
      <4>2. ASSUME NEW i \in 1 .. Len(chan'[b])
            PROVE  ValueOf(chan'[b][i], b) /\ PlaceOf(chan'[b][i]) = Count(b, "load")' + i
        <5>1. i + 1 \in 1 .. Len(chan[b]) /\ chan'[b][i] = chan[b][i + 1] /\ i \in Nat
          BY <1>5, <1>6
        <5>2. ValueOf(chan'[b][i], b) /\ PlaceOf(chan'[b][i]) = Count(b, "load") + (i + 1)
          BY <5>1, <1>8
        <5>3. Count(b, "load") + (i + 1) = Count(b, "load")' + i
          <6>1. Count(b, "load") \in Nat /\ Count(b, "load")' = Count(b, "load") + 1
            BY <1>2, <1>4
          <6>2. QED
            BY <5>1, <6>1
        <5>4. QED
          BY <5>2, <5>3
      <4>3. QED
        BY <3>2, <4>1, <4>2
    <3>3. QED
      BY <3>1, <3>2
  <2>2. QED
    BY <2>1, <1>1, CodeStays DEF FifoInv
<1>12. LoadInv'
  <2>1. ASSUME NEW r \in Bands, NEW j \in 1 .. at'[r], code[r][j].op = "load"
        PROVE  ValueOf(loads'[r][j], code[r][j].buf) /\ PlaceOf(loads'[r][j]) = Place(code[r], j)
    <3>1. CASE r = s /\ j = k
      <4>1. code[r][j].buf = b /\ loads'[r][j] = chan[b][1] /\ 1 \in 1 .. Len(chan[b])
        BY <3>1, <1>2, <1>5, <1>7 DEF Is
      <4>2. ValueOf(chan[b][1], b) /\ PlaceOf(chan[b][1]) = Count(b, "load") + 1
        BY <4>1, <1>8
      <4>3. QED
        BY <3>1, <4>1, <4>2, <1>4
    <3>2. CASE ~(r = s /\ j = k)
      <4>1. j \in 1 .. at[r]
        <5>1. CASE r = s
          <6>1. j \in 1 .. k /\ j # k
            BY <5>1, <3>2, <2>1, <1>3
          <6>2. QED
            BY <5>1, <6>1, <1>2
        <5>2. CASE r # s
          BY <5>2, <2>1, <1>3
        <5>3. QED
          BY <5>1, <5>2
      <4>2. j \in Loaded(r)
        BY <4>1, <2>1 DEF Loaded
      <4>3. j \in DOMAIN code[r]
        <5>1. at[r] \in Nat /\ at[r] <= Len(code[r]) /\ Len(code[r]) \in Nat /\ DOMAIN code[r] = 1 .. Len(code[r])
          BY <1>0 DEF CodeFacts, StreamInv, ShapeInv
        <5>2. QED
          BY <4>1, <5>1
      <4>4. loads'[r][j] = loads[r][j]
        BY <3>2, <4>3, <1>7
      <4>5. QED
        BY <4>2, <4>4 DEF StreamInv, LoadInv
    <3>3. QED
      BY <3>1, <3>2
  <2>2. code' = code /\ Bands' = Bands
    BY <1>1, CodeStays DEF program
  <2>3. ASSUME NEW r \in Bands, NEW j \in Loaded(r)'
        PROVE  ValueOf(loads'[r][j], code[r][j].buf) /\ PlaceOf(loads'[r][j]) = Place(code[r], j)
    <3>1. j \in 1 .. at'[r] /\ code[r][j].op = "load"
      BY <2>2 DEF Loaded
    <3>2. QED
      BY <3>1, <2>1
  <2>4. QED
    BY <2>2, <2>3, <1>1, CodeStays DEF LoadInv
<1>13. QED
  BY <1>9, <1>10, <1>11, <1>12 DEF StreamInv

-----------------------------------------------------------------------------
LEMMA InitHolds == Init => StreamInv
<1> SUFFICES ASSUME Init PROVE StreamInv
  OBVIOUS
<1>1. Given
  BY DEF Init, Given
<1>2. CodeFacts
  BY <1>1, GivenCode
<1>3. at = [s \in Bands |-> 0] /\ chan = [b \in Buffers |-> << >>]
      /\ loads = [s \in Bands |-> [k \in DOMAIN code[s] |-> NoValue]]
  BY DEF Init
<1>4. ShapeInv
  BY <1>2, <1>3 DEF ShapeInv, CodeFacts
<1>5. ASSUME NEW b \in Buffers, NEW op \in {"load", "store"}
      PROVE  Count(b, op) = 0
  <2>1. at[EndOf(b, op)] = 0
    BY <1>2, <1>3, EndIsOne
  <2>2. Made(b, op) = {}
    BY <2>1 DEF Made
  <2>3. QED
    BY <2>2, FS_EmptySet DEF Count
<1>6. FifoInv
  <2>1. ASSUME NEW b \in Buffers
        PROVE  Len(chan[b]) = 0 /\ Count(b, "store") = 0 /\ Count(b, "load") = 0
    BY <1>3, <1>5
  <2>2. QED
    BY <2>1 DEF FifoInv
<1>7. LoadInv
  BY <1>3 DEF LoadInv, Loaded
<1>8. QED
  BY <1>1, <1>4, <1>6, <1>7 DEF StreamInv

LEMMA NextKeeps == StreamInv /\ [Next]_vars => StreamInv'
<1> SUFFICES ASSUME StreamInv, [Next]_vars PROVE StreamInv'
  OBVIOUS
<1>1. ASSUME NEW s \in Bands, Stage(s) PROVE StreamInv'
  <2>1. PICK b, k : b = Chan(s) /\ k = at[s] + 1
    OBVIOUS
  <2>2. CASE StreamWrite(s)
    BY <2>1, <2>2, WriteKeeps
  <2>3. CASE StreamRead(s)
    BY <2>1, <2>3, ReadKeeps
  <2>4. QED
    BY <1>1, <2>2, <2>3 DEF Stage
<1>2. CASE UNCHANGED vars
  <2>1. UNCHANGED program /\ at' = at /\ chan' = chan /\ loads' = loads
    BY <1>2 DEF vars, program
  <2>2. \A b, op : Count(b, op)' = Count(b, op)
    BY <2>1 DEF Count, Made, EndOf, Is, Bands, program
  <2>3. \A s : Loaded(s)' = Loaded(s)
    BY <2>1 DEF Loaded, program
  <2>4. code' = code
    BY <2>1 DEF program
  <2>5. Given' /\ ShapeInv'
    BY <2>1, <2>4, CodeStays DEF StreamInv, ShapeInv
  <2>6. FifoInv'
    BY <2>1, <2>2, CodeStays DEF StreamInv, FifoInv
  <2>7. LoadInv'
    BY <2>1, <2>3, <2>4, CodeStays DEF StreamInv, LoadInv
  <2>8. QED
    BY <2>5, <2>6, <2>7 DEF StreamInv
<1>3. QED
  BY <1>1, <1>2 DEF Next

\* StreamInv holds of every behaviour: it is what the two theorems rest on.
LEMMA StreamInvHolds == Spec => []StreamInv
<1>1. QED
  BY InitHolds, NextKeeps, PTL DEF Spec

\* No channel ever holds more than the buffer it stands for, no stage runs off
\* its code, and what a load returned was stored to the buffer it loads from:
\* for all functions the conversion accepts.
THEOREM ChannelsHoldStores == Spec => []TypeOK
<1>1. StreamInv => TypeOK
  <2> SUFFICES ASSUME StreamInv PROVE TypeOK
    OBVIOUS
  <2>1. prog \in Programs /\ ShapeInv /\ LoadInv
    BY DEF StreamInv, Given
  <2>2. QED
    BY <2>1 DEF TypeOK, ShapeInv, LoadInv, ValueOf, Is
<1>2. QED
  BY <1>1, StreamInvHolds, PTL

\* A load returns the value the last store to its element left, if loads and
\* stores of the function keep step.
LEMMA LoadsAreLastStores ==
  ASSUME StreamInv, InStep(prog), NEW s \in Bands, NEW k \in Loaded(s)
  PROVE  loads[s][k] = LastStore(s, k)
<1>a. PICK u, x : u = loads[s][k] /\ x = [code[s][k] EXCEPT !.op = "store"]
  OBVIOUS
<1>b. PICK r, j : r = u[1] /\ j = u[2]
  OBVIOUS
<1>0. CodeFacts
  BY GivenCode DEF StreamInv
<1>1. k \in DOMAIN code[s] /\ code[s][k].op = "load" /\ code[s][k].buf \in Buffers
  BY <1>0 DEF CodeFacts, StreamInv, ShapeInv, Loaded
<1>2. /\ u = <<r, j>> /\ r \in Bands /\ j \in DOMAIN code[r]
      /\ code[r][j].op = "store" /\ code[r][j].buf = code[s][k].buf
      /\ Place(code[r], j) = Place(code[s], k)
  BY <1>a, <1>b DEF StreamInv, LoadInv, ValueOf, PlaceOf, Is
<1>3. r < s /\ code[r][j].elem = code[s][k].elem /\ \A i \in j + 1 .. Len(code[r]) : code[r][i] # code[r][j]
  <2>1. code[r] = Trace(prog.bands[r]) /\ code[s] = Trace(prog.bands[s])
    BY <1>2 DEF StreamInv, Given
  <2>2. r \in DOMAIN prog.bands /\ s \in DOMAIN prog.bands
    BY <1>2 DEF Bands
  <2> DEFINE Step(made, used) ==
               \A i \in DOMAIN made, n \in DOMAIN used :
                 made[i].op = "store" /\ used[n].op = "load" /\ made[i].buf = used[n].buf
                 => /\ r < s
                    /\ Place(made, i) = Place(used, n) =>
                         /\ made[i].elem = used[n].elem
                         /\ \A q \in i + 1 .. Len(made) : made[q] # made[i]
  <2>a. Step(Trace(prog.bands[r]), Trace(prog.bands[s]))
    BY <2>2 DEF InStep
  <2>b. Step(code[r], code[s])
    <3> HIDE DEF Step
    <3> QED
      BY <2>1, <2>a
  <2>3. code[r][j].op = "store" /\ code[s][k].op = "load" /\ code[r][j].buf = code[s][k].buf
        => /\ r < s
           /\ Place(code[r], j) = Place(code[s], k) =>
                /\ code[r][j].elem = code[s][k].elem
                /\ \A i \in j + 1 .. Len(code[r]) : code[r][i] # code[r][j]
    BY <2>b, <1>1, <1>2
  <2>4. QED
    BY <2>3, <1>1, <1>2
<1>4. code[r][j] = x
  <2>1. code[r][j] = [op |-> "store", buf |-> code[s][k].buf, elem |-> code[s][k].elem]
    BY <1>0, <1>2, <1>3 DEF CodeFacts
  <2>2. code[s][k] = [op |-> "load", buf |-> code[s][k].buf, elem |-> code[s][k].elem]
    BY <1>0, <1>1 DEF CodeFacts
  <2>3. QED
    BY <2>1, <2>2, <1>a
<1>5. Bands \in SUBSET (Nat \ {0}) /\ \A i \in 1 .. s : i \in Bands
  <2> DEFINE B == [loops : Seq(Seq(Int)), body : Seq(AccessesOf(prog))]
  <2>1. prog.bands \in Seq(B)
    BY ProgramsAssumption DEF StreamInv, Given
  <2> HIDE DEF B
  <2>2. QED
    BY <2>1 DEF Bands
<1>6. u \in StoredBefore(s, k)
  <2>1. r \in 1 .. s /\ u[1] < s
    BY <1>2, <1>3, <1>5, <1>b
  <2>2. u \in UNION {{q} \X DOMAIN code[q] : q \in 1 .. s}
    BY <2>1, <1>2
  <2>3. code[u[1]][u[2]] = [code[s][k] EXCEPT !.op = "store"]
    BY <1>4, <1>a, <1>b
  <2>4. QED
    BY <2>1, <2>2, <2>3 DEF StoredBefore
<1>7. ASSUME NEW v \in StoredBefore(s, k)
      PROVE  v = <<v[1], v[2]>> /\ v[1] = r /\ v[2] \in Nat /\ v[2] <= j
  <2>1. v = <<v[1], v[2]>> /\ v[1] \in 1 .. s /\ v[2] \in DOMAIN code[v[1]] /\ code[v[1]][v[2]] = x
    BY <1>a DEF StoredBefore
  <2>2. v[1] \in Bands
    BY <2>1, <1>5
  <2>3. v[1] = r
    <3>1. code[v[1]][v[2]].op = "store" /\ code[v[1]][v[2]].buf = code[s][k].buf
      BY <2>1, <1>2, <1>4
    <3>2. v[1] = EndOf(code[s][k].buf, "store") /\ r = EndOf(code[s][k].buf, "store")
      BY <3>1, <2>1, <2>2, <1>0, <1>1, <1>2, EndIsOne DEF Is
    <3>3. QED
      BY <3>2
  <2>4. v[2] \in Nat /\ j \in Nat /\ v[2] <= Len(code[r]) /\ Len(code[r]) \in Nat
    <3>1. Len(code[r]) \in Nat /\ DOMAIN code[r] = 1 .. Len(code[r])
      BY <1>0, <1>2 DEF CodeFacts
    <3>2. QED
      BY <3>1, <2>1, <2>3, <1>2
  <2>5. v[2] <= j
    <3>1. CASE v[2] > j
      <4>1. v[2] \in j + 1 .. Len(code[r])
        BY <3>1, <2>4
      <4>2. QED
        BY <4>1, <2>1, <2>3, <1>3, <1>4
    <3>2. QED
      BY <3>1, <2>4
  <2>6. QED
    BY <2>1, <2>3, <2>4, <2>5
<1> DEFINE last(w) == \A v \in StoredBefore(s, k) : v[1] < w[1] \/ (v[1] = w[1] /\ v[2] <= w[2])
<1>8. u[1] = r /\ u[2] = j
  BY <1>b
<1>9. last(u)
  BY <1>7, <1>8
<1>10. ASSUME NEW w \in StoredBefore(s, k), last(w)
       PROVE  w = u
  <2>1. w = <<w[1], w[2]>> /\ w[1] = r /\ w[2] \in Nat /\ w[2] <= j
    BY <1>7
  <2>2. r < r \/ j <= w[2]
    BY <1>6, <1>8, <1>10, <2>1
  <2>3. j \in Nat /\ r \in Nat
    BY <1>0, <1>2, <1>5 DEF CodeFacts
  <2>4. w[2] = j
    BY <2>1, <2>2, <2>3
  <2>5. QED
    BY <2>1, <2>4, <1>2
<1>11. u = CHOOSE w \in StoredBefore(s, k) : last(w)
  BY <1>6, <1>9, <1>10
<1>12. QED
  BY <1>6, <1>11, <1>a DEF LastStore

\* Converting the buffers of a function to channels does not change what it
\* computes, however the stages interleave and whatever the sizes, wherever loads
\* and stores of each buffer keep step.  Without that it is not so: the run
\* dataflow_reread has the function BufferToStream should have declined.
THEOREM StreamsKeepValues ==
  ASSUME \A p \in Programs : Converted(p) => InStep(p)
  PROVE  Spec => []SameValues
<1>1. StreamInv => SameValues
  <2> SUFFICES ASSUME StreamInv PROVE SameValues
    OBVIOUS
  <2>1. InStep(prog)
    BY DEF StreamInv, Given
  <2>2. QED
    BY <2>1, LoadsAreLastStores DEF SameValues
<1>2. QED
  BY <1>1, StreamInvHolds, PTL
=============================================================================
