------------------------- MODULE OpCounters_proofs -------------------------
(***************************************************************************)
(* Proofs about OpCounters: the stack of the runtime follows the loops the *)
(* program is in, no loop is charged for more than it executed, and the    *)
(* totals, the counters and the report are exact.                          *)
(*                                                                         *)
(* CoreInv ties the stack to the frames of the program.  Over it, Balanced *)
(* says what each total still lacks: the operations of the turns that have *)
(* not ended.                                                              *)
(***************************************************************************)
EXTENDS OpCounters, DataLemmas

-----------------------------------------------------------------------------
(* The text: its regions, and the operations of a loop that are done.      *)

\* A region of the text, from p to e.
Region(code, p, e) ==
  /\ p \in DOMAIN code /\ e \in p + 1 .. Len(code)
  /\ Opens(code[p].op) /\ Closes(code[e].op) /\ EndsAt(code, p, e)

\* The text is structured, conditionals included.
Regions(code) ==
  /\ Structured(code)
  /\ \A p \in DOMAIN code : code[p].op = "if" => Region(code, p, End(code, p))

LEMMA DepthIsInt ==
  ASSUME NEW code, NEW p \in Nat
  PROVE  Depth(code, p) \in Int
<1> DEFINE o == {q \in 1 .. p : Opens(code[q].op)}
           c == {q \in 1 .. p : Closes(code[q].op)}
<1>1. IsFiniteSet(1 .. p)
  BY FS_Interval
<1>2. o \subseteq 1 .. p /\ c \subseteq 1 .. p
  OBVIOUS
<1>3. Depth(code, p) = Cardinality(o) - Cardinality(c)
  BY DEF Depth
<1> HIDE DEF o, c
<1>4. Cardinality(o) \in Nat /\ Cardinality(c) \in Nat
  BY <1>1, <1>2, FS_Subset, FS_CardinalityType
<1>5. QED
  BY <1>3, <1>4

\* Inside of a region the text is deeper than in front of it.
LEMMA RegionDepth ==
  ASSUME NEW code, Structured(code), NEW p, NEW e, Region(code, p, e)
  PROVE  /\ p \in Nat /\ e \in Nat /\ 1 <= p /\ p < e /\ e <= Len(code)
         /\ Depth(code, p) = Depth(code, p - 1) + 1
         /\ Depth(code, e) = Depth(code, p - 1)
         /\ \A q \in Nat : p <= q /\ q < e => Depth(code, q) > Depth(code, p - 1)
         /\ \A q \in Nat : Depth(code, q) \in Int
<1>1. p \in Nat /\ e \in Nat /\ 1 <= p /\ p < e /\ e <= Len(code) /\ Len(code) \in Nat
  BY DEF Region, Structured
<1>2. PICK n \in Nat : n + 1 = p /\ n = p - 1
  <2>1. p - 1 \in Nat /\ (p - 1) + 1 = p
    BY <1>1
  <2>2. QED
    BY <2>1
<1>3. Depth(code, p) = Depth(code, n) + 1
  BY <1>2, DepthGrows DEF Region
<1>4. \A q \in Nat : Depth(code, q) \in Int
  BY DepthIsInt
<1>5. Depth(code, e) = Depth(code, p) - 1 /\ \A r \in p .. e - 1 : Depth(code, r) >= Depth(code, p)
  BY DEF Region, EndsAt
<1>6. \A q \in Nat : p <= q /\ q < e => q \in p .. e - 1
  BY <1>1
<1>7. Depth(code, e) = Depth(code, n)
  BY <1>1, <1>2, <1>3, <1>4, <1>5
<1>8. ASSUME NEW q \in Nat, p <= q, q < e PROVE Depth(code, q) > Depth(code, n)
  <2>1. Depth(code, q) >= Depth(code, p)
    BY <1>5, <1>6, <1>8
  <2>2. QED
    BY <1>1, <1>2, <1>3, <1>4, <2>1
<1>9. QED
  BY <1>1, <1>2, <1>3, <1>4, <1>7, <1>8

LEMMA LoopIsRegion ==
  ASSUME NEW code, Structured(code), NEW l \in Loops(code)
  PROVE  Region(code, l, End(code, l))
<1>1. l \in DOMAIN code /\ code[l].op = "for" /\ code[End(code, l)].op = "end"
  BY DEF Structured, Loops
<1>2. QED
  BY <1>1 DEF Structured, Region, Opens, Closes

\* A region that starts in another ends in it.
LEMMA RegionsNest ==
  ASSUME NEW code, Structured(code), NEW p, NEW e, Region(code, p, e),
         NEW q, NEW f, Region(code, q, f), p < q, q <= e
  PROVE  q < e /\ f < e /\ Depth(code, p) <= Depth(code, q - 1)
<1>1. p \in Nat /\ e \in Nat /\ q \in Nat /\ f \in Nat /\ q < f /\ p < e
  BY RegionDepth
<1>2. q # e
  BY DEF Region, Opens, Closes
<1>3. q < e /\ q - 1 \in Nat /\ q - 1 \in p .. e - 1
  BY <1>1, <1>2
<1>4. Depth(code, p) <= Depth(code, q - 1)
  BY <1>3 DEF Region, EndsAt
<1>5. /\ Depth(code, p) \in Int /\ Depth(code, q - 1) \in Int /\ Depth(code, e) = Depth(code, p) - 1
      /\ Depth(code, e) \in Int /\ Depth(code, f) = Depth(code, q - 1)
  <2>1. Depth(code, p) \in Int /\ Depth(code, q - 1) \in Int /\ Depth(code, e) \in Int
    BY <1>1, <1>3, DepthIsInt
  <2>2. Depth(code, e) = Depth(code, p) - 1
    BY DEF Region, EndsAt
  <2>3. Depth(code, f) = Depth(code, q - 1)
    BY RegionDepth
  <2>4. QED
    BY <2>1, <2>2, <2>3
<1>6. \A r \in Nat : q <= r /\ r < f => Depth(code, r) > Depth(code, q - 1)
  BY RegionDepth
<1>7. ~(q <= e /\ e < f)
  BY <1>1, <1>4, <1>5, <1>6
<1>8. e # f
  BY <1>4, <1>5
<1>9. QED
  BY <1>1, <1>3, <1>4, <1>7, <1>8

\* The loops around a region are those after it.
LEMMA AroundRegion ==
  ASSUME NEW code, Structured(code), NEW p, NEW e, Region(code, p, e)
  PROVE  LoopsAround(code, e + 1) = LoopsAround(code, p)
<1>1. p \in Nat /\ e \in Nat /\ p < e
  BY RegionDepth
<1>2. ASSUME NEW l \in Loops(code)
      PROVE  l < e + 1 /\ e + 1 <= End(code, l) <=> l < p /\ p <= End(code, l)
  <2>1. Region(code, l, End(code, l))
    BY LoopIsRegion
  <2>2. l \in Nat /\ End(code, l) \in Nat /\ l < End(code, l)
    BY <2>1, RegionDepth
  <2>3. l # e
    BY <2>1 DEF Region, Opens, Closes
  <2>4. End(code, l) # p
    BY <2>1 DEF Region, Opens, Closes
  <2>5. l < p /\ p <= End(code, l) => e < End(code, l)
    BY <2>1, RegionsNest
  <2>6. p < l /\ l <= e => End(code, l) < e
    BY <2>1, RegionsNest
  <2>7. l = p => End(code, l) = e
    <3> SUFFICES ASSUME l = p PROVE End(code, l) = e
      OBVIOUS
    <3> DEFINE f == End(code, l)
    <3>1. /\ Depth(code, e) = Depth(code, p - 1) /\ Depth(code, f) = Depth(code, p - 1)
          /\ \A q \in Nat : p <= q /\ q < e => Depth(code, q) > Depth(code, p - 1)
          /\ \A q \in Nat : p <= q /\ q < f => Depth(code, q) > Depth(code, p - 1)
          /\ \A q \in Nat : Depth(code, q) \in Int
      BY <2>1, RegionDepth
    <3>2. p - 1 \in Nat /\ f \in Nat
      BY <1>1, <2>2, RegionDepth
    <3> HIDE DEF f
    <3>3. ~(e < f) /\ ~(f < e)
      BY <1>1, <2>2, <3>1, <3>2 DEF f
    <3>4. QED
      BY <1>1, <3>2, <3>3 DEF f
  <2>8. QED
    BY <1>1, <2>2, <2>3, <2>4, <2>5, <2>6, <2>7
<1>3. QED
  BY <1>2 DEF LoopsAround

\* The operations of kind k that the program has executed at pos in the turns it is in
\* of l and of the loops inside of l.
Done(code, pos, l, k) ==
  {p \in DOMAIN code :
     /\ code[p].op = k /\ p < pos
     /\ \E m \in LoopsAround(code, pos) : l <= m /\ DirectlyIn(code, m, p)}

LEMMA DoneIsFinite ==
  ASSUME NEW code, Structured(code), NEW pos, NEW l, NEW k
  PROVE  IsFiniteSet(Done(code, pos, l, k)) /\ Cardinality(Done(code, pos, l, k)) \in Nat
<1>1. Done(code, pos, l, k) \subseteq 1 .. Len(code) /\ Len(code) \in Int /\ 1 \in Int
  BY DEF Done, Structured
<1>2. QED
  BY <1>1, FS_Interval, FS_Subset, FS_CardinalityType

LEMMA KindsAreOperations ==
  ASSUME NEW k \in LoopKinds
  PROVE  ~Opens(k) /\ ~Closes(k) /\ k \notin {"for", "end", "if", "fi", "call"}
BY DEF LoopKinds, Opens, Closes

\* Nothing in a region stands directly in a loop around it.
LEMMA NotDirectly ==
  ASSUME NEW code, Structured(code), NEW p, NEW e, Region(code, p, e),
         NEW m \in LoopsAround(code, p), NEW k \in LoopKinds,
         NEW q \in DOMAIN code, code[q].op = k, p <= q, q <= e
  PROVE  ~DirectlyIn(code, m, q)
<1>1. Region(code, m, End(code, m)) /\ m < p /\ p <= End(code, m)
  BY LoopIsRegion DEF LoopsAround
<1>2. Depth(code, m) <= Depth(code, p - 1)
  BY <1>1, RegionsNest
<1>3. q # e /\ q \in Nat
  BY KindsAreOperations DEF Region, Structured
<1>4. p \in Nat /\ e \in Nat /\ q < e /\ m \in Nat /\ 1 <= p
  BY <1>1, <1>3, RegionDepth
<1>5. Depth(code, q) > Depth(code, p - 1)
  BY <1>3, <1>4, RegionDepth
<1>6. Depth(code, m) \in Int /\ Depth(code, p - 1) \in Int /\ Depth(code, q) \in Int
  BY <1>3, <1>4, DepthIsInt
<1>7. QED
  BY <1>2, <1>5, <1>6 DEF DirectlyIn

\* Past a region, what was done in the loops around it is what was done before.
LEMMA DonePast ==
  ASSUME NEW code, Structured(code), NEW p, NEW e, Region(code, p, e), NEW l, NEW k \in LoopKinds
  PROVE  Done(code, e + 1, l, k) = Done(code, p, l, k)
<1>1. p \in Nat /\ e \in Nat /\ p < e /\ DOMAIN code \subseteq Nat
  BY RegionDepth DEF Structured
<1>2. LoopsAround(code, e + 1) = LoopsAround(code, p)
  BY AroundRegion
<1>3. ASSUME NEW q \in DOMAIN code, code[q].op = k, NEW m \in LoopsAround(code, p), DirectlyIn(code, m, q)
      PROVE  q < e + 1 <=> q < p
  <2>1. ~(p <= q /\ q <= e)
    BY <1>3, NotDirectly
  <2>2. q \in Nat
    BY <1>1
  <2>3. QED
    BY <1>1, <2>1, <2>2
<1>4. QED
  BY <1>2, <1>3 DEF Done

\* Where a loop's turn starts.
LEMMA DoneEnter ==
  ASSUME NEW code, Structured(code), NEW l \in Loops(code), NEW k \in LoopKinds
  PROVE  /\ \A m \in LoopsAround(code, l) : Done(code, l + 1, m, k) = Done(code, l, m, k)
         /\ Done(code, l + 1, l, k) = {}
<1>1. l \in Nat /\ DOMAIN code \subseteq Nat /\ code[l].op = "for" /\ k # "for"
  BY KindsAreOperations DEF Structured, Loops
<1>2. /\ LoopsAround(code, l + 1) = LoopsAround(code, l) \cup {l}
      /\ \A m \in LoopsAround(code, l) : m \in Int /\ m < l
  BY AroundBody
<1>3. \A q \in DOMAIN code : code[q].op = k => (q < l + 1 <=> q < l)
  BY <1>1
<1>4. \A q \in DOMAIN code : q < l => ~DirectlyIn(code, l, q)
  BY <1>1 DEF DirectlyIn
<1>5. ASSUME NEW m \in LoopsAround(code, l) PROVE Done(code, l + 1, m, k) = Done(code, l, m, k)
  BY <1>2, <1>3, <1>4 DEF Done
<1>6. Done(code, l + 1, l, k) = {}
  <2>1. \A n \in LoopsAround(code, l + 1) : l <= n => n = l
    BY <1>1, <1>2
  <2>2. QED
    BY <1>3, <1>4, <2>1 DEF Done
<1>7. QED
  BY <1>5, <1>6

\* Where it ends, the loop's own operations have come on top.
LEMMA DoneTurn ==
  ASSUME NEW code, Structured(code), NEW l \in Loops(code), NEW k \in LoopKinds,
         NEW m \in LoopsAround(code, l) \cup {l}
  PROVE  Cardinality(Done(code, End(code, l), m, k)) =
           Cardinality(Done(code, l + 1, m, k)) + countTrackedOpsInLoopBody(code, l)[k]
<1> DEFINE own == {q \in DOMAIN code : code[q].op = k /\ DirectlyIn(code, l, q)}
<1> DEFINE e == End(code, l)
<1>1. l \in Nat /\ e \in Nat /\ l < e /\ DOMAIN code \subseteq Nat /\ Region(code, l, e)
  <2>1. Region(code, l, e)
    BY LoopIsRegion
  <2>2. DOMAIN code \subseteq Nat
    BY DEF Structured
  <2>3. QED
    BY <2>1, <2>2, RegionDepth
<1>2. /\ LoopsAround(code, l + 1) = LoopsAround(code, l) \cup {l}
      /\ LoopsAround(code, e) = LoopsAround(code, l) \cup {l}
      /\ \A n \in LoopsAround(code, l) : n \in Int /\ n < l
  BY AroundBody
<1>3. countTrackedOpsInLoopBody(code, l)[k] = Cardinality(own)
  BY DEF countTrackedOpsInLoopBody
<1>4. IsFiniteSet(own)
  <2>1. own \subseteq 1 .. Len(code) /\ Len(code) \in Int /\ 1 \in Int
    BY DEF Structured
  <2>2. QED
    BY <2>1, FS_Interval, FS_Subset
<1>5. m <= l /\ l <= l /\ m \in Int
  BY <1>1, <1>2
<1>6. \A q \in own : l < q /\ q < e /\ q \in Nat
  BY <1>1 DEF DirectlyIn
<1>7. \A q \in Done(code, l + 1, m, k) : q < l
  <2>1. ASSUME NEW q \in Done(code, l + 1, m, k) PROVE q < l
    <3>1. q \in DOMAIN code /\ q \in Nat /\ code[q].op = k /\ q < l + 1
      BY <1>1 DEF Done
    <3>2. q # l
      BY <3>1, KindsAreOperations DEF Loops
    <3>3. QED
      BY <1>1, <3>1, <3>2
  <2>2. QED
    BY <2>1
<1>8. Done(code, e, m, k) = Done(code, l + 1, m, k) \cup own
  <2>1. ASSUME NEW q \in Done(code, e, m, k) PROVE q \in Done(code, l + 1, m, k) \cup own
    <3>1. PICK n \in LoopsAround(code, e) : m <= n /\ DirectlyIn(code, n, q)
      BY DEF Done
    <3>2. q \in DOMAIN code /\ code[q].op = k /\ q < e /\ q \in Nat
      BY <1>1 DEF Done
    <3>3. CASE n = l
      BY <3>1, <3>2, <3>3
    <3>4. CASE n # l
      <4>1. n \in LoopsAround(code, l) /\ n \in LoopsAround(code, l + 1)
        BY <1>2, <3>4
      <4>2. ~(l <= q /\ q <= e)
        BY <1>1, <3>1, <3>2, <4>1, NotDirectly
      <4>3. q < l + 1
        BY <1>1, <3>2, <4>2
      <4>4. QED
        BY <3>1, <3>2, <4>1, <4>3 DEF Done
    <3>5. QED
      BY <3>3, <3>4
  <2>2. ASSUME NEW q \in own PROVE q \in Done(code, e, m, k)
    <3>1. q < e /\ l \in LoopsAround(code, e) /\ m <= l
      BY <1>2, <1>5, <1>6
    <3>2. QED
      BY <3>1 DEF Done
  <2>3. ASSUME NEW q \in Done(code, l + 1, m, k) PROVE q \in Done(code, e, m, k)
    <3>1. q < l /\ q \in Nat
      BY <1>1, <1>7 DEF Done
    <3>2. q < e
      BY <1>1, <3>1
    <3>3. QED
      BY <1>2, <3>2 DEF Done
  <2>4. QED
    BY <2>1, <2>2, <2>3
<1>9. Done(code, l + 1, m, k) \cap own = {}
  <2>1. \A q \in Done(code, l + 1, m, k) : q \notin own
    <3>1. \A q \in own : ~(q < l)
      BY <1>1, <1>6
    <3>2. QED
      BY <1>7, <3>1
  <2>2. QED
    BY <2>1
<1>10. IsFiniteSet(Done(code, l + 1, m, k))
  BY DoneIsFinite
<1> HIDE DEF own
<1>11. Cardinality(Done(code, l + 1, m, k) \cup own) =
         Cardinality(Done(code, l + 1, m, k)) + Cardinality(own)
  <2>1. Cardinality(Done(code, l + 1, m, k) \cup own) =
          Cardinality(Done(code, l + 1, m, k)) + Cardinality(own) - Cardinality({})
    BY <1>4, <1>9, <1>10, FS_Union
  <2>2. Cardinality({}) = 0
    BY FS_EmptySet
  <2>3. Cardinality(Done(code, l + 1, m, k)) \in Nat /\ Cardinality(own) \in Nat
    BY <1>4, <1>10, FS_CardinalityType
  <2>4. QED
    BY <2>1, <2>2, <2>3
<1>12. QED
  BY <1>3, <1>8, <1>11

\* An operation that is not of the kind adds nothing.
LEMMA DoneOther ==
  ASSUME NEW code, Structured(code), NEW p \in DOMAIN code, code[p].op \notin {"for", "end"},
         NEW l, NEW k, code[p].op # k
  PROVE  Done(code, p + 1, l, k) = Done(code, p, l, k)
<1>1. LoopsAround(code, p + 1) = LoopsAround(code, p)
  BY AroundNext
<1>2. p \in Nat /\ DOMAIN code \subseteq Nat
  BY DEF Structured
<1>3. \A q \in DOMAIN code : code[q].op = k => (q < p + 1 <=> q < p)
  BY <1>2
<1>4. QED
  BY <1>1, <1>3 DEF Done

\* One that is adds itself, if it stands in a loop's own body.
LEMMA DoneExecute ==
  ASSUME NEW code, Structured(code), NEW p \in DOMAIN code, NEW k \in LoopKinds, code[p].op = k,
         NEW l \in LoopsAround(code, p)
  PROVE  /\ Cardinality(Done(code, p + 1, l, k)) <= Cardinality(Done(code, p, l, k)) + 1
         /\ (\E m \in Loops(code) : DirectlyIn(code, m, p)) =>
              Cardinality(Done(code, p + 1, l, k)) = Cardinality(Done(code, p, l, k)) + 1
<1>1. LoopsAround(code, p + 1) = LoopsAround(code, p)
  BY KindsAreOperations, AroundNext
<1>2. p \in Nat /\ DOMAIN code \subseteq Nat
  BY DEF Structured
<1>3. \A q \in DOMAIN code : q < p + 1 <=> q < p \/ q = p
  BY <1>2
<1>4. /\ IsFiniteSet(Done(code, p, l, k)) /\ Cardinality(Done(code, p, l, k)) \in Nat
      /\ IsFiniteSet(Done(code, p + 1, l, k)) /\ Cardinality(Done(code, p + 1, l, k)) \in Nat
  BY DoneIsFinite
<1>5. p \notin Done(code, p, l, k)
  BY <1>2 DEF Done
<1>6. Cardinality(Done(code, p, l, k) \cup {p}) = Cardinality(Done(code, p, l, k)) + 1
  BY <1>4, <1>5, FS_AddElement
<1>7. Done(code, p + 1, l, k) \subseteq Done(code, p, l, k) \cup {p}
  BY <1>1, <1>3 DEF Done
<1>8. Cardinality(Done(code, p + 1, l, k)) <= Cardinality(Done(code, p, l, k)) + 1
  <2>1. IsFiniteSet(Done(code, p, l, k) \cup {p})
    BY <1>4, FS_AddElement
  <2>2. QED
    BY <1>6, <1>7, <2>1, FS_Subset
<1>9. ASSUME NEW m \in Loops(code), DirectlyIn(code, m, p)
      PROVE  Done(code, p + 1, l, k) = Done(code, p, l, k) \cup {p}
  <2>1. Region(code, l, End(code, l)) /\ Region(code, m, End(code, m))
    BY LoopIsRegion DEF LoopsAround
  <2>2. m \in LoopsAround(code, p)
    <3>1. m \in Nat /\ End(code, m) \in Nat /\ m < p /\ p < End(code, m)
      BY <1>9, <2>1, RegionDepth DEF DirectlyIn
    <3>2. QED
      BY <1>2, <3>1 DEF LoopsAround
  <2>3. l \in Nat /\ m \in Nat /\ l < p /\ p <= End(code, l) /\ m < p /\ p <= End(code, m)
        /\ End(code, l) \in Nat /\ End(code, m) \in Nat
    BY <2>1, <2>2, RegionDepth DEF LoopsAround
  <2>4. l <= m
    <3> SUFFICES ASSUME m < l PROVE FALSE
      BY <2>3
    <3>1. l <= End(code, m)
      BY <1>2, <2>3
    <3>2. m \in LoopsAround(code, l)
      BY <3>1 DEF LoopsAround
    <3>3. ~DirectlyIn(code, m, p)
      <4>1. l <= p
        BY <1>2, <2>3
      <4>2. QED
        BY <2>1, <2>3, <3>2, <4>1, NotDirectly
    <3>4. QED
      BY <1>9, <3>3
  <2>5. p \in Done(code, p + 1, l, k)
    BY <1>1, <1>3, <1>9, <2>2, <2>4 DEF Done
  <2>6. Done(code, p, l, k) \subseteq Done(code, p + 1, l, k)
    BY <1>1, <1>3 DEF Done
  <2>7. QED
    BY <1>7, <2>5, <2>6
<1>10. QED
  BY <1>6, <1>8, <1>9

-----------------------------------------------------------------------------
(* What the passes make of the functions.                                  *)

\* The kind a selection list pl makes the passes ps of it count an operation as.
CounterOf(op, pl, ps) ==
  LET tracking == {i \in ps : Tracks(op, parseTrackedKinds(pl[i]).kinds) # {}}
  IN  IF tracking = {} THEN << >>
      ELSE <<FirstTracked(op, parseTrackedKinds(pl[Min(tracking)]).kinds)>>

\* Of the passes s those in front of the first that fails.
Passed(pl, s) == {x \in s : \A y \in s : y <= x => parseTrackedKinds(pl[y]).ok}

\* What the passes ps make of an operation, and the passes s of the functions.
Instrumented(op, pl, ps) == [op EXCEPT !.calls = CounterOf(op.op, pl, ps)]

CompiledBy(input, s) ==
  [ok  |-> Passed(input.plan, s) = s,
   fns |-> [f \in DOMAIN input.fns |->
              [p \in DOMAIN input.fns[f] |->
                 Instrumented(input.fns[f][p], input.plan, Passed(input.plan, s))]]]

LEMMA PassedGrows ==
  ASSUME NEW pl, NEW s, s \subseteq Nat, NEW x \in s, \A y \in s : y <= x
  PROVE  Passed(pl, s) = IF Passed(pl, s \ {x}) = s \ {x} /\ parseTrackedKinds(pl[x]).ok
                         THEN s ELSE Passed(pl, s \ {x})
<1> DEFINE r == s \ {x}
           ok(y) == parseTrackedKinds(pl[y]).ok
<1>1. \A y \in r : y \in Nat /\ y <= x /\ ~(x <= y)
  OBVIOUS
<1>2. x <= x
  OBVIOUS
<1> HIDE DEF ok
<1>3. Passed(pl, s) = {z \in s : \A y \in s : y <= z => ok(y)}
  BY DEF Passed, ok
<1>4. Passed(pl, r) = {z \in r : \A y \in r : y <= z => ok(y)}
  BY DEF Passed, ok
<1>5. \A z \in r : z \in Passed(pl, s) <=> z \in Passed(pl, r)
  BY <1>1, <1>3, <1>4
<1>6. x \in Passed(pl, s) <=> (Passed(pl, r) = r /\ ok(x))
  <2>1. x \in Passed(pl, s) <=> (\A y \in s : ok(y))
    BY <1>3
  <2>2. Passed(pl, r) = r <=> \A y \in r : ok(y)
    <3>1. Passed(pl, r) = r => \A y \in r : y <= y => ok(y)
      BY <1>4
    <3>2. \A y \in r : y <= y
      BY <1>1
    <3>3. (\A y \in r : ok(y)) => Passed(pl, r) = r
      BY <1>4
    <3>4. QED
      BY <3>1, <3>2, <3>3
  <2>3. QED
    BY <2>1, <2>2
<1>7. Passed(pl, s) \subseteq s /\ Passed(pl, r) \subseteq r
  BY <1>3, <1>4
<1>8. CASE Passed(pl, r) = r /\ ok(x)
  <2>1. Passed(pl, s) = s
    BY <1>5, <1>6, <1>7, <1>8
  <2>2. QED
    BY <1>8, <2>1 DEF ok
<1>9. CASE ~(Passed(pl, r) = r /\ ok(x))
  <2>1. Passed(pl, s) = Passed(pl, r)
    BY <1>5, <1>6, <1>7, <1>9
  <2>2. QED
    BY <1>9, <2>1 DEF ok
<1>10. QED
  BY <1>8, <1>9

LEMMA Element ==
  ASSUME NEW S, NEW seq \in Seq(S), NEW i \in DOMAIN seq
  PROVE  seq[i] \in S
OBVIOUS

LEMMA OpOfText ==
  ASSUME NEW input \in Inputs, NEW f \in DOMAIN input.fns
  PROVE  /\ input.fns[f] \in Seq(TextOps)
         /\ \A p \in DOMAIN input.fns[f] : input.fns[f][p] \in TextOps
<1>1. input.fns \in Seq(Seq(TextOps))
  BY InputsAssumption, Zenon
<1>2. input.fns[f] \in Seq(TextOps)
  BY <1>1, Element, Zenon
<1>3. QED
  BY <1>2, Element, Zenon

\* What a pass of the kinds makes of an operation.
OnePass(code, kinds) == [code EXCEPT !.calls = @ \o getDynamicCounterKind(code, kinds)]

LEMMA PassOfOp ==
  ASSUME NEW text \in TextOps, NEW pl, NEW r \in SUBSET Nat, NEW x \in Nat, \A y \in r : y < x
  PROVE  Instrumented(text, pl, r \cup {x}) =
           OnePass(Instrumented(text, pl, r), parseTrackedKinds(pl[x]).kinds)
<1> DEFINE op == text.op
           code == Instrumented(text, pl, r)
           kinds(i) == parseTrackedKinds(pl[i]).kinds
           tracking(ps) == {i \in ps : Tracks(op, kinds(i)) # {}}
           first(i) == FirstTracked(op, kinds(i))
<1>6. code.op = op /\ code.calls = CounterOf(op, pl, r)
  BY DEF Instrumented, TextOps
<1> HIDE DEF kinds, code
<1>1. \A ps : CounterOf(op, pl, ps) = IF tracking(ps) = {} THEN << >> ELSE <<first(Min(tracking(ps)))>>
  BY DEF CounterOf, kinds
<1>2. getDynamicCounterKind(code, kinds(x)) =
        IF code.calls # << >> \/ Tracks(op, kinds(x)) = {} THEN << >> ELSE <<first(x)>>
  BY <1>6 DEF getDynamicCounterKind
<1> DEFINE grown == CounterOf(op, pl, r \cup {x}) = code.calls \o getDynamicCounterKind(code, kinds(x))
<1>3. ASSUME tracking(r) # {} PROVE grown
  <2> DEFINE m == Min(tracking(r))
  <2>1. tracking(r) \in SUBSET Nat
    OBVIOUS
  <2>2. m \in tracking(r) /\ \A y \in tracking(r) : m <= y
    BY <1>3, <2>1, MinIsLeast
  <2>3. tracking(r \cup {x}) \in SUBSET Nat /\ tracking(r \cup {x}) # {}
    BY <1>3
  <2>4. Min(tracking(r \cup {x})) \in tracking(r \cup {x})
        /\ \A y \in tracking(r \cup {x}) : Min(tracking(r \cup {x})) <= y
    BY <2>3, MinIsLeast
  <2>5. Min(tracking(r \cup {x})) = m
    <3> HIDE DEF m
    <3>1. m \in tracking(r \cup {x}) /\ m \in Nat /\ m < x
      BY <2>1, <2>2
    <3>2. PICK n : n = Min(tracking(r \cup {x}))
      OBVIOUS
    <3>3. n <= m /\ n \in r \cup {x} /\ n \in Nat
      BY <2>3, <2>4, <3>1, <3>2
    <3>4. n # x
      BY <3>1, <3>3
    <3>5. n \in tracking(r)
      BY <2>4, <3>2, <3>3, <3>4
    <3>6. m <= n
      BY <2>2, <3>5
    <3>7. QED
      BY <3>1, <3>2, <3>3, <3>6
  <2>6. code.calls = <<first(m)>> /\ CounterOf(op, pl, r \cup {x}) = <<first(m)>>
    BY <1>1, <1>3, <1>6, <2>3, <2>5
  <2>7. getDynamicCounterKind(code, kinds(x)) = << >>
    BY <1>2, <2>6
  <2>8. <<first(m)>> \o << >> = <<first(m)>>
    OBVIOUS
  <2>9. QED
    BY <2>6, <2>7, <2>8 DEF kinds
<1>4. ASSUME tracking(r) = {} PROVE grown
  <2>1. code.calls = << >>
    BY <1>1, <1>4, <1>6
  <2>2. CASE Tracks(op, kinds(x)) = {}
    <3>1. tracking(r \cup {x}) = {}
      BY <1>4, <2>2
    <3>2. CounterOf(op, pl, r \cup {x}) = << >> /\ getDynamicCounterKind(code, kinds(x)) = << >>
      BY <1>1, <1>2, <2>2, <3>1
    <3>3. << >> \o << >> = << >>
      OBVIOUS
    <3>4. QED
      BY <2>1, <3>2, <3>3 DEF kinds
  <2>3. CASE Tracks(op, kinds(x)) # {}
    <3>1. tracking(r \cup {x}) = {x}
      BY <1>4, <2>3
    <3>2. Min({x}) = x
      BY MinIsLeast
    <3>3. CounterOf(op, pl, r \cup {x}) = <<first(x)>> /\ getDynamicCounterKind(code, kinds(x)) = <<first(x)>>
      BY <1>1, <1>2, <2>1, <2>3, <3>1, <3>2
    <3>4. << >> \o <<first(x)>> = <<first(x)>>
      OBVIOUS
    <3>5. QED
      BY <2>1, <3>3, <3>4 DEF kinds
  <2>4. QED
    BY <2>2, <2>3
<1>5. CounterOf(op, pl, r \cup {x}) = code.calls \o getDynamicCounterKind(code, kinds(x))
  BY <1>3, <1>4
<1>7. \A new : [code EXCEPT !.calls = new] = [text EXCEPT !.calls = new]
  BY DEF code, Instrumented, TextOps
<1>8. Instrumented(text, pl, r \cup {x}) =
        [code EXCEPT !.calls = code.calls \o getDynamicCounterKind(code, kinds(x))]
  BY <1>5, <1>7 DEF Instrumented
<1>9. QED
  BY <1>8 DEF code, kinds, OnePass

\* One more pass.
LEMMA CompileStep ==
  ASSUME NEW input \in Inputs, NEW s \in SUBSET DOMAIN input.plan, NEW x \in s, \A y \in s : y <= x
  PROVE  CompiledBy(input, s) = DynamicCounterPass(CompiledBy(input, s \ {x}), input.plan[x])
<1> DEFINE pl == input.plan
           r == s \ {x}
           parsed == parseTrackedKinds(pl[x])
           old == CompiledBy(input, r)
<1>1. s \subseteq Nat /\ \A y \in r : y < x
  <2>1. DOMAIN input.plan = 1 .. Len(input.plan) /\ Len(input.plan) \in Nat
    BY InputsAssumption
  <2>2. QED
    BY <2>1
<1>2. Passed(pl, s) = IF Passed(pl, r) = r /\ parsed.ok THEN s ELSE Passed(pl, r)
  BY <1>1, PassedGrows
<1>3. /\ old.ok = (Passed(pl, r) = r) /\ DOMAIN old.fns = DOMAIN input.fns
      /\ DOMAIN old = {"ok", "fns"}
      /\ \A f \in DOMAIN input.fns :
           old.fns[f] = [p \in DOMAIN input.fns[f] |-> Instrumented(input.fns[f][p], pl, Passed(pl, r))]
  BY DEF CompiledBy
<1>4. CASE Passed(pl, r) = r /\ parsed.ok
  <2> DEFINE new == CompiledBy(input, s)
  <2>1. ASSUME NEW f \in DOMAIN input.fns
        PROVE  new.fns[f] = instrumentForOpsWithDynamicCounter(old.fns[f], parsed.kinds)
    <3>1. new.fns[f] = [p \in DOMAIN input.fns[f] |-> Instrumented(input.fns[f][p], pl, s)]
      BY <1>2, <1>4 DEF CompiledBy
    <3>2. ASSUME NEW p \in DOMAIN input.fns[f]
          PROVE  [old.fns[f][p] EXCEPT !.calls = @ \o getDynamicCounterKind(old.fns[f][p], parsed.kinds)] =
                   Instrumented(input.fns[f][p], pl, s)
      <4> DEFINE op == input.fns[f][p]
                 c == old.fns[f][p]
      <4>1. op \in TextOps
        BY OpOfText
      <4>2. c = Instrumented(op, pl, r)
        <5>1. old.fns[f] = [q \in DOMAIN input.fns[f] |-> Instrumented(input.fns[f][q], pl, Passed(pl, r))]
          BY <1>3
        <5>2. Passed(pl, r) = r
          BY <1>4
        <5> HIDE DEF old, pl, r
        <5>3. QED
          BY <5>1, <5>2
      <4> HIDE DEF c, op, pl, r, parsed, old
      <4>3. x \in Nat /\ r \in SUBSET Nat /\ \A y \in r : y < x
        BY <1>1 DEF r
      <4>4. r \cup {x} = s
        BY DEF r
      <4>5. Instrumented(op, pl, r \cup {x}) = OnePass(Instrumented(op, pl, r), parsed.kinds)
        BY <4>1, <4>3, PassOfOp DEF parsed
      <4>6. QED
        BY <4>2, <4>4, <4>5 DEF c, op, OnePass
    <3>3. DOMAIN old.fns[f] = DOMAIN input.fns[f]
      BY <1>3
    <3> HIDE DEF old, new, parsed, pl
    <3>4. QED
      BY <3>1, <3>2, <3>3 DEF instrumentForOpsWithDynamicCounter
  <2>2. new.ok = TRUE /\ new = [ok |-> new.ok, fns |-> new.fns] /\ DOMAIN new.fns = DOMAIN input.fns
        /\ new.fns = [f \in DOMAIN input.fns |-> new.fns[f]]
    BY <1>2, <1>4 DEF CompiledBy
  <2>3. DynamicCounterPass(old, pl[x]) =
          [ok |-> TRUE, fns |-> [f \in DOMAIN old.fns |->
             instrumentForOpsWithDynamicCounter(old.fns[f], parsed.kinds)]]
    BY <1>3, <1>4 DEF DynamicCounterPass
  <2> HIDE DEF new, old, parsed, pl
  <2>4. new = DynamicCounterPass(old, pl[x])
    BY <1>3, <2>1, <2>2, <2>3
  <2>5. QED
    BY <2>4 DEF new, old, pl
<1>5. CASE ~(Passed(pl, r) = r /\ parsed.ok)
  <2>1. Passed(pl, s) = Passed(pl, r) /\ Passed(pl, s) # s
    <3>1. Passed(pl, r) \subseteq r
      BY DEF Passed
    <3>2. QED
      BY <1>2, <1>5, <3>1
  <2>2. DynamicCounterPass(old, pl[x]) = [ok |-> FALSE, fns |-> old.fns]
    BY <1>3, <1>5 DEF DynamicCounterPass
  <2>4. CompiledBy(input, s) = [ok |-> FALSE, fns |-> old.fns]
    BY <2>1 DEF CompiledBy
  <2> HIDE DEF old
  <2>6. QED
    BY <2>2, <2>4 DEF old
<1>6. QED
  BY <1>4, <1>5

\* The recursive function FoldLeft is, for the passes of a plan.
FoldsPasses(input, g) ==
  g = [s \in SUBSET DOMAIN input.plan |->
         IF s = {} THEN [ok |-> TRUE, fns |-> input.fns]
         ELSE LET x == Max(s) IN DynamicCounterPass(g[s \ {x}], input.plan[x])]

\* What the passes of a plan make of the functions.
LEMMA CompiledIs ==
  ASSUME NEW input \in Inputs
  PROVE  Compiled(input) = CompiledBy(input, DOMAIN input.plan)
<1> DEFINE D == DOMAIN input.plan
<1>1. D = 1 .. Len(input.plan) /\ Len(input.plan) \in Nat /\ IsFiniteSet(D)
  <2>1. D = 1 .. Len(input.plan) /\ Len(input.plan) \in Nat
    BY InputsAssumption
  <2>2. QED
    BY <2>1, FS_Interval
<1>2. CompiledBy(input, {}) = [ok |-> TRUE, fns |-> input.fns]
  <2>1. Passed(input.plan, {}) = {}
    BY DEF Passed
  <2>2. \A op : Instrumented(op, input.plan, {}) = [op EXCEPT !.calls = << >>]
    BY DEF CounterOf, Instrumented
  <2>3. ASSUME NEW f \in DOMAIN input.fns
        PROVE  [p \in DOMAIN input.fns[f] |-> Instrumented(input.fns[f][p], input.plan, {})] = input.fns[f]
    <3>1. \A op \in TextOps : [op EXCEPT !.calls = << >>] = op
      BY DEF TextOps
    <3>2. \A p \in DOMAIN input.fns[f] : Instrumented(input.fns[f][p], input.plan, {}) = input.fns[f][p]
      BY <2>2, <3>1, OpOfText
    <3>3. input.fns[f] = [p \in DOMAIN input.fns[f] |-> input.fns[f][p]]
      <4>1. input.fns[f] \in Seq(TextOps)
        BY OpOfText
      <4>2. QED
        BY <4>1
    <3>4. QED
      BY <3>2, <3>3
  <2>4. input.fns = [f \in DOMAIN input.fns |-> input.fns[f]]
    BY InputsAssumption
  <2>5. [f \in DOMAIN input.fns |->
           [p \in DOMAIN input.fns[f] |-> Instrumented(input.fns[f][p], input.plan, {})]] = input.fns
    BY <2>3, <2>4
  <2>6. QED
    BY <2>1, <2>5 DEF CompiledBy
<1>3. ASSUME NEW s \in SUBSET D, s # {}
      PROVE  /\ Max(s) \in s /\ s \ {Max(s)} \in SUBSET D
             /\ CompiledBy(input, s) = DynamicCounterPass(CompiledBy(input, s \ {Max(s)}), input.plan[Max(s)])
  <2>1. s \in SUBSET Nat /\ \A y \in s : y <= Len(input.plan)
    BY <1>1
  <2>2. Max(s) \in s /\ \A y \in s : y <= Max(s)
    BY <1>1, <1>3, <2>1, MaxIsGreatest
  <2>3. QED
    BY <2>2, CompileStep
<1> DEFINE w == [s \in SUBSET D |-> CompiledBy(input, s)]
<1>4. FoldsPasses(input, w)
  <2>1. \A s \in SUBSET D : w[s] = IF s = {} THEN [ok |-> TRUE, fns |-> input.fns]
                ELSE LET x == Max(s) IN DynamicCounterPass(w[s \ {x}], input.plan[x])
    BY <1>2, <1>3
  <2>2. QED
    BY <2>1 DEF FoldsPasses
<1>5. PICK g : g = (CHOOSE h : FoldsPasses(input, h)) /\ FoldsPasses(input, g)
  BY <1>4
<1>6. Compiled(input) = g[D]
  BY <1>5 DEF Compiled, FoldLeft, MapThenFoldSet, FoldsPasses
<1> DEFINE T == {n \in Nat : \A s \in SUBSET D : Cardinality(s) = n => g[s] = CompiledBy(input, s)}
<1>7. \A s \in SUBSET D : IsFiniteSet(s) /\ Cardinality(s) \in Nat
  BY <1>1, FS_Subset, FS_CardinalityType
<1>8. \A s \in SUBSET D : g[s] = IF s = {} THEN [ok |-> TRUE, fns |-> input.fns]
                ELSE DynamicCounterPass(g[s \ {Max(s)}], input.plan[Max(s)])
  BY <1>5 DEF FoldsPasses
<1>9. 0 \in T
  <2>1. \A s \in SUBSET D : Cardinality(s) = 0 => s = {}
    BY <1>7, FS_EmptySet
  <2>2. QED
    BY <1>2, <1>8, <2>1
<1>10. ASSUME NEW n \in Nat, n \in T PROVE n + 1 \in T
  <2> SUFFICES ASSUME NEW s \in SUBSET D, Cardinality(s) = n + 1 PROVE g[s] = CompiledBy(input, s)
    OBVIOUS
  <2>1. s # {}
    BY FS_EmptySet
  <2>2. Cardinality(s \ {Max(s)}) = n /\ s \ {Max(s)} \in SUBSET D
    <3>1. Cardinality(s \ {Max(s)}) = Cardinality(s) - 1
      BY <1>3, <1>7, <2>1, FS_RemoveElement
    <3>2. QED
      BY <1>3, <2>1, <3>1
  <2>3. g[s \ {Max(s)}] = CompiledBy(input, s \ {Max(s)})
    BY <1>10, <2>2
  <2>4. QED
    BY <1>3, <1>8, <2>1, <2>3
<1>11. PICK n \in Nat : n = Cardinality(D) /\ n \in T
  <2>1. Cardinality(D) \in Nat
    BY <1>7
  <2> HIDE DEF T
  <2>2. QED
    BY <1>9, <1>10, <2>1, NaturalsBySet
<1>12. QED
  BY <1>6, <1>11

\* The passes change no operation and no place.
SameText(code, text) ==
  /\ Len(code) = Len(text) /\ DOMAIN code = 1 .. Len(code) /\ DOMAIN text = 1 .. Len(text) /\ Len(text) \in Nat
  /\ \A p \in DOMAIN text : code[p].op = text[p].op /\ code[p].to = text[p].to

LEMMA SameRegions ==
  ASSUME NEW code, NEW text, SameText(code, text)
  PROVE  /\ \A n \in 0 .. Len(text) : Depth(code, n) = Depth(text, n)
         /\ \A p \in DOMAIN text, q \in DOMAIN text : EndsAt(code, p, q) <=> EndsAt(text, p, q)
         /\ \A p \in DOMAIN text : End(code, p) = End(text, p)
         /\ Loops(code) = Loops(text)
         /\ \A q \in Nat : LoopOf(code, q) = LoopOf(text, q)
         /\ \A p \in Nat : LoopsAround(code, p) = LoopsAround(text, p)
         /\ \A l \in Loops(text), p \in DOMAIN text : DirectlyIn(code, l, p) <=> DirectlyIn(text, l, p)
<1>1. ASSUME NEW n \in 0 .. Len(text) PROVE Depth(code, n) = Depth(text, n)
  <2>1. \A q \in 1 .. n : q \in DOMAIN text
    BY DEF SameText
  <2>2. /\ {q \in 1 .. n : Opens(code[q].op)} = {q \in 1 .. n : Opens(text[q].op)}
        /\ {q \in 1 .. n : Closes(code[q].op)} = {q \in 1 .. n : Closes(text[q].op)}
    BY <2>1 DEF SameText
  <2>3. QED
    BY <2>2 DEF Depth
<1>2. ASSUME NEW p \in DOMAIN text, NEW q \in DOMAIN text PROVE EndsAt(code, p, q) <=> EndsAt(text, p, q)
  <2>1. q \in 0 .. Len(text) /\ p \in 0 .. Len(text) /\ \A r \in p .. q - 1 : r \in 0 .. Len(text)
    BY DEF SameText
  <2>2. QED
    BY <1>1, <2>1 DEF EndsAt
<1>3. ASSUME NEW p \in DOMAIN text PROVE End(code, p) = End(text, p)
  <2>1. \A q \in p + 1 .. Len(text) : q \in DOMAIN text
    BY DEF SameText
  <2>2. \A q \in p + 1 .. Len(text) : EndsAt(code, p, q) <=> EndsAt(text, p, q)
    BY <1>2, <2>1
  <2>3. Len(code) = Len(text)
    BY DEF SameText
  <2>4. QED
    BY <2>2, <2>3 DEF End
<1>4. Loops(code) = Loops(text) /\ Loops(text) \subseteq DOMAIN text
  BY DEF Loops, SameText
<1>5. ASSUME NEW q \in Nat PROVE LoopOf(code, q) = LoopOf(text, q)
  <2>1. \A p \in Loops(text) : End(code, p) = q <=> End(text, p) = q
    BY <1>3, <1>4
  <2>2. QED
    BY <1>4, <2>1 DEF LoopOf
<1>6. ASSUME NEW p \in Nat PROVE LoopsAround(code, p) = LoopsAround(text, p)
  BY <1>3, <1>4 DEF LoopsAround
<1>7. ASSUME NEW l \in Loops(text), NEW p \in DOMAIN text PROVE DirectlyIn(code, l, p) <=> DirectlyIn(text, l, p)
  <2>1. l \in DOMAIN text /\ l \in 0 .. Len(text) /\ p \in 0 .. Len(text)
    BY <1>4 DEF SameText
  <2>2. QED
    BY <1>1, <1>3, <2>1 DEF DirectlyIn
<1>8. QED
  BY <1>1, <1>2, <1>3, <1>4, <1>5, <1>6, <1>7

\* What the proofs need of a function.
GoodText(code, fns) ==
  /\ Regions(code) /\ DOMAIN code = 1 .. Len(code) /\ Len(code) \in Nat
  /\ \A p \in DOMAIN code :
       /\ code[p].op \in Operations \cup {"for", "end", "if", "fi", "call"}
       /\ code[p].op = "call" => code[p].to \in fns

LEMMA SameIsGood ==
  ASSUME NEW code, NEW text \in Seq(TextOps), SameText(code, text), NEW fns, Whole(text, fns)
  PROVE  GoodText(code, DOMAIN fns)
<1>1. \A p \in DOMAIN text : code[p].op = text[p].op /\ code[p].to = text[p].to /\ p \in Nat
  BY DEF SameText
<1>2. DOMAIN code = DOMAIN text /\ Len(code) = Len(text)
  BY DEF SameText
<1>3. Structured(code)
  <2>1. \A l \in Loops(code) :
       /\ End(code, l) \in l + 1 .. Len(code) /\ EndsAt(code, l, End(code, l))
       /\ code[End(code, l)].op = "end"
    <3> TAKE l \in Loops(code)
    <3>1. l \in Loops(text) /\ l \in DOMAIN text /\ l \in Nat
      BY <1>1, SameRegions DEF Loops
    <3>2. /\ End(text, l) \in l + 1 .. Len(text) /\ EndsAt(text, l, End(text, l))
          /\ text[End(text, l)].op = "end"
      BY <3>1 DEF Whole, Structured
    <3>3. End(text, l) \in DOMAIN text /\ End(code, l) = End(text, l)
      <4>1. DOMAIN text = 1 .. Len(text) /\ Len(text) \in Nat
        BY DEF SameText
      <4>2. End(code, l) = End(text, l)
        BY <3>1, SameRegions
      <4>3. QED
        BY <3>1, <3>2, <4>1, <4>2
    <3>4. EndsAt(code, l, End(code, l))
      BY <3>1, <3>2, <3>3, SameRegions
    <3>5. QED
      BY <1>1, <1>2, <3>2, <3>3, <3>4
  <2>2. ASSUME NEW q \in DOMAIN code, code[q].op = "end"
        PROVE  LoopOf(code, q) \in Loops(code) /\ End(code, LoopOf(code, q)) = q
    <3>1. q \in Nat /\ text[q].op = "end" /\ q \in DOMAIN text
      BY <1>1, <1>2, <2>2
    <3>2. LoopOf(text, q) \in Loops(text) /\ End(text, LoopOf(text, q)) = q
      BY <3>1 DEF Whole, Structured
    <3>3. LoopOf(text, q) \in DOMAIN text
      BY <3>2 DEF Loops
    <3>4. LoopOf(code, q) = LoopOf(text, q) /\ Loops(code) = Loops(text)
          /\ End(code, LoopOf(text, q)) = End(text, LoopOf(text, q))
      BY <3>1, <3>3, SameRegions
    <3>5. QED
      BY <3>2, <3>4
  <2>3. Len(code) \in Nat /\ DOMAIN code = 1 .. Len(code)
    BY DEF SameText
  <2>4. QED
    BY <2>1, <2>2, <2>3 DEF Structured
<1>4. ASSUME NEW p \in DOMAIN code, code[p].op = "if"
      PROVE  Region(code, p, End(code, p))
  <2>1. p \in DOMAIN text /\ text[p].op = "if"
    BY <1>1, <1>2, <1>4
  <2>2. End(text, p) \in p + 1 .. Len(text) /\ EndsAt(text, p, End(text, p)) /\ text[End(text, p)].op = "fi"
    BY <2>1 DEF Whole
  <2>3. End(text, p) \in DOMAIN text /\ End(code, p) = End(text, p)
    <3>1. DOMAIN text = 1 .. Len(text) /\ Len(text) \in Nat /\ p \in Nat
      BY <1>1, <2>1 DEF SameText
    <3>2. End(code, p) = End(text, p)
      BY <2>1, SameRegions
    <3>3. QED
      BY <2>2, <3>1, <3>2
  <2>4. EndsAt(code, p, End(code, p)) /\ code[End(code, p)].op = "fi"
    BY <1>1, <2>1, <2>2, <2>3, SameRegions
  <2>5. QED
    BY <1>2, <1>4, <2>2, <2>3, <2>4 DEF Region, Opens, Closes
<1>5. ASSUME NEW p \in DOMAIN code
      PROVE  /\ code[p].op \in Operations \cup {"for", "end", "if", "fi", "call"}
             /\ code[p].op = "call" => code[p].to \in DOMAIN fns
  <2>1. text[p] \in TextOps
    BY <1>2, Element
  <2>2. text[p].op \in Operations \cup {"for", "end", "if", "fi", "call"}
    BY <2>1 DEF TextOps
  <2>3. QED
    BY <1>1, <1>2, <2>2 DEF Whole
<1>6. QED
  BY <1>3, <1>4, <1>5 DEF GoodText, Regions, Structured

LEMMA KindsOfIs ==
  ASSUME NEW op, NEW i \in DOMAIN KindsOf(op)
  PROVE  i \in Nat /\ KindsOf(op)[i] \in Kinds
<1> DEFINE ks == KindsOf(op)
<1>1. CASE op = "load"
  <2>1. ks = <<"memref.load">>
    BY <1>1 DEF KindsOf, HasTrackedFloat, HasTrackedInt, Opens
  <2>2. QED
    BY <2>1 DEF Kinds
<1>2. CASE op = "store"
  <2>1. ks = <<"memref.store">>
    BY <1>2 DEF KindsOf, HasTrackedFloat, HasTrackedInt, Opens
  <2>2. QED
    BY <2>1 DEF Kinds
<1>3. CASE HasTrackedFloat(op) \/ HasTrackedInt(op)
  <2>1. op \in {"addf", "addi", "fptosi"}
    BY <1>3 DEF HasTrackedFloat, HasTrackedInt
  <2>2. ks = (IF HasTrackedFloat(op) THEN <<"arith.float">> ELSE << >>)
           \o (IF HasTrackedInt(op) THEN <<"arith.int">> ELSE << >>)
    BY <1>3, <2>1 DEF KindsOf, HasTrackedFloat, HasTrackedInt, Opens
  <2>3. <<"arith.float">> \in Seq(Kinds) /\ <<"arith.int">> \in Seq(Kinds) /\ << >> \in Seq(Kinds)
    BY DEF Kinds
  <2>4. \A a, b \in Seq(Kinds) : a \o b \in Seq(Kinds)
    OBVIOUS
  <2>5. ks \in Seq(Kinds)
    BY <2>2, <2>3, <2>4, Zenon
  <2> HIDE DEF ks
  <2>6. i \in DOMAIN ks
    BY DEF ks
  <2>7. i \in Nat /\ ks[i] \in Kinds
    BY <2>5, <2>6
  <2>8. QED
    BY <2>7 DEF ks
<1>4. CASE op \notin {"load", "store"} /\ ~(HasTrackedFloat(op) \/ HasTrackedInt(op)) /\ Opens(op)
  <2>1. ks = <<"scf">>
    BY <1>4 DEF KindsOf, HasTrackedFloat, HasTrackedInt, Opens
  <2>2. QED
    BY <2>1 DEF Kinds
<1>5. CASE op \notin {"load", "store"} /\ ~(HasTrackedFloat(op) \/ HasTrackedInt(op)) /\ ~Opens(op)
  <2>1. ks = IF op = "apply" THEN <<"affine">> ELSE << >>
    BY <1>5 DEF KindsOf, HasTrackedFloat, HasTrackedInt, Opens
  <2>2. QED
    BY <2>1 DEF Kinds
<1>6. QED
  BY <1>1, <1>2, <1>3, <1>4, <1>5

LEMMA FirstIsKind ==
  ASSUME NEW op, NEW kinds, Tracks(op, kinds) # {}
  PROVE  FirstTracked(op, kinds) \in Kinds
<1>1. Tracks(op, kinds) \in SUBSET Nat
  BY KindsOfIs DEF Tracks
<1>2. Min(Tracks(op, kinds)) \in Tracks(op, kinds)
  BY <1>1, MinIsLeast
<1>3. Min(Tracks(op, kinds)) \in DOMAIN KindsOf(op)
  BY <1>2 DEF Tracks
<1>4. QED
  BY <1>3, KindsOfIs DEF FirstTracked

\* An operation is counted as a kind or not at all, and has the counter of it.
LEMMA CountedIs ==
  ASSUME NEW op, DOMAIN plan \subseteq Nat
  PROVE  /\ CountedAs(op) \in Kinds \cup {"none"}
         /\ CounterOf(op, plan, DOMAIN plan) = IF CountedAs(op) = "none" THEN << >> ELSE <<CountedAs(op)>>
<1> DEFINE kinds(i) == parseTrackedKinds(plan[i]).kinds
           passes == {i \in DOMAIN plan : Tracks(op, kinds(i)) # {}}
<1> HIDE DEF kinds
<1>1. CountedAs(op) = IF passes = {} THEN "none" ELSE FirstTracked(op, kinds(Min(passes)))
  BY DEF CountedAs, kinds
<1>2. CounterOf(op, plan, DOMAIN plan) = IF passes = {} THEN << >> ELSE <<FirstTracked(op, kinds(Min(passes)))>>
  BY DEF CounterOf, kinds
<1>3. CASE passes = {}
  BY <1>1, <1>2, <1>3
<1>4. CASE passes # {}
  <2>1. passes \in SUBSET Nat
    OBVIOUS
  <2>2. Min(passes) \in passes
    BY <1>4, <2>1, MinIsLeast
  <2>3. FirstTracked(op, kinds(Min(passes))) \in Kinds
    BY <2>2, FirstIsKind
  <2>4. "none" \notin Kinds
    BY DEF Kinds
  <2>5. QED
    BY <1>1, <1>2, <1>4, <2>3, <2>4
<1>5. QED
  BY <1>3, <1>4

\* The program is what the passes made of the functions; one they failed on never runs.
MadeOf(input) ==
  /\ plan = input.plan /\ prog = CompiledBy(input, DOMAIN input.plan).fns
  /\ CompiledBy(input, DOMAIN input.plan).ok \/ frames = << >>

ProgInv == \E input \in Inputs : MadeOf(input)

LEMMA ProgInit == Init => ProgInv
<1> SUFFICES ASSUME Init PROVE ProgInv
  OBVIOUS
<1>1. PICK input \in Inputs :
        /\ plan = input.plan /\ prog = Compiled(input).fns
        /\ frames = IF Compiled(input).ok THEN << <<1, 1>> >> ELSE << >>
  BY DEF Init
<1>2. MadeOf(input)
  BY <1>1, CompiledIs DEF MadeOf
<1>3. QED
  BY <1>2 DEF ProgInv

LEMMA ProgStep == ProgInv /\ [Next]_vars => ProgInv' /\ prog' = prog /\ plan' = plan
<1> SUFFICES ASSUME ProgInv, [Next]_vars PROVE ProgInv' /\ prog' = prog /\ plan' = plan
  OBVIOUS
<1>1. prog' = prog /\ plan' = plan
  BY DEF Next, vars, EnterLoop, SkipLoop, TurnLoop, LeaveLoop, Execute, If, Fi, Call, Return
<1>2. frames = << >> => frames' = << >>
  BY DEF Next, vars, EnterLoop, SkipLoop, TurnLoop, LeaveLoop, Execute, If, Fi, Call, Return, At, Running
<1>3. PICK input \in Inputs : MadeOf(input)
  BY DEF ProgInv
<1>4. MadeOf(input)'
  BY <1>1, <1>2, <1>3 DEF MadeOf
<1>5. QED
  BY <1>1, <1>3, <1>4 DEF ProgInv

LEMMA MadeText ==
  ASSUME NEW input \in Inputs, MadeOf(input)
  PROVE  /\ DOMAIN prog = DOMAIN input.fns /\ 1 \in DOMAIN prog
         /\ DOMAIN plan \subseteq Nat
         /\ \A f \in DOMAIN prog : SameText(prog[f], input.fns[f]) /\ GoodText(prog[f], DOMAIN prog)
<1>1. DOMAIN prog = DOMAIN input.fns
  BY DEF MadeOf, CompiledBy
<1>2. 1 \in DOMAIN input.fns
  <2>1. input.fns \in Seq(Seq(TextOps)) /\ input.fns # << >>
    BY InputsAssumption, Zenon
  <2>2. \A S : \A s \in Seq(S) : s # << >> => 1 \in DOMAIN s
    OBVIOUS
  <2>3. QED
    BY <2>1, <2>2, Zenon
<1>3. DOMAIN plan \subseteq Nat
  <2>1. input.plan \in Seq(Seq(STRING))
    BY InputsAssumption, Zenon
  <2>2. QED
    BY <2>1 DEF MadeOf
<1>4. ASSUME NEW f \in DOMAIN input.fns
      PROVE  SameText(prog[f], input.fns[f]) /\ GoodText(prog[f], DOMAIN prog)
  <2> DEFINE text == input.fns[f]
             ps == Passed(input.plan, DOMAIN input.plan)
  <2>1. prog[f] = [p \in DOMAIN text |-> Instrumented(text[p], input.plan, ps)]
    BY DEF MadeOf, CompiledBy
  <2>2. text \in Seq(TextOps) /\ \A p \in DOMAIN text : text[p] \in TextOps
    BY OpOfText
  <2>3. DOMAIN text = 1 .. Len(text) /\ Len(text) \in Nat
    BY <2>2
  <2>4. ASSUME NEW p \in DOMAIN text PROVE prog[f][p].op = text[p].op /\ prog[f][p].to = text[p].to
    <3>1. \A op \in TextOps : \A pl, s : Instrumented(op, pl, s).op = op.op /\ Instrumented(op, pl, s).to = op.to
      BY DEF Instrumented, TextOps
    <3> HIDE DEF text, ps
    <3>2. QED
      BY <2>1, <2>2, <3>1
  <2>5. Len(prog[f]) = Len(text) /\ DOMAIN prog[f] = DOMAIN text
    <3> HIDE DEF text, ps
    <3> QED
      BY <2>1, <2>3
  <2>6. SameText(prog[f], text)
    BY <2>3, <2>4, <2>5 DEF SameText
  <2>7. Whole(text, input.fns)
    BY InputsAssumption
  <2>8. QED
    BY <1>1, <2>2, <2>6, <2>7, SameIsGood
<1>5. QED
  BY <1>1, <1>2, <1>3, <1>4

\* The calls in front of an operation of a program that runs.
LEMMA CallsAre ==
  ASSUME ProgInv, frames # << >>, NEW f \in DOMAIN prog, NEW p \in DOMAIN prog[f]
  PROVE  prog[f][p].calls = IF CountedAs(prog[f][p].op) = "none" THEN << >> ELSE <<CountedAs(prog[f][p].op)>>
<1>1. PICK input \in Inputs : MadeOf(input)
  BY DEF ProgInv
<1>2. DOMAIN plan \subseteq Nat /\ DOMAIN prog = DOMAIN input.fns /\ SameText(prog[f], input.fns[f])
  BY <1>1, MadeText
<1>3. Passed(input.plan, DOMAIN input.plan) = DOMAIN input.plan /\ plan = input.plan
  BY <1>1 DEF MadeOf, CompiledBy
<1>4. prog[f] = [q \in DOMAIN input.fns[f] |-> Instrumented(input.fns[f][q], plan, DOMAIN plan)]
  BY <1>1, <1>2, <1>3 DEF MadeOf, CompiledBy
<1>5. p \in DOMAIN input.fns[f] /\ input.fns[f][p] \in TextOps /\ prog[f][p].op = input.fns[f][p].op
  BY <1>2, <1>4, OpOfText DEF SameText
<1>6. \A op \in TextOps : Instrumented(op, plan, DOMAIN plan).calls = CounterOf(op.op, plan, DOMAIN plan)
  BY DEF Instrumented, TextOps
<1>7. prog[f][p].calls = CounterOf(input.fns[f][p].op, plan, DOMAIN plan)
  BY <1>4, <1>5, <1>6
<1>8. QED
  BY <1>2, <1>5, <1>7, CountedIs

-----------------------------------------------------------------------------
(* The runtime, a call at a time.                                          *)

\* The runtime is a record of its four parts.
Runtime(c, d, s, e) == [counters |-> c, dynamic |-> d, stack |-> s, exits |-> e]

IsRuntime(r) ==
  /\ r = Runtime(r.counters, r.dynamic, r.stack, r.exits)
  /\ DOMAIN r.counters \subseteq Nat /\ r.counters \in [DOMAIN r.counters -> [LoopKinds -> Nat]]
  /\ DOMAIN r.dynamic \subseteq Kinds /\ r.dynamic \in [DOMAIN r.dynamic -> Nat]
  /\ r.stack \in Seq(DOMAIN r.counters)
  /\ r.exits \in {0, 1}

LEMMA RuntimeFields ==
  ASSUME NEW c, NEW d, NEW s, NEW e, NEW r, r = Runtime(c, d, s, e)
  PROVE  /\ r.counters = c /\ r.dynamic = d /\ r.stack = s /\ r.exits = e
         /\ RegisterAtExit(r) = Runtime(c, d, s, IF e = 0 THEN 1 ELSE e)
<1>1. r.counters = c /\ r.dynamic = d /\ r.stack = s /\ r.exits = e
  BY DEF Runtime
<1>2. \A x : [r EXCEPT !.exits = x] = Runtime(c, d, s, x)
  BY DEF Runtime
<1>3. QED
  BY <1>1, <1>2 DEF RegisterAtExit

With(r, x, y) == [r EXCEPT !.counters = x, !.stack = y]

LEMMA TwoFields ==
  ASSUME NEW c, NEW d, NEW s, NEW e, NEW x, NEW y, NEW r, r = Runtime(c, d, s, e)
  PROVE  With(r, x, y) = Runtime(x, d, y, e)
<1>1. PICK q : q = [r EXCEPT !.counters = x, !.stack = y]
  OBVIOUS
<1>2. DOMAIN q = {"counters", "dynamic", "stack", "exits"}
  BY <1>1 DEF Runtime
<1>3. q.counters = x /\ q.dynamic = d /\ q.stack = y /\ q.exits = e
  BY <1>1 DEF Runtime
<1>4. q = [f \in DOMAIN q |-> q[f]]
  BY <1>1
<1>5. QED
  BY <1>1, <1>2, <1>3, <1>4 DEF Runtime, With

LEMMA StartFields ==
  ASSUME NEW r, IsRuntime(r), NEW id
  PROVE  CollectStart(r, id) =
           Runtime(Put(r.counters, id, Get(r.counters, id, NoCounts)), r.dynamic, Append(r.stack, id), 1)
<1>1. RegisterAtExit(r) = Runtime(r.counters, r.dynamic, r.stack, 1)
  BY RuntimeFields DEF IsRuntime
<1>2. /\ RegisterAtExit(r).counters = r.counters /\ RegisterAtExit(r).stack = r.stack
  BY <1>1, RuntimeFields
<1>3. CollectStart(r, id) =
        With(RegisterAtExit(r), Put(RegisterAtExit(r).counters, id, Get(RegisterAtExit(r).counters, id, NoCounts)),
             Append(RegisterAtExit(r).stack, id))
  BY DEF CollectStart, With
<1>4. QED
  BY <1>1, <1>2, <1>3, TwoFields

LEMMA StopFields ==
  ASSUME NEW r, IsRuntime(r), NEW id, NEW n
  PROVE  CollectStop(r, id, n) =
           Runtime([i \in DOMAIN r.counters \cup {id} |->
                      Plus(Get(r.counters, i, NoCounts), n, Occurrences(r.stack, i))],
                   r.dynamic,
                   IF Occurrences(r.stack, id) = 0 THEN r.stack ELSE RemoveAt(r.stack, LastOf(r.stack, id)), 1)
<1>1. RegisterAtExit(r) = Runtime(r.counters, r.dynamic, r.stack, 1)
  BY RuntimeFields DEF IsRuntime
<1>2. /\ RegisterAtExit(r).counters = r.counters /\ RegisterAtExit(r).stack = r.stack
  BY <1>1, RuntimeFields
<1> DEFINE counters == [i \in DOMAIN RegisterAtExit(r).counters \cup {id} |->
                          Plus(Get(RegisterAtExit(r).counters, i, NoCounts), n, Occurrences(r.stack, i))]
           stack == IF Occurrences(RegisterAtExit(r).stack, id) = 0 THEN RegisterAtExit(r).stack
                    ELSE RemoveAt(RegisterAtExit(r).stack, LastOf(RegisterAtExit(r).stack, id))
<1>3. CollectStop(r, id, n) = With(RegisterAtExit(r), counters, stack)
  BY DEF CollectStop, With
<1>4. With(RegisterAtExit(r), counters, stack) = Runtime(counters, r.dynamic, stack, 1)
  <2> HIDE DEF counters, stack
  <2> QED
    BY <1>1, TwoFields
<1>5. QED
  BY <1>2, <1>3, <1>4

LEMMA CounterFields ==
  ASSUME NEW r, IsRuntime(r), NEW k
  PROVE  sodaInstrDynamicCounter(r, k) =
           Runtime(r.counters, Put(r.dynamic, k, Get(r.dynamic, k, 0) + 1), r.stack, 1)
<1>1. RegisterAtExit(r) = Runtime(r.counters, r.dynamic, r.stack, 1)
  BY RuntimeFields DEF IsRuntime
<1>2. \A c, d, s, x : [Runtime(c, d, s, 1) EXCEPT !.dynamic = x] = Runtime(c, x, s, 1)
  BY DEF Runtime
<1>3. RegisterAtExit(r).dynamic = r.dynamic
  BY <1>1, RuntimeFields
<1>4. QED
  BY <1>1, <1>2, <1>3 DEF sodaInstrDynamicCounter

\* The recursive function FoldLeft is, for the calls in front of an operation.
FoldsCalls(r, calls, g) ==
  g = [s \in SUBSET DOMAIN calls |->
         IF s = {} THEN r ELSE LET x == Max(s) IN sodaInstrDynamicCounter(g[s \ {x}], calls[x])]

LEMMA OneCall ==
  ASSUME NEW r, NEW k
  PROVE  /\ FoldLeft(sodaInstrDynamicCounter, r, << >>) = r
         /\ FoldLeft(sodaInstrDynamicCounter, r, <<k>>) = sodaInstrDynamicCounter(r, k)
<1>1. ASSUME NEW calls, calls = << >> \/ calls = <<k>>
      PROVE  FoldLeft(sodaInstrDynamicCounter, r, calls) =
               IF calls = << >> THEN r ELSE sodaInstrDynamicCounter(r, k)
  <2> DEFINE D == DOMAIN calls
             w == [s \in SUBSET D |-> IF s = {} THEN r ELSE sodaInstrDynamicCounter(r, k)]
  <2>1. (calls = << >> /\ D = {}) \/ (calls = <<k>> /\ D = {1})
    BY <1>1
  <2>2. \A s \in SUBSET D : s # {} => s = {1} /\ Max(s) = 1 /\ s \ {Max(s)} = {} /\ calls[Max(s)] = k
    <3> TAKE s \in SUBSET D
    <3> HAVE s # {}
    <3>1. calls = <<k>> /\ s = {1}
      BY <2>1
    <3>2. Max({1}) = 1
      <4>1. {1} \in SUBSET Nat /\ 1 \in Nat /\ \A y \in {1} : y <= 1
        OBVIOUS
      <4>2. Max({1}) \in {1}
        BY <4>1, MaxIsGreatest
      <4>3. QED
        BY <4>2
    <3>3. QED
      BY <3>1, <3>2
  <2>3. FoldsCalls(r, calls, w)
    <3>1. \A s \in SUBSET D : w[s] = IF s = {} THEN r
             ELSE LET x == Max(s) IN sodaInstrDynamicCounter(w[s \ {x}], calls[x])
      BY <2>2
    <3>2. QED
      BY <3>1 DEF FoldsCalls
  <2>4. PICK g : g = (CHOOSE h : FoldsCalls(r, calls, h)) /\ FoldsCalls(r, calls, g)
    BY <2>3
  <2>5. FoldLeft(sodaInstrDynamicCounter, r, calls) = g[D]
    BY <2>4 DEF FoldLeft, MapThenFoldSet, FoldsCalls
  <2>6. \A s \in SUBSET D : g[s] = IF s = {} THEN r
             ELSE sodaInstrDynamicCounter(g[s \ {Max(s)}], calls[Max(s)])
    BY <2>4 DEF FoldsCalls
  <2>7. g[{}] = r
    BY <2>6
  <2>8. CASE calls = << >>
    BY <2>1, <2>5, <2>7, <2>8
  <2>9. CASE calls # << >>
    <3>1. D = {1}
      BY <2>1, <2>9
    <3>2. g[D] = sodaInstrDynamicCounter(g[D \ {Max(D)}], calls[Max(D)])
      BY <2>6, <3>1
    <3>3. D # {} /\ D \in SUBSET D
      BY <3>1
    <3>4. D \ {Max(D)} = {} /\ calls[Max(D)] = k
      BY <2>2, <3>3
    <3>5. QED
      BY <2>5, <2>7, <2>9, <3>2, <3>4
  <2>10. QED
    BY <2>8, <2>9
<1>2. <<k>> # << >>
  OBVIOUS
<1>3. QED
  BY <1>1, <1>2

\* The runtime after the calls in front of the operation at pc.
LEMMA BumpedIs ==
  ASSUME ProgInv, frames # << >>, fn \in DOMAIN prog, pc \in DOMAIN Code
  PROVE  Bumped = IF CountedAs(Code[pc].op) = "none" THEN rt
                  ELSE sodaInstrDynamicCounter(rt, CountedAs(Code[pc].op))
<1>1. Code[pc].calls = IF CountedAs(Code[pc].op) = "none" THEN << >> ELSE <<CountedAs(Code[pc].op)>>
  BY CallsAre DEF Code
<1>2. QED
  BY <1>1, OneCall DEF Bumped

-----------------------------------------------------------------------------
(* The stack as the nest of the loops of the frames.                       *)

\* The ids of the loops around a position, outermost first.
NestOf(code, pos) ==
  [k \in 1 .. Cardinality(LoopsAround(code, pos)) |-> LoopId(code, Ranked(LoopsAround(code, pos), k))]

LEMMA AroundIsFinite ==
  ASSUME NEW code, Structured(code), NEW pos
  PROVE  /\ Len(code) + 1 \in Nat /\ Loops(code) \in SUBSET (0 .. (Len(code) + 1) - 1)
         /\ LoopsAround(code, pos) \in SUBSET (0 .. (Len(code) + 1) - 1)
         /\ IsFiniteSet(Loops(code)) /\ IsFiniteSet(LoopsAround(code, pos))
         /\ Cardinality(LoopsAround(code, pos)) \in Nat
<1>1. Len(code) \in Nat /\ Loops(code) \subseteq 1 .. Len(code) /\ LoopsAround(code, pos) \subseteq Loops(code)
  BY DEF Structured, Loops, LoopsAround
<1>2. IsFiniteSet(1 .. Len(code))
  BY <1>1, FS_Interval
<1>3. QED
  BY <1>1, <1>2, FS_Subset, FS_CardinalityType

LEMMA LoopIdIsNat ==
  ASSUME NEW code, Structured(code), NEW p
  PROVE  LoopId(code, p) \in Nat
<1>1. {q \in Loops(code) : End(code, q) < End(code, p)} \subseteq Loops(code)
  OBVIOUS
<1>2. QED
  BY <1>1, AroundIsFinite, FS_Subset, FS_CardinalityType DEF LoopId

LEMMA NestIsSeq ==
  ASSUME NEW code, Structured(code), NEW pos
  PROVE  NestOf(code, pos) \in Seq(Nat) /\ Len(NestOf(code, pos)) = Cardinality(LoopsAround(code, pos))
<1>1. Cardinality(LoopsAround(code, pos)) \in Nat
  BY AroundIsFinite
<1>2. \A k \in 1 .. Cardinality(LoopsAround(code, pos)) : LoopId(code, Ranked(LoopsAround(code, pos), k)) \in Nat
  BY LoopIdIsNat
<1>3. QED
  BY <1>1, <1>2 DEF NestOf

LEMMA AppendIs ==
  ASSUME NEW n \in Nat, NEW old \in Seq(Nat), Len(old) = n, NEW x \in Nat,
         NEW new \in [1 .. n + 1 -> Nat], \A k \in 1 .. n : new[k] = old[k], new[n + 1] = x
  PROVE  new = Append(old, x)
<1>1. PICK a : a = Append(old, x)
  OBVIOUS
<1>2. a \in Seq(Nat) /\ Len(a) = n + 1 /\ a[n + 1] = x /\ \A k \in 1 .. n : a[k] = old[k]
  BY <1>1
<1>3. a \in [1 .. n + 1 -> Nat] /\ \A k \in 1 .. n + 1 : k \in 1 .. n \/ k = n + 1
  BY <1>2
<1>4. \A k \in 1 .. n + 1 : a[k] = new[k]
  BY <1>2, <1>3
<1>5. QED
  BY <1>1, <1>3, <1>4

\* In a loop's body its id comes last.
LEMMA NestGrows ==
  ASSUME NEW code, Structured(code), NEW l \in Loops(code)
  PROVE  /\ NestOf(code, l + 1) = Append(NestOf(code, l), LoopId(code, l))
         /\ NestOf(code, End(code, l)) = Append(NestOf(code, l), LoopId(code, l))
         /\ NestOf(code, End(code, l) + 1) = NestOf(code, l)
<1> DEFINE S == LoopsAround(code, l)
           n == Cardinality(S)
<1>1. /\ LoopsAround(code, l + 1) = S \cup {l} /\ LoopsAround(code, End(code, l)) = S \cup {l}
      /\ LoopsAround(code, End(code, l) + 1) = S /\ \A m \in S : m < l
  BY AroundBody
<1>2. l \in Nat
  BY DEF Structured, Loops
<1>3. Len(code) + 1 \in Nat /\ S \in SUBSET (0 .. (Len(code) + 1) - 1)
  BY AroundIsFinite
<1>4. /\ n \in Nat /\ Cardinality(S \cup {l}) = n + 1 /\ Ranked(S \cup {l}, n + 1) = l
      /\ \A k \in 1 .. n : Ranked(S \cup {l}, k) = Ranked(S, k)
  BY <1>1, <1>2, <1>3, RankedGrows
<1> DEFINE new == [k \in 1 .. n + 1 |-> LoopId(code, Ranked(S \cup {l}, k))]
           old == [k \in 1 .. n |-> LoopId(code, Ranked(S, k))]
<1>5. new = Append(old, LoopId(code, l))
  <2>1. n \in Nat /\ \A k \in 1 .. n : Ranked(S \cup {l}, k) = Ranked(S, k)
    BY <1>4
  <2>2. \A k \in 1 .. n : LoopId(code, Ranked(S, k)) \in Nat
    BY LoopIdIsNat
  <2>3. LoopId(code, l) \in Nat
    BY LoopIdIsNat
  <2>4. Ranked(S \cup {l}, n + 1) = l
    BY <1>4
  <2> HIDE DEF n
  <2>5. old \in Seq(Nat) /\ Len(old) = n
    BY <2>1, <2>2
  <2>6. \A k \in 1 .. n : new[k] = old[k]
    <3> TAKE k \in 1 .. n
    <3>1. k \in 1 .. n + 1
      BY <2>1
    <3>2. new[k] = LoopId(code, Ranked(S \cup {l}, k)) /\ old[k] = LoopId(code, Ranked(S, k))
      BY <3>1
    <3>3. QED
      BY <2>1, <3>2
  <2>7. new[n + 1] = LoopId(code, l)
    <3>1. n + 1 \in 1 .. n + 1
      BY <2>1
    <3>2. new[n + 1] = LoopId(code, Ranked(S \cup {l}, n + 1))
      BY <3>1
    <3>3. QED
      BY <2>4, <3>2
  <2>8. new \in [1 .. n + 1 -> Nat]
    BY LoopIdIsNat
  <2> HIDE DEF new, old
  <2>9. QED
    BY <2>1, <2>3, <2>5, <2>6, <2>7, <2>8, AppendIs
<1>6. NestOf(code, l) = old /\ NestOf(code, End(code, l) + 1) = old
  BY <1>1 DEF NestOf
<1>7. NestOf(code, l + 1) = new /\ NestOf(code, End(code, l)) = new
  BY <1>1, <1>4 DEF NestOf
<1>8. QED
  BY <1>5, <1>6, <1>7

LEMMA NestOfNone ==
  ASSUME NEW code, Structured(code), NEW pos, LoopsAround(code, pos) = {}
  PROVE  NestOf(code, pos) = << >>
BY FS_EmptySet DEF NestOf

LEMMA AroundNone ==
  ASSUME NEW code, Structured(code)
  PROVE  LoopsAround(code, 1) = {} /\ LoopsAround(code, Len(code) + 1) = {}
BY DEF Structured, LoopsAround, Loops

\* The ids of the loops of the first n frames.
Frames == {<<f, p>> : f \in DOMAIN prog, p \in Nat}
IsFrames(fr) ==
  /\ fr \in Seq(Frames)
  /\ \A i \in DOMAIN fr : fr[i][2] \in 1 .. Len(prog[fr[i][1]]) + 1

NestIn(frame) == NestOf(prog[frame[1]], frame[2])
Stack(fr, n) == FlattenSeq([i \in 1 .. n |-> NestIn(fr[i])])

TextsGood == \A f \in DOMAIN prog : GoodText(prog[f], DOMAIN prog)

LEMMA FrameIs ==
  ASSUME NEW fr, IsFrames(fr), TextsGood, NEW i \in DOMAIN fr
  PROVE  /\ fr[i][1] \in DOMAIN prog /\ fr[i][2] \in Nat /\ fr[i][2] \in 1 .. Len(prog[fr[i][1]]) + 1
         /\ Structured(prog[fr[i][1]]) /\ Len(prog[fr[i][1]]) \in Nat
         /\ NestIn(fr[i]) \in Seq(Nat)
<1>1. fr[i] \in Frames
  BY DEF IsFrames
<1>2. fr[i][1] \in DOMAIN prog /\ fr[i][2] \in Nat
  <2>1. \A e \in Frames : e[1] \in DOMAIN prog /\ e[2] \in Nat
    <3> TAKE e \in Frames
    <3>1. PICK f \in DOMAIN prog, p \in Nat : e = <<f, p>>
      BY DEF Frames
    <3>2. QED
      BY <3>1
  <2>2. QED
    BY <1>1, <2>1
<1>3. Structured(prog[fr[i][1]]) /\ Len(prog[fr[i][1]]) \in Nat
  BY <1>2 DEF TextsGood, GoodText, Regions
<1>4. NestIn(fr[i]) \in Seq(Nat)
  BY <1>3, NestIsSeq DEF NestIn
<1>5. QED
  BY <1>2, <1>3, <1>4 DEF IsFrames

LEMMA StackIsSeq ==
  ASSUME NEW fr, IsFrames(fr), TextsGood, NEW n \in 0 .. Len(fr)
  PROVE  Stack(fr, n) \in Seq(Nat)
<1> DEFINE seqs == [i \in 1 .. n |-> NestIn(fr[i])]
<1>1. \A i \in 1 .. n : i \in DOMAIN fr
  BY DEF IsFrames
<1>2. \A i \in 1 .. n : NestIn(fr[i]) \in Seq(Nat)
  BY <1>1, FrameIs
<1>3. seqs \in Seq(Seq(Nat))
  BY <1>2
<1> HIDE DEF seqs
<1>4. FlattenSeq(seqs) \in Seq(Nat)
  BY <1>3, FlattenElements
<1>5. QED
  BY <1>4 DEF Stack, seqs

LEMMA StackGrows ==
  ASSUME NEW fr, IsFrames(fr), TextsGood, NEW n \in Nat, n + 1 <= Len(fr)
  PROVE  Stack(fr, n + 1) = Stack(fr, n) \o NestIn(fr[n + 1])
<1> DEFINE seqs == [i \in 1 .. n + 1 |-> NestIn(fr[i])]
           front == [i \in 1 .. n |-> NestIn(fr[i])]
<1>1. \A i \in 1 .. n + 1 : i \in DOMAIN fr
  BY DEF IsFrames
<1>2. \A i \in 1 .. n + 1 : NestIn(fr[i]) \in Seq(Nat)
  BY <1>1, FrameIs
<1>3. /\ seqs \in [1 .. n + 1 -> Seq(Nat)] /\ front \in [1 .. n -> Seq(Nat)]
      /\ seqs[n + 1] = NestIn(fr[n + 1])
      /\ \A i \in 1 .. n : front[i] = seqs[i]
  BY <1>2
<1> HIDE DEF seqs, front
<1>4. FlattenSeq(seqs) = FlattenSeq(front) \o seqs[n + 1]
  BY <1>3, FlattenLast
<1>5. Stack(fr, n + 1) = FlattenSeq(seqs) /\ Stack(fr, n) = FlattenSeq(front)
  BY DEF Stack, seqs, front
<1>6. seqs[n + 1] = NestIn(fr[n + 1])
  BY <1>3
<1>7. QED
  BY <1>4, <1>5, <1>6, Zenon

LEMMA StackSame ==
  ASSUME NEW n, NEW fr, NEW new, \A i \in 1 .. n : fr[i] = new[i]
  PROVE  Stack(fr, n) = Stack(new, n)
<1>1. [i \in 1 .. n |-> NestIn(fr[i])] = [i \in 1 .. n |-> NestIn(new[i])]
  OBVIOUS
<1>2. QED
  BY <1>1 DEF Stack

\* The last entry of a stack is the one CollectStop takes.
LEMMA StopPops ==
  ASSUME NEW s \in Seq(Nat), NEW id \in Nat, NEW st, st = Append(s, id)
  PROVE  (IF Occurrences(st, id) = 0 THEN st ELSE RemoveAt(st, LastOf(st, id))) = s
<1>1. st \in Seq(Nat) /\ Len(st) = Len(s) + 1 /\ st[Len(st)] = id /\ DOMAIN st = 1 .. Len(st)
      /\ Len(s) \in Nat /\ \A i \in 1 .. Len(s) : st[i] = s[i]
  OBVIOUS
<1>2. Occurrences(st, id) # 0
  <2>1. IsFiniteSet(DOMAIN st) /\ {i \in DOMAIN st : st[i] = id} \subseteq DOMAIN st
    BY <1>1, FS_Interval
  <2>2. IsFiniteSet({i \in DOMAIN st : st[i] = id})
    BY <2>1, FS_Subset
  <2>3. Len(st) \in {i \in DOMAIN st : st[i] = id}
    BY <1>1
  <2>4. QED
    BY <2>2, <2>3, FS_EmptySet DEF Occurrences
<1>3. LastOf(st, id) = Len(st)
  <2>1. \A i \in DOMAIN st : (st[i] = id /\ \A j \in i + 1 .. Len(st) : st[j] # id) <=> i = Len(st)
    <3> TAKE i \in DOMAIN st
    <3>1. i # Len(st) => Len(st) \in i + 1 .. Len(st)
      BY <1>1
    <3>2. i = Len(st) => i + 1 .. Len(st) = {}
      BY <1>1
    <3>3. QED
      BY <1>1, <3>1, <3>2
  <2>2. Len(st) \in DOMAIN st
    BY <1>1
  <2>3. QED
    BY <2>1, <2>2 DEF LastOf
<1>4. RemoveAt(st, Len(st)) = s
  <2>1. SubSeq(st, 1, Len(st) - 1) = s
    BY <1>1
  <2>2. SubSeq(st, Len(st) + 1, Len(st)) = << >>
    BY <1>1
  <2>3. s \o << >> = s
    OBVIOUS
  <2>4. QED
    BY <2>1, <2>2, <2>3 DEF RemoveAt
<1>5. QED
  BY <1>2, <1>3, <1>4

\* u is s with t in the place of its last element.
Rejoined(S, s, t, u) ==
  /\ u \in Seq(S) /\ Len(u) = Len(s) - 1 + Len(t)
  /\ \A i \in 1 .. Len(s) - 1 : u[i] = s[i]
  /\ \A i \in 1 .. Len(t) : u[Len(s) - 1 + i] = t[i]

LEMMA FrontIs ==
  ASSUME NEW S, NEW s \in Seq(S), s # << >>
  PROVE  /\ Len(s) \in Nat /\ Len(s) >= 1
         /\ Front(s) \in Seq(S) /\ Len(Front(s)) = Len(s) - 1
         /\ \A i \in 1 .. Len(s) - 1 : Front(s)[i] = s[i]
<1>1. Len(s) \in Nat /\ Len(s) # 0
  OBVIOUS
<1>2. PICK n \in Nat : Len(s) = n + 1 /\ n = Len(s) - 1
  <2>1. Len(s) - 1 \in Nat /\ Len(s) = (Len(s) - 1) + 1
    BY <1>1
  <2>2. QED
    BY <2>1
<1>3. PICK f : f = SubSeq(s, 1, n)
  OBVIOUS
<1>4. f \in Seq(S) /\ Len(f) = n
  BY <1>2, <1>3
<1>5. \A i \in 1 .. n : f[i] = s[i]
  BY <1>2, <1>3
<1>6. Front(s) = f
  BY <1>2, <1>3 DEF Front
<1>7. QED
  BY <1>1, <1>2, <1>4, <1>5, <1>6

LEMMA FrontJoins ==
  ASSUME NEW S, NEW s \in Seq(S), s # << >>, NEW t \in Seq(S), NEW u, u = Front(s) \o t
  PROVE  Rejoined(S, s, t, u)
<1>1. PICK f \in Seq(S) : f = Front(s)
  BY FrontIs
<1>2. Len(f) = Len(s) - 1 /\ \A i \in 1 .. Len(s) - 1 : f[i] = s[i]
  BY <1>1, FrontIs
<1>3. u = f \o t
  BY <1>1
<1>4. u \in Seq(S)
  BY <1>3
<1>5. Len(u) = Len(f) + Len(t)
  BY <1>3
<1>6. \A i \in 1 .. Len(f) : u[i] = f[i]
  BY <1>3
<1>7. \A i \in 1 .. Len(t) : u[Len(f) + i] = t[i]
  BY <1>3
<1>8. QED
  BY <1>2, <1>4, <1>5, <1>6, <1>7 DEF Rejoined

\* Where the program stands.
LEMMA Stands ==
  ASSUME IsFrames(frames), TextsGood, Running
  PROVE  /\ Len(frames) \in Nat /\ Len(frames) >= 1 /\ DOMAIN frames = 1 .. Len(frames)
         /\ frames[Len(frames)] = Last(frames) /\ fn \in DOMAIN prog
         /\ pc \in Nat /\ pc \in 1 .. Len(Code) + 1
         /\ GoodText(Code, DOMAIN prog) /\ Structured(Code) /\ Len(Code) \in Nat /\ DOMAIN Code = 1 .. Len(Code)
<1>1. /\ Len(frames) \in Nat /\ Len(frames) >= 1 /\ DOMAIN frames = 1 .. Len(frames)
  BY DEF IsFrames, Running
<1>2. frames[Len(frames)] = Last(frames) /\ Len(frames) \in DOMAIN frames
  BY <1>1 DEF Last
<1>3. fn \in DOMAIN prog /\ pc \in Nat /\ pc \in 1 .. Len(Code) + 1
  BY <1>2, FrameIs DEF fn, pc, Code
<1>4. GoodText(Code, DOMAIN prog)
  BY <1>3 DEF TextsGood, Code
<1>5. QED
  BY <1>1, <1>2, <1>3, <1>4 DEF GoodText, Regions

\* The last frame moves.
Moved(q) ==
  /\ IsFrames(frames') /\ Len(frames') = Len(frames)
  /\ \A i \in 1 .. Len(frames) - 1 : frames'[i] = frames[i]
  /\ frames'[Len(frames)] = <<fn, q>>

LEMMA GotoMoves ==
  ASSUME IsFrames(frames), TextsGood, Running, NEW q \in 1 .. Len(Code) + 1, Goto(q)
  PROVE  Moved(q)
<1>1. q \in Nat /\ fn \in DOMAIN prog /\ Len(Code) \in Nat
  BY Stands
<1>2. <<fn, q>> \in Frames /\ << <<fn, q>> >> \in Seq(Frames) /\ Len(<< <<fn, q>> >>) = 1
  BY <1>1 DEF Frames
<1>3. frames \in Seq(Frames) /\ frames # << >>
  BY DEF IsFrames, Running
<1>4. frames' = Front(frames) \o << <<fn, q>> >>
  BY DEF Goto
<1>5. Len(frames) \in Nat /\ Len(frames) >= 1
  BY Stands
<1>10. Rejoined(Frames, frames, << <<fn, q>> >>, frames')
  BY <1>2, <1>3, <1>4, FrontJoins
<1>6. /\ frames' \in Seq(Frames) /\ Len(frames') = Len(frames) - 1 + 1
      /\ frames'[Len(frames) - 1 + 1] = << <<fn, q>> >>[1]
      /\ \A i \in 1 .. Len(frames) - 1 : frames'[i] = frames[i]
  BY <1>2, <1>10 DEF Rejoined
<1>7. Len(frames') = Len(frames) /\ frames'[Len(frames)] = <<fn, q>>
  BY <1>5, <1>6
<1>8. ASSUME NEW i \in DOMAIN frames' PROVE frames'[i][2] \in 1 .. Len(prog[frames'[i][1]]) + 1
  <2>1. i \in 1 .. Len(frames)
    BY <1>6, <1>7
  <2>2. CASE i = Len(frames)
    BY <1>7, <2>2 DEF Code
  <2>3. CASE i # Len(frames)
    <3>1. frames'[i] = frames[i] /\ i \in DOMAIN frames
      BY <1>3, <1>5, <1>6, <2>1, <2>3
    <3>2. QED
      BY <3>1 DEF IsFrames
  <2>4. QED
    BY <2>2, <2>3
<1>9. QED
  BY <1>6, <1>7, <1>8 DEF IsFrames, Moved

\* A call stands past it, and its function at the start.
Called(g) ==
  /\ IsFrames(frames') /\ Len(frames') = Len(frames) + 1
  /\ \A i \in 1 .. Len(frames) - 1 : frames'[i] = frames[i]
  /\ frames'[Len(frames)] = <<fn, pc + 1>> /\ frames'[Len(frames) + 1] = <<g, 1>>

LEMMA CallMoves ==
  ASSUME IsFrames(frames), TextsGood, Call
  PROVE  Running /\ pc \in DOMAIN Code /\ Code[pc].op = "call" /\ Code[pc].to \in DOMAIN prog /\ Called(Code[pc].to)
<1>1. Running /\ pc <= Len(Code) /\ Code[pc].op = "call"
      /\ frames' = Front(frames) \o << <<fn, pc + 1>>, <<Code[pc].to, 1>> >>
  BY DEF Call, At
<1>2. pc \in DOMAIN Code /\ pc + 1 \in 1 .. Len(Code) + 1 /\ pc + 1 \in Nat /\ fn \in DOMAIN prog
  BY <1>1, Stands
<1>3. PICK g \in DOMAIN prog : g = Code[pc].to
  BY <1>1, <1>2, Stands DEF GoodText
<1> DEFINE new == << <<fn, pc + 1>>, <<g, 1>> >>
<1>4. new \in Seq(Frames) /\ Len(new) = 2 /\ new[1] = <<fn, pc + 1>> /\ new[2] = <<g, 1>>
  <2>1. <<fn, pc + 1>> \in Frames /\ <<g, 1>> \in Frames
    BY <1>2 DEF Frames
  <2>2. QED
    BY <2>1
<1>5. frames \in Seq(Frames) /\ frames # << >> /\ frames' = Front(frames) \o new
  BY <1>1, <1>3 DEF IsFrames, Running
<1> HIDE DEF new
<1>6. Len(frames) \in Nat /\ Len(frames) >= 1
  BY <1>1, Stands
<1>7. /\ frames' \in Seq(Frames) /\ Len(frames') = Len(frames) - 1 + Len(new)
      /\ \A i \in 1 .. Len(frames) - 1 : frames'[i] = frames[i]
      /\ \A i \in 1 .. Len(new) : frames'[Len(frames) - 1 + i] = new[i]
  <2>1. Rejoined(Frames, frames, new, frames')
    BY <1>4, <1>5, FrontJoins
  <2>2. QED
    BY <2>1 DEF Rejoined
<1>8. /\ Len(frames') = Len(frames) + 1
      /\ frames'[Len(frames)] = <<fn, pc + 1>> /\ frames'[Len(frames) + 1] = <<g, 1>>
  <2>1. 1 \in 1 .. Len(new) /\ 2 \in 1 .. Len(new)
    BY <1>4
  <2>2. frames'[Len(frames) - 1 + 1] = new[1] /\ frames'[Len(frames) - 1 + 2] = new[2]
    BY <1>7, <2>1
  <2>3. Len(frames) - 1 + 1 = Len(frames) /\ Len(frames) - 1 + 2 = Len(frames) + 1
    BY <1>6
  <2>4. QED
    BY <1>4, <1>7, <2>2, <2>3
<1>9. ASSUME NEW i \in DOMAIN frames' PROVE frames'[i][2] \in 1 .. Len(prog[frames'[i][1]]) + 1
  <2>1. i \in 1 .. Len(frames) + 1
    BY <1>7, <1>8
  <2>2. CASE i = Len(frames)
    BY <1>2, <1>8, <2>2 DEF Code
  <2>3. CASE i = Len(frames) + 1
    <3>1. Len(prog[g]) \in Nat
      BY <1>3 DEF TextsGood, GoodText
    <3>2. QED
      BY <1>8, <2>3, <3>1
  <2>4. CASE i # Len(frames) /\ i # Len(frames) + 1
    <3>1. i \in 1 .. Len(frames) - 1
      BY <1>6, <2>1, <2>4
    <3>2. frames'[i] = frames[i]
      BY <1>7, <3>1
    <3>3. i \in DOMAIN frames
      BY <1>1, <1>6, <3>1, Stands
    <3>4. QED
      BY <3>2, <3>3 DEF IsFrames
  <2>5. QED
    BY <2>2, <2>3, <2>4
<1>10. QED
  BY <1>1, <1>2, <1>3, <1>7, <1>8, <1>9 DEF IsFrames, Called

\* A return leaves the frames below.
LEMMA ReturnMoves ==
  ASSUME IsFrames(frames), TextsGood, Return
  PROVE  /\ Running /\ pc = Len(Code) + 1
         /\ IsFrames(frames') /\ Len(frames') = Len(frames) - 1
         /\ \A i \in 1 .. Len(frames) - 1 : frames'[i] = frames[i]
<1>1. Running /\ pc > Len(Code) /\ frames' = Front(frames)
  BY DEF Return
<1>2. pc = Len(Code) + 1 /\ Len(frames) \in Nat /\ Len(frames) >= 1 /\ DOMAIN frames = 1 .. Len(frames)
  BY <1>1, Stands
<1>3. frames \in Seq(Frames) /\ frames # << >> /\ << >> \in Seq(Frames)
  BY <1>1 DEF IsFrames, Running
<1>4. /\ frames' \in Seq(Frames) /\ Len(frames') = Len(frames) - 1
      /\ \A i \in 1 .. Len(frames) - 1 : frames'[i] = frames[i]
  BY <1>1, <1>3, FrontIs
<1>5. ASSUME NEW i \in DOMAIN frames' PROVE frames'[i][2] \in 1 .. Len(prog[frames'[i][1]]) + 1
  <2>1. frames'[i] = frames[i] /\ i \in DOMAIN frames
    BY <1>2, <1>4
  <2>2. QED
    BY <2>1 DEF IsFrames
<1>6. QED
  BY <1>1, <1>2, <1>4, <1>5 DEF IsFrames

LEMMA GetIs ==
  ASSUME NEW R, NEW f, f \in [DOMAIN f -> R], NEW x, NEW d \in R
  PROVE  Get(f, x, d) \in R
BY DEF Get

LEMMA NoCountsIs == NoCounts \in [LoopKinds -> Nat] /\ \A k \in LoopKinds : NoCounts[k] = 0
BY DEF NoCounts

LEMMA CountsAre ==
  ASSUME NEW r, IsRuntime(r), NEW i
  PROVE  Get(r.counters, i, NoCounts) \in [LoopKinds -> Nat]
<1> DEFINE R == [LoopKinds -> Nat]
<1>1. r.counters \in [DOMAIN r.counters -> R] /\ NoCounts \in R
  BY NoCountsIs DEF IsRuntime
<1> HIDE DEF R
<1>2. PICK f : f = r.counters
  OBVIOUS
<1>3. Get(f, i, NoCounts) \in R
  BY <1>1, <1>2, GetIs
<1>4. QED
  BY <1>2, <1>3 DEF R

\* The counter call in front of an operation.
LEMMA CounterKeeps ==
  ASSUME NEW r, IsRuntime(r), NEW k \in Kinds, NEW q, q = sodaInstrDynamicCounter(r, k)
  PROVE  /\ IsRuntime(q) /\ q.counters = r.counters /\ q.stack = r.stack /\ q.exits = 1
         /\ q.dynamic = Put(r.dynamic, k, Get(r.dynamic, k, 0) + 1)
<1>1. q = Runtime(r.counters, Put(r.dynamic, k, Get(r.dynamic, k, 0) + 1), r.stack, 1)
  BY CounterFields
<1>2. /\ q.counters = r.counters /\ q.stack = r.stack /\ q.exits = 1
      /\ q.dynamic = Put(r.dynamic, k, Get(r.dynamic, k, 0) + 1)
  BY <1>1, RuntimeFields
<1>3. r.dynamic \in [DOMAIN r.dynamic -> Nat] /\ DOMAIN r.dynamic \subseteq Kinds
  BY DEF IsRuntime
<1>4. Get(r.dynamic, k, 0) \in Nat
  BY <1>3, GetIs
<1>5. DOMAIN q.dynamic \subseteq Kinds /\ q.dynamic \in [DOMAIN q.dynamic -> Nat]
  <2>1. \A f, x, v : f \in [DOMAIN f -> Nat] /\ v \in Nat =>
          DOMAIN Put(f, x, v) = DOMAIN f \cup {x} /\ Put(f, x, v) \in [DOMAIN f \cup {x} -> Nat]
    BY DEF Put
  <2>2. PICK v \in Nat : v = Get(r.dynamic, k, 0) + 1
    BY <1>4
  <2>3. PICK f : f = r.dynamic
    OBVIOUS
  <2>4. DOMAIN Put(f, k, v) = DOMAIN f \cup {k} /\ Put(f, k, v) \in [DOMAIN f \cup {k} -> Nat]
    BY <1>3, <2>1, <2>3
  <2>5. q.dynamic = Put(f, k, v)
    BY <1>2, <2>2, <2>3
  <2>6. QED
    BY <1>3, <2>3, <2>4, <2>5
<1>6. QED
  BY <1>1, <1>2, <1>5 DEF IsRuntime

\* No total is another, whether it is kept or not.
SameTotals(r, q) == \A i : Get(q.counters, i, NoCounts) = Get(r.counters, i, NoCounts)

\* The start marker.
LEMMA StartKeeps ==
  ASSUME NEW r, IsRuntime(r), NEW id \in Nat, NEW q, q = CollectStart(r, id)
  PROVE  /\ IsRuntime(q) /\ q.dynamic = r.dynamic /\ q.stack = Append(r.stack, id) /\ q.exits = 1
         /\ DOMAIN q.counters = DOMAIN r.counters \cup {id} /\ SameTotals(r, q)
<1>1. q = Runtime(Put(r.counters, id, Get(r.counters, id, NoCounts)), r.dynamic, Append(r.stack, id), 1)
  BY StartFields
<1>2. /\ q.counters = Put(r.counters, id, Get(r.counters, id, NoCounts)) /\ q.exits = 1
      /\ q.stack = Append(r.stack, id) /\ q.dynamic = r.dynamic
  <2>1. PICK c, s : c = Put(r.counters, id, Get(r.counters, id, NoCounts)) /\ s = Append(r.stack, id)
    OBVIOUS
  <2>2. q = Runtime(c, r.dynamic, s, 1)
    BY <1>1, <2>1
  <2>3. q.counters = c /\ q.dynamic = r.dynamic /\ q.stack = s /\ q.exits = 1
    BY <2>2, RuntimeFields
  <2>4. QED
    BY <2>1, <2>3
<1>3. DOMAIN r.counters \subseteq Nat /\ r.counters \in [DOMAIN r.counters -> [LoopKinds -> Nat]]
      /\ NoCounts \in [LoopKinds -> Nat]
  BY NoCountsIs DEF IsRuntime
<1>4. Get(r.counters, id, NoCounts) \in [LoopKinds -> Nat]
  BY CountsAre
<1>5. /\ DOMAIN q.counters = DOMAIN r.counters \cup {id}
      /\ q.counters \in [DOMAIN r.counters \cup {id} -> [LoopKinds -> Nat]]
      /\ Get(q.counters, id, NoCounts) = Get(r.counters, id, NoCounts)
      /\ \A i : i # id => Get(q.counters, i, NoCounts) = Get(r.counters, i, NoCounts)
  <2> DEFINE R == [LoopKinds -> Nat]
  <2>1. r.counters \in [DOMAIN r.counters -> R] /\ NoCounts \in R /\ Get(r.counters, id, NoCounts) \in R
    BY <1>3, <1>4
  <2> HIDE DEF R
  <2>2. /\ DOMAIN q.counters = DOMAIN r.counters \cup {id} /\ q.counters \in [DOMAIN r.counters \cup {id} -> R]
        /\ Get(q.counters, id, NoCounts) = Get(r.counters, id, NoCounts)
        /\ \A i : i # id => Get(q.counters, i, NoCounts) = Get(r.counters, i, NoCounts)
    <3>1. PICK v \in R : v = Get(r.counters, id, NoCounts)
      BY <2>1
    <3>2. q.counters = Put(r.counters, id, v)
      BY <1>2, <3>1
    <3>3. PICK f : f = r.counters /\ f \in [DOMAIN f -> R]
      BY <2>1
    <3>4. /\ DOMAIN Put(f, id, v) = DOMAIN f \cup {id} /\ Put(f, id, v) \in [DOMAIN f \cup {id} -> R]
          /\ Get(Put(f, id, v), id, NoCounts) = v
      BY <2>1, <3>3 DEF Put, Get
    <3>5. \A y : y # id => Get(Put(f, id, v), y, NoCounts) = Get(f, y, NoCounts)
      BY <2>1, <3>3 DEF Put, Get
    <3>6. QED
      BY <3>1, <3>2, <3>3, <3>4, <3>5
  <2>3. QED
    BY <2>2 DEF R
<1>6. SameTotals(r, q)
  BY <1>5 DEF SameTotals
<1>7. Append(r.stack, id) \in Seq(DOMAIN r.counters \cup {id})
  <2>1. \A S, T : \A s \in Seq(S), x \in T : Append(s, x) \in Seq(S \cup T)
    OBVIOUS
  <2>2. r.stack \in Seq(DOMAIN r.counters)
    BY DEF IsRuntime
  <2>3. QED
    BY <2>1, <2>2
<1>8. IsRuntime(q)
  <2>1. q = Runtime(q.counters, q.dynamic, q.stack, q.exits)
    BY <1>1, <1>2
  <2>2. DOMAIN q.counters \subseteq Nat /\ q.counters \in [DOMAIN q.counters -> [LoopKinds -> Nat]]
    BY <1>3, <1>5
  <2>3. DOMAIN q.dynamic \subseteq Kinds /\ q.dynamic \in [DOMAIN q.dynamic -> Nat]
    BY <1>2 DEF IsRuntime
  <2>4. q.stack \in Seq(DOMAIN q.counters)
    BY <1>2, <1>5, <1>7
  <2>5. QED
    BY <1>2, <2>1, <2>2, <2>3, <2>4 DEF IsRuntime
<1>9. QED
  BY <1>2, <1>5, <1>6, <1>8

LEMMA OccursIsNat ==
  ASSUME NEW s \in Seq(Nat), NEW id
  PROVE  Occurrences(s, id) \in Nat
<1>1. {i \in DOMAIN s : s[i] = id} \subseteq 1 .. Len(s) /\ Len(s) \in Int /\ 1 \in Int
  OBVIOUS
<1>2. QED
  BY <1>1, FS_Interval, FS_Subset, FS_CardinalityType DEF Occurrences

\* A stop adds n to the totals, once per entry of the stack.
StopAdds(r, n, q) ==
  \A i \in DOMAIN r.counters, k \in LoopKinds :
    Get(q.counters, i, NoCounts)[k] = Get(r.counters, i, NoCounts)[k] + Occurrences(r.stack, i) * n[k]

\* The stop marker of the innermost loop.
LEMMA StopKeeps ==
  ASSUME NEW r, IsRuntime(r), NEW s \in Seq(Nat), NEW id \in Nat, r.stack = Append(s, id),
         NEW n \in [LoopKinds -> Nat], NEW q, q = CollectStop(r, id, n)
  PROVE  /\ IsRuntime(q) /\ q.dynamic = r.dynamic /\ q.stack = s /\ q.exits = 1
         /\ DOMAIN q.counters = DOMAIN r.counters /\ StopAdds(r, n, q)
<1> DEFINE c == [i \in DOMAIN r.counters \cup {id} |->
                   Plus(Get(r.counters, i, NoCounts), n, Occurrences(r.stack, i))]
<1>1. q = Runtime(c, r.dynamic, s, 1)
  <2>1. (IF Occurrences(r.stack, id) = 0 THEN r.stack ELSE RemoveAt(r.stack, LastOf(r.stack, id))) = s
    BY StopPops
  <2>2. QED
    BY <2>1, StopFields
<1>2. r.stack \in Seq(DOMAIN r.counters) /\ DOMAIN r.counters \subseteq Nat
  BY DEF IsRuntime
<1>3. id \in DOMAIN r.counters /\ s \in Seq(DOMAIN r.counters)
  <2>1. \A S : Append(s, id) \in Seq(S) => id \in S /\ s \in Seq(S)
    <3> TAKE S
    <3> HAVE Append(s, id) \in Seq(S)
    <3>1. PICK t \in Seq(S) : t = Append(s, id)
      OBVIOUS
    <3>2. Len(t) = Len(s) + 1 /\ t[Len(s) + 1] = id /\ Len(s) \in Nat
      BY <3>1
    <3>3. \A i \in 1 .. Len(s) : t[i] = s[i]
      BY <3>1
    <3>4. id \in S
      BY <3>2
    <3>5. \A i \in 1 .. Len(s) : s[i] \in S
      BY <3>2, <3>3
    <3>6. QED
      BY <3>4, <3>5
  <2>2. QED
    BY <1>2, <2>1
<1>4. DOMAIN r.counters \cup {id} = DOMAIN r.counters
  BY <1>3
<1>5. q.counters = c /\ q.dynamic = r.dynamic /\ q.stack = s /\ q.exits = 1
  BY <1>1, RuntimeFields
<1>6. \A i : Occurrences(r.stack, i) \in Nat
  <2>1. r.stack \in Seq(Nat)
    OBVIOUS
  <2>2. QED
    BY <2>1, OccursIsNat
<1>7. ASSUME NEW i \in DOMAIN r.counters
      PROVE  /\ c[i] \in [LoopKinds -> Nat]
             /\ \A k \in LoopKinds : c[i][k] = Get(r.counters, i, NoCounts)[k] + Occurrences(r.stack, i) * n[k]
  <2>1. PICK g \in [LoopKinds -> Nat] : g = Get(r.counters, i, NoCounts)
    <3>1. Get(r.counters, i, NoCounts) \in [LoopKinds -> Nat]
      BY CountsAre
    <3>2. QED
      BY <3>1
  <2>2. PICK o \in Nat : o = Occurrences(r.stack, i)
    BY <1>6
  <2>3. c[i] = Plus(g, n, o)
    BY <2>1, <2>2
  <2>4. Plus(g, n, o) = [k \in LoopKinds |-> g[k] + o * n[k]]
    BY DEF Plus
  <2>5. \A k \in LoopKinds : g[k] + o * n[k] \in Nat
    <3> TAKE k \in LoopKinds
    <3>1. g[k] \in Nat /\ n[k] \in Nat
      OBVIOUS
    <3>2. PICK x \in Nat, y \in Nat : x = g[k] /\ y = n[k]
      BY <3>1
    <3>3. PICK z \in Nat : z = o * y
      <4>1. o * y \in Nat
        OBVIOUS
      <4>2. QED
        BY <4>1
    <3>4. QED
      BY <3>2, <3>3
  <2> HIDE DEF c
  <2>6. QED
    BY <2>1, <2>2, <2>3, <2>4, <2>5
<1>8. DOMAIN c = DOMAIN r.counters /\ c \in [DOMAIN r.counters -> [LoopKinds -> Nat]]
  BY <1>4, <1>7
<1> HIDE DEF c
<1>9. IsRuntime(q)
  <2>1. q = Runtime(q.counters, q.dynamic, q.stack, q.exits)
    BY <1>1, <1>5
  <2>2. DOMAIN q.dynamic \subseteq Kinds /\ q.dynamic \in [DOMAIN q.dynamic -> Nat]
    BY <1>5 DEF IsRuntime
  <2>3. QED
    BY <1>2, <1>3, <1>5, <1>8, <2>1, <2>2 DEF IsRuntime
<1>10. \A i \in DOMAIN r.counters : Get(q.counters, i, NoCounts) = c[i]
  BY <1>5, <1>8 DEF Get
<1>11. StopAdds(r, n, q)
  BY <1>7, <1>10 DEF StopAdds
<1>12. QED
  BY <1>5, <1>8, <1>9, <1>11

-----------------------------------------------------------------------------
(* The inductive invariant of the markers and the stack.                   *)

\* The inductive invariant: the stack is the nest of the loops of the frames.
CoreInv ==
  /\ ProgInv
  /\ IsFrames(frames)
  /\ IsRuntime(rt)
  /\ rt.stack = Stack(frames, Len(frames))
  /\ turns \in 0 .. MaxTurns
  /\ Len(rt.stack) <= turns

LEMMA ProgIsGood ==
  ASSUME ProgInv
  PROVE  TextsGood /\ DOMAIN plan \subseteq Nat /\ 1 \in DOMAIN prog
<1>1. PICK input \in Inputs : MadeOf(input)
  BY DEF ProgInv
<1>2. QED
  BY <1>1, MadeText DEF TextsGood

LEMMA AppendLast ==
  ASSUME NEW s \in Seq(Nat), NEW t \in Seq(Nat), NEW x \in Nat
  PROVE  s \o Append(t, x) = Append(s \o t, x) /\ s \o t \in Seq(Nat)
OBVIOUS

\* The stack, as the nests of the frames below the last, and of the last.
LEMMA TopStack ==
  ASSUME CoreInv, Running
  PROVE  /\ Stack(frames, Len(frames) - 1) \in Seq(Nat)
         /\ rt.stack = Stack(frames, Len(frames) - 1) \o NestOf(Code, pc)
<1>1. TextsGood /\ IsFrames(frames)
  BY ProgIsGood DEF CoreInv
<1>2. PICK n \in Nat : Len(frames) = n + 1 /\ n = Len(frames) - 1
  <2>1. Len(frames) - 1 \in Nat /\ Len(frames) = (Len(frames) - 1) + 1
    BY <1>1, Stands
  <2>2. QED
    BY <2>1
<1>3. Stack(frames, n) \in Seq(Nat)
  <2>1. n \in 0 .. Len(frames)
    BY <1>2
  <2>2. QED
    BY <1>1, <2>1, StackIsSeq
<1>4. Stack(frames, n + 1) = Stack(frames, n) \o NestIn(frames[n + 1])
  <2>1. n + 1 <= Len(frames)
    BY <1>2
  <2>2. QED
    BY <1>1, <1>2, <2>1, StackGrows
<1>5. NestIn(frames[n + 1]) = NestOf(Code, pc)
  BY <1>1, <1>2, Stands DEF NestIn, Code, fn, pc
<1>6. QED
  BY <1>2, <1>3, <1>4, <1>5 DEF CoreInv

\* What the nests are when the last frame has moved.
LEMMA MovedStack ==
  ASSUME CoreInv, Running, NEW q, Moved(q)
  PROVE  Stack(frames', Len(frames')) = Stack(frames, Len(frames) - 1) \o NestOf(Code, q)
<1>1. TextsGood /\ IsFrames(frames)
  BY ProgIsGood DEF CoreInv
<1>2. PICK n \in Nat : Len(frames) = n + 1 /\ n = Len(frames) - 1
  <2>1. Len(frames) - 1 \in Nat /\ Len(frames) = (Len(frames) - 1) + 1
    BY <1>1, Stands
  <2>2. QED
    BY <2>1
<1>3. /\ IsFrames(frames') /\ Len(frames') = n + 1 /\ frames'[n + 1] = <<fn, q>>
      /\ \A i \in 1 .. n : frames[i] = frames'[i]
  BY <1>2 DEF Moved
<1>4. Stack(frames', n + 1) = Stack(frames', n) \o NestIn(frames'[n + 1])
  <2>1. PICK new : new = frames'
    OBVIOUS
  <2>2. IsFrames(new) /\ n + 1 <= Len(new)
    BY <1>3, <2>1
  <2>3. Stack(new, n + 1) = Stack(new, n) \o NestIn(new[n + 1])
    BY <1>1, <2>2, StackGrows
  <2>4. QED
    BY <2>1, <2>3
<1>5. Stack(frames', n) = Stack(frames, n)
  <2>1. PICK new : new = frames'
    OBVIOUS
  <2>2. PICK old : old = frames
    OBVIOUS
  <2>3. \A i \in 1 .. n : old[i] = new[i]
    BY <1>3, <2>1, <2>2
  <2>4. Stack(old, n) = Stack(new, n)
    BY <2>3, StackSame
  <2>5. QED
    BY <2>1, <2>2, <2>4
<1>6. NestIn(frames'[n + 1]) = NestOf(Code, q)
  BY <1>3 DEF NestIn, Code
<1>7. QED
  BY <1>2, <1>3, <1>4, <1>5, <1>6

\* What the next state is in terms of this one's program.
LEMMA CoreNext ==
  ASSUME CoreInv, [Next]_vars, IsFrames(frames'), IsRuntime(rt'),
         rt'.stack = Stack(frames', Len(frames')), turns' \in 0 .. MaxTurns, Len(rt'.stack) <= turns'
  PROVE  CoreInv'
<1>1. ProgInv' /\ prog' = prog
  BY ProgStep DEF CoreInv
<1>2. IsFrames(frames)'
  <2>1. IsFrames(frames)' <=> IsFrames(frames')
    BY <1>1 DEF IsFrames, Frames
  <2>2. QED
    BY <2>1
<1>3. (rt.stack = Stack(frames, Len(frames)))'
  <2>1. Stack(frames, Len(frames))' = Stack(frames', Len(frames'))
    BY <1>1 DEF Stack, NestIn
  <2>2. QED
    BY <2>1
<1>4. IsRuntime(rt)'
  BY DEF IsRuntime
<1>5. QED
  BY <1>1, <1>2, <1>3, <1>4 DEF CoreInv

\* The counter call in front of the operation at pc.
LEMMA BumpedKeeps ==
  ASSUME CoreInv, Running, pc <= Len(Code)
  PROVE  /\ pc \in DOMAIN Code /\ IsRuntime(Bumped)
         /\ Bumped.counters = rt.counters /\ Bumped.stack = rt.stack
         /\ IF CountedAs(Code[pc].op) = "none" THEN Bumped = rt
            ELSE /\ CountedAs(Code[pc].op) \in Kinds /\ Bumped.exits = 1
                 /\ Bumped.dynamic = Put(rt.dynamic, CountedAs(Code[pc].op), Get(rt.dynamic, CountedAs(Code[pc].op), 0) + 1)
<1>1. TextsGood /\ IsFrames(frames) /\ ProgInv /\ IsRuntime(rt) /\ frames # << >> /\ DOMAIN plan \subseteq Nat
  BY ProgIsGood DEF CoreInv, Running
<1>2. pc \in DOMAIN Code /\ fn \in DOMAIN prog
  BY <1>1, Stands
<1>3. Bumped = IF CountedAs(Code[pc].op) = "none" THEN rt
               ELSE sodaInstrDynamicCounter(rt, CountedAs(Code[pc].op))
  BY <1>1, <1>2, BumpedIs
<1>4. PICK k \in Kinds \cup {"none"} : k = CountedAs(Code[pc].op)
  BY <1>1, CountedIs
<1>5. CASE k = "none"
  BY <1>1, <1>2, <1>3, <1>4, <1>5
<1>6. CASE k # "none"
  <2>1. k \in Kinds
    BY <1>6
  <2>2. Bumped = sodaInstrDynamicCounter(rt, k)
    BY <1>3, <1>4, <1>6
  <2>3. /\ IsRuntime(Bumped) /\ Bumped.counters = rt.counters /\ Bumped.stack = rt.stack /\ Bumped.exits = 1
        /\ Bumped.dynamic = Put(rt.dynamic, k, Get(rt.dynamic, k, 0) + 1)
    BY <1>1, <2>1, <2>2, CounterKeeps
  <2>4. QED
    BY <1>2, <1>4, <1>6, <2>1, <2>3
<1>7. QED
  BY <1>5, <1>6

\* The step keeps to the loops around it.
LEMMA StaysInv ==
  ASSUME CoreInv, Next, Running, NEW q, Moved(q), LoopsAround(Code, q) = LoopsAround(Code, pc),
         IsRuntime(rt'), rt'.stack = rt.stack, turns' = turns
  PROVE  CoreInv'
<1>1. NestOf(Code, q) = NestOf(Code, pc)
  BY DEF NestOf
<1>2. rt'.stack = Stack(frames', Len(frames'))
  BY <1>1, MovedStack, TopStack
<1>3. QED
  BY <1>2, CoreNext DEF Moved, CoreInv

\* Where each step goes, and what becomes of the loops around it.
LEMMA TextIs ==
  ASSUME CoreInv, Running
  PROVE  /\ Structured(Code) /\ Regions(Code) /\ DOMAIN Code = 1 .. Len(Code) /\ Len(Code) \in Nat
         /\ pc \in Nat /\ pc \in 1 .. Len(Code) + 1 /\ IsFrames(frames) /\ TextsGood
         /\ Len(frames) \in Nat /\ Len(frames) >= 1
BY ProgIsGood, Stands DEF CoreInv, GoodText

\* The step passes the operation at pc, or the region that opens there.
Passes(q) ==
  /\ Running /\ pc \in DOMAIN Code /\ Code[pc].op \in Operations \cup {"for", "if", "fi"}
  /\ Moved(q) /\ LoopsAround(Code, q) = LoopsAround(Code, pc)
  /\ \/ q = pc + 1 /\ Code[pc].op # "for"
     \/ q = End(Code, pc) + 1 /\ Region(Code, pc, End(Code, pc))

LEMMA OperationsAre ==
  ASSUME NEW op \in Operations
  PROVE  op \notin {"for", "end", "if", "fi", "call"}
BY DEF Operations, LoopKinds

LEMMA PassNext ==
  ASSUME CoreInv, Running, pc <= Len(Code), Code[pc].op \in Operations \cup {"if", "fi"}, Goto(pc + 1)
  PROVE  Passes(pc + 1)
<1>1. pc \in DOMAIN Code /\ pc + 1 \in 1 .. Len(Code) + 1
  BY TextIs
<1>2. Moved(pc + 1)
  BY <1>1, TextIs, GotoMoves
<1>3. Code[pc].op \notin {"for", "end"}
  BY OperationsAre
<1>4. LoopsAround(Code, pc + 1) = LoopsAround(Code, pc)
  BY <1>1, <1>3, TextIs, AroundNext
<1>5. QED
  BY <1>1, <1>2, <1>3, <1>4 DEF Passes

LEMMA PassRegion ==
  ASSUME CoreInv, Running, pc <= Len(Code), Code[pc].op \in {"for", "if"}, Goto(End(Code, pc) + 1)
  PROVE  Passes(End(Code, pc) + 1)
<1>1. pc \in DOMAIN Code
  BY TextIs
<1>2. Region(Code, pc, End(Code, pc))
  <2>1. CASE Code[pc].op = "for"
    BY <1>1, <2>1, TextIs, LoopIsRegion DEF Loops
  <2>2. CASE Code[pc].op = "if"
    BY <1>1, <2>2, TextIs DEF Regions
  <2>3. QED
    BY <2>1, <2>2
<1>3. End(Code, pc) + 1 \in 1 .. Len(Code) + 1
  BY <1>2, TextIs, RegionDepth
<1>4. Moved(End(Code, pc) + 1)
  BY <1>3, TextIs, GotoMoves
<1>5. LoopsAround(Code, End(Code, pc) + 1) = LoopsAround(Code, pc)
  BY <1>2, TextIs, AroundRegion
<1>6. QED
  BY <1>1, <1>2, <1>4, <1>5 DEF Passes

LEMMA SkipPasses ==
  ASSUME CoreInv, SkipLoop
  PROVE  /\ Passes(End(Code, pc) + 1) /\ Code[pc].op = "for" /\ pc <= Len(Code)
         /\ rt' = Bumped /\ turns' = turns /\ work' = work
<1>1. Running /\ pc <= Len(Code) /\ Code[pc].op = "for" /\ Goto(End(Code, pc) + 1)
  BY DEF SkipLoop, At
<1>2. QED
  BY <1>1, PassRegion DEF SkipLoop

LEMMA IfPasses ==
  ASSUME CoreInv, If
  PROVE  /\ \E q : Passes(q)
         /\ Code[pc].op = "if" /\ pc <= Len(Code) /\ Running
         /\ rt' = Bumped /\ turns' = turns /\ work' = work
<1>1. Running /\ pc <= Len(Code) /\ Code[pc].op = "if"
  BY DEF If, At
<1>2. Goto(pc + 1) \/ Goto(End(Code, pc) + 1)
  BY DEF If
<1>3. \E q : Passes(q)
  BY <1>1, <1>2, PassRegion, PassNext
<1>4. QED
  BY <1>1, <1>3 DEF If

LEMMA FiPasses ==
  ASSUME CoreInv, Fi
  PROVE  Passes(pc + 1) /\ Code[pc].op = "fi" /\ rt' = rt /\ turns' = turns /\ work' = work
<1>1. Running /\ pc <= Len(Code) /\ Code[pc].op = "fi" /\ Goto(pc + 1)
  BY DEF Fi, At
<1>2. QED
  BY <1>1, PassNext DEF Fi

LEMMA ExecutePasses ==
  ASSUME CoreInv, Execute
  PROVE  /\ Passes(pc + 1) /\ Code[pc].op \in Operations /\ pc <= Len(Code)
         /\ rt' = Bumped /\ turns' = turns
<1>1. Running /\ pc <= Len(Code) /\ Code[pc].op \in Operations /\ Goto(pc + 1)
  BY DEF Execute
<1>2. QED
  BY <1>1, PassNext DEF Execute

\* A loop's turn starts.
LEMMA EnterMoves ==
  ASSUME CoreInv, EnterLoop
  PROVE  /\ Running /\ pc <= Len(Code) /\ pc \in Loops(Code) /\ Moved(pc + 1) /\ Code[pc].op = "for"
         /\ rt' = CollectStart(Bumped, LoopId(Code, pc)) /\ LoopId(Code, pc) \in Nat
         /\ turns' = turns + 1 /\ turns < MaxTurns /\ work' = work
<1>1. Running /\ pc <= Len(Code) /\ Code[pc].op = "for" /\ Goto(pc + 1)
  BY DEF EnterLoop, At
<1>2. pc \in Loops(Code) /\ pc + 1 \in 1 .. Len(Code) + 1
  BY <1>1, TextIs DEF Loops
<1>3. Moved(pc + 1)
  BY <1>1, <1>2, TextIs, GotoMoves
<1>4. QED
  BY <1>1, <1>2, <1>3, TextIs, LoopIdIsNat DEF EnterLoop

\* The stop marker at the end of l takes its id from the top of the stack.
Outer(l) == Stack(frames, Len(frames) - 1) \o NestOf(Code, l)
Stops(l) ==
  /\ l \in Loops(Code) /\ l \in Nat /\ End(Code, l) = pc /\ LoopId(Code, l) \in Nat
  /\ Outer(l) \in Seq(Nat) /\ rt.stack = Append(Outer(l), LoopId(Code, l))
  /\ countTrackedOpsInLoopBody(Code, l) \in [LoopKinds -> Nat]
  /\ Stopped = CollectStop(rt, LoopId(Code, l), countTrackedOpsInLoopBody(Code, l))

LEMMA CountsInBody ==
  ASSUME NEW code, Structured(code), NEW l
  PROVE  countTrackedOpsInLoopBody(code, l) \in [LoopKinds -> Nat]
<1>1. ASSUME NEW k PROVE Cardinality({p \in DOMAIN code : code[p].op = k /\ DirectlyIn(code, l, p)}) \in Nat
  <2>1. {p \in DOMAIN code : code[p].op = k /\ DirectlyIn(code, l, p)} \subseteq 1 .. Len(code)
        /\ Len(code) \in Int /\ 1 \in Int
    BY DEF Structured
  <2>2. QED
    BY <2>1, FS_Interval, FS_Subset, FS_CardinalityType
<1>2. QED
  BY <1>1 DEF countTrackedOpsInLoopBody

LEMMA EndStops ==
  ASSUME CoreInv, At("end")
  PROVE  Running /\ pc \in DOMAIN Code /\ Code[pc].op = "end" /\ Stops(LoopOf(Code, pc))
<1>1. Running /\ pc \in DOMAIN Code /\ Code[pc].op = "end"
  BY TextIs DEF At
<1>2. PICK l : l = LoopOf(Code, pc)
  OBVIOUS
<1>3. l \in Loops(Code) /\ End(Code, l) = pc
  BY <1>1, <1>2, TextIs DEF Structured
<1>4. l \in Nat
  BY <1>1, <1>3, TextIs DEF Loops
<1>5. LoopId(Code, l) \in Nat
  BY <1>1, TextIs, LoopIdIsNat
<1>6. NestOf(Code, pc) = Append(NestOf(Code, l), LoopId(Code, l))
  BY <1>1, <1>3, TextIs, NestGrows
<1>7. NestOf(Code, l) \in Seq(Nat)
  BY <1>1, TextIs, NestIsSeq
<1>8. Outer(l) \in Seq(Nat) /\ rt.stack = Append(Outer(l), LoopId(Code, l))
  <2>1. PICK s \in Seq(Nat) : s = Stack(frames, Len(frames) - 1) /\ rt.stack = s \o NestOf(Code, pc)
    BY <1>1, TopStack
  <2>2. PICK t \in Seq(Nat), x \in Nat : t = NestOf(Code, l) /\ x = LoopId(Code, l)
    BY <1>5, <1>7
  <2>3. s \o Append(t, x) = Append(s \o t, x) /\ s \o t \in Seq(Nat)
    BY AppendLast
  <2>4. QED
    BY <1>6, <2>1, <2>2, <2>3 DEF Outer
<1>9. countTrackedOpsInLoopBody(Code, l) \in [LoopKinds -> Nat]
  BY <1>1, TextIs, CountsInBody
<1>10. Stopped = CollectStop(rt, LoopId(Code, l), countTrackedOpsInLoopBody(Code, l))
  BY <1>2 DEF Stopped
<1>11. QED
  BY <1>1, <1>2, <1>3, <1>4, <1>5, <1>8, <1>9, <1>10 DEF Stops

LEMMA PassesInv ==
  ASSUME CoreInv, Next, NEW q, Passes(q), rt' = Bumped \/ rt' = rt, turns' = turns
  PROVE  CoreInv'
<1>1. Running /\ pc <= Len(Code) /\ Moved(q) /\ LoopsAround(Code, q) = LoopsAround(Code, pc)
  BY TextIs DEF Passes
<1>2. IsRuntime(rt') /\ rt'.stack = rt.stack
  BY <1>1, BumpedKeeps DEF CoreInv
<1>3. QED
  BY <1>1, <1>2, StaysInv

LEMMA EnterInv ==
  ASSUME CoreInv, Next, EnterLoop
  PROVE  CoreInv'
<1> DEFINE id == LoopId(Code, pc)
<1>1. /\ Running /\ pc <= Len(Code) /\ pc \in Loops(Code) /\ Moved(pc + 1)
      /\ rt' = CollectStart(Bumped, id) /\ id \in Nat /\ turns' = turns + 1 /\ turns < MaxTurns
  BY EnterMoves
<1>2. IsRuntime(Bumped) /\ Bumped.stack = rt.stack
  BY <1>1, BumpedKeeps
<1>3. IsRuntime(rt') /\ rt'.stack = Append(rt.stack, id)
  <2>1. PICK r, q : r = Bumped /\ q = rt'
    OBVIOUS
  <2>2. PICK x \in Nat : x = id
    BY <1>1
  <2>3. IsRuntime(r) /\ q = CollectStart(r, x)
    BY <1>1, <1>2, <2>1, <2>2
  <2>4. IsRuntime(q) /\ q.stack = Append(r.stack, x)
    BY <2>3, StartKeeps
  <2>5. QED
    BY <1>2, <2>1, <2>2, <2>4
<1>4. PICK s \in Seq(Nat), t \in Seq(Nat) :
        /\ s = Stack(frames, Len(frames) - 1) /\ t = NestOf(Code, pc) /\ rt.stack = s \o t
  BY <1>1, TopStack, TextIs, NestIsSeq
<1>5. Stack(frames', Len(frames')) = s \o NestOf(Code, pc + 1)
  BY <1>1, <1>4, MovedStack
<1>6. NestOf(Code, pc + 1) = Append(t, id)
  BY <1>1, <1>4, TextIs, NestGrows
<1>7. s \o Append(t, id) = Append(s \o t, id) /\ s \o t \in Seq(Nat)
  BY <1>1, AppendLast
<1>8. rt'.stack = Stack(frames', Len(frames'))
  BY <1>3, <1>4, <1>5, <1>6, <1>7
<1> HIDE DEF id
<1>9. Len(rt'.stack) = Len(rt.stack) + 1 /\ Len(rt.stack) \in Nat
  BY <1>3, <1>4, <1>7
<1>10. turns' \in 0 .. MaxTurns /\ Len(rt'.stack) <= turns'
  BY <1>1, <1>9, InputsAssumption DEF CoreInv
<1>11. QED
  BY <1>1, <1>3, <1>8, <1>10, CoreNext DEF Moved

LEMMA StoppedIs ==
  ASSUME CoreInv, NEW l, Stops(l)
  PROVE  IsRuntime(Stopped) /\ Stopped.stack = Outer(l)
<1>1. PICK s \in Seq(Nat) : s = Outer(l) /\ rt.stack = Append(s, LoopId(Code, l))
  BY DEF Stops
<1>2. QED
  BY <1>1, StopKeeps DEF Stops, CoreInv

LEMMA LeaveInv ==
  ASSUME CoreInv, Next, LeaveLoop
  PROVE  CoreInv'
<1>1. At("end") /\ Goto(pc + 1) /\ rt' = Stopped /\ turns' = turns
  BY DEF LeaveLoop
<1>2. PICK l : l = LoopOf(Code, pc) /\ Stops(l)
  BY <1>1, EndStops
<1>3. Running /\ pc \in DOMAIN Code /\ Moved(pc + 1)
  <2>1. Running /\ pc \in DOMAIN Code /\ pc + 1 \in 1 .. Len(Code) + 1
    BY <1>1, EndStops, TextIs
  <2>2. QED
    BY <1>1, <2>1, TextIs, GotoMoves
<1>4. IsRuntime(rt') /\ rt'.stack = Outer(l)
  BY <1>1, <1>2, StoppedIs
<1>5. NestOf(Code, pc + 1) = NestOf(Code, l)
  BY <1>2, <1>3, TextIs, NestGrows DEF Stops
<1>6. rt'.stack = Stack(frames', Len(frames'))
  BY <1>3, <1>4, <1>5, MovedStack DEF Outer
<1>7. Len(rt'.stack) <= turns'
  <2>1. PICK s \in Seq(Nat), x \in Nat : s = Outer(l) /\ x = LoopId(Code, l) /\ rt.stack = Append(s, x)
    BY <1>2 DEF Stops
  <2>2. Len(rt.stack) = Len(s) + 1 /\ Len(s) \in Nat
    BY <2>1
  <2>3. QED
    BY <1>1, <1>4, <2>1, <2>2 DEF CoreInv
<1>8. QED
  BY <1>1, <1>3, <1>4, <1>6, <1>7, CoreNext DEF Moved, CoreInv

LEMMA TurnInv ==
  ASSUME CoreInv, Next, TurnLoop
  PROVE  CoreInv'
<1>1. /\ At("end") /\ turns < MaxTurns /\ turns' = turns + 1 /\ Goto(LoopOf(Code, pc) + 1)
      /\ rt' = CollectStart(Stopped, LoopId(Code, LoopOf(Code, pc)))
  BY DEF TurnLoop
<1>2. PICK l : l = LoopOf(Code, pc) /\ Stops(l)
  BY <1>1, EndStops
<1>3. l \in Loops(Code) /\ l \in Nat /\ LoopId(Code, l) \in Nat /\ Running
  BY <1>1, <1>2, EndStops DEF Stops
<1>4. Moved(l + 1)
  <2>1. l + 1 \in 1 .. Len(Code) + 1
    BY <1>3, TextIs DEF Loops
  <2>2. QED
    BY <1>1, <1>2, <1>3, <2>1, TextIs, GotoMoves
<1>5. IsRuntime(Stopped) /\ Stopped.stack = Outer(l)
  BY <1>2, StoppedIs
<1>6. IsRuntime(rt') /\ rt'.stack = Append(Outer(l), LoopId(Code, l))
  <2>1. PICK r, q : r = Stopped /\ q = rt'
    OBVIOUS
  <2>2. PICK x \in Nat : x = LoopId(Code, l)
    BY <1>3
  <2>3. IsRuntime(r) /\ q = CollectStart(r, x)
    BY <1>1, <1>2, <1>5, <2>1, <2>2
  <2>4. IsRuntime(q) /\ q.stack = Append(r.stack, x)
    BY <2>3, StartKeeps
  <2>5. QED
    BY <1>5, <2>1, <2>2, <2>4
<1>7. Outer(l) = Stack(frames, Len(frames) - 1) \o NestOf(Code, l)
  BY DEF Outer
<1>8. NestOf(Code, l + 1) = Append(NestOf(Code, l), LoopId(Code, l))
  BY <1>3, TextIs, NestGrows
<1>9. rt'.stack = Stack(frames', Len(frames'))
  <2>1. PICK s \in Seq(Nat), t \in Seq(Nat), x \in Nat :
          s = Stack(frames, Len(frames) - 1) /\ t = NestOf(Code, l) /\ x = LoopId(Code, l)
    BY <1>3, TopStack, TextIs, NestIsSeq
  <2>2. s \o Append(t, x) = Append(s \o t, x)
    BY AppendLast
  <2>3. Stack(frames', Len(frames')) = s \o NestOf(Code, l + 1)
    BY <1>3, <1>4, <2>1, MovedStack
  <2>4. QED
    BY <1>6, <1>7, <1>8, <2>1, <2>2, <2>3
<1>10. rt'.stack = rt.stack
  BY <1>2, <1>6 DEF Stops
<1>11. turns' \in 0 .. MaxTurns /\ Len(rt'.stack) <= turns'
  <2>1. PICK d \in Nat : d = Len(rt.stack)
    BY <1>2 DEF Stops
  <2>2. QED
    BY <1>1, <1>10, <2>1, InputsAssumption DEF CoreInv
<1>12. QED
  BY <1>4, <1>6, <1>9, <1>11, CoreNext DEF Moved

\* A position where no loop is around adds nothing to the stack.
LEMMA NoNest ==
  ASSUME NEW fr, IsFrames(fr), TextsGood, NEW n \in Nat, n + 1 <= Len(fr),
         LoopsAround(prog[fr[n + 1][1]], fr[n + 1][2]) = {}
  PROVE  Stack(fr, n + 1) = Stack(fr, n)
<1>1. n + 1 \in DOMAIN fr /\ n \in 0 .. Len(fr)
  BY DEF IsFrames
<1>2. NestIn(fr[n + 1]) = << >>
  BY <1>1, FrameIs, NestOfNone DEF NestIn
<1>3. PICK s \in Seq(Nat) : s = Stack(fr, n)
  BY <1>1, StackIsSeq
<1>4. s \o << >> = s
  OBVIOUS
<1>5. QED
  BY <1>2, <1>3, <1>4, StackGrows

LEMMA CallInv ==
  ASSUME CoreInv, Next, Call
  PROVE  CoreInv'
<1>1. TextsGood /\ IsFrames(frames)
  BY ProgIsGood DEF CoreInv
<1>2. /\ Running /\ pc \in DOMAIN Code /\ Code[pc].op = "call" /\ Code[pc].to \in DOMAIN prog
      /\ Called(Code[pc].to)
  BY <1>1, CallMoves
<1>3. PICK g \in DOMAIN prog : g = Code[pc].to
  BY <1>2
<1>4. PICK n \in Nat : Len(frames) = n + 1 /\ n = Len(frames) - 1
  <2>1. Len(frames) - 1 \in Nat /\ Len(frames) = (Len(frames) - 1) + 1
    BY <1>2, TextIs
  <2>2. QED
    BY <2>1
<1>5. PICK new, old : new = frames' /\ old = frames
  OBVIOUS
<1>6. IsFrames(new) /\ Len(new) = n + 2 /\ new[n + 1] = <<fn, pc + 1>> /\ new[n + 2] = <<g, 1>>
  BY <1>2, <1>3, <1>4, <1>5 DEF Called
<1>7. \A i \in 1 .. n : old[i] = new[i]
  BY <1>2, <1>3, <1>4, <1>5 DEF Called
<1>8. Stack(new, n + 2) = Stack(new, n + 1)
  <2>1. PICK m \in Nat : m = n + 1
    OBVIOUS
  <2>2. m + 1 = n + 2 /\ m + 1 <= Len(new) /\ new[m + 1] = <<g, 1>>
    BY <1>6, <2>1
  <2>3. Structured(prog[g])
    BY <1>1 DEF TextsGood, GoodText, Regions
  <2>4. LoopsAround(prog[new[m + 1][1]], new[m + 1][2]) = {}
    BY <2>2, <2>3, AroundNone
  <2>5. Stack(new, m + 1) = Stack(new, m)
    BY <1>1, <1>6, <2>2, <2>4, NoNest
  <2>6. QED
    BY <2>1, <2>2, <2>5
<1>9. Stack(new, n + 1) = Stack(new, n) \o NestIn(new[n + 1])
  <2>1. n + 1 <= Len(new)
    BY <1>6
  <2>2. QED
    BY <1>1, <1>6, <2>1, StackGrows
<1>10. Stack(old, n) = Stack(new, n)
  BY <1>7, StackSame
<1>11. NestIn(new[n + 1]) = NestOf(Code, pc)
  <2>1. LoopsAround(Code, pc + 1) = LoopsAround(Code, pc)
    BY <1>2, TextIs, AroundNext
  <2>2. NestIn(new[n + 1]) = NestOf(Code, pc + 1)
    BY <1>6 DEF NestIn, Code
  <2>3. QED
    BY <2>1, <2>2 DEF NestOf
<1>12. rt.stack = Stack(old, n) \o NestOf(Code, pc)
  BY <1>2, <1>4, <1>5, TopStack
<1>13. rt' = rt /\ turns' = turns
  BY DEF Call
<1>14. rt'.stack = Stack(frames', Len(frames'))
  BY <1>5, <1>6, <1>8, <1>9, <1>10, <1>11, <1>12, <1>13
<1>15. QED
  BY <1>5, <1>6, <1>13, <1>14, CoreNext DEF CoreInv

LEMMA ReturnInv ==
  ASSUME CoreInv, Next, Return
  PROVE  CoreInv'
<1>1. TextsGood /\ IsFrames(frames)
  BY ProgIsGood DEF CoreInv
<1>2. /\ Running /\ pc = Len(Code) + 1 /\ IsFrames(frames') /\ Len(frames') = Len(frames) - 1
      /\ \A i \in 1 .. Len(frames) - 1 : frames'[i] = frames[i]
  BY <1>1, ReturnMoves
<1>3. PICK n \in Nat : Len(frames) = n + 1 /\ n = Len(frames) - 1
  <2>1. Len(frames) - 1 \in Nat /\ Len(frames) = (Len(frames) - 1) + 1
    BY <1>2, TextIs
  <2>2. QED
    BY <2>1
<1>4. PICK new, old : new = frames' /\ old = frames
  OBVIOUS
<1>5. Len(new) = n /\ IsFrames(new) /\ Len(old) = n + 1 /\ IsFrames(old)
  BY <1>1, <1>2, <1>3, <1>4
<1>6. \A i \in 1 .. n : new[i] = old[i]
  BY <1>2, <1>3, <1>4
<1>7. LoopsAround(prog[old[n + 1][1]], old[n + 1][2]) = {}
  <2>1. LoopsAround(Code, pc) = {}
    BY <1>2, TextIs, AroundNone
  <2>2. old[n + 1] = Last(frames)
    BY <1>1, <1>2, <1>3, <1>4, Stands
  <2>3. QED
    BY <2>1, <2>2 DEF Code, fn, pc
<1>8. Stack(old, n + 1) = Stack(old, n)
  BY <1>1, <1>5, <1>7, NoNest
<1>9. Stack(new, n) = Stack(old, n)
  BY <1>6, StackSame
<1>10. rt' = rt /\ turns' = turns
  BY DEF Return
<1>11. rt'.stack = Stack(frames', Len(frames'))
  <2>1. rt.stack = Stack(old, n + 1)
    BY <1>4, <1>5 DEF CoreInv
  <2>2. QED
    BY <1>4, <1>5, <1>8, <1>9, <1>10, <2>1
<1>12. QED
  BY <1>2, <1>10, <1>11, CoreNext DEF CoreInv

LEMMA StackOfNone ==
  ASSUME NEW fr
  PROVE  Stack(fr, 0) = << >>
<1>1. [i \in 1 .. 0 |-> NestIn(fr[i])] = << >>
  OBVIOUS
<1>2. FlattenSeq(<< >>) = << >>
  BY DEF FlattenSeq
<1>3. QED
  BY <1>1, <1>2 DEF Stack

LEMMA NoTotalsIs ==
  /\ IsRuntime(NoTotals) /\ NoTotals.stack = << >> /\ NoTotals.exits = 0
  /\ DOMAIN NoTotals.counters = {} /\ DOMAIN NoTotals.dynamic = {}
<1>1. NoTotals = Runtime(<< >>, << >>, << >>, 0)
  BY DEF NoTotals, Runtime
<1>2. PICK r : r = NoTotals
  OBVIOUS
<1>3. r.counters = << >> /\ r.dynamic = << >> /\ r.stack = << >> /\ r.exits = 0
  BY <1>1, <1>2 DEF Runtime
<1>4. DOMAIN << >> = {} /\ \A S : << >> \in [{} -> S] /\ << >> \in Seq(S)
  OBVIOUS
<1>5. r = Runtime(r.counters, r.dynamic, r.stack, r.exits)
  BY <1>1, <1>2, <1>3
<1>6. QED
  BY <1>2, <1>3, <1>4, <1>5 DEF IsRuntime

LEMMA CoreInit == Init => CoreInv
<1> SUFFICES ASSUME Init PROVE CoreInv
  OBVIOUS
<1>1. ProgInv
  BY ProgInit
<1>2. TextsGood /\ 1 \in DOMAIN prog
  BY <1>1, ProgIsGood
<1>3. turns = 0 /\ rt = NoTotals /\ (frames = << >> \/ frames = << <<1, 1>> >>)
  BY DEF Init
<1>4. IsRuntime(rt) /\ rt.stack = << >> /\ Len(rt.stack) <= turns /\ turns \in 0 .. MaxTurns
  BY <1>3, NoTotalsIs, InputsAssumption
<1>5. CASE frames = << >>
  <2>1. IsFrames(frames) /\ Len(frames) = 0
    BY <1>5 DEF IsFrames
  <2>2. QED
    BY <1>1, <1>4, <2>1, StackOfNone DEF CoreInv
<1>6. CASE frames = << <<1, 1>> >>
  <2>1. <<1, 1>> \in Frames
    BY <1>2 DEF Frames
  <2>2. frames \in Seq(Frames) /\ Len(frames) = 1 /\ DOMAIN frames = {1} /\ frames[1] = <<1, 1>>
    BY <1>6, <2>1
  <2>3. Structured(prog[1]) /\ Len(prog[1]) \in Nat
    BY <1>2 DEF TextsGood, GoodText, Regions
  <2>4. IsFrames(frames)
    BY <2>2, <2>3 DEF IsFrames
  <2>5. LoopsAround(prog[1], 1) = {}
    BY <2>3, AroundNone
  <2>6. PICK fr : fr = frames
    OBVIOUS
  <2>7. PICK n \in Nat : n = 0
    OBVIOUS
  <2>8. n + 1 = 1
    BY <2>7
  <2>9. LoopsAround(prog[fr[n + 1][1]], fr[n + 1][2]) = {}
    <3>1. fr[n + 1] = <<1, 1>>
      BY <2>2, <2>6, <2>8
    <3>2. fr[n + 1][1] = 1 /\ fr[n + 1][2] = 1
      BY <3>1
    <3>3. QED
      BY <2>5, <3>2
  <2>10. n + 1 <= Len(fr) /\ IsFrames(fr)
    <3>1. Len(fr) = 1 /\ IsFrames(fr)
      BY <2>2, <2>4, <2>6
    <3>2. QED
      BY <2>8, <3>1
  <2>11. Stack(fr, n + 1) = Stack(fr, n)
    BY <1>2, <2>9, <2>10, NoNest
  <2>12. Stack(frames, Len(frames)) = << >>
    <3>1. Stack(frames, Len(frames)) = Stack(fr, n + 1)
      BY <2>2, <2>6, <2>8
    <3>2. Stack(fr, n) = << >>
      BY <2>7, StackOfNone
    <3>3. QED
      BY <2>11, <3>1, <3>2
  <2>13. QED
    BY <1>1, <1>4, <2>4, <2>12 DEF CoreInv
<1>7. QED
  BY <1>3, <1>5, <1>6

LEMMA CoreStep == CoreInv /\ [Next]_vars => CoreInv'
<1> SUFFICES ASSUME CoreInv, [Next]_vars PROVE CoreInv'
  OBVIOUS
<1>1. CASE EnterLoop
  BY <1>1, EnterInv DEF Next
<1>2. CASE SkipLoop
  <2>1. Next
    BY <1>2 DEF Next
  <2>2. QED
    BY <1>2, <2>1, SkipPasses, PassesInv
<1>3. CASE TurnLoop
  BY <1>3, TurnInv DEF Next
<1>4. CASE LeaveLoop
  BY <1>4, LeaveInv DEF Next
<1>5. CASE Execute
  <2>1. Next
    BY <1>5 DEF Next
  <2>2. QED
    BY <1>5, <2>1, ExecutePasses, PassesInv
<1>6. CASE If
  <2>1. Next
    BY <1>6 DEF Next
  <2>2. PICK q : Passes(q) /\ rt' = Bumped /\ turns' = turns
    BY <1>6, IfPasses
  <2>3. QED
    BY <2>1, <2>2, PassesInv
<1>7. CASE Fi
  <2>1. Next
    BY <1>7 DEF Next
  <2>2. QED
    BY <1>7, <2>1, FiPasses, PassesInv
<1>8. CASE Call
  BY <1>8, CallInv DEF Next
<1>9. CASE Return
  BY <1>9, ReturnInv DEF Next
<1>10. CASE UNCHANGED vars
  BY <1>10, CoreNext DEF CoreInv, vars
<1>11. QED
  BY <1>1, <1>2, <1>3, <1>4, <1>5, <1>6, <1>7, <1>8, <1>9, <1>10 DEF Next

LEMMA CoreIsInvariant == Spec => []CoreInv
BY CoreInit, CoreStep, PTL DEF Spec

\* The shape of the state: positions stand in their functions, the totals are numbers
\* of known ids and kinds, and the stack is no deeper than turns were started.
THEOREM TypeCorrect == Spec => []TypeOK
<1>1. CoreInv => TypeOK
  <2> SUFFICES ASSUME CoreInv PROVE TypeOK
    OBVIOUS
  <2>1. \A i \in DOMAIN frames : frames[i][2] \in 1 .. Len(Fn(frames[i])) + 1
    BY DEF CoreInv, IsFrames, Fn
  <2>2. QED
    BY <2>1 DEF TypeOK, CoreInv, IsRuntime
<1>2. QED
  BY <1>1, CoreIsInvariant, PTL

\* The stack of the runtime is the nest of the loops the program is in.
THEOREM StackFollowsLoops == Spec => []StackIsNest
<1>1. CoreInv => StackIsNest
  <2> SUFFICES ASSUME CoreInv PROVE StackIsNest
    OBVIOUS
  <2>1. DOMAIN frames = 1 .. Len(frames)
    BY DEF CoreInv, IsFrames
  <2>2. QED
    BY <2>1 DEF StackIsNest, CoreInv, Stack, NestIn, NestOf, ActiveIn, Fn
<1>2. QED
  BY <1>1, CoreIsInvariant, PTL

-----------------------------------------------------------------------------
(* Where the program stands in the function with the loops.                *)

\* The stack has each loop around a position once, and no other.
LEMMA OccursOnce ==
  ASSUME NEW code, Structured(code), NEW pos, NEW l \in Loops(code)
  PROVE  Occurrences(NestOf(code, pos), LoopId(code, l)) = IF l \in LoopsAround(code, pos) THEN 1 ELSE 0
<1> DEFINE S == LoopsAround(code, pos)
           s == NestOf(code, pos)
           at == {i \in DOMAIN s : s[i] = LoopId(code, l)}
<1>1. PICK N \in Nat : S \in SUBSET (0 .. N - 1)
  BY AroundIsFinite
<1>2. S \subseteq Loops(code) /\ Cardinality(S) \in Nat
  BY AroundIsFinite DEF LoopsAround
<1>3. DOMAIN s = 1 .. Cardinality(S) /\ \A i \in 1 .. Cardinality(S) : s[i] = LoopId(code, Ranked(S, i))
  BY DEF NestOf
<1>4. \A i \in 1 .. Cardinality(S) : Ranked(S, i) \in S /\ Cardinality({x \in S : x <= Ranked(S, i)}) = i
  BY <1>1, RankedIsMember
<1>5. \A i \in 1 .. Cardinality(S) : s[i] = LoopId(code, l) <=> Ranked(S, i) = l
  <2> TAKE i \in 1 .. Cardinality(S)
  <2>1. Ranked(S, i) \in Loops(code)
    BY <1>2, <1>4
  <2>2. Ranked(S, i) # l => LoopId(code, Ranked(S, i)) # LoopId(code, l)
    BY <2>1, LoopIdsDiffer
  <2>3. QED
    BY <1>3, <2>2
<1>6. CASE l \notin S
  <2>1. at = {}
    BY <1>3, <1>4, <1>5, <1>6
  <2>2. QED
    BY <1>6, <2>1, FS_EmptySet DEF Occurrences
<1>7. CASE l \in S
  <2> DEFINE below == {x \in S : x <= l}
  <2>1. below \subseteq S /\ IsFiniteSet(S) /\ l \in below
    BY <1>1, <1>7, AroundIsFinite
  <2>2. PICK r : r = Cardinality(below)
    OBVIOUS
  <2>3. r \in Nat /\ r # 0 /\ r <= Cardinality(S)
    <3> HIDE DEF below, S
    <3>1. IsFiniteSet(below) /\ below # {}
      BY <2>1, FS_Subset
    <3>2. QED
      BY <2>1, <2>2, <3>1, FS_Subset, FS_CardinalityType, FS_EmptySet
  <2>4. r \in 1 .. Cardinality(S)
    BY <1>2, <2>3
  <2>5. Ranked(S, r) = l
    BY <1>1, <1>7, <2>2, RankedUnique
  <2>6. \A i \in 1 .. Cardinality(S) : Ranked(S, i) = l => i = r
    BY <1>4, <2>2
  <2>7. at = {r}
    BY <1>3, <1>5, <2>4, <2>5, <2>6
  <2>8. QED
    BY <1>7, <2>7, FS_Singleton DEF Occurrences
<1>8. QED
  BY <1>6, <1>7

\* The program stands at pos in f, if it stands in loops at all; what it has called from
\* there are helpers.
PlaceIn(fr, stack, f, helpers, pos) ==
  /\ pos \in Nat
  /\ stack = NestOf(prog[f], pos)
  /\ LoopsAround(prog[f], pos) # {} => \E i \in DOMAIN fr : fr[i] = <<f, pos>>
  /\ \A i \in DOMAIN fr : ActiveIn(fr[i]) # {} =>
       /\ fr[i] = <<f, pos>>
       /\ \A j \in DOMAIN fr : i < j => fr[j][1] \in helpers
Place(f, helpers, pos) == PlaceIn(frames, rt.stack, f, helpers, pos)

\* The last frame stands in the loops.
Inside(f, pos) ==
  /\ fn = f /\ LoopsAround(Code, pc) = LoopsAround(prog[f], pos)
  /\ LoopsAround(Code, pc) # {} => pos = pc
  /\ \A i \in DOMAIN frames : i # Len(frames) => ActiveIn(frames[i]) = {}

LEMMA ActiveLast ==
  ASSUME CoreInv, Running
  PROVE  /\ ActiveIn(frames[Len(frames)]) = LoopsAround(Code, pc) /\ Len(frames) \in DOMAIN frames
         /\ frames[Len(frames)][1] = fn /\ frames[Len(frames)][2] = pc /\ Code = prog[fn]
         /\ \A i \in DOMAIN frames : i # Len(frames) => i < Len(frames)
<1>1. /\ frames[Len(frames)] = Last(frames) /\ DOMAIN frames = 1 .. Len(frames)
      /\ Len(frames) \in Nat /\ Len(frames) >= 1
  BY ProgIsGood, Stands DEF CoreInv
<1>2. QED
  BY <1>1 DEF ActiveIn, Fn, fn, pc, Code

LEMMA ActiveIsInside ==
  ASSUME CoreInv, Running, NEW f, NEW helpers, LoopsInOne(prog, f, helpers),
         NEW pos, Place(f, helpers, pos), LoopsAround(Code, pc) # {}
  PROVE  Inside(f, pos) /\ pos = pc
<1>1. ActiveIn(frames[Len(frames)]) # {} /\ Len(frames) \in DOMAIN frames
      /\ frames[Len(frames)][1] = fn /\ frames[Len(frames)][2] = pc /\ Code = prog[fn]
  BY ActiveLast
<1>2. frames[Len(frames)] = <<f, pos>>
  BY <1>1 DEF Place, PlaceIn
<1>3. fn = f /\ pc = pos
  BY <1>1, <1>2
<1>4. ASSUME NEW i \in DOMAIN frames, i # Len(frames) PROVE ActiveIn(frames[i]) = {}
  <2>1. i < Len(frames)
    BY <1>4, ActiveLast
  <2>2. fn \notin helpers
    BY <1>3 DEF LoopsInOne
  <2>3. QED
    BY <1>1, <2>1, <2>2 DEF Place, PlaceIn
<1>5. QED
  BY <1>1, <1>3, <1>4 DEF Inside

\* The function with the loops is never called from them.
LEMMA LoopIsInside ==
  ASSUME CoreInv, Running, NEW f, NEW helpers, LoopsInOne(prog, f, helpers),
         NEW pos, Place(f, helpers, pos), Loops(Code) # {}
  PROVE  Inside(f, pos)
<1>1. ActiveIn(frames[Len(frames)]) = LoopsAround(Code, pc) /\ Len(frames) \in DOMAIN frames
      /\ frames[Len(frames)][1] = fn /\ frames[Len(frames)][2] = pc /\ Code = prog[fn]
  BY ActiveLast
<1>2. fn \in DOMAIN prog
  BY ProgIsGood, Stands DEF CoreInv
<1>3. fn = f /\ f \notin helpers
  BY <1>1, <1>2 DEF LoopsInOne
<1>4. ASSUME NEW i \in DOMAIN frames, i # Len(frames) PROVE ActiveIn(frames[i]) = {}
  <2>1. i < Len(frames)
    BY <1>4, ActiveLast
  <2>2. QED
    BY <1>1, <1>3, <2>1 DEF Place, PlaceIn
<1>5. CASE LoopsAround(Code, pc) # {}
  BY <1>5, ActiveIsInside
<1>6. CASE LoopsAround(Code, pc) = {}
  <2>1. \A i \in DOMAIN frames : ActiveIn(frames[i]) = {}
    BY <1>1, <1>4, <1>6
  <2>2. LoopsAround(prog[f], pos) = {}
    <3> SUFFICES ASSUME LoopsAround(prog[f], pos) # {} PROVE FALSE
      OBVIOUS
    <3>1. PICK i \in DOMAIN frames : frames[i] = <<f, pos>>
      BY DEF Place, PlaceIn
    <3>2. ActiveIn(frames[i]) = LoopsAround(prog[f], pos)
      BY <3>1 DEF ActiveIn, Fn
    <3>3. QED
      BY <2>1, <3>2
  <2>3. QED
    BY <1>3, <1>4, <1>6, <2>2 DEF Inside
<1>7. QED
  BY <1>5, <1>6

LEMMA MoveInside ==
  ASSUME CoreInv, Running, NEW f, NEW helpers, NEW pos, Inside(f, pos),
         NEW q \in Nat, Moved(q), rt'.stack = NestOf(Code, q)
  PROVE  PlaceIn(frames', rt'.stack, f, helpers, q)
<1>1. PICK n, new, old : n \in Nat /\ n = Len(frames) /\ new = frames' /\ old = frames
  BY TextIs
<1>2. /\ Len(new) = n /\ new[n] = <<f, q>> /\ DOMAIN new = 1 .. n /\ n \in DOMAIN new /\ DOMAIN old = 1 .. n
      /\ \A i \in 1 .. n - 1 : new[i] = old[i]
  BY <1>1, TextIs DEF Moved, IsFrames, Inside
<1>3. \A i \in DOMAIN new : i # n => ActiveIn(new[i]) = {}
  <2> TAKE i \in DOMAIN new
  <2> HAVE i # n
  <2>1. i \in 1 .. n - 1
    BY <1>2
  <2>2. new[i] = old[i] /\ i \in DOMAIN old
    BY <1>2, <2>1
  <2>3. QED
    BY <1>1, <2>1, <2>2 DEF Inside
<1>4. \A j \in DOMAIN new : ~(n < j)
  BY <1>2
<1>5. NestOf(Code, q) = NestOf(prog[f], q)
  BY DEF Code, Inside
<1>6. QED
  BY <1>1, <1>2, <1>3, <1>4, <1>5 DEF PlaceIn

LEMMA MoveIdle ==
  ASSUME CoreInv, Running, NEW f, NEW helpers, NEW pos, Place(f, helpers, pos),
         NEW q, Moved(q), rt'.stack = rt.stack, LoopsAround(Code, pc) = {}, LoopsAround(Code, q) = {}
  PROVE  PlaceIn(frames', rt'.stack, f, helpers, pos)
<1>1. PICK n, new, old : n \in Nat /\ n = Len(frames) /\ new = frames' /\ old = frames
  BY TextIs
<1>2. /\ Len(new) = n /\ new[n] = <<fn, q>> /\ DOMAIN new = 1 .. n /\ n \in DOMAIN new /\ DOMAIN old = 1 .. n
      /\ \A i \in 1 .. n - 1 : new[i] = old[i]
  BY <1>1, TextIs DEF Moved, IsFrames
<1>3. \A i \in 1 .. n : i = n \/ i \in 1 .. n - 1
  BY <1>1
<1>4. ActiveIn(old[n]) = {} /\ ActiveIn(new[n]) = {} /\ old[n][1] = new[n][1]
  <2>1. ActiveIn(old[n]) = LoopsAround(Code, pc) /\ old[n][1] = fn /\ Code = prog[fn]
    BY <1>1, ActiveLast
  <2>2. ActiveIn(new[n]) = LoopsAround(Code, q) /\ new[n][1] = fn
    BY <1>2 DEF ActiveIn, Fn, Code
  <2>3. QED
    BY <2>1, <2>2
<1>5. \A i \in 1 .. n : new[i][1] = old[i][1] /\ (i # n => new[i] = old[i])
  BY <1>2, <1>3, <1>4
<1>6. ASSUME LoopsAround(prog[f], pos) # {} PROVE \E i \in DOMAIN new : new[i] = <<f, pos>>
  <2>1. PICK i \in DOMAIN old : old[i] = <<f, pos>>
    BY <1>1, <1>6 DEF Place, PlaceIn
  <2>2. ActiveIn(old[i]) = LoopsAround(prog[f], pos)
    BY <2>1 DEF ActiveIn, Fn
  <2>3. i # n
    BY <1>4, <1>6, <2>2
  <2>4. QED
    BY <1>2, <1>5, <2>1, <2>3
<1>7. ASSUME NEW i \in DOMAIN new, ActiveIn(new[i]) # {}
      PROVE  new[i] = <<f, pos>> /\ \A j \in DOMAIN new : i < j => new[j][1] \in helpers
  <2>1. i # n /\ new[i] = old[i] /\ i \in DOMAIN old
    BY <1>2, <1>4, <1>5, <1>7
  <2>2. old[i] = <<f, pos>> /\ \A j \in DOMAIN old : i < j => old[j][1] \in helpers
    BY <1>1, <1>7, <2>1 DEF Place, PlaceIn
  <2>3. QED
    BY <1>2, <1>5, <2>1, <2>2
<1>8. pos \in Nat /\ rt'.stack = NestOf(prog[f], pos)
  BY DEF Place, PlaceIn
<1>9. QED
  BY <1>1, <1>6, <1>7, <1>8 DEF PlaceIn

\* A step over an operation or a region.
LEMMA PassPlace ==
  ASSUME CoreInv, NEW f, NEW helpers, LoopsInOne(prog, f, helpers),
         NEW pos, Place(f, helpers, pos), NEW q \in Nat, Passes(q), rt'.stack = rt.stack
  PROVE  PlaceIn(frames', rt'.stack, f, helpers, IF LoopsAround(Code, pc) = {} THEN pos ELSE q)
<1>1. Running /\ Moved(q) /\ LoopsAround(Code, q) = LoopsAround(Code, pc)
  BY DEF Passes
<1>2. CASE LoopsAround(Code, pc) = {}
  BY <1>1, <1>2, MoveIdle
<1>3. CASE LoopsAround(Code, pc) # {}
  <2>1. Inside(f, pos) /\ pos = pc
    BY <1>1, <1>3, ActiveIsInside
  <2>2. rt.stack = NestOf(Code, pc)
    BY <2>1 DEF Place, PlaceIn, Inside, Code
  <2>3. NestOf(Code, q) = NestOf(Code, pc)
    BY <1>1 DEF NestOf
  <2>4. PlaceIn(frames', rt'.stack, f, helpers, q)
    BY <1>1, <2>1, <2>2, <2>3, MoveInside
  <2>5. QED
    BY <1>3, <2>4
<1>4. QED
  BY <1>2, <1>3

LEMMA CallPlace ==
  ASSUME CoreInv, NEW f, NEW helpers, LoopsInOne(prog, f, helpers),
         NEW pos, Place(f, helpers, pos), Call
  PROVE  /\ Running /\ pc \in DOMAIN Code /\ Code[pc].op = "call"
         /\ PlaceIn(frames', rt'.stack, f, helpers, IF LoopsAround(Code, pc) = {} THEN pos ELSE pc + 1)
<1>1. TextsGood /\ IsFrames(frames)
  BY ProgIsGood DEF CoreInv
<1>2. /\ Running /\ pc \in DOMAIN Code /\ Code[pc].op = "call" /\ Code[pc].to \in DOMAIN prog
      /\ Called(Code[pc].to) /\ fn \in DOMAIN prog /\ pc \in Nat
  BY <1>1, CallMoves, Stands
<1>3. PICK g \in DOMAIN prog : g = Code[pc].to
  BY <1>2
<1>4. PICK n, new, old : n \in Nat /\ n = Len(frames) /\ new = frames' /\ old = frames
  BY <1>2, TextIs
<1>5. /\ DOMAIN new = 1 .. n + 1 /\ DOMAIN old = 1 .. n /\ n \in DOMAIN old
      /\ new[n] = <<fn, pc + 1>> /\ new[n + 1] = <<g, 1>>
      /\ \A i \in 1 .. n - 1 : new[i] = old[i]
  BY <1>1, <1>2, <1>3, <1>4, TextIs DEF Called, IsFrames
<1>6. \A i \in 1 .. n + 1 : i = n + 1 \/ i = n \/ i \in 1 .. n - 1
  BY <1>4
<1>7. \A i \in 1 .. n - 1 : i # n /\ i \in DOMAIN old /\ i \in DOMAIN new /\ i < n
  BY <1>4, <1>5
<1>8. ActiveIn(new[n + 1]) = {}
  <2>1. Structured(prog[g])
    BY <1>1 DEF TextsGood, GoodText, Regions
  <2>2. QED
    BY <1>5, <2>1, AroundNone DEF ActiveIn, Fn
<1>9. LoopsAround(Code, pc + 1) = LoopsAround(Code, pc)
  BY <1>2, TextIs, AroundNext
<1>10. ActiveIn(new[n]) = LoopsAround(Code, pc)
  BY <1>5, <1>9 DEF ActiveIn, Fn, Code
<1>11. ActiveIn(old[n]) = LoopsAround(Code, pc) /\ old[n][1] = fn /\ old[n][2] = pc
  BY <1>2, <1>4, ActiveLast
<1>12. fn \in helpers \/ LoopsAround(Code, pc) # {} => g \in helpers
  BY <1>2, <1>3 DEF LoopsInOne, Code
<1>13. rt' = rt
  BY DEF Call
<1>14. CASE LoopsAround(Code, pc) # {}
  <2>1. Inside(f, pos) /\ pos = pc
    BY <1>2, <1>14, ActiveIsInside
  <2>2. \A i \in 1 .. n - 1 : ActiveIn(new[i]) = {}
    BY <1>4, <1>5, <1>7, <2>1 DEF Inside
  <2>3. new[n] = <<f, pc + 1>> /\ n \in DOMAIN new /\ pc + 1 \in Nat
    BY <1>2, <1>5, <2>1 DEF Inside
  <2>4. \A j \in DOMAIN new : n < j => new[j][1] \in helpers
    <3>1. \A j \in DOMAIN new : n < j => j = n + 1
      BY <1>5
    <3>2. new[n + 1][1] \in helpers
      BY <1>5, <1>12, <1>14
    <3>3. QED
      BY <3>1, <3>2
  <2>5. rt'.stack = NestOf(prog[f], pc + 1)
    BY <1>9, <1>13, <2>1 DEF Place, PlaceIn, Inside, Code, NestOf
  <2>6. \A i \in DOMAIN new : ActiveIn(new[i]) # {} => i = n
    BY <1>5, <1>6, <1>8, <2>2
  <2>7. PlaceIn(new, rt'.stack, f, helpers, pc + 1)
    BY <2>3, <2>4, <2>5, <2>6 DEF PlaceIn
  <2>8. QED
    BY <1>2, <1>4, <1>14, <2>7
<1>15. CASE LoopsAround(Code, pc) = {}
  <2>1. \A i \in DOMAIN new : ActiveIn(new[i]) # {} => i \in 1 .. n - 1
    BY <1>5, <1>6, <1>8, <1>10, <1>15
  <2>2. ASSUME NEW i \in 1 .. n - 1, ActiveIn(new[i]) # {}
        PROVE  new[i] = <<f, pos>> /\ \A j \in DOMAIN new : i < j => new[j][1] \in helpers
    <3>1. new[i] = old[i] /\ i \in DOMAIN old /\ i < n
      BY <1>5, <1>7
    <3>2. old[i] = <<f, pos>> /\ \A j \in DOMAIN old : i < j => old[j][1] \in helpers
      BY <1>4, <2>2, <3>1 DEF Place, PlaceIn
    <3>3. fn \in helpers /\ g \in helpers
      BY <1>5, <1>11, <1>12, <3>1, <3>2
    <3>4. ASSUME NEW j \in DOMAIN new, i < j PROVE new[j][1] \in helpers
      BY <1>5, <1>6, <1>7, <3>2, <3>3, <3>4
    <3>5. QED
      BY <3>1, <3>2, <3>4
  <2>3. ASSUME LoopsAround(prog[f], pos) # {} PROVE \E i \in DOMAIN new : new[i] = <<f, pos>>
    <3>1. PICK i \in DOMAIN old : old[i] = <<f, pos>>
      BY <1>4, <2>3 DEF Place, PlaceIn
    <3>2. ActiveIn(old[i]) = LoopsAround(prog[f], pos)
      BY <3>1 DEF ActiveIn, Fn
    <3>3. i # n
      BY <1>11, <1>15, <2>3, <3>2
    <3>4. i \in 1 .. n - 1
      BY <1>5, <3>3
    <3>5. QED
      BY <1>5, <1>7, <3>1, <3>4
  <2>4. pos \in Nat /\ rt'.stack = NestOf(prog[f], pos)
    BY <1>13 DEF Place, PlaceIn
  <2>5. PlaceIn(new, rt'.stack, f, helpers, pos)
    BY <2>1, <2>2, <2>3, <2>4 DEF PlaceIn
  <2>6. QED
    BY <1>2, <1>4, <1>15, <2>5
<1>16. QED
  BY <1>14, <1>15

LEMMA ReturnPlace ==
  ASSUME CoreInv, NEW f, NEW helpers, LoopsInOne(prog, f, helpers),
         NEW pos, Place(f, helpers, pos), Return
  PROVE  PlaceIn(frames', rt'.stack, f, helpers, pos)
<1>1. TextsGood /\ IsFrames(frames)
  BY ProgIsGood DEF CoreInv
<1>2. /\ Running /\ pc = Len(Code) + 1 /\ IsFrames(frames') /\ Len(frames') = Len(frames) - 1
      /\ \A i \in 1 .. Len(frames) - 1 : frames'[i] = frames[i]
  BY <1>1, ReturnMoves
<1>3. PICK n, new, old : n \in Nat /\ n = Len(frames) /\ new = frames' /\ old = frames
  BY <1>2, TextIs
<1>4. DOMAIN new = 1 .. n - 1 /\ DOMAIN old = 1 .. n /\ \A i \in 1 .. n - 1 : new[i] = old[i]
  <2>1. IsFrames(new) /\ Len(new) = n - 1 /\ \A i \in 1 .. n - 1 : new[i] = old[i]
    BY <1>2, <1>3
  <2>2. IsFrames(old) /\ Len(old) = n
    BY <1>1, <1>3
  <2>3. DOMAIN new = 1 .. Len(new) /\ DOMAIN old = 1 .. Len(old)
    BY <2>1, <2>2 DEF IsFrames
  <2>4. QED
    BY <2>1, <2>2, <2>3
<1>5. ActiveIn(old[n]) = {}
  BY <1>2, <1>3, ActiveLast, AroundNone, TextIs
<1>6. \A i \in 1 .. n - 1 : i \in DOMAIN old
  BY <1>3, <1>4
<1>7. ASSUME LoopsAround(prog[f], pos) # {} PROVE \E i \in DOMAIN new : new[i] = <<f, pos>>
  <2>1. PICK i \in DOMAIN old : old[i] = <<f, pos>>
    BY <1>3, <1>7 DEF Place, PlaceIn
  <2>2. ActiveIn(old[i]) = LoopsAround(prog[f], pos)
    BY <2>1 DEF ActiveIn, Fn
  <2>3. i # n
    BY <1>5, <1>7, <2>2
  <2>4. i \in 1 .. n - 1
    BY <1>3, <1>4, <2>3
  <2>5. QED
    BY <1>4, <2>1, <2>4
<1>8. ASSUME NEW i \in DOMAIN new, ActiveIn(new[i]) # {}
      PROVE  new[i] = <<f, pos>> /\ \A j \in DOMAIN new : i < j => new[j][1] \in helpers
  <2>1. new[i] = old[i] /\ i \in DOMAIN old
    BY <1>4, <1>6
  <2>2. old[i] = <<f, pos>> /\ \A j \in DOMAIN old : i < j => old[j][1] \in helpers
    BY <1>3, <1>8, <2>1 DEF Place, PlaceIn
  <2>3. QED
    BY <1>4, <1>6, <2>1, <2>2
<1>9. pos \in Nat /\ rt'.stack = NestOf(prog[f], pos)
  BY DEF Place, PlaceIn, Return
<1>10. QED
  BY <1>3, <1>7, <1>8, <1>9 DEF PlaceIn

-----------------------------------------------------------------------------
(* The balance of the totals and the work.                                 *)

\* What the totals still lack of what was executed: it is counted when the turns end.
Owed(f, pos, l, k) ==
  IF l \in LoopsAround(prog[f], pos) THEN Cardinality(Done(prog[f], pos, l, k)) ELSE 0
TotalIn(r, f, l) == Get(r.counters, LoopId(prog[f], l), NoCounts)
Balance(r, w, f, pos, l, k) == w[<<f, l>>][k] - (TotalIn(r, f, l)[k] + Owed(f, pos, l, k))

\* No total is ahead of what was executed; none is behind if all is in the loops' own bodies.
Balanced(r, w, f, helpers, pos) ==
  \A l \in Loops(prog[f]), k \in LoopKinds :
    /\ Balance(r, w, f, pos, l, k) >= 0
    /\ AllDirect(prog, helpers) => Balance(r, w, f, pos, l, k) = 0

WorkLoops == UNION {{g} \X Loops(prog[g]) : g \in DOMAIN prog}
IsWork(w) == w \in [WorkLoops -> [LoopKinds -> Nat]]

LEMMA WorkLoopsAre ==
  ASSUME NEW g \in DOMAIN prog, NEW l \in Loops(prog[g])
  PROVE  <<g, l>> \in WorkLoops
BY DEF WorkLoops

LEMMA OneWorkLoop ==
  ASSUME NEW f, NEW helpers, LoopsInOne(prog, f, helpers), NEW x \in WorkLoops
  PROVE  \E l \in Loops(prog[f]) : x = <<f, l>>
<1>1. PICK g, l : g \in DOMAIN prog /\ l \in Loops(prog[g]) /\ x = <<g, l>>
  <2>1. PICK g \in DOMAIN prog : x \in {g} \X Loops(prog[g])
    BY DEF WorkLoops
  <2>2. PICK h, l : h \in {g} /\ l \in Loops(prog[g]) /\ x = <<h, l>>
    BY <2>1
  <2>3. QED
    BY <2>2
<1>2. g = f
  BY <1>1 DEF LoopsInOne
<1>3. QED
  BY <1>1, <1>2

\* The parts of a balance are numbers.
LEMMA BalanceIs ==
  ASSUME TextsGood, NEW r, IsRuntime(r), NEW w, IsWork(w), NEW f \in DOMAIN prog, NEW pos,
         NEW l \in Loops(prog[f]), NEW k \in LoopKinds
  PROVE  /\ w[<<f, l>>] \in [LoopKinds -> Nat] /\ w[<<f, l>>][k] \in Nat /\ TotalIn(r, f, l)[k] \in Nat
         /\ Owed(f, pos, l, k) \in Nat /\ Balance(r, w, f, pos, l, k) \in Int
         /\ Balance(r, w, f, pos, l, k) = w[<<f, l>>][k] - (TotalIn(r, f, l)[k] + Owed(f, pos, l, k))
<1>1. <<f, l>> \in WorkLoops
  BY WorkLoopsAre
<1>2. w[<<f, l>>] \in [LoopKinds -> Nat] /\ w[<<f, l>>][k] \in Nat
  <2> DEFINE R == [LoopKinds -> Nat]
  <2>1. w \in [WorkLoops -> R]
    BY DEF IsWork
  <2> HIDE DEF R
  <2>2. w[<<f, l>>] \in R
    BY <1>1, <2>1
  <2>3. QED
    BY <2>2 DEF R
<1>3. TotalIn(r, f, l)[k] \in Nat
  <2>1. PICK t \in [LoopKinds -> Nat] : t = TotalIn(r, f, l)
    BY CountsAre DEF TotalIn
  <2>2. QED
    BY <2>1
<1>4. Structured(prog[f])
  BY DEF TextsGood, GoodText, Regions
<1>5. Owed(f, pos, l, k) \in Nat
  BY <1>4, DoneIsFinite DEF Owed
<1>6. QED
  BY <1>2, <1>3, <1>5 DEF Balance

\* What is counted is no longer owed.
LEMMA BalanceKept ==
  ASSUME TextsGood, NEW f \in DOMAIN prog, NEW helpers, NEW r, IsRuntime(r), NEW w, IsWork(w), NEW q, IsRuntime(q),
         NEW pos, NEW new, Balanced(r, w, f, helpers, pos),
         \A l \in Loops(prog[f]), k \in LoopKinds :
           TotalIn(q, f, l)[k] + Owed(f, new, l, k) = TotalIn(r, f, l)[k] + Owed(f, pos, l, k)
  PROVE  Balanced(q, w, f, helpers, new)
<1>1. ASSUME NEW l \in Loops(prog[f]), NEW k \in LoopKinds
      PROVE  Balance(q, w, f, new, l, k) = Balance(r, w, f, pos, l, k)
  BY DEF Balance
<1>2. QED
  BY <1>1 DEF Balanced

\* Over a region, or an operation that is not of the kind, nothing is owed in addition.
LEMMA OwedPass ==
  ASSUME CoreInv, NEW q, Passes(q), NEW k \in LoopKinds, Code[pc].op # k, NEW f, fn = f, NEW l
  PROVE  Owed(f, q, l, k) = Owed(f, pc, l, k)
<1>1. Running /\ pc \in DOMAIN Code /\ Code = prog[f]
  BY DEF Passes, Code
<1>2. LoopsAround(prog[f], q) = LoopsAround(prog[f], pc)
  BY <1>1 DEF Passes
<1>3. Structured(Code)
  BY <1>1, TextIs
<1>4. Done(Code, q, l, k) = Done(Code, pc, l, k)
  <2>1. CASE q = pc + 1 /\ Code[pc].op # "for"
    <3>1. Code[pc].op \notin {"for", "end"}
      BY <2>1, OperationsAre DEF Passes
    <3>2. QED
      BY <1>1, <1>3, <2>1, <3>1, DoneOther
  <2>2. CASE q = End(Code, pc) + 1 /\ Region(Code, pc, End(Code, pc))
    BY <1>3, <2>2, DonePast
  <2>3. QED
    BY <2>1, <2>2 DEF Passes
<1>5. QED
  BY <1>1, <1>2, <1>4 DEF Owed

\* The next state is balanced, at q.
CountedNext(f, helpers, q) ==
  PlaceIn(frames', rt'.stack, f, helpers, q) /\ Balanced(rt', work', f, helpers, q)

LEMMA PassCounted ==
  ASSUME CoreInv, IsWork(work), NEW f, NEW helpers, LoopsInOne(prog, f, helpers),
         NEW pos, Place(f, helpers, pos), Balanced(rt, work, f, helpers, pos),
         NEW q \in Nat, Passes(q), Code[pc].op \notin LoopKinds, rt' = Bumped \/ rt' = rt, work' = work
  PROVE  \E new : CountedNext(f, helpers, new)
<1> DEFINE new == IF LoopsAround(Code, pc) = {} THEN pos ELSE q
<1>1. TextsGood /\ IsRuntime(rt) /\ f \in DOMAIN prog
  BY ProgIsGood DEF CoreInv, LoopsInOne
<1>2. Running /\ pc <= Len(Code)
  BY TextIs DEF Passes
<1>3. IsRuntime(rt') /\ rt'.counters = rt.counters /\ rt'.stack = rt.stack
  BY <1>1, <1>2, BumpedKeeps
<1>4. PlaceIn(frames', rt'.stack, f, helpers, new)
  BY <1>3, PassPlace
<1>5. ASSUME NEW l \in Loops(prog[f]), NEW k \in LoopKinds
      PROVE  Owed(f, new, l, k) = Owed(f, pos, l, k)
  <2>1. CASE LoopsAround(Code, pc) = {}
    BY <2>1
  <2>2. CASE LoopsAround(Code, pc) # {}
    <3>1. pos = pc /\ fn = f
      BY <1>2, <2>2, ActiveIsInside DEF Inside
    <3>2. Owed(f, q, l, k) = Owed(f, pc, l, k)
      BY <3>1, OwedPass
    <3>3. QED
      BY <2>2, <3>1, <3>2
  <2>3. QED
    BY <2>1, <2>2
<1> HIDE DEF new
<1>6. \A l \in Loops(prog[f]), k \in LoopKinds :
        TotalIn(rt', f, l)[k] + Owed(f, new, l, k) = TotalIn(rt, f, l)[k] + Owed(f, pos, l, k)
  BY <1>3, <1>5 DEF TotalIn
<1>7. Balanced(rt', work, f, helpers, new)
  BY <1>1, <1>3, <1>6, BalanceKept
<1>8. QED
  BY <1>4, <1>7 DEF CountedNext

LEMMA AppendsAgree ==
  ASSUME NEW s \in Seq(Nat), NEW t \in Seq(Nat), NEW x \in Nat, Append(s, x) = Append(t, x)
  PROVE  s = t
<1>1. PICK u : u = Append(s, x) /\ u = Append(t, x)
  OBVIOUS
<1>2. Len(u) = Len(s) + 1 /\ Len(s) \in Nat /\ \A i \in 1 .. Len(s) : u[i] = s[i]
  <2>1. u = Append(s, x)
    BY <1>1
  <2>2. QED
    BY <2>1
<1>3. Len(u) = Len(t) + 1 /\ Len(t) \in Nat /\ \A i \in 1 .. Len(t) : u[i] = t[i]
  <2>1. u = Append(t, x)
    BY <1>1
  <2>2. QED
    BY <2>1
<1>4. PICK n \in Nat : n = Len(s) /\ n = Len(t)
  BY <1>2, <1>3
<1>5. \A q \in Seq(Nat) : q \in [1 .. Len(q) -> Nat]
  OBVIOUS
<1>6. s \in [1 .. n -> Nat] /\ t \in [1 .. n -> Nat]
  BY <1>4, <1>5
<1>7. \A i \in 1 .. n : s[i] = t[i]
  BY <1>2, <1>3, <1>4
<1>8. QED
  BY <1>6, <1>7

LEMMA CallCounted ==
  ASSUME CoreInv, IsWork(work), NEW f, NEW helpers, LoopsInOne(prog, f, helpers),
         NEW pos, Place(f, helpers, pos), Balanced(rt, work, f, helpers, pos), Call
  PROVE  \E new : CountedNext(f, helpers, new)
<1> DEFINE new == IF LoopsAround(Code, pc) = {} THEN pos ELSE pc + 1
<1>1. TextsGood /\ IsRuntime(rt) /\ f \in DOMAIN prog
  BY ProgIsGood DEF CoreInv, LoopsInOne
<1>2. /\ Running /\ pc \in DOMAIN Code /\ Code[pc].op = "call"
      /\ PlaceIn(frames', rt'.stack, f, helpers, new)
  BY CallPlace
<1>3. ASSUME NEW l \in Loops(prog[f]), NEW k \in LoopKinds
      PROVE  Owed(f, new, l, k) = Owed(f, pos, l, k)
  <2>1. CASE LoopsAround(Code, pc) = {}
    BY <2>1
  <2>2. CASE LoopsAround(Code, pc) # {}
    <3>1. pos = pc /\ fn = f /\ Code = prog[f]
      BY <1>2, <2>2, ActiveIsInside DEF Inside, Code
    <3>2. Structured(Code) /\ LoopsAround(Code, pc + 1) = LoopsAround(Code, pc)
      BY <1>2, TextIs, AroundNext
    <3>3. Done(Code, pc + 1, l, k) = Done(Code, pc, l, k)
      <4>1. Code[pc].op # k
        BY <1>2, KindsAreOperations
      <4>2. QED
        BY <1>2, <3>2, <4>1, DoneOther
    <3>4. QED
      BY <2>2, <3>1, <3>2, <3>3 DEF Owed
  <2>3. QED
    BY <2>1, <2>2
<1> HIDE DEF new
<1>4. rt' = rt /\ work' = work
  BY DEF Call
<1>5. \A l \in Loops(prog[f]), k \in LoopKinds :
        TotalIn(rt, f, l)[k] + Owed(f, new, l, k) = TotalIn(rt, f, l)[k] + Owed(f, pos, l, k)
  BY <1>3
<1>6. Balanced(rt, work, f, helpers, new)
  BY <1>1, <1>5, BalanceKept
<1>7. QED
  BY <1>2, <1>4, <1>6 DEF CountedNext

LEMMA ReturnCounted ==
  ASSUME CoreInv, NEW f, NEW helpers, LoopsInOne(prog, f, helpers),
         NEW pos, Place(f, helpers, pos), Balanced(rt, work, f, helpers, pos), Return
  PROVE  \E new : CountedNext(f, helpers, new)
<1>1. PlaceIn(frames', rt'.stack, f, helpers, pos)
  BY ReturnPlace
<1>2. rt' = rt /\ work' = work
  BY DEF Return
<1>3. QED
  BY <1>1, <1>2 DEF CountedNext

LEMMA EnterCounted ==
  ASSUME CoreInv, IsWork(work), NEW f, NEW helpers, LoopsInOne(prog, f, helpers),
         NEW pos, Place(f, helpers, pos), Balanced(rt, work, f, helpers, pos), EnterLoop
  PROVE  \E new : CountedNext(f, helpers, new)
<1> DEFINE id == LoopId(Code, pc)
<1>1. TextsGood /\ IsRuntime(rt) /\ f \in DOMAIN prog
  BY ProgIsGood DEF CoreInv, LoopsInOne
<1>2. /\ Running /\ pc <= Len(Code) /\ pc \in Loops(Code) /\ Moved(pc + 1)
      /\ rt' = CollectStart(Bumped, id) /\ id \in Nat /\ work' = work
  BY EnterMoves
<1>3. Structured(Code) /\ pc \in Nat /\ pc + 1 \in Nat
  BY <1>2, TextIs
<1>4. Inside(f, pos) /\ Code = prog[f] /\ LoopsAround(Code, pc) = LoopsAround(prog[f], pos)
  BY <1>2, LoopIsInside DEF Inside, Code
<1>5. IsRuntime(Bumped) /\ Bumped.counters = rt.counters /\ Bumped.stack = rt.stack
  BY <1>2, BumpedKeeps
<1>6. PICK r, q : r = Bumped /\ q = rt'
  OBVIOUS
<1>7. /\ IsRuntime(q) /\ q.stack = Append(r.stack, id)
      /\ SameTotals(r, q)
  <2>1. IsRuntime(r) /\ q = CollectStart(r, id)
    BY <1>2, <1>5, <1>6
  <2> HIDE DEF id
  <2>2. QED
    BY <1>2, <2>1, StartKeeps
<1>8. rt'.stack = NestOf(Code, pc + 1)
  <2>1. rt.stack = NestOf(Code, pc)
    BY <1>4 DEF Place, PlaceIn, NestOf
  <2>2. NestOf(Code, pc + 1) = Append(NestOf(Code, pc), id)
    BY <1>2, <1>3, NestGrows
  <2>3. QED
    BY <1>5, <1>6, <1>7, <2>1, <2>2
<1>9. PlaceIn(frames', rt'.stack, f, helpers, pc + 1)
  BY <1>2, <1>3, <1>4, <1>8, MoveInside
<1>10. ASSUME NEW l \in Loops(prog[f]), NEW k \in LoopKinds
       PROVE  /\ TotalIn(q, f, l) = TotalIn(rt, f, l)
              /\ Owed(f, pc + 1, l, k) = Owed(f, pos, l, k)
  <2>1. TotalIn(q, f, l) = TotalIn(rt, f, l)
    BY <1>5, <1>6, <1>7 DEF TotalIn, SameTotals
  <2>2. /\ LoopsAround(Code, pc + 1) = LoopsAround(Code, pc) \cup {pc}
        /\ \A m \in LoopsAround(Code, pc) : m \in Int /\ m < pc
    BY <1>2, <1>3, AroundBody
  <2>3. CASE l \in LoopsAround(Code, pc)
    <3>1. Done(Code, pc + 1, l, k) = Done(Code, pc, l, k) /\ pos = pc
      BY <1>2, <1>3, <1>4, <2>3, DoneEnter DEF Inside
    <3>2. QED
      BY <1>4, <2>1, <2>2, <2>3, <3>1 DEF Owed
  <2>4. CASE l = pc
    <3>1. Done(Code, pc + 1, l, k) = {}
      BY <1>2, <1>3, <2>4, DoneEnter
    <3>2. l \notin LoopsAround(Code, pc)
      BY <1>3, <2>4 DEF LoopsAround
    <3>3. QED
      BY <1>4, <2>1, <2>2, <2>4, <3>1, <3>2, FS_EmptySet DEF Owed
  <2>5. CASE l # pc /\ l \notin LoopsAround(Code, pc)
    BY <1>4, <2>1, <2>2, <2>5 DEF Owed
  <2>6. QED
    BY <2>3, <2>4, <2>5
<1>11. \A l \in Loops(prog[f]), k \in LoopKinds :
         TotalIn(q, f, l)[k] + Owed(f, pc + 1, l, k) = TotalIn(rt, f, l)[k] + Owed(f, pos, l, k)
  BY <1>10
<1>12. Balanced(q, work, f, helpers, pc + 1)
  BY <1>1, <1>7, <1>11, BalanceKept
<1>13. QED
  BY <1>2, <1>6, <1>9, <1>12 DEF CountedNext

\* The stop marker at the end of l counts what was owed.
LEMMA StopCounts ==
  ASSUME CoreInv, NEW f, NEW helpers, LoopsInOne(prog, f, helpers),
         NEW pos, Place(f, helpers, pos), At("end"), NEW l, l = LoopOf(Code, pc)
  PROVE  /\ Running /\ Stops(l) /\ IsRuntime(Stopped) /\ Inside(f, pos) /\ pos = pc /\ Code = prog[f]
         /\ Stopped.stack = NestOf(Code, l) /\ Structured(Code)
         /\ LoopsAround(Code, pc) = LoopsAround(Code, l) \cup {l} /\ l \notin LoopsAround(Code, l)
         /\ \A m \in Loops(Code), k \in LoopKinds :
              TotalIn(Stopped, f, m)[k] =
                TotalIn(rt, f, m)[k] +
                  (IF m \in LoopsAround(Code, pc) THEN countTrackedOpsInLoopBody(Code, l)[k] ELSE 0)
<1>1. Running /\ pc \in DOMAIN Code /\ Stops(l)
  BY EndStops
<1>2. l \in Loops(Code) /\ l \in Nat /\ End(Code, l) = pc /\ LoopId(Code, l) \in Nat /\ Structured(Code)
  BY <1>1, TextIs DEF Stops
<1>3. LoopsAround(Code, pc) = LoopsAround(Code, l) \cup {l} /\ l \notin LoopsAround(Code, l)
  BY <1>2, AroundBody DEF LoopsAround
<1>4. Inside(f, pos) /\ pos = pc /\ Code = prog[f]
  BY <1>1, <1>3, ActiveIsInside DEF Inside, Code
<1>5. rt.stack = NestOf(Code, pc)
  BY <1>4 DEF Place, PlaceIn
<1>6. PICK n \in [LoopKinds -> Nat] : n = countTrackedOpsInLoopBody(Code, l)
  BY <1>1 DEF Stops
<1>7. PICK r, q : r = rt /\ q = Stopped
  OBVIOUS
<1>13. PICK id \in Nat : id = LoopId(Code, l)
  BY <1>2
<1>14. PICK s \in Seq(Nat) : s = Outer(l)
  BY <1>1 DEF Stops
<1>8. IsRuntime(r) /\ r.stack = Append(s, id) /\ q = CollectStop(r, id, n)
  BY <1>1, <1>6, <1>7, <1>13, <1>14 DEF Stops, CoreInv
<1>9. IsRuntime(q) /\ q.stack = s /\ DOMAIN q.counters = DOMAIN r.counters /\ StopAdds(r, n, q)
  BY <1>8, StopKeeps
<1>10. s = NestOf(Code, l)
  <2>1. NestOf(Code, pc) = Append(NestOf(Code, l), id)
    BY <1>2, <1>13, NestGrows
  <2>2. PICK t \in Seq(Nat) : t = NestOf(Code, l)
    BY <1>2, NestIsSeq
  <2>3. Append(s, id) = Append(t, id)
    BY <1>5, <1>7, <1>8, <2>1, <2>2
  <2>4. s = t
    BY <1>8, <2>3, AppendsAgree
  <2>5. QED
    BY <2>2, <2>4
<1>11. ASSUME NEW m \in Loops(Code), NEW k \in LoopKinds
       PROVE  TotalIn(q, f, m)[k] = TotalIn(r, f, m)[k] + (IF m \in LoopsAround(Code, pc) THEN n[k] ELSE 0)
  <2>1. PICK i : i = LoopId(Code, m) /\ Occurrences(r.stack, i) = IF m \in LoopsAround(Code, pc) THEN 1 ELSE 0
    BY <1>2, <1>5, <1>7, OccursOnce
  <2>2. TotalIn(q, f, m) = Get(q.counters, i, NoCounts) /\ TotalIn(r, f, m) = Get(r.counters, i, NoCounts)
    BY <1>4, <2>1 DEF TotalIn
  <2>3. PICK t \in [LoopKinds -> Nat] : t = Get(r.counters, i, NoCounts)
    BY <1>8, CountsAre
  <2>4. t[k] \in Nat /\ n[k] \in Nat
    OBVIOUS
  <2>5. CASE i \in DOMAIN r.counters
    <3>1. Get(q.counters, i, NoCounts)[k] = t[k] + Occurrences(r.stack, i) * n[k]
      BY <1>9, <2>3, <2>5 DEF StopAdds
    <3>2. \A x \in Nat : 1 * x = x /\ 0 * x = 0
      OBVIOUS
    <3>3. CASE m \in LoopsAround(Code, pc)
      BY <2>1, <2>2, <2>3, <2>4, <3>1, <3>2, <3>3
    <3>4. CASE m \notin LoopsAround(Code, pc)
      BY <2>1, <2>2, <2>3, <2>4, <3>1, <3>2, <3>4
    <3>5. QED
      BY <3>3, <3>4
  <2>6. CASE i \notin DOMAIN r.counters
    <3>1. Get(q.counters, i, NoCounts) = NoCounts /\ Get(r.counters, i, NoCounts) = NoCounts
      BY <1>9, <2>6 DEF Get
    <3>2. {j \in DOMAIN r.stack : r.stack[j] = i} = {}
      <4>1. PICK D, st : st \in Seq(D) /\ D = DOMAIN r.counters /\ st = r.stack
        BY <1>8 DEF IsRuntime
      <4>2. \A j \in DOMAIN st : st[j] \in D
        BY <4>1
      <4>3. QED
        BY <2>6, <4>1, <4>2
    <3>3. Occurrences(r.stack, i) = 0
      BY <3>2, FS_EmptySet DEF Occurrences
    <3>4. m \notin LoopsAround(Code, pc)
      BY <2>1, <3>3
    <3>5. QED
      BY <2>2, <2>3, <2>4, <3>1, <3>4
  <2>7. QED
    BY <2>5, <2>6
<1>12. QED
  BY <1>1, <1>2, <1>3, <1>4, <1>6, <1>7, <1>9, <1>10, <1>11

\* What the stop marker counts is what was owed; the next turn, and what follows the
\* loop, start with what was owed in front of it.
LEMMA OwedStop ==
  ASSUME NEW f, Structured(prog[f]), NEW l \in Loops(prog[f]), NEW m \in Loops(prog[f]), NEW k \in LoopKinds
  PROVE  /\ Owed(f, l + 1, m, k) \in Nat
         /\ Owed(f, End(prog[f], l), m, k) = Owed(f, l + 1, m, k) +
              (IF m \in LoopsAround(prog[f], End(prog[f], l))
               THEN countTrackedOpsInLoopBody(prog[f], l)[k] ELSE 0)
         /\ Owed(f, End(prog[f], l) + 1, m, k) = Owed(f, l + 1, m, k)
<1> DEFINE code == prog[f]
           e == End(code, l)
           S == LoopsAround(code, l)
<1>1. /\ LoopsAround(code, l + 1) = S \cup {l} /\ LoopsAround(code, e) = S \cup {l}
      /\ LoopsAround(code, e + 1) = S /\ \A x \in S : x < l
  BY AroundBody
<1>2. Region(code, l, e) /\ l \in Nat /\ l \notin S
  <2>1. Region(code, l, e)
    BY LoopIsRegion
  <2>2. QED
    BY <2>1, RegionDepth DEF LoopsAround
<1>3. Cardinality(Done(code, l + 1, m, k)) \in Nat
  BY DoneIsFinite
<1>4. m \in S \cup {l} =>
        Cardinality(Done(code, e, m, k)) = Cardinality(Done(code, l + 1, m, k)) + countTrackedOpsInLoopBody(code, l)[k]
  BY DoneTurn
<1>5. m \in S => Done(code, l + 1, m, k) = Done(code, l, m, k)
  BY DoneEnter
<1>6. Done(code, l + 1, l, k) = {}
  BY DoneEnter
<1>7. Done(code, e + 1, m, k) = Done(code, l, m, k)
  BY <1>2, DonePast
<1>8. Owed(f, l + 1, m, k) = IF m \in S \cup {l} THEN Cardinality(Done(code, l + 1, m, k)) ELSE 0
  BY <1>1 DEF Owed
<1>9. Owed(f, e, m, k) = IF m \in S \cup {l} THEN Cardinality(Done(code, e, m, k)) ELSE 0
  BY <1>1 DEF Owed
<1>10. Owed(f, e + 1, m, k) = IF m \in S THEN Cardinality(Done(code, e + 1, m, k)) ELSE 0
  BY <1>1 DEF Owed
<1>11. Owed(f, e + 1, m, k) = Owed(f, l + 1, m, k)
  <2>1. CASE m \in S
    BY <1>5, <1>7, <1>8, <1>10, <2>1
  <2>2. CASE m = l
    BY <1>2, <1>6, <1>8, <1>10, <2>2, FS_EmptySet
  <2>3. CASE m \notin S /\ m # l
    BY <1>8, <1>10, <2>3
  <2>4. QED
    BY <2>1, <2>2, <2>3
<1> HIDE DEF code, e, S
<1>12. Owed(f, l + 1, m, k) \in Nat
  BY <1>3, <1>8
<1>13. Owed(f, e, m, k) = Owed(f, l + 1, m, k) +
         (IF m \in LoopsAround(code, e) THEN countTrackedOpsInLoopBody(code, l)[k] ELSE 0)
  <2>1. CASE m \in S \cup {l}
    BY <1>1, <1>4, <1>8, <1>9, <2>1
  <2>2. CASE m \notin S \cup {l}
    BY <1>1, <1>8, <1>9, <2>2
  <2>3. QED
    BY <2>1, <2>2
<1>14. QED
  BY <1>11, <1>12, <1>13 DEF code, e

\* The totals after the stop marker, where the next turn starts and where the loop is left.
LEMMA StopBalanced ==
  ASSUME CoreInv, IsWork(work), NEW f, NEW helpers, LoopsInOne(prog, f, helpers),
         NEW pos, Place(f, helpers, pos), Balanced(rt, work, f, helpers, pos),
         At("end"), NEW l, l = LoopOf(Code, pc)
  PROVE  Balanced(Stopped, work, f, helpers, l + 1) /\ Balanced(Stopped, work, f, helpers, pc + 1)
<1>1. TextsGood /\ IsRuntime(rt) /\ f \in DOMAIN prog
  BY ProgIsGood DEF CoreInv, LoopsInOne
<1>2. /\ Running /\ Stops(l) /\ IsRuntime(Stopped) /\ pos = pc /\ Code = prog[f] /\ Structured(Code)
      /\ \A m \in Loops(Code), k \in LoopKinds :
           TotalIn(Stopped, f, m)[k] =
             TotalIn(rt, f, m)[k] +
               (IF m \in LoopsAround(Code, pc) THEN countTrackedOpsInLoopBody(Code, l)[k] ELSE 0)
  BY StopCounts
<1>3. l \in Loops(prog[f]) /\ End(prog[f], l) = pc /\ Structured(prog[f])
      /\ countTrackedOpsInLoopBody(prog[f], l) \in [LoopKinds -> Nat]
  BY <1>2 DEF Stops
<1>4. ASSUME NEW m \in Loops(prog[f]), NEW k \in LoopKinds
      PROVE  /\ TotalIn(Stopped, f, m)[k] + Owed(f, l + 1, m, k) = TotalIn(rt, f, m)[k] + Owed(f, pos, m, k)
             /\ TotalIn(Stopped, f, m)[k] + Owed(f, pc + 1, m, k) = TotalIn(rt, f, m)[k] + Owed(f, pos, m, k)
  <2>1. PICK d \in Nat : d = IF m \in LoopsAround(prog[f], pc) THEN countTrackedOpsInLoopBody(prog[f], l)[k] ELSE 0
    BY <1>3
  <2>2. TotalIn(Stopped, f, m)[k] = TotalIn(rt, f, m)[k] + d
    BY <1>2, <2>1
  <2>3. Owed(f, pc, m, k) = Owed(f, l + 1, m, k) + d /\ Owed(f, l + 1, m, k) \in Nat
        /\ Owed(f, pc + 1, m, k) = Owed(f, l + 1, m, k)
    BY <1>3, <2>1, OwedStop
  <2>4. TotalIn(rt, f, m)[k] \in Nat
    <3>1. PICK t \in [LoopKinds -> Nat] : t = TotalIn(rt, f, m)
      BY <1>1, CountsAre DEF TotalIn
    <3>2. QED
      BY <3>1
  <2>5. QED
    BY <1>2, <2>2, <2>3, <2>4
<1>5. Balanced(Stopped, work, f, helpers, l + 1)
  BY <1>1, <1>2, <1>4, BalanceKept
<1>6. Balanced(Stopped, work, f, helpers, pc + 1)
  BY <1>1, <1>2, <1>4, BalanceKept
<1>7. QED
  BY <1>5, <1>6

LEMMA LeaveCounted ==
  ASSUME CoreInv, IsWork(work), NEW f, NEW helpers, LoopsInOne(prog, f, helpers),
         NEW pos, Place(f, helpers, pos), Balanced(rt, work, f, helpers, pos), LeaveLoop
  PROVE  \E new : CountedNext(f, helpers, new)
<1>1. At("end") /\ Goto(pc + 1) /\ rt' = Stopped /\ work' = work
  BY DEF LeaveLoop
<1>2. PICK l : l = LoopOf(Code, pc)
  OBVIOUS
<1>3. /\ Running /\ Stops(l) /\ Inside(f, pos) /\ Structured(Code)
      /\ Stopped.stack = NestOf(Code, l)
  BY <1>1, <1>2, StopCounts
<1>4. Moved(pc + 1) /\ pc + 1 \in Nat
  <2>1. pc \in DOMAIN Code /\ pc + 1 \in 1 .. Len(Code) + 1 /\ pc + 1 \in Nat
    BY <1>1, EndStops, TextIs
  <2>2. QED
    BY <1>1, <1>3, <2>1, TextIs, GotoMoves
<1>5. NestOf(Code, pc + 1) = NestOf(Code, l)
  BY <1>3, NestGrows DEF Stops
<1>6. PlaceIn(frames', rt'.stack, f, helpers, pc + 1)
  BY <1>1, <1>3, <1>4, <1>5, MoveInside
<1>7. Balanced(Stopped, work, f, helpers, pc + 1)
  BY <1>1, <1>2, StopBalanced
<1>8. QED
  BY <1>1, <1>6, <1>7 DEF CountedNext

LEMMA TurnCounted ==
  ASSUME CoreInv, IsWork(work), NEW f, NEW helpers, LoopsInOne(prog, f, helpers),
         NEW pos, Place(f, helpers, pos), Balanced(rt, work, f, helpers, pos), TurnLoop
  PROVE  \E new : CountedNext(f, helpers, new)
<1>1. PICK l : l = LoopOf(Code, pc)
  OBVIOUS
<1>2. At("end") /\ Goto(l + 1) /\ rt' = CollectStart(Stopped, LoopId(Code, l)) /\ work' = work
  BY <1>1 DEF TurnLoop
<1>3. /\ Running /\ Stops(l) /\ Inside(f, pos) /\ Structured(Code) /\ IsRuntime(Stopped) /\ Code = prog[f]
      /\ Stopped.stack = NestOf(Code, l)
  BY <1>1, <1>2, StopCounts
<1>4. l \in Loops(Code) /\ l + 1 \in Nat /\ LoopId(Code, l) \in Nat
  BY <1>3 DEF Stops
<1>5. Moved(l + 1)
  <2>1. l + 1 \in 1 .. Len(Code) + 1
    BY <1>3, <1>4, TextIs DEF Loops
  <2>2. QED
    BY <1>2, <1>3, <2>1, TextIs, GotoMoves
<1>6. PICK r, q : r = Stopped /\ q = rt'
  OBVIOUS
<1>7. PICK id \in Nat : id = LoopId(Code, l)
  BY <1>4
<1>8. IsRuntime(r) /\ q = CollectStart(r, id)
  BY <1>2, <1>3, <1>6, <1>7
<1>9. IsRuntime(q) /\ q.stack = Append(r.stack, id) /\ SameTotals(r, q)
  BY <1>8, StartKeeps
<1>10. rt'.stack = NestOf(Code, l + 1)
  BY <1>3, <1>4, <1>6, <1>7, <1>9, NestGrows
<1>11. PlaceIn(frames', rt'.stack, f, helpers, l + 1)
  BY <1>3, <1>4, <1>5, <1>10, MoveInside
<1>12. Balanced(r, work, f, helpers, l + 1)
  BY <1>1, <1>2, <1>6, StopBalanced
<1>13. Balanced(q, work, f, helpers, l + 1)
  <2>1. TextsGood /\ f \in DOMAIN prog
    BY ProgIsGood DEF CoreInv, LoopsInOne
  <2>2. \A m \in Loops(prog[f]) : TotalIn(q, f, m) = TotalIn(r, f, m)
    BY <1>9 DEF TotalIn, SameTotals
  <2>3. \A m \in Loops(prog[f]), k \in LoopKinds :
          TotalIn(q, f, m)[k] + Owed(f, l + 1, m, k) = TotalIn(r, f, m)[k] + Owed(f, l + 1, m, k)
    BY <2>2
  <2>4. QED
    BY <1>8, <1>9, <1>12, <2>1, <2>3, BalanceKept
<1>14. QED
  BY <1>2, <1>6, <1>11, <1>13 DEF CountedNext

LEMMA ActiveAre ==
  ASSUME CoreInv, NEW f, NEW helpers, NEW pos, Place(f, helpers, pos), NEW l
  PROVE  <<f, l>> \in ActiveLoops <=> l \in LoopsAround(prog[f], pos)
<1>1. ASSUME l \in LoopsAround(prog[f], pos) PROVE <<f, l>> \in ActiveLoops
  <2>1. PICK i \in DOMAIN frames : frames[i] = <<f, pos>>
    BY <1>1 DEF Place, PlaceIn
  <2>2. frames[i][1] = f /\ ActiveIn(frames[i]) = LoopsAround(prog[f], pos)
    BY <2>1 DEF ActiveIn, Fn
  <2>3. <<f, l>> \in {frames[i][1]} \X ActiveIn(frames[i])
    BY <1>1, <2>2
  <2>4. QED
    BY <2>3 DEF ActiveLoops
<1>2. ASSUME <<f, l>> \in ActiveLoops PROVE l \in LoopsAround(prog[f], pos)
  <2>1. PICK i \in DOMAIN frames : <<f, l>> \in {frames[i][1]} \X ActiveIn(frames[i])
    BY <1>2 DEF ActiveLoops
  <2>2. l \in ActiveIn(frames[i])
    BY <2>1
  <2>3. frames[i] = <<f, pos>>
    BY <2>2 DEF Place, PlaceIn
  <2>4. QED
    BY <2>2, <2>3 DEF ActiveIn, Fn
<1>3. QED
  BY <1>1, <1>2

\* What an operation of a loop kind adds to the work.
LEMMA WorkGrows ==
  ASSUME CoreInv, IsWork(work), NEW f \in DOMAIN prog, NEW helpers, NEW pos, Place(f, helpers, pos),
         Execute, Code[pc].op \in LoopKinds, NEW l \in Loops(prog[f]), NEW k \in LoopKinds
  PROVE  work'[<<f, l>>][k] = work[<<f, l>>][k] +
           (IF k = Code[pc].op /\ l \in LoopsAround(prog[f], pos) THEN 1 ELSE 0)
<1>1. PICK op \in LoopKinds : op = Code[pc].op
  OBVIOUS
<1>2. work' = [x \in DOMAIN work |->
                 IF x \in ActiveLoops THEN [work[x] EXCEPT ![op] = @ + 1] ELSE work[x]]
  BY <1>1 DEF Execute
<1>3. <<f, l>> \in DOMAIN work
  <2> DEFINE R == [LoopKinds -> Nat]
  <2>1. work \in [WorkLoops -> R]
    BY DEF IsWork
  <2> HIDE DEF R
  <2>2. QED
    BY <2>1, WorkLoopsAre
<1>4. PICK x, w : x = <<f, l>> /\ w = work[x] /\ w \in [LoopKinds -> Nat]
  BY BalanceIs, ProgIsGood DEF CoreInv
<1>5. work'[x] = IF x \in ActiveLoops THEN [w EXCEPT ![op] = @ + 1] ELSE w
  BY <1>2, <1>3, <1>4
<1>6. [w EXCEPT ![op] = @ + 1][k] = (IF k = op THEN w[k] + 1 ELSE w[k]) /\ w[k] \in Nat
  BY <1>4
<1>7. x \in ActiveLoops <=> l \in LoopsAround(prog[f], pos)
  BY <1>4, ActiveAre
<1>8. CASE k = op /\ l \in LoopsAround(prog[f], pos)
  BY <1>1, <1>4, <1>5, <1>6, <1>7, <1>8
<1>9. CASE ~(k = op /\ l \in LoopsAround(prog[f], pos))
  BY <1>1, <1>4, <1>5, <1>6, <1>7, <1>9
<1>10. QED
  BY <1>8, <1>9

\* What is owed in addition, never more than what was executed.
LEMMA ExecuteOwed ==
  ASSUME CoreInv, NEW f \in DOMAIN prog, NEW helpers, LoopsInOne(prog, f, helpers),
         NEW pos, Place(f, helpers, pos), Execute, Code[pc].op \in LoopKinds,
         NEW l \in Loops(prog[f]), NEW k \in LoopKinds, NEW new,
         new = IF LoopsAround(Code, pc) = {} THEN pos ELSE pc + 1,
         NEW d, d = IF k = Code[pc].op /\ l \in LoopsAround(prog[f], pos) THEN 1 ELSE 0
  PROVE  /\ Owed(f, new, l, k) <= Owed(f, pos, l, k) + d
         /\ AllDirect(prog, helpers) => Owed(f, new, l, k) = Owed(f, pos, l, k) + d
<1>1. TextsGood /\ Structured(prog[f]) /\ d \in Nat
  BY ProgIsGood DEF CoreInv, TextsGood, GoodText, Regions
<1>2. Passes(pc + 1) /\ Running /\ pc <= Len(Code)
  BY ExecutePasses DEF Execute
<1>3. pc \in DOMAIN Code /\ fn \in DOMAIN prog /\ Structured(Code) /\ Code = prog[fn]
  BY <1>1, <1>2, TextIs, Stands DEF Code
<1>4. Owed(f, pos, l, k) \in Nat /\ Owed(f, pc + 1, l, k) \in Nat
  BY <1>1, DoneIsFinite DEF Owed
<1>5. CASE LoopsAround(Code, pc) # {}
  <2>1. Inside(f, pos) /\ pos = pc /\ Code = prog[f] /\ fn = f /\ new = pc + 1
    BY <1>2, <1>5, ActiveIsInside DEF Inside, Code
  <2>2. CASE k # Code[pc].op
    BY <1>2, <1>4, <2>1, <2>2, OwedPass
  <2>3. CASE k = Code[pc].op /\ l \notin LoopsAround(Code, pc)
    <3>1. LoopsAround(Code, pc + 1) = LoopsAround(Code, pc)
      BY <1>2 DEF Passes
    <3>2. QED
      BY <2>1, <2>3, <3>1 DEF Owed
  <2>4. CASE k = Code[pc].op /\ l \in LoopsAround(Code, pc)
    <3>1. l \in LoopsAround(Code, pc + 1)
      BY <1>2, <2>4 DEF Passes
    <3>2. /\ Cardinality(Done(Code, pc + 1, l, k)) <= Cardinality(Done(Code, pc, l, k)) + 1
          /\ (\E m \in Loops(Code) : DirectlyIn(Code, m, pc)) =>
               Cardinality(Done(Code, pc + 1, l, k)) = Cardinality(Done(Code, pc, l, k)) + 1
      BY <1>3, <2>4, DoneExecute
    <3>3. AllDirect(prog, helpers) => \E m \in Loops(Code) : DirectlyIn(Code, m, pc)
      BY <1>3, <1>5 DEF AllDirect
    <3>4. QED
      BY <2>1, <2>4, <3>1, <3>2, <3>3 DEF Owed
  <2>5. QED
    BY <2>2, <2>3, <2>4
<1>6. CASE LoopsAround(Code, pc) = {}
  <2>1. AllDirect(prog, helpers) => d = 0
    <3> SUFFICES ASSUME AllDirect(prog, helpers), LoopsAround(prog[f], pos) # {} PROVE FALSE
      BY DEF Loops
    <3>1. PICK i \in DOMAIN frames : frames[i] = <<f, pos>>
      BY DEF Place, PlaceIn
    <3>2. ActiveIn(frames[i]) # {}
      BY <3>1 DEF ActiveIn, Fn
    <3>3. /\ ActiveIn(frames[Len(frames)]) = {} /\ Len(frames) \in DOMAIN frames
          /\ frames[Len(frames)][1] = fn
          /\ \A j \in DOMAIN frames : j # Len(frames) => j < Len(frames)
      BY <1>2, <1>6, ActiveLast
    <3>4. i < Len(frames)
      BY <3>2, <3>3
    <3>5. fn \in helpers
      BY <3>2, <3>3, <3>4 DEF Place, PlaceIn
    <3>6. QED
      BY <1>3, <3>5 DEF AllDirect
  <2>2. new = pos
    BY <1>6
  <2>3. QED
    BY <1>1, <1>4, <2>1, <2>2
<1>7. QED
  BY <1>5, <1>6

LEMMA ExecuteCounted ==
  ASSUME CoreInv, IsWork(work), NEW f, NEW helpers, LoopsInOne(prog, f, helpers),
         NEW pos, Place(f, helpers, pos), Balanced(rt, work, f, helpers, pos), Execute, IsWork(work')
  PROVE  \E new : CountedNext(f, helpers, new)
<1> DEFINE new == IF LoopsAround(Code, pc) = {} THEN pos ELSE pc + 1
<1>1. TextsGood /\ IsRuntime(rt) /\ f \in DOMAIN prog
  BY ProgIsGood DEF CoreInv, LoopsInOne
<1>2. Passes(pc + 1) /\ Running /\ pc <= Len(Code) /\ rt' = Bumped /\ pc + 1 \in Nat
  <2>1. Passes(pc + 1) /\ Running /\ pc <= Len(Code) /\ rt' = Bumped
    BY ExecutePasses DEF Execute
  <2>2. QED
    BY <2>1, TextIs
<1>3. CASE Code[pc].op \notin LoopKinds
  <2>1. work' = work
    BY <1>3 DEF Execute
  <2>2. QED
    BY <1>2, <1>3, <2>1, PassCounted
<1>4. CASE Code[pc].op \in LoopKinds
  <2>1. IsRuntime(rt') /\ rt'.counters = rt.counters /\ rt'.stack = rt.stack
    BY <1>2, BumpedKeeps
  <2>2. PlaceIn(frames', rt'.stack, f, helpers, new)
    BY <1>2, <2>1, PassPlace
  <2>3. ASSUME NEW l \in Loops(prog[f]), NEW k \in LoopKinds
        PROVE  /\ Balance(rt', work', f, new, l, k) >= 0
               /\ AllDirect(prog, helpers) => Balance(rt', work', f, new, l, k) = 0
    <3>1. PICK d \in Nat : d = IF k = Code[pc].op /\ l \in LoopsAround(prog[f], pos) THEN 1 ELSE 0
      OBVIOUS
    <3>2. work'[<<f, l>>][k] = work[<<f, l>>][k] + d
      BY <1>1, <1>4, <3>1, WorkGrows
    <3>3. PICK n : n = new
      OBVIOUS
    <3>4. /\ Owed(f, n, l, k) <= Owed(f, pos, l, k) + d
          /\ AllDirect(prog, helpers) => Owed(f, n, l, k) = Owed(f, pos, l, k) + d
      BY <1>1, <1>4, <3>1, <3>3, ExecuteOwed
    <3> HIDE DEF new
    <3>5. TotalIn(rt', f, l) = TotalIn(rt, f, l)
      BY <2>1 DEF TotalIn
    <3>6. /\ work[<<f, l>>][k] \in Nat /\ TotalIn(rt, f, l)[k] \in Nat /\ Owed(f, pos, l, k) \in Nat
          /\ Balance(rt, work, f, pos, l, k) = work[<<f, l>>][k] - (TotalIn(rt, f, l)[k] + Owed(f, pos, l, k))
      BY <1>1, BalanceIs
    <3>7. /\ Owed(f, n, l, k) \in Nat
          /\ Balance(rt', work', f, n, l, k) = work'[<<f, l>>][k] - (TotalIn(rt', f, l)[k] + Owed(f, n, l, k))
      BY <1>1, <2>1, BalanceIs
    <3>8. /\ Balance(rt, work, f, pos, l, k) >= 0
          /\ AllDirect(prog, helpers) => Balance(rt, work, f, pos, l, k) = 0
      BY DEF Balanced
    <3>9. Balance(rt', work', f, n, l, k) >= 0
      BY <3>2, <3>4, <3>5, <3>6, <3>7, <3>8
    <3>10. ASSUME AllDirect(prog, helpers) PROVE Balance(rt', work', f, n, l, k) = 0
      BY <3>2, <3>4, <3>5, <3>6, <3>7, <3>8, <3>10
    <3>11. QED
      BY <3>3, <3>9, <3>10
  <2> HIDE DEF new
  <2>4. Balanced(rt', work', f, helpers, new)
    BY <2>3 DEF Balanced
  <2>5. QED
    BY <2>2, <2>4 DEF CountedNext
<1>5. QED
  BY <1>3, <1>4

LEMMA WorkInit == Init => IsWork(work)
<1> SUFFICES ASSUME Init PROVE IsWork(work)
  OBVIOUS
<1> DEFINE R == [LoopKinds -> Nat]
<1>1. work = [l \in WorkLoops |-> NoCounts] /\ NoCounts \in R
  BY NoCountsIs DEF Init, WorkLoops
<1> HIDE DEF R
<1>2. work \in [WorkLoops -> R]
  BY <1>1
<1>3. QED
  BY <1>2 DEF IsWork, R

LEMMA WorkStep ==
  ASSUME IsWork(work), [Next]_vars
  PROVE  IsWork(work')
<1> DEFINE R == [LoopKinds -> Nat]
<1>1. CASE work' = work
  BY <1>1
<1>2. CASE Execute /\ work' # work
  <2>1. PICK op \in LoopKinds :
          work' = [x \in DOMAIN work |->
                     IF x \in ActiveLoops THEN [work[x] EXCEPT ![op] = @ + 1] ELSE work[x]]
    BY <1>2 DEF Execute
  <2>2. work \in [WorkLoops -> R]
    BY DEF IsWork
  <2>3. \A w \in R : [w EXCEPT ![op] = @ + 1] \in R
    OBVIOUS
  <2> HIDE DEF R
  <2>4. DOMAIN work = WorkLoops /\ (\A x \in WorkLoops : work[x] \in R)
    BY <2>2
  <2>5. \A x \in WorkLoops : (IF x \in ActiveLoops THEN [work[x] EXCEPT ![op] = @ + 1] ELSE work[x]) \in R
    BY <2>3, <2>4
  <2>6. work' \in [WorkLoops -> R]
    <3>1. work' = [x \in WorkLoops |->
                     IF x \in ActiveLoops THEN [work[x] EXCEPT ![op] = @ + 1] ELSE work[x]]
      BY <2>1, <2>4
    <3>2. QED
      BY <2>5, <3>1
  <2>7. QED
    BY <2>6 DEF IsWork, R
<1>3. work' = work \/ Execute
  BY DEF Next, vars, EnterLoop, SkipLoop, TurnLoop, LeaveLoop, If, Fi, Call, Return
<1>4. QED
  BY <1>1, <1>2, <1>3

\* The state is balanced, wherever in f the program stands.
Counted(f, helpers) ==
  \E pos : Place(f, helpers, pos) /\ Balanced(rt, work, f, helpers, pos)

LEMMA CountedStep ==
  ASSUME CoreInv, IsWork(work), NEW f, NEW helpers, LoopsInOne(prog, f, helpers),
         Counted(f, helpers), [Next]_vars
  PROVE  Counted(f, helpers)'
<1>1. PICK pos : Place(f, helpers, pos) /\ Balanced(rt, work, f, helpers, pos)
  BY DEF Counted
<1>2. prog' = prog
  BY ProgStep DEF CoreInv
<1>3. ASSUME NEW new, CountedNext(f, helpers, new) PROVE Counted(f, helpers)'
  <2>1. Place(f, helpers, new)'
    BY <1>2, <1>3 DEF CountedNext, Place, PlaceIn, ActiveIn, Fn, NestOf
  <2>2. Balanced(rt, work, f, helpers, new)'
    BY <1>2, <1>3 DEF CountedNext, Balanced, Balance, TotalIn, Owed
  <2>3. QED
    BY <2>1, <2>2 DEF Counted
<1>4. SUFFICES \E new : CountedNext(f, helpers, new)
  BY <1>3
<1>5. IsWork(work')
  BY WorkStep
<1>6. ASSUME Next PROVE \E new : CountedNext(f, helpers, new)
  <2>1. CASE EnterLoop
    BY <1>1, <2>1, EnterCounted
  <2>2. CASE SkipLoop
    <3>1. Passes(End(Code, pc) + 1) /\ Code[pc].op = "for" /\ rt' = Bumped /\ work' = work
      BY <2>2, SkipPasses
    <3>2. Code[pc].op \notin LoopKinds /\ End(Code, pc) + 1 \in Nat
      <4>1. Region(Code, pc, End(Code, pc)) /\ Running
        BY <3>1 DEF Passes
      <4>2. QED
        BY <3>1, <4>1, KindsAreOperations, TextIs, RegionDepth
    <3>3. QED
      BY <1>1, <3>1, <3>2, PassCounted
  <2>3. CASE TurnLoop
    BY <1>1, <2>3, TurnCounted
  <2>4. CASE LeaveLoop
    BY <1>1, <2>4, LeaveCounted
  <2>5. CASE Execute
    BY <1>1, <1>5, <2>5, ExecuteCounted
  <2>6. CASE If
    <3>1. PICK q : Passes(q)
      BY <2>6, IfPasses
    <3>2. Running /\ Code[pc].op = "if" /\ rt' = Bumped /\ work' = work
      BY <2>6, IfPasses
    <3>3. Code[pc].op \notin LoopKinds /\ q \in Nat
      <4>1. q = pc + 1 \/ (q = End(Code, pc) + 1 /\ Region(Code, pc, End(Code, pc)))
        BY <3>1 DEF Passes
      <4>2. Structured(Code) /\ pc \in Nat
        BY <3>2, TextIs
      <4>3. q \in Nat
        <5>1. CASE q = pc + 1
          BY <4>2, <5>1
        <5>2. CASE q = End(Code, pc) + 1 /\ Region(Code, pc, End(Code, pc))
          <6>1. End(Code, pc) \in Nat
            BY <4>2, <5>2, RegionDepth
          <6>2. QED
            BY <5>2, <6>1
        <5>3. QED
          BY <4>1, <5>1, <5>2
      <4>4. QED
        BY <3>2, <4>3, KindsAreOperations
    <3>4. QED
      BY <1>1, <3>1, <3>2, <3>3, PassCounted
  <2>7. CASE Fi
    <3>1. Passes(pc + 1) /\ Code[pc].op = "fi" /\ rt' = rt /\ work' = work
      BY <2>7, FiPasses
    <3>2. Code[pc].op \notin LoopKinds /\ pc + 1 \in Nat
      <4>1. Running
        BY <3>1 DEF Passes
      <4>2. QED
        BY <3>1, <4>1, KindsAreOperations, TextIs
    <3>3. QED
      BY <1>1, <3>1, <3>2, PassCounted
  <2>8. CASE Call
    BY <1>1, <2>8, CallCounted
  <2>9. CASE Return
    BY <1>1, <2>9, ReturnCounted
  <2>10. QED
    BY <1>6, <2>1, <2>2, <2>3, <2>4, <2>5, <2>6, <2>7, <2>8, <2>9 DEF Next
<1>7. CASE UNCHANGED vars
  BY <1>1, <1>7 DEF vars, CountedNext, Place
<1>8. QED
  BY <1>6, <1>7

LEMMA CountedInit ==
  ASSUME Init, NEW f, NEW helpers, LoopsInOne(prog, f, helpers)
  PROVE  Counted(f, helpers)
<1>1. CoreInv /\ TextsGood /\ IsRuntime(rt) /\ 1 \in DOMAIN prog /\ f \in DOMAIN prog
  BY CoreInit, ProgIsGood DEF CoreInv, LoopsInOne
<1>2. Structured(prog[f]) /\ Structured(prog[1])
  BY <1>1 DEF TextsGood, GoodText, Regions
<1>3. LoopsAround(prog[f], 1) = {} /\ LoopsAround(prog[1], 1) = {} /\ NestOf(prog[f], 1) = << >>
  BY <1>2, AroundNone, NestOfNone
<1>4. rt = NoTotals /\ (frames = << >> \/ frames = << <<1, 1>> >>)
  BY DEF Init
<1>5. \A i \in DOMAIN frames : ActiveIn(frames[i]) = {}
  <2>1. \A i \in DOMAIN frames : frames[i] = <<1, 1>>
    BY <1>4
  <2>2. QED
    BY <1>3, <2>1 DEF ActiveIn, Fn
<1>6. Place(f, helpers, 1)
  BY <1>3, <1>4, <1>5, NoTotalsIs DEF Place, PlaceIn
<1>7. ASSUME NEW l \in Loops(prog[f]), NEW k \in LoopKinds PROVE Balance(rt, work, f, 1, l, k) = 0
  <2>1. work[<<f, l>>] = NoCounts
    <3>1. work = [x \in WorkLoops |-> NoCounts]
      BY DEF Init, WorkLoops
    <3>2. QED
      BY <1>1, <3>1, WorkLoopsAre
  <2>2. TotalIn(rt, f, l) = NoCounts
    BY <1>4, NoTotalsIs DEF TotalIn, Get
  <2>3. Owed(f, 1, l, k) = 0
    BY <1>3 DEF Owed
  <2>4. QED
    BY <2>1, <2>2, <2>3, NoCountsIs DEF Balance
<1>8. Balanced(rt, work, f, helpers, 1)
  BY <1>7 DEF Balanced
<1>9. QED
  BY <1>6, <1>8 DEF Counted

\* The passes keep what the totals are told for.
LEMMA MadeTold ==
  ASSUME NEW input \in Inputs, MadeOf(input), NEW f, NEW helpers
  PROVE  /\ LoopsInOne(input.fns, f, helpers) => LoopsInOne(prog, f, helpers)
         /\ AllDirect(input.fns, helpers) => AllDirect(prog, helpers)
<1>1. DOMAIN prog = DOMAIN input.fns /\ \A g \in DOMAIN prog : SameText(prog[g], input.fns[g])
  BY MadeText
<1>2. ASSUME NEW g \in DOMAIN prog
      PROVE  /\ Loops(prog[g]) = Loops(input.fns[g]) /\ DOMAIN prog[g] = DOMAIN input.fns[g]
             /\ \A p \in DOMAIN prog[g] :
                  /\ prog[g][p].op = input.fns[g][p].op /\ prog[g][p].to = input.fns[g][p].to
                  /\ LoopsAround(prog[g], p) = LoopsAround(input.fns[g], p)
                  /\ \A l \in Loops(input.fns[g]) : DirectlyIn(prog[g], l, p) <=> DirectlyIn(input.fns[g], l, p)
  <2>1. SameText(prog[g], input.fns[g])
    BY <1>1
  <2>2. DOMAIN prog[g] = DOMAIN input.fns[g] /\ \A p \in DOMAIN prog[g] : p \in Nat
    BY <2>1 DEF SameText
  <2>3. \A p \in DOMAIN prog[g] : prog[g][p].op = input.fns[g][p].op /\ prog[g][p].to = input.fns[g][p].to
    BY <2>1, <2>2 DEF SameText
  <2>4. QED
    BY <2>1, <2>2, <2>3, SameRegions
<1>3. ASSUME LoopsInOne(input.fns, f, helpers) PROVE LoopsInOne(prog, f, helpers)
  BY <1>1, <1>2, <1>3 DEF LoopsInOne
<1>4. ASSUME AllDirect(input.fns, helpers) PROVE AllDirect(prog, helpers)
  BY <1>1, <1>2, <1>4 DEF AllDirect
<1>5. QED
  BY <1>3, <1>4

-----------------------------------------------------------------------------
(* The totals.                                                             *)

\* The totals are told, as bounds or exactly, and balanced.
BoundInv ==
  /\ CoreInv /\ IsWork(work)
  /\ \E f, helpers : LoopsInOne(prog, f, helpers) /\ Counted(f, helpers)
ExactInv ==
  /\ CoreInv /\ IsWork(work)
  /\ \E f, helpers : LoopsInOne(prog, f, helpers) /\ AllDirect(prog, helpers) /\ Counted(f, helpers)

LEMMA ToldInit ==
  ASSUME Init
  PROVE  /\ (\A input \in Inputs : LoopsTold(input.fns)) => BoundInv
         /\ (\A input \in Inputs : TotalsTold(input.fns)) => ExactInv
<1>1. CoreInv /\ IsWork(work)
  BY CoreInit, WorkInit
<1>2. PICK input \in Inputs : MadeOf(input)
  BY <1>1 DEF CoreInv, ProgInv
<1>3. ASSUME LoopsTold(input.fns) PROVE BoundInv
  <2>1. PICK f, helpers : LoopsInOne(input.fns, f, helpers)
    BY <1>3 DEF LoopsTold
  <2>2. LoopsInOne(prog, f, helpers)
    BY <1>2, <2>1, MadeTold
  <2>3. QED
    BY <1>1, <2>2, CountedInit DEF BoundInv
<1>4. ASSUME TotalsTold(input.fns) PROVE ExactInv
  <2>1. PICK f, helpers : LoopsInOne(input.fns, f, helpers) /\ AllDirect(input.fns, helpers)
    BY <1>4 DEF TotalsTold
  <2>2. LoopsInOne(prog, f, helpers) /\ AllDirect(prog, helpers)
    BY <1>2, <2>1, MadeTold
  <2>3. QED
    BY <1>1, <2>2, CountedInit DEF ExactInv
<1>5. QED
  BY <1>3, <1>4

LEMMA BoundStep == BoundInv /\ [Next]_vars => BoundInv'
<1> SUFFICES ASSUME BoundInv, [Next]_vars PROVE BoundInv'
  OBVIOUS
<1>1. CoreInv' /\ IsWork(work') /\ prog' = prog
  BY CoreStep, WorkStep, ProgStep DEF BoundInv, CoreInv
<1>2. PICK f, helpers : LoopsInOne(prog, f, helpers) /\ Counted(f, helpers)
  BY DEF BoundInv
<1>3. Counted(f, helpers)'
  BY <1>2, CountedStep DEF BoundInv
<1>4. IsWork(work)'
  BY <1>1 DEF IsWork, WorkLoops
<1>5. LoopsInOne(prog, f, helpers)'
  BY <1>1, <1>2 DEF LoopsInOne
<1>6. QED
  BY <1>1, <1>3, <1>4, <1>5 DEF BoundInv

LEMMA ExactStep == ExactInv /\ [Next]_vars => ExactInv'
<1> SUFFICES ASSUME ExactInv, [Next]_vars PROVE ExactInv'
  OBVIOUS
<1>1. CoreInv' /\ IsWork(work') /\ prog' = prog
  BY CoreStep, WorkStep, ProgStep DEF ExactInv, CoreInv
<1>2. PICK f, helpers : LoopsInOne(prog, f, helpers) /\ AllDirect(prog, helpers) /\ Counted(f, helpers)
  BY DEF ExactInv
<1>3. Counted(f, helpers)'
  BY <1>2, CountedStep DEF ExactInv
<1>4. IsWork(work)'
  BY <1>1 DEF IsWork, WorkLoops
<1>5. LoopsInOne(prog, f, helpers)' /\ AllDirect(prog, helpers)'
  BY <1>1, <1>2 DEF LoopsInOne, AllDirect
<1>6. QED
  BY <1>1, <1>3, <1>4, <1>5 DEF ExactInv

\* What the total of a loop is, and what it is to be.
LEMMA TotalAndWork ==
  ASSUME CoreInv, IsWork(work), NEW f, NEW helpers, LoopsInOne(prog, f, helpers),
         NEW pos, Balanced(rt, work, f, helpers, pos), NEW x \in DOMAIN work
  PROVE  \E l \in Loops(prog[f]) :
           /\ x = <<f, l>> /\ Total(x) \in [LoopKinds -> Nat] /\ work[x] \in [LoopKinds -> Nat]
           /\ \A k \in LoopKinds : Total(x)[k] <= work[x][k]
           /\ AllDirect(prog, helpers) /\ l \notin LoopsAround(prog[f], pos) => Total(x) = work[x]
<1>1. TextsGood /\ IsRuntime(rt) /\ f \in DOMAIN prog
  BY ProgIsGood DEF CoreInv, LoopsInOne
<1>2. DOMAIN work = WorkLoops
  <2> DEFINE R == [LoopKinds -> Nat]
  <2>1. work \in [WorkLoops -> R]
    BY DEF IsWork
  <2> HIDE DEF R
  <2>2. QED
    BY <2>1
<1>3. PICK l \in Loops(prog[f]) : x = <<f, l>>
  BY <1>2, OneWorkLoop
<1>4. PICK t \in [LoopKinds -> Nat] : t = TotalIn(rt, f, l)
  BY <1>1, CountsAre DEF TotalIn
<1>5. Total(x) = t
  BY <1>3, <1>4 DEF Total, TotalIn
<1>6. PICK w : w = work[x]
  OBVIOUS
<1>7. w \in [LoopKinds -> Nat]
  <2>1. \E k : k \in LoopKinds
    BY DEF LoopKinds
  <2>2. QED
    BY <1>1, <1>3, <1>6, <2>1, BalanceIs
<1>8. ASSUME NEW k \in LoopKinds
      PROVE  /\ t[k] <= w[k]
             /\ AllDirect(prog, helpers) /\ l \notin LoopsAround(prog[f], pos) => t[k] = w[k]
  <2>1. PICK o, b : o = Owed(f, pos, l, k) /\ b = Balance(rt, work, f, pos, l, k)
    OBVIOUS
  <2>2. o \in Nat /\ t[k] \in Nat /\ w[k] \in Nat /\ b = w[k] - (t[k] + o)
    <3>1. /\ work[<<f, l>>][k] \in Nat /\ TotalIn(rt, f, l)[k] \in Nat /\ Owed(f, pos, l, k) \in Nat
          /\ Balance(rt, work, f, pos, l, k) = work[<<f, l>>][k] - (TotalIn(rt, f, l)[k] + Owed(f, pos, l, k))
      BY <1>1, BalanceIs
    <3>2. QED
      BY <1>3, <1>4, <1>6, <1>7, <2>1, <3>1
  <2>3. b >= 0 /\ (AllDirect(prog, helpers) => b = 0)
    BY <2>1 DEF Balanced
  <2>4. l \notin LoopsAround(prog[f], pos) => o = 0
    BY <2>1 DEF Owed
  <2>5. QED
    BY <2>2, <2>3, <2>4
<1>9. ASSUME AllDirect(prog, helpers), l \notin LoopsAround(prog[f], pos) PROVE t = w
  <2>1. \A k \in LoopKinds : t[k] = w[k]
    BY <1>8, <1>9
  <2>2. \A g, h \in [LoopKinds -> Nat] : (\A k \in LoopKinds : g[k] = h[k]) => g = h
    OBVIOUS
  <2>3. QED
    BY <1>4, <1>7, <2>1, <2>2
<1>10. QED
  BY <1>3, <1>4, <1>5, <1>6, <1>7, <1>8, <1>9

\* For programs that have their loops in one function: no loop is charged for more than
\* it executed, at any moment, conditionals and helpers or not.
THEOREM TotalsBounded ==
  ASSUME \A input \in Inputs : LoopsTold(input.fns)
  PROVE  Spec => []NeverOvercounts
<1>1. Init => BoundInv
  BY ToldInit
<1>2. BoundInv => NeverOvercounts
  <2> SUFFICES ASSUME BoundInv, NEW x \in DOMAIN work, NEW k \in LoopKinds
               PROVE  Total(x)[k] <= work[x][k]
    BY DEF NeverOvercounts
  <2>1. PICK f, helpers : LoopsInOne(prog, f, helpers) /\ Counted(f, helpers)
    BY DEF BoundInv
  <2>2. PICK pos : Balanced(rt, work, f, helpers, pos)
    BY <2>1 DEF Counted
  <2>3. QED
    BY <2>1, <2>2, TotalAndWork DEF BoundInv
<1>3. QED
  BY <1>1, <1>2, BoundStep, PTL DEF Spec

\* When no loop is active every total is what its loop executed.
LEMMA ExactTotals ==
  ASSUME ExactInv, ActiveLoops = {}
  PROVE  \A x \in DOMAIN work : Total(x) = work[x]
<1> TAKE x \in DOMAIN work
<1>1. PICK f, helpers : LoopsInOne(prog, f, helpers) /\ AllDirect(prog, helpers) /\ Counted(f, helpers)
  BY DEF ExactInv
<1>2. PICK pos : Place(f, helpers, pos) /\ Balanced(rt, work, f, helpers, pos)
  BY <1>1 DEF Counted
<1>3. PICK l \in Loops(prog[f]) :
        AllDirect(prog, helpers) /\ l \notin LoopsAround(prog[f], pos) => Total(x) = work[x]
  BY <1>1, <1>2, TotalAndWork DEF ExactInv
<1>4. l \notin LoopsAround(prog[f], pos)
  BY <1>2, ActiveAre DEF ExactInv
<1>5. QED
  BY <1>1, <1>3, <1>4

\* For programs that, besides, count all they execute in loops: the totals are exact.
THEOREM TotalsAreExact ==
  ASSUME \A input \in Inputs : TotalsTold(input.fns)
  PROVE  Spec => []TotalsExact
<1>1. Init => ExactInv
  BY ToldInit
<1>2. ExactInv => TotalsExact
  BY ExactTotals DEF TotalsExact
<1>3. QED
  BY <1>1, <1>2, ExactStep, PTL DEF Spec

-----------------------------------------------------------------------------
(* The counters per operation.                                             *)

\* What is executed, and the counters per operation.
RanOps == Operations \cup {"for", "if"}
IsRan(r) == r \in [RanOps -> Nat]

LEMMA RanOpsFinite == IsFiniteSet(RanOps)
<1>1. IsFiniteSet({}) /\ \A S, x : IsFiniteSet(S) => IsFiniteSet(S \cup {x})
  BY FS_EmptySet, FS_AddElement
<1>2. IsFiniteSet({} \cup {"load"} \cup {"store"} \cup {"addf"} \cup {"addi"})
  BY <1>1, Zenon
<1>3. IsFiniteSet({} \cup {"load"} \cup {"store"} \cup {"addf"} \cup {"addi"}
                    \cup {"fptosi"} \cup {"const"} \cup {"apply"} \cup {"for"} \cup {"if"})
  BY <1>1, <1>2, Zenon
<1>4. RanOps = {} \cup {"load"} \cup {"store"} \cup {"addf"} \cup {"addi"}
                 \cup {"fptosi"} \cup {"const"} \cup {"apply"} \cup {"for"} \cup {"if"}
  BY DEF RanOps, Operations, LoopKinds
<1>5. QED
  BY <1>3, <1>4

\* One more execution of op, in the sum over S.
LEMMA SumOneMore ==
  ASSUME NEW R, IsFiniteSet(R), NEW r \in [R -> Nat], NEW q \in [R -> Nat], NEW op \in R,
         q[op] = r[op] + 1, \A x \in R : x # op => q[x] = r[x], NEW S \in SUBSET R
  PROVE  /\ op \in S => SumFunction(Restrict(q, S)) = SumFunction(Restrict(r, S)) + 1
         /\ op \notin S => SumFunction(Restrict(q, S)) = SumFunction(Restrict(r, S))
<1>1. PICK c, d : c = Restrict(r, S) /\ d = Restrict(q, S)
  OBVIOUS
<1>2. /\ Numbers(S, c) /\ Numbers(S, d)
      /\ \A x \in S : c[x] = r[x] /\ d[x] = q[x]
      /\ c = [x \in S |-> r[x]] /\ d = [x \in S |-> q[x]]
  BY <1>1 DEF Restrict, Numbers
<1>3. ASSUME op \in S PROVE SumFunction(d) = SumFunction(c) + 1
  <2>1. Agree(S \ {op}, c, d)
    BY <1>2 DEF Agree
  <2>2. IsFiniteSet(S)
    BY FS_Subset
  <2>3. SumFunction(c) \in Int /\ SumFunction(d) = SumFunction(c) + (d[op] - c[op])
    BY <1>2, <1>3, <2>1, <2>2, SumUpdate
  <2>4. d[op] - c[op] = 1
    <3>1. d[op] = r[op] + 1 /\ c[op] = r[op] /\ r[op] \in Nat
      BY <1>2, <1>3
    <3>2. QED
      BY <3>1
  <2>5. QED
    BY <2>3, <2>4
<1>4. ASSUME op \notin S PROVE d = c
  <2>1. \A x \in S : q[x] = r[x]
    BY <1>4
  <2>2. QED
    BY <1>2, <2>1
<1>5. QED
  BY <1>1, <1>3, <1>4

\* The step executes op, and counts it as what it is counted as.
Executes(op) ==
  /\ op \in RanOps /\ Ran(op)
  /\ IF CountedAs(op) = "none"
     THEN rt'.dynamic = rt.dynamic /\ ((rt'.exits = rt.exits /\ turns' = turns) \/ (rt'.exits = 1 /\ turns' > 0))
     ELSE /\ CountedAs(op) \in Kinds /\ rt'.exits = 1
          /\ rt'.dynamic = Put(rt.dynamic, CountedAs(op), Get(rt.dynamic, CountedAs(op), 0) + 1)
\* The step executes nothing that is counted per operation.
ExecutesNone ==
  /\ ran' = ran /\ rt'.dynamic = rt.dynamic
  /\ (rt'.exits = rt.exits /\ turns' = turns) \/ (rt'.exits = 1 /\ turns' > 0)

LEMMA BumpedExecutes ==
  ASSUME CoreInv, Running, pc <= Len(Code), Code[pc].op \in RanOps, Ran(Code[pc].op), rt' = Bumped,
         turns' = turns
  PROVE  Executes(Code[pc].op)
<1>1. PICK k : k = CountedAs(Code[pc].op)
  OBVIOUS
<1>2. /\ k = "none" => Bumped = rt
      /\ k # "none" => /\ k \in Kinds /\ Bumped.exits = 1
                       /\ Bumped.dynamic = Put(rt.dynamic, k, Get(rt.dynamic, k, 0) + 1)
  BY <1>1, BumpedKeeps
<1>3. CASE k = "none"
  BY <1>1, <1>2, <1>3 DEF Executes
<1>4. CASE k # "none"
  BY <1>1, <1>2, <1>4 DEF Executes
<1>5. QED
  BY <1>3, <1>4

LEMMA StoppedKeeps ==
  ASSUME CoreInv, NEW l, Stops(l)
  PROVE  /\ IsRuntime(Stopped) /\ Stopped.dynamic = rt.dynamic /\ Stopped.exits = 1
         /\ DOMAIN Stopped.counters = DOMAIN rt.counters /\ turns > 0
<1>1. PICK s \in Seq(Nat) : s = Outer(l) /\ rt.stack = Append(s, LoopId(Code, l))
  BY DEF Stops
<1>2. Len(rt.stack) = Len(s) + 1 /\ Len(s) \in Nat
  <2>1. PICK x \in Nat : x = LoopId(Code, l)
    BY DEF Stops
  <2>2. QED
    BY <1>1, <2>1
<1>3. turns > 0
  BY <1>2, InputsAssumption DEF CoreInv
<1>4. PICK n, q : /\ n \in [LoopKinds -> Nat] /\ n = countTrackedOpsInLoopBody(Code, l)
                  /\ q = CollectStop(rt, LoopId(Code, l), n) /\ q = Stopped
  BY DEF Stops
<1>5. PICK id \in Nat : id = LoopId(Code, l)
  BY DEF Stops
<1>6. IsRuntime(q) /\ q.dynamic = rt.dynamic /\ q.exits = 1 /\ DOMAIN q.counters = DOMAIN rt.counters
  <2>1. PICK r : r = rt
    OBVIOUS
  <2>2. IsRuntime(r) /\ r.stack = Append(s, id) /\ q = CollectStop(r, id, n)
    BY <1>1, <1>4, <1>5, <2>1 DEF CoreInv
  <2>3. IsRuntime(q) /\ q.dynamic = r.dynamic /\ q.exits = 1 /\ DOMAIN q.counters = DOMAIN r.counters
    BY <1>4, <2>2, StopKeeps
  <2>4. QED
    BY <2>1, <2>3
<1>7. QED
  BY <1>3, <1>4, <1>6

LEMMA RanStep ==
  ASSUME CoreInv, Next
  PROVE  turns' \in Nat /\ turns' >= turns /\ (ExecutesNone \/ \E op \in RanOps : Executes(op))
<1>1. turns \in Nat
  BY DEF CoreInv
<1>2. CASE EnterLoop
  <2>1. /\ Running /\ pc <= Len(Code) /\ Code[pc].op = "for" /\ turns' = turns + 1
        /\ rt' = CollectStart(Bumped, LoopId(Code, pc)) /\ LoopId(Code, pc) \in Nat /\ Ran("for")
    BY <1>2, EnterMoves DEF EnterLoop
  <2>2. PICK r, q, id : r = Bumped /\ q = rt' /\ id = LoopId(Code, pc)
    OBVIOUS
  <2>3. IsRuntime(r)
    BY <2>1, <2>2, BumpedKeeps
  <2>4. q.dynamic = r.dynamic /\ q.exits = 1
    BY <2>1, <2>2, <2>3, StartKeeps
  <2>5. "for" \in RanOps
    BY DEF RanOps
  <2>6. PICK k : k = CountedAs("for")
    OBVIOUS
  <2>7. /\ k = "none" => r = rt
        /\ k # "none" => /\ k \in Kinds /\ r.dynamic = Put(rt.dynamic, k, Get(rt.dynamic, k, 0) + 1)
    BY <2>1, <2>2, <2>6, BumpedKeeps
  <2>8. turns' > 0
    BY <1>1, <2>1
  <2>9. Executes("for")
    <3>1. CASE k = "none"
      BY <2>1, <2>2, <2>4, <2>5, <2>6, <2>7, <2>8, <3>1 DEF Executes
    <3>2. CASE k # "none"
      BY <2>1, <2>2, <2>4, <2>5, <2>6, <2>7, <3>2 DEF Executes
    <3>3. QED
      BY <3>1, <3>2
  <2>10. QED
    BY <1>1, <2>1, <2>5, <2>9
<1>3. CASE SkipLoop
  <2>1. /\ Running /\ pc <= Len(Code) /\ Code[pc].op = "for" /\ turns' = turns /\ rt' = Bumped /\ Ran("for")
    BY <1>3 DEF SkipLoop, At
  <2>2. "for" \in RanOps
    BY DEF RanOps
  <2>3. Executes(Code[pc].op)
    BY <2>1, <2>2, BumpedExecutes
  <2>4. QED
    BY <1>1, <2>1, <2>2, <2>3
<1>4. CASE TurnLoop
  <2>1. /\ At("end") /\ turns' = turns + 1 /\ ran' = ran
        /\ rt' = CollectStart(Stopped, LoopId(Code, LoopOf(Code, pc)))
    BY <1>4 DEF TurnLoop
  <2>2. PICK l : l = LoopOf(Code, pc) /\ Stops(l)
    BY <2>1, EndStops
  <2>3. IsRuntime(Stopped) /\ Stopped.dynamic = rt.dynamic
    BY <2>2, StoppedKeeps
  <2>4. PICK r, q, id : r = Stopped /\ q = rt' /\ id = LoopId(Code, l) /\ id \in Nat
    <3>1. LoopId(Code, l) \in Nat
      BY <2>2 DEF Stops
    <3>2. QED
      BY <3>1
  <2>5. q.dynamic = r.dynamic /\ q.exits = 1
    BY <2>1, <2>2, <2>3, <2>4, StartKeeps
  <2>6. turns' > 0
    BY <1>1, <2>1
  <2>7. ExecutesNone
    BY <2>1, <2>3, <2>4, <2>5, <2>6 DEF ExecutesNone
  <2>8. QED
    BY <1>1, <2>1, <2>7
<1>5. CASE LeaveLoop
  <2>1. At("end") /\ turns' = turns /\ ran' = ran /\ rt' = Stopped
    BY <1>5 DEF LeaveLoop
  <2>2. Stops(LoopOf(Code, pc))
    BY <2>1, EndStops
  <2>3. Stopped.dynamic = rt.dynamic /\ Stopped.exits = 1 /\ turns > 0
    BY <2>2, StoppedKeeps
  <2>4. ExecutesNone
    BY <2>1, <2>3 DEF ExecutesNone
  <2>5. QED
    BY <1>1, <2>1, <2>4
<1>6. CASE Execute
  <2>1. Running /\ pc <= Len(Code) /\ Code[pc].op \in Operations /\ turns' = turns /\ rt' = Bumped /\ Ran(Code[pc].op)
    BY <1>6 DEF Execute
  <2>2. Code[pc].op \in RanOps
    BY <2>1 DEF RanOps
  <2>3. QED
    BY <1>1, <2>1, <2>2, BumpedExecutes
<1>7. CASE If
  <2>1. /\ Running /\ pc <= Len(Code) /\ Code[pc].op = "if" /\ turns' = turns /\ rt' = Bumped /\ Ran("if")
    BY <1>7 DEF If, At
  <2>2. "if" \in RanOps
    BY DEF RanOps
  <2>3. Executes(Code[pc].op)
    BY <2>1, <2>2, BumpedExecutes
  <2>4. QED
    BY <1>1, <2>1, <2>2, <2>3
<1>8. CASE Fi \/ Call \/ Return
  <2>1. turns' = turns /\ rt' = rt /\ ran' = ran
    BY <1>8 DEF Fi, Call, Return
  <2>2. QED
    BY <1>1, <2>1 DEF ExecutesNone
<1>9. QED
  BY <1>2, <1>3, <1>4, <1>5, <1>6, <1>7, <1>8 DEF Next

\* The counters are the sums of what was executed, and the printer is registered once
\* anything that was executed reached the runtime.
DynamicIs(dynamic, r) ==
  \A k \in Kinds : Get(dynamic, k, 0) = SumFunction(Restrict(r, {op \in RanOps : CountedAs(op) = k}))
Reached(t, r) == t > 0 \/ \E op \in RanOps : r[op] > 0 /\ CountedAs(op) # "none"
RanInv ==
  /\ CoreInv /\ IsRan(ran) /\ DynamicIs(rt.dynamic, ran)
  /\ rt.exits = IF Reached(turns, ran) THEN 1 ELSE 0

LEMMA RanInit == Init => RanInv
<1> SUFFICES ASSUME Init PROVE RanInv
  OBVIOUS
<1>1. CoreInv
  BY CoreInit
<1>2. ran = [op \in RanOps |-> 0] /\ rt = NoTotals /\ turns = 0
  BY DEF Init, RanOps
<1>3. IsRan(ran)
  BY <1>2 DEF IsRan
<1>4. ASSUME NEW k \in Kinds
      PROVE  Get(rt.dynamic, k, 0) = SumFunction(Restrict(ran, {op \in RanOps : CountedAs(op) = k}))
  <2>1. PICK S \in SUBSET RanOps : S = {op \in RanOps : CountedAs(op) = k}
    BY <1>2
  <2>2. IsFiniteSet(S)
    BY RanOpsFinite, FS_Subset
  <2>3. Restrict(ran, S) = [op \in S |-> 0]
    BY <1>2 DEF Restrict
  <2>4. SumFunction(Restrict(ran, S)) = 0
    BY <2>2, <2>3, SumOfZeroes
  <2>5. Get(rt.dynamic, k, 0) = 0
    BY <1>2, NoTotalsIs DEF Get
  <2>6. QED
    BY <2>1, <2>4, <2>5
<1>5. ~Reached(turns, ran) /\ rt.exits = 0
  BY <1>2, NoTotalsIs DEF Reached
<1>6. QED
  BY <1>1, <1>3, <1>4, <1>5 DEF RanInv, DynamicIs

\* One more execution, in what was executed and in the counter.
LEMMA ExecutesCounts ==
  ASSUME RanInv, NEW op \in RanOps, Executes(op), NEW k \in Kinds, NEW S, S = {o \in RanOps : CountedAs(o) = k}
  PROVE  Get(rt'.dynamic, k, 0) = SumFunction(Restrict(ran', S))
<1>1. PICK r, q : r = ran /\ q = ran'
  OBVIOUS
<1>2. r \in [RanOps -> Nat]
  BY <1>1 DEF RanInv, IsRan
<1>3. q = [r EXCEPT ![op] = @ + 1]
  BY <1>1 DEF Executes, Ran
<1>4. q \in [RanOps -> Nat] /\ q[op] = r[op] + 1 /\ \A x \in RanOps : x # op => q[x] = r[x]
  BY <1>2, <1>3
<1>5. S \in SUBSET RanOps
  OBVIOUS
<1>6. /\ op \in S => SumFunction(Restrict(q, S)) = SumFunction(Restrict(r, S)) + 1
      /\ op \notin S => SumFunction(Restrict(q, S)) = SumFunction(Restrict(r, S))
  BY <1>2, <1>4, <1>5, RanOpsFinite, SumOneMore
<1>7. Get(rt.dynamic, k, 0) = SumFunction(Restrict(r, S))
  BY <1>1 DEF RanInv, DynamicIs
<1>8. PICK d, c : d = rt.dynamic /\ d \in [DOMAIN d -> Nat] /\ c = CountedAs(op)
  BY DEF RanInv, CoreInv, IsRuntime
<1>9. Get(d, c, 0) \in Nat
  BY <1>8, GetIs
<1>10. PICK v \in Nat : v = Get(d, c, 0) + 1
  BY <1>9
<1>11. Get(Put(d, c, v), c, 0) = v /\ \A y : y # c => Get(Put(d, c, v), y, 0) = Get(d, y, 0)
  BY <1>8 DEF Put, Get
<1>12. CASE c = "none"
  <2>1. op \notin S
    <3>1. "none" \notin Kinds
      BY DEF Kinds
    <3>2. QED
      BY <1>8, <1>12, <3>1
  <2>2. rt'.dynamic = d
    BY <1>8, <1>12 DEF Executes
  <2>3. QED
    BY <1>1, <1>6, <1>7, <1>8, <2>1, <2>2
<1>13. CASE c # "none"
  <2>1. rt'.dynamic = Put(d, c, v)
    BY <1>8, <1>10, <1>13 DEF Executes
  <2>2. op \in S <=> c = k
    BY <1>8
  <2>3. CASE c = k
    BY <1>1, <1>6, <1>7, <1>8, <1>10, <1>11, <2>1, <2>2, <2>3
  <2>4. CASE c # k
    BY <1>1, <1>6, <1>7, <1>8, <1>11, <2>1, <2>2, <2>4
  <2>5. QED
    BY <2>3, <2>4
<1>14. QED
  BY <1>12, <1>13

LEMMA RanInvStep == RanInv /\ [Next]_vars => RanInv'
<1> SUFFICES ASSUME RanInv, [Next]_vars PROVE RanInv'
  OBVIOUS
<1>1. CoreInv /\ CoreInv' /\ plan' = plan
  BY CoreStep, ProgStep DEF RanInv, CoreInv
<1>2. \A op : CountedAs(op)' = CountedAs(op)
  BY <1>1 DEF CountedAs
<1>3. /\ turns \in Nat /\ ran \in [RanOps -> Nat] /\ rt.exits = (IF Reached(turns, ran) THEN 1 ELSE 0)
      /\ rt.exits \in {0, 1}
  BY DEF RanInv, CoreInv, IsRan, IsRuntime
<1>4. ASSUME IsRan(ran'), DynamicIs(rt'.dynamic, ran'), rt'.exits = IF Reached(turns', ran') THEN 1 ELSE 0
      PROVE  RanInv'
  <2>1. IsRan(ran)' /\ DynamicIs(rt.dynamic, ran)'
    BY <1>2, <1>4 DEF IsRan, DynamicIs
  <2>2. Reached(turns, ran)' <=> Reached(turns', ran')
    BY <1>2 DEF Reached
  <2>3. QED
    BY <1>1, <1>4, <2>1, <2>2 DEF RanInv
<1>5. CASE UNCHANGED vars
  <2>1. rt' = rt /\ ran' = ran /\ turns' = turns
    BY <1>5 DEF vars
  <2>2. QED
    BY <1>4, <2>1 DEF RanInv
<1>6. CASE Next
  <2>1. turns' \in Nat /\ turns' >= turns /\ (ExecutesNone \/ \E op \in RanOps : Executes(op))
    BY <1>1, <1>6, RanStep
  <2>2. CASE ExecutesNone
    <3>1. ran' = ran /\ rt'.dynamic = rt.dynamic
      BY <2>2 DEF ExecutesNone
    <3>2. IsRan(ran') /\ DynamicIs(rt'.dynamic, ran')
      BY <3>1 DEF RanInv
    <3>3. CASE rt'.exits = rt.exits /\ turns' = turns
      BY <1>3, <1>4, <3>1, <3>2, <3>3
    <3>4. CASE rt'.exits = 1 /\ turns' > 0
      BY <1>4, <3>2, <3>4 DEF Reached
    <3>5. QED
      BY <2>2, <3>3, <3>4 DEF ExecutesNone
  <2>3. CASE \E op \in RanOps : Executes(op)
    <3>1. PICK op \in RanOps : Executes(op)
      BY <2>3
    <3>2. DynamicIs(rt'.dynamic, ran')
      BY <3>1, ExecutesCounts DEF DynamicIs
    <3>3. PICK q : q = ran' /\ q = [ran EXCEPT ![op] = @ + 1]
      BY <3>1 DEF Executes, Ran
    <3>4. q \in [RanOps -> Nat] /\ q[op] > 0 /\ \A x \in RanOps : x # op => q[x] = ran[x]
      BY <1>3, <3>3
    <3>5. CASE CountedAs(op) = "none"
      <4>1. (rt'.exits = rt.exits /\ turns' = turns) \/ (rt'.exits = 1 /\ turns' > 0)
        BY <3>1, <3>5 DEF Executes
      <4>2. Reached(turns, q) <=> Reached(turns, ran)
        BY <3>4, <3>5 DEF Reached
      <4>3. turns' > 0 => Reached(turns', q)
        BY DEF Reached
      <4>4. rt'.exits = IF Reached(turns', q) THEN 1 ELSE 0
        BY <1>3, <4>1, <4>2, <4>3
      <4>5. QED
        BY <1>4, <3>2, <3>3, <3>4, <4>4 DEF IsRan
    <3>6. CASE CountedAs(op) # "none"
      <4>1. Reached(turns', q)
        BY <3>4, <3>6 DEF Reached
      <4>2. rt'.exits = 1
        BY <3>1, <3>6 DEF Executes
      <4>3. QED
        BY <1>4, <3>2, <3>3, <3>4, <4>1, <4>2 DEF IsRan
    <3>7. QED
      BY <3>5, <3>6
  <2>4. QED
    BY <2>1, <2>2, <2>3
<1>7. QED
  BY <1>5, <1>6

\* The counters per operation are exact: an execution is counted once, as the kind
\* the first of the passes that tracks its operation chose.
THEOREM CountersAreExact == Spec => []DynamicExact
<1>1. RanInv => DynamicExact
  <2> SUFFICES ASSUME RanInv PROVE DynamicExact
    OBVIOUS
  <2>1. DOMAIN ran = RanOps
    BY DEF RanInv, IsRan
  <2>2. QED
    BY <2>1 DEF RanInv, DynamicIs, DynamicExact
<1>2. QED
  BY <1>1, RanInit, RanInvStep, PTL DEF Spec

-----------------------------------------------------------------------------
(* The report.                                                             *)

\* The totals are those of loops of the program, and what was printed at the exit
\* is what they are.
IsLoopId(i) == \E g \in DOMAIN prog : \E l \in Loops(prog[g]) : i = LoopId(prog[g], l)
IdsAre(counters) == \A i \in DOMAIN counters : IsLoopId(i)
Printed(fr, rep, r) == fr = << >> => rep = [i \in 1 .. r.exits |-> Summaries(r)]
ReportInv == RanInv /\ IdsAre(rt.counters) /\ Printed(frames, report, rt)

LEMMA ReportInit == Init => ReportInv
<1> SUFFICES ASSUME Init PROVE ReportInv
  OBVIOUS
<1>1. rt = NoTotals /\ report = << >>
  BY DEF Init
<1>2. IdsAre(rt.counters)
  BY <1>1, NoTotalsIs DEF IdsAre
<1>3. 1 .. rt.exits = {}
  BY <1>1, NoTotalsIs
<1>4. \A s : [i \in {} |-> s] = << >>
  OBVIOUS
<1>5. Printed(frames, report, rt)
  BY <1>1, <1>3, <1>4 DEF Printed
<1>6. QED
  BY <1>2, <1>5, RanInit DEF ReportInv

\* Which totals a step makes: of the loop that starts its turn.
LEMMA IdsStep ==
  ASSUME CoreInv, IdsAre(rt.counters), Next
  PROVE  IdsAre(rt'.counters)
<1>1. \A l \in Loops(Code) : Running => IsLoopId(LoopId(Code, l))
  <2>1. Running => fn \in DOMAIN prog
    BY Stands, ProgIsGood DEF CoreInv
  <2>2. QED
    BY <2>1 DEF IsLoopId, Code
<1>2. CASE EnterLoop
  <2>1. /\ Running /\ pc <= Len(Code) /\ pc \in Loops(Code)
        /\ rt' = CollectStart(Bumped, LoopId(Code, pc)) /\ LoopId(Code, pc) \in Nat
    BY <1>2, EnterMoves
  <2>2. PICK r, q, id : r = Bumped /\ q = rt' /\ id = LoopId(Code, pc)
    OBVIOUS
  <2>3. IsRuntime(r) /\ r.counters = rt.counters
    BY <2>1, <2>2, BumpedKeeps
  <2>4. DOMAIN q.counters = DOMAIN r.counters \cup {id}
    BY <2>1, <2>2, <2>3, StartKeeps
  <2>5. IsLoopId(id)
    BY <1>1, <2>1, <2>2
  <2>6. QED
    BY <2>2, <2>3, <2>4, <2>5 DEF IdsAre
<1>3. CASE TurnLoop
  <2>1. At("end") /\ rt' = CollectStart(Stopped, LoopId(Code, LoopOf(Code, pc)))
    BY <1>3 DEF TurnLoop
  <2>2. PICK l : l = LoopOf(Code, pc) /\ Stops(l) /\ Running
    BY <2>1, EndStops
  <2>3. IsRuntime(Stopped) /\ DOMAIN Stopped.counters = DOMAIN rt.counters
    BY <2>2, StoppedKeeps
  <2>4. PICK r, q, id : r = Stopped /\ q = rt' /\ id = LoopId(Code, l) /\ id \in Nat
    BY <2>2 DEF Stops
  <2>5. DOMAIN q.counters = DOMAIN r.counters \cup {id}
    BY <2>1, <2>2, <2>3, <2>4, StartKeeps
  <2>6. IsLoopId(id)
    BY <1>1, <2>2, <2>4 DEF Stops
  <2>7. QED
    BY <2>3, <2>4, <2>5, <2>6 DEF IdsAre
<1>4. CASE LeaveLoop
  <2>1. At("end") /\ rt' = Stopped
    BY <1>4 DEF LeaveLoop
  <2>2. Stops(LoopOf(Code, pc))
    BY <2>1, EndStops
  <2>3. DOMAIN Stopped.counters = DOMAIN rt.counters
    BY <2>2, StoppedKeeps
  <2>4. QED
    BY <2>1, <2>3 DEF IdsAre
<1>5. CASE SkipLoop \/ Execute \/ If
  <2>1. Running /\ pc <= Len(Code) /\ rt' = Bumped
    BY <1>5 DEF SkipLoop, Execute, If, At
  <2>2. rt'.counters = rt.counters
    BY <2>1, BumpedKeeps
  <2>3. QED
    BY <2>2
<1>6. CASE Fi \/ Call \/ Return
  BY <1>6 DEF Fi, Call, Return
<1>7. QED
  BY <1>2, <1>3, <1>4, <1>5, <1>6 DEF Next

\* Only the return of the first function ends the program.
LEMMA PrintedStep ==
  ASSUME CoreInv, Next
  PROVE  Printed(frames', report', rt')
<1>1. IsFrames(frames) /\ TextsGood
  BY ProgIsGood DEF CoreInv
<1>2. CASE Return
  <2>1. Len(frames') = Len(frames) - 1 /\ Len(frames) \in Nat
    BY <1>1, <1>2, ReturnMoves DEF IsFrames
  <2>2. frames' = << >> => Len(frames) = 1
    <3>1. Len(<< >>) = 0
      OBVIOUS
    <3>2. QED
      BY <2>1, <3>1
  <2>3. rt' = rt /\ (Len(frames) = 1 => report' = [i \in 1 .. rt.exits |-> Summaries(rt)])
    BY <1>2 DEF Return
  <2>4. QED
    BY <2>2, <2>3 DEF Printed
<1>3. CASE ~Return
  <2>1. frames' = Front(frames) \o << <<fn, pc + 1>>, <<Code[pc].to, 1>> >> \/ \E q : Goto(q)
    BY <1>3 DEF Next, EnterLoop, SkipLoop, TurnLoop, LeaveLoop, Execute, If, Fi, Call
  <2>2. Running
    BY <1>3 DEF Next, EnterLoop, SkipLoop, TurnLoop, LeaveLoop, Execute, If, Fi, Call, At
  <2>3. PICK s \in Seq(Frames) : s = Front(frames)
    BY <1>1, <2>2, FrontIs DEF IsFrames, Running
  <2>4. \A a : s \o <<a>> # << >>
    OBVIOUS
  <2>5. \A a, b : s \o <<a, b>> # << >>
    OBVIOUS
  <2>6. frames' # << >>
    BY <2>1, <2>3, <2>4, <2>5 DEF Goto
  <2>7. QED
    BY <2>6 DEF Printed
<1>4. QED
  BY <1>2, <1>3

LEMMA ReportStep == ReportInv /\ [Next]_vars => ReportInv'
<1> SUFFICES ASSUME ReportInv, [Next]_vars PROVE ReportInv'
  OBVIOUS
<1>1. RanInv' /\ prog' = prog /\ CoreInv
  BY RanInvStep, ProgStep DEF ReportInv, RanInv, CoreInv
<1>2. IdsAre(rt'.counters) /\ Printed(frames', report', rt')
  <2>1. CASE Next
    BY <1>1, <2>1, IdsStep, PrintedStep DEF ReportInv
  <2>2. CASE UNCHANGED vars
    <3>1. rt' = rt /\ frames' = frames /\ report' = report
      BY <2>2 DEF vars
    <3>2. QED
      BY <3>1 DEF ReportInv
  <2>3. QED
    BY <2>1, <2>2
<1>3. IdsAre(rt.counters)'
  BY <1>1, <1>2 DEF IdsAre, IsLoopId
<1>4. Printed(frames, report, rt)'
  BY <1>2 DEF Printed, Summaries
<1>5. QED
  BY <1>1, <1>3, <1>4 DEF ReportInv

\* The totals are of the loops of the one function that has loops.
LEMMA IdsOfOne ==
  ASSUME CoreInv, NEW f, NEW helpers, LoopsInOne(prog, f, helpers), NEW c, IdsAre(c)
  PROVE  /\ \A i \in DOMAIN c : \E l \in Loops(prog[f]) : i = LoopId(prog[f], l)
         /\ \E n \in Nat : DOMAIN c \in SUBSET (0 .. n - 1)
<1>1. f \in DOMAIN prog /\ \A g \in DOMAIN prog : Loops(prog[g]) # {} => g = f
  BY DEF LoopsInOne
<1>2. \A i \in DOMAIN c : \E l \in Loops(prog[f]) : i = LoopId(prog[f], l)
  BY <1>1 DEF IdsAre, IsLoopId
<1>3. Structured(prog[f])
  BY <1>1, ProgIsGood DEF CoreInv, TextsGood, GoodText, Regions
<1>4. PICK m \in Nat : m = Cardinality(Loops(prog[f])) /\ IsFiniteSet(Loops(prog[f]))
  BY <1>3, AroundIsFinite, FS_CardinalityType
<1>5. ASSUME NEW l PROVE LoopId(prog[f], l) \in Nat /\ LoopId(prog[f], l) <= m
  <2>1. {q \in Loops(prog[f]) : End(prog[f], q) < End(prog[f], l)} \subseteq Loops(prog[f])
    OBVIOUS
  <2>2. Cardinality({q \in Loops(prog[f]) : End(prog[f], q) < End(prog[f], l)}) <= m
    BY <1>4, <2>1, FS_Subset
  <2>3. QED
    BY <1>3, <2>2, LoopIdIsNat DEF LoopId
<1>6. m + 1 \in Nat /\ DOMAIN c \in SUBSET (0 .. (m + 1) - 1)
  <2>1. \A i \in DOMAIN c : i \in Nat /\ i <= m
    BY <1>2, <1>5
  <2>2. QED
    BY <2>1
<1>7. QED
  BY <1>2, <1>6

\* A line of the report is the total of a loop, and stands after those of lesser ids.
LEMMA SummaryLines ==
  ASSUME ExactInv, IdsAre(rt.counters), frames = << >>, NEW j \in DOMAIN Summaries(rt).loops
  PROVE  /\ j > 1 => Summaries(rt).loops[j - 1][1] < Summaries(rt).loops[j][1]
         /\ \E x \in DOMAIN work : Summaries(rt).loops[j] = <<LoopId(prog[x[1]], x[2]), work[x]>>
<1>1. PICK f, helpers : LoopsInOne(prog, f, helpers)
  BY DEF ExactInv
<1>2. PICK c, D : c = rt.counters /\ D = DOMAIN c
  OBVIOUS
<1>3. CoreInv /\ IsWork(work) /\ f \in DOMAIN prog
  BY <1>1 DEF ExactInv, LoopsInOne
<1>4. PICK n \in Nat : D \in SUBSET (0 .. n - 1)
  BY <1>1, <1>2, <1>3, IdsOfOne
<1>5. PICK lines : /\ lines = Summaries(rt).loops
                   /\ lines = [i \in 1 .. Cardinality(D) |-> <<Ranked(D, i), c[Ranked(D, i)]>>]
  BY <1>2 DEF Summaries
<1>6. Cardinality(D) \in Nat
  <2>1. 0 \in Int /\ n - 1 \in Int
    OBVIOUS
  <2>2. QED
    BY <1>4, <2>1, FS_Interval, FS_Subset, FS_CardinalityType
<1>7. j \in 1 .. Cardinality(D) /\ lines[j] = <<Ranked(D, j), c[Ranked(D, j)]>>
  BY <1>5
<1>8. ASSUME j > 1 PROVE lines[j - 1][1] < lines[j][1]
  <2>1. PICK k : k = j - 1
    OBVIOUS
  <2>2. k \in 1 .. Cardinality(D) /\ k < j
    BY <1>6, <1>7, <1>8, <2>1
  <2>3. lines[k] = <<Ranked(D, k), c[Ranked(D, k)]>>
    BY <1>5, <2>2
  <2>4. Ranked(D, k) < Ranked(D, j)
    BY <1>4, <1>7, <2>2, RankedAscends
  <2>5. lines[k][1] = Ranked(D, k) /\ lines[j][1] = Ranked(D, j)
    BY <1>7, <2>3
  <2>6. QED
    BY <2>1, <2>4, <2>5
<1>9. PICK id : id = Ranked(D, j) /\ id \in D
  BY <1>4, <1>7, RankedIsMember
<1>10. PICK l \in Loops(prog[f]) : id = LoopId(prog[f], l)
  BY <1>1, <1>2, <1>3, <1>9, IdsOfOne
<1>11. PICK x : x = <<f, l>> /\ x \in DOMAIN work
  <2> DEFINE R == [LoopKinds -> Nat]
  <2>1. work \in [WorkLoops -> R]
    BY <1>3 DEF IsWork
  <2> HIDE DEF R
  <2>2. QED
    BY <1>3, <2>1, WorkLoopsAre
<1>12. ActiveLoops = {}
  <2>1. DOMAIN frames = {}
    OBVIOUS
  <2>2. QED
    BY <2>1 DEF ActiveLoops
<1>13. Total(x) = work[x]
  BY <1>11, <1>12, ExactTotals
<1>14. Total(x) = c[id]
  <2>1. x[1] = f /\ x[2] = l
    BY <1>11
  <2>2. QED
    BY <1>2, <1>9, <1>10, <2>1 DEF Total, Get
<1>15. lines[j] = <<LoopId(prog[x[1]], x[2]), work[x]>>
  BY <1>7, <1>9, <1>10, <1>11, <1>13, <1>14
<1>16. QED
  BY <1>5, <1>8, <1>11, <1>15

\* A program prints its summaries once, if it reached the runtime, and they are the
\* totals of its loops, exact and in the order of their ids.
THEOREM ReportIsExact ==
  ASSUME \A input \in Inputs : TotalsTold(input.fns)
  PROVE  Spec => []ReportExact
<1>1. Init => ExactInv /\ ReportInv
  BY ToldInit, ReportInit
<1>2. ExactInv /\ ReportInv => ReportExact
  <2> SUFFICES ASSUME ExactInv, ReportInv, frames = << >> PROVE ReportExact
    BY DEF ReportExact
  <2>1. report = [i \in 1 .. rt.exits |-> Summaries(rt)] /\ IdsAre(rt.counters)
    BY DEF ReportInv, Printed
  <2>2. rt.exits = (IF Reached(turns, ran) THEN 1 ELSE 0) /\ DOMAIN ran = RanOps
    BY DEF ReportInv, RanInv, IsRan
  <2>3. Len(report) = rt.exits
    <3>1. PICK e \in Nat : e = rt.exits
      BY <2>2
    <3>2. QED
      BY <2>1, <3>1
  <2>4. Len(report) = IF turns > 0 \/ \E op \in DOMAIN ran : ran[op] > 0 /\ CountedAs(op) # "none"
                      THEN 1 ELSE 0
    BY <2>2, <2>3 DEF Reached
  <2>5. ASSUME NEW i \in DOMAIN report, NEW j \in DOMAIN report[i].loops
        PROVE  /\ j > 1 => report[i].loops[j - 1][1] < report[i].loops[j][1]
               /\ \E l \in DOMAIN work : report[i].loops[j] = <<LoopId(prog[l[1]], l[2]), work[l]>>
    <3>1. report[i] = Summaries(rt)
      BY <2>1
    <3>2. j \in DOMAIN Summaries(rt).loops
      BY <3>1
    <3>3. /\ j > 1 => Summaries(rt).loops[j - 1][1] < Summaries(rt).loops[j][1]
          /\ \E x \in DOMAIN work : Summaries(rt).loops[j] = <<LoopId(prog[x[1]], x[2]), work[x]>>
      BY <2>1, <3>2, SummaryLines
    <3>4. QED
      BY <3>1, <3>3
  <2>6. QED
    BY <2>4, <2>5 DEF ReportExact
<1>3. QED
  BY <1>1, <1>2, ExactStep, ReportStep, PTL DEF Spec
=============================================================================
