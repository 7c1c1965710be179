--------------------------- MODULE HwKernel_proofs ---------------------------
(***************************************************************************)
(* What holds of every instrumented kernel beside the hardware modules.    *)
(* The controller stays inside the kernel's text; from there the           *)
(* change-location counters are read as one sum that moves with the clock, *)
(* and the vector module, state by state, as a product's sum so far.  Each *)
(* call is a handshake (Shakes), each step of it displays known lines, and *)
(* the set of loops around the controller is the domain of the induction   *)
(* variables.  Hence the assertions that fire, the final reports, the loop *)
(* counters as a window between a loop's two calls, and what of them the   *)
(* log shows.                                                              *)
(***************************************************************************)
EXTENDS HwKernel, DataLemmas

-----------------------------------------------------------------------------
(* The controller.                                                         *)

\* The controller is at an operation of the kernel, and waits at calls only.
ControlInv ==
  /\ code \in Instrumented
  /\ pc \in DOMAIN code
  /\ waiting \in BOOLEAN
  /\ waiting => Op.op = "call"

LEMMA TextRuns ==
  ASSUME NEW text \in Instrumented
  PROVE  /\ Structured(text) /\ DOMAIN text = 1 .. Len(text) /\ Len(text) \in Nat \ {0}
         /\ \A p \in DOMAIN text :
              /\ text[p].op = "return" <=> p = Len(text)
              /\ text[p].op = "for" => End(text, p) \in DOMAIN text /\ text[End(text, p)].op = "end"
              /\ text[p].op = "end" => LoopOf(text, p) \in Loops(text)
BY InstrumentedAssumption DEF Runnable, Structured, Loops

LEMMA ControlInit == Init => ControlInv
<1> SUFFICES ASSUME Init PROVE ControlInv
  OBVIOUS
<1>1. code \in Instrumented
  BY DEF Init, Instrumented
<1>2. Runnable(code)
  BY <1>1, InstrumentedAssumption
<1>3. 1 \in DOMAIN code
  BY <1>2 DEF Runnable
<1>4. QED
  BY <1>1, <1>3 DEF Init, ControlInv

LEMMA ControlStep ==
  ASSUME ControlInv, [Next]_vars
  PROVE  ControlInv'
<1>1. Runnable(code)
  BY InstrumentedAssumption DEF ControlInv
<1>2. CASE UNCHANGED vars
  BY <1>2 DEF ControlInv, vars, Op
<1>3. CASE Finish
  BY <1>3 DEF Finish, ControlInv, Op
<1>4. ASSUME Clock PROVE code' = code
  BY <1>4 DEF Clock
<1>5. \A p \in DOMAIN code : code[p].op # "return" => p + 1 \in DOMAIN code
  BY <1>1 DEF Runnable
<1>6. CASE Issue /\ Clock
  BY <1>4, <1>6 DEF Issue, ControlInv, Op
<1>7. CASE Await /\ Clock
  BY <1>4, <1>7 DEF Await, ControlInv, Op
<1>8. CASE Resume /\ Clock
  BY <1>4, <1>5, <1>8 DEF Resume, ControlInv, Op
<1>9. CASE Enter /\ Clock
  BY <1>4, <1>5, <1>9 DEF Enter, ControlInv, Op
<1>10. CASE Skip /\ Clock
  <2>1. End(code, pc) \in DOMAIN code /\ code[End(code, pc)].op = "end"
    BY <1>10, TextRuns DEF Skip, ControlInv, Op
  <2>2. QED
    BY <1>4, <1>5, <1>10, <2>1 DEF Skip, ControlInv, Op
<1>11. CASE Turn /\ Clock
  <2>1. LoopOf(code, pc) \in Loops(code)
    BY <1>11, TextRuns DEF Turn, ControlInv, Op
  <2>2. LoopOf(code, pc) \in DOMAIN code /\ code[LoopOf(code, pc)].op = "for"
    BY <2>1 DEF Loops
  <2>3. QED
    BY <1>4, <1>5, <1>11, <2>2 DEF Turn, ControlInv, Op
<1>12. CASE Leave /\ Clock
  BY <1>4, <1>5, <1>12 DEF Leave, ControlInv, Op
<1>13. CASE Compute /\ Clock
  BY <1>4, <1>5, <1>13 DEF Compute, ControlInv, Op
<1>14. QED
  BY <1>2, <1>3, <1>6, <1>7, <1>8, <1>9, <1>10, <1>11, <1>12, <1>13 DEF Next

-----------------------------------------------------------------------------
(* The change-location counters.                                           *)

ChargeInv ==
  /\ location.counters \in [Locations -> Int]
  /\ location.current \in Locations
  /\ cycles \in Int
  /\ EveryCycleCharged

LEMMA Powers ==
  /\ 2^LocWidth \in Nat \ {0}
  /\ 2^CounterWidth \in Nat \ {0}
  /\ 2^WordWidth \in Nat \ {0}
BY PowersAssumption

LEMMA LocationsFinite == IsFiniteSet(Locations) /\ 0 \in Locations
<1>1. PICK m \in Nat \ {0} : m = 2^LocWidth
  BY Powers
<1>2. 0 \in Int /\ m - 1 \in Int
  OBVIOUS
<1>3. IsFiniteSet(0 .. m - 1) /\ 0 \in 0 .. m - 1
  BY <1>2, FS_Interval
<1>4. QED
  BY <1>1, <1>3 DEF Locations

LEMMA ChargeInit == Init => ChargeInv
<1> SUFFICES ASSUME Init PROVE ChargeInv
  OBVIOUS
<1>1. location.counters = [l \in Locations |-> 0] /\ location.current = 0 /\ cycles = 0
  BY DEF Init, LocationReset, Zeroes
<1>2. SumFunction(location.counters) = 0
  BY <1>1, LocationsFinite, SumOfZeroes
<1>3. 0 % 2^CounterWidth = 0
  BY Powers
<1>4. QED
  BY <1>1, <1>2, <1>3, LocationsFinite DEF ChargeInv, EveryCycleCharged

\* A counter that counts, to a width, moves the sum by one, to that width.
LEMMA CountOne ==
  ASSUME NEW S, IsFiniteSet(S), NEW M \in Nat \ {0}, NEW c \in [S -> Int], NEW k \in S,
         NEW d, d = [c EXCEPT ![k] = (c[k] + 1) % M]
  PROVE  d \in [S -> Int] /\ SumFunction(d) % M = ((SumFunction(c) % M) + 1) % M
<1>1. c[k] + 1 \in Int /\ (c[k] + 1) % M \in Int
  OBVIOUS
<1>2. d \in [S -> Int] /\ d[k] = (c[k] + 1) % M
  BY <1>1
<1>3. Numbers(S, c) /\ Numbers(S, d) /\ Agree(S \ {k}, c, d)
  BY <1>2 DEF Numbers, Agree
<1>4. SumFunction(c) \in Int /\ SumFunction(d) = SumFunction(c) + (d[k] - c[k])
  BY <1>3, SumUpdate, Zenon
<1>5. PICK q \in Int, r \in 0 .. M - 1 : c[k] + 1 = M * q + r /\ r = (c[k] + 1) % M
  BY <1>1, QuotientRemainder
<1>6. PICK s \in Int : s = SumFunction(c)
  BY <1>4
<1>7. SumFunction(d) % M = (s + 1) % M
  <2>1. PICK x \in Int : x = d[k] - c[k] /\ 1 = x + M * q
    <3>1. PICK m \in Int : m = M * q
      OBVIOUS
    <3>2. c[k] \in Int /\ d[k] = r /\ c[k] + 1 = m + r
      BY <1>2, <1>5, <3>1
    <3>3. r - c[k] \in Int /\ 1 = (r - c[k]) + m
      BY <3>2
    <3>4. QED
      BY <3>1, <3>2, <3>3
  <2>2. s + 1 = (s + x) + M * q
    <3>1. PICK m \in Int : m = M * q
      OBVIOUS
    <3>2. s + 1 = (s + x) + m
      BY <2>1, <3>1
    <3>3. QED
      BY <3>1, <3>2
  <2>3. s + 1 \in Int /\ s + x \in Int
    OBVIOUS
  <2>4. (s + 1) % M = (s + x) % M
    BY <2>2, <2>3, ModShift
  <2>5. QED
    BY <1>4, <1>6, <2>1, <2>4
<1>8. ((s % M) + 1) % M = (s + 1) % M
  <2>1. 1 \in Int
    OBVIOUS
  <2>2. QED
    BY <2>1, ModAdd, Zenon
<1>9. SumFunction(d) % M = ((SumFunction(c) % M) + 1) % M
  <2>1. SumFunction(c) = s
    BY <1>6
  <2>2. SumFunction(d) % M = ((s % M) + 1) % M
    BY <1>7, <1>8
  <2>3. QED
    BY <2>1, <2>2
<1>10. QED
  BY <1>2, <1>9

LEMMA ChargeStep ==
  ASSUME ControlInv, ChargeInv, [Next]_vars
  PROVE  ChargeInv'
<1>1. CASE UNCHANGED vars
  BY <1>1 DEF ChargeInv, EveryCycleCharged, vars, modules
<1>2. CASE Finish
  BY <1>2 DEF Finish, ChargeInv, EveryCycleCharged, modules
<1>3. CASE Clock
  <2> DEFINE l == Wires("location")[1]
  <2>1. /\ location' = LocationEdge(location, Starts("location"), l)
        /\ cycles' = (cycles + 1) % 2^CounterWidth
    BY <1>3 DEF Clock, ModulesMove, Bump
  <2>2. /\ location'.counters = Charged(location, Starts("location"))
        /\ location'.current = IF Starts("location") /\ l # Report THEN LocIdx(l) ELSE location.current
    BY <2>1 DEF LocationEdge
  <2>3. location'.current \in Locations
    <3>1. CASE Starts("location")
      <4>1. Op.op = "call" /\ Op.module = "location" /\ Op.args[1] \in Int
        BY <3>1, InstrumentedAssumption DEF Starts, ControlInv, Op, Runnable
      <4>2. l \in Int
        BY <3>1, <4>1 DEF Wires, ArgsOf
      <4>3. LocIdx(l) \in Locations
        BY <4>2, Powers DEF LocIdx, Locations
      <4> HIDE DEF l
      <4>4. QED
        BY <2>2, <4>3 DEF ChargeInv
    <3>2. CASE ~Starts("location")
      BY <2>2, <3>2 DEF ChargeInv
    <3>3. QED
      BY <3>1, <3>2
  <2> HIDE DEF l
  <2>4. /\ location'.counters \in [Locations -> Int]
        /\ SumFunction(location'.counters) % 2^CounterWidth
             = ((SumFunction(location.counters) % 2^CounterWidth) + 1) % 2^CounterWidth
    <3>1. location'.counters = [location.counters EXCEPT
             ![location.current] = (location.counters[location.current] + 1) % 2^CounterWidth]
      BY <2>2 DEF Charged, Bump
    <3>2. QED
      BY <3>1, CountOne, Powers, LocationsFinite DEF ChargeInv
  <2>5. cycles' \in Int
    BY <2>1, Powers DEF ChargeInv
  <2>6. QED
    BY <2>1, <2>3, <2>4, <2>5 DEF ChargeInv, EveryCycleCharged
<1>4. QED
  BY <1>1, <1>2, <1>3 DEF Next

\* Whatever the kernel, the passes it went through and the widths, the
\* change-location counters share out the cycles since reset, to their width: the
\* cycle of a switch, of a report, of any call is charged once.
THEOREM CyclesAreShared == Spec => []EveryCycleCharged
<1>1. Init => ControlInv /\ ChargeInv
  BY ControlInit, ChargeInit
<1>2. ControlInv /\ ChargeInv /\ [Next]_vars => (ControlInv /\ ChargeInv)'
  BY ControlStep, ChargeStep
<1>3. ControlInv /\ ChargeInv => EveryCycleCharged
  BY DEF ChargeInv
<1>4. QED
  BY <1>1, <1>2, <1>3, PTL DEF Spec

-----------------------------------------------------------------------------
(* The vector module.                                                      *)

LEMMA WordsAreNumbers ==
  \A i \in 1 .. Len(Vectors.a) : Vectors.a[i] \in Int /\ Vectors.b[i] \in Int
<1>1. \A i \in 1 .. Len(Vectors.a) : {Vectors.a[i], Vectors.b[i]} \subseteq 0 .. 2^WordWidth - 1
  BY KernelAssumption
<1>2. QED
  BY <1>1

LEMMA Products ==
  ASSUME NEW n \in 0 .. Len(Vectors.a)
  PROVE  Numbers(1 .. n, [i \in 1 .. n |-> Vectors.a[i] * Vectors.b[i]])
<1>1. \A i \in 1 .. n : Vectors.a[i] \in Int /\ Vectors.b[i] \in Int
  BY WordsAreNumbers, KernelAssumption
<1>2. \A i \in 1 .. n : Vectors.a[i] * Vectors.b[i] \in Int
  BY <1>1
<1>3. QED
  BY <1>2 DEF Numbers

LEMMA ProductOfNone == DotProduct(0) = 0
<1>1. IsFiniteSet({})
  BY FS_EmptySet
<1>2. [i \in 1 .. 0 |-> Vectors.a[i] * Vectors.b[i]] = [i \in {} |-> 0]
  OBVIOUS
<1>3. SumFunction([i \in {} |-> 0]) = 0
  BY <1>1, SumOfZeroes
<1>4. QED
  BY <1>2, <1>3 DEF DotProduct

LEMMA ProductGrows ==
  ASSUME NEW n \in Nat, n + 1 \in 0 .. Len(Vectors.a)
  PROVE  DotProduct(n) \in Int /\ DotProduct(n + 1) = DotProduct(n) + Vectors.a[n + 1] * Vectors.b[n + 1]
<1> DEFINE c == [i \in 1 .. n + 1 |-> Vectors.a[i] * Vectors.b[i]]
           d == [i \in 1 .. n |-> Vectors.a[i] * Vectors.b[i]]
<1>1. Numbers(1 .. n + 1, c) /\ Numbers(1 .. n, d)
  <2>1. n \in 0 .. Len(Vectors.a)
    BY KernelAssumption
  <2>2. QED
    BY <2>1, Products
<1>2. Agree(1 .. n, c, d) /\ c[n + 1] = Vectors.a[n + 1] * Vectors.b[n + 1]
  BY DEF Agree
<1>3. DotProduct(n + 1) = SumFunction(c) /\ DotProduct(n) = SumFunction(d)
  BY DEF DotProduct
<1> HIDE DEF c, d
<1>4. SumFunction(d) \in Int /\ SumFunction(c) = SumFunction(d) + c[n + 1]
  BY <1>1, <1>2, SumExtend
<1>5. QED
  BY <1>2, <1>3, <1>4

LEMMA ProductIsNumber ==
  ASSUME NEW n \in 0 .. Len(Vectors.a)
  PROVE  DotProduct(n) \in Int
<1>1. CASE n = 0
  BY <1>1, ProductOfNone
<1>2. CASE n # 0
  <2>1. n - 1 \in Nat /\ (n - 1) + 1 = n
    BY <1>2
  <2>2. DotProduct(n - 1) \in Int /\ DotProduct(n) = DotProduct(n - 1) + Vectors.a[n] * Vectors.b[n]
    BY <2>1, ProductGrows
  <2>3. Vectors.a[n] \in Int /\ Vectors.b[n] \in Int
    BY <1>2, WordsAreNumbers
  <2>4. QED
    BY <2>2, <2>3
<1>3. QED
  BY <1>1, <1>2

DotCall == Op.op = "call" /\ Op.module = "dot"

RamShape == DOMAIN ram = {"request", "age", "rdy", "data", "stored"}

\* No request is under way and no answer is on the wires.
Quiet == ram.request = << >> /\ ram.rdy = FALSE /\ ram.stored = FALSE

\* An element was asked for and is awaited, or its answer is on the wires.
Asked(vector, i) ==
  \/ ram.request = <<vector, i>> /\ ram.rdy = FALSE /\ ram.stored = FALSE
  \/ ram.request = << >> /\ ram.rdy = TRUE /\ ram.stored = FALSE /\ ram.data = Vectors[vector][i]

\* The product of the first idx elements is in acc, and more are to come.
PartOf(n) == dot.idx \in 0 .. n - 1 /\ dot.acc = Word(DotProduct(dot.idx))
HasA == dot.a_val = Vectors.a[dot.idx + 1]

\* The module at each of its states, in a product of n elements.
Multiplies(n) ==
  \/ dot.state = "REQ_A" /\ Quiet /\ PartOf(n)
  \/ dot.state = "WAIT_A" /\ Asked("a", dot.idx + 1) /\ PartOf(n)
  \/ dot.state = "REQ_B" /\ Quiet /\ PartOf(n) /\ HasA
  \/ dot.state = "WAIT_B" /\ Asked("b", dot.idx + 1) /\ PartOf(n) /\ HasA
  \/ dot.state = "ACCUM" /\ Quiet /\ PartOf(n) /\ HasA /\ ram.data = Vectors.b[dot.idx + 1]
  \/ dot.state = "STORE" /\ Quiet /\ dot.acc = Word(DotProduct(n))
  \/ dot.state = "STORE_WAIT" /\ dot.acc = Word(DotProduct(n))
     /\ \/ ram.request = <<"out", dot.acc>> /\ ram.rdy = FALSE /\ ram.stored = FALSE
        \/ ram.request = << >> /\ ram.rdy = FALSE /\ ram.stored = TRUE /\ out = dot.acc
        \/ Quiet
  \/ dot.state = "DONE" /\ Quiet /\ out = Word(DotProduct(n))

\* Outside its calls the module rests and out is as expected; in a call it works
\* at what is expected of it, into a scalar that was clear.
DotInv ==
  /\ RamShape
  /\ waiting /\ DotCall =>
       /\ args.dot[1] \in 0 .. Len(Vectors.a)
       /\ Multiplies(args.dot[1])
       /\ expected = Word(DotProduct(args.dot[1]))
  /\ ~(waiting /\ DotCall) => dot.state = "IDLE" /\ Quiet /\ out = expected
  /\ ~waiting /\ DotCall => expected = 0

LEMMA WordOf ==
  /\ \A x \in Int : Word(x) \in Int
  /\ \A x, y \in Int : Word(Word(x) + y) = Word(x + y)
<1>1. \A x \in Int : x % 2^WordWidth \in Int
  BY Powers
<1>2. ASSUME NEW x \in Int, NEW y \in Int
      PROVE  ((x % 2^WordWidth) + y) % 2^WordWidth = (x + y) % 2^WordWidth
  BY Powers, ModAdd, Zenon
<1>3. QED
  BY <1>1, <1>2 DEF Word

\* The memory keeps a request until it answers it.
LEMMA MemoryAnswers ==
  ASSUME RamShape, NEW v, NEW x,
         ram.request = <<v, x>>, ram.rdy = FALSE, ram.stored = FALSE, AnyRam
  PROVE  \/ ram'.request = <<v, x>> /\ ram'.rdy = FALSE /\ ram'.stored = FALSE
         \/ /\ v # "out" /\ ram'.request = << >> /\ ram'.rdy = TRUE /\ ram'.stored = FALSE
            /\ ram'.data = Vectors[v][x]
         \/ v = "out" /\ ram'.request = << >> /\ ram'.rdy = FALSE /\ ram'.stored = TRUE /\ out' = x
<1>1. ram.request # << >> /\ ram.request[1] = v /\ ram.request[2] = x
  OBVIOUS
<1>2. ~RamAccepts
  BY <1>1 DEF RamAccepts
<1>3. CASE RamWorks
  BY <1>3 DEF RamWorks, RamShape
<1>4. CASE RamReads
  <2>1. ram' = [request |-> << >>, age |-> 0, rdy |-> TRUE, data |-> Vectors[v][x], stored |-> FALSE]
    BY <1>1, <1>4 DEF RamReads, Idle
  <2>2. v # "out"
    BY <1>1, <1>4 DEF RamReads
  <2>3. QED
    BY <2>1, <2>2
<1>5. CASE RamStores
  BY <1>1, <1>5 DEF RamStores, Idle
<1>6. QED
  BY <1>2, <1>3, <1>4, <1>5 DEF AnyRam, QuietRam

\* In a call the module goes on with its product, whenever the memory answers.
LEMMA ModuleWorks ==
  ASSUME NEW n \in 0 .. Len(Vectors.a), RamShape, Multiplies(n), dot.state # "DONE",
         dot' = DotEdge(dot, Starts("dot"), n, ram), AnyRam
  PROVE  Multiplies(n)'
<1> USE DEF DotEdge, NextState, Accumulate
<1>2. CASE dot.state = "REQ_A" /\ Quiet /\ PartOf(n)
  <2>1. dot'.state = "WAIT_A" /\ dot'.idx = dot.idx /\ dot'.acc = dot.acc
    BY <1>2
  <2>2. ram'.request = <<"a", dot.idx + 1>> /\ ram'.rdy = FALSE /\ ram'.stored = FALSE
    BY <1>2 DEF AnyRam, QuietRam, RamAccepts, RamWorks, RamReads, RamStores, Idle, Quiet, DotRequest
  <2>3. QED
    BY <1>2, <2>1, <2>2 DEF Multiplies, Asked, PartOf
<1>3. CASE dot.state = "WAIT_A" /\ Asked("a", dot.idx + 1) /\ PartOf(n)
  <2>1. CASE ram.rdy
    <3>1. dot'.state = "REQ_B" /\ dot'.idx = dot.idx /\ dot'.acc = dot.acc /\ dot'.a_val = ram.data
      BY <1>3, <2>1
    <3>2. Quiet'
      BY <1>3, <2>1 DEF AnyRam, QuietRam, RamAccepts, RamWorks, RamReads, RamStores, Idle, Quiet, Asked
    <3>3. ram.data = Vectors.a[dot.idx + 1]
      BY <1>3, <2>1 DEF Asked
    <3>4. QED
      BY <1>3, <3>1, <3>2, <3>3 DEF Multiplies, PartOf, HasA
  <2>2. CASE ~ram.rdy
    <3>1. dot'.state = "WAIT_A" /\ dot'.idx = dot.idx /\ dot'.acc = dot.acc
      BY <1>3, <2>2
    <3>2. ram.request = <<"a", dot.idx + 1>> /\ ram.stored = FALSE
      BY <1>3, <2>2 DEF Asked
    <3>3. \/ ram'.request = <<"a", dot.idx + 1>> /\ ram'.rdy = FALSE /\ ram'.stored = FALSE
          \/ ram'.request = << >> /\ ram'.rdy = TRUE /\ ram'.stored = FALSE
             /\ ram'.data = Vectors["a"][dot.idx + 1]
      <4>1. ram.rdy = FALSE
        BY <1>3, <2>2 DEF Asked
      <4>2. "a" # "out"
        OBVIOUS
      <4>3. QED
        BY <3>2, <4>1, <4>2, MemoryAnswers, Zenon
    <3>4. QED
      BY <1>3, <3>1, <3>3 DEF Multiplies, PartOf, Asked
  <2>3. QED
    BY <2>1, <2>2
<1>4. CASE dot.state = "REQ_B" /\ Quiet /\ PartOf(n) /\ HasA
  <2>1. /\ dot'.state = "WAIT_B" /\ dot'.idx = dot.idx /\ dot'.acc = dot.acc
        /\ dot'.a_val = dot.a_val
    BY <1>4
  <2>2. ram'.request = <<"b", dot.idx + 1>> /\ ram'.rdy = FALSE /\ ram'.stored = FALSE
    BY <1>4 DEF AnyRam, QuietRam, RamAccepts, RamWorks, RamReads, RamStores, Idle, Quiet, DotRequest
  <2>3. QED
    BY <1>4, <2>1, <2>2 DEF Multiplies, Asked, PartOf, HasA
<1>5. CASE dot.state = "WAIT_B" /\ Asked("b", dot.idx + 1) /\ PartOf(n) /\ HasA
  <2>1. CASE ram.rdy
    <3>1. /\ dot'.state = "ACCUM" /\ dot'.idx = dot.idx /\ dot'.acc = dot.acc
          /\ dot'.a_val = dot.a_val
      BY <1>5, <2>1
    <3>2. Quiet' /\ ram'.data = ram.data
      BY <1>5, <2>1 DEF AnyRam, QuietRam, RamAccepts, RamWorks, RamReads, RamStores, Idle, Quiet, Asked
    <3>3. ram.data = Vectors.b[dot.idx + 1]
      BY <1>5, <2>1 DEF Asked
    <3>4. QED
      BY <1>5, <3>1, <3>2, <3>3 DEF Multiplies, PartOf, HasA
  <2>2. CASE ~ram.rdy
    <3>1. /\ dot'.state = "WAIT_B" /\ dot'.idx = dot.idx /\ dot'.acc = dot.acc
          /\ dot'.a_val = dot.a_val
      BY <1>5, <2>2
    <3>2. ram.request = <<"b", dot.idx + 1>> /\ ram.stored = FALSE
      BY <1>5, <2>2 DEF Asked
    <3>3. \/ ram'.request = <<"b", dot.idx + 1>> /\ ram'.rdy = FALSE /\ ram'.stored = FALSE
          \/ ram'.request = << >> /\ ram'.rdy = TRUE /\ ram'.stored = FALSE
             /\ ram'.data = Vectors["b"][dot.idx + 1]
      <4>1. ram.rdy = FALSE
        BY <1>5, <2>2 DEF Asked
      <4>2. "b" # "out"
        OBVIOUS
      <4>3. QED
        BY <3>2, <4>1, <4>2, MemoryAnswers, Zenon
    <3>4. QED
      BY <1>5, <3>1, <3>3 DEF Multiplies, PartOf, HasA, Asked
  <2>3. QED
    BY <2>1, <2>2
<1>6. CASE dot.state = "ACCUM" /\ Quiet /\ PartOf(n) /\ HasA /\ ram.data = Vectors.b[dot.idx + 1]
  <2>1. /\ dot'.state = IF dot.idx + 1 >= n THEN "STORE" ELSE "REQ_A"
        /\ dot'.idx = dot.idx + 1
        /\ dot'.acc = Word(dot.acc + dot.a_val * ram.data)
    BY <1>6
  <2>2. Quiet'
    BY <1>6 DEF AnyRam, QuietRam, RamAccepts, RamWorks, RamReads, RamStores, Idle, Quiet, DotRequest
  <2>3. dot'.acc = Word(DotProduct(dot.idx + 1))
    <3>1. dot.idx \in Nat /\ dot.idx + 1 \in 0 .. Len(Vectors.a) /\ dot.idx + 1 \in 1 .. Len(Vectors.a)
      BY <1>6 DEF PartOf
    <3>2. PICK x \in Int : x = dot.a_val * ram.data /\ x = Vectors.a[dot.idx + 1] * Vectors.b[dot.idx + 1]
      BY <1>6, <3>1, WordsAreNumbers DEF HasA
    <3>3. PICK y \in Int : y = DotProduct(dot.idx) /\ DotProduct(dot.idx + 1) = y + x
      BY <3>1, <3>2, ProductGrows
    <3>4. Word(Word(y) + x) = Word(y + x)
      BY WordOf
    <3>5. QED
      BY <1>6, <2>1, <3>2, <3>3, <3>4 DEF PartOf
  <2>4. CASE dot.idx + 1 >= n
    <3>1. dot.idx + 1 = n
      BY <1>6, <2>4 DEF PartOf
    <3>2. QED
      BY <2>1, <2>2, <2>3, <2>4, <3>1 DEF Multiplies
  <2>5. CASE ~(dot.idx + 1 >= n)
    <3>1. dot.idx + 1 \in 0 .. n - 1
      BY <1>6, <2>5 DEF PartOf
    <3>2. QED
      BY <2>1, <2>2, <2>3, <2>5, <3>1 DEF Multiplies, PartOf
  <2>6. QED
    BY <2>4, <2>5
<1>7. CASE dot.state = "STORE" /\ Quiet /\ dot.acc = Word(DotProduct(n))
  <2>1. dot'.state = "STORE_WAIT" /\ dot'.acc = dot.acc
    BY <1>7
  <2>2. \/ ram'.request = <<"out", dot.acc>> /\ ram'.rdy = FALSE /\ ram'.stored = FALSE
        \/ Quiet'
    BY <1>7 DEF AnyRam, QuietRam, RamAccepts, RamWorks, RamReads, RamStores, Idle, Quiet, DotRequest
  <2>3. QED
    BY <1>7, <2>1, <2>2 DEF Multiplies
<1>8. CASE /\ dot.state = "STORE_WAIT" /\ dot.acc = Word(DotProduct(n))
           /\ ram.request = <<"out", dot.acc>> /\ ram.rdy = FALSE /\ ram.stored = FALSE
  <2>1. dot'.state = "STORE_WAIT" /\ dot'.acc = dot.acc
    BY <1>8
  <2>2. \/ ram'.request = <<"out", dot.acc>> /\ ram'.rdy = FALSE /\ ram'.stored = FALSE
        \/ ram'.request = << >> /\ ram'.rdy = FALSE /\ ram'.stored = TRUE /\ out' = dot.acc
    BY <1>8, MemoryAnswers
  <2>3. QED
    BY <1>8, <2>1, <2>2 DEF Multiplies
<1>9. CASE /\ dot.state = "STORE_WAIT" /\ dot.acc = Word(DotProduct(n))
           /\ ram.request = << >> /\ ram.rdy = FALSE /\ ram.stored = TRUE /\ out = dot.acc
  <2>1. dot'.state = "DONE"
    BY <1>9
  <2>2. Quiet' /\ out' = out
    BY <1>9 DEF AnyRam, QuietRam, RamAccepts, RamWorks, RamReads, RamStores, Idle, Quiet
  <2>3. QED
    BY <1>9, <2>1, <2>2 DEF Multiplies
<1>10. CASE dot.state = "STORE_WAIT" /\ dot.acc = Word(DotProduct(n)) /\ Quiet
  <2>1. dot'.state = "STORE_WAIT" /\ dot'.acc = dot.acc
    BY <1>10 DEF Quiet
  <2>2. \/ ram'.request = <<"out", dot.acc>> /\ ram'.rdy = FALSE /\ ram'.stored = FALSE
        \/ Quiet'
    BY <1>10 DEF AnyRam, QuietRam, RamAccepts, RamWorks, RamReads, RamStores, Idle, Quiet, DotRequest
  <2>3. QED
    BY <1>10, <2>1, <2>2 DEF Multiplies
<1> HIDE DEF DotEdge, NextState, Accumulate
<1>11. QED
  BY <1>2, <1>3, <1>4, <1>5, <1>6, <1>7, <1>8, <1>9, <1>10 DEF Multiplies

LEMMA ModuleRests ==
  ASSUME Quiet, dot.state \in {"IDLE", "DONE"}, ~Starts("dot"), Clock,
         RamAccepts \/ RamWorks \/ RamReads \/ RamStores
  PROVE  dot'.state = "IDLE" /\ Quiet' /\ ~RamStores
<1>1. DotRequest(dot, storeDrives) = << >>
  BY DEF DotRequest
<1>2. ram' = [Idle EXCEPT !.request = << >>]
  BY <1>1 DEF RamAccepts, RamWorks, RamReads, RamStores, Quiet
<1>3. ~RamStores
  BY DEF RamStores, Quiet
<1>4. dot' = DotEdge(dot, Starts("dot"), Wires("dot")[1], ram)
  BY DEF Clock, ModulesMove
<1>5. dot'.state = "IDLE"
  BY <1>4 DEF DotEdge, NextState
<1>6. QED
  BY <1>2, <1>3, <1>5 DEF Quiet, Idle

LEMMA DotInit ==
  ASSUME ControlInv, Init, ClearsFirst(code)
  PROVE  DotInv
<1>1. code[pc].op = "call" => code[pc].module # "dot"
  BY InstrumentedAssumption DEF Init, ClearsFirst, ControlInv, Runnable
<1>2. RamShape /\ Quiet /\ dot.state = "IDLE" /\ waiting = FALSE /\ out = expected
  BY DEF Init, RamShape, Quiet, DotReset
<1>3. QED
  BY <1>1, <1>2 DEF DotInv, DotCall, Op

\* A jump does not lead to a call of the module: a fill does.
LEMMA FillsLead ==
  ASSUME ControlInv, ControlInv', code' = code, ClearsFirst(code),
         NEW q \in DOMAIN code, pc' = q + 1, code[q].op # "fill"
  PROVE  ~DotCall'
<1>1. q \in Int /\ pc' - 1 = q
  BY InstrumentedAssumption DEF ControlInv, Runnable
<1>2. pc' \in DOMAIN code
  BY DEF ControlInv
<1>3. QED
  BY <1>1, <1>2 DEF DotCall, Op, ClearsFirst

LEMMA DotStep ==
  ASSUME ControlInv, DotInv, ControlInv', ClearsFirst(code), [Next]_vars
  PROVE  DotInv'
<1>1. ASSUME UNCHANGED <<code, pc, waiting, args, dot, ram, out, expected>>
      PROVE  DotInv'
  <2>1. DotCall' <=> DotCall
    BY <1>1 DEF DotCall, Op
  <2>2. \A n : Multiplies(n)' <=> Multiplies(n)
    BY <1>1 DEF Multiplies, Quiet, Asked, PartOf, HasA
  <2>3. RamShape' /\ (Quiet' <=> Quiet)
    BY <1>1 DEF DotInv, RamShape, Quiet
  <2>4. QED
    BY <1>1, <2>1, <2>2, <2>3 DEF DotInv
<1>2. CASE UNCHANGED vars
  BY <1>1, <1>2 DEF vars, modules, ghosts
<1>3. CASE Finish
  BY <1>1, <1>3 DEF Finish, modules, ghosts
<1>4. ASSUME Clock
      PROVE  /\ code' = code
             /\ dot' = DotEdge(dot, Starts("dot"), Wires("dot")[1], ram)
             /\ args'.dot = Wires("dot")
  BY <1>4 DEF Clock, ModulesMove
<1>5. ASSUME RamAccepts \/ RamWorks \/ RamReads \/ RamStores
      PROVE  RamShape'
  BY <1>5 DEF DotInv, RamShape, RamAccepts, RamWorks, RamReads, RamStores, Idle
\* The operations that are not calls.
<1>6. ASSUME Op.op # "call" PROVE ~waiting /\ ~DotCall /\ ~Starts("dot")
  BY <1>6 DEF ControlInv, DotCall, Starts
<1>7. ASSUME Op.op # "call", Clock, QuietRam, waiting' = waiting, expected' = expected,
             NEW q \in DOMAIN code, pc' = q + 1, code[q].op # "fill"
      PROVE  DotInv'
  <2>1. dot.state = "IDLE" /\ Quiet /\ out = expected
    BY <1>6, <1>7 DEF DotInv
  <2>2. dot'.state = "IDLE" /\ Quiet' /\ out' = out
    BY <1>6, <1>7, <2>1, ModuleRests DEF QuietRam
  <2>3. ~DotCall'
    BY <1>4, <1>7, FillsLead
  <2>4. RamShape'
    BY <1>5, <1>7 DEF QuietRam
  <2>5. QED
    BY <1>7, <2>1, <2>2, <2>3, <2>4 DEF DotInv
<1>8. CASE Enter /\ Clock
  BY <1>7, <1>8 DEF Enter, ControlInv, Op
<1>9. CASE Skip /\ Clock
  <2>1. End(code, pc) \in DOMAIN code /\ code[End(code, pc)].op = "end"
    BY <1>9, TextRuns DEF Skip, ControlInv, Op
  <2>2. QED
    BY <1>7, <1>9, <2>1 DEF Skip, ghosts
<1>10. CASE Turn /\ Clock
  <2>1. LoopOf(code, pc) \in Loops(code)
    BY <1>10, TextRuns DEF Turn, ControlInv, Op
  <2>2. LoopOf(code, pc) \in DOMAIN code /\ code[LoopOf(code, pc)].op = "for"
    BY <2>1 DEF Loops
  <2>3. QED
    BY <1>7, <1>10, <2>2 DEF Turn
<1>11. CASE Leave /\ Clock
  BY <1>7, <1>11 DEF Leave, ControlInv, Op, ghosts
<1>12. CASE Compute /\ Clock
  <2>1. Op.op # "call" /\ dot.state = "IDLE" /\ Quiet /\ out = expected
    BY <1>6, <1>12 DEF Compute, DotInv
  <2>2. dot'.state = "IDLE" /\ Quiet'
    BY <1>6, <1>12, <2>1, ModuleRests DEF Compute
  <2>3. out' = expected'
    BY <1>12, <2>1 DEF Compute
  <2>4. RamShape'
    BY <1>5, <1>12 DEF Compute
  <2>5. ~waiting'
    BY <1>6, <1>12, <2>1 DEF Compute
  <2>6. DotCall' => expected' = 0
    <3>1. CASE Op.op = "fill"
      BY <1>12, <3>1 DEF Compute
    <3>2. CASE Op.op # "fill"
      BY <1>4, <1>12, <3>2, FillsLead DEF Compute, ControlInv, Op
    <3>3. QED
      BY <3>1, <3>2
  <2>7. QED
    BY <2>2, <2>3, <2>4, <2>5, <2>6 DEF DotInv
\* The calls.
<1>13. CASE Issue /\ Clock
  <2>1. /\ Op.op = "call" /\ ~waiting /\ waiting' = TRUE /\ pc' = pc /\ AnyRam
        /\ dot.state = "IDLE" /\ Quiet /\ out = expected
    BY <1>13 DEF Issue, DotInv
  <2>2. (DotCall' <=> DotCall) /\ RamShape'
    BY <1>4, <1>5, <1>13, <2>1 DEF DotCall, Op, AnyRam, QuietRam
  <2>3. CASE DotCall
    <3>1. PICK n \in 0 .. Len(Vectors.a) : n = Op.args[1]
      BY <2>3, InstrumentedAssumption DEF DotCall, ControlInv, Runnable, Op
    <3>2. Starts("dot") /\ Wires("dot") = Op.args
      BY <2>1, <2>3 DEF Starts, Wires, ArgsOf, DotCall
    <3>3. args'.dot[1] = n /\ expected' = CalledDot(Op.args[2], expected, n)
      BY <1>4, <1>13, <2>3, <3>1, <3>2 DEF Issue, DotCall
    <3>4. expected' = Word(DotProduct(n))
      <4>1. expected = 0 /\ DotProduct(n) \in Int
        BY <2>1, <2>3, ProductIsNumber DEF DotInv
      <4>2. 0 + DotProduct(n) = DotProduct(n)
        BY <4>1
      <4>3. QED
        BY <3>3, <4>1, <4>2 DEF CalledDot, linalg_dot
    <3>5. Quiet'
      <4>1. DotRequest(dot, storeDrives) = << >>
        BY <2>1 DEF DotRequest
      <4>2. QED
        BY <2>1, <4>1 DEF AnyRam, QuietRam, RamAccepts, RamWorks, RamReads, RamStores, Quiet, Idle
    <3>6. /\ dot'.state = IF n = 0 THEN "STORE" ELSE "REQ_A"
          /\ dot'.idx = 0 /\ dot'.acc = 0
      BY <1>4, <1>13, <2>1, <3>1, <3>2 DEF DotEdge, NextState, Accumulate
    <3>7. 0 = Word(DotProduct(0))
      BY ProductOfNone, Powers DEF Word
    <3>8. Multiplies(n)'
      <4>1. CASE n = 0
        BY <3>5, <3>6, <3>7, <4>1 DEF Multiplies
      <4>2. CASE n # 0
        BY <3>5, <3>6, <3>7, <4>2 DEF Multiplies, PartOf
      <4>3. QED
        BY <4>1, <4>2
    <3>9. QED
      BY <2>1, <2>2, <2>3, <3>3, <3>4, <3>8 DEF DotInv
  <2>4. CASE ~DotCall
    <3>1. ~Starts("dot")
      BY <2>1, <2>4 DEF Starts, DotCall
    <3>2. dot'.state = "IDLE" /\ Quiet' /\ out' = out
      BY <1>13, <2>1, <3>1, ModuleRests DEF AnyRam, QuietRam
    <3>3. expected' = expected
      BY <1>13, <2>1, <2>4 DEF Issue, DotCall
    <3>4. QED
      BY <2>1, <2>2, <2>4, <3>2, <3>3 DEF DotInv
  <2>5. QED
    BY <2>3, <2>4
<1>14. CASE Await /\ Clock
  <2>1. /\ Op.op = "call" /\ waiting /\ ~Done(Op.module) /\ AnyRam
        /\ UNCHANGED <<pc, waiting, expected>>
    BY <1>14 DEF Await, ghosts
  <2>2. (DotCall' <=> DotCall) /\ RamShape' /\ ~Starts("dot") /\ args'.dot = args.dot
    BY <1>4, <1>5, <1>14, <2>1 DEF DotCall, Op, AnyRam, QuietRam, Starts, Wires
  <2>3. CASE DotCall
    <3>1. PICK n \in 0 .. Len(Vectors.a) :
             n = args.dot[1] /\ Multiplies(n) /\ expected = Word(DotProduct(n))
      BY <2>1, <2>3 DEF DotInv
    <3>2. dot.state # "DONE"
      BY <2>1, <2>3 DEF DotCall, Done, DotDone
    <3>3. dot' = DotEdge(dot, Starts("dot"), n, ram)
      BY <1>4, <1>14, <2>1, <2>2, <3>1 DEF Wires
    <3>4. Multiplies(n)'
      BY <2>1, <3>1, <3>2, <3>3, ModuleWorks DEF DotInv
    <3>5. QED
      BY <2>1, <2>2, <2>3, <3>1, <3>4 DEF DotInv
  <2>4. CASE ~DotCall
    <3>1. dot.state = "IDLE" /\ Quiet /\ out = expected
      BY <2>4 DEF DotInv
    <3>2. dot'.state = "IDLE" /\ Quiet' /\ out' = out
      BY <1>14, <2>1, <2>2, <3>1, ModuleRests DEF AnyRam, QuietRam
    <3>3. QED
      BY <2>1, <2>2, <2>4, <3>1, <3>2 DEF DotInv
  <2>5. QED
    BY <2>3, <2>4
<1>15. CASE Resume /\ Clock
  <2>1. /\ Op.op = "call" /\ waiting /\ Done(Op.module) /\ AnyRam
        /\ waiting' = FALSE /\ pc' = pc + 1 /\ expected' = expected
    BY <1>15 DEF Resume, ghosts
  <2>2. ~DotCall' /\ RamShape' /\ ~Starts("dot")
    BY <1>4, <1>5, <1>15, <2>1, FillsLead DEF ControlInv, Op, AnyRam, QuietRam, Starts
  <2>3. dot.state \in {"IDLE", "DONE"} /\ Quiet /\ out = expected
    <3>1. CASE DotCall
      BY <2>1, <3>1 DEF DotInv, Multiplies, DotCall, Done, DotDone
    <3>2. CASE ~DotCall
      BY <3>2 DEF DotInv
    <3>3. QED
      BY <3>1, <3>2
  <2>4. dot'.state = "IDLE" /\ Quiet' /\ out' = out
    BY <1>15, <2>1, <2>2, <2>3, ModuleRests DEF AnyRam, QuietRam
  <2>5. QED
    BY <2>1, <2>2, <2>3, <2>4 DEF DotInv
<1>16. QED
  BY <1>2, <1>3, <1>8, <1>9, <1>10, <1>11, <1>12, <1>13, <1>14, <1>15 DEF Next

\* Outside its calls the scalar holds what the kernel's dot products leave there,
\* whatever the raw words, their number and the latency of each answer and
\* whichever driver of the memory port wins in the store states, when each product
\* is computed into a scalar just cleared.  Of an integer dot that is what
\* linalg.dot leaves; of a float one the module was given, the integer product of
\* the raw words its source announces.
THEOREM ProductIsExact ==
  ASSUME \A text \in Instrumented : ClearsFirst(text)
  PROVE  Spec => []DotExact
<1>1. Init => ControlInv /\ DotInv
  BY ControlInit, DotInit DEF ControlInv
<1>2. ControlInv /\ DotInv /\ [Next]_vars => (ControlInv /\ DotInv)'
  <2> SUFFICES ASSUME ControlInv, DotInv, [Next]_vars PROVE (ControlInv /\ DotInv)'
    OBVIOUS
  <2>1. ControlInv'
    BY ControlStep
  <2>2. ClearsFirst(code)
    BY DEF ControlInv
  <2>3. QED
    BY <2>1, <2>2, DotStep
<1>3. DotInv => DotExact
  BY DEF DotInv, DotExact
<1>4. QED
  BY <1>1, <1>2, <1>3, PTL DEF Spec

-----------------------------------------------------------------------------
(* The controller's steps, the handshakes and the log.                     *)

\* A step that is no call's leads past x: the operation at pc, or the other end
\* of the loop there.
Moves(x) ==
  /\ ~waiting /\ ~waiting' /\ Op.op \notin {"call", "return"}
  /\ x \in DOMAIN code /\ code[x].op \notin {"call", "return"} /\ pc' = x + 1
  /\ \/ x = pc
     \/ \E l \in Loops(code) : (pc = l /\ x = End(code, l)) \/ (pc = End(code, l) /\ x = l)
  /\ bodies' = bodies + (IF code[x].op = "for" THEN 1 ELSE 0)
  /\ markers' = markers

LEMMA ControlMoves ==
  ASSUME ControlInv, bodies \in Nat, Clock, Enter \/ Skip \/ Turn \/ Leave \/ Compute
  PROVE  \E x : Moves(x)
<1>1. Structured(code) /\ code' = code
  BY TextRuns DEF ControlInv, Clock
<1>2. Op = code[pc] /\ pc \in DOMAIN code
  BY DEF ControlInv, Op
<1>3. Op.op # "call" => ~waiting
  BY DEF ControlInv
<1>4. CASE Enter
  <2>1. Moves(pc)
    BY <1>2, <1>3, <1>4 DEF Enter, Moves
  <2>2. QED
    BY <2>1
<1>5. CASE Skip
  <2>1. pc \in Loops(code) /\ End(code, pc) \in DOMAIN code /\ code[End(code, pc)].op = "end"
    BY <1>1, <1>2, <1>5 DEF Structured, Loops, Skip
  <2>2. Moves(End(code, pc))
    BY <1>2, <1>3, <1>5, <2>1 DEF Skip, Moves, ghosts
  <2>3. QED
    BY <2>2
<1>6. CASE Turn
  <2>1. LoopOf(code, pc) \in Loops(code) /\ End(code, LoopOf(code, pc)) = pc
    BY <1>1, <1>2, <1>6 DEF Structured, Turn
  <2>2. LoopOf(code, pc) \in DOMAIN code /\ code[LoopOf(code, pc)].op = "for"
    BY <2>1 DEF Loops
  <2>3. Moves(LoopOf(code, pc))
    BY <1>2, <1>3, <1>6, <2>1, <2>2 DEF Turn, Moves
  <2>4. QED
    BY <2>3
<1>7. CASE Leave
  <2>1. Moves(pc)
    BY <1>2, <1>3, <1>7 DEF Leave, Moves, ghosts
  <2>2. QED
    BY <2>1
<1>8. CASE Compute
  <2>1. Moves(pc)
    BY <1>2, <1>3, <1>8 DEF Compute, Moves
  <2>2. QED
    BY <2>1
<1>9. QED
  BY <1>4, <1>5, <1>6, <1>7, <1>8

\* The handshake of a module: reg in the cycle after the start, then done.
Shakes(module, r) ==
  /\ r.reg \in BOOLEAN /\ r.done \in BOOLEAN
  /\ waiting /\ Op.module = module => (r.reg <=> ~r.done)
  /\ ~(waiting /\ Op.module = module) => ~r.reg /\ ~r.done

IsLog(s) == \E S : s \in Seq(S)

\* In a call the module keeps the arguments; a report is pending while it is acknowledged.
ShakeInv ==
  /\ Shakes("assert", asserts) /\ Shakes("counters", counters) /\ Shakes("location", location)
  /\ counters.pending = (counters.reg /\ args.counters[2] = Report)
  /\ location.pending = (location.reg /\ args.location[1] = Report)
  /\ waiting /\ Op.module = "assert" => args.assert = <<Last(ivs), Op.args[1]>>
  /\ waiting /\ Op.module = "counters" => args.counters = Op.args
  /\ waiting /\ Op.module = "location" => args.location = Op.args

TypeInv ==
  /\ counters.counters \in [Locations -> Int] /\ counters.running \in [Locations -> BOOLEAN]
  /\ args.counters[1] \in BOOLEAN /\ args.counters[2] \in Int
  /\ IsLog(log) /\ bodies \in Nat

LEMMA ShakeInit == Init => ShakeInv
<1> SUFFICES ASSUME Init PROVE ShakeInv
  OBVIOUS
<1>1. /\ asserts = [reg |-> FALSE, done |-> FALSE] /\ waiting = FALSE
      /\ counters.reg = FALSE /\ counters.done = FALSE /\ counters.pending = FALSE
      /\ location.reg = FALSE /\ location.done = FALSE /\ location.pending = FALSE
  BY DEF Init, AssertReset, CountersReset, LocationReset
<1>2. QED
  BY <1>1 DEF ShakeInv, Shakes

\* What a clock edge does to the handshakes.
Edges(module, r) == r'.reg = Starts(module) /\ r'.done = r.reg

LEMMA EdgesOf ==
  ASSUME Clock
  PROVE  /\ Edges("assert", asserts) /\ Edges("counters", counters) /\ Edges("location", location)
         /\ counters'.pending = (Starts("counters") /\ Wires("counters")[2] = Report)
         /\ location'.pending = (Starts("location") /\ Wires("location")[1] = Report)
         /\ args'.assert = Wires("assert") /\ args'.counters = Wires("counters")
         /\ args'.location = Wires("location")
BY DEF Clock, ModulesMove, Edges, AssertEdge, CountersEdge, LocationEdge

LEMMA Handshake ==
  ASSUME ControlInv, Shakes("assert", asserts), Shakes("counters", counters), Shakes("location", location),
         Clock, [Next]_vars, bodies \in Nat
  PROVE  Shakes("assert", asserts)' /\ Shakes("counters", counters)' /\ Shakes("location", location)'
<1>1. Edges("assert", asserts) /\ Edges("counters", counters) /\ Edges("location", location)
  BY EdgesOf
<1>2. code' = code
  BY DEF Clock
<1>3. CASE Issue
  <2>1. Op' = Op /\ waiting' /\ ~waiting /\ Op.op = "call"
    BY <1>2, <1>3 DEF Issue, Op
  <2>2. QED
    BY <1>1, <2>1 DEF Shakes, Edges, Starts
<1>4. CASE Await
  <2>1. Op' = Op /\ waiting' /\ waiting /\ Op.op = "call" /\ ~Done(Op.module)
    BY <1>2, <1>4 DEF Await, Op, ControlInv
  <2>2. /\ Op.module = "assert" => ~asserts.done
        /\ Op.module = "counters" => ~counters.done
        /\ Op.module = "location" => ~location.done
    BY <2>1 DEF Done
  <2>3. QED
    BY <1>1, <2>1, <2>2 DEF Shakes, Edges, Starts
<1>5. CASE Resume
  <2>1. waiting' = FALSE /\ waiting /\ Op.op = "call" /\ Done(Op.module)
    BY <1>5 DEF Resume
  <2>2. /\ Op.module = "assert" => asserts.done
        /\ Op.module = "counters" => counters.done
        /\ Op.module = "location" => location.done
    BY <2>1 DEF Done
  <2>3. QED
    BY <1>1, <2>1, <2>2 DEF Shakes, Edges, Starts
<1>6. CASE \E x : Moves(x)
  <2>1. ~waiting' /\ ~waiting /\ Op.op # "call"
    BY <1>6 DEF Moves
  <2>2. QED
    BY <1>1, <2>1 DEF Shakes, Edges, Starts
<1>7. CASE UNCHANGED vars
  BY <1>7 DEF vars, modules, Shakes, Op
<1>8. CASE Finish
  BY <1>8 DEF Finish, modules, Shakes, Op
<1>9. QED
  BY <1>3, <1>4, <1>5, <1>6, <1>7, <1>8, ControlMoves DEF Next

LEMMA ShakeStep ==
  ASSUME ControlInv, ShakeInv, [Next]_vars, bodies \in Nat
  PROVE  ShakeInv'
<1>1. CASE UNCHANGED vars
  BY <1>1 DEF vars, modules, ShakeInv, Shakes, Op
<1>2. CASE Finish
  BY <1>2 DEF Finish, modules, ShakeInv, Shakes, Op
<1>3. ASSUME Clock PROVE ShakeInv'
  <2>1. Shakes("assert", asserts)' /\ Shakes("counters", counters)' /\ Shakes("location", location)'
    BY <1>3, Handshake DEF ShakeInv
  <2>2. /\ counters'.reg = Starts("counters") /\ location'.reg = Starts("location")
        /\ counters'.pending = (Starts("counters") /\ Wires("counters")[2] = Report)
        /\ location'.pending = (Starts("location") /\ Wires("location")[1] = Report)
        /\ args'.assert = Wires("assert") /\ args'.counters = Wires("counters")
        /\ args'.location = Wires("location")
    BY <1>3, EdgesOf DEF Edges
  <2>3. /\ counters'.pending = (counters'.reg /\ args'.counters[2] = Report)
        /\ location'.pending = (location'.reg /\ args'.location[1] = Report)
    BY <2>2
  <2>4. CASE Issue
    <3>1. Op' = Op /\ Op.op = "call" /\ ~waiting /\ ivs' = ivs
      BY <1>3, <2>4 DEF Issue, Op, Clock
    <3>2. /\ Op.module = "assert" => args'.assert = <<Last(ivs), Op.args[1]>>
          /\ Op.module = "counters" => args'.counters = Op.args
          /\ Op.module = "location" => args'.location = Op.args
      BY <2>2, <3>1 DEF Starts, Wires, ArgsOf
    <3>3. QED
      BY <2>1, <2>3, <3>1, <3>2 DEF ShakeInv
  <2>5. CASE Await
    <3>1. Op' = Op /\ waiting /\ ivs' = ivs
      BY <1>3, <2>5 DEF Await, Op, Clock
    <3>2. args'.assert = args.assert /\ args'.counters = args.counters /\ args'.location = args.location
      BY <2>2, <3>1 DEF Starts, Wires
    <3>3. QED
      BY <2>1, <2>3, <3>1, <3>2 DEF ShakeInv
  <2>6. CASE Resume \/ \E x : Moves(x)
    <3>1. ~waiting'
      BY <2>6 DEF Resume, Moves
    <3>2. QED
      BY <2>1, <2>3, <3>1 DEF ShakeInv
  <2>7. CASE Finish
    BY <1>2, <2>7
  <2>8. QED
    BY <1>1, <1>3, <2>4, <2>5, <2>6, <2>7, ControlMoves DEF Next
<1>4. QED
  BY <1>1, <1>2, <1>3 DEF Next

-----------------------------------------------------------------------------
(* What is displayed.                                                      *)

LEMMA LinesOther ==
  ASSUME NEW S, NEW s \in Seq(S), NEW t \in Seq(S), NEW kind, \A i \in 1 .. Len(t) : t[i][1] # kind
  PROVE  LinesOf(s \o t, kind) = LinesOf(s, kind)
<1>1. DOMAIN (s \o t) = 1 .. Len(s) + Len(t) /\ DOMAIN s = 1 .. Len(s)
  OBVIOUS
<1>2. Len(s) \in Nat /\ Len(t) \in Nat
  OBVIOUS
<1>3. \A i \in 1 .. Len(s) + Len(t) : i \in 1 .. Len(s) \/ (i - Len(s) \in 1 .. Len(t) /\ i = Len(s) + (i - Len(s)))
  BY <1>2
<1>4. \A i \in 1 .. Len(s) + Len(t) :
        (s \o t)[i][1] = kind <=> i \in 1 .. Len(s) /\ s[i][1] = kind
  <2> TAKE i \in 1 .. Len(s) + Len(t)
  <2>1. CASE i \in 1 .. Len(s)
    BY <2>1
  <2>2. CASE i \notin 1 .. Len(s)
    <3>1. PICK j \in 1 .. Len(t) : i = Len(s) + j
      BY <1>3, <2>2
    <3>2. (s \o t)[i] = t[j]
      BY <3>1
    <3>3. QED
      BY <2>2, <3>2
  <2>3. QED
    BY <2>1, <2>2
<1>5. QED
  BY <1>1, <1>2, <1>4 DEF LinesOf

LEMMA LinesSame ==
  ASSUME NEW S, NEW s \in Seq(S), NEW t \in Seq(S), NEW kind, \A i \in 1 .. Len(t) : t[i][1] = kind
  PROVE  LinesOf(s \o t, kind) = LinesOf(s, kind) \cup (Len(s) + 1 .. Len(s) + Len(t))
<1>1. DOMAIN (s \o t) = 1 .. Len(s) + Len(t) /\ DOMAIN s = 1 .. Len(s)
  OBVIOUS
<1>2. Len(s) \in Nat /\ Len(t) \in Nat
  OBVIOUS
<1>3. \A i \in Len(s) + 1 .. Len(s) + Len(t) : (s \o t)[i][1] = kind
  <2> TAKE i \in Len(s) + 1 .. Len(s) + Len(t)
  <2>1. PICK j \in 1 .. Len(t) : i = Len(s) + j
    <3>1. i - Len(s) \in 1 .. Len(t) /\ i = Len(s) + (i - Len(s))
      BY <1>2
    <3>2. QED
      BY <3>1
  <2>2. (s \o t)[i] = t[j]
    BY <2>1
  <2>3. QED
    BY <2>2
<1>4. \A i \in 1 .. Len(s) : (s \o t)[i] = s[i]
  OBVIOUS
<1>5. \A i \in 1 .. Len(s) + Len(t) : i \in 1 .. Len(s) \/ i \in Len(s) + 1 .. Len(s) + Len(t)
  BY <1>2
<1>6. \A i : i \in LinesOf(s \o t, kind)
              <=> i \in LinesOf(s, kind) \/ i \in Len(s) + 1 .. Len(s) + Len(t)
  BY <1>1, <1>2, <1>3, <1>4, <1>5 DEF LinesOf
<1>7. QED
  BY <1>6

LEMMA LinesCount ==
  ASSUME NEW S, NEW s \in Seq(S), NEW t \in Seq(S), NEW kind, \A i \in 1 .. Len(t) : t[i][1] = kind
  PROVE  /\ Cardinality(LinesOf(s, kind)) \in Nat
         /\ Cardinality(LinesOf(s \o t, kind)) = Cardinality(LinesOf(s, kind)) + Len(t)
<1> DEFINE A == LinesOf(s, kind)
           B == Len(s) + 1 .. Len(s) + Len(t)
<1>1. Len(s) \in Nat /\ Len(t) \in Nat /\ DOMAIN s = 1 .. Len(s)
  OBVIOUS
<1>2. A \subseteq 1 .. Len(s) /\ A \cap B = {}
  BY <1>1 DEF LinesOf
<1>3. IsFiniteSet(A)
  <2>1. 1 \in Int /\ Len(s) \in Int
    BY <1>1
  <2>2. QED
    BY <1>2, <2>1, FS_Interval, FS_Subset
<1>4. IsFiniteSet(B) /\ Cardinality(B) = Len(t)
  <2>1. Len(s) + 1 \in Int /\ Len(s) + Len(t) \in Int
    BY <1>1
  <2>2. IsFiniteSet(B)
        /\ Cardinality(B) = IF Len(s) + 1 > Len(s) + Len(t) THEN 0
                            ELSE (Len(s) + Len(t)) - (Len(s) + 1) + 1
    BY <2>1, FS_Interval
  <2>3. QED
    BY <1>1, <2>2
<1>5. LinesOf(s \o t, kind) = A \cup B
  BY LinesSame
<1> HIDE DEF A, B
<1>6. Cardinality(A \cup B) = Cardinality(A) + Cardinality(B) - Cardinality(A \cap B)
  BY <1>3, <1>4, FS_Union
<1>7. Cardinality(A) \in Nat /\ Cardinality(A \cap B) = 0
  BY <1>2, <1>3, FS_CardinalityType, FS_EmptySet
<1>8. QED
  BY <1>1, <1>4, <1>5, <1>6, <1>7 DEF A

LEMMA LogsJoin ==
  ASSUME NEW s, IsLog(s), NEW t, IsLog(t)
  PROVE  /\ \E S : s \in Seq(S) /\ t \in Seq(S)
         /\ IsLog(s \o t) /\ s \o << >> = s
<1>1. PICK S, T : s \in Seq(S) /\ t \in Seq(T)
  BY DEF IsLog
<1>2. s \in Seq(S \cup T) /\ t \in Seq(S \cup T)
  BY <1>1
<1>3. s \o t \in Seq(S \cup T) /\ s \o << >> = s
  BY <1>2
<1>4. QED
  BY <1>2, <1>3 DEF IsLog

LEMMA LineIsLog == IsLog(<< >>) /\ \A x : IsLog(<<x>>)
<1>1. << >> \in Seq({})
  OBVIOUS
<1>2. ASSUME NEW x PROVE <<x>> \in Seq({x})
  OBVIOUS
<1>3. QED
  BY <1>1, <1>2 DEF IsLog

LEMMA SequenceOf ==
  ASSUME NEW S, NEW n \in Nat, NEW f, DOMAIN f = 1 .. n, \A k \in 1 .. n : f[k] \in S, f = [k \in 1 .. n |-> f[k]]
  PROVE  f \in Seq(S) /\ Len(f) = n
OBVIOUS

LEMMA ReportLines ==
  ASSUME NEW kind, NEW r
  PROVE  /\ IsLog(FinalReport(kind, r)) /\ Len(FinalReport(kind, r)) = 2^LocWidth
         /\ \A i \in 1 .. Len(FinalReport(kind, r)) : FinalReport(kind, r)[i][1] = kind
<1>1. PICK n \in Nat : n = 2^LocWidth
  BY Powers
<1> DEFINE f == [k \in 1 .. n |-> <<kind, k - 1, r.counters[k - 1]>>]
           S == {f[k] : k \in 1 .. n}
<1>2. FinalReport(kind, r) = f
  BY <1>1 DEF FinalReport
<1>3. \A k \in 1 .. n : f[k] \in S /\ f[k][1] = kind
  OBVIOUS
<1>4. DOMAIN f = 1 .. n /\ f = [k \in 1 .. n |-> f[k]]
  OBVIOUS
<1> HIDE DEF f, S
<1>5. f \in Seq(S) /\ Len(f) = n
  BY <1>3, <1>4, SequenceOf
<1>6. QED
  BY <1>1, <1>2, <1>3, <1>5 DEF IsLog

LEMMA IndexOf == \A i \in Int : LocIdx(i) \in Locations
BY Powers DEF LocIdx, Locations

\* A module that is awaited displays what its registers hold; the others nothing.
LEMMA Displays ==
  ASSUME ControlInv, ShakeInv, TypeInv, Clock
  PROVE  /\ ~asserts.reg /\ ~counters.reg /\ ~location.reg => log' = log
         /\ asserts.reg =>
              log' = log \o << <<"assert", Word(args.assert[1]) < Word(args.assert[2])>> >>
         /\ counters.reg /\ counters.pending => log' = log \o FinalReport("FINAL counter", counters)
         /\ counters.reg /\ ~counters.pending =>
              log' = log \o (IF PRINT_ON_STOP
                             THEN << <<"counter", args.counters[2],
                                       counters.counters[LocIdx(args.counters[2])]>> >>
                             ELSE << >>)
         /\ location.reg =>
              log' = log \o (IF location.pending THEN FinalReport("FINAL location", location)
                                                 ELSE << >>)
<1>1. log' = log \o AssertDisplay(asserts, Wires("assert")[1], Wires("assert")[2])
                 \o CountersDisplay(counters, Wires("counters")[2]) \o LocationDisplay(location)
  BY DEF Clock, ModulesMove
<1>2. IsLog(log)
  BY DEF TypeInv
<1>3. log \o << >> = log
  BY <1>2, LogsJoin
<1>4. ~asserts.reg => AssertDisplay(asserts, Wires("assert")[1], Wires("assert")[2]) = << >>
  BY DEF AssertDisplay
<1>5. ~counters.reg => CountersDisplay(counters, Wires("counters")[2]) = << >>
  BY DEF CountersDisplay
<1>6. ~location.reg => LocationDisplay(location) = << >>
  BY DEF LocationDisplay
<1>7. ASSUME asserts.reg \/ counters.reg \/ location.reg
      PROVE  /\ Wires("assert") = args.assert /\ Wires("counters") = args.counters
             /\ asserts.reg => ~counters.reg /\ ~location.reg
             /\ counters.reg => ~asserts.reg /\ ~location.reg
             /\ location.reg => ~asserts.reg /\ ~counters.reg
  <2>1. waiting
    BY <1>7 DEF ShakeInv, Shakes
  <2>2. Wires("assert") = args.assert /\ Wires("counters") = args.counters
    BY <2>1 DEF Wires, Starts
  <2>3. QED
    BY <2>2 DEF ShakeInv, Shakes
<1>8. CASE ~asserts.reg /\ ~counters.reg /\ ~location.reg
  BY <1>1, <1>3, <1>4, <1>5, <1>6, <1>8
<1>9. CASE asserts.reg
  <2>1. log' = log \o AssertDisplay(asserts, args.assert[1], args.assert[2]) \o << >> \o << >>
    BY <1>1, <1>5, <1>6, <1>7, <1>9
  <2>2. AssertDisplay(asserts, args.assert[1], args.assert[2])
          = << <<"assert", Word(args.assert[1]) < Word(args.assert[2])>> >>
    BY <1>9 DEF AssertDisplay
  <2>3. \A t : IsLog(t) => log \o t \o << >> \o << >> = log \o t
    <3> SUFFICES ASSUME NEW t, IsLog(t) PROVE log \o t \o << >> \o << >> = log \o t
      OBVIOUS
    <3>1. IsLog(log \o t)
      BY <1>2, LogsJoin
    <3>2. QED
      BY <3>1, LogsJoin
  <2>4. QED
    BY <1>7, <1>9, <2>1, <2>2, <2>3, LineIsLog
<1>10. CASE counters.reg
  <2>1. log' = log \o CountersDisplay(counters, args.counters[2]) \o << >>
    BY <1>1, <1>3, <1>4, <1>6, <1>7, <1>10
  <2>2. CountersDisplay(counters, args.counters[2])
          = IF counters.pending THEN FinalReport("FINAL counter", counters)
            ELSE IF PRINT_ON_STOP
                 THEN << <<"counter", args.counters[2], counters.counters[LocIdx(args.counters[2])]>> >>
                 ELSE << >>
    BY <1>10 DEF CountersDisplay
  <2>3. IsLog(CountersDisplay(counters, args.counters[2]))
    BY <2>2, ReportLines, LineIsLog
  <2>4. ASSUME NEW t, IsLog(t) PROVE log \o t \o << >> = log \o t
    <3>1. IsLog(log \o t)
      BY <1>2, <2>4, LogsJoin
    <3>2. QED
      BY <3>1, LogsJoin
  <2>5. log' = log \o CountersDisplay(counters, args.counters[2])
    BY <2>1, <2>3, <2>4
  <2>6. QED
    BY <1>7, <1>10, <2>2, <2>5
<1>11. CASE location.reg
  <2>1. log' = log \o LocationDisplay(location)
    BY <1>1, <1>3, <1>4, <1>5, <1>7, <1>11
  <2>2. QED
    BY <1>7, <1>11, <2>1 DEF LocationDisplay
<1>12. QED
  BY <1>8, <1>9, <1>10, <1>11

LEMMA TypeInit == Init => TypeInv
<1> SUFFICES ASSUME Init PROVE TypeInv
  OBVIOUS
<1>1. /\ counters.counters = [l \in Locations |-> 0]
      /\ counters.running = [l \in Locations |-> FALSE]
      /\ args.counters = <<FALSE, 0>> /\ log = << >> /\ bodies = 0
  BY DEF Init, CountersReset, Zeroes
<1>2. QED
  BY <1>1, LineIsLog DEF TypeInv

\* What a clock edge makes of the loop counters.
LEMMA CountersMove ==
  ASSUME ControlInv, TypeInv, Clock
  PROVE  /\ Wires("counters")[1] \in BOOLEAN /\ Wires("counters")[2] \in Int
         /\ args'.counters = Wires("counters")
         /\ counters'.counters =
              CountersNext(counters, Starts("counters"), Wires("counters")[2])
         /\ counters'.running =
              RunningNext(counters, Wires("counters")[1], Wires("counters")[2])
<1>1. CASE Starts("counters")
  <2>1. Op.args \in BOOLEAN \X Int
    BY <1>1, InstrumentedAssumption DEF Starts, ControlInv, Op, Runnable
  <2>2. Wires("counters") = Op.args
    BY <1>1 DEF Wires, Starts, ArgsOf
  <2>3. QED
    BY <2>1, <2>2 DEF Clock, ModulesMove, CountersEdge
<1>2. CASE ~Starts("counters")
  BY <1>2 DEF Wires, TypeInv, Clock, ModulesMove, CountersEdge
<1>3. QED
  BY <1>1, <1>2

LEMMA TypeStep ==
  ASSUME ControlInv, ShakeInv, TypeInv, [Next]_vars
  PROVE  TypeInv'
<1>1. CASE UNCHANGED vars
  BY <1>1 DEF vars, modules, ghosts, TypeInv
<1>2. CASE Finish
  <2>1. IsLog(log')
    <3>1. log \o << <<"cycles", cycles>> >> = Append(log, <<"cycles", cycles>>)
      BY DEF TypeInv, IsLog
    <3>2. QED
      BY <1>2, <3>1, LogsJoin, LineIsLog DEF TypeInv, Finish
  <2>2. QED
    BY <1>2, <2>1 DEF Finish, modules, ghosts, TypeInv
<1>3. ASSUME Clock, [Next]_vars PROVE TypeInv'
  <2>1. IsLog(log')
    <3>1. \A t : IsLog(t) => IsLog(log \o t)
      BY LogsJoin DEF TypeInv
    <3>2. \/ log' = log
          \/ \E t : IsLog(t) /\ log' = log \o t
      <4>1. CASE asserts.reg
        BY <1>3, <4>1, Displays, LineIsLog
      <4>2. CASE counters.reg
        BY <1>3, <4>2, Displays, LineIsLog, ReportLines
      <4>3. CASE location.reg
        BY <1>3, <4>3, Displays, LineIsLog, ReportLines
      <4>4. QED
        BY <1>3, <4>1, <4>2, <4>3, Displays
    <3>3. QED
      BY <3>1, <3>2 DEF TypeInv
  <2>2. /\ counters'.counters \in [Locations -> Int]
        /\ counters'.running \in [Locations -> BOOLEAN]
        /\ args'.counters[1] \in BOOLEAN /\ args'.counters[2] \in Int
    <3>1. PICK act \in BOOLEAN, loc \in Int : <<act, loc>> = <<Wires("counters")[1], Wires("counters")[2]>>
      BY <1>3, CountersMove
    <3>2. \A n \in Int : Bump(n) \in Int
      BY Powers DEF Bump
    <3>3. /\ counters'.counters = CountersNext(counters, Starts("counters"), loc)
          /\ counters'.running = RunningNext(counters, act, loc)
          /\ args'.counters[1] = act /\ args'.counters[2] = loc
      BY <1>3, <3>1, CountersMove
    <3>4. counters'.counters \in [Locations -> Int]
      BY <3>2, <3>3 DEF CountersNext, TypeInv
    <3>5. counters'.running \in [Locations -> BOOLEAN]
      <4>1. LocIdx(loc) \in Locations
        BY IndexOf
      <4>2. QED
        BY <3>3, <4>1 DEF RunningNext, TypeInv
    <3>6. QED
      BY <3>3, <3>4, <3>5
  <2>3. bodies' \in Nat
    <3>1. CASE Issue \/ Await \/ Resume \/ Finish \/ UNCHANGED vars
      BY <3>1 DEF Issue, Await, Resume, Finish, vars, ghosts, TypeInv
    <3>2. CASE \E x : Moves(x)
      BY <3>2 DEF Moves, TypeInv
    <3>3. QED
      BY <1>3, <3>1, <3>2, ControlMoves DEF Next, TypeInv
  <2>4. QED
    BY <2>1, <2>2, <2>3 DEF TypeInv
<1>4. QED
  BY <1>1, <1>2, <1>3 DEF Next

-----------------------------------------------------------------------------
(* The induction variables.                                                *)

\* The place in ivs of the induction variable of loop l.
Level(l) == Cardinality(LoopsAround(code, l)) + 1

\* There is an induction variable for each loop the controller is in, and it is
\* within that loop's bounds.
IvsInv ==
  /\ ivs \in Seq(Int)
  /\ Len(ivs) = Cardinality(LoopsAround(code, pc))
  /\ \A l \in LoopsAround(code, pc) : ivs[Level(l)] \in code[l].lb .. code[l].ub - 1

LEMMA FrontOf ==
  ASSUME NEW s \in Seq(Int), Len(s) >= 1
  PROVE  /\ Front(s) \in Seq(Int) /\ Len(Front(s)) = Len(s) - 1
         /\ \A i \in 1 .. Len(s) - 1 : Front(s)[i] = s[i]
         /\ Last(s) = s[Len(s)]
<1>1. Len(s) \in Nat /\ Len(s) - 1 \in Nat /\ \A i \in 1 .. Len(s) - 1 : s[i] \in Int
  OBVIOUS
<1>2. Front(s) = [i \in 1 .. Len(s) - 1 |-> s[i]]
  BY <1>1 DEF Front
<1>3. QED
  BY <1>1, <1>2 DEF Last

LEMMA NestIsFinite ==
  ASSUME Structured(code), NEW p
  PROVE  IsFiniteSet(LoopsAround(code, p)) /\ Cardinality(LoopsAround(code, p)) \in Nat
<1>1. LoopsAround(code, p) \subseteq 1 .. Len(code) /\ 1 \in Int /\ Len(code) \in Int
  BY DEF Structured, Loops, LoopsAround
<1>2. QED
  BY <1>1, FS_Interval, FS_Subset, FS_CardinalityType

LEMMA LevelInside ==
  ASSUME Structured(code), NEW p \in Int, NEW m \in LoopsAround(code, p)
  PROVE  Level(m) \in 1 .. Cardinality(LoopsAround(code, p))
<1>1. /\ m \in Loops(code) /\ m < p /\ p <= End(code, m)
      /\ \A x \in LoopsAround(code, m) : x \in Loops(code) /\ x < m /\ m <= End(code, x)
  BY DEF LoopsAround
<1>2. \A x \in LoopsAround(code, m) : End(code, m) < End(code, x)
  BY <1>1, LoopsNest
<1>3. \A x \in Loops(code) : x \in Int /\ End(code, x) \in Int
  BY DEF Structured, Loops
<1>4. \A x \in LoopsAround(code, m) : x < p /\ p <= End(code, x)
  BY <1>1, <1>2, <1>3
<1>5. LoopsAround(code, m) \cup {m} \subseteq LoopsAround(code, p) /\ m \notin LoopsAround(code, m)
  <2>1. \A x \in LoopsAround(code, m) : x \in LoopsAround(code, p)
    BY <1>1, <1>4 DEF LoopsAround
  <2>2. m \notin LoopsAround(code, m)
    BY <1>1, <1>3
  <2>3. QED
    BY <2>1, <2>2
<1>6. Cardinality(LoopsAround(code, m) \cup {m}) = Cardinality(LoopsAround(code, m)) + 1
  BY <1>5, NestIsFinite, FS_AddElement
<1>7. Cardinality(LoopsAround(code, m) \cup {m}) <= Cardinality(LoopsAround(code, p))
  BY <1>5, NestIsFinite, FS_Subset
<1>8. QED
  BY <1>6, <1>7, NestIsFinite DEF Level

LEMMA IvsStep ==
  ASSUME ControlInv, IvsInv, AssertsOwn(code), [Next]_vars
  PROVE  IvsInv'
<1>1. Structured(code) /\ pc \in DOMAIN code /\ pc \in Int
  BY TextRuns DEF ControlInv
<1>2. \A l \in Loops(code) : code[l].lb \in Int /\ code[l].ub \in Int /\ l \in Int
  BY <1>1, Powers DEF AssertsOwn, Loops, Structured
<1>3. ASSUME code' = code, ivs' = ivs, LoopsAround(code, pc') = LoopsAround(code, pc)
      PROVE  IvsInv'
  BY <1>3 DEF IvsInv, Level
<1>4. CASE UNCHANGED vars
  BY <1>3, <1>4 DEF vars
<1>5. CASE Finish
  BY <1>3, <1>5 DEF Finish
<1>6. CASE (Issue \/ Await) /\ Clock
  BY <1>3, <1>6 DEF Issue, Await, Clock
<1>7. CASE (Resume \/ Compute) /\ Clock
  <2>1. pc' = pc + 1 /\ code' = code /\ ivs' = ivs /\ code[pc].op \notin {"for", "end"}
    BY <1>7 DEF Resume, Compute, Clock, Op
  <2>2. QED
    BY <1>1, <1>3, <2>1, AroundNext
\* In the body of l there is one more variable, of l.
<1>8. ASSUME NEW l \in Loops(code), NEW iv \in code[l].lb .. code[l].ub - 1, NEW s \in Seq(Int),
             Len(s) = Cardinality(LoopsAround(code, l)), ivs' = Append(s, iv), code' = code, pc' = l + 1,
             \A m \in LoopsAround(code, l) : s[Level(m)] \in code[m].lb .. code[m].ub - 1
      PROVE  IvsInv'
  <2>1. /\ LoopsAround(code, l + 1) = LoopsAround(code, l) \cup {l}
        /\ l \notin LoopsAround(code, l)
    BY <1>1, <1>2, AroundBody
  <2>2. Cardinality(LoopsAround(code, l + 1)) = Len(s) + 1
    BY <1>1, <1>8, <2>1, NestIsFinite, FS_AddElement
  <2>3. ivs' \in Seq(Int) /\ Len(ivs') = Len(s) + 1 /\ Level(l) = Len(s) + 1
    BY <1>2, <1>8 DEF Level
  <2>4. ivs'[Level(l)] = iv
    BY <1>8, <2>3
  <2>5. \A m \in LoopsAround(code, l) : ivs'[Level(m)] = s[Level(m)]
    <3>1. \A m \in LoopsAround(code, l) : Level(m) \in 1 .. Len(s)
      BY <1>1, <1>2, <1>8, LevelInside
    <3>2. QED
      BY <1>8, <3>1
  <2>6. \A m \in LoopsAround(code, l + 1) : ivs'[Level(m)] \in code[m].lb .. code[m].ub - 1
    BY <1>8, <2>1, <2>4, <2>5
  <2>7. \A m : Level(m)' = Level(m)
    BY <1>8 DEF Level
  <2>8. QED
    BY <1>8, <2>2, <2>3, <2>6, <2>7 DEF IvsInv
<1>9. CASE Enter /\ Clock
  <2>1. pc \in Loops(code) /\ Op.lb < Op.ub /\ pc' = pc + 1 /\ ivs' = Append(ivs, Op.lb) /\ code' = code
    BY <1>1, <1>9 DEF Enter, Clock, Op, Loops
  <2>2. Op.lb \in code[pc].lb .. code[pc].ub - 1
    BY <1>2, <2>1 DEF Op
  <2>3. QED
    BY <1>8, <2>1, <2>2 DEF IvsInv
<1>10. CASE Skip /\ Clock
  <2>1. pc \in Loops(code) /\ pc' = End(code, pc) + 1 /\ ivs' = ivs /\ code' = code
    BY <1>1, <1>10 DEF Skip, Clock, Op, Loops
  <2>2. QED
    BY <1>1, <1>3, <2>1, AroundBody
\* At the end of l, the variables but the last are of the loops around it.
<1>11. ASSUME Op.op = "end"
       PROVE  /\ LoopOf(code, pc) \in Loops(code) /\ End(code, LoopOf(code, pc)) = pc
              /\ Len(ivs) = Cardinality(LoopsAround(code, LoopOf(code, pc))) + 1
              /\ Front(ivs) \in Seq(Int) /\ Len(Front(ivs)) = Len(ivs) - 1
              /\ Last(ivs) \in code[LoopOf(code, pc)].lb .. code[LoopOf(code, pc)].ub - 1
              /\ \A m \in LoopsAround(code, LoopOf(code, pc)) :
                   Front(ivs)[Level(m)] \in code[m].lb .. code[m].ub - 1
  <2>1. PICK l \in Loops(code) : l = LoopOf(code, pc) /\ End(code, l) = pc
    BY <1>1, <1>11 DEF Structured, Op
  <2>2. /\ LoopsAround(code, pc) = LoopsAround(code, l) \cup {l}
        /\ l \notin LoopsAround(code, l)
    BY <1>1, <1>2, <2>1, AroundBody
  <2>3. Len(ivs) = Cardinality(LoopsAround(code, l)) + 1
    BY <1>1, <2>2, NestIsFinite, FS_AddElement DEF IvsInv
  <2>4. Cardinality(LoopsAround(code, l)) \in Nat
    BY <1>1, NestIsFinite
  <2>5. Len(ivs) >= 1 /\ Level(l) = Len(ivs) /\ ivs \in Seq(Int)
    BY <2>3, <2>4 DEF Level, IvsInv
  <2>6. /\ Front(ivs) \in Seq(Int) /\ Len(Front(ivs)) = Len(ivs) - 1
        /\ \A i \in 1 .. Len(ivs) - 1 : Front(ivs)[i] = ivs[i]
        /\ Last(ivs) = ivs[Len(ivs)]
    BY <2>5, FrontOf
  <2>7. \A m \in LoopsAround(code, l) : Level(m) \in 1 .. Len(ivs) - 1
    BY <1>1, <1>2, <2>3, <2>4, LevelInside
  <2>8. \A m \in LoopsAround(code, l) : Front(ivs)[Level(m)] \in code[m].lb .. code[m].ub - 1
    BY <2>2, <2>6, <2>7 DEF IvsInv
  <2>9. Last(ivs) \in code[l].lb .. code[l].ub - 1
    BY <2>2, <2>5, <2>6 DEF IvsInv
  <2>10. QED
    BY <2>1, <2>3, <2>6, <2>8, <2>9
<1>12. CASE Turn /\ Clock
  <2>1. PICK l \in Loops(code) : l = LoopOf(code, pc)
    BY <1>11, <1>12 DEF Turn
  <2>2. /\ Last(ivs) + 1 < code[l].ub /\ pc' = l + 1 /\ code' = code
        /\ ivs' = Append(Front(ivs), Last(ivs) + 1)
    BY <1>12, <2>1 DEF Turn, Clock
  <2>3. Last(ivs) + 1 \in code[l].lb .. code[l].ub - 1
    BY <1>2, <1>11, <1>12, <2>1, <2>2 DEF Turn
  <2>4. Len(Front(ivs)) = Cardinality(LoopsAround(code, l))
    BY <1>1, <1>11, <1>12, <2>1, NestIsFinite DEF Turn
  <2>5. Front(ivs) \in Seq(Int)
    BY <1>11, <1>12 DEF Turn
  <2>6. \A m \in LoopsAround(code, l) : Front(ivs)[Level(m)] \in code[m].lb .. code[m].ub - 1
    BY <1>11, <1>12, <2>1 DEF Turn
  <2>7. QED
    BY <1>8, <2>2, <2>3, <2>4, <2>5, <2>6
<1>13. CASE Leave /\ Clock
  <2>1. PICK l \in Loops(code) : l = LoopOf(code, pc) /\ End(code, l) = pc
    BY <1>11, <1>13 DEF Leave
  <2>2. pc' = pc + 1 /\ code' = code /\ ivs' = Front(ivs)
    BY <1>13 DEF Leave, Clock
  <2>3. LoopsAround(code, pc + 1) = LoopsAround(code, l)
    BY <1>1, <2>1, AroundBody
  <2>4. Len(Front(ivs)) = Cardinality(LoopsAround(code, l)) /\ Front(ivs) \in Seq(Int)
    BY <1>1, <1>11, <1>13, <2>1, NestIsFinite DEF Leave
  <2>5. \A m \in LoopsAround(code, l) : Front(ivs)[Level(m)] \in code[m].lb .. code[m].ub - 1
    BY <1>11, <1>13, <2>1 DEF Leave
  <2>6. \A m : Level(m)' = Level(m)
    BY <2>2 DEF Level
  <2>7. QED
    BY <2>2, <2>3, <2>4, <2>5, <2>6 DEF IvsInv
<1>14. QED
  BY <1>4, <1>5, <1>6, <1>7, <1>9, <1>10, <1>12, <1>13 DEF Next

-----------------------------------------------------------------------------
(* The assertions.                                                         *)

LEMMA SmallModulo ==
  ASSUME NEW M \in Nat \ {0}, NEW x \in 0 .. M - 1
  PROVE  x % M = x
OBVIOUS

LEMMA WordIs == \A x \in 0 .. 2^WordWidth - 1 : Word(x) = x
<1>1. PICK M \in Nat \ {0} : M = 2^WordWidth
  BY Powers
<1>2. \A x \in 0 .. M - 1 : x % M = x
  BY SmallModulo
<1>3. QED
  BY <1>1, <1>2 DEF Word

\* At a call that leads a loop's body, the loops around are those in the body.
LEMMA AroundPrologue ==
  ASSUME Structured(code), NEW l \in Loops(code), NEW a \in Prologue(code, l)
  PROVE  LoopsAround(code, a) = LoopsAround(code, l) \cup {l}
<1>1. /\ l \in Int /\ a \in Int /\ l + 1 <= a
      /\ \A r \in l + 1 .. a : code[r].op = "call"
  BY DEF Structured, Loops, Prologue
<1>2. \A m \in Loops(code) : /\ m \in Int /\ End(code, m) \in Int
                             /\ m \notin l + 1 .. a /\ End(code, m) \notin l + 1 .. a
  BY <1>1 DEF Structured, Loops
<1>3. \A m \in Loops(code) : (m < a /\ a <= End(code, m)) <=> (m < l + 1 /\ l + 1 <= End(code, m))
  BY <1>1, <1>2
<1>4. LoopsAround(code, a) = LoopsAround(code, l + 1)
  BY <1>3 DEF LoopsAround
<1>5. QED
  BY <1>4, AroundBody

\* The controller is before the assertion of a body it entered, or at it and the
\* module has not displayed it.
Owes ==
  \E l \in Loops(code) : \E a \in Prologue(code, l) :
    IsAssert(code[a]) /\ l < pc /\ pc <= a /\ (pc = a /\ waiting => asserts.reg)

\* The simulation ends where the kernel returns.
EndInv == Finished => Op.op = "return"

AssertInv ==
  /\ \A i \in LinesOf(log, "assert") : log[i][2] = TRUE
  /\ AssertsOnce(code) => bodies = Cardinality(LinesOf(log, "assert")) + (IF Owes THEN 1 ELSE 0)

\* The assertion that is displayed holds.
LEMMA AssertionHolds ==
  ASSUME ControlInv, ShakeInv, IvsInv, AssertsOwn(code), asserts.reg
  PROVE  (Word(args.assert[1]) < Word(args.assert[2])) = TRUE
<1>1. waiting /\ Op.module = "assert" /\ Op.op = "call" /\ Op = code[pc] /\ pc \in DOMAIN code
  BY DEF ShakeInv, Shakes, ControlInv, Op
<1>2. args.assert = <<Last(ivs), Op.args[1]>>
  BY <1>1 DEF ShakeInv
<1>3. IsAssert(code[pc])
  BY <1>1 DEF IsAssert, IsCallOf
<1>4. PICK l \in Loops(code) : pc \in Prologue(code, l) /\ code[pc].args = <<code[l].ub>>
  BY <1>1, <1>3 DEF AssertsOwn
<1>5. Structured(code)
  BY TextRuns DEF ControlInv
<1>6. LoopsAround(code, pc) = LoopsAround(code, l) \cup {l} /\ l \notin LoopsAround(code, l)
  <2>1. \A m \in LoopsAround(code, l) : m \in Int /\ m < l
    BY <1>5, AroundBody
  <2>2. l \in Int
    BY <1>5 DEF Structured, Loops
  <2>3. LoopsAround(code, pc) = LoopsAround(code, l) \cup {l}
    BY <1>4, <1>5, AroundPrologue
  <2>4. QED
    BY <2>1, <2>2, <2>3
<1>7. Len(ivs) = Level(l) /\ Len(ivs) >= 1
  <2>1. IsFiniteSet(LoopsAround(code, l)) /\ Cardinality(LoopsAround(code, l)) \in Nat
    BY <1>5, NestIsFinite
  <2>2. Cardinality(LoopsAround(code, pc)) = Cardinality(LoopsAround(code, l)) + 1
    BY <1>6, <2>1, FS_AddElement
  <2>3. QED
    BY <2>1, <2>2 DEF IvsInv, Level
<1>8. Last(ivs) \in code[l].lb .. code[l].ub - 1
  BY <1>6, <1>7 DEF IvsInv, Last
<1>9. PICK M \in Nat \ {0} : M = 2^WordWidth
  BY Powers
<1>10. code[l].lb \in Nat /\ code[l].ub \in 0 .. M - 1
  BY <1>9 DEF AssertsOwn
<1>11. Last(ivs) \in 0 .. M - 1 /\ Last(ivs) < code[l].ub
  BY <1>8, <1>10
<1>12. Word(Last(ivs)) = Last(ivs) /\ Word(code[l].ub) = code[l].ub
  BY <1>9, <1>10, <1>11, WordIs
<1>13. QED
  BY <1>1, <1>2, <1>4, <1>10, <1>11, <1>12

\* A step keeps the lines there are and adds those of one kind at most.
OnlyAdds(kind) ==
  /\ \A other : other # kind => LinesOf(log', other) = LinesOf(log, other)
  /\ \A i \in DOMAIN log : log'[i] = log[i]

LEMMA AddsOfKind ==
  ASSUME IsLog(log), NEW t, IsLog(t), log' = log \o t, NEW kind, \A i \in 1 .. Len(t) : t[i][1] = kind
  PROVE  OnlyAdds(kind)
<1>1. PICK S : log \in Seq(S) /\ t \in Seq(S)
  BY LogsJoin
<1>2. \A other : other # kind => LinesOf(log \o t, other) = LinesOf(log, other)
  <2> SUFFICES ASSUME NEW other, other # kind PROVE LinesOf(log \o t, other) = LinesOf(log, other)
    OBVIOUS
  <2>1. \A i \in 1 .. Len(t) : t[i][1] # other
    OBVIOUS
  <2>2. QED
    BY <1>1, <2>1, LinesOther
<1>3. \A i \in DOMAIN log : (log \o t)[i] = log[i]
  BY <1>1
<1>4. QED
  BY <1>2, <1>3 DEF OnlyAdds

LEMMA AddsLine ==
  ASSUME IsLog(log), NEW x, log' = log \o <<x>>
  PROVE  OnlyAdds(x[1])
<1>1. \A i \in 1 .. Len(<<x>>) : <<x>>[i][1] = x[1]
  OBVIOUS
<1>2. QED
  BY <1>1, LineIsLog, AddsOfKind

LEMMA Undisturbed ==
  ASSUME ControlInv, ShakeInv, TypeInv, Clock
  PROVE  /\ asserts.reg => OnlyAdds("assert")
         /\ counters.reg /\ counters.pending => OnlyAdds("FINAL counter")
         /\ counters.reg /\ ~counters.pending => OnlyAdds("counter")
         /\ location.reg /\ location.pending => OnlyAdds("FINAL location")
         /\ ~asserts.reg /\ ~counters.reg /\ ~(location.reg /\ location.pending) => log' = log
<1>1. IsLog(log)
  BY DEF TypeInv
<1>2. CASE asserts.reg
  <2>1. PICK x : x = <<"assert", Word(args.assert[1]) < Word(args.assert[2])>> /\ log' = log \o <<x>>
    BY <1>2, Displays
  <2>2. OnlyAdds(x[1]) /\ x[1] = "assert"
    BY <1>1, <2>1, AddsLine
  <2>3. QED
    BY <1>2, <2>2 DEF ShakeInv, Shakes
<1>3. CASE counters.reg /\ counters.pending
  <2>1. log' = log \o FinalReport("FINAL counter", counters)
    BY <1>3, Displays
  <2>2. OnlyAdds("FINAL counter")
    BY <1>1, <2>1, ReportLines, AddsOfKind
  <2>3. QED
    BY <1>3, <2>2 DEF ShakeInv, Shakes
<1>4. CASE counters.reg /\ ~counters.pending
  <2>1. CASE PRINT_ON_STOP
    <3>1. PICK x : /\ x = <<"counter", args.counters[2], counters.counters[LocIdx(args.counters[2])]>>
                   /\ log' = log \o <<x>>
      BY <1>4, <2>1, Displays
    <3>2. OnlyAdds(x[1]) /\ x[1] = "counter"
      BY <1>1, <3>1, AddsLine
    <3>3. QED
      BY <1>4, <3>2 DEF ShakeInv, Shakes
  <2>2. CASE ~PRINT_ON_STOP
    <3>1. log' = log \o << >>
      BY <1>4, <2>2, Displays
    <3>2. OnlyAdds("counter")
      BY <1>1, <3>1, LogsJoin DEF OnlyAdds
    <3>3. QED
      BY <1>4, <3>2 DEF ShakeInv, Shakes
  <2>3. QED
    BY <2>1, <2>2
<1>5. CASE location.reg /\ location.pending
  <2>1. log' = log \o FinalReport("FINAL location", location)
    BY <1>5, Displays
  <2>2. OnlyAdds("FINAL location")
    BY <1>1, <2>1, ReportLines, AddsOfKind
  <2>3. QED
    BY <1>5, <2>2 DEF ShakeInv, Shakes
<1>6. CASE location.reg /\ ~location.pending
  <2>1. log' = log \o << >>
    BY <1>6, Displays
  <2>2. QED
    BY <1>1, <1>6, <2>1, LogsJoin DEF ShakeInv, Shakes
<1>7. CASE ~asserts.reg /\ ~counters.reg /\ ~location.reg
  BY <1>7, Displays
<1>8. QED
  BY <1>2, <1>3, <1>4, <1>5, <1>6, <1>7

\* The simulation ends at the return, where the log gets its last line.
LEMMA FinishAppends ==
  ASSUME TypeInv, Finish
  PROVE  OnlyAdds("cycles") /\ LinesOf(log', "cycles") # {}
<1>1. IsLog(log)
  BY DEF TypeInv
<1>2. PICK x : x = <<"cycles", cycles>> /\ log' = Append(log, x)
  BY DEF Finish
<1>3. log' = log \o <<x>> /\ Len(log) + 1 \in DOMAIN log' /\ log'[Len(log) + 1] = x
  <2>1. PICK S : log \in Seq(S) /\ <<x>> \in Seq(S)
    BY <1>1, LineIsLog, LogsJoin
  <2>2. Append(log, x) = log \o <<x>> /\ log \o <<x>> \in Seq(S) /\ Len(log \o <<x>>) = Len(log) + 1
    BY <2>1
  <2>3. (log \o <<x>>)[Len(log) + 1] = x /\ Len(log) + 1 \in DOMAIN (log \o <<x>>)
    BY <2>1
  <2>4. QED
    BY <1>2, <2>2, <2>3
<1>4. OnlyAdds(x[1]) /\ x[1] = "cycles"
  BY <1>1, <1>2, <1>3, AddsLine
<1>5. Len(log) + 1 \in LinesOf(log', "cycles")
  BY <1>3, <1>4 DEF LinesOf
<1>6. QED
  BY <1>4, <1>5

\* A clock edge ends no simulation and changes no line that was displayed.
LEMMA ClockAdds ==
  ASSUME ControlInv, ShakeInv, TypeInv, Clock
  PROVE  /\ LinesOf(log', "cycles") = LinesOf(log, "cycles")
         /\ \A i \in DOMAIN log : log'[i] = log[i]
         /\ ~asserts.reg => LinesOf(log', "assert") = LinesOf(log, "assert")
<1>1. CASE asserts.reg
  BY <1>1, Undisturbed DEF OnlyAdds
<1>2. CASE ~asserts.reg
  BY <1>2, Undisturbed DEF OnlyAdds
<1>3. QED
  BY <1>1, <1>2

LEMMA LinesAreCounted ==
  ASSUME NEW s, IsLog(s), NEW kind
  PROVE  Cardinality(LinesOf(s, kind)) \in Nat
<1>1. PICK S : s \in Seq(S)
  BY DEF IsLog
<1>2. << >> \in Seq(S) /\ \A i \in 1 .. Len(<< >>) : << >>[i][1] = kind
  OBVIOUS
<1>3. QED
  BY <1>1, <1>2, LinesCount

LEMMA OneLine ==
  ASSUME NEW s, IsLog(s), NEW x
  PROVE  /\ Len(s) \in Nat /\ DOMAIN s = 1 .. Len(s) /\ (s \o <<x>>)[Len(s) + 1] = x
         /\ LinesOf(s \o <<x>>, x[1]) = LinesOf(s, x[1]) \cup {Len(s) + 1}
         /\ Cardinality(LinesOf(s \o <<x>>, x[1])) = Cardinality(LinesOf(s, x[1])) + 1
<1>1. PICK S : s \in Seq(S) /\ <<x>> \in Seq(S)
  BY LineIsLog, LogsJoin
<1>2. Len(s) \in Nat /\ DOMAIN s = 1 .. Len(s) /\ Len(<<x>>) = 1 /\ (s \o <<x>>)[Len(s) + 1] = x
  BY <1>1
<1>3. \A i \in 1 .. Len(<<x>>) : <<x>>[i][1] = x[1]
  OBVIOUS
<1>4. LinesOf(s \o <<x>>, x[1]) = LinesOf(s, x[1]) \cup (Len(s) + 1 .. Len(s) + Len(<<x>>))
  BY <1>1, <1>3, LinesSame
<1>5. Cardinality(LinesOf(s \o <<x>>, x[1])) = Cardinality(LinesOf(s, x[1])) + Len(<<x>>)
  BY <1>1, <1>3, LinesCount
<1>6. Len(s) + 1 .. Len(s) + 1 = {Len(s) + 1}
  BY <1>2
<1>7. QED
  BY <1>2, <1>4, <1>5, <1>6

LEMMA EndInit == Init => EndInv
BY DEF Init, EndInv, Finished, LinesOf

LEMMA EndStep ==
  ASSUME ControlInv, ShakeInv, TypeInv, EndInv, [Next]_vars
  PROVE  EndInv'
<1>1. CASE UNCHANGED vars
  BY <1>1 DEF vars, EndInv, Finished, Op
<1>2. CASE Finish
  BY <1>2 DEF Finish, EndInv, Op
<1>3. CASE Clock /\ Next /\ ~Finish
  <2>1. Op.op # "return"
    BY <1>3 DEF Next, Issue, Await, Resume, Enter, Skip, Turn, Leave, Compute
  <2>2. QED
    BY <1>3, <2>1, ClockAdds DEF EndInv, Finished
<1>4. QED
  BY <1>1, <1>2, <1>3 DEF Next

LEMMA OwesInCalls ==
  ASSUME ControlInv
  PROVE  /\ Owes => Op.op = "call"
         /\ \A l \in Loops(code) : \A a \in Prologue(code, l) : l \in Int /\ a \in Int /\ l < a
                                                             /\ code[a].op = "call"
<1>1. Structured(code) /\ pc \in DOMAIN code /\ pc \in Int
  BY TextRuns DEF ControlInv, Structured
<1>2. ASSUME NEW l \in Loops(code), NEW a \in Prologue(code, l)
      PROVE  /\ l \in Int /\ a \in Int /\ l < a /\ code[a].op = "call"
             /\ \A r \in Int : l < r /\ r <= a => code[r].op = "call"
  BY <1>1, <1>2 DEF Structured, Loops, Prologue
<1>3. Owes => code[pc].op = "call"
  BY <1>1, <1>2 DEF Owes
<1>4. QED
  BY <1>2, <1>3 DEF Op

LEMMA AssertInit == Init => AssertInv
<1> SUFFICES ASSUME Init PROVE AssertInv
  OBVIOUS
<1>1. log = << >> /\ bodies = 0 /\ pc = 1
  BY DEF Init
<1>2. \A kind : LinesOf(log, kind) = {}
  BY <1>1 DEF LinesOf
<1>3. ~Owes
  <2>1. Structured(code)
    BY ControlInit, TextRuns DEF ControlInv
  <2>2. \A l \in Loops(code) : l \in Int /\ l >= 1
    BY <2>1 DEF Structured, Loops
  <2>3. QED
    BY <1>1, <2>2 DEF Owes
<1>4. Cardinality({}) = 0
  BY FS_EmptySet
<1>5. bodies = Cardinality(LinesOf(log, "assert")) + (IF Owes THEN 1 ELSE 0)
  <2>1. LinesOf(log, "assert") = {}
    BY <1>2
  <2>2. bodies = 0 + 0
    BY <1>1
  <2>3. QED
    BY <1>3, <1>4, <2>1, <2>2, Zenon
<1>6. QED
  BY <1>2, <1>5 DEF AssertInv

\* The bodies entered and not yet asserted, through a call.
LEMMA OwesInCall ==
  ASSUME ControlInv, ShakeInv, TypeInv, Clock, Issue \/ Await \/ Resume, ~asserts.reg
  PROVE  Owes' <=> Owes
<1>1. Op.op = "call" /\ pc \in DOMAIN code /\ pc \in Int /\ Op = code[pc] /\ Structured(code)
  BY TextRuns DEF ControlInv, Structured, Op, Issue, Await, Resume
<1>2. asserts'.reg = Starts("assert") /\ code' = code
  BY EdgesOf DEF Clock, Edges
<1>3. \A l \in Loops(code) : l \in Int /\ l # pc
  BY <1>1 DEF Structured, Loops
<1>4. CASE Issue
  <2>1. pc' = pc /\ waiting' = TRUE /\ ~waiting
    BY <1>4 DEF Issue
  <2>2. IsAssert(code[pc]) => asserts'.reg
    BY <1>1, <1>2, <2>1 DEF Starts, IsAssert, IsCallOf
  <2>3. QED
    BY <1>2, <2>1, <2>2 DEF Owes
<1>5. CASE Await
  <2>1. pc' = pc /\ waiting' = waiting /\ waiting
    BY <1>5 DEF Await
  <2>2. ~asserts'.reg
    BY <1>2, <2>1 DEF Starts
  <2>3. QED
    BY <1>2, <2>1, <2>2 DEF Owes
<1>6. CASE Resume
  <2>1. pc' = pc + 1 /\ waiting' = FALSE /\ waiting = TRUE
    BY <1>6 DEF Resume, ControlInv
  <2>2. \A l \in Loops(code) : \A a \in Prologue(code, l) :
          /\ l < pc /\ pc <= a /\ pc # a <=> l < pc + 1 /\ pc + 1 <= a
          /\ a \in Int
    BY <1>1, <1>3, OwesInCalls
  <2>3. Owes <=> \E l \in Loops(code) : \E a \in Prologue(code, l) :
                   IsAssert(code[a]) /\ l < pc /\ pc <= a /\ pc # a
    BY <2>1 DEF Owes
  <2>4. Owes' <=> \E l \in Loops(code) : \E a \in Prologue(code, l) :
                    IsAssert(code[a]) /\ l < pc + 1 /\ pc + 1 <= a
    BY <1>2, <2>1 DEF Owes
  <2>5. QED
    BY <2>2, <2>3, <2>4
<1>7. QED
  BY <1>4, <1>5, <1>6

\* A body is entered where its assertion is still to come.
LEMMA OwesInMoves ==
  ASSUME ControlInv, AssertsOnce(code), code' = code, NEW x, Moves(x)
  PROVE  ~Owes /\ (Owes' <=> code[x].op = "for")
<1>1. ~Owes
  BY OwesInCalls DEF Moves
<1>2. x \in Int /\ code[x].op # "call" /\ pc' = x + 1 /\ ~waiting' /\ Structured(code) /\ x \in DOMAIN code
  BY TextRuns DEF Moves, Structured, ControlInv
<1>3. ASSUME Owes' PROVE code[x].op = "for"
  <2>1. PICK l \in Loops(code) : \E a \in Prologue(code, l) : l < x + 1 /\ x + 1 <= a
    BY <1>2, <1>3 DEF Owes
  <2>2. PICK a \in Prologue(code, l) : l < x + 1 /\ x + 1 <= a
    BY <2>1
  <2>3. l \in Int /\ a \in Int /\ \A r \in l + 1 .. a : code[r].op = "call"
    BY <1>2, OwesInCalls DEF Prologue
  <2>4. l = x
    BY <1>2, <2>2, <2>3
  <2>5. QED
    BY <2>4 DEF Loops
<1>4. ASSUME code[x].op = "for" PROVE Owes'
  <2>1. x \in Loops(code)
    BY <1>2, <1>4 DEF Loops
  <2>2. PICK a \in Prologue(code, x) : IsAssert(code[a])
    BY <2>1 DEF AssertsOnce
  <2>3. x < x + 1 /\ x + 1 <= a
    BY <1>2, <2>1, <2>2, OwesInCalls
  <2>4. QED
    BY <1>2, <2>1, <2>2, <2>3 DEF Owes
<1>5. QED
  BY <1>1, <1>3, <1>4

\* The display of an assertion is the one that was owed.
LEMMA OwesNoMore ==
  ASSUME ControlInv, ShakeInv, AssertsOwn(code), AssertsOnce(code), Clock, Await, asserts.reg
  PROVE  Owes /\ ~Owes'
<1>1. /\ Op.op = "call" /\ Op.module = "assert" /\ pc \in Int /\ pc \in DOMAIN code /\ Op = code[pc] /\ waiting
      /\ pc' = pc /\ waiting' = waiting /\ Structured(code) /\ code' = code
  BY TextRuns DEF ControlInv, Structured, Op, Await, Shakes, ShakeInv, Clock
<1>2. ~asserts'.reg
  BY <1>1, EdgesOf DEF Edges, Starts
<1>3. IsAssert(code[pc])
  BY <1>1 DEF IsAssert, IsCallOf
<1>4. Owes
  <2>1. PICK l \in Loops(code) : pc \in Prologue(code, l)
    BY <1>1, <1>3 DEF AssertsOwn
  <2>2. QED
    BY <1>1, <1>3, <2>1, OwesInCalls DEF Owes
<1>5. ASSUME Owes' PROVE FALSE
  <2>1. PICK l \in Loops(code) : \E a \in Prologue(code, l) :
          IsAssert(code[a]) /\ l < pc /\ pc <= a /\ (pc = a => asserts'.reg)
    BY <1>1, <1>5 DEF Owes
  <2>2. PICK a \in Prologue(code, l) : IsAssert(code[a]) /\ l < pc /\ pc <= a /\ pc # a
    BY <1>2, <2>1
  <2>3. pc \in Prologue(code, l)
    <3>1. /\ a \in l + 1 .. End(code, l) /\ End(code, l) \in Int /\ l \in Int
          /\ \A r \in l + 1 .. a : code[r].op = "call"
      BY <1>1 DEF Prologue, Structured, Loops
    <3>2. pc \in l + 1 .. End(code, l) /\ \A r \in l + 1 .. pc : r \in l + 1 .. a
      BY <1>1, <2>2, <3>1
    <3>3. QED
      BY <3>1, <3>2 DEF Prologue
  <2>4. QED
    BY <1>3, <2>2, <2>3 DEF AssertsOnce
<1>6. QED
  BY <1>4, <1>5

LEMMA AssertStep ==
  ASSUME ControlInv, ShakeInv, TypeInv, IvsInv, AssertsOwn(code), AssertInv, [Next]_vars
  PROVE  AssertInv'
<1> DEFINE Count == Cardinality(LinesOf(log, "assert"))
<1>2. ASSUME LinesOf(log', "assert") = LinesOf(log, "assert"), code' = code,
             \A i \in DOMAIN log : log'[i] = log[i],
             AssertsOnce(code) => bodies' + (IF Owes THEN 1 ELSE 0) = bodies + (IF Owes' THEN 1 ELSE 0)
      PROVE  AssertInv'
  <2>1. \A i \in LinesOf(log', "assert") : log'[i][2] = TRUE
    BY <1>2 DEF AssertInv, LinesOf
  <2>3. Count \in Nat /\ bodies \in Nat
    BY LinesAreCounted DEF TypeInv
  <2>4. AssertsOnce(code) => bodies' = Cardinality(LinesOf(log', "assert")) + (IF Owes' THEN 1 ELSE 0)
    <3> SUFFICES ASSUME AssertsOnce(code)
                 PROVE  bodies' = Cardinality(LinesOf(log', "assert")) + (IF Owes' THEN 1 ELSE 0)
      OBVIOUS
    <3>1. bodies = Count + (IF Owes THEN 1 ELSE 0)
      BY DEF AssertInv
    <3>2. bodies' + (IF Owes THEN 1 ELSE 0) = bodies + (IF Owes' THEN 1 ELSE 0)
      BY <1>2
    <3>3. bodies' \in Nat
      <4>1. CASE UNCHANGED vars \/ Finish
        BY <2>3, <4>1 DEF vars, ghosts, Finish
      <4>2. CASE (Issue \/ Await \/ Resume) /\ Clock
        BY <2>3, <4>2 DEF Issue, Await, Resume, ghosts
      <4>3. CASE (Enter \/ Skip \/ Turn \/ Leave \/ Compute) /\ Clock
        BY <2>3, <4>3, ControlMoves DEF Moves
      <4>4. QED
        BY <4>1, <4>2, <4>3 DEF Next
    <3>4. PICK n \in Nat : n = Count
      BY <2>3
    <3>5. bodies' = n + (IF Owes' THEN 1 ELSE 0)
      BY <2>3, <3>1, <3>2, <3>3, <3>4
    <3>6. QED
      BY <1>2, <3>4, <3>5
  <2>5. QED
    BY <1>2, <2>1, <2>4 DEF AssertInv
<1>3. CASE UNCHANGED vars
  <2>1. log' = log /\ code' = code /\ bodies' = bodies /\ (Owes' <=> Owes)
    BY <1>3 DEF vars, modules, ghosts, Owes
  <2>2. QED
    BY <1>2, <2>1
<1>4. CASE Finish
  <2>1. code' = code /\ bodies' = bodies /\ (Owes' <=> Owes)
    BY <1>4 DEF Finish, modules, ghosts, Owes
  <2>2. LinesOf(log', "assert") = LinesOf(log, "assert") /\ \A i \in DOMAIN log : log'[i] = log[i]
    BY <1>4, FinishAppends DEF OnlyAdds
  <2>3. QED
    BY <1>2, <2>1, <2>2
<1>5. CASE Clock /\ ~asserts.reg /\ (Issue \/ Await \/ Resume)
  <2>1. code' = code /\ bodies' = bodies
    BY <1>5 DEF Clock, Issue, Await, Resume, ghosts
  <2>2. QED
    BY <1>2, <1>5, <2>1, ClockAdds, OwesInCall
<1>6. CASE Clock /\ \E x : Moves(x)
  <2>1. PICK x : Moves(x)
    BY <1>6
  <2>2. ~asserts.reg
    BY <2>1 DEF Moves, ShakeInv, Shakes
  <2>3. code' = code /\ bodies' = bodies + (IF code[x].op = "for" THEN 1 ELSE 0)
    BY <1>6, <2>1 DEF Clock, Moves
  <2>4. AssertsOnce(code) => bodies' + (IF Owes THEN 1 ELSE 0) = bodies + (IF Owes' THEN 1 ELSE 0)
    BY <2>1, <2>3, OwesInMoves DEF TypeInv
  <2>5. QED
    BY <1>2, <1>6, <2>2, <2>3, <2>4, ClockAdds
<1>7. CASE Clock /\ Next /\ asserts.reg
  <2>1. waiting /\ Op.module = "assert" /\ ~asserts.done /\ Op.op = "call"
    BY <1>7 DEF ShakeInv, Shakes, ControlInv
  <2>2. Await /\ bodies' = bodies /\ code' = code
    <3>1. ~Resume /\ ~Issue
      BY <2>1 DEF Resume, Issue, Done
    <3>2. ~(Enter \/ Skip \/ Turn \/ Leave \/ Compute \/ Finish)
      BY <2>1 DEF Enter, Skip, Turn, Leave, Compute, Finish
    <3>3. Await
      BY <1>7, <3>1, <3>2 DEF Next
    <3>4. QED
      BY <1>7, <3>3 DEF Await, ghosts, Clock
  <2>3. PICK x : x = <<"assert", TRUE>> /\ log' = log \o <<x>>
    BY <1>7, Displays, AssertionHolds
  <2>4. x[1] = "assert" /\ x[2] = TRUE /\ IsLog(log)
    BY <2>3 DEF TypeInv
  <2>5. /\ LinesOf(log', "assert") = LinesOf(log, "assert") \cup {Len(log) + 1}
        /\ Cardinality(LinesOf(log', "assert")) = Count + 1 /\ Count \in Nat
        /\ log'[Len(log) + 1] = x
    <3>1. /\ (log \o <<x>>)[Len(log) + 1] = x
          /\ LinesOf(log \o <<x>>, x[1]) = LinesOf(log, x[1]) \cup {Len(log) + 1}
          /\ Cardinality(LinesOf(log \o <<x>>, x[1])) = Cardinality(LinesOf(log, x[1])) + 1
      BY <2>4, OneLine, Zenon
    <3>2. Count \in Nat
      BY <2>4, LinesAreCounted
    <3>3. PICK k : k = x[1] /\ k = "assert"
      BY <2>4
    <3>4. QED
      BY <2>3, <3>1, <3>2, <3>3, Zenon
  <2>6. \A i \in DOMAIN log : log'[i] = log[i]
    BY <1>7, ClockAdds
  <2>7. \A i \in LinesOf(log', "assert") : log'[i][2] = TRUE
    BY <2>4, <2>5, <2>6 DEF AssertInv, LinesOf
  <2>8. AssertsOnce(code) => bodies' = Cardinality(LinesOf(log', "assert")) + (IF Owes' THEN 1 ELSE 0)
    <3> SUFFICES ASSUME AssertsOnce(code)
                 PROVE  bodies' = Cardinality(LinesOf(log', "assert")) + (IF Owes' THEN 1 ELSE 0)
      OBVIOUS
    <3>1. Owes /\ ~Owes'
      BY <1>7, <2>2, OwesNoMore
    <3>2. bodies = Count + 1
      BY <3>1 DEF AssertInv
    <3>3. QED
      BY <2>2, <2>5, <3>1, <3>2
  <2>9. QED
    BY <2>2, <2>7, <2>8 DEF AssertInv
<1>8. QED
  BY <1>3, <1>4, <1>5, <1>6, <1>7, ControlMoves DEF Next, TypeInv

\* What the invariant says of a log that ends.
LEMMA AssertInvSuffices ==
  ASSUME ControlInv, TypeInv, EndInv, AssertInv, Has("assert-bounds") => AssertsOnce(code)
  PROVE  AssertsHold
<1>1. \A i \in LinesOf(log, "assert") : log[i][2] = TRUE
  BY DEF AssertInv
<1>2. {i \in LinesOf(log, "assert") : log[i][2] = FALSE} = {}
  BY <1>1
<1>3. {i \in LinesOf(log, "assert") : log[i][2] = TRUE} = LinesOf(log, "assert")
  BY <1>1
<1>4. assertion_results(log)[FALSE] = 0
  BY <1>2, FS_EmptySet DEF assertion_results
<1>5. assertion_results(log)[TRUE] = Cardinality(LinesOf(log, "assert"))
  BY <1>3 DEF assertion_results
<1>6. ASSUME Finished, Has("assert-bounds") PROVE assertion_results(log)[TRUE] = bodies
  <2>1. Op.op = "return"
    BY <1>6 DEF EndInv
  <2>2. ~Owes
    BY <2>1, OwesInCalls
  <2>3. bodies = Cardinality(LinesOf(log, "assert")) + 0
    BY <1>6, <2>2 DEF AssertInv
  <2>4. Cardinality(LinesOf(log, "assert")) \in Nat
    BY LinesAreCounted DEF TypeInv
  <2>5. QED
    BY <1>5, <2>3, <2>4
<1>7. QED
  BY <1>4, <1>6 DEF AssertsHold

-----------------------------------------------------------------------------
(* The final reports.                                                      *)

\* A controller at p, which waits or does not (w), is past the report of a module,
\* or at it and the module, by its reg, has displayed it.
ReportedAt(module, p, w, reg) ==
  \E q \in DOMAIN code : Reports(code[q], module) /\ (q < p \/ (q = p /\ w /\ ~reg))

\* The lines of a kind in s are one report, from line k + 1 on.
ShowsReport(s, k, kind, shown) ==
  /\ k \in Nat
  /\ LinesOf(s, kind) = k + 1 .. k + 2^LocWidth
  /\ \A l \in Locations : s[k + 1 + l] = <<kind, l, shown[l]>>

\* What was shown of the locations is what they hold, but for the active one, and
\* sums up to the cycle after the one in which it was asked for.
LocationsFinal(shown) ==
  /\ \A l \in Locations \ {location.current} : shown[l] = location.counters[l]
  /\ SumFunction(shown) % 2^CounterWidth = Bump(asked)

LocationReported ==
  ReportsAtEnd(code, "location") =>
    IF ReportedAt("location", pc, waiting, location.reg)
    THEN \E k \in Nat, shown \in [Locations -> Int] :
           ShowsReport(log, k, "FINAL location", shown) /\ LocationsFinal(shown)
    ELSE LinesOf(log, "FINAL location") = {}

CountersReported ==
  ReportsAtEnd(code, "counters") =>
    IF ReportedAt("counters", pc, waiting, counters.reg)
    THEN \E k \in Nat : ShowsReport(log, k, "FINAL counter", counters.counters)
    ELSE LinesOf(log, "FINAL counter") = {}

\* The locations' report is displayed in the cycle after the one it was asked for in.
AskedNow == location.reg /\ location.pending => cycles = Bump(asked)

ReportInv == AskedNow /\ LocationReported /\ CountersReported

LEMMA TailOnce ==
  ASSUME ControlInv, NEW module, ReportsAtEnd(code, module),
         NEW q \in DOMAIN code, Reports(code[q], module)
  PROVE  /\ q \in Int /\ q < Len(code) /\ code[q].op = "call"
         /\ \A r \in DOMAIN code : q <= r /\ r < Len(code) => code[r].op = "call"
         /\ \A r \in DOMAIN code : q < r /\ r < Len(code) => code[r].module # module
         /\ \A r \in DOMAIN code : Reports(code[r], module) => r = q
<1>1. DOMAIN code = 1 .. Len(code) /\ Len(code) \in Nat /\ code[q].op = "call"
  BY TextRuns DEF ControlInv, Reports
<1>2. q \in Int /\ q < Len(code)
  <2>1. code[q].op # "return"
    BY <1>1
  <2>2. q # Len(code)
    BY <2>1, TextRuns DEF ControlInv
  <2>3. QED
    BY <1>1, <2>2
<1>3. \A p \in DOMAIN code : Reports(code[p], module) =>
        \A r \in p + 1 .. Len(code) - 1 : code[r].op = "call" /\ code[r].module # module
  BY DEF ReportsAtEnd
<1>4. \A r \in DOMAIN code : Reports(code[r], module) => r = q
  <2> SUFFICES ASSUME NEW r \in DOMAIN code, Reports(code[r], module) PROVE r = q
    OBVIOUS
  <2>1. r # Len(code)
    <3>1. code[r].op # "return"
      BY DEF Reports
    <3>2. QED
      BY <3>1, TextRuns DEF ControlInv
  <2>2. r = q \/ r \in q + 1 .. Len(code) - 1 \/ q \in r + 1 .. Len(code) - 1
    BY <1>1, <1>2, <2>1
  <2>3. code[r].module = module /\ code[q].module = module
    BY DEF Reports
  <2>4. QED
    BY <1>3, <2>2, <2>3
<1>5. \A r \in DOMAIN code : q < r /\ r < Len(code) => r \in q + 1 .. Len(code) - 1
  BY <1>1, <1>2
<1>6. \A r \in DOMAIN code : q < r /\ r < Len(code) => code[r].op = "call" /\ code[r].module # module
  BY <1>3, <1>5
<1>7. \A r \in DOMAIN code : q <= r => r = q \/ q < r
  BY <1>1, <1>2
<1>8. QED
  BY <1>1, <1>2, <1>4, <1>6, <1>7

\* The calls that end the function are in no loop: no move crosses a report.
LEMMA MovesAside ==
  ASSUME ControlInv, NEW x, Moves(x), NEW q \in DOMAIN code, q \in Int, code[q].op = "call",
         \A r \in DOMAIN code : q <= r /\ r < Len(code) => code[r].op = "call"
  PROVE  q # pc /\ (q < pc <=> q < x + 1)
<1>1. /\ pc \in DOMAIN code /\ pc \in Int /\ x \in DOMAIN code /\ x \in Int /\ Structured(code)
      /\ Len(code) \in Nat /\ DOMAIN code = 1 .. Len(code)
  BY TextRuns DEF ControlInv, Moves, Structured
<1>2. code[pc].op # "call" /\ code[x].op # "call" /\ pc < Len(code) /\ x < Len(code)
  <2>1. code[pc].op \notin {"call", "return"} /\ code[x].op \notin {"call", "return"}
    BY DEF Moves, Op
  <2>2. pc # Len(code) /\ x # Len(code)
    BY <1>1, <2>1, TextRuns DEF ControlInv
  <2>3. QED
    BY <1>1, <2>1, <2>2
<1>3. ~(q <= pc) /\ ~(q <= x)
  BY <1>1, <1>2
<1>4. QED
  BY <1>1, <1>3

\* A step leads past a report exactly where its module displays it.
LEMMA ReportedStep ==
  ASSUME ControlInv, Next, Clock, ~Finish, bodies \in Nat,
         NEW module \in {"location", "counters"}, ReportsAtEnd(code, module),
         NEW b \in BOOLEAN, NEW c \in BOOLEAN, c = Starts(module),
         waiting /\ Op.module = module => b = ~Done(module)
  PROVE  /\ waiting /\ b /\ Reports(Op, module) =>
              ~ReportedAt(module, pc, waiting, b) /\ (Await => ReportedAt(module, pc', waiting', c))
         /\ ~(waiting /\ b /\ Reports(Op, module)) =>
              (ReportedAt(module, pc', waiting', c) <=> ReportedAt(module, pc, waiting, b))
<1>1. pc \in DOMAIN code /\ pc \in Int /\ Op = code[pc]
  BY TextRuns DEF ControlInv, Op, Structured
<1>2. CASE \A q \in DOMAIN code : ~Reports(code[q], module)
  BY <1>1, <1>2 DEF ReportedAt
<1>3. ASSUME NEW q \in DOMAIN code, Reports(code[q], module) PROVE
         /\ waiting /\ b /\ Reports(Op, module) =>
              ~ReportedAt(module, pc, waiting, b) /\ (Await => ReportedAt(module, pc', waiting', c))
         /\ ~(waiting /\ b /\ Reports(Op, module)) =>
              (ReportedAt(module, pc', waiting', c) <=> ReportedAt(module, pc, waiting, b))
  <2>1. /\ q \in Int /\ code[q].op = "call" /\ code[q].module = module
        /\ \A r \in DOMAIN code : q <= r /\ r < Len(code) => code[r].op = "call"
        /\ \A r \in DOMAIN code : Reports(code[r], module) => r = q
    BY <1>3, TailOnce DEF Reports
  <2>2. /\ ReportedAt(module, pc, waiting, b) <=> q < pc \/ (q = pc /\ waiting /\ ~b)
        /\ ReportedAt(module, pc', waiting', c) <=> q < pc' \/ (q = pc' /\ waiting' /\ ~c)
    BY <1>3, <2>1 DEF ReportedAt
  <2>3. Reports(Op, module) <=> q = pc
    BY <1>1, <1>3, <2>1
  <2>4. CASE Issue
    <3>1. pc' = pc /\ waiting' = TRUE /\ ~waiting /\ Op.op = "call"
      BY <2>4 DEF Issue
    <3>2. q = pc => c = TRUE
      BY <1>1, <2>1, <3>1 DEF Starts
    <3>3. QED
      BY <2>2, <3>1, <3>2
  <2>5. CASE Await
    <3>1. pc' = pc /\ waiting' = waiting /\ waiting /\ ~Done(Op.module)
      BY <2>5 DEF Await
    <3>2. c = FALSE
      BY <3>1 DEF Starts
    <3>3. q = pc => b = TRUE
      BY <1>1, <2>1, <3>1
    <3>4. CASE q = pc
      <4>1. ~ReportedAt(module, pc, waiting, b) /\ ReportedAt(module, pc', waiting', c)
        <5>1. ~(q < pc) /\ ~c /\ b /\ pc' = pc /\ waiting'
          BY <1>1, <3>1, <3>2, <3>3, <3>4
        <5>2. QED
          BY <2>2, <3>4, <5>1, Zenon
      <4>2. QED
        BY <2>3, <3>1, <3>3, <3>4, <4>1
    <3>5. CASE q # pc
      <4>1. ReportedAt(module, pc', waiting', c) <=> ReportedAt(module, pc, waiting, b)
        BY <2>2, <3>1, <3>5
      <4>2. QED
        BY <2>3, <3>5, <4>1
    <3>6. QED
      BY <3>4, <3>5
  <2>6. CASE Resume
    <3>1. pc' = pc + 1 /\ waiting' = FALSE /\ waiting /\ Done(Op.module)
      BY <2>6 DEF Resume
    <3>2. q = pc => b = FALSE
      BY <1>1, <2>1, <3>1
    <3>3. ~Await
      BY <3>1 DEF Await
    <3>4. q < pc + 1 <=> q < pc \/ q = pc
      BY <1>1, <2>1
    <3>5. QED
      BY <1>1, <2>1, <2>2, <2>3, <3>1, <3>2, <3>3, <3>4
  <2>7. CASE \E x : Moves(x)
    <3>1. PICK x : Moves(x)
      BY <2>7
    <3>2. q # pc /\ (q < pc <=> q < x + 1)
      BY <2>1, <3>1, MovesAside
    <3>3. x \in Int /\ pc' = x + 1 /\ ~waiting /\ ~waiting'
      BY <3>1, TextRuns DEF Moves, ControlInv, Structured
    <3>4. QED
      BY <2>2, <3>2, <3>3
  <2>8. QED
    BY <2>4, <2>5, <2>6, <2>7, ControlMoves DEF Next
<1>4. QED
  BY <1>2, <1>3

LEMMA AtText ==
  ASSUME ControlInv
  PROVE  /\ pc \in DOMAIN code /\ pc \in Int /\ Op = code[pc] /\ Structured(code)
         /\ DOMAIN code = 1 .. Len(code) /\ Len(code) \in Nat
         /\ Op.op # "return" => pc < Len(code)
<1>1. DOMAIN code = 1 .. Len(code) /\ Len(code) \in Nat /\ Structured(code)
  BY TextRuns DEF ControlInv
<1>2. pc \in DOMAIN code /\ (code[pc].op = "return" <=> pc = Len(code))
  BY TextRuns DEF ControlInv
<1>3. Op = code[pc]
  BY DEF Op
<1>4. pc \in Int /\ pc <= Len(code)
  BY <1>1, <1>2
<1>5. QED
  BY <1>1, <1>2, <1>3, <1>4

\* A report's display is pending where the controller awaits a call that asks for one.
LEMMA PendingReports ==
  ASSUME ControlInv, ShakeInv
  PROVE  /\ location.reg /\ location.pending <=> waiting /\ location.reg /\ Reports(Op, "location")
         /\ counters.reg /\ counters.pending <=> waiting /\ counters.reg /\ Reports(Op, "counters")
<1>1. location.reg => /\ waiting /\ Op.op = "call" /\ Op.module = "location"
                      /\ (location.pending <=> Op.args[1] = Report)
  BY DEF ShakeInv, Shakes, ControlInv
<1>2. counters.reg => /\ waiting /\ Op.op = "call" /\ Op.module = "counters"
                      /\ (counters.pending <=> Op.args[2] = Report)
  BY DEF ShakeInv, Shakes, ControlInv
<1>3. QED
  BY <1>1, <1>2 DEF Reports

\* A module that was asked for its report is called no more.
LEMMA CallsNoMore ==
  ASSUME ControlInv, NEW module, ReportsAtEnd(code, module),
         NEW reg, ReportedAt(module, pc, waiting, reg)
  PROVE  ~Starts(module)
<1> SUFFICES ASSUME Starts(module) PROVE FALSE
  OBVIOUS
<1>1. Op.op = "call" /\ Op.module = module /\ ~waiting
  BY DEF Starts
<1>2. PICK q \in DOMAIN code : Reports(code[q], module) /\ q < pc
  BY <1>1 DEF ReportedAt
<1>3. pc \in DOMAIN code /\ pc < Len(code) /\ Op = code[pc]
  BY <1>1, AtText
<1>4. QED
  BY <1>1, <1>2, <1>3, TailOnce

\* The locations are asked for their report where its call starts.
LEMMA AsksWhere ==
  ASSUME Next, Clock, ~Finish
  PROVE  asked' = IF Starts("location") /\ Reports(Op, "location") THEN cycles ELSE asked
<1>1. CASE Issue
  BY <1>1 DEF Issue, Starts, Reports
<1>2. CASE Await \/ Resume
  BY <1>2 DEF Await, Resume, ghosts, Starts
<1>3. CASE Enter \/ Skip \/ Turn \/ Leave \/ Compute
  BY <1>3 DEF Enter, Skip, Turn, Leave, Compute, ghosts, Starts
<1>4. QED
  BY <1>1, <1>2, <1>3 DEF Next

LEMMA AskedStep ==
  ASSUME Next, Clock, ~Finish
  PROVE  AskedNow'
<1> SUFFICES ASSUME location'.pending PROVE cycles' = Bump(asked')
  BY DEF AskedNow, Bump
<1>1. Starts("location") /\ Wires("location")[1] = Report
  BY EdgesOf
<1>2. Reports(Op, "location")
  BY <1>1 DEF Starts, Wires, ArgsOf, Reports
<1>3. asked' = cycles /\ cycles' = Bump(cycles)
  BY <1>1, <1>2, AsksWhere DEF Clock
<1>4. QED
  BY <1>3

\* Outside its calls the module stays at its location and counts there.
LEMMA LocationRests ==
  ASSUME ChargeInv, Clock, ~Starts("location")
  PROVE  /\ location'.current = location.current
         /\ \A l \in Locations \ {location.current} : location'.counters[l] = location.counters[l]
<1>1. location' = LocationEdge(location, FALSE, Wires("location")[1])
  BY DEF Clock, ModulesMove, Starts
<1>2. location'.current = location.current /\ location'.counters = Charged(location, FALSE)
  BY <1>1 DEF LocationEdge
<1>3. QED
  BY <1>2 DEF Charged, ChargeInv

\* A report appended to a log without one is the log's report.
LEMMA ReportAppears ==
  ASSUME NEW kind, NEW r, NEW s, IsLog(s), LinesOf(s, kind) = {}
  PROVE  Len(s) \in Nat /\ ShowsReport(s \o FinalReport(kind, r), Len(s), kind, r.counters)
<1> DEFINE t == FinalReport(kind, r)
<1>1. PICK n \in Nat : n = 2^LocWidth
  BY Powers
<1>2. t = [k \in 1 .. n |-> <<kind, k - 1, r.counters[k - 1]>>] /\ Locations = 0 .. n - 1
  BY <1>1 DEF FinalReport, Locations
<1>3. IsLog(t) /\ Len(t) = n /\ \A i \in 1 .. Len(t) : t[i][1] = kind
  BY <1>1, ReportLines
<1>4. \A l \in 0 .. n - 1 : t[l + 1] = <<kind, l, r.counters[l]>>
  <2> TAKE l \in 0 .. n - 1
  <2>1. l + 1 \in 1 .. n /\ (l + 1) - 1 = l
    OBVIOUS
  <2>2. QED
    BY <1>2, <2>1
<1> HIDE DEF t
<1>5. PICK S : s \in Seq(S) /\ t \in Seq(S)
  BY <1>3, LogsJoin
<1>6. LinesOf(s \o t, kind) = LinesOf(s, kind) \cup (Len(s) + 1 .. Len(s) + Len(t))
  BY <1>3, <1>5, LinesSame
<1>7. \A l \in 0 .. n - 1 : (s \o t)[Len(s) + 1 + l] = t[l + 1]
  <2> TAKE l \in 0 .. n - 1
  <2>1. l + 1 \in 1 .. Len(t) /\ Len(s) + 1 + l = Len(s) + (l + 1)
    BY <1>3, <1>5
  <2>2. (s \o t)[Len(s) + (l + 1)] = t[l + 1]
    BY <1>5, <2>1
  <2>3. QED
    BY <2>1, <2>2
<1>8. LinesOf(s \o t, kind) = Len(s) + 1 .. Len(s) + 2^LocWidth
  BY <1>1, <1>3, <1>6
<1>9. \A l \in Locations : (s \o t)[Len(s) + 1 + l] = <<kind, l, r.counters[l]>>
  BY <1>2, <1>4, <1>7
<1>10. Len(s) \in Nat
  BY <1>5
<1>11. QED
  BY <1>8, <1>9, <1>10 DEF ShowsReport, t

\* The lines of a report, once displayed, stay.
LEMMA ReportStays ==
  ASSUME NEW s, NEW t, NEW k, NEW kind, NEW shown, ShowsReport(s, k, kind, shown),
         LinesOf(t, kind) = LinesOf(s, kind), \A i \in DOMAIN s : t[i] = s[i]
  PROVE  ShowsReport(t, k, kind, shown)
<1>1. PICK n \in Nat : n = 2^LocWidth
  BY Powers
<1>2. k \in Nat /\ LinesOf(s, kind) = k + 1 .. k + n
  BY <1>1 DEF ShowsReport
<1>3. LinesOf(s, kind) \subseteq DOMAIN s
  BY DEF LinesOf
<1>4. \A l \in Locations : k + 1 + l \in DOMAIN s
  <2>1. \A l \in Locations : k + 1 + l \in k + 1 .. k + n
    BY <1>1, <1>2 DEF Locations
  <2>2. QED
    BY <1>2, <1>3, <2>1
<1>5. QED
  BY <1>4 DEF ShowsReport

LEMMA ReportInit == Init => ReportInv
<1> SUFFICES ASSUME Init PROVE ReportInv
  OBVIOUS
<1>1. \A kind : LinesOf(log, kind) = {}
  BY DEF Init, LinesOf
<1>2. pc = 1 /\ waiting = FALSE /\ DOMAIN code = 1 .. Len(code)
  BY ControlInit, TextRuns DEF Init, ControlInv
<1>3. \A module, reg : ~ReportedAt(module, pc, waiting, reg)
  BY <1>2 DEF ReportedAt
<1>4. AskedNow
  BY DEF Init, AskedNow, LocationReset
<1>5. QED
  BY <1>1, <1>3, <1>4 DEF ReportInv, LocationReported, CountersReported

\* A clock edge leaves the counters alone where no loop's call starts.
LEMMA CountersRest ==
  ASSUME ControlInv, TypeInv, Clock, ~waiting => ~Counts(Op)
  PROVE  counters'.counters = counters.counters
<1>1. counters'.counters = CountersNext(counters, Starts("counters"), Wires("counters")[2])
  BY CountersMove
<1>2. ~(Starts("counters") /\ Wires("counters")[2] # Report)
  BY DEF Starts, Wires, ArgsOf, Counts
<1>3. QED
  BY <1>1, <1>2 DEF CountersNext, TypeInv

LEMMA LocationReportStep ==
  ASSUME ControlInv, ChargeInv, ShakeInv, TypeInv, Clock, Next, ~Finish, AskedNow, LocationReported
  PROVE  LocationReported'
<1> SUFFICES ASSUME ReportsAtEnd(code, "location") PROVE LocationReported'
  BY DEF LocationReported, Clock
<1>0. LocationReported' <=>
        IF ReportedAt("location", pc', waiting', location'.reg)
        THEN \E k \in Nat, shown \in [Locations -> Int] :
               /\ ShowsReport(log', k, "FINAL location", shown)
               /\ \A l \in Locations \ {location'.current} : shown[l] = location'.counters[l]
               /\ SumFunction(shown) % 2^CounterWidth = Bump(asked')
        ELSE LinesOf(log', "FINAL location") = {}
  BY DEF LocationReported, ReportedAt, ShowsReport, LocationsFinal, Clock
<1>1. location.reg \in BOOLEAN /\ location'.reg = Starts("location") /\ Starts("location") \in BOOLEAN
  BY EdgesOf DEF ShakeInv, Shakes, Edges, Starts, ControlInv
<1>2. waiting /\ Op.module = "location" => location.reg = ~Done("location")
  BY <1>1 DEF ShakeInv, Shakes, Done
<1>3. bodies \in Nat /\ IsLog(log)
  BY DEF TypeInv
<1>4. CASE location.reg /\ location.pending
  <2>1. waiting /\ Reports(Op, "location") /\ Op.module = "location" /\ Op.op = "call"
    BY <1>4, PendingReports DEF Reports
  <2>2. Await /\ ~Starts("location")
    <3>1. ~Done(Op.module)
      BY <1>2, <1>4, <2>1
    <3>2. QED
      BY <2>1, <3>1 DEF Next, Issue, Resume, Enter, Skip, Turn, Leave, Compute, Starts
  <2>3. ~ReportedAt("location", pc, waiting, location.reg) /\ ReportedAt("location", pc', waiting', location'.reg)
    BY <1>1, <1>2, <1>3, <1>4, <2>1, <2>2, ReportedStep
  <2>4. log' = log \o FinalReport("FINAL location", location)
    BY <1>4, Displays
  <2>5. LinesOf(log, "FINAL location") = {}
    BY <2>3 DEF LocationReported
  <2>6. Len(log) \in Nat /\ ShowsReport(log', Len(log), "FINAL location", location.counters)
    BY <1>3, <2>4, <2>5, ReportAppears
  <2>7. location.counters \in [Locations -> Int]
    BY DEF ChargeInv
  <2>8. \A l \in Locations \ {location'.current} : location.counters[l] = location'.counters[l]
    BY <2>2, LocationRests
  <2>9. SumFunction(location.counters) % 2^CounterWidth = Bump(asked')
    <3>1. asked' = asked
      BY <2>2, AsksWhere
    <3>2. QED
      BY <1>4, <3>1 DEF ChargeInv, EveryCycleCharged, AskedNow
  <2>10. QED
    BY <1>0, <2>3, <2>6, <2>7, <2>8, <2>9
<1>5. CASE ~(location.reg /\ location.pending)
  <2>1. ReportedAt("location", pc', waiting', location'.reg) <=> ReportedAt("location", pc, waiting, location.reg)
    BY <1>1, <1>2, <1>3, <1>5, PendingReports, ReportedStep
  <2>2. /\ LinesOf(log', "FINAL location") = LinesOf(log, "FINAL location")
        /\ \A i \in DOMAIN log : log'[i] = log[i]
    BY <1>5, Undisturbed, ClockAdds DEF OnlyAdds
  <2>3. CASE ReportedAt("location", pc, waiting, location.reg)
    <3>1. PICK k \in Nat, shown \in [Locations -> Int] :
             ShowsReport(log, k, "FINAL location", shown) /\ LocationsFinal(shown)
      BY <2>3 DEF LocationReported
    <3>2. ~Starts("location")
      BY <2>3, CallsNoMore
    <3>3. asked' = asked
      BY <3>2, AsksWhere
    <3>4. \A l \in Locations \ {location'.current} : shown[l] = location'.counters[l]
      BY <3>1, <3>2, LocationRests DEF LocationsFinal
    <3>5. ShowsReport(log', k, "FINAL location", shown)
      BY <2>2, <3>1, ReportStays
    <3>6. SumFunction(shown) % 2^CounterWidth = Bump(asked')
      BY <3>1, <3>3 DEF LocationsFinal
    <3>7. QED
      BY <1>0, <2>1, <2>3, <3>4, <3>5, <3>6
  <2>4. CASE ~ReportedAt("location", pc, waiting, location.reg)
    BY <1>0, <2>1, <2>2, <2>4 DEF LocationReported
  <2>5. QED
    BY <2>3, <2>4
<1>6. QED
  BY <1>4, <1>5

LEMMA CounterReportStep ==
  ASSUME ControlInv, ShakeInv, TypeInv, Clock, Next, ~Finish, CountersReported
  PROVE  CountersReported'
<1> SUFFICES ASSUME ReportsAtEnd(code, "counters") PROVE CountersReported'
  BY DEF CountersReported, Clock
<1>0. CountersReported' <=>
        IF ReportedAt("counters", pc', waiting', counters'.reg)
        THEN \E k \in Nat : ShowsReport(log', k, "FINAL counter", counters'.counters)
        ELSE LinesOf(log', "FINAL counter") = {}
  BY DEF CountersReported, ReportedAt, ShowsReport, Clock
<1>1. counters.reg \in BOOLEAN /\ counters'.reg = Starts("counters") /\ Starts("counters") \in BOOLEAN
  BY EdgesOf DEF ShakeInv, Shakes, Edges, Starts, ControlInv
<1>2. waiting /\ Op.module = "counters" => counters.reg = ~Done("counters")
  BY <1>1 DEF ShakeInv, Shakes, Done
<1>3. bodies \in Nat /\ IsLog(log)
  BY DEF TypeInv
<1>5. CASE counters.reg /\ counters.pending
  <2>1. waiting /\ Reports(Op, "counters") /\ Op.module = "counters" /\ Op.op = "call"
    BY <1>5, PendingReports DEF Reports
  <2>2. Await
    <3>1. ~Done(Op.module)
      BY <1>2, <1>5, <2>1
    <3>2. QED
      BY <2>1, <3>1 DEF Next, Issue, Resume, Enter, Skip, Turn, Leave, Compute
  <2>3. ~ReportedAt("counters", pc, waiting, counters.reg) /\ ReportedAt("counters", pc', waiting', counters'.reg)
    BY <1>1, <1>2, <1>3, <1>5, <2>1, <2>2, ReportedStep
  <2>4. log' = log \o FinalReport("FINAL counter", counters)
    BY <1>5, Displays
  <2>5. LinesOf(log, "FINAL counter") = {}
    BY <2>3 DEF CountersReported
  <2>6. Len(log) \in Nat /\ ShowsReport(log', Len(log), "FINAL counter", counters.counters)
    BY <1>3, <2>4, <2>5, ReportAppears
  <2>7. counters'.counters = counters.counters
    BY <2>1, CountersRest
  <2>8. QED
    BY <1>0, <2>3, <2>6, <2>7
<1>6. CASE ~(counters.reg /\ counters.pending)
  <2>1. ReportedAt("counters", pc', waiting', counters'.reg) <=> ReportedAt("counters", pc, waiting, counters.reg)
    BY <1>1, <1>2, <1>3, <1>6, PendingReports, ReportedStep
  <2>2. /\ LinesOf(log', "FINAL counter") = LinesOf(log, "FINAL counter")
        /\ \A i \in DOMAIN log : log'[i] = log[i]
    BY <1>6, Undisturbed, ClockAdds DEF OnlyAdds
  <2>3. CASE ReportedAt("counters", pc, waiting, counters.reg)
    <3>1. PICK k \in Nat : ShowsReport(log, k, "FINAL counter", counters.counters)
      BY <2>3 DEF CountersReported
    <3>2. ShowsReport(log', k, "FINAL counter", counters.counters)
      BY <2>2, <3>1, ReportStays
    <3>3. ~waiting => ~Counts(Op)
      BY <2>3, CallsNoMore DEF Counts, Starts
    <3>4. counters'.counters = counters.counters
      BY <3>3, CountersRest
    <3>5. QED
      BY <1>0, <2>1, <2>3, <3>2, <3>4
  <2>4. CASE ~ReportedAt("counters", pc, waiting, counters.reg)
    BY <1>0, <2>1, <2>2, <2>4 DEF CountersReported
  <2>5. QED
    BY <2>3, <2>4
<1>7. QED
  BY <1>5, <1>6

LEMMA ReportStep ==
  ASSUME ControlInv, ChargeInv, ShakeInv, TypeInv, ReportInv, [Next]_vars
  PROVE  ReportInv'
<1>1. CASE UNCHANGED vars
  BY <1>1 DEF vars, modules, ghosts, ReportInv, AskedNow, LocationReported, CountersReported, ReportedAt,
              ShowsReport, LocationsFinal
<1>2. CASE Finish
  <2>1. /\ code' = code /\ pc' = pc /\ waiting' = waiting /\ counters' = counters /\ location' = location
        /\ asked' = asked /\ cycles' = cycles
        /\ \A kind : kind # "cycles" => LinesOf(log', kind) = LinesOf(log, kind)
        /\ \A i \in DOMAIN log : log'[i] = log[i]
    BY <1>2, FinishAppends DEF Finish, modules, ghosts, OnlyAdds
  <2>2. /\ LinesOf(log', "FINAL location") = LinesOf(log, "FINAL location")
        /\ LinesOf(log', "FINAL counter") = LinesOf(log, "FINAL counter")
    BY <2>1
  <2>3. \A k, kind, shown : kind \in {"FINAL location", "FINAL counter"} /\ ShowsReport(log, k, kind, shown)
                              => ShowsReport(log', k, kind, shown)
    BY <2>1, <2>2, ReportStays
  <2>4. AskedNow'
    BY <2>1 DEF ReportInv, AskedNow
  <2>5. LocationReported'
    <3>1. ASSUME ReportsAtEnd(code, "location"), ReportedAt("location", pc, waiting, location.reg)
          PROVE  \E k \in Nat, shown \in [Locations -> Int] :
                   ShowsReport(log', k, "FINAL location", shown) /\ LocationsFinal(shown)
      BY <2>3, <3>1 DEF ReportInv, LocationReported
    <3>2. QED
      BY <2>1, <2>2, <3>1 DEF ReportInv, LocationReported, ReportedAt, LocationsFinal, ShowsReport
  <2>6. CountersReported'
    <3>1. ASSUME ReportsAtEnd(code, "counters"), ReportedAt("counters", pc, waiting, counters.reg)
          PROVE  \E k \in Nat : ShowsReport(log', k, "FINAL counter", counters.counters)
      BY <2>3, <3>1 DEF ReportInv, CountersReported
    <3>2. QED
      BY <2>1, <2>2, <3>1 DEF ReportInv, CountersReported, ReportedAt, ShowsReport
  <2>7. QED
    BY <2>4, <2>5, <2>6 DEF ReportInv
<1>3. CASE Clock /\ Next /\ ~Finish
  BY <1>3, AskedStep, LocationReportStep, CounterReportStep DEF ReportInv
<1>4. QED
  BY <1>1, <1>2, <1>3 DEF Next

\* A report that is shown is on lines there are.
LEMMA ReportIsThere ==
  ASSUME TypeInv, NEW k, NEW kind, NEW shown, ShowsReport(log, k, kind, shown)
  PROVE  k \in 0 .. Len(log) /\ ReportAt(k, kind, shown)
<1>1. PICK n \in Nat \ {0} : n = 2^LocWidth
  BY Powers
<1>2. k \in Nat /\ k + 1 \in LinesOf(log, kind)
  BY <1>1 DEF ShowsReport
<1>3. k + 1 \in DOMAIN log
  BY <1>2 DEF LinesOf
<1>4. PICK S : log \in Seq(S)
  BY DEF TypeInv, IsLog
<1>5. k \in 0 .. Len(log)
  BY <1>2, <1>3, <1>4
<1>6. QED
  BY <1>5 DEF ShowsReport, ReportAt

\* When the kernel returns it is past its reports.
LEMMA ReportInvSuffices ==
  ASSUME ControlInv, TypeInv, EndInv, ReportInv,
         IF Has("change-location") THEN ReportsOnce(code, "location") ELSE ReportsNever(code, "location"),
         IF Has("hw-counters-report") THEN ReportsOnce(code, "counters") ELSE ReportsNever(code, "counters")
  PROVE  ReportedOnReturn
<1> SUFFICES ASSUME Finished
             PROVE  /\ IF Has("hw-counters-report")
                         THEN \E k \in 0 .. Len(log) : ReportAt(k, "FINAL counter", counters.counters)
                         ELSE LinesOf(log, "FINAL counter") = {}
                    /\ IF Has("change-location") THEN LocationsShown ELSE LinesOf(log, "FINAL location") = {}
  BY DEF ReportedOnReturn
<1>1. pc = Len(code)
  BY TextRuns DEF EndInv, ControlInv, Op
<1>2. ASSUME NEW module, NEW reg, ReportsOnce(code, module)
      PROVE  ReportsAtEnd(code, module) /\ ReportedAt(module, pc, waiting, reg)
  <2>1. PICK q \in DOMAIN code : Reports(code[q], module)
    BY <1>2 DEF ReportsOnce
  <2>2. q < pc
    BY <1>1, <1>2, <2>1, TailOnce DEF ReportsOnce
  <2>3. QED
    BY <1>2, <2>1, <2>2 DEF ReportsOnce, ReportedAt
<1>3. ASSUME NEW module, NEW reg, ReportsNever(code, module)
      PROVE  ReportsAtEnd(code, module) /\ ~ReportedAt(module, pc, waiting, reg)
  BY <1>3 DEF ReportsNever, ReportsAtEnd, ReportedAt
<1>4. IF Has("change-location") THEN LocationsShown ELSE LinesOf(log, "FINAL location") = {}
  <2>1. CASE Has("change-location")
    <3>1. PICK k \in Nat, shown \in [Locations -> Int] :
             ShowsReport(log, k, "FINAL location", shown) /\ LocationsFinal(shown)
      BY <1>2, <2>1 DEF ReportInv, LocationReported
    <3>2. k \in 0 .. Len(log) /\ ReportAt(k, "FINAL location", shown)
      BY <3>1, ReportIsThere
    <3>3. [l \in Locations |-> log[k + 1 + l][3]] = shown
      <4> DEFINE Count(l) == log[k + 1 + l][3]
      <4>1. ASSUME NEW l \in Locations PROVE Count(l) = shown[l]
        <5>1. log[k + 1 + l] = <<"FINAL location", l, shown[l]>>
          BY <3>2, Zenon DEF ReportAt
        <5>2. <<"FINAL location", l, shown[l]>>[3] = shown[l]
          OBVIOUS
        <5>3. QED
          BY <5>1, <5>2
      <4> HIDE DEF Count
      <4>2. [l \in Locations |-> Count(l)] = shown
        BY <3>1, <4>1
      <4>3. QED
        BY <4>2 DEF Count
    <3>4. QED
      BY <2>1, <3>1, <3>2, <3>3 DEF LocationsShown, LocationsFinal
  <2>2. CASE ~Has("change-location")
    BY <1>3, <2>2 DEF ReportInv, LocationReported
  <2>3. QED
    BY <2>1, <2>2
<1>5. IF Has("hw-counters-report")
        THEN \E k \in 0 .. Len(log) : ReportAt(k, "FINAL counter", counters.counters)
        ELSE LinesOf(log, "FINAL counter") = {}
  <2>1. CASE Has("hw-counters-report")
    BY <1>2, <2>1, ReportIsThere DEF ReportInv, CountersReported
  <2>2. CASE ~Has("hw-counters-report")
    BY <1>3, <2>2 DEF ReportInv, CountersReported
  <2>3. QED
    BY <2>1, <2>2
<1>6. QED
  BY <1>4, <1>5

-----------------------------------------------------------------------------
(* The loop counters.                                                      *)

\* The action on the wires has reached the register.
LatchInv ==
  args.counters[2] # Report => counters.running[LocIdx(args.counters[2])] = args.counters[1]

\* The controller at p is between the start call at s, issued, and the stop call at
\* e, to issue.
Within(s, e, p, w) ==
  /\ s < p \/ (s = p /\ w)
  /\ p < e \/ (p = e /\ ~w)

WindowInv ==
  /\ CountsPaired(code) =>
       \A l \in Loops(code), s, e \in DOMAIN code : MarkedAt(code, l, s, e) =>
         (counters.running[LoopId(code, l)] <=> Within(s, e, pc, waiting))
  /\ CountsNothing(code) => \A id \in Locations : ~counters.running[id]

\* The counters there are, and what they count.
NamesInv == DOMAIN markers = {LoopId(code, l) : l \in Loops(code)}
CountInv ==
  \A id \in DOMAIN markers :
    markers[id] \in Int /\ counters.counters[id] = markers[id] % 2^CounterWidth

LEMMA IndexIs == \A id \in Locations : LocIdx(id) = id /\ id # Report
<1>1. PICK M \in Nat \ {0} : M = 2^LocWidth
  BY Powers
<1>2. \A id \in 0 .. M - 1 : id % M = id
  BY SmallModulo
<1>3. \A id \in 0 .. M - 1 : id # -1
  BY <1>1
<1>4. QED
  BY <1>1, <1>2, <1>3 DEF LocIdx, Locations, Report

\* A counter call, and every other cycle, at the registers.
LEMMA CountsMove ==
  ASSUME ControlInv, TypeInv, Clock, ~waiting, Counts(Op)
  PROVE  /\ counters'.counters = [l \in Locations |-> IF counters.running[l] THEN Bump(counters.counters[l])
                                                      ELSE counters.counters[l]]
         /\ counters'.running = [counters.running EXCEPT ![LocIdx(Op.args[2])] = Op.args[1]]
         /\ args'.counters = Op.args /\ counters'.reg
<1>1. Starts("counters") /\ Wires("counters") = Op.args /\ Op.args[2] # Report
  BY DEF Starts, Wires, ArgsOf, Counts
<1>2. counters'.reg
  BY <1>1, EdgesOf DEF Edges
<1>3. QED
  BY <1>1, <1>2, CountersMove DEF CountersNext, RunningNext

LEMMA RunningRests ==
  ASSUME ControlInv, TypeInv, LatchInv, Clock, ~waiting => ~Counts(Op)
  PROVE  counters'.running = counters.running
<1>1. counters'.running = RunningNext(counters, Wires("counters")[1], Wires("counters")[2])
  BY CountersMove
<1>2. CASE Starts("counters")
  <2>1. Wires("counters")[2] = Report
    BY <1>2 DEF Starts, Wires, ArgsOf, Counts
  <2>2. QED
    BY <1>1, <2>1 DEF RunningNext
<1>3. CASE ~Starts("counters")
  <2>1. Wires("counters") = args.counters
    BY <1>3 DEF Wires
  <2>2. CASE args.counters[2] = Report
    BY <1>1, <2>1, <2>2 DEF RunningNext
  <2>3. CASE args.counters[2] # Report
    <3>1. [counters.running EXCEPT ![LocIdx(args.counters[2])] = args.counters[1]] = counters.running
      BY <2>3 DEF LatchInv, TypeInv
    <3>2. QED
      BY <1>1, <2>1, <2>3, <3>1 DEF RunningNext
  <2>4. QED
    BY <2>2, <2>3
<1>4. QED
  BY <1>2, <1>3

LEMMA LatchStep ==
  ASSUME ControlInv, TypeInv, LatchInv, [Next]_vars
  PROVE  LatchInv'
<1>1. CASE UNCHANGED vars
  BY <1>1 DEF vars, modules, LatchInv
<1>2. CASE Finish
  BY <1>2 DEF Finish, modules, LatchInv
<1>3. CASE Clock
  <2>1. /\ Wires("counters")[1] \in BOOLEAN /\ Wires("counters")[2] \in Int
        /\ args'.counters = Wires("counters")
        /\ counters'.running = RunningNext(counters, Wires("counters")[1], Wires("counters")[2])
    BY <1>3, CountersMove
  <2>2. LocIdx(Wires("counters")[2]) \in Locations
    BY <2>1, IndexOf
  <2>3. QED
    BY <2>1, <2>2 DEF RunningNext, LatchInv, TypeInv
<1>4. QED
  BY <1>1, <1>2, <1>3 DEF Next

-----------------------------------------------------------------------------
(* The calls around a loop's body.                                         *)

LEMMA AroundEpilogue ==
  ASSUME Structured(code), NEW l \in Loops(code), NEW a \in Epilogue(code, l)
  PROVE  LoopsAround(code, a) = LoopsAround(code, l) \cup {l}
<1>1. /\ l \in Int /\ a \in Int /\ End(code, l) \in Int /\ l < a /\ a < End(code, l)
      /\ \A r \in a .. End(code, l) - 1 : code[r].op = "call"
  BY DEF Structured, Loops, Epilogue
<1>2. \A m \in Loops(code) : /\ m \in Int /\ End(code, m) \in Int
                             /\ m \notin a .. End(code, l) - 1 /\ End(code, m) \notin a .. End(code, l) - 1
  BY <1>1 DEF Structured, Loops
<1>3. \A m \in Loops(code) : (m < a /\ a <= End(code, m)) <=> (m < End(code, l) /\ End(code, l) <= End(code, m))
  <2> TAKE m \in Loops(code)
  <2>1. PICK n, f, d \in Int : n = m /\ f = End(code, m) /\ d = End(code, l)
    BY <1>1, <1>2
  <2>2. a \in Int /\ a < d /\ n \notin a .. d - 1 /\ f \notin a .. d - 1
    BY <1>1, <1>2, <2>1
  <2>3. (n < a /\ a <= f) <=> (n < d /\ d <= f)
    BY <2>2
  <2>4. QED
    BY <2>1, <2>3
<1>4. LoopsAround(code, a) = LoopsAround(code, End(code, l))
  BY <1>3 DEF LoopsAround
<1>5. QED
  BY <1>4, AroundBody

\* Where the calls of a loop stand.
LEMMA MarkedWhere ==
  ASSUME Structured(code), NEW l \in Loops(code), NEW s \in DOMAIN code, NEW e \in DOMAIN code,
         MarkedAt(code, l, s, e)
  PROVE  /\ l \in Int /\ s \in Int /\ e \in Int /\ End(code, l) \in Int
         /\ l < s /\ s < e /\ e < End(code, l) /\ End(code, l) <= Len(code)
         /\ code[s].op = "call" /\ code[e].op = "call"
         /\ \A r \in Int : l < r /\ r <= s => code[r].op = "call"
         /\ \A r \in Int : e <= r /\ r < End(code, l) => code[r].op = "call"
BY DEF MarkedAt, Structured, Loops, Prologue, Epilogue

\* A move does not cross them.
LEMMA MovesAround ==
  ASSUME ControlInv, NEW x, Moves(x), NEW l \in Loops(code), NEW s \in DOMAIN code, NEW e \in DOMAIN code,
         MarkedAt(code, l, s, e)
  PROVE  /\ x \in Int /\ x # s /\ x # e /\ pc # s /\ pc # e
         /\ (s < pc /\ pc < e) <=> (s < x /\ x < e)
<1>1. /\ pc \in Int /\ Structured(code) /\ Op = code[pc] /\ DOMAIN code = 1 .. Len(code)
  BY AtText
<1>2. /\ l \in Int /\ s \in Int /\ e \in Int /\ End(code, l) \in Int
      /\ l < s /\ s < e /\ e < End(code, l)
      /\ code[s].op = "call" /\ code[e].op = "call"
      /\ \A r \in Int : l < r /\ r <= s => code[r].op = "call"
      /\ \A r \in Int : e <= r /\ r < End(code, l) => code[r].op = "call"
  BY <1>1, MarkedWhere
<1>3. x \in Int /\ code[x].op # "call" /\ code[pc].op # "call"
  BY <1>1 DEF Moves
<1>4. ASSUME NEW m \in Loops(code) PROVE (s < m /\ m < e) <=> (s < End(code, m) /\ End(code, m) < e)
  <2>1. /\ m \in Int /\ End(code, m) \in Int /\ m < End(code, m)
        /\ code[m].op # "call" /\ code[End(code, m)].op # "call"
    BY <1>1 DEF Structured, Loops
  <2>2. CASE m = l
    BY <1>2, <2>1, <2>2
  <2>3. CASE m < l
    <3>1. l <= End(code, m) => End(code, l) < End(code, m)
      BY <1>1, <2>3, LoopsNest
    <3>2. QED
      BY <1>2, <2>1, <2>3, <3>1
  <2>4. CASE l < m
    <3>1. m <= End(code, l) => End(code, m) < End(code, l)
      BY <1>1, <2>4, LoopsNest
    <3>2. s < m
      BY <1>2, <2>1, <2>4
    <3>3. End(code, m) < End(code, l) => End(code, m) < e
      BY <1>2, <2>1
    <3>4. QED
      BY <1>2, <2>1, <3>1, <3>2, <3>3
  <2>5. QED
    BY <1>2, <2>1, <2>2, <2>3, <2>4
<1>5. CASE x = pc
  BY <1>2, <1>3, <1>5
<1>6. ASSUME NEW m \in Loops(code), (pc = m /\ x = End(code, m)) \/ (pc = End(code, m) /\ x = m)
      PROVE  (s < pc /\ pc < e) <=> (s < x /\ x < e)
  BY <1>4, <1>6
<1>7. x # s /\ x # e /\ pc # s /\ pc # e
  BY <1>2, <1>3
<1>8. QED
  BY <1>3, <1>5, <1>6, <1>7 DEF Moves

\* Among the calls of another loop, being in a body is being between its calls.
LEMMA CallsNest ==
  ASSUME Structured(code), NEW l \in Loops(code), NEW s \in DOMAIN code, NEW e \in DOMAIN code,
         MarkedAt(code, l, s, e), NEW m \in Loops(code), m # l,
         NEW a \in Prologue(code, m) \cup Epilogue(code, m)
  PROVE  l \in LoopsAround(code, a) <=> (s < a /\ a <= e)
<1>1. /\ l \in Int /\ s \in Int /\ e \in Int /\ End(code, l) \in Int
      /\ l < s /\ s < e /\ e < End(code, l)
      /\ \A r \in Int : l < r /\ r <= s => code[r].op = "call"
      /\ \A r \in Int : e <= r /\ r < End(code, l) => code[r].op = "call"
  BY MarkedWhere
<1>2. /\ m \in Int /\ a \in Int /\ End(code, m) \in Int /\ m < a /\ a <= End(code, m)
      /\ code[m].op = "for" /\ code[End(code, m)].op = "end"
  BY DEF Structured, Loops, Prologue, Epilogue
<1>3. LoopsAround(code, a) = LoopsAround(code, m) \cup {m}
  BY AroundPrologue, AroundEpilogue
<1>4. ASSUME l \in LoopsAround(code, a) PROVE s < a /\ a <= e
  <2>1. l < m /\ m <= End(code, l)
    BY <1>3, <1>4 DEF LoopsAround
  <2>2. End(code, m) < End(code, l)
    BY <2>1, LoopsNest
  <2>3. s < m
    BY <1>1, <1>2, <2>1
  <2>4. End(code, m) < e
    BY <1>1, <1>2, <2>2
  <2>5. QED
    BY <1>1, <1>2, <2>3, <2>4
<1>5. ASSUME s < a, a <= e PROVE l \in LoopsAround(code, a)
  BY <1>1, <1>2, <1>5 DEF LoopsAround
<1>6. QED
  BY <1>4, <1>5

\* The controller's counter call, and the loop it is of.
LEMMA CallOfLoop ==
  ASSUME ControlInv, CountsPaired(code), Counts(Op)
  PROVE  \E m \in Loops(code), active \in BOOLEAN, s, e \in DOMAIN code :
           /\ MarkedAt(code, m, s, e) /\ Op.args = <<active, LoopId(code, m)>>
           /\ active => pc = s
           /\ ~active => pc = e
           /\ pc \in Prologue(code, m) \cup Epilogue(code, m)
<1>1. pc \in DOMAIN code /\ Op = code[pc]
  BY AtText
<1>2. PICK m \in Loops(code), active \in BOOLEAN : Marks(code[pc], active, LoopId(code, m))
  BY <1>1 DEF CountsPaired
<1>3. PICK s, e \in DOMAIN code : MarkedAt(code, m, s, e)
  BY DEF CountsPaired
<1>4. (active => pc = s) /\ (~active => pc = e)
  <2>1. active = TRUE \/ active = FALSE
    OBVIOUS
  <2>2. active = TRUE => pc = s
    BY <1>1, <1>2, <1>3 DEF MarkedAt
  <2>3. active = FALSE => pc = e
    BY <1>1, <1>2, <1>3 DEF MarkedAt
  <2>4. QED
    BY <2>1, <2>2, <2>3
<1>5. s \in Prologue(code, m) /\ e \in Epilogue(code, m)
  BY <1>3 DEF MarkedAt
<1>6. Op.args = <<active, LoopId(code, m)>>
  BY <1>1, <1>2 DEF Marks
<1>7. QED
  BY <1>3, <1>4, <1>5, <1>6

\* The loops a counter call is counted for are those whose counters run.
LEMMA CountedRuns ==
  ASSUME ControlInv, WindowInv, CountsPaired(code), ~waiting, Counts(Op), NEW l \in Loops(code)
  PROVE  LoopId(code, l) \in Counted <=> counters.running[LoopId(code, l)]
<1>1. Structured(code) /\ pc \in Int
  BY AtText
<1>2. PICK m \in Loops(code), active \in BOOLEAN, s2, e2 \in DOMAIN code :
        /\ MarkedAt(code, m, s2, e2) /\ Op.args = <<active, LoopId(code, m)>>
        /\ active => pc = s2
        /\ ~active => pc = e2
        /\ pc \in Prologue(code, m) \cup Epilogue(code, m)
  BY CallOfLoop
<1>3. PICK s, e \in DOMAIN code : MarkedAt(code, l, s, e)
  BY DEF CountsPaired
<1>4. counters.running[LoopId(code, l)] <=> Within(s, e, pc, waiting)
  BY <1>3 DEF WindowInv
<1>5. s \in Int /\ e \in Int /\ s < e
  BY <1>1, <1>3, MarkedWhere
<1>6. Within(s, e, pc, waiting) <=> s < pc /\ pc <= e
  BY <1>1, <1>5 DEF Within
<1>7. \A k \in Loops(code) : LoopId(code, k) = LoopId(code, l) => k = l
  BY <1>1, LoopIdsDiffer
<1>8. LoopId(code, l) \in Counted <=>
        l \in LoopsAround(code, pc) /\ ~(active /\ LoopId(code, l) = LoopId(code, m))
  <2>1. LoopsAround(code, pc) \subseteq Loops(code)
    BY DEF LoopsAround
  <2>2. LoopId(code, l) \in {LoopId(code, k) : k \in LoopsAround(code, pc)} <=> l \in LoopsAround(code, pc)
    BY <1>7, <2>1
  <2>3. Op.args[1] = active /\ Op.args[2] = LoopId(code, m)
    BY <1>2
  <2>4. QED
    BY <2>2, <2>3 DEF Counted
<1>9. CASE m # l
  <2>1. LoopId(code, m) # LoopId(code, l)
    BY <1>7, <1>9
  <2>2. l \in LoopsAround(code, pc) <=> (s < pc /\ pc <= e)
    BY <1>1, <1>2, <1>3, <1>9, CallsNest
  <2>3. QED
    BY <1>4, <1>6, <1>8, <2>1, <2>2
<1>10. CASE m = l
  <2>1. s2 = s /\ e2 = e
    <3>1. Marks(code[s], TRUE, LoopId(code, l)) /\ Marks(code[e], FALSE, LoopId(code, l))
      BY <1>3 DEF MarkedAt
    <3>2. QED
      BY <1>2, <1>10, <3>1 DEF MarkedAt
  <2>2. CASE active
    BY <1>2, <1>4, <1>5, <1>6, <1>8, <1>10, <2>1, <2>2
  <2>3. CASE ~active
    <3>1. LoopsAround(code, pc) = LoopsAround(code, l) \cup {l}
      BY <1>1, <1>2, <1>10, AroundPrologue, AroundEpilogue
    <3>2. QED
      BY <1>2, <1>4, <1>5, <1>6, <1>8, <2>1, <2>3, <3>1
  <2>4. QED
    BY <2>2, <2>3
<1>11. QED
  BY <1>9, <1>10

-----------------------------------------------------------------------------
(* What the counters hold.                                                 *)

CountsWhole == CountsPaired(code) \/ CountsNothing(code)

\* The names of counters that the truncation does not merge are locations.
LEMMA Names ==
  ASSUME NamesInv, NoneMerged, NEW l \in Loops(code)
  PROVE  /\ LoopId(code, l) \in DOMAIN markers /\ LoopId(code, l) \in Locations
         /\ LocIdx(LoopId(code, l)) = LoopId(code, l) /\ LoopId(code, l) # Report
BY IndexIs DEF NamesInv, NoneMerged

LEMMA CounterInit == Init => LatchInv /\ NamesInv /\ (NoneMerged => WindowInv /\ CountInv)
<1> SUFFICES ASSUME Init PROVE LatchInv /\ NamesInv /\ (NoneMerged => WindowInv /\ CountInv)
  OBVIOUS
<1>1. /\ counters.counters = [l \in Locations |-> 0] /\ counters.running = [l \in Locations |-> FALSE]
      /\ args.counters = <<FALSE, 0>> /\ pc = 1 /\ waiting = FALSE
      /\ markers = [p \in {LoopId(code, l) : l \in Loops(code)} |-> 0]
  BY DEF Init, CountersReset, Zeroes
<1>2. LatchInv
  <2>1. LocIdx(0) \in Locations /\ 0 # Report
    BY IndexOf DEF Report
  <2>2. args.counters[1] = FALSE /\ args.counters[2] = 0 /\ counters.running[LocIdx(0)] = FALSE
    BY <1>1, <2>1
  <2>3. QED
    BY <2>1, <2>2 DEF LatchInv
<1>3. Structured(code)
  BY ControlInit, AtText
<1>4. NamesInv
  BY <1>1 DEF NamesInv
<1>5. NoneMerged => CountInv
  <2>1. 0 % 2^CounterWidth = 0
    BY Powers
  <2>2. \A id \in DOMAIN markers : markers[id] = 0 /\ (id \in Locations => counters.counters[id] = 0)
    BY <1>1
  <2>3. QED
    BY <2>1, <2>2 DEF CountInv, NoneMerged
<1>6. NoneMerged => WindowInv
  <2>1. \A id \in Locations : ~counters.running[id]
    BY <1>1
  <2>2. \A l \in Loops(code) : NoneMerged => LoopId(code, l) \in Locations
    BY <1>4, Names
  <2>3. \A s, e \in DOMAIN code : ~Within(s, e, pc, waiting)
    BY <1>1, <1>3 DEF Within, Structured
  <2>4. QED
    BY <2>1, <2>2, <2>3 DEF WindowInv
<1>7. QED
  BY <1>2, <1>4, <1>5, <1>6

LEMMA NamesStep ==
  ASSUME NamesInv, TypeInv, [Next]_vars, ControlInv
  PROVE  NamesInv' /\ (NoneMerged' <=> NoneMerged) /\ (CountsWhole' <=> CountsWhole)
<1>1. code' = code
  BY DEF Next, Clock, Finish, vars
<1>2. DOMAIN markers' = DOMAIN markers
  <2>1. CASE Issue
    BY <2>1 DEF Issue
  <2>2. CASE Await \/ Resume \/ Finish \/ UNCHANGED vars
    BY <2>2 DEF Await, Resume, Finish, ghosts, vars
  <2>3. CASE \E x : Moves(x)
    BY <2>3 DEF Moves
  <2>4. QED
    BY <2>1, <2>2, <2>3, ControlMoves DEF Next, TypeInv
<1>3. QED
  BY <1>1, <1>2 DEF NamesInv, NoneMerged, CountsWhole

LEMMA WindowStep ==
  ASSUME ControlInv, TypeInv, LatchInv, WindowInv, NamesInv, NoneMerged, [Next]_vars
  PROVE  WindowInv'
<1>1. code' = code /\ Structured(code) /\ pc \in Int /\ Op = code[pc] /\ pc \in DOMAIN code
  BY AtText DEF Next, Clock, Finish, vars
<1>2. CASE UNCHANGED vars
  BY <1>2 DEF vars, modules, WindowInv
<1>3. CASE Finish
  BY <1>3 DEF Finish, modules, WindowInv
<1>4. ASSUME Clock, Next, ~Finish, CountsNothing(code) PROVE \A id \in Locations : ~counters'.running[id]
  <2>1. ~Counts(Op)
    BY <1>1, <1>4 DEF CountsNothing
  <2>2. QED
    BY <1>4, <2>1, RunningRests DEF WindowInv
<1>5. ASSUME Clock, Next, ~Finish, CountsPaired(code),
             NEW l \in Loops(code), NEW s \in DOMAIN code, NEW e \in DOMAIN code, MarkedAt(code, l, s, e)
      PROVE  counters'.running[LoopId(code, l)] <=> Within(s, e, pc', waiting')
  <2>1. counters.running[LoopId(code, l)] <=> Within(s, e, pc, waiting)
    BY <1>5 DEF WindowInv
  <2>2. /\ s \in Int /\ e \in Int /\ s < e
        /\ code[s].op = "call" /\ code[e].op = "call"
    BY <1>1, <1>5, MarkedWhere
  <2>3. Counts(code[s]) /\ Counts(code[e])
    <3>1. LoopId(code, l) # Report
      BY Names
    <3>2. Marks(code[s], TRUE, LoopId(code, l)) /\ Marks(code[e], FALSE, LoopId(code, l))
      BY <1>5 DEF MarkedAt
    <3>3. QED
      BY <3>1, <3>2 DEF Marks, Counts
  <2>4. CASE Issue /\ Counts(Op)
    <3>1. pc' = pc /\ waiting' = TRUE /\ ~waiting
      BY <2>4 DEF Issue
    <3>2. PICK m \in Loops(code), active \in BOOLEAN, s2, e2 \in DOMAIN code :
            /\ MarkedAt(code, m, s2, e2) /\ Op.args = <<active, LoopId(code, m)>>
            /\ active => pc = s2
            /\ ~active => pc = e2
      BY <1>5, <2>4, CallOfLoop
    <3>3. counters'.running = [counters.running EXCEPT ![LoopId(code, m)] = active]
      <4>1. Op.args[1] = active /\ Op.args[2] = LoopId(code, m)
        BY <3>2
      <4>2. QED
        BY <1>5, <2>4, <3>1, <4>1, CountsMove, Names
    <3>4. LoopId(code, m) \in Locations /\ LoopId(code, l) \in Locations
      BY Names
    <3>5. CASE m = l
      <4>1. s2 = s /\ e2 = e
        <5>1. Marks(code[s], TRUE, LoopId(code, l)) /\ Marks(code[e], FALSE, LoopId(code, l))
          BY <1>5 DEF MarkedAt
        <5>2. QED
          BY <3>2, <3>5, <5>1 DEF MarkedAt
      <4>2. counters'.running[LoopId(code, l)] = active
        BY <3>3, <3>4, <3>5 DEF TypeInv
      <4>3. Within(s, e, pc', waiting') <=> active
        BY <2>2, <3>1, <3>2, <4>1 DEF Within
      <4>4. QED
        BY <4>2, <4>3
    <3>6. CASE m # l
      <4>1. LoopId(code, m) # LoopId(code, l)
        BY <1>1, <3>6, LoopIdsDiffer
      <4>2. counters'.running[LoopId(code, l)] = counters.running[LoopId(code, l)]
        BY <3>3, <3>4, <4>1 DEF TypeInv
      <4>3. pc # s /\ pc # e
        <5>1. Marks(code[s], TRUE, LoopId(code, l)) /\ Marks(code[e], FALSE, LoopId(code, l))
          BY <1>5 DEF MarkedAt
        <5>2. QED
          BY <1>1, <3>2, <4>1, <5>1 DEF Marks
      <4>4. Within(s, e, pc', waiting') <=> Within(s, e, pc, waiting)
        BY <2>2, <3>1, <4>3 DEF Within
      <4>5. QED
        BY <2>1, <4>2, <4>4
    <3>7. QED
      BY <3>5, <3>6
  <2>5. ASSUME ~(Issue /\ Counts(Op)) PROVE counters'.running = counters.running
    <3>1. ~waiting => ~Counts(Op)
      <4>1. Op.op = "call" /\ ~waiting => Issue
        BY <1>5 DEF Next, Await, Resume, Enter, Skip, Turn, Leave, Compute
      <4>2. QED
        BY <2>5, <4>1 DEF Counts
    <3>2. QED
      BY <1>5, <3>1, RunningRests
  <2>6. CASE Issue /\ ~Counts(Op)
    <3>1. pc' = pc /\ pc # s /\ pc # e
      BY <1>1, <2>3, <2>6 DEF Issue
    <3>2. Within(s, e, pc', waiting') <=> Within(s, e, pc, waiting)
      BY <1>1, <2>2, <3>1 DEF Within
    <3>3. QED
      BY <2>1, <2>5, <2>6, <3>2
  <2>7. CASE Await
    <3>1. pc' = pc /\ waiting' = waiting /\ ~Issue
      BY <2>7 DEF Await, Issue
    <3>2. QED
      BY <2>1, <2>5, <3>1
  <2>8. CASE Resume
    <3>1. pc' = pc + 1 /\ waiting' = FALSE /\ waiting /\ ~Issue
      BY <2>8 DEF Resume, Issue
    <3>2. Within(s, e, pc', waiting') <=> Within(s, e, pc, waiting)
      BY <1>1, <2>2, <3>1 DEF Within
    <3>3. QED
      BY <2>1, <2>5, <3>1, <3>2
  <2>9. CASE \E x : Moves(x)
    <3>1. PICK x : Moves(x)
      BY <2>9
    <3>2. /\ x \in Int /\ x # s /\ x # e /\ pc # s /\ pc # e
          /\ (s < pc /\ pc < e) <=> (s < x /\ x < e)
      BY <1>5, <3>1, MovesAround
    <3>3. pc' = x + 1 /\ ~waiting' /\ ~waiting /\ ~Issue
      BY <3>1 DEF Moves, Issue
    <3>4. Within(s, e, pc', waiting') <=> (s < x /\ x < e)
      BY <2>2, <3>2, <3>3 DEF Within
    <3>5. Within(s, e, pc, waiting) <=> (s < pc /\ pc < e)
      BY <1>1, <2>2, <3>2, <3>3 DEF Within
    <3>6. QED
      BY <2>1, <2>5, <3>2, <3>3, <3>4, <3>5
  <2>10. QED
    BY <1>5, <2>4, <2>6, <2>7, <2>8, <2>9, ControlMoves DEF Next, TypeInv
<1>6. CASE Clock /\ Next /\ ~Finish
  BY <1>1, <1>4, <1>5, <1>6 DEF WindowInv
<1>7. QED
  BY <1>2, <1>3, <1>6 DEF Next

\* A cycle counts the loops that run where a counter call starts, and none elsewhere.
LEMMA CountsOf ==
  ASSUME ControlInv, TypeInv, WindowInv, NamesInv, CountInv, NoneMerged, CountsWhole, Clock, Next, ~Finish,
         NEW id \in DOMAIN markers
  PROVE  \/ counters'.counters[id] = counters.counters[id] /\ markers'[id] = markers[id]
         \/ counters.running[id] /\ counters'.counters[id] = Bump(counters.counters[id])
                                 /\ markers'[id] = markers[id] + 1
<1>1. PICK l \in Loops(code) : id = LoopId(code, l)
  BY DEF NamesInv
<1>2. id \in Locations /\ markers[id] \in Int
  BY DEF NoneMerged, CountInv
<1>3. CASE Issue /\ Counts(Op)
  <2>1. CountsPaired(code) /\ ~waiting
    BY <1>3, AtText DEF CountsWhole, CountsNothing, Issue
  <2>2. id \in Counted <=> counters.running[id]
    BY <1>1, <1>3, <2>1, CountedRuns
  <2>3. counters'.counters[id] = IF counters.running[id] THEN Bump(counters.counters[id]) ELSE counters.counters[id]
    BY <1>2, <1>3, <2>1, CountsMove
  <2>4. markers'[id] = markers[id] + (IF id \in Counted THEN 1 ELSE 0)
    BY <1>3 DEF Issue, Counts
  <2>5. CASE counters.running[id]
    BY <2>2, <2>3, <2>4, <2>5
  <2>6. CASE ~counters.running[id]
    BY <1>2, <2>2, <2>3, <2>4, <2>6
  <2>7. QED
    BY <2>5, <2>6
<1>4. CASE ~(Issue /\ Counts(Op))
  <2>1. ~waiting => ~Counts(Op)
    <3>1. Op.op = "call" /\ ~waiting => Issue
      BY DEF Next, Await, Resume, Enter, Skip, Turn, Leave, Compute
    <3>2. QED
      BY <1>4, <3>1 DEF Counts
  <2>2. counters'.counters = counters.counters
    BY <2>1, CountersRest
  <2>3. markers' = markers
    <3>1. CASE Issue
      <4>1. ~(Op.module = "counters" /\ Op.args[2] # Report)
        BY <1>4, <3>1 DEF Issue, Counts
      <4>2. QED
        BY <3>1, <4>1 DEF Issue
    <3>2. CASE Await \/ Resume
      BY <3>2 DEF Await, Resume, ghosts
    <3>3. CASE \E x : Moves(x)
      BY <3>3 DEF Moves
    <3>4. QED
      BY <3>1, <3>2, <3>3, ControlMoves DEF Next, TypeInv
  <2>4. QED
    BY <2>2, <2>3
<1>5. QED
  BY <1>3, <1>4

LEMMA CountStep ==
  ASSUME ControlInv, TypeInv, WindowInv, NamesInv, CountInv, NoneMerged, CountsWhole, [Next]_vars
  PROVE  CountInv'
<1>1. CASE UNCHANGED vars
  BY <1>1 DEF vars, modules, ghosts, CountInv
<1>2. CASE Finish
  BY <1>2 DEF Finish, modules, ghosts, CountInv
<1>3. ASSUME Clock, Next, ~Finish PROVE CountInv'
  <2>1. DOMAIN markers' = DOMAIN markers /\ code' = code
    BY <1>3, NamesStep DEF NamesInv, Clock
  <2>2. ASSUME NEW id \in DOMAIN markers
        PROVE  markers'[id] \in Int /\ counters'.counters[id] = markers'[id] % 2^CounterWidth
    <3>1. PICK M \in Nat \ {0} : M = 2^CounterWidth
      BY Powers
    <3>2. PICK n \in Int : n = markers[id] /\ counters.counters[id] = n % M
      BY <3>1 DEF CountInv
    <3>3. ((n % M) + 1) % M = (n + 1) % M
      <4>1. 1 \in Int
        OBVIOUS
      <4>2. QED
        BY <4>1, ModAdd, Zenon
    <3>4. Bump(n % M) = (n + 1) % M
      BY <3>1, <3>3, Zenon DEF Bump
    <3>5. CASE counters'.counters[id] = counters.counters[id] /\ markers'[id] = markers[id]
      BY <3>1, <3>2, <3>5
    <3>6. CASE counters'.counters[id] = Bump(counters.counters[id]) /\ markers'[id] = markers[id] + 1
      <4>1. markers'[id] = n + 1 /\ counters'.counters[id] = (n + 1) % M
        BY <3>2, <3>4, <3>6
      <4>2. n + 1 \in Int
        OBVIOUS
      <4>3. QED
        BY <3>1, <4>1, <4>2
    <3>7. QED
      BY <1>3, <3>5, <3>6, CountsOf
  <2>3. QED
    BY <2>1, <2>2 DEF CountInv
<1>4. QED
  BY <1>1, <1>2, <1>3 DEF Next

-----------------------------------------------------------------------------
(* What the log shows of the counters.                                     *)

\* The lines of a counter.
LinesFor(id) == {i \in LinesOf(log, "counter") : log[i][2] = id}

\* The counter's last line has what it holds; one that has none has counted nothing.
Settled(id) ==
  \/ markers[id] = 0 /\ LinesFor(id) = {}
  \/ \E i \in LinesFor(id) : (\A j \in LinesFor(id) : j <= i) /\ log[i][3] = counters.counters[id]

\* A counter that does not run, and whose call has been displayed, is settled.
CollectInv ==
  /\ \A i \in LinesOf(log, "counter") : log[i][2] \in DOMAIN markers
  /\ \A id \in DOMAIN markers :
       Settled(id) \/ counters.running[id] \/ (counters.reg /\ args.counters[2] = id)

LEMMA CollectInit == Init => CollectInv
<1> SUFFICES ASSUME Init PROVE CollectInv
  OBVIOUS
<1>1. LinesOf(log, "counter") = {}
  BY DEF Init, LinesOf
<1>2. \A id \in DOMAIN markers : markers[id] = 0
  BY DEF Init
<1>3. QED
  BY <1>1, <1>2 DEF CollectInv, Settled, LinesFor

\* A counter whose lines, count and markers stay is as settled as it was.
LEMMA StaysSettled ==
  ASSUME NEW id, LinesFor(id)' = LinesFor(id), \A i \in LinesFor(id) : log'[i] = log[i],
         counters'.counters[id] = counters.counters[id], markers'[id] = markers[id], Settled(id)
  PROVE  Settled(id)'
BY DEF Settled

LEMMA LinesStay ==
  ASSUME NEW id, LinesOf(log', "counter") = LinesOf(log, "counter"), \A i \in DOMAIN log : log'[i] = log[i]
  PROVE  LinesFor(id)' = LinesFor(id) /\ \A i \in LinesFor(id) : log'[i] = log[i]
BY DEF LinesFor, LinesOf

\* The display of a counter's call.
LEMMA CollectDisplay ==
  ASSUME ControlInv, ShakeInv, TypeInv, NamesInv, NoneMerged, CountsWhole, CollectInv, LatchInv,
         PRINT_ON_STOP, Clock, Next, ~Finish, counters.reg, ~counters.pending
  PROVE  CollectInv'
<1>1. /\ waiting /\ Op.op = "call" /\ Op.module = "counters" /\ args.counters = Op.args
      /\ args.counters[2] # Report
  BY DEF ShakeInv, Shakes, ControlInv
<1>2. counters'.counters = counters.counters /\ counters'.running = counters.running
  BY <1>1, CountersRest, RunningRests
<1>3. DOMAIN markers' = DOMAIN markers /\ markers' = markers
  <2>1. ~Issue
    BY <1>1 DEF Issue
  <2>2. QED
    BY <1>1, <2>1 DEF Next, Await, Resume, Enter, Skip, Turn, Leave, Compute, ghosts
<1>4. PICK k : k = args.counters[2] /\ k \in DOMAIN markers /\ LocIdx(k) = k
  <2>1. Counts(Op)
    BY <1>1 DEF Counts
  <2>2. CountsPaired(code)
    BY <2>1, AtText DEF CountsWhole, CountsNothing
  <2>3. PICK m \in Loops(code), active \in BOOLEAN : Op.args = <<active, LoopId(code, m)>>
    BY <2>1, <2>2, CallOfLoop
  <2>4. args.counters[2] = LoopId(code, m)
    BY <1>1, <2>3
  <2>5. QED
    BY <2>4, Names
<1>5. PICK x : x = <<"counter", k, counters.counters[k]>> /\ log' = log \o <<x>>
  BY <1>4, Displays
<1>6. x[1] = "counter" /\ x[2] = k /\ x[3] = counters.counters[k] /\ IsLog(log)
  BY <1>5 DEF TypeInv
<1>7. PICK n : n = Len(log) + 1
  OBVIOUS
<1>8. /\ LinesOf(log', "counter") = LinesOf(log, "counter") \cup {n} /\ log'[n] = x
      /\ \A i \in DOMAIN log : log'[i] = log[i]
      /\ \A i \in LinesOf(log, "counter") : i \in Int /\ i <= n
  <2>1. /\ Len(log) \in Nat /\ DOMAIN log = 1 .. Len(log) /\ (log \o <<x>>)[Len(log) + 1] = x
        /\ LinesOf(log \o <<x>>, x[1]) = LinesOf(log, x[1]) \cup {Len(log) + 1}
    BY <1>6, OneLine, Zenon
  <2>2. PICK kind : kind = x[1] /\ kind = "counter"
    BY <1>6
  <2>3. LinesOf(log', "counter") = LinesOf(log, "counter") \cup {n} /\ log'[n] = x
    BY <1>5, <1>7, <2>1, <2>2, Zenon
  <2>4. \A i \in LinesOf(log, "counter") : i \in DOMAIN log
    BY DEF LinesOf
  <2>5. \A i \in DOMAIN log : i \in Int /\ i <= n
    BY <1>7, <2>1
  <2>6. QED
    BY <2>3, <2>4, <2>5, ClockAdds
<1>9. Settled(k)'
  <2>1. n \in LinesFor(k)' /\ \A j \in LinesFor(k)' : j \in LinesOf(log, "counter") \/ j = n
    BY <1>6, <1>8 DEF LinesFor
  <2>2. n \in Int
    BY <1>6, <1>7, OneLine
  <2>3. \A j \in LinesFor(k)' : j <= n
    BY <1>8, <2>1, <2>2
  <2>4. log'[n][3] = counters'.counters[k]
    BY <1>2, <1>6, <1>8
  <2>5. QED
    BY <2>1, <2>3, <2>4 DEF Settled
<1>10. ASSUME NEW id \in DOMAIN markers, id # k, Settled(id) PROVE Settled(id)'
  <2>1. LinesFor(id)' = LinesFor(id)
    BY <1>6, <1>8, <1>10 DEF LinesFor, LinesOf
  <2>2. \A i \in LinesFor(id) : log'[i] = log[i]
    BY <1>8 DEF LinesFor, LinesOf
  <2>3. QED
    BY <1>2, <1>3, <1>10, <2>1, <2>2, StaysSettled
<1>11. \A i \in LinesOf(log', "counter") : log'[i][2] \in DOMAIN markers'
  BY <1>3, <1>4, <1>6, <1>8 DEF CollectInv, LinesOf
<1>12. QED
  BY <1>2, <1>3, <1>4, <1>9, <1>10, <1>11 DEF CollectInv

LEMMA CollectStep ==
  ASSUME ControlInv, ShakeInv, TypeInv, WindowInv, NamesInv, CountInv, NoneMerged, CountsWhole, CollectInv, LatchInv,
         PRINT_ON_STOP, [Next]_vars
  PROVE  CollectInv'
<1>1. CASE UNCHANGED vars
  BY <1>1 DEF vars, modules, ghosts, CollectInv, Settled, LinesFor
<1>2. CASE Finish
  <2>1. counters' = counters /\ args' = args /\ markers' = markers
    BY <1>2 DEF Finish, modules, ghosts
  <2>2. LinesOf(log', "counter") = LinesOf(log, "counter") /\ \A i \in DOMAIN log : log'[i] = log[i]
    BY <1>2, FinishAppends DEF OnlyAdds
  <2>3. \A id \in DOMAIN markers : Settled(id) => Settled(id)'
    BY <2>1, <2>2, LinesStay, StaysSettled
  <2>4. \A i \in LinesOf(log', "counter") : log'[i][2] \in DOMAIN markers'
    BY <2>1, <2>2 DEF CollectInv, LinesOf
  <2>5. QED
    BY <2>1, <2>3, <2>4 DEF CollectInv
<1>3. CASE Clock /\ Next /\ ~Finish /\ counters.reg /\ ~counters.pending
  BY <1>3, CollectDisplay
<1>4. CASE Clock /\ Next /\ ~Finish /\ ~(counters.reg /\ ~counters.pending)
  <2>1. LinesOf(log', "counter") = LinesOf(log, "counter") /\ \A i \in DOMAIN log : log'[i] = log[i]
    BY <1>4, Undisturbed, ClockAdds DEF OnlyAdds
  <2>2. DOMAIN markers' = DOMAIN markers
    BY <1>4, NamesStep DEF NamesInv, Clock
  <2>3. \A i \in LinesOf(log', "counter") : log'[i][2] \in DOMAIN markers'
    BY <2>1, <2>2 DEF CollectInv, LinesOf
  <2>4. ASSUME NEW id \in DOMAIN markers
        PROVE  Settled(id)' \/ counters'.running[id] \/ (counters'.reg /\ args'.counters[2] = id)
    <3>1. id \in Locations /\ id # Report
      BY IndexIs DEF NoneMerged
    <3>2. Settled(id) \/ counters.running[id]
      BY <1>4, <3>1 DEF CollectInv, ShakeInv
    <3>3. Settled(id) /\ ~counters.running[id] => Settled(id)'
      <4>1. ~counters.running[id] => counters'.counters[id] = counters.counters[id] /\ markers'[id] = markers[id]
        BY <1>4, CountsOf
      <4>2. QED
        BY <2>1, <4>1, LinesStay, StaysSettled
    <3>4. CASE ~waiting /\ Counts(Op)
      <4>1. /\ counters'.running = [counters.running EXCEPT ![LocIdx(Op.args[2])] = Op.args[1]]
            /\ args'.counters = Op.args /\ counters'.reg
        BY <1>4, <3>4, CountsMove
      <4>2. CASE id = Op.args[2]
        BY <4>1, <4>2
      <4>3. CASE id # Op.args[2]
        <5>1. Op.args[2] \in DOMAIN markers
          <6>1. CountsPaired(code)
            BY <3>4, AtText DEF CountsWhole, CountsNothing
          <6>2. PICK m \in Loops(code), active \in BOOLEAN : Op.args = <<active, LoopId(code, m)>>
            BY <3>4, <6>1, CallOfLoop
          <6>3. Op.args[2] = LoopId(code, m)
            BY <6>2
          <6>4. QED
            BY <6>3, Names
        <5>2. LocIdx(Op.args[2]) # id
          BY <4>3, <5>1, IndexIs DEF NoneMerged
        <5>3. counters'.running[id] = counters.running[id]
          BY <3>1, <4>1, <5>2 DEF TypeInv
        <5>4. QED
          BY <3>2, <3>3, <5>3
      <4>4. QED
        BY <4>2, <4>3
    <3>5. CASE ~waiting => ~Counts(Op)
      <4>1. counters'.running = counters.running
        BY <1>4, <3>5, RunningRests
      <4>2. QED
        BY <3>2, <3>3, <4>1
    <3>6. QED
      BY <3>4, <3>5
  <2>5. QED
    BY <2>2, <2>3, <2>4 DEF CollectInv
<1>5. QED
  BY <1>1, <1>2, <1>3, <1>4 DEF Next

\* When the kernel has returned, no counter runs and none is to be displayed.
LEMMA CollectInvSuffices ==
  ASSUME ControlInv, ShakeInv, TypeInv, EndInv, WindowInv, NamesInv, CountsWhole, CollectInv,
         parse_cycle_count(log) # {}, NoneMerged
  PROVE  LET collected == hw_counter_final_count_by_location(log)
         IN  /\ \A id \in DOMAIN collected : collected[id] = counters.counters[id]
             /\ \A id \in DOMAIN markers : markers[id] > 0 => id \in DOMAIN collected
<1>1. Finished
  BY DEF parse_cycle_count, Finished
<1>2. Op.op = "return" /\ ~waiting /\ ~counters.reg
  BY <1>1 DEF EndInv, ControlInv, ShakeInv, Shakes
<1>3. /\ pc \in Int /\ pc = Len(code) /\ Structured(code)
  <2>1. pc \in Int /\ Op = code[pc] /\ pc \in DOMAIN code /\ Structured(code)
    BY AtText
  <2>2. QED
    BY <1>2, <2>1, TextRuns DEF ControlInv
<1>4. ASSUME NEW id \in DOMAIN markers PROVE ~counters.running[id]
  <2>1. PICK l \in Loops(code) : id = LoopId(code, l)
    BY DEF NamesInv
  <2>2. CASE CountsNothing(code)
    BY <2>2 DEF WindowInv, NoneMerged
  <2>3. CASE CountsPaired(code)
    <3>1. PICK s, e \in DOMAIN code : MarkedAt(code, l, s, e)
      BY <2>3 DEF CountsPaired
    <3>2. e \in Int /\ e < pc
      BY <1>3, <3>1, MarkedWhere
    <3>3. ~Within(s, e, pc, waiting)
      BY <1>3, <3>2 DEF Within
    <3>4. QED
      BY <2>1, <2>3, <3>1, <3>3 DEF WindowInv
  <2>4. QED
    BY <2>2, <2>3 DEF CountsWhole
<1>5. \A id \in DOMAIN markers : Settled(id)
  BY <1>2, <1>4 DEF CollectInv
<1> DEFINE collected == hw_counter_final_count_by_location(log)
<1>6. \A id : id \in DOMAIN collected <=> \E i \in LinesFor(id) : TRUE
  BY DEF hw_counter_final_count_by_location, LinesFor
<1>7. ASSUME NEW id \in DOMAIN collected PROVE collected[id] = counters.counters[id]
  <2>1. id \in DOMAIN markers
    BY <1>6, <1>7 DEF CollectInv, LinesFor
  <2>2. PICK i \in LinesFor(id) : (\A j \in LinesFor(id) : j <= i) /\ log[i][3] = counters.counters[id]
    BY <1>5, <1>6, <1>7, <2>1 DEF Settled
  <2>3. LineFor(log, id) \in LinesFor(id) /\ \A j \in LinesFor(id) : j <= LineFor(log, id)
    BY <2>2 DEF LineFor, LinesFor
  <2>4. LineFor(log, id) = i
    <3>1. i \in DOMAIN log /\ LineFor(log, id) \in DOMAIN log
      BY <2>2, <2>3 DEF LinesFor, LinesOf
    <3>2. DOMAIN log = 1 .. Len(log) /\ Len(log) \in Nat
      BY OneLine DEF TypeInv
    <3>3. PICK f : f = LineFor(log, id) /\ f <= i /\ i <= f
      BY <2>2, <2>3
    <3>4. i \in Int /\ f \in Int
      BY <3>1, <3>2, <3>3
    <3>5. QED
      BY <3>3, <3>4
  <2>5. collected[id] = log[LineFor(log, id)][3]
    BY <1>7 DEF hw_counter_final_count_by_location
  <2>6. QED
    BY <2>2, <2>4, <2>5
<1>8. ASSUME NEW id \in DOMAIN markers, markers[id] > 0 PROVE id \in DOMAIN collected
  BY <1>5, <1>6, <1>8 DEF Settled
<1>9. QED
  BY <1>7, <1>8

LEMMA IvsInit == Init => IvsInv
<1> SUFFICES ASSUME Init PROVE IvsInv
  OBVIOUS
<1>1. pc = 1 /\ ivs = << >>
  BY DEF Init
<1>2. LoopsAround(code, pc) = {}
  <2>1. \A l \in Loops(code) : l \in Int /\ l >= 1
    BY ControlInit, AtText DEF Loops
  <2>2. QED
    BY <1>1, <2>1 DEF LoopsAround
<1>3. QED
  BY <1>1, <1>2, FS_EmptySet DEF IvsInv

-----------------------------------------------------------------------------
(* The theorems.                                                           *)

PlanInv == plan \in Plans /\ \E k \in Kernels : code = Instrument(k, plan)

KernelInv == PlanInv /\ ControlInv /\ ShakeInv /\ TypeInv /\ EndInv

LEMMA KernelInit == Init => KernelInv
BY ControlInit, ShakeInit, TypeInit, EndInit DEF Init, KernelInv, PlanInv

LEMMA KernelStep ==
  ASSUME KernelInv, [Next]_vars
  PROVE  KernelInv'
<1>1. plan' = plan /\ code' = code
  BY DEF Next, Clock, Finish, vars
<1>2. bodies \in Nat
  BY DEF KernelInv, TypeInv
<1>3. PlanInv'
  BY <1>1 DEF KernelInv, PlanInv
<1>4. QED
  BY <1>2, <1>3, ControlStep, ShakeStep, TypeStep, EndStep DEF KernelInv

\* The assertions the pass inserts hold, and there is one for each body entered,
\* in every kernel whose loops' bounds fit the wires.  The assumption says what
\* instrumentForOpsInFunc makes of a text: no assertion but of a loop's own bound
\* at the start of its body, and with the pass in the plan one for each loop.
THEOREM AssertionsHold ==
  ASSUME \A k \in Kernels, p \in Plans :
           /\ AssertsOwn(Instrument(k, p))
           /\ "assert-bounds" \in Range(p) => AssertsOnce(Instrument(k, p))
  PROVE  Spec => []AssertsHold
<1> DEFINE Inv == KernelInv /\ IvsInv /\ AssertInv
<1>1. ASSUME KernelInv PROVE AssertsOwn(code) /\ (Has("assert-bounds") => AssertsOnce(code))
  BY <1>1 DEF KernelInv, PlanInv, Has
<1>2. Init => Inv
  BY IvsInit, KernelInit, AssertInit
<1>3. Inv /\ [Next]_vars => Inv'
  <2> SUFFICES ASSUME Inv, [Next]_vars PROVE Inv'
    OBVIOUS
  <2>1. KernelInv'
    BY KernelStep
  <2>2. AssertsOwn(code)
    BY <1>1
  <2>3. IvsInv'
    BY <2>2, IvsStep DEF KernelInv
  <2>4. AssertInv'
    BY <2>2, AssertStep DEF KernelInv
  <2>5. QED
    BY <2>1, <2>3, <2>4
<1>4. Inv => AssertsHold
  BY <1>1, AssertInvSuffices DEF KernelInv
<1>5. QED
  BY <1>2, <1>3, <1>4, PTL DEF Spec

\* When a kernel returns, each final report it asks for is in the log once, a line
\* for every location in order: the loop counters' as they stand; the locations' as
\* they stood when it was displayed, the final counts of all but the active one,
\* with a sum that is every cycle up to the report's own.  The assumption says what
\* the passes make of a text: one report call among those that end it, after which
\* the module is not called, or none.
THEOREM ReportsAreFinal ==
  ASSUME \A k \in Kernels, p \in Plans :
           /\ IF "change-location" \in Range(p) THEN ReportsOnce(Instrument(k, p), "location")
                                                ELSE ReportsNever(Instrument(k, p), "location")
           /\ IF "hw-counters-report" \in Range(p) THEN ReportsOnce(Instrument(k, p), "counters")
                                                   ELSE ReportsNever(Instrument(k, p), "counters")
  PROVE  Spec => []ReportedOnReturn
<1> DEFINE Inv == KernelInv /\ ChargeInv /\ ReportInv
<1>1. ASSUME KernelInv
      PROVE  /\ IF Has("change-location") THEN ReportsOnce(code, "location") ELSE ReportsNever(code, "location")
             /\ IF Has("hw-counters-report") THEN ReportsOnce(code, "counters") ELSE ReportsNever(code, "counters")
  BY <1>1 DEF KernelInv, PlanInv, Has
<1>2. Init => Inv
  BY KernelInit, ChargeInit, ReportInit
<1>3. Inv /\ [Next]_vars => Inv'
  BY KernelStep, ChargeStep, ReportStep DEF KernelInv
<1>4. Inv => ReportedOnReturn
  BY <1>1, ReportInvSuffices DEF KernelInv
<1>5. QED
  BY <1>2, <1>3, <1>4, PTL DEF Spec

\* The invariant the loop counters need, in kernels the pass marked whole: every
\* loop has its start call and its stop call, or none has.
LoopCountInv == LatchInv /\ NamesInv /\ CountsWhole /\ (NoneMerged => WindowInv /\ CountInv)

LEMMA LoopCountStep ==
  ASSUME KernelInv, LoopCountInv, [Next]_vars
  PROVE  LoopCountInv'
BY LatchStep, NamesStep, WindowStep, CountStep DEF KernelInv, LoopCountInv

\* The loop counters hold, to their width, how many calls the kernel made while the
\* loop ran.
THEOREM LoopsAreCounted ==
  ASSUME \A k \in Kernels, p \in Plans : CountsPaired(Instrument(k, p)) \/ CountsNothing(Instrument(k, p))
  PROVE  Spec => []MarkersCounted
<1> DEFINE Inv == KernelInv /\ LoopCountInv
<1>1. KernelInv => CountsWhole
  BY DEF KernelInv, PlanInv, CountsWhole
<1>2. Init => Inv
  BY <1>1, KernelInit, CounterInit DEF LoopCountInv
<1>3. Inv /\ [Next]_vars => Inv'
  BY KernelStep, LoopCountStep
<1>4. Inv => MarkersCounted
  BY DEF LoopCountInv, CountInv, MarkersCounted
<1>5. QED
  BY <1>2, <1>3, <1>4, PTL DEF Spec

\* From a log that ends, the collector takes the final count of each loop entered,
\* where the counters are displayed at each call.
THEOREM CollectionIsFinal ==
  ASSUME PRINT_ON_STOP,
         \A k \in Kernels, p \in Plans : CountsPaired(Instrument(k, p)) \/ CountsNothing(Instrument(k, p))
  PROVE  Spec => []CollectedIsFinal
<1> DEFINE Inv == KernelInv /\ LoopCountInv /\ (NoneMerged => CollectInv)
<1>1. KernelInv => CountsWhole
  BY DEF KernelInv, PlanInv, CountsWhole
<1>2. Init => Inv
  BY <1>1, KernelInit, CounterInit, CollectInit DEF LoopCountInv
<1>3. Inv /\ [Next]_vars => Inv'
  <2> SUFFICES ASSUME Inv, [Next]_vars PROVE Inv'
    OBVIOUS
  <2>1. KernelInv' /\ LoopCountInv'
    BY KernelStep, LoopCountStep
  <2>2. NoneMerged' => NoneMerged
    BY NamesStep DEF KernelInv, LoopCountInv
  <2>3. NoneMerged => CollectInv'
    BY CollectStep DEF KernelInv, LoopCountInv
  <2>4. QED
    BY <2>1, <2>2, <2>3
<1>4. Inv => CollectedIsFinal
  BY CollectInvSuffices DEF KernelInv, LoopCountInv, CollectedIsFinal
<1>5. QED
  BY <1>2, <1>3, <1>4, PTL DEF Spec
=============================================================================
