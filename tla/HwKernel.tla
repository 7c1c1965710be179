------------------------------ MODULE HwKernel ------------------------------
(***************************************************************************)
(* A kernel goes through instrumentation passes of InstrPasses.cpp and     *)
(* runs as hardware with the modules its calls name: the kernel's          *)
(* controller, the modules and the memory move on one clock.               *)
(*                                                                         *)
(* The controller, which the HLS tool generates, is external: one          *)
(* operation a cycle, one call at a time, start_port for one cycle, and a  *)
(* call's arguments on the wires until the next call of that module, as    *)
(* the modules themselves suppose when they read them later.  So is the    *)
(* memory: one request at a time, its data kept until the next answer.     *)
(***************************************************************************)
EXTENDS LoopText, HwModules, MetricsCollection, SequencesExt

CONSTANTS
  Kernels,     \* texts that end with "return"
  Plans,       \* sequences of passes
  Vectors,     \* the raw words of a and b: a record of two sequences
  FloatDot,    \* what linalg.dot on floats leaves of out and the first elements
  MaxLatency   \* cycles the memory takes at most for a request

ASSUME KernelAssumption ==
  /\ MaxLatency \in Nat
  /\ DOMAIN Vectors.a = DOMAIN Vectors.b /\ DOMAIN Vectors.a = 1 .. Len(Vectors.a)
  /\ \A i \in DOMAIN Vectors.a : {Vectors.a[i], Vectors.b[i]} \subseteq 0 .. 2^WordWidth - 1
  /\ FloatDot \in [(0 .. 2^WordWidth - 1) \X (0 .. Len(Vectors.a)) -> 0 .. 2^WordWidth - 1]

VARIABLES
  plan,      \* the passes the kernel went through
  code,      \* the kernel after them
  pc,        \* the operation the controller is at
  ivs,       \* the induction variables of the loops it is in, outermost first
  waiting,   \* it waits for the done_port of the call at pc
  args,      \* per module, the arguments on its wires
  asserts, counters, location, dot,  \* the modules' registers
  storeDrives,  \* the build keeps the driver of the vector module's store, not its FSM's
  ram,       \* the memory port: request, age, rdy, data, stored
  out,       \* the scalar the dot product goes to
  log,       \* what the simulation displayed
  cycles,    \* cycles since reset, to the counters' width
  markers,   \* per loop id, the counter calls issued while the loop ran
  bodies,    \* how many loop bodies were entered
  expected,  \* what out holds by the operations of the original kernel
  asked      \* the cycle in which the locations' report was asked for

modules == <<asserts, counters, location, dot>>
ghosts == <<markers, bodies, expected, asked>>
vars == <<plan, code, storeDrives, pc, ivs, waiting, args, modules, ram, out, log, cycles, ghosts>>

-----------------------------------------------------------------------------
(* The passes.                                                             *)

CallOf(module, arguments) == [op |-> "call", module |-> module, args |-> arguments]

\* Code inserted at the start of each loop's body and before its terminator.
InLoops(text, atStart, atEnd) ==
  FlattenSeq([p \in DOMAIN text |->
    CASE text[p].op = "for" -> <<text[p]>> \o atStart[p]
      [] text[p].op = "end" -> atEnd[LoopOf(text, p)] \o <<text[p]>>
      [] OTHER -> <<text[p]>>])

BeforeReturn(text, call) ==
  FlattenSeq([p \in DOMAIN text |-> IF text[p].op = "return" THEN <<call, text[p]>> ELSE <<text[p]>>])

Nothing(text) == [p \in Loops(text) |-> << >>]
IsCallOf(op, module) == op.op = "call" /\ op.module = module
IsAssert(op) == IsCallOf(op, "assert")

\* A loop whose body starts with the assertion has it already.
instrumentForOpsInFunc(text) ==
  InLoops(text,
    [p \in Loops(text) |->
       IF IsAssert(text[p + 1]) THEN << >> ELSE <<CallOf("assert", <<text[p].ub>>)>>],
    Nothing(text))

instrumentForOpsWithHWCounter(text) ==
  InLoops(text,
    [p \in Loops(text) |-> <<CallOf("counters", <<TRUE, LoopId(text, p)>>)>>],
    [p \in Loops(text) |-> <<CallOf("counters", <<FALSE, LoopId(text, p)>>)>>])

instrumentFuncWithHWCounterReport(text) == BeforeReturn(text, CallOf("counters", <<TRUE, Report>>))

instrumentForOpsWithChangeLocation(text) ==
  InLoops(text, [p \in Loops(text) |-> <<CallOf("location", <<LoopId(text, p)>>)>>], Nothing(text))

instrumentFuncWithChangeLocationReport(text) == BeforeReturn(text, CallOf("location", <<Report>>))

\* A dot carries its operands' shapes, -1 for a dynamic size, and their type:
\* "int", or "f32", at which the matcher does not look.
isStaticVectorMemRef(shape) == Len(shape) = 1 /\ shape[1] # -1

isMatchableVectorDot(op) ==
  /\ isStaticVectorMemRef(op.a)
  /\ isStaticVectorMemRef(op.b)
  /\ op.a[1] = op.b[1]
  /\ op.out = << >>

replaceVectorDot(op) == CallOf("dot", <<op.a[1], op.type>>)

SwapOpToHW(text) ==
  [p \in DOMAIN text |->
     IF text[p].op = "dot" /\ isMatchableVectorDot(text[p]) THEN replaceVectorDot(text[p]) ELSE text[p]]

RunPass(text, pass) ==
  CASE pass = "assert-bounds"      -> instrumentForOpsInFunc(text)
    [] pass = "hw-counters"        -> instrumentForOpsWithHWCounter(text)
    [] pass = "hw-counters-report" ->
         instrumentFuncWithHWCounterReport(instrumentForOpsWithHWCounter(text))
    [] pass = "change-location"    ->
         instrumentFuncWithChangeLocationReport(instrumentForOpsWithChangeLocation(text))
    [] pass = "swap-op-to-hw"      -> SwapOpToHW(text)

Instrument(kernel, passes) == FoldLeft(RunPass, kernel, passes)
Instrumented == {Instrument(k, p) : k \in Kernels, p \in Plans}

\* getFunc declares sodaVectorDot once, with the types of its first call: the
\* verifier refuses a module with a call of other types.
CallsAgree(text) ==
  \A p, q \in DOMAIN text :
    IsCallOf(text[p], "dot") /\ IsCallOf(text[q], "dot") => text[p].args = text[q].args

\* What the passes make is a function that runs: its loops are whole, it ends with
\* its return, and the calls name locations and vectors there are.
Runnable(text) ==
  /\ Structured(text) /\ Len(text) > 0
  /\ \A p \in DOMAIN text :
       /\ text[p].op = "return" <=> p = Len(text)
       /\ text[p].op = "call" /\ text[p].module = "location" => text[p].args[1] \in Int
       /\ text[p].op = "call" /\ text[p].module = "counters" => text[p].args \in BOOLEAN \X Int
       /\ text[p].op = "call" /\ text[p].module = "dot" => text[p].args[1] \in 0 .. Len(Vectors.a)

ASSUME InstrumentedAssumption == \A text \in Instrumented : Runnable(text)

\* The module overwrites out where linalg.dot adds to it: each of its calls
\* follows a fill.
ClearsFirst(text) ==
  \A p \in DOMAIN text : text[p].op = "call" /\ text[p].module = "dot" =>
    p - 1 \in DOMAIN text /\ text[p - 1].op = "fill"

\* The calls that start a loop's body, and those that end it.
Prologue(text, l) == {q \in l + 1 .. End(text, l) : \A r \in l + 1 .. q : text[r].op = "call"}
Epilogue(text, l) ==
  {q \in l + 1 .. End(text, l) - 1 : \A r \in q .. End(text, l) - 1 : text[r].op = "call"}

\* Assertions start the bodies of loops and take those loops' bounds, which fit
\* the wires; a text that went through the pass has one for each loop.
AssertsOwn(text) ==
  /\ \A l \in Loops(text) : text[l].lb \in Nat /\ text[l].ub \in 0 .. 2^WordWidth - 1
  /\ \A q \in DOMAIN text : IsAssert(text[q]) =>
       \E l \in Loops(text) : q \in Prologue(text, l) /\ text[q].args = <<text[l].ub>>
AssertsOnce(text) ==
  \A l \in Loops(text) : \E q \in Prologue(text, l) :
    \A r \in Prologue(text, l) : IsAssert(text[r]) <=> r = q

\* Each loop's body has one start call and one stop call of its counter around
\* what it had, and no other call than a report's goes to the counters.
Counts(op) == op.op = "call" /\ op.module = "counters" /\ op.args[2] # Report
Marks(op, active, id) == op.op = "call" /\ op.module = "counters" /\ op.args = <<active, id>>
MarkedAt(text, l, s, e) ==
  /\ s \in Prologue(text, l) /\ e \in Epilogue(text, l) /\ s < e
  /\ \A q \in DOMAIN text :
       /\ Marks(text[q], TRUE, LoopId(text, l)) <=> q = s
       /\ Marks(text[q], FALSE, LoopId(text, l)) <=> q = e
CountsPaired(text) ==
  /\ \A l \in Loops(text) : \E s, e \in DOMAIN text : MarkedAt(text, l, s, e)
  /\ \A q \in DOMAIN text : Counts(text[q]) =>
       \E l \in Loops(text), active \in BOOLEAN : Marks(text[q], active, LoopId(text, l))
CountsNothing(text) == \A q \in DOMAIN text : ~Counts(text[q])

\* The function reports once, among the calls that end it, and does not call the
\* module again.
Reports(op, module) ==
  /\ op.op = "call" /\ op.module = module
  /\ (IF module = "counters" THEN op.args[2] ELSE op.args[1]) = Report
ReportsAtEnd(text, module) ==
  \A q \in DOMAIN text : Reports(text[q], module) =>
    \A r \in q + 1 .. Len(text) - 1 : text[r].op = "call" /\ text[r].module # module
ReportsOnce(text, module) ==
  ReportsAtEnd(text, module) /\ \E q \in DOMAIN text : Reports(text[q], module)
ReportsNever(text, module) == \A q \in DOMAIN text : ~Reports(text[q], module)

-----------------------------------------------------------------------------
(* A clock edge: what the modules and the memory do of this cycle's wires.  *)

Op == code[pc]
Starts(module) == Op.op = "call" /\ Op.module = module /\ ~waiting

\* Mutant of ArgsOf: the assertion gets the outermost loop's induction variable.
ArgsOf_Outermost(call) == IF call.module = "assert" THEN <<Head(ivs), call.args[1]>> ELSE call.args

\* The assertion's arguments are the induction variable and the bound.
ArgsOf(call) == IF call.module = "assert" THEN <<Last(ivs), call.args[1]>> ELSE call.args
Wires(module) == IF Starts(module) THEN ArgsOf(Op) ELSE args[module]

Done(module) ==
  CASE module = "assert"   -> asserts.done
    [] module = "counters" -> counters.done
    [] module = "location" -> location.done
    [] module = "dot"      -> DotDone(dot)

ModulesMove ==
  LET a == Wires("assert")  c == Wires("counters")  l == Wires("location")  d == Wires("dot")
  IN  /\ args' = [assert |-> a, counters |-> c, location |-> l, dot |-> d]
      /\ asserts' = AssertEdge(asserts, Starts("assert"))
      /\ counters' = CountersEdge(counters, Starts("counters"), c[1], c[2])
      /\ location' = LocationEdge(location, Starts("location"), l[1])
      /\ dot' = DotEdge(dot, Starts("dot"), d[1], ram)
      /\ log' = log \o AssertDisplay(asserts, a[1], a[2]) \o CountersDisplay(counters, c[2])
                    \o LocationDisplay(location)

Idle == [request |-> << >>, age |-> 0, rdy |-> FALSE, data |-> ram.data, stored |-> FALSE]

\* A request is taken when none is under way and none was answered this cycle.
RamAccepts ==
  /\ ram.request = << >>
  /\ ram' = IF ram.rdy \/ ram.stored THEN Idle ELSE [Idle EXCEPT !.request = DotRequest(dot, storeDrives)]

RamWorks ==
  /\ ram.request # << >> /\ ram.age < MaxLatency
  /\ ram' = [ram EXCEPT !.age = @ + 1]

RamReads ==
  /\ ram.request # << >> /\ ram.request[1] # "out"
  /\ ram' = [Idle EXCEPT !.rdy = TRUE, !.data = Vectors[ram.request[1]][ram.request[2]]]

RamStores ==
  /\ ram.request # << >> /\ ram.request[1] = "out"
  /\ ram' = [Idle EXCEPT !.stored = TRUE]
  /\ out' = ram.request[2]

Clock ==
  /\ ModulesMove
  /\ cycles' = Bump(cycles)
  /\ UNCHANGED <<plan, code, storeDrives>>

QuietRam == (RamAccepts \/ RamWorks \/ RamReads) /\ UNCHANGED out
AnyRam == QuietRam \/ RamStores

-----------------------------------------------------------------------------
(* The controller.                                                         *)

Init ==
  /\ \E k \in Kernels, p \in Plans : plan = p /\ code = Instrument(k, p)
  /\ CallsAgree(code)
  /\ storeDrives \in BOOLEAN
  /\ pc = 1
  /\ ivs = << >>
  /\ waiting = FALSE
  /\ args = [assert |-> <<0, 0>>, counters |-> <<FALSE, 0>>, location |-> <<0>>, dot |-> <<0, "int">>]
  /\ asserts = AssertReset /\ counters = CountersReset
  /\ location = LocationReset /\ dot = DotReset
  /\ ram = [request |-> << >>, age |-> 0, rdy |-> FALSE, data |-> 0, stored |-> FALSE]
  /\ out = 0
  /\ log = << >>
  /\ cycles = 0
  /\ markers = [p \in {LoopId(code, l) : l \in Loops(code)} |-> 0]
  /\ bodies = 0
  /\ expected = 0
  /\ asked = 0

DotProduct(len) == SumFunction([i \in 1 .. len |-> Vectors.a[i] * Vectors.b[i]])

\* linalg.dot adds to out.
linalg_dot(type, acc, len) ==
  IF type = "int" THEN Word(acc + DotProduct(len)) ELSE FloatDot[<<acc, len>>]

\* What a call of the module stands for: linalg.dot on integers; in place of a
\* float product, by sodaVectorDot.v:20-24, the integer one of the raw words.
CalledDot(type, acc, len) ==
  IF type = "int" THEN linalg_dot(type, acc, len) ELSE Word(DotProduct(len))

\* The length of a dot that stayed in software: that of an operand, if static.
LengthOf(op) ==
  IF op.a[1] # -1 THEN op.a[1] ELSE IF op.b[1] # -1 THEN op.b[1] ELSE Len(Vectors.a)

\* The loops whose counters a counter call at pc finds running: those around it,
\* but for the one it starts.
Counted ==
  {LoopId(code, l) : l \in LoopsAround(code, pc)} \ (IF Op.args[1] THEN {Op.args[2]} ELSE {})

Issue ==
  /\ Op.op = "call" /\ ~waiting
  /\ waiting' = TRUE
  /\ AnyRam
  /\ markers' = IF Op.module = "counters" /\ Op.args[2] # Report
                THEN [i \in DOMAIN markers |-> markers[i] + (IF i \in Counted THEN 1 ELSE 0)]
                ELSE markers
  /\ expected' = IF Op.module = "dot" THEN CalledDot(Op.args[2], expected, Op.args[1]) ELSE expected
  /\ asked' = IF Reports(Op, "location") THEN cycles ELSE asked
  /\ UNCHANGED <<pc, ivs, bodies>>

Await ==
  /\ Op.op = "call" /\ waiting /\ ~Done(Op.module)
  /\ AnyRam
  /\ UNCHANGED <<pc, ivs, waiting, ghosts>>

Resume ==
  /\ Op.op = "call" /\ waiting /\ Done(Op.module)
  /\ waiting' = FALSE
  /\ pc' = pc + 1
  /\ AnyRam
  /\ UNCHANGED <<ivs, ghosts>>

Enter ==
  /\ Op.op = "for" /\ Op.lb < Op.ub
  /\ pc' = pc + 1
  /\ ivs' = Append(ivs, Op.lb)
  /\ bodies' = bodies + 1
  /\ QuietRam
  /\ UNCHANGED <<waiting, markers, expected, asked>>

Skip ==
  /\ Op.op = "for" /\ Op.lb >= Op.ub
  /\ pc' = End(code, pc) + 1
  /\ QuietRam
  /\ UNCHANGED <<ivs, waiting, ghosts>>

Turn ==
  /\ Op.op = "end" /\ Last(ivs) + 1 < code[LoopOf(code, pc)].ub
  /\ pc' = LoopOf(code, pc) + 1
  /\ ivs' = Append(Front(ivs), Last(ivs) + 1)
  /\ bodies' = bodies + 1
  /\ QuietRam
  /\ UNCHANGED <<waiting, markers, expected, asked>>

Leave ==
  /\ Op.op = "end" /\ Last(ivs) + 1 >= code[LoopOf(code, pc)].ub
  /\ pc' = pc + 1
  /\ ivs' = Front(ivs)
  /\ QuietRam
  /\ UNCHANGED <<waiting, ghosts>>

\* An operation of the kernel itself: "work" leaves out alone, "fill" clears it,
\* a dot that stayed in software adds to it.
Compute ==
  /\ Op.op \in {"work", "fill", "dot"}
  /\ pc' = pc + 1
  /\ (RamAccepts \/ RamWorks \/ RamReads)
  /\ out' = CASE Op.op = "work" -> out
              [] Op.op = "fill" -> 0
              [] Op.op = "dot"  -> linalg_dot(Op.type, out, LengthOf(Op))
  /\ expected' = CASE Op.op = "work" -> expected
                   [] Op.op = "fill" -> 0
                   [] Op.op = "dot"  -> linalg_dot(Op.type, expected, LengthOf(Op))
  /\ UNCHANGED <<ivs, waiting, markers, bodies, asked>>

\* The simulation ends: the tool reports the cycles it took.
Finished == LinesOf(log, "cycles") # {}

Finish ==
  /\ Op.op = "return" /\ ~Finished
  /\ log' = Append(log, <<"cycles", cycles>>)
  /\ UNCHANGED <<plan, code, storeDrives, pc, ivs, waiting, args, modules, ram, out, cycles, ghosts>>

Next ==
  \/ (Issue \/ Await \/ Resume \/ Enter \/ Skip \/ Turn \/ Leave \/ Compute) /\ Clock
  \/ Finish

Spec == Init /\ [][Next]_vars /\ WF_vars(Next)

-----------------------------------------------------------------------------
Has(pass) == pass \in Range(plan)

\* The change-location counters share out the cycles since reset: each cycle is
\* charged once, that of a switch, of a call and of the report included.
EveryCycleCharged == SumFunction(location.counters) % 2^CounterWidth = cycles

\* Outside a call, the counter of a loop holds how many start and stop calls, its
\* own stop among them, the kernel made while that loop ran, to the counter's
\* width; loops whose ids the truncation merges are excepted.
NoneMerged == \A id \in DOMAIN markers : id \in Locations
MarkersCounted ==
  ~waiting /\ NoneMerged =>
    \A id \in DOMAIN markers : counters.counters[id] = markers[id] % 2^CounterWidth

\* Every assertion in the log is true, and a log that ends has one for each loop
\* body the kernel entered, also if the pass ran twice in a row.
AssertsHold ==
  /\ assertion_results(log)[FALSE] = 0
  /\ Finished /\ Has("assert-bounds") => assertion_results(log)[TRUE] = bodies

\* A collection from a log that has its cycle count takes the final count of every
\* loop that was entered, though the log holds a print for every call and none of
\* the report's lines is read.
CollectedIsFinal ==
  parse_cycle_count(log) # {} /\ NoneMerged =>
    LET collected == hw_counter_final_count_by_location(log)
    IN  /\ \A id \in DOMAIN collected : collected[id] = counters.counters[id]
        /\ \A id \in DOMAIN markers : markers[id] > 0 => id \in DOMAIN collected

\* Outside a call, out holds what the kernel's dot products and fills leave there,
\* whether software or the vector module computed them and however late the memory
\* answered: each element counts once.  Of a float product the module was given
\* that is the integer product of the raw words the module's source announces.
DotExact == ~waiting => out = expected

\* The lines of a kind are one report, from line k + 1 on, which shows the counts.
ReportAt(k, kind, shown) ==
  /\ LinesOf(log, kind) = k + 1 .. k + 2^LocWidth
  /\ \A l \in Locations : log[k + 1 + l] = <<kind, l, shown[l]>>

\* The report of locations shows the final count of each but the active one, and
\* in all the cycles up to and including that of the report's own call.
LocationsShown ==
  \E k \in 0 .. Len(log) :
    LET shown == [l \in Locations |-> log[k + 1 + l][3]]
    IN  /\ ReportAt(k, "FINAL location", shown)
        /\ \A l \in Locations \ {location.current} : shown[l] = location.counters[l]
        /\ SumFunction(shown) % 2^CounterWidth = Bump(asked)

\* When the kernel returns, each module asked for a final report has displayed it
\* once, every location in order: the loop counters as they stand, the locations
\* as they stood at the report.  A module that was not asked displayed none.
ReportedOnReturn ==
  Finished =>
    /\ IF Has("hw-counters-report")
         THEN \E k \in 0 .. Len(log) : ReportAt(k, "FINAL counter", counters.counters)
         ELSE LinesOf(log, "FINAL counter") = {}
    /\ IF Has("change-location") THEN LocationsShown ELSE LinesOf(log, "FINAL location") = {}

\* Every call is acknowledged and the kernel returns, if the store of the vector
\* module reaches the memory: it waits for it without a limit.
Returns == storeDrives ~> Finished
=============================================================================
