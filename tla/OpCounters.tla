----------------------------- MODULE OpCounters -----------------------------
(***************************************************************************)
(* The counting passes of InstrPasses.cpp, at loop bounds and per          *)
(* operation, and the runtime their calls reach                            *)
(* (DynamicOpCounterRuntime.cpp): an instrumented program runs, the totals *)
(* build up and are printed when it exits.                                 *)
(*                                                                         *)
(* A function is structured code as flat text of [op, to, calls]: op is    *)
(* "for", "end", "if", "fi" in matching pairs, "call", or an operation of  *)
(* Operations; to is the function a call names and 0 elsewhere; calls are  *)
(* the counters that calls in front of the operation bump.                 *)
(***************************************************************************)
EXTENDS LoopText, Ranking, SequencesExt

CONSTANTS
  Inputs,     \* [fns, plan]: functions, the first of which is run, and the
              \* tracked-kinds of the per-operation passes they go through
  MaxTurns    \* how many iterations a run executes in all

VARIABLES
  prog,      \* the functions, instrumented
  plan,      \* the passes they went through
  frames,    \* the calls in progress: <<function, next position>>, innermost last
  turns,     \* iterations executed so far
  rt,        \* the runtime: see NoTotals
  report,    \* what the program printed on exit: a report each time
  work,      \* per loop <<function, position>>, what it really executed, by kind
  ran        \* per operation, how often it was executed

vars == <<prog, plan, frames, turns, rt, report, work, ran>>

Put(f, x, v) == [y \in DOMAIN f \cup {x} |-> IF y = x THEN v ELSE f[y]]
Get(f, x, v) == IF x \in DOMAIN f THEN f[x] ELSE v

-----------------------------------------------------------------------------
(* The pass at loop bounds.                                                *)

\* fptosi has a tracked float operand and a tracked integer result; const is an
\* arith.constant, apply an operation of the affine dialect.
LoopKinds == {"load", "store", "addf", "addi"}
Operations == LoopKinds \cup {"fptosi", "const", "apply"}

NoCounts == [k \in LoopKinds |-> 0]
Plus(c, d, times) == [k \in LoopKinds |-> c[k] + times * d[k]]

\* Mutant of countTrackedOpsInLoopBody: inner loops' operations are counted too.
countTrackedOpsInLoopBody_Nested(code, l) ==
  [k \in LoopKinds |-> Cardinality({p \in l .. End(code, l) : code[p].op = k})]

\* countTrackedOpsInLoopBody: the operations of the body itself.
countTrackedOpsInLoopBody(code, l) ==
  [k \in LoopKinds |-> Cardinality({p \in DOMAIN code : code[p].op = k /\ DirectlyIn(code, l, p)})]

\* The functions the passes get: their regions are whole, their calls name functions,
\* and nothing is counted yet.
TextOps == [op : Operations \cup {"for", "end", "if", "fi", "call"}, to : Nat, calls : {<< >>}]
Whole(code, fns) ==
  /\ Structured(code)
  /\ \A p \in DOMAIN code :
       /\ code[p].op = "if" =>
            /\ End(code, p) \in p + 1 .. Len(code) /\ EndsAt(code, p, End(code, p))
            /\ code[End(code, p)].op = "fi"
       /\ code[p].op = "call" => code[p].to \in DOMAIN fns

ASSUME InputsAssumption ==
  /\ MaxTurns \in Nat
  /\ \A input \in Inputs :
       /\ input.fns \in Seq(Seq(TextOps)) \ {<< >>} /\ input.plan \in Seq(Seq(STRING))
       /\ \A f \in DOMAIN input.fns : Whole(input.fns[f], input.fns)

-----------------------------------------------------------------------------
(* The pass per operation.                                                 *)

Kinds == {"memref.load", "memref.store", "arith.int", "arith.float", "scf", "affine"}

\* What a word of tracked-kinds selects; a blank word is passed over.
Selects ==
  [memref_load |-> {"memref.load"}, memref_store |-> {"memref.store"},
   memref |-> {"memref.load", "memref.store"},
   arith_int |-> {"arith.int"}, arith_float |-> {"arith.float"},
   arith |-> {"arith.int", "arith.float"},
   scf |-> {"scf"}, affine |-> {"affine"}, blank |-> {}]

\* No word at all selects every kind; "all" does too, whatever follows it; a word
\* it does not know before that fails the pass.
parseTrackedKinds(words) ==
  LET known(i) == words[i] \in DOMAIN Selects
  IN  IF words = << >> THEN [ok |-> TRUE, kinds |-> Kinds]
      ELSE IF \E i \in DOMAIN words : words[i] = "all" /\ \A j \in 1 .. i - 1 : known(j)
      THEN [ok |-> TRUE, kinds |-> Kinds]
      ELSE IF \E i \in DOMAIN words : ~known(i) THEN [ok |-> FALSE, kinds |-> {}]
      ELSE [ok |-> TRUE, kinds |-> UNION {Selects[words[i]] : i \in DOMAIN words}]

HasTrackedFloat(op) == op \in {"addf", "fptosi"}
HasTrackedInt(op)   == op \in {"addi", "fptosi"}

\* The kinds an operation can be counted as, the one it is counted as first.
KindsOf(op) ==
  CASE op = "load" -> <<"memref.load">>
    [] op = "store" -> <<"memref.store">>
    [] HasTrackedFloat(op) \/ HasTrackedInt(op) ->
         (IF HasTrackedFloat(op) THEN <<"arith.float">> ELSE << >>)
           \o (IF HasTrackedInt(op) THEN <<"arith.int">> ELSE << >>)
    [] Opens(op) -> <<"scf">>
    [] op = "apply" -> <<"affine">>
    [] OTHER -> << >>

\* The places of those a selection tracks, and the first of them.
Tracks(op, kinds) == {i \in DOMAIN KindsOf(op) : KindsOf(op)[i] \in kinds}
FirstTracked(op, kinds) == KindsOf(op)[Min(Tracks(op, kinds))]

\* Mutant of getDynamicCounterKind: an operation with its counter gets another.
getDynamicCounterKind_Again(op, kinds) ==
  IF Tracks(op.op, kinds) = {} THEN << >> ELSE <<FirstTracked(op.op, kinds)>>

\* An operation that has its counter, which marks it, gets no second one.
getDynamicCounterKind(op, kinds) ==
  IF op.calls # << >> \/ Tracks(op.op, kinds) = {} THEN << >> ELSE <<FirstTracked(op.op, kinds)>>

instrumentForOpsWithDynamicCounter(code, kinds) ==
  [p \in DOMAIN code |->
     [code[p] EXCEPT !.calls = @ \o getDynamicCounterKind(code[p], kinds)]]

\* The passes of a plan, one after the other: one that fails ends the compilation.
DynamicCounterPass(state, words) ==
  LET selection == parseTrackedKinds(words)
  IN  IF state.ok /\ selection.ok
      THEN [ok |-> TRUE, fns |-> [f \in DOMAIN state.fns |->
              instrumentForOpsWithDynamicCounter(state.fns[f], selection.kinds)]]
      ELSE [ok |-> FALSE, fns |-> state.fns]

Compiled(input) == FoldLeft(DynamicCounterPass, [ok |-> TRUE, fns |-> input.fns], input.plan)

-----------------------------------------------------------------------------
(* The runtime: counters is gCounterByLoopId, dynamic gDynamicCounters,     *)
(* stack gActiveLoopStack (innermost last), exits gAtExitRegistered.        *)

NoTotals == [counters |-> << >>, dynamic |-> << >>, stack |-> << >>, exits |-> 0]

\* Mutant of RegisterAtExit: registered at every call.
RegisterAtExit_Always(r) == [r EXCEPT !.exits = @ + 1]

\* exits is how many times atexit was given the printer.
RegisterAtExit(r) == [r EXCEPT !.exits = IF @ = 0 THEN 1 ELSE @]

\* Mutant of CollectStart: the loop gets no total until it counts something.
CollectStart_NoEntry(r, id) == [RegisterAtExit(r) EXCEPT !.stack = Append(@, id)]

\* sodaInstrCollectOpCounts with run = 1.
CollectStart(r, id) ==
  [RegisterAtExit(r) EXCEPT !.counters = Put(@, id, Get(@, id, NoCounts)),
                            !.stack = Append(@, id)]

Occurrences(s, id) == Cardinality({i \in DOMAIN s : s[i] = id})
LastOf(s, id) == CHOOSE i \in DOMAIN s : s[i] = id /\ \A j \in i + 1 .. Len(s) : s[j] # id

\* Mutant of CollectStop: only the loop that ends gets the counts.
CollectStop_NoOuter(r, id, n) ==
  [r EXCEPT !.counters = [@ EXCEPT ![id] = Plus(@, n, 1)],
            !.stack = IF Occurrences(@, id) = 0 THEN @ ELSE RemoveAt(@, LastOf(@, id))]

\* Mutant of CollectStop: the loop stays on the stack.
CollectStop_NoPop(r, id, n) ==
  [r EXCEPT !.counters = [i \in DOMAIN @ |-> Plus(@[i], n, Occurrences(r.stack, i))]]

\* sodaInstrCollectOpCounts with run = 0: every active loop gets the counts, once
\* per entry of the stack; then the innermost entry of this id goes.
CollectStop(r, id, n) ==
  [RegisterAtExit(r) EXCEPT
     !.counters = [i \in DOMAIN @ \cup {id} |->
                     Plus(Get(@, i, NoCounts), n, Occurrences(r.stack, i))],
     !.stack = IF Occurrences(@, id) = 0 THEN @ ELSE RemoveAt(@, LastOf(@, id))]

sodaInstrDynamicCounter(r, kind) ==
  [RegisterAtExit(r) EXCEPT !.dynamic = Put(@, kind, Get(@, kind, 0) + 1)]

\* printAllCounterSummaries, a line per loop in the order of their ids and a line
\* per counter.
Summaries(r) ==
  [loops |-> [i \in 1 .. Cardinality(DOMAIN r.counters) |->
                LET id == Ranked(DOMAIN r.counters, i) IN <<id, r.counters[id]>>],
   dynamic |-> r.dynamic]

-----------------------------------------------------------------------------
(* The instrumented program.  Control only stands inside loops it entered: *)
(* structured code has no other way in or out.                             *)

Fn(frame) == prog[frame[1]]
ActiveIn(frame) == LoopsAround(Fn(frame), frame[2])
ActiveLoops == UNION {{frames[i][1]} \X ActiveIn(frames[i]) : i \in DOMAIN frames}

Init ==
  /\ \E input \in Inputs :
       /\ plan = input.plan
       /\ prog = Compiled(input).fns
       /\ frames = IF Compiled(input).ok THEN << <<1, 1>> >> ELSE << >>
  /\ turns = 0
  /\ rt = NoTotals
  /\ report = << >>
  /\ work = [l \in UNION {{f} \X Loops(prog[f]) : f \in DOMAIN prog} |-> NoCounts]
  /\ ran = [op \in Operations \cup {"for", "if"} |-> 0]

Running == frames # << >>
fn == Last(frames)[1]
pc == Last(frames)[2]
Code == prog[fn]
At(op) == Running /\ pc <= Len(Code) /\ Code[pc].op = op
Goto(p) == frames' = Front(frames) \o << <<fn, p>> >>

\* The runtime after the counter calls in front of the operation at pc.
Bumped == FoldLeft(sodaInstrDynamicCounter, rt, Code[pc].calls)
Ran(op) == ran' = [ran EXCEPT ![op] = @ + 1]

\* The body's first operation is the start marker.
EnterLoop ==
  /\ At("for") /\ turns < MaxTurns
  /\ turns' = turns + 1
  /\ Goto(pc + 1)
  /\ rt' = CollectStart(Bumped, LoopId(Code, pc))
  /\ Ran("for")
  /\ UNCHANGED <<prog, plan, report, work>>

SkipLoop ==
  /\ At("for")
  /\ Goto(End(Code, pc) + 1)
  /\ rt' = Bumped
  /\ Ran("for")
  /\ UNCHANGED <<prog, plan, turns, report, work>>

\* The stop marker before scf.yield.
Stopped == LET l == LoopOf(Code, pc)
           IN  CollectStop(rt, LoopId(Code, l), countTrackedOpsInLoopBody(Code, l))

TurnLoop ==
  /\ At("end") /\ turns < MaxTurns
  /\ turns' = turns + 1
  /\ Goto(LoopOf(Code, pc) + 1)
  /\ rt' = CollectStart(Stopped, LoopId(Code, LoopOf(Code, pc)))
  /\ UNCHANGED <<prog, plan, report, work, ran>>

LeaveLoop ==
  /\ At("end")
  /\ Goto(pc + 1)
  /\ rt' = Stopped
  /\ UNCHANGED <<prog, plan, turns, report, work, ran>>

\* An operation of a kind the loop totals have is work of every active loop.
Execute ==
  /\ Running /\ pc <= Len(Code)
  /\ LET op == Code[pc].op
     IN  /\ op \in Operations
         /\ work' = IF op \in LoopKinds
                    THEN [l \in DOMAIN work |->
                            IF l \in ActiveLoops THEN [work[l] EXCEPT ![op] = @ + 1] ELSE work[l]]
                    ELSE work
         /\ Ran(op)
  /\ Goto(pc + 1)
  /\ rt' = Bumped
  /\ UNCHANGED <<prog, plan, turns, report>>

If ==
  /\ At("if")
  /\ \E p \in {pc, End(Code, pc)} : Goto(p + 1)
  /\ rt' = Bumped
  /\ Ran("if")
  /\ UNCHANGED <<prog, plan, turns, report, work>>

Fi == At("fi") /\ Goto(pc + 1) /\ UNCHANGED <<prog, plan, turns, rt, report, work, ran>>

Call ==
  /\ At("call")
  /\ frames' = Front(frames) \o << <<fn, pc + 1>>, <<Code[pc].to, 1>> >>
  /\ UNCHANGED <<prog, plan, turns, rt, report, work, ran>>

\* The return of the first function ends the program: what atexit holds runs.
Return ==
  /\ Running /\ pc > Len(Code)
  /\ frames' = Front(frames)
  /\ report' = IF Len(frames) = 1 THEN [i \in 1 .. rt.exits |-> Summaries(rt)] ELSE report
  /\ UNCHANGED <<prog, plan, turns, rt, work, ran>>

Next ==
  EnterLoop \/ SkipLoop \/ TurnLoop \/ LeaveLoop \/ Execute \/ If \/ Fi \/ Call \/ Return

Spec == Init /\ [][Next]_vars

-----------------------------------------------------------------------------
\* The totals are those of ids the stack has held, and the stack is as deep as
\* the loops that are active.
TypeOK ==
  /\ turns \in 0 .. MaxTurns
  /\ \A i \in DOMAIN frames : frames[i][2] \in 1 .. Len(Fn(frames[i])) + 1
  /\ rt.counters \in [DOMAIN rt.counters -> [LoopKinds -> Nat]]
  /\ rt.dynamic \in [DOMAIN rt.dynamic -> Nat] /\ DOMAIN rt.dynamic \subseteq Kinds
  /\ rt.stack \in Seq(DOMAIN rt.counters)
  /\ Len(rt.stack) <= turns

\* The stack holds the ids of the loops the program is in, outermost first: the
\* markers pair up through loops, conditionals and calls.
StackIsNest ==
  rt.stack = FlattenSeq([i \in DOMAIN frames |->
               [k \in 1 .. Cardinality(ActiveIn(frames[i])) |->
                  LoopId(Fn(frames[i]), Ranked(ActiveIn(frames[i]), k))]])

\* The totals are told for programs with their loops in one function, f: ids start
\* again in each.  What is called inside of the loops, the helpers, has none and
\* never calls f again.
LoopsInOne(fns, f, helpers) ==
  /\ f \in DOMAIN fns
  /\ \A g \in DOMAIN fns : Loops(fns[g]) # {} => g = f
  /\ f \notin helpers
  /\ \A g \in DOMAIN fns : \A p \in DOMAIN fns[g] :
       fns[g][p].op = "call" /\ (g \in helpers \/ LoopsAround(fns[g], p) # {}) =>
         fns[g][p].to \in helpers

\* And that count all they execute in loops: it stands in a loop's own body, neither
\* in a conditional of it nor in a helper.
AllDirect(fns, helpers) ==
  \A g \in DOMAIN fns : \A p \in DOMAIN fns[g] :
    fns[g][p].op \in LoopKinds =>
      /\ g \notin helpers
      /\ LoopsAround(fns[g], p) = {} \/ \E l \in Loops(fns[g]) : DirectlyIn(fns[g], l, p)

\* For which inputs the totals are told, as bounds and exactly.
LoopsTold(fns) ==
  \E f \in DOMAIN fns : \E helpers \in SUBSET DOMAIN fns : LoopsInOne(fns, f, helpers)
TotalsTold(fns) ==
  \E f \in DOMAIN fns : \E helpers \in SUBSET DOMAIN fns :
    LoopsInOne(fns, f, helpers) /\ AllDirect(fns, helpers)

Total(l) == Get(rt.counters, LoopId(prog[l[1]], l[2]), NoCounts)

\* Whenever no loop is active, each loop's total is what it executed, the work
\* of the loops inside it included: nothing is lost, nothing counted twice.
TotalsExact == ActiveLoops = {} => \A l \in DOMAIN work : Total(l) = work[l]

\* At no moment is a loop charged for more than it executed.
NeverOvercounts == \A l \in DOMAIN work : \A k \in LoopKinds : Total(l)[k] <= work[l][k]

\* The kind the plan's passes count an operation as: the first pass that tracks
\* it decides, and the ones after it leave it alone.
CountedAs(op) ==
  LET passes == {i \in DOMAIN plan : Tracks(op, parseTrackedKinds(plan[i]).kinds) # {}}
  IN  IF passes = {} THEN "none" ELSE FirstTracked(op, parseTrackedKinds(plan[Min(passes)]).kinds)

\* At every moment each counter is the number of executions so far of the
\* operations counted as its kind: through several passes with overlapping
\* selections no execution is counted twice, as two kinds, or not at all.
DynamicExact ==
  \A k \in Kinds :
    Get(rt.dynamic, k, 0) = SumFunction(Restrict(ran, {op \in DOMAIN ran : CountedAs(op) = k}))

\* A program that reached a counter prints its summaries once when it exits, and
\* they are the exact totals of the loops it entered, in the order of their ids.
ReportExact ==
  frames = << >> =>
    /\ Len(report) = IF turns > 0 \/ \E op \in DOMAIN ran : ran[op] > 0 /\ CountedAs(op) # "none"
                     THEN 1 ELSE 0
    /\ \A i \in DOMAIN report : \A j \in DOMAIN report[i].loops :
         /\ j > 1 => report[i].loops[j - 1][1] < report[i].loops[j][1]
         /\ \E l \in DOMAIN work : report[i].loops[j] = <<LoopId(prog[l[1]], l[2]), work[l]>>
=============================================================================
