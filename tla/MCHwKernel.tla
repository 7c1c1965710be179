----------------------------- MODULE MCHwKernel -----------------------------
(* Small kernels, and the recipes' passes alone and together.                *)
EXTENDS HwKernel

Do(op) == <<[op |-> op]>>
For(lb, ub, body) == <<[op |-> "for", lb |-> lb, ub |-> ub]>> \o body \o Do("end")
DotOf(a, b, o, type) == <<[op |-> "dot", a |-> a, b |-> b, out |-> o, type |-> type]>>
Matched(type) == DotOf(<<2>>, <<2>>, << >>, type)

\* Nests of one and two loops, whose ids fit LocWidth = 1, and of four, whose ids
\* do not; a loop that never turns; dots the pass takes (in a loop, with a fill
\* before each, of length 0, of floats) and dots it leaves alone; a kernel whose
\* dots differ in length, which the verifier refuses once they are calls.
SmallKernels ==
  { For(0, 2, Do("work")) \o Do("return"),
    For(0, 2, Do("work") \o For(1, 3, Do("work")) \o Do("work")) \o Do("return"),
    For(2, 2, Do("work")) \o For(0, 2, For(0, 1, For(0, 2, Do("work")))) \o Do("return"),
    For(0, 2, Do("fill") \o Matched("int")) \o Do("return"),
    Do("fill") \o Matched("f32") \o Do("work") \o Do("fill") \o Matched("f32") \o Do("return"),
    Do("fill") \o DotOf(<<0>>, <<0>>, << >>, "int") \o DotOf(<<-1>>, <<-1>>, << >>, "int")
      \o DotOf(<<2>>, <<2>>, <<1>>, "f32") \o DotOf(<<2>>, <<-1>>, << >>, "int") \o Do("return"),
    Do("fill") \o DotOf(<<1>>, <<1>>, << >>, "int") \o Do("fill") \o Matched("int") \o Do("return") }

SmallPlans ==
  { << >>, <<"assert-bounds", "assert-bounds">>, <<"hw-counters">>, <<"hw-counters-report">>,
    <<"change-location">>, <<"swap-op-to-hw">>,
    <<"swap-op-to-hw", "hw-counters-report", "change-location", "assert-bounds">> }

\* Each product of these kernels is computed into a scalar just cleared.
ASSUME \A text \in Instrumented : ClearsFirst(text)

\* What the passes leave in each text, by the plan it went through.
CountsLoops == {"hw-counters", "hw-counters-report"}

ASSUME AssertionsAreOwn ==
  \A k \in Kernels, p \in Plans : AssertsOwn(Instrument(k, p))

ASSUME AssertionsAreOne ==
  \A k \in Kernels, p \in Plans :
    "assert-bounds" \in Range(p) => AssertsOnce(Instrument(k, p))

ASSUME CountersPair ==
  \A k \in Kernels, p \in Plans :
    IF CountsLoops \cap Range(p) # {}
      THEN CountsPaired(Instrument(k, p))
      ELSE CountsNothing(Instrument(k, p))

\* The pass whose final report is the module's.
ReportPass == [counters |-> "hw-counters-report", location |-> "change-location"]

ASSUME FinalReports ==
  \A k \in Kernels, p \in Plans, m \in DOMAIN ReportPass :
    IF ReportPass[m] \in Range(p)
      THEN ReportsOnce(Instrument(k, p), m)
      ELSE ReportsNever(Instrument(k, p), m)

SmallVectors == [a |-> <<3, 2>>, b |-> <<1, 4>>]
\* Some value for a float product: none of the properties depends on which.
SmallFloatDot == [w \in (0 .. 15) \X (0 .. 2) |-> (w[1] + 5 * w[2]) % 16]
=============================================================================
