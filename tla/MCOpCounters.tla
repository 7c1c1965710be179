---------------------------- MODULE MCOpCounters ----------------------------
(* Small instances of OpCounters.                                            *)
EXTENDS OpCounters

Do(op) == <<[op |-> op, to |-> 0, calls |-> << >>]>>
CallTo(f) == <<[op |-> "call", to |-> f, calls |-> << >>]>>
For(body) == Do("for") \o body \o Do("end")
Cond(body) == Do("if") \o body \o Do("fi")
Load == Do("load")
Add == Do("addf") \o Do("addi")

\* Nests: work before, inside and after inner loops, a loop in a conditional,
\* and an operation outside every loop.
Nests ==
  { << Load \o For(Load \o For(Add)) \o Do("store") >>,
    << For(For(Load) \o Add \o For(Do("store"))) >>,
    << For(Load \o For(For(Load) \o Do("addi"))) \o For(Load) >>,
    << For(Load \o Cond(For(Load))) \o For(Load) >>,
    << For(Cond(For(Load) \o For(Do("store"))) \o Load) >> }

\* The only function with loops calls, and is called: the helpers around it
\* have no loops.
Calls ==
  { << CallTo(2) \o CallTo(2), For(For(Load) \o Load) >>,
    << For(CallTo(2) \o Load \o For(Load)), CallTo(3), << >> >> }

\* Operations of every kind, and one that is of two kinds.
EveryKind ==
  << Do("const") \o For(Do("fptosi") \o Add \o Do("apply")) \o Cond(Do("fptosi") \o CallTo(2)),
     Load \o Do("store") >>

\* Selections that overlap, one after the other; words that select nothing, all,
\* and that fail.
TrackedKinds ==
  { << <<"all">> >>,
    << <<"memref", "arith_int">>, <<"arith", "memref_load">>, << >> >>,
    << <<"arith_float">>, <<"arith_int">>, <<"scf", "blank", "affine">> >>,
    << <<"memref_store", "all", "bogus">>, <<"memref">> >>,
    << <<"blank">> >>,
    << <<"scf">>, <<"bogus", "all">> >> }

\* Programs whose operations stand directly in a loop, or in none, and whose
\* loops are all of one function.
SmallInputs ==
  {[fns |-> f, plan |-> << >>] : f \in Nests \cup Calls}
    \cup {[fns |-> EveryKind, plan |-> p] : p \in TrackedKinds}

ASSUME TotalsAreTold == \A input \in Inputs : TotalsTold(input.fns)
=============================================================================
