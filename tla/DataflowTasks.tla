---------------------------- MODULE DataflowTasks ----------------------------
(***************************************************************************)
(* The passes that turn a function into a dataflow design, on the IR they  *)
(* rewrite: sodap-create-dataflow-tasks, canonicalization with the         *)
(* dialect's patterns, sodap-dataflow-tasks-to-nodes and                   *)
(* sodap-dataflow-nodes-to-func.                                           *)
(*                                                                         *)
(* A value is <<type, id>>.  An operation has results def, operands use    *)
(* (the buffer or channel first), a body with its yield operands, and, if  *)
(* a node, its block arguments and how many operands are inputs and        *)
(* outputs.  Loop bounds, subscripts and arithmetic are left out.          *)
(***************************************************************************)
EXTENDS Integers, Sequences, FiniteSets, SequencesExt, TLC

CONSTANTS
  Cases  \* <<module, plan>>: the functions given, and the passes run in order

VARIABLES
  source,  \* the module as given
  mod,     \* the module as it is
  plan     \* the passes still to run

vars == <<source, mod, plan>>

Op(k, def, use) ==
  [k |-> k, def |-> def, use |-> use, seg |-> <<0, 0>>, args |-> << >>,
   body |-> << >>, yield |-> << >>, to |-> << >>]
Region(k, def, body, yield) == [Op(k, def, << >>) EXCEPT !.body = body, !.yield = yield]

Fresh(v, tag) == <<v[1], Append(v[2], tag)>>

\* The operations of ops and of the regions inside, in order.
RECURSIVE Walk(_)
Walk(ops) == FlattenSeq([i \in DOMAIN ops |-> <<ops[i]>> \o Walk(ops[i].body)])

Kind(ops, k) == SelectSeq(ops, LAMBDA o : o.k = k)
UsersIn(v, ops) == SelectSeq(Walk(ops), LAMBDA o : v \in ToSet(o.use \o o.yield))
UsedIn(ops) == UNION {ToSet(o.use \o o.yield) : o \in ToSet(Walk(ops))}
DefinedIn(ops) == UNION {ToSet(o.def \o o.args) : o \in ToSet(Walk(ops))}
UsedInFunc(f) == UsedIn(f.body) \cup ToSet(f.ret)

Sub(vs, s) == [i \in DOMAIN vs |-> IF vs[i] \in DOMAIN s THEN s[vs[i]] ELSE vs[i]]
Pair(vs, ws) == [v \in ToSet(vs) |-> ws[CHOOSE i \in DOMAIN vs : vs[i] = v]]
RECURSIVE Rename(_, _)
Rename(ops, s) ==
  [i \in DOMAIN ops |-> [ops[i] EXCEPT !.use = Sub(@, s), !.yield = Sub(@, s),
                                       !.body = Rename(@, s)]]

RECURSIVE Without(_, _)
Without(ops, gone) ==
  LET kept == SelectSeq(ops, LAMBDA o : o \notin gone)
  IN  [i \in DOMAIN kept |-> [kept[i] EXCEPT !.body = Without(@, gone)]]

-----------------------------------------------------------------------------
(* sodap-create-dataflow-tasks.                                            *)

\* dispatchBlock: all but the terminator goes into a dispatch that yields what
\* the function returns.
dispatchBlock(f) ==
  LET res == [i \in DOMAIN f.ret |-> Fresh(f.ret[i], "dispatch")]
  IN  [f EXCEPT !.body = <<Region("dispatch", res, f.body, f.ret)>>, !.ret = res]

hoistStreamDecls(ops) == Kind(ops, "stream") \o SelectSeq(ops, LAMBDA o : o.k # "stream")

\* Mutant of getExclusiveBuffers: a buffer used elsewhere as well is claimed too.
getExclusiveBuffers_Shared(loop, f) ==
  SelectSeq(Walk(f.body), LAMBDA o :
    o.k = "alloc" /\ \E u \in ToSet(UsersIn(o.def[1], <<loop>>)) : u.k \in {"load", "store"})

\* The allocations that an access in the loop names and nothing outside uses.
getExclusiveBuffers(loop, f) ==
  SelectSeq(Walk(f.body), LAMBDA o :
    /\ o.k = "alloc"
    /\ \E u \in ToSet(UsersIn(o.def[1], <<loop>>)) : u.k \in {"load", "store"}
    /\ Len(UsersIn(o.def[1], f.body)) = Len(UsersIn(o.def[1], <<loop>>))
    /\ o.def[1] \notin ToSet(f.ret))

\* Mutant of PartitionIntoTasks: the tasks are gathered at the end.
PartitionIntoTasks_Gathered(ops, f) ==
  LET loops == Kind(ops, "for")
  IN  SelectSeq(ops, LAMBDA o : o.k # "for") \o
      [i \in DOMAIN loops |-> Region("task", << >>, <<loops[i]>>, << >>)]

\* One task per loop band, where the band stood, with the buffers it owns.
PartitionIntoTasks(ops, f) ==
  LET owned  == UNION {ToSet(getExclusiveBuffers(l, f)) : l \in ToSet(Kind(ops, "for"))}
      Stage(o) == IF o.k # "for" THEN <<o>>
                  ELSE <<Region("task", << >>,
                                getExclusiveBuffers(o, f) \o Without(<<o>>, owned), << >>)>>
      left == SelectSeq(ops, LAMBDA o : o \notin owned)
  IN  FlattenSeq([i \in DOMAIN left |-> Stage(left[i])])

CreateDataflowTasks(f) ==
  IF f.external \/ Kind(f.body, "dispatch") # << >> THEN f
  ELSE [dispatchBlock(f) EXCEPT !.body[1].body = PartitionIntoTasks(hoistStreamDecls(@), f)]

-----------------------------------------------------------------------------
(* Canonicalization: the dialect's patterns, and what the greedy driver    *)
(* does with constants and dead operations.                                *)

\* Constants move to the entry of the function; a node is isolated.
RECURSIVE ConstantsIn(_)
ConstantsIn(ops) ==
  FlattenSeq([i \in DOMAIN ops |-> CASE ops[i].k = "const" -> <<ops[i]>>
                                     [] ops[i].k = "node"  -> << >>
                                     [] OTHER -> ConstantsIn(ops[i].body)])
HoistConstants(f) ==
  LET cs == ConstantsIn(f.body) IN [f EXCEPT !.body = cs \o Without(@, ToSet(cs))]

\* NodeOp::getOperandKind: operands are inputs, then outputs, then parameters.
getOperandKind(n, i) ==
  IF i <= n.seg[1] THEN "INPUT" ELSE IF i <= n.seg[1] + n.seg[2] THEN "OUTPUT" ELSE "PARAM"

\* An operation that only allocates or reads, none of whose results is used.
\* NodeOp::getEffects: a node reads its inputs and writes its outputs, so one
\* without outputs is dead.
Dead(o, used) ==
  \/ o.k \in {"const", "arith", "alloc", "stream", "view", "load"} /\ ToSet(o.def) \cap used = {}
  \/ o.k = "for" /\ o.body = << >>
  \/ o.k = "node" /\ \A i \in DOMAIN o.use : getOperandKind(o, i) # "OUTPUT"

RECURSIVE EraseDead(_, _)
EraseDead(ops, used) ==
  SelectSeq([i \in DOMAIN ops |-> [ops[i] EXCEPT !.body = EraseDead(@, used)]],
            LAMBDA o : ~Dead(o, used))

\* SimplifyDispatchOrTaskOutputs: results nothing uses are dropped with what is
\* yielded for them.
RECURSIVE SimplifyOutputs(_, _)
SimplifyOutputs(ops, used) ==
  [i \in DOMAIN ops |->
     LET o == [ops[i] EXCEPT !.body = SimplifyOutputs(@, used)]
         kept == SelectSeq([j \in DOMAIN o.def |-> j], LAMBDA j : o.def[j] \in used)
     IN  IF o.k \notin {"dispatch", "task"} THEN o
         ELSE [o EXCEPT !.def = [j \in DOMAIN kept |-> o.def[kept[j]]],
                        !.yield = [j \in DOMAIN kept |-> o.yield[kept[j]]]]]

\* InlineDispatchOrTask: a dispatch without tasks, and a task that holds only
\* its terminator.
Inlined(o) ==
  \/ o.k = "dispatch" /\ Kind(o.body, "task") = << >>
  \/ o.k = "task" /\ o.body = << >>

RECURSIVE Inline(_)
Inline(ops) ==
  FlattenSeq([i \in DOMAIN ops |->
    IF Inlined(ops[i]) THEN ops[i].body ELSE <<[ops[i] EXCEPT !.body = Inline(@)]>>])

InlineAll(f) ==
  LET gone == SelectSeq(Walk(f.body), Inlined)
      sub  == Pair(FlattenSeq([i \in DOMAIN gone |-> gone[i].def]),
                  FlattenSeq([i \in DOMAIN gone |-> gone[i].yield]))
  IN  [f EXCEPT !.body = Rename(Inline(@), sub), !.ret = Sub(@, sub)]

RECURSIVE Canonicalize(_)
Canonicalize(f) ==
  LET h == HoistConstants(f)
      s == [h EXCEPT !.body = SimplifyOutputs(@, UsedInFunc(h))]
      g == InlineAll([s EXCEPT !.body = EraseDead(@, UsedInFunc(s))])
  IN  IF f.external \/ g = f THEN f ELSE Canonicalize(g)

-----------------------------------------------------------------------------
(* sodap-dataflow-tasks-to-nodes.                                          *)

\* The operation writes v itself: a store, a stream write, a node it is an
\* output of.
Writes(o, v) ==
  \/ o.k \in {"store", "write"} /\ o.use[1] = v
  \/ o.k = "node" /\ \E i \in DOMAIN o.use : o.use[i] = v /\ getOperandKind(o, i) = "OUTPUT"

\* Mutant of isWritten: a write made through a view is missed.
isWritten_NoViews(v, ops) ==
  \E o \in ToSet(UsersIn(v, ops)) : Writes(o, v)

\* Some use in ops writes v, through a view of it if need be.
RECURSIVE isWritten(_, _)
isWritten(v, ops) ==
  \E o \in ToSet(UsersIn(v, ops)) :
    \/ Writes(o, v)
    \/ o.k = "view" /\ isWritten(o.def[1], ops)

\* Ports for what the task uses from outside: inputs, outputs, parameters.
TaskToNode(t) ==
  LET live == SetToSeq(UsedIn(t.body) \ DefinedIn(t.body))
      Port(v) == v[1] \in {"memref", "stream"}
      ins  == SelectSeq(live, LAMBDA v : Port(v) /\ ~isWritten(v, t.body))
      outs == SelectSeq(live, LAMBDA v : Port(v) /\ isWritten(v, t.body))
      operands == ins \o outs \o SelectSeq(live, LAMBDA v : ~Port(v))
      args == [i \in DOMAIN operands |-> Fresh(operands[i], "arg")]
  IN  [Op("node", << >>, operands) EXCEPT
         !.seg = <<Len(ins), Len(outs)>>, !.args = args,
         !.body = Rename(t.body, Pair(operands, args))]

\* A task with results is reported and stays.
RECURSIVE NodesForTasks(_)
NodesForTasks(ops) ==
  [i \in DOMAIN ops |->
     IF ops[i].k = "task" /\ ops[i].def = << >>
     THEN [TaskToNode(ops[i]) EXCEPT !.body = NodesForTasks(@)]
     ELSE [ops[i] EXCEPT !.body = NodesForTasks(@)]]

TasksToNodes(f) ==
  LET h == HoistConstants(f)
      g == [h EXCEPT !.body = NodesForTasks(@)]
  IN  [g EXCEPT !.body = EraseDead(@, UsedInFunc(g))]

-----------------------------------------------------------------------------
(* sodap-dataflow-nodes-to-func.                                           *)

\* The function the index-th node of parent becomes, and the call in its place.
NodeName(parent, index) == parent.name \o <<"_node", ToString(index)>>
OutlinedFunc(node, parent, index) ==
  [name |-> NodeName(parent, index), args |-> node.args, body |-> node.body,
   ret |-> << >>, external |-> FALSE]
CallTo(node, parent, index) ==
  [Op("call", << >>, node.use) EXCEPT !.to = NodeName(parent, index)]

\* The dispatch's operations take its place, its nodes replaced by calls.
unwrapDispatch(d, parent) ==
  [i \in DOMAIN d.body |->
     IF d.body[i].k # "node" THEN d.body[i]
     ELSE CallTo(d.body[i], parent, Len(Kind(SubSeq(d.body, 1, i - 1), "node")))]

\* ops without its dispatches, at whatever depth.
RECURSIVE Unwrapped(_, _)
Unwrapped(ops, parent) ==
  FlattenSeq([i \in DOMAIN ops |->
    LET o == [ops[i] EXCEPT !.body = Unwrapped(@, parent)]
    IN  IF o.k = "dispatch" THEN unwrapDispatch(o, parent) ELSE <<o>>])

\* The dispatches in ops in the order of the walk, an inner one before the one
\* around it, and each as it is when its turn comes.
RECURSIVE Dispatches(_, _)
Dispatches(ops, parent) ==
  FlattenSeq([i \in DOMAIN ops |->
    Dispatches(ops[i].body, parent) \o
    Kind(<<[ops[i] EXCEPT !.body = Unwrapped(@, parent)]>>, "dispatch")])

\* The outlined functions stand before their parent, in order.
OutlineNodes(f) ==
  LET ds  == Dispatches(f.body, f)
      sub == FoldLeft(LAMBDA s, d : Pair(d.def, Sub(d.yield, s)) @@ s, << >>, ds)
      Outlined(d) ==
        LET ns == Kind(Rename(d.body, sub), "node")
        IN  [i \in DOMAIN ns |-> OutlinedFunc(ns[i], f, i - 1)]
  IN  Append(FlattenSeq([j \in DOMAIN ds |-> Outlined(ds[j])]),
             [f EXCEPT !.body = Rename(Unwrapped(@, f), sub), !.ret = Sub(@, sub)])

NodesToFunc(m) == FlattenSeq([i \in DOMAIN m |-> IF m[i].external THEN <<m[i]>> ELSE OutlineNodes(m[i])])

\* sodap-affine-to-dataflow, after convert-memrefs-to-streams.
AffineToDataflow == <<"canonicalize", "create-tasks", "canonicalize", "tasks-to-nodes">>

-----------------------------------------------------------------------------
Init == \E c \in Cases : source = c[1] /\ mod = source /\ plan = c[2]

Due(pass) == plan # << >> /\ Head(plan) = pass /\ plan' = Tail(plan) /\ UNCHANGED source

\* The first three passes run on every function, the last on the module.
CreateTasks == Due("create-tasks") /\ mod' = [i \in DOMAIN mod |-> CreateDataflowTasks(mod[i])]
Canonicalizer == Due("canonicalize") /\ mod' = [i \in DOMAIN mod |-> Canonicalize(mod[i])]
ToNodes == Due("tasks-to-nodes") /\ mod' = [i \in DOMAIN mod |-> TasksToNodes(mod[i])]
ToFuncs == Due("nodes-to-func") /\ mod' = NodesToFunc(mod)

Next == CreateTasks \/ Canonicalizer \/ ToNodes \/ ToFuncs

Spec == Init /\ [][Next]_vars

-----------------------------------------------------------------------------
Func(m, name) == m[CHOOSE i \in DOMAIN m : m[i].name = name]

\* The regions of ops, in a parent of kind k, hold what the dialect's verifiers
\* ask for, and every operand is defined before it is used, in reach.
RECURSIVE Legal(_, _, _, _)
Legal(ops, k, visible, m) ==
  \A i \in DOMAIN ops :
    LET o == ops[i]
        before == visible \cup UNION {ToSet(ops[j].def) : j \in 1 .. i - 1}
        inside == IF o.k = "node" THEN ToSet(o.args) ELSE before
    IN  /\ ToSet(o.use) \subseteq before
        /\ o.k \in {"task", "node"} => k = "dispatch"
        /\ o.k = "dispatch" => k \in {"func", "for"}
        /\ o.k \in {"dispatch", "task"} =>
             /\ Len(o.def) = Len(o.yield)
             /\ ToSet(o.yield) \subseteq inside \cup UNION {ToSet(p.def) : p \in ToSet(o.body)}
        /\ o.k = "node" => Len(o.args) = Len(o.use)
        /\ o.k = "call" => \E f \in ToSet(m) : f.name = o.to /\ Len(f.args) = Len(o.use)
        /\ Legal(o.body, o.k, inside, m)

\* After every pass the module is legal: values are in reach of their uses
\* although buffers and declarations moved, stages stand in a dispatch, and no
\* two functions have one name.
Verifies ==
  /\ \A i, j \in DOMAIN mod : mod[i].name = mod[j].name => i = j
  /\ \A f \in ToSet(mod) :
       /\ Legal(f.body, "func", ToSet(f.args), mod)
       /\ ToSet(f.ret) \subseteq ToSet(f.args) \cup UNION {ToSet(o.def) : o \in ToSet(f.body)}

\* What ops does to memory and channels, in order, with every name a port or a
\* result stands for replaced by what it stands for; and the names at the end.
RECURSIVE Behaviour(_, _, _)
Behaviour(ops, env, m) ==
  LET Step(st, o) ==
        LET use == Sub(o.use, st.env)
            In(body, args) == Behaviour(body, Pair(args, use) @@ st.env, m)
        IN  CASE o.k \in {"store", "write", "read"} ->
                   [st EXCEPT !.does = Append(@, <<o.k, use, o.def>>)]
              [] o.k = "call" ->
                   LET f == Func(m, o.to)
                   IN  [st EXCEPT !.does = @ \o In(f.body, f.args).does]
              [] OTHER ->
                   LET r == In(o.body, o.args)
                   IN  [env |-> Pair(o.def, Sub(o.yield, r.env)) @@ st.env,
                        does |-> st.does \o r.does]
      Defines(o) == o.k \in {"dispatch", "task", "node", "for", "call", "store", "write", "read"}
  IN  FoldLeft(Step, [env |-> env, does |-> << >>], SelectSeq(ops, Defines))

BehaviourOf(f, m) ==
  LET b == Behaviour(f.body, << >>, m) IN Append(b.does, <<"return", Sub(f.ret, b.env), << >>>>)

\* Partitioning, naming ports, outlining and inlining change nothing the
\* function does: every store, stream access and result, in the same order and
\* on the same buffers.
SameBehaviour ==
  \A f \in ToSet(source) : BehaviourOf(Func(mod, f.name), mod) = BehaviourOf(f, source)

\* Every view of v, and of its views.
RECURSIVE Aliases(_, _)
Aliases(vs, ops) ==
  LET more == vs \cup UNION {ToSet(o.def) : o \in {p \in ToSet(Walk(ops)) :
                               p.k = "view" /\ p.use[1] \in vs}}
  IN  IF more = vs THEN vs ELSE Aliases(more, ops)

\* A node's inputs are never written in it, by whatever alias, and its outputs
\* are: the effects a node declares are those it has.
PortsExact ==
  \A f \in ToSet(mod) : \A n \in ToSet(Kind(Walk(f.body), "node")) :
    \A i \in {j \in DOMAIN n.use : getOperandKind(n, j) # "PARAM"} :
      getOperandKind(n, i) = "OUTPUT" <=>
      \E o \in ToSet(Walk(n.body)) :
        o.k \in {"store", "write"} /\ o.use[1] \in Aliases({n.args[i]}, n.body)
=============================================================================
