-------------------------- MODULE MCDataflowTasks --------------------------
(* Small instances of DataflowTasks.                                         *)
EXTENDS DataflowTasks

M(n) == <<"memref", <<n>>>>
C(n) == <<"stream", <<n>>>>
V(n) == <<"scalar", <<n>>>>

Load(v, b) == Op("load", <<v>>, <<b>>)
Store(v, b) == Op("store", << >>, <<b, v>>)
Read(v, c) == Op("read", <<v>>, <<c>>)
Write(v, c) == Op("write", << >>, <<c, v>>)
Arith(v, us) == Op("arith", <<v>>, us)
Decl(k, v) == Op(k, <<v>>, << >>)
View(w, b) == Op("view", <<w>>, <<b>>)
For(body) == Region("for", << >>, body, << >>)
Func1(name, args, body, ret) ==
  [name |-> <<name>>, args |-> args, body |-> body, ret |-> ret, external |-> FALSE]
Declared(name, args) ==
  [name |-> <<name>>, args |-> args, body |-> << >>, ret |-> << >>, external |-> TRUE]

\* A producer and a consumer over a channel declared between them.
Pipe == Func1("pipe", <<M("in"), M("out")>>,
  << Decl("alloc", M("idle")), Decl("stream", C("a")),
     For(<<Load(V("x"), M("in")), Write(V("x"), C("a"))>>), Decl("stream", C("b")),
     For(<<Read(V("y"), C("a")), Write(V("y"), C("b"))>>),
     For(<<Read(V("z"), C("b")), Store(V("z"), M("out"))>>) >>, << >>)

\* One buffer of a band's own, one shared with the next, one declared in a loop,
\* one that is returned.
Buffers == Func1("buffers", <<M("in")>>,
  << Decl("alloc", M("own")), Decl("alloc", M("both")), Decl("alloc", M("res")),
     For(<<Decl("alloc", M("tmp")), Load(V("x"), M("in")), Store(V("x"), M("own")),
           Store(V("x"), M("tmp")), Load(V("t"), M("tmp")), Store(V("t"), M("both"))>>),
     For(<<Load(V("y"), M("both")), Store(V("y"), M("res"))>>) >>, <<M("res")>>)

\* Constants, scalars computed between the bands, and a scalar result.
Scalars == Func1("scalars", <<M("out"), V("f")>>,
  << For(<<Decl("const", V("c")), Store(V("c"), M("out"))>>), Arith(V("g"), <<V("f"), V("f")>>),
     Store(V("g"), M("out")),
     For(<<Arith(V("h"), <<V("g")>>), Store(V("h"), M("out"))>>) >>, <<V("g")>>)

\* Writes through views: of an argument, in the loop and before it, next to
\* another output.
Views == Func1("views", <<M("a"), M("b"), M("o")>>,
  << View(M("w"), M("b")),
     For(<<View(M("v"), M("a")), View(M("u"), M("v")), Load(V("x"), M("w")),
           Store(V("x"), M("u")), Store(V("x"), M("o"))>>),
     For(<<Load(V("y"), M("a")), Store(V("y"), M("w"))>>) >>, << >>)

\* A band that only reads, and a function without bands.
Reader == Func1("reader", <<M("a"), M("o")>>,
  << For(<<Load(V("x"), M("a"))>>), For(<<Load(V("y"), M("a")), Store(V("y"), M("o"))>>) >>, << >>)
NoBands == Func1("plain", <<M("a"), V("f")>>, <<Store(V("f"), M("a"))>>, <<V("f")>>)

\* A dispatch written by hand: an empty task, and results no one uses.
ByHand == Func1("hand", <<M("a"), V("f")>>,
  << Region("dispatch", <<V("p"), V("q")>>,
       << Region("task", << >>, << >>, << >>),
          Region("task", <<V("r")>>, <<For(<<Store(V("f"), M("a"))>>), Arith(V("s"), <<V("f")>>)>>,
                 <<V("s")>>),
          Region("task", <<V("k")>>, << >>, <<V("f")>>) >>,
       <<V("r"), V("k")>>) >>, <<V("q")>>)

\* A dispatch by hand in a loop, before another band, its result unused or not.
Nested == Func1("nested", <<M("a"), M("o")>>,
  << For(<<Region("dispatch", <<V("p"), V("q")>>,
             << Region("task", << >>, <<For(<<Load(V("x"), M("a")), Store(V("x"), M("o"))>>)>>, << >>),
                Decl("const", V("c")),
                Region("task", << >>, <<For(<<Store(V("c"), M("a"))>>)>>, << >>),
                Arith(V("d"), <<V("c")>>) >>,
             <<V("c"), V("d")>>),
           Store(V("q"), M("o"))>>),
     For(<<Load(V("y"), M("o")), Store(V("y"), M("a"))>>) >>, << >>)

Inputs ==
  { <<Pipe>>, <<Buffers, Declared("puts", <<V("f")>>)>>, <<Scalars, NoBands>>, <<Views>>,
    <<Reader, Pipe>>, <<ByHand>> }

Passes == {"create-tasks", "canonicalize", "tasks-to-nodes", "nodes-to-func"}

\* The canonicalizer does not run between tasks-to-nodes and nodes-to-func.
KeepsNodes(p) ==
  \A i, j \in DOMAIN p : i < j /\ p[i] = "tasks-to-nodes" /\ p[j] = "canonicalize" =>
    \E k \in i .. j : p[k] = "nodes-to-func"

\* nodes-to-func finds no task: since the last create-tasks, and since a
\* canonicalization, every task was lowered.
LowersTasks(p) ==
  \A j \in DOMAIN p : p[j] = "nodes-to-func" =>
    \E k, i \in 1 .. j : /\ k < i /\ p[k] = "canonicalize" /\ p[i] = "tasks-to-nodes"
                         /\ \A l \in i .. j : p[l] # "create-tasks"

\* Five passes in any such order, those of AffineToDataflow among them.
AnyOrder == {p \in [1 .. 5 -> Passes] : KeepsNodes(p) /\ LowersTasks(p)}

\* A function that has its dispatch in a loop already is not given another.
AllCases == (Inputs \X AnyOrder) \cup
            {<<<<Nested, NoBands>>, p>> : p \in {q \in AnyOrder : \A i \in DOMAIN q : q[i] # "create-tasks"}}
=============================================================================
