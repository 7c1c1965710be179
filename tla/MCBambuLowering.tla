-------------------------- MODULE MCBambuLowering --------------------------
(* Small instances of BambuLowering.                                         *)
EXTENDS BambuLowering, TLC

Stream(t, d) == [kind |-> "stream", elem |-> t, shape |-> << >>, depth |-> d]
MemRef(t, s) == [kind |-> "memref", elem |-> t, shape |-> s, depth |-> 0]
Scalar(t) == [kind |-> "scalar", elem |-> t, shape |-> << >>, depth |-> 0]

Make(c) == Op("stream", c, << >>, << >>)
Read(c) == Op("read", c, << >>, << >>)
Write(c) == Op("write", c, << >>, << >>)
Call(f, args) == Op("call", "", args, <<f>>)
Return == Op("return", "", << >>, << >>)
Func(name, args, ops) == [name |-> <<name>>, args |-> args, ops |-> ops, external |-> FALSE]
External(name, args) == [Func(name, args, << >>) EXCEPT !.external = TRUE]

\* Producer, filter, consumer over two channels declared at the entry; the
\* top returns early or late.
Stages(t, ch) ==
  [funcs |-> << Func("top", <<"in", "out", "k">>,
                  << Make("c"), Make("d"), Call("produce", <<"in", "c", "one">>), Return,
                     Call("filter", <<"c", "d", "k">>), Call("consume", <<"d", "out", "two">>), Return >>),
                Func("produce", <<"pi", "pc", "p1">>, <<Write("pc"), Return>>),
                Func("filter", <<"fc", "fd", "fk">>, <<Read("fc"), Write("fd"), Return>>),
                Func("consume", <<"cd", "co", "c1">>, <<Read("cd"), Return>>) >>,
   types |-> [v \in {"in", "pi"} |-> MemRef(t, <<4, 3>>)] @@ [v \in {"out", "co"} |-> MemRef(t, <<4>>)] @@
             [v \in {"k", "fk", "one", "two", "p1", "c1"} |-> Scalar("i32")] @@ [v \in {"c", "pc", "fc"} |-> ch] @@
             [v \in {"d", "fd", "cd"} |-> Stream("f64", 2)]]

\* Channels that come from outside; a helper only declared, one never defined.
FromOutside(elem, shape) ==
  [funcs |-> << Func("top", <<"s", "m">>, <<Call("sink", <<"s">>), Call("log", <<"m">>),
                                           Call("absent", << >>), Call("sink", <<"s">>), Return>>),
                Func("sink", <<"ss">>, <<Read("ss"), Return>>),
                External("log", <<"lm">>) >>,
   types |-> [v \in {"s", "ss"} |-> Stream(elem, 1)] @@ [v \in {"m", "lm"} |-> MemRef("ui8", shape)]]

\* No channel at all, and stages that were not outlined.
NoChannels ==
  [funcs |-> << Func("top", <<"a">>, <<Call("leaf", <<"a">>), Return>>), Func("leaf", <<"b">>, <<Return>>) >>,
   types |-> [v \in {"a", "b"} |-> MemRef("f32", <<2>>)]]
NotOutlined ==
  [funcs |-> << Func("top", <<"a">>, <<Op("node", "", << >>, << >>), Return>>) >>,
   types |-> [v \in {"a"} |-> MemRef("f32", <<2>>)]]

SmallDesigns ==
  { Stages("f32", Stream("i32", 4)), Stages("ui8", Stream("f64", 1)), Stages("i32", Stream("i1", 1)),
    FromOutside("si32", <<8>>), FromOutside("f32", <<0, 8>>), FromOutside("index", <<8>>),
    NoChannels, NotOutlined }

\* An array of the top's own that two stages share.
SharedArray ==
  { [funcs |-> << Func("top", <<"in">>, << Op("alloc", "b", << >>, << >>), Call("fill", <<"in", "b">>),
                                          Call("drain", <<"b">>), Return >>),
                  Func("fill", <<"fi", "fb">>, <<Return>>), Func("drain", <<"db">>, <<Return>>) >>,
     types |-> [v \in {"in", "fi", "b", "fb", "db"} |-> MemRef("f32", <<8>>)]] }

AllOptions == [top : {<<"top">>, <<"absent">>, << >>}, include : {<<"include">>, << >>}, clangxx : {<<"clang++">>, << >>}]
GoodOptions == {[top |-> <<"top">>, include |-> <<"include">>, clangxx |-> <<"clang++">>]}
=============================================================================
