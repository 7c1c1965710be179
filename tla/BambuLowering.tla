---------------------------- MODULE BambuLowering ----------------------------
(***************************************************************************)
(* sodap-dataflow-to-llvm-pipeline, as far as it is this repository's:     *)
(* sodap-emit-bambu-architecture describes the design to Bambu in XML,     *)
(* then sodap-convert-dataflow-to-llvm turns its channels into ac_channel  *)
(* objects whose entry points it has Clang compile.                        *)
(*                                                                         *)
(* A function is its operations in order, a return per exit.  An operation *)
(* is [k, ch, args, to]: what it is, the channel or buffer it is about,    *)
(* what it passes, whom it calls.  Names are tuples of their parts.         *)
(* Payloads are left out.                                                  *)
(***************************************************************************)
EXTENDS Integers, Sequences, FiniteSets, SequencesExt, Ranking

CONSTANTS
  Designs,    \* the modules given: [funcs, types]
  Options     \* the pipeline's options: [top, include, clangxx], << >> if empty

\* No module that is given has an LLVM call; a function that is only declared has
\* no body, and an argument has a type.
Operation == [k : STRING \ {"llvm.call"}, ch : STRING, args : Seq(STRING), to : Seq(STRING)]
ASSUME DesignsAssumption ==
  \A d \in Designs :
    /\ d.funcs \in Seq([name : Seq(STRING), args : Seq(STRING), ops : Seq(Operation),
                        external : BOOLEAN])
    /\ \A f \in ToSet(d.funcs) : /\ f.external => f.ops = << >>
                                /\ ToSet(f.args) \subseteq DOMAIN d.types

VARIABLES
  design,    \* the module as given
  opts,      \* the options
  pc,        \* the pass's next step; "done" or "failed" at the end
  funcs,     \* the functions
  types,     \* the type of every value
  noalias,   \* the arguments marked llvm.noalias
  xml,       \* the architecture file: a sequence of function elements
  wanted,    \* the element types the specialization unit is for
  unit,      \* the probes the compiled unit defines
  channels,  \* what was read back of them, per element type
  decls      \* the LLVM functions declared in the module

ir == <<funcs, types, noalias, decls>>
files == <<xml, unit>>
vars == <<design, opts, pc, ir, files, wanted, channels>>

Op(k, ch, args, to) == [k |-> k, ch |-> ch, args |-> args, to |-> to]

\* bambuTypeName: the C name of a scalar, "" if Bambu's interface has none.
bambuTypeName(t) ==
  CASE t = "f32" -> "float" [] t = "f64" -> "double"
    [] t \in {"i32", "si32"} -> "int32_t" [] t = "ui8" -> "uint8_t" [] OTHER -> ""
byteWidth(t) == CASE t \in {"f32", "i32", "si32"} -> 4 [] t = "f64" -> 8 [] OTHER -> 1

Function(name) == {f \in ToSet(funcs) : f.name = name}
Ops(f, k) ==
  LET at == {i \in DOMAIN f.ops : f.ops[i].k = k}
  IN  [n \in 1 .. Cardinality(at) |-> f.ops[Ranked(at, n)]]
\* FuncOp::getArguments: those of the entry block, which a declaration has not.
Arguments(f) == IF f.external THEN << >> ELSE f.args
AllOps == UNION {ToSet(f.ops) : f \in ToSet(funcs)}

-----------------------------------------------------------------------------
(* sodap-emit-bambu-architecture.                                          *)

\* Mutant of Bundle: a name of its own is not qualified by the function.
Bundle_Unqualified(f, index, ports) ==
  IF index \in DOMAIN ports THEN ports[index] ELSE <<"P", index>>

\* The design-wide name of the connection an argument is wired to.
Bundle(f, index, ports) ==
  IF index \in DOMAIN ports THEN ports[index] ELSE f.name \o <<"P", index>>

\* What Bambu cannot be told about.
Undescribed(t) == bambuTypeName(t.elem) = "" \/ (t.kind = "memref" /\ 0 \in ToSet(t.shape))

Elements(shape) == FoldLeft(LAMBDA a, b : a * b, 1, shape)

\* One parameter and its bundle.
Param(f, index, ports) ==
  LET t == types[Arguments(f)[index]]
      name == bambuTypeName(t.elem)
  IN  [index |-> index, port |-> <<"P", index>>, bundle |-> Bundle(f, index, ports),
       mode |-> CASE t.kind = "stream" -> "fifo" [] t.kind = "memref" -> "array"
                  [] OTHER -> "default",
       depth |-> IF t.kind = "stream" THEN t.depth ELSE 0,
       typename |-> CASE t.kind = "stream" -> <<"ac_channel", name>>
                      [] t.kind = "memref" -> <<"pointer", name>> [] OTHER -> <<"scalar", name>>,
       rows |-> IF t.kind = "memref" /\ Len(t.shape) > 1 THEN Tail(t.shape) ELSE << >>,
       array_dims |-> t.shape,
       size_in_bytes |-> byteWidth(t.elem) * (IF t.kind = "memref" THEN Elements(t.shape) ELSE 1)]

\* An argument that cannot be described is reported, and left out.
describeParams(f, ports) ==
  LET args == Arguments(f)
      ok == SelectSeq([i \in DOMAIN args |-> i], LAMBDA i : ~Undescribed(types[args[i]]))
  IN  [k \in DOMAIN ok |-> Param(f, ok[k], ports)]

\* Names are given at the top: to its arguments and its channels, in order.
portNames(top) ==
  LET fifos == Ops(top, "stream")
  IN  [v \in ToSet(Arguments(top)) \cup {fifos[n].ch : n \in DOMAIN fifos} |->
         IF v \in ToSet(Arguments(top)) THEN <<"arg", CHOOSE i \in DOMAIN Arguments(top) : Arguments(top)[i] = v>>
         ELSE <<"fifo", CHOOSE n \in DOMAIN fifos : fifos[n].ch = v>>]

\* The names the operands of the calls of callee carry to its arguments.
calleePorts(top, callee) ==
  LET calls == SelectSeq(top.ops, LAMBDA o : o.k = "call" /\ o.to = callee)
      named(i) == {c \in DOMAIN calls : calls[c].args[i] \in DOMAIN portNames(top)}
      indices == UNION {{i \in DOMAIN calls[c].args : c \in named(i)} : c \in DOMAIN calls}
  IN  [i \in indices |->
         portNames(top)[calls[CHOOSE c \in named(i) : \A d \in named(i) : d <= c].args[i]]]

\* The functions the top calls, in the order of their first calls.
Callees(top) ==
  FoldLeft(LAMBDA s, o : IF o.to \in ToSet(s) \/ Function(o.to) = {} THEN s ELSE Append(s, o.to),
           << >>, Ops(top, "call"))

Described(top) ==
  <<[name |-> top.name, top |-> TRUE,
     params |-> describeParams(top, [i \in DOMAIN Arguments(top) |-> portNames(top)[Arguments(top)[i]]])]>> \o
  [k \in DOMAIN Callees(top) |->
     LET f == CHOOSE g \in Function(Callees(top)[k]) : TRUE
     IN  [name |-> f.name, top |-> FALSE, params |-> describeParams(f, calleePorts(top, f.name))]]

Complete(d) ==
  \A e \in ToSet(d) : \A f \in Function(e.name) : Len(e.params) = Len(Arguments(f))

\* EmitBambuArchitecture::runOnOperation.  The file may not open; once it is
\* open, all that could be described is written, whatever was reported.
EmitArchitecture ==
  /\ pc = "emit"
  /\ \E opens \in BOOLEAN :
       LET refused == \/ << >> \in {opts.top, opts.include}
                      \/ Function(opts.top) = {} \/ ~opens
           top == CHOOSE f \in Function(opts.top) : TRUE
       IN  IF refused THEN pc' = "failed" /\ xml' = xml
           ELSE /\ xml' = Described(top)
                /\ pc' = IF Complete(Described(top)) THEN "collect" ELSE "failed"
  /\ UNCHANGED <<design, opts, ir, unit, wanted, channels>>

-----------------------------------------------------------------------------
(* sodap-convert-dataflow-to-llvm.                                         *)

StreamOps == {o \in AllOps : o.k \in {"stream", "read", "write"}}

\* Mutant of ElementTypes: only declarations are looked at.
ElementTypes_Declared == {types[o.ch].elem : o \in {p \in AllOps : p.k = "stream"}}

\* The element types of the channels the module declares, reads or writes.
ElementTypes == {types[o.ch].elem : o \in StreamOps}

\* The option check and collectSpecializations: what this lowering does not
\* model is refused before anything is touched.
CollectSpecializations ==
  /\ pc = "collect"
  /\ LET refused == \/ << >> \in {opts.clangxx, opts.include}
                    \/ \E o \in AllOps : o.k \in {"dispatch", "task", "node"}
                    \/ \E t \in ElementTypes : bambuTypeName(t) = ""
     IN  IF refused THEN pc' = "failed" /\ wanted' = wanted
         ELSE /\ wanted' = ElementTypes
              /\ pc' = IF ElementTypes = {} THEN "lower" ELSE "build"
  /\ UNCHANGED <<design, opts, ir, files, channels>>

Probes == {"__df_anchor_", "__df_ctor_", "__df_dtor_", "__df_read_", "__df_write_"}

\* The first two parts of buildSpecializations: writing the unit, finding the
\* compiler and compiling may each fail; what Clang makes of a probe is its own.
CompileUnit ==
  /\ pc = "build"
  /\ \/ \E lost \in SUBSET (Probes \X wanted) :
          unit' = (Probes \X wanted) \ lost /\ pc' = "read back"
     \/ unit' = unit /\ pc' = "failed"
  /\ UNCHANGED <<design, opts, ir, xml, wanted, channels>>

\* Mutant of ReadBack: entry points are declared as their probes are found.
ReadBack_Declares ==
  /\ pc = "read back"
  /\ decls' = {u \in unit : u[1] # "__df_anchor_"}
  /\ pc' = IF Probes \X wanted \subseteq unit THEN "lower" ELSE "failed"
  /\ UNCHANGED <<design, opts, funcs, types, noalias, files, wanted, channels>>

\* The third part: every probe must be there, with a body.
ReadBack ==
  /\ pc = "read back"
  /\ IF Probes \X wanted \subseteq unit
     THEN /\ channels' = [t \in wanted |-> [ctor |-> <<"__df_ctor_", t>>, dtor |-> <<"__df_dtor_", t>>,
                                            read |-> <<"__df_read_", t>>, write |-> <<"__df_write_", t>>]]
          /\ pc' = "lower"
     ELSE pc' = "failed" /\ channels' = channels
  /\ UNCHANGED <<design, opts, ir, files, wanted>>

\* A type no specialization was built for has no symbols.
Symbol(v, probe) ==
  LET t == types[v].elem IN IF t \in DOMAIN channels THEN channels[t][probe] ELSE << >>
LLVMCall(probe, v) == Op("llvm.call", v, <<v>>, Symbol(v, probe))

\* Mutant of Lowered: channels are destroyed at the last return only.
Lowered_LastReturn(f) ==
  LET made == Ops(f, "stream")
      Step(i) == LET o == f.ops[i]
                 IN CASE o.k \in {"read", "write"} -> <<LLVMCall(o.k, o.ch)>>
                   [] o.k = "stream" -> <<Op("alloca", o.ch, << >>, << >>), LLVMCall("ctor", o.ch)>>
                   [] o.k = "return" /\ i = Len(f.ops) ->
                        [j \in DOMAIN made |-> LLVMCall("dtor", made[j].ch)] \o <<o>>
                   [] OTHER -> <<o>>
  IN  FlattenSeq([i \in DOMAIN f.ops |-> Step(i)])

\* Accesses become calls; a declaration becomes an object, constructed there
\* and destroyed at every return of its function.
Lowered(f) ==
  LET made == Ops(f, "stream")
      Step(o) == CASE o.k \in {"read", "write"} -> <<LLVMCall(o.k, o.ch)>>
                   [] o.k = "stream" -> <<Op("alloca", o.ch, << >>, << >>), LLVMCall("ctor", o.ch)>>
                   [] o.k = "return" -> [j \in DOMAIN made |-> LLVMCall("dtor", made[j].ch)] \o <<o>>
                   [] OTHER -> <<o>>
  IN  FlattenSeq([i \in DOMAIN f.ops |-> Step(f.ops[i])])

\* getOrInsertFunc: each symbol is declared when it is first called.
Declared(fs) ==
  UNION {{o.to : o \in {p \in ToSet(f.ops) : p.k = "llvm.call"}} : f \in ToSet(fs)}

PtrType == [kind |-> "ptr", elem |-> "", shape |-> << >>, depth |-> 0]
ArgsOf(fs) == UNION {ToSet(f.args) : f \in fs}

\* The rest of runOnOperation.  The arguments of a declared function stay as
\* they are.
LowerChannels ==
  /\ pc = "lower" /\ pc' = "done"
  /\ LET lowered == [i \in DOMAIN funcs |->
                       IF funcs[i].external THEN funcs[i] ELSE [funcs[i] EXCEPT !.ops = Lowered(funcs[i])]]
         args == ArgsOf({f \in ToSet(funcs) : ~f.external})
         retyped == {v \in args : types[v].kind = "stream"} \cup
                    {o.ch : o \in {p \in AllOps : p.k = "stream"}}
     IN  /\ funcs' = lowered
         /\ decls' = Declared(lowered)
         /\ types' = [v \in DOMAIN types |-> IF v \in retyped THEN PtrType ELSE types[v]]
         /\ noalias' = {v \in args : types[v].kind \in {"stream", "memref", "ptr"}}
  /\ UNCHANGED <<design, opts, files, wanted, channels>>

-----------------------------------------------------------------------------
Init ==
  /\ design \in Designs
  /\ opts \in Options
  /\ pc = "emit"
  /\ funcs = design.funcs /\ types = design.types
  /\ noalias = {} /\ decls = {} /\ xml = << >> /\ wanted = {} /\ unit = {}
  /\ channels = << >>

Next == EmitArchitecture \/ CollectSpecializations \/ CompileUnit \/ ReadBack \/ LowerChannels

Spec == Init /\ [][Next]_vars

-----------------------------------------------------------------------------
\* The buffer of the design an argument of a function in the XML stands for: an
\* argument of the top is one itself.
Wired(e, index) ==
  LET top == CHOOSE f \in ToSet(design.funcs) : f.name = xml[1].name
      f == CHOOSE g \in ToSet(design.funcs) : g.name = e.name
  IN  IF e.top THEN {f.args[index]}
      ELSE {o.args[index] : o \in {p \in ToSet(top.ops) : p.k = "call" /\ p.to = e.name}}

\* In the architecture file each function appears once; no bundle joins ports
\* wired to different values, and all ports wired to one buffer share a bundle.
BundlesAgree ==
  /\ \A i, j \in DOMAIN xml : xml[i].name = xml[j].name => i = j
  /\ \A i, j \in DOMAIN xml : \A p \in ToSet(xml[i].params), q \in ToSet(xml[j].params) :
       LET same == Wired(xml[i], p.index) = Wired(xml[j], q.index)
       IN  /\ p.bundle = q.bundle => same
           /\ same /\ p.mode # "default" => p.bundle = q.bundle /\ p.mode = q.mode

\* The positions in f of calls of a channel entry point on v.
Calls(f, probe, v) ==
  {i \in DOMAIN f.ops : f.ops[i].k = "llvm.call" /\ f.ops[i].ch = v /\ f.ops[i].to[1] = probe}
Uses(f, v) ==
  {i \in DOMAIN f.ops : v \in ToSet(f.ops[i].args) /\ f.ops[i].to # << >>}

\* No stream operation is left, and no stream value a defined function is given.
NoStreamLeft ==
  /\ StreamOps = {}
  /\ \A f \in ToSet(funcs) : ~f.external => \A v \in ToSet(f.args) : types[v].kind # "stream"

\* A lowered module has no stream left, and every channel lives as its
\* declaration did: one construction, before every use; on the way to each return
\* one destruction, after every use on that way.
ChannelsLive ==
  pc = "done" =>
    /\ NoStreamLeft
    /\ \A f \in ToSet(funcs) : ~f.external =>
         \A g \in ToSet(design.funcs) : g.name = f.name =>
              /\ \A v \in {o.ch : o \in {p \in ToSet(g.ops) : p.k = "stream"}} :
                   /\ Cardinality(Calls(f, "__df_ctor_", v)) = 1
                   /\ \A c \in Calls(f, "__df_ctor_", v), u \in Uses(f, v) : c <= u
                   /\ \A r \in {i \in DOMAIN f.ops : f.ops[i].k = "return"} :
                        LET exit == {i \in 1 .. r - 1 : \A j \in i .. r - 1 : f.ops[j].k # "return"}
                            dead == Calls(f, "__df_dtor_", v) \cap exit
                        IN  /\ Cardinality(dead) = 1
                            /\ \A u \in Uses(f, v) \cap exit : \A d \in dead : u <= d
              \* accesses and calls are those of the source, in order
              /\ LET Access(ops) == SelectSeq(ops, LAMBDA o : o.k \in {"read", "write", "call"})
                     Entry(ops) == SelectSeq(ops, LAMBDA o : o.k = "call" \/
                                     o.to \in ({"__df_read_", "__df_write_"} \X wanted))
                 IN  [i \in DOMAIN Access(g.ops) |-> Access(g.ops)[i].ch]
                     = [i \in DOMAIN Entry(f.ops) |-> Entry(f.ops)[i].ch]

\* Every entry point a lowered module calls is declared in it and defined, for
\* that element type, by the unit it will be linked with.
SymbolsDefined ==
  pc = "done" =>
    \A o \in AllOps : o.k = "llvm.call" => o.to \in decls /\ o.to \in unit

\* A pass that fails leaves the module as it was.
FailsUntouched ==
  pc = "failed" => funcs = design.funcs /\ types = design.types /\ decls = {}
=============================================================================
