------------------------ MODULE BambuLowering_proofs ------------------------
(***************************************************************************)
(* Proofs about the lowering of channels to Bambu: a refused or failed run *)
(* leaves the module alone, what a lowered module calls exists, and no     *)
(* stream is left in it.  All follow from what the steps before the last   *)
(* have established of the files and of the module.                       *)
(***************************************************************************)
EXTENDS BambuLowering, DataLemmas

\* Until the last step the module is the one given.
Untouched ==
  /\ design \in Designs
  /\ pc \in {"emit", "collect", "build", "read back", "lower", "done", "failed"}
  /\ pc # "done" => funcs = design.funcs /\ types = design.types /\ decls = {}

\* The entry points read back for an element type are the unit's.
EntryPoints(t) ==
  /\ t \in DOMAIN channels
  /\ channels[t].ctor = <<"__df_ctor_", t>> /\ channels[t].dtor = <<"__df_dtor_", t>>
  /\ channels[t].read = <<"__df_read_", t>> /\ channels[t].write = <<"__df_write_", t>>

\* What is wanted are the element types of the module, and once the unit has been
\* read back every one of them has its probes and its entry points.
Gathered ==
  /\ pc \in {"build", "read back", "lower"} => wanted = ElementTypes
  /\ pc = "lower" => Probes \X wanted \subseteq unit /\ \A t \in wanted : EntryPoints(t)

LoweringInv ==
  /\ Untouched
  /\ Gathered
  /\ SymbolsDefined
  /\ pc = "done" => NoStreamLeft

-----------------------------------------------------------------------------
(* What the lowering makes of a function.                                  *)

\* The operations that take part in the lowering are those of the function.
LEMMA OpsAreOperations ==
  ASSUME NEW f, f.ops \in Seq(Operation), NEW k, NEW j \in DOMAIN Ops(f, k)
  PROVE  Ops(f, k)[j] \in ToSet(f.ops) /\ Ops(f, k)[j].k = k
<1> DEFINE at == {i \in DOMAIN f.ops : f.ops[i].k = k}
<1>1. at \in SUBSET (0 .. (Len(f.ops) + 1) - 1) /\ Len(f.ops) + 1 \in Nat
  OBVIOUS
<1>2. j \in 1 .. Cardinality(at) /\ Ops(f, k)[j] = f.ops[Ranked(at, j)]
  BY DEF Ops
<1>3. Ranked(at, j) \in at
  BY <1>1, <1>2, RankedIsMember
<1>4. QED
  BY <1>2, <1>3 DEF ToSet

\* The operations a function consists of once it is lowered: those of its own
\* that are not about channels, the objects and the calls of their entry points.
LoweredOps(f) ==
  LET V == {o.ch : o \in {p \in ToSet(f.ops) : p.k \in {"stream", "read", "write"}}}
  IN  {o \in ToSet(f.ops) : o.k \notin {"stream", "read", "write"}}
      \cup {Op("alloca", v, << >>, << >>) : v \in V}
      \cup {LLVMCall(p, v) : p \in {"read", "write", "ctor", "dtor"}, v \in V}

LEMMA LoweredElements ==
  ASSUME NEW f, f.ops \in Seq(Operation)
  PROVE  ToSet(Lowered(f)) \subseteq LoweredOps(f)
<1> DEFINE made == Ops(f, "stream")
<1> DEFINE Step(o) ==
      CASE o.k \in {"read", "write"} -> <<LLVMCall(o.k, o.ch)>>
        [] o.k = "stream" -> <<Op("alloca", o.ch, << >>, << >>), LLVMCall("ctor", o.ch)>>
        [] o.k = "return" -> [j \in DOMAIN made |-> LLVMCall("dtor", made[j].ch)] \o <<o>>
        [] OTHER -> <<o>>
<1> DEFINE E == LoweredOps(f)
<1>1. \A o \in ToSet(f.ops) : o.k \in {"stream", "read", "write"} =>
        /\ Op("alloca", o.ch, << >>, << >>) \in E
        /\ \A p \in {"read", "write", "ctor", "dtor"} : LLVMCall(p, o.ch) \in E
  BY DEF LoweredOps
<1>2. \A o \in ToSet(f.ops) : o.k \notin {"stream", "read", "write"} => o \in E
  BY DEF LoweredOps
<1>3. [j \in DOMAIN made |-> LLVMCall("dtor", made[j].ch)] \in Seq(E)
  <2>1. \A j \in DOMAIN made : LLVMCall("dtor", made[j].ch) \in E
    BY <1>1, OpsAreOperations
  <2>2. \E n \in Nat : DOMAIN made = 1 .. n
    <3>1. {i \in DOMAIN f.ops : f.ops[i].k = "stream"} \subseteq 1 .. Len(f.ops)
      OBVIOUS
    <3>2. 1 \in Int /\ Len(f.ops) \in Int
      OBVIOUS
    <3>3. IsFiniteSet(1 .. Len(f.ops))
      BY <3>2, FS_Interval
    <3>4. Cardinality({i \in DOMAIN f.ops : f.ops[i].k = "stream"}) \in Nat
      BY <3>1, <3>3, FS_Subset, FS_CardinalityType
    <3>5. QED
      BY <3>4 DEF Ops
  <2> HIDE DEF made, E
  <2>3. QED
    BY <2>1, <2>2
<1>4. \A o \in ToSet(f.ops) : Step(o) \in Seq(E)
  <2> HIDE DEF made, E
  <2> TAKE o \in ToSet(f.ops)
  <2>1. CASE o.k \in {"read", "write"}
    BY <2>1, <1>1
  <2>2. CASE o.k = "stream"
    BY <2>2, <1>1
  <2>3. CASE o.k = "return"
    BY <2>3, <1>2, <1>3
  <2>4. CASE o.k \notin {"read", "write", "stream", "return"}
    BY <2>4, <1>2
  <2>5. QED
    BY <2>1, <2>2, <2>3, <2>4
<1>5. Lowered(f) = FlattenSeq([i \in DOMAIN f.ops |-> Step(f.ops[i])])
  BY DEF Lowered
<1> HIDE DEF made, E, Step
<1>6. [i \in DOMAIN f.ops |-> Step(f.ops[i])] \in Seq(Seq(E))
  BY <1>4 DEF ToSet
<1>7. Lowered(f) \in Seq(E)
  BY <1>5, <1>6, FlattenElements
<1>8. QED
  BY <1>7 DEF ToSet, E

\* What operations are once they are lowered: none is about a channel, and an entry
\* point that is called is in the unit.
Sound(ops) ==
  \A o \in ToSet(ops) :
    /\ o.k \notin {"stream", "read", "write"}
    /\ o.k = "llvm.call" => o.to \in unit

\* What the lowering makes of a function whose channels have element types that
\* the unit was built for.
LEMMA LoweredIsSound ==
  ASSUME NEW f, f.ops \in Seq(Operation),
         \A o \in ToSet(f.ops) : o.k \in {"stream", "read", "write"} => types[o.ch].elem \in wanted,
         Probes \X wanted \subseteq unit,
         \A t \in wanted : EntryPoints(t)
  PROVE  Sound(Lowered(f))
<1> SUFFICES ASSUME NEW o \in ToSet(Lowered(f))
             PROVE  /\ o.k \notin {"stream", "read", "write"}
                    /\ o.k = "llvm.call" => o.to \in unit
  BY DEF Sound
<1>1. o \in LoweredOps(f)
  BY LoweredElements
<1>2. CASE o \in {p \in ToSet(f.ops) : p.k \notin {"stream", "read", "write"}}
  <2>1. \A p \in ToSet(f.ops) : p \in Operation
    BY DEF ToSet
  <2>2. \A p \in Operation : p.k # "llvm.call"
    BY DEF Operation
  <2>3. QED
    BY <1>2, <2>1, <2>2
<1>3. CASE \E v : o = Op("alloca", v, << >>, << >>)
  BY <1>3 DEF Op
<1>4. ASSUME NEW p \in {"read", "write", "ctor", "dtor"},
             NEW q \in ToSet(f.ops), q.k \in {"stream", "read", "write"}, o = LLVMCall(p, q.ch)
      PROVE  o.k = "llvm.call" /\ o.to \in unit
  <2> DEFINE t == types[q.ch].elem
  <2>1. t \in wanted /\ EntryPoints(t)
    BY <1>4
  <2>2. o.k = "llvm.call" /\ o.to = channels[t][p]
    BY <1>4, <2>1 DEF LLVMCall, Symbol, Op, EntryPoints
  <2>3. PICK e \in Probes : channels[t][p] = <<e, t>>
    BY <2>1 DEF EntryPoints, Probes
  <2>4. QED
    BY <2>1, <2>2, <2>3
<1>5. QED
  BY <1>1, <1>2, <1>3, <1>4 DEF LoweredOps

-----------------------------------------------------------------------------
(* The steps.                                                              *)

\* The call of an entry point declares it.
LEMMA DeclaredOf ==
  ASSUME NEW fs, NEW f \in ToSet(fs), NEW o \in ToSet(f.ops), o.k = "llvm.call"
  PROVE  o.to \in Declared(fs)
<1>1. o.to \in {q.to : q \in {p \in ToSet(f.ops) : p.k = "llvm.call"}}
  OBVIOUS
<1>2. QED
  BY <1>1 DEF Declared

LEMMA SeqElement ==
  ASSUME NEW S, NEW s \in Seq(S), NEW i \in DOMAIN s
  PROVE  s[i] \in S
OBVIOUS

\* The record ReadBack keeps for an element type.
LEMMA ReadBackGives ==
  ASSUME NEW W, NEW C,
         C = [t \in W |-> [ctor |-> <<"__df_ctor_", t>>, dtor |-> <<"__df_dtor_", t>>,
                          read |-> <<"__df_read_", t>>, write |-> <<"__df_write_", t>>]],
         NEW t \in W
  PROVE  /\ t \in DOMAIN C
         /\ C[t].ctor = <<"__df_ctor_", t>> /\ C[t].dtor = <<"__df_dtor_", t>>
         /\ C[t].read = <<"__df_read_", t>> /\ C[t].write = <<"__df_write_", t>>
<1>1. C[t] = [ctor |-> <<"__df_ctor_", t>>, dtor |-> <<"__df_dtor_", t>>,
              read |-> <<"__df_read_", t>>, write |-> <<"__df_write_", t>>]
  OBVIOUS
<1>2. QED
  BY <1>1

\* A pointer is no stream.
LEMMA PtrKind == PtrType.kind # "stream"
<1>1. PtrType.kind = "ptr"
  BY Zenon DEF PtrType
<1>2. QED
  BY <1>1

\* LowerChannels finds the module as it was given and the unit complete, and
\* leaves no stream and no symbol undefined.
LEMMA LowerChannelsLowers ==
  ASSUME LoweringInv, LowerChannels
  PROVE  SymbolsDefined' /\ NoStreamLeft'
<1> DEFINE low(i) == IF funcs[i].external THEN funcs[i]
                     ELSE [funcs[i] EXCEPT !.ops = Lowered(funcs[i])]
<1> DEFINE args == ArgsOf({f \in ToSet(funcs) : ~f.external})
<1> DEFINE retyped == {v \in args : types[v].kind = "stream"} \cup
                      {o.ch : o \in {p \in AllOps : p.k = "stream"}}
<1>1. /\ pc = "lower" /\ pc' = "done" /\ UNCHANGED <<unit, wanted, channels, design>>
      /\ funcs' = [i \in DOMAIN funcs |-> low(i)] /\ decls' = Declared(funcs')
      /\ types' = [v \in DOMAIN types |-> IF v \in retyped THEN PtrType ELSE types[v]]
  BY DEF LowerChannels, files
<1>2. funcs \in Seq([name : Seq(STRING), args : Seq(STRING), ops : Seq(Operation), external : BOOLEAN])
  BY <1>1, DesignsAssumption DEF LoweringInv, Untouched
<1>3. \A f \in ToSet(funcs) : (f.external => f.ops = << >>) /\ ToSet(f.args) \subseteq DOMAIN types
  BY <1>1, DesignsAssumption DEF LoweringInv, Untouched
<1>4. /\ Probes \X wanted \subseteq unit
      /\ \A t \in wanted : EntryPoints(t)
      /\ wanted = ElementTypes
  BY <1>1 DEF LoweringInv, Gathered
<1>5. ASSUME NEW i \in DOMAIN funcs
      PROVE  /\ funcs'[i].external = funcs[i].external /\ funcs'[i].args = funcs[i].args
             /\ Sound(funcs'[i].ops)
  <2>1. funcs[i] \in ToSet(funcs) /\ funcs[i].ops \in Seq(Operation)
    <3>1. funcs[i] \in [name : Seq(STRING), args : Seq(STRING), ops : Seq(Operation), external : BOOLEAN]
      BY <1>2, SeqElement
    <3>2. \A g \in [name : Seq(STRING), args : Seq(STRING), ops : Seq(Operation), external : BOOLEAN] :
            g.ops \in Seq(Operation)
      BY Zenon
    <3>3. QED
      BY <3>1, <3>2 DEF ToSet
  <2>2. CASE funcs[i].external
    <3>1. funcs'[i] = funcs[i] /\ ToSet(funcs[i].ops) = {}
      BY <1>1, <1>3, <2>1, <2>2 DEF ToSet
    <3>2. QED
      BY <3>1 DEF Sound
  <2>3. CASE ~funcs[i].external
    <3>1. funcs'[i] = [funcs[i] EXCEPT !.ops = Lowered(funcs[i])]
      BY <1>1, <2>3
    <3>2. /\ funcs'[i].external = funcs[i].external /\ funcs'[i].args = funcs[i].args
          /\ funcs'[i].ops = Lowered(funcs[i])
      BY <1>2, <3>1
    <3>3. \A o \in ToSet(funcs[i].ops) :
            o.k \in {"stream", "read", "write"} => types[o.ch].elem \in wanted
      BY <1>4, <2>1 DEF ElementTypes, StreamOps, AllOps
    <3>4. QED
      BY <3>2, <3>3, <2>1, <1>4, LoweredIsSound
  <2>4. QED
    BY <2>2, <2>3
<1>6. ASSUME NEW f \in ToSet(funcs')
      PROVE  \E i \in DOMAIN funcs : f = funcs'[i]
  BY <1>1 DEF ToSet
<1>7. ASSUME NEW o \in AllOps'
      PROVE  /\ o.k \notin {"stream", "read", "write"}
             /\ o.k = "llvm.call" => o.to \in unit /\ o.to \in decls'
  <2>1. PICK f \in ToSet(funcs') : o \in ToSet(f.ops)
    BY DEF AllOps
  <2>2. o.k = "llvm.call" => o.to \in decls'
    BY <1>1, <2>1, DeclaredOf
  <2>3. PICK i \in DOMAIN funcs : f = funcs'[i]
    BY <1>6, <2>1
  <2>4. o \in ToSet(funcs'[i].ops)
    BY <2>1, <2>3
  <2>5. o.k \notin {"stream", "read", "write"} /\ (o.k = "llvm.call" => o.to \in unit)
    <3>1. Sound(funcs'[i].ops)
      BY <1>5
    <3>2. QED
      BY <2>4, <3>1 DEF Sound
  <2>6. QED
    BY <2>2, <2>5
<1>8. ASSUME NEW f \in ToSet(funcs'), ~f.external, NEW v \in ToSet(f.args)
      PROVE  types'[v].kind # "stream"
  <2>1. PICK i \in DOMAIN funcs : f = funcs'[i]
    BY <1>6
  <2>2. funcs[i] \in ToSet(funcs) /\ ~funcs[i].external /\ v \in ToSet(funcs[i].args)
    BY <1>5, <1>8, <2>1 DEF ToSet
  <2>3. v \in args /\ v \in DOMAIN types
    BY <1>3, <2>2 DEF ArgsOf
  <2> HIDE DEF args
  <2>4. types'[v] = IF v \in retyped THEN PtrType ELSE types[v]
    BY <1>1, <2>3
  <2>5. QED
    <3>1. types[v].kind = "stream" => v \in retyped
      BY <2>3
    <3> HIDE DEF retyped
    <3>2. QED
      BY <2>4, <3>1, PtrKind
<1>9. QED
  BY <1>1, <1>7, <1>8 DEF SymbolsDefined, NoStreamLeft, StreamOps

LEMMA InitHolds == Init => LoweringInv
BY DEF Init, LoweringInv, Untouched, Gathered, SymbolsDefined

LEMMA NextKeeps ==
  ASSUME LoweringInv, [Next]_vars
  PROVE  LoweringInv'
<1> USE DEF LoweringInv, Untouched, Gathered, EntryPoints, SymbolsDefined
<1>1. CASE EmitArchitecture
  <2>1. pc = "emit" /\ pc' \in {"failed", "collect"} /\ UNCHANGED <<design, ir>>
    BY <1>1 DEF EmitArchitecture
  <2>2. QED
    BY <2>1 DEF ir
<1>2. CASE CollectSpecializations
  <2>1. /\ pc = "collect" /\ pc' \in {"failed", "build", "lower"} /\ UNCHANGED <<design, ir, channels, files>>
        /\ pc' # "failed" => wanted' = ElementTypes
        /\ pc' = "lower" => ElementTypes = {}
    BY <1>2 DEF CollectSpecializations
  <2>2. ElementTypes' = ElementTypes
    BY <2>1 DEF ElementTypes, StreamOps, AllOps, ir
  <2>3. pc' = "lower" => wanted' = {}
    BY <2>1
  <2>4. QED
    BY <2>1, <2>2, <2>3 DEF ir
<1>3. CASE CompileUnit
  <2>1. /\ pc = "build" /\ pc' \in {"failed", "read back"}
        /\ UNCHANGED <<design, ir, wanted, channels>>
    BY <1>3 DEF CompileUnit
  <2>2. ElementTypes' = ElementTypes
    BY <2>1 DEF ElementTypes, StreamOps, AllOps, ir
  <2>3. QED
    BY <2>1, <2>2 DEF ir
<1>4. CASE ReadBack
  <2>1. /\ pc = "read back" /\ pc' \in {"failed", "lower"}
        /\ UNCHANGED <<design, ir, files, wanted>>
        /\ pc' = "lower" =>
             /\ Probes \X wanted \subseteq unit
             /\ channels' = [t \in wanted |->
                  [ctor |-> <<"__df_ctor_", t>>, dtor |-> <<"__df_dtor_", t>>,
                   read |-> <<"__df_read_", t>>, write |-> <<"__df_write_", t>>]]
    BY <1>4 DEF ReadBack
  <2>2. ElementTypes' = ElementTypes
    BY <2>1 DEF ElementTypes, StreamOps, AllOps, ir
  <2>3. ASSUME pc' = "lower", NEW t \in wanted
        PROVE  EntryPoints(t)'
    <3>1. channels' = [u \in wanted |->
             [ctor |-> <<"__df_ctor_", u>>, dtor |-> <<"__df_dtor_", u>>,
              read |-> <<"__df_read_", u>>, write |-> <<"__df_write_", u>>]]
      BY <2>1, <2>3
    <3> HIDE DEF LoweringInv, Untouched, Gathered, SymbolsDefined, EntryPoints
    <3>2. /\ t \in DOMAIN channels'
          /\ channels'[t].ctor = <<"__df_ctor_", t>> /\ channels'[t].dtor = <<"__df_dtor_", t>>
          /\ channels'[t].read = <<"__df_read_", t>> /\ channels'[t].write = <<"__df_write_", t>>
      BY <2>3, <3>1, ReadBackGives
    <3>3. QED
      BY <3>2 DEF EntryPoints
  <2>4. QED
    BY <2>1, <2>2, <2>3 DEF ir, files
<1>5. CASE LowerChannels
  <2>1. pc' = "done" /\ UNCHANGED design
    BY <1>5 DEF LowerChannels
  <2>2. QED
    BY <1>5, <2>1, LowerChannelsLowers
<1>6. CASE UNCHANGED vars
  BY <1>6 DEF vars, ir, files, ElementTypes, StreamOps, AllOps, NoStreamLeft
<1>7. QED
  BY <1>1, <1>2, <1>3, <1>4, <1>5, <1>6 DEF Next

LEMMA LoweringInvHolds == Spec => []LoweringInv
BY InitHolds, NextKeeps, PTL DEF Spec

\* A run that is refused or fails, in whichever pass and at whichever step, leaves
\* the module as it was: nothing has been lowered or declared.
THEOREM FailuresAreClean == Spec => []FailsUntouched
<1>1. LoweringInv => FailsUntouched
  BY DEF LoweringInv, Untouched, FailsUntouched
<1>2. QED
  BY <1>1, LoweringInvHolds, PTL

\* Whatever the design, and whichever probes Clang loses: a module that is lowered
\* calls only entry points that it declares and that its unit defines.
THEOREM EntryPointsExist == Spec => []SymbolsDefined
<1>1. LoweringInv => SymbolsDefined
  BY DEF LoweringInv
<1>2. QED
  BY <1>1, LoweringInvHolds, PTL

\* A lowered module has no stream operation and no stream argument left: what the
\* passes after this one could not translate.
THEOREM StreamsAllLowered == Spec => [](pc = "done" => NoStreamLeft)
<1>1. LoweringInv => (pc = "done" => NoStreamLeft)
  BY DEF LoweringInv
<1>2. QED
  BY <1>1, LoweringInvHolds, PTL
=============================================================================
