# soda-benchmarks: TLA+ models, checks and proofs

soda-benchmarks takes PyTorch kernels through MLIR to Verilog (and, for one
schedule, to an accelerator of an ESP SoC).  Its own code is a set of MLIR
passes and runtimes (`examples/soda-plugins`), a Python command line that keeps
an on-disk store of experiments (`sb_cli`), hardware IPs, and scripts that glue
the stages.  This directory models the parts of it that have state and that can
go wrong in ways a unit test would hardly reach.

Run the tools in this directory: `tlc -workers 2 -config X.cfg M` for a run,
`tlapm M_proofs.tla` for the proofs about a module (and `tlapm DataLemmas.tla`
for the lemmas they share).  `PROJECT.json` lists, for each definition, the
lines it stands for; for each property, a mutation of the code that breaks it;
and every hazard the properties are aimed at.

## 1. The system

| component | state | operations | what makes it hard |
|---|---|---|---|
| ESP runtime (`ExecutionEngine/EspRuntime.cpp`) | one global `g_state`; the device's registers; a buffer shared with the device | `esp_alloc_shared`, `esp_free_shared`, two copies, `esp_accel_cfg_regs`, `esp_accel_start`, `esp_accel_wait` | the device runs beside the processor, through a page table and without cache coherence; calls fail in silence; sizes are cut to 32 bits and rounded to chunks |
| ESP lowering (`LinalgToESPRuntime/ESPPasses.cpp`) | none at run time: it fixes layout and call order | `replaceBatchMatmul` | nothing of what it emits looks at a failure |
| Experiment store (`sb_cli/registry.py`, `init.py`, `fork.py`) | timestamped directories, symlinks, `registry.py` | `init`, `fork` | several files changed one after the other, without locks; crashes; a user who edits the files |
| Buffer-to-stream conversion (`AffineToDataflow/*.cpp`) | the IR of a function | turns a buffer between two loop nests into a FIFO | when may a FIFO stand for an array; what concurrent tasks do then |
| Task dispatch and outlining (`CreateDataflowTasks.cpp`, `Dataflow.cpp`, `TasksToNodes.cpp`, `NodesToFunc.cpp`) | the IR | groups loop nests in tasks, moves buffers and streams, gives tasks ports, outlines functions | placement and naming of what several tasks share; what the canonicalizer may drop between two passes |
| Lowering to Bambu (`EmitBambuArchitecture.cpp`, `ConvertDataflowToLLVM.cpp`) | the IR, an XML file, a unit compiled by Clang | describes every connection; turns channels into objects | one name space for all connections; object lifetimes; a compiler that may fail half way |
| Operation counters (`InstrPasses.cpp`, `DynamicOpCounterRuntime.cpp`) | per-loop totals, per-kind counters, a stack of active loops | calls inserted in loops and in front of operations | nesting, calls, ids that repeat, passes run twice, what is counted as what |
| Hardware IPs (`sb_cli/recipes/*/IPs/*.v`) and their passes (`InstrPasses.cpp`) | counters, running bits, an FSM | one call per start pulse | state read a cycle later; widths; calls that take time themselves |
| Metrics collection (`collect.py`) | `metrics.json` | parses logs | what a log holds when it is read; which print counts |
| Build pipeline (`Makefile.tmpl`, `scripts/`) | files and time stamps | make rules | stale outputs |
| Experiment configuration (`flow.py`, `recipes/`), `catalog.py` | none | pure look-ups | |
| Run-time helpers (`memref_copy.c`, `soda_testbench_main.c`) | none | strided copies | ranks, strides, overlap |

The passes run one after the other on the IR and share nothing else.  The ESP
lowering only meets the runtime through the seven symbols of `ESPRuntime.h`; the
generated code of the counters meets its runtime through two, and a kernel its
hardware modules through `start_port` and `done_port`.  `collect` meets them in
the log of the simulation.  `init`, `fork` and `collect` meet only in the files of
`benches/experiments`.

Behaviour that makes each part correct:

- ESP: C is the product, once, or untouched; the device never leaves the buffer;
  the kernel always gets past the offload; nothing outlives it.
- Store: a name, once taken, is one experiment's; a directory is one
  experiment's; what is registered is complete; nothing is overwritten.
- Streams: the concurrent program with FIFOs ends and leaves what the sequential
  program leaves.
- Tasks: every use of a value is after its definition, and in a scope that sees it;
  the design does what the function did; a node's declared effects are its real ones.
- Bambu: one connection has one bundle name; a channel object lives from its
  declaration to each return; a pass that fails leaves the module alone.
- Counters: totals equal what was executed, whatever the nesting and the passes.
- IPs: one `done` per start, and the counts or sums of exactly the calls made;
  what is collected is the last count.

## 2. Plan

Written, in this order, the system's most important behaviour first:

1. **ESP**: `EspRuntime` (state and functions), `MatmulOffload` (abstract),
   `EspOffload` (the emitted sequence beside the device), `EspClient` (any call
   order); `EspOffload_proofs`, `EspClient_proofs`.
2. **Store**: `NameTable` (abstract), `ExperimentStore`;
   `ExperimentStore_proofs` (any number of commands at once, then one at a time
   and the refinement).
3. **Streams**: `Ranking` and `AffineBands` (pure), `DataflowStreams`;
   `DataflowStreams_proofs`.
4. **Tasks**: `DataflowTasks`; its stages are those `DataflowStreams` runs.
5. **Bambu**: `BambuLowering`; it starts from what `nodes-to-func` leaves;
   `BambuLowering_proofs`.
6. **Operation counters**: `LoopText` (pure), `OpCounters`; `OpCounters_proofs`.
7. **Hardware**: `HwModules` (the modules' edges), `MetricsCollection` (pure),
   `HwKernel` (passes, controller, modules and memory on one clock);
   `HwKernel_proofs`.

`DataLemmas` has the lemmas about data that several of the proof modules cite.

`DataflowTasks` walks nested regions and declares recursive operators: it stays
with TLC.

## 3. The modules and the code

### EspRuntime, EspOffload, EspClient, MatmulOffload

`EspRuntime` has one operator per exported function.  `g_state` is the four
variables `dev`, `live`, `memSize`, `needFlush` (`buf` and `ptable` live and die
together and are represented by `live`; `coherence` is constant).  The device is
`regs`, `ptReg`, `nchunkReg`, `status`.  The buffer exists twice: `dram`, what the
device reads, and `cpu`, the processor's cache, valid on the chunks in `lines`
(and on the page table, `PtLine`); a line is written back when the cache wants
(`Evict`) or when `esp_flush` is called.  A token is a tag naming an operand's
element, so that "C is the product" is exact while the fixed-point arithmetic is
left out.  The chip (`soc`) is chosen in the initial state: with or without the
FFN tile and caches, and with any TLB size.

The device is not in this repository.  `Compute` is what the header comments and
the pass rely on: it reads its operands and its bias words through the page
table, writes the output window, raises `done`.  `Stray` is the rest: over a page
table that is freed, null, absent or not yet in memory it does something unknown
and may never finish.

`EspOffload` runs the calls in the order `replaceBatchMatmul` emits them, one
action per call; `Begin` is control reaching one more replaced operation, of any
shape in `Shapes`.  The calls are straight-line code, hence weak fairness of the
next call; the device gets weak fairness because a started device over a good
table finishes, which is the runtime's own assumption when it polls.
`EspClient` drops the order: every function at any time, `aligned_malloc` failing
or not.

`MatmulOffload` is the promise to the surrounding kernel.  The mapping: `phase`
is read off `pc` and `live`, `c` is `c`.  `DataInv`, beside it in `EspOffload`, says
where the operands, the product and the bias words are at each call; it is what
the refinement rests on.

### ExperimentStore, NameTable

A process is one `sb-cli init` or `sb-cli fork`.  Each system call another
process, a crash or the user could come between is a step: the existence check
of `registry.py`, its creation (truncate, then write), each look at a symlink and
each load in the choice of a name (`LookForLink` and `AskRegistry`, per candidate),
the choice of the time stamp, `mkdir`, the files, the symlink, and the
read, truncation and write of `append`.  `registry.py` is a status (absent,
empty, a dict, broken) and its entries in order, which is all `load` and
`append` can tell apart; two overlapping writes may leave a broken file.
A name is a stem and a counter, a directory a second and a suffix.  `fork`
resolves its source in one load and names the copy after another: a source that
was struck in between is taken for a path, and the copy named after its directory
(all time stamps are one stem, `DirStem`).  The rendered
files of an experiment are one write (they are in a directory nothing else
refers to yet), with `copytree`'s refusal of an existing `IPs/`.

`NameTable` is what users rely on: a name is bound once, to a directory no other
name has, and only ever removed.  A rewrite of `registry.py` takes effect in the
mapping when its write does.

### Ranking, AffineBands, DataflowStreams

`AffineBands` translates the analysis and the guard of the conversion over
perfect bands: loops as the values their induction variables take, accesses as
the operands of their affine map and the operands each dimension adds up.
`getMinimalAccessPattern` is the code's sequence: the operands must be exactly the
enclosing induction variables that index the buffer, each operand becomes its
position among them, the map is flattened, duplicates go, and the result must be
a permutation.  `BufferToStream` is `matchAndRewrite` up to its first change of
the IR; `StreamDepth` is the static element count.  Constants, `mod` and `div` in
a map are left out; so is `getPermutationMap`'s own failure on no operands.

`DataflowStreams` is what the rewritten function means: each band is a stage of
the dispatch, `stream_write` waits on a full channel and `stream_read` on an
empty one.  Only functions all of whose buffers the pass converts are run: a
buffer that stays in memory is shared between stages, and what concurrent
hardware does with it is not in this code.  A value is named after the store that
made it, so `SameValues` compares with the sequential program without computing
anything: `LastStore` is the store a load would have seen.  `InStep` says of a
function what the conversion is meant to establish: the n-th load of a buffer
takes the element of its n-th store, and no store comes twice to an element.

`Ranking` has one operator, the k-th least of a set of numbers: the accesses a
band executes are the iterations, in their order, at which an `if` lets them
through (and in `BambuLowering` the operations of a kind, in the order of the
text).

### DataflowTasks

A function is a list of operations with results, operands and a body; a value is
a type and an id.  One operator per pass, `CreateDataflowTasks`, `Canonicalize`,
`TasksToNodes` and `NodesToFunc`, rewrites such lists; one action runs the next
pass of a plan on all functions.  What MLIR's greedy driver does on the way
(moving constants to the entry of a function, erasing what is dead) is external
but in the model, because `NodeOp::getEffects` decides what it erases and the
passes rely on constants being outside of tasks.  The order of the ports of a
node within inputs, outputs and parameters is `Liveness`'s and left open
(`SetToSeq`).  `Dispatches` is the post-order walk of `nodes-to-func`, which finds a
dispatch in a loop as well.  `Behaviour` interprets a function: it follows names through ports,
results and calls and lists every store, channel access and returned value; the
passes must not change that list.

### BambuLowering

Functions are flat, as `nodes-to-func` leaves them.  `pc` is the next step of the
two passes, each with its refusals: `EmitArchitecture` computes the XML as a
sequence of function elements, `CollectSpecializations` and `CompileUnit` and
`ReadBack` are the halves of the second pass before it touches the module,
`LowerChannels` the half that does.  Clang is `unit`, any set of the probes asked
for, of each element type.  What `FuncOp::getArguments` gives for a declaration is
nothing (`Arguments`): the XML lists declared callees without parameters.  A channel entry point is its probe and its element type.  `Bundle` is the
name rule of the file; `Wired` in the property is the ground truth, the values of
the top an argument is connected to.  `DesignsAssumption` is what the MLIR verifier
grants: functions are lists of operations over values that have a type, and a
declaration has no body.

### LoopText, OpCounters

`LoopText` is the structured text both instrumentations work on: a function as
flat text with matching `for`/`end` and `if`/`fi`, and the ids the walks give to
loops: post-order within a function, from 0 again in each.  `Structured` says of a
text what MLIR's regions grant; `InputsAssumption` says so of the functions that
are instrumented, conditionals and the targets of calls included.

The runtime is `rt`: `counters` (`gCounterByLoopId`), `dynamic`
(`gDynamicCounters`), `stack` (`gActiveLoopStack`) and `exits`
(`gAtExitRegistered` and what `atexit` holds).  An input is a set of functions
and the `tracked-kinds` of the per-operation passes it goes through; a pass with
an unknown kind ends the compilation.  The call stack `frames` is the running
program, one step per marker, operation, call or turn of a loop; `Return` of the
first function runs what `atexit` holds.  `work` and `ran` are the ghosts the
totals are compared with: what each loop, and each operation, really executed.
`LoopsInOne` and `AllDirect` say which programs the totals are told for: loops in
one function, which what its loops call never calls again; and, for the totals to
be exact, operations in the loops' own bodies.

### HwModules, MetricsCollection, HwKernel

`HwModules` has, per Verilog module, its registers, their values after reset, the
edge (all non-blocking assignments at once, over the wires of the cycle) and the
lines it displays at that edge, with widths as constants.  `HwKernel` first puts a
kernel through passes of `InstrPasses.cpp`, then runs it: every action but
`Finish` is one clock cycle in which the controller, all four modules and the
memory move together.  The controller and the memory are not in the repository
and are modelled from what the modules suppose of them: one call at a time,
`start_port` for a cycle, then a wait for `done_port`, arguments held until the
next call of that module (the assertion and the counters read them a cycle after
the start), read data held until the next answer (the vector module reads it a
cycle after `M_DataRdy`), answers after any number of cycles up to `MaxLatency`.
Addresses are <<vector, index>>.

Two things about `sodaVectorDot` the model keeps apart. Its datapath
multiplies and adds raw words as integers, "standing in for a real floating-point
MAC" (`sodaVectorDot.v:20-27`), and the matcher looks at no element type: a
product of floats that is swapped is not `linalg.dot` any more. `linalg_dot` is
the operation (on integers it is computed, on floats it is the constant
`FloatDot`, any values), `CalledDot` what a call stands for:
`linalg_dot` on integers, the documented integer stand-in on floats. And the
always block of the module drives the memory ports in every state, as
`my_result_store` does: `storeDrives`, chosen once, says which of the two the
build keeps: with the FSM's the request of the store never reaches the memory and
the call never ends. All safety properties hold either way; `Returns` is stated
for the store's driver. A module is declared once, with the types of its first
call, so that a second product of another length or type is refused by the
verifier: `CallsAgree`, in `Init`.

The log is the sequence of displayed lines, and
`MetricsCollection` what `collect.py` reads of it; a line is its kind and its
numbers, and the "FINAL" lines are a kind no collector looks for, as their text
does not match `_HW_COUNTER_RE`.  `markers`, `bodies`, `expected` and `asked` are ghosts.

What the passes leave is stated in conditions on the text, which the theorems
cite and TLC evaluates on the kernels and plans of the runs.  `Runnable` (assumed
of every instance by `InstrumentedAssumption`): it ends with its return, its loops
are whole (`Structured`), calls name locations and vector lengths that exist.
`ClearsFirst`: each call of the vector module follows a fill of
its scalar, since the module overwrites what `linalg.dot` adds to.  And what each
pass does: `AssertsOwn` and `AssertsOnce` of the assertions
(each at the start of a body, on that loop's bound, one per loop), `CountsPaired`
and `CountsNothing` of the loop counters (one start and one stop call around each
body, or none anywhere), `ReportsOnce` and `ReportsNever` of the final reports (one
call, among the calls that end the function, or none).

## 4. The runs

| run | checks | bounds and why they are enough |
|---|---|---|
| `esp_offload` | types, `SafeDMA`, `IInv`, `QuietWhileRunning`, refinement of `MatmulOffload`, `OffloadReturns` | dimensions 1 to 2, 4 tokens a chunk: layouts of 3 to 12 tokens, so below, at and above one chunk and up to the 3 entries of the largest TLB; several operations in a row, so that what one leaves behind meets the next |
| `esp_client` | `StateConsistent`, `BufferPinned` | 2 tokens a chunk, sizes with 1 to 3 chunks, one that wraps at 2^w, and a negative one; offsets one below and above the buffer's bounds |
| `store_sequential` | types, `OwnDirectory`, `NoShadowedEntry`, refinement of `NameTable` | 3 commands over 2 seconds: a suffix, a counter, a fork of a fork, an exhausted counter; user edits between any two; crashes anywhere but inside a rewrite |
| `store_concurrent` | `NoShadowedEntry`, `OneOwnerPerName`, `RegisteredIsComplete`, `LinksStable` | 2 processes, 3 commands, derived and explicit names, crashes everywhere, entries struck by the user: a race or a crash plus a command that meets its outcome |
| `store_same_second` (violation) | `OwnDirectory` | see 6 |
| `dataflow_streams` | types, `SameValues`, `AcceptsInStep`, `Completes` | buffers of 2 to 4 elements in one or two dimensions, every order of full walks with and without an extra guarded loop on either side, all pairs of a producer and a consumer; a chain and a reconvergence of three bands, where a channel of less than full depth deadlocks |
| `dataflow_reread` (violation) | `SameValues` | see 6 |
| `dataflow_tasks` | `Verifies`, `SameBehaviour`, `PortsExact` | functions with chained channels, exclusive, shared, loop-local and returned buffers, constants, scalars, nested views, read-only bands, hand-written dispatches, one in a loop; all plans of five passes that do not canonicalize nodes before they are outlined, so that each pass also meets its own output |
| `bambu_lowering` | `BundlesAgree`, `ChannelsLive`, `SymbolsDefined`, `FailsUntouched` | three stages over two channels of different element types with an early return, channels from outside, a callee called twice, declared and undefined callees, dynamic shapes and types Bambu has no name for; all options present or empty; any set of the probes missing, of any type |
| `bambu_shared_array` (violation) | `BundlesAgree` | see 6 |
| `op_counters` | types, `StackIsNest`, `TotalsExact`, `NeverOvercounts`, `DynamicExact`, `ReportExact` | nests three deep, siblings, a loop in a conditional, a function with loops that is called, in and out of loops; up to three per-operation passes with overlapping, empty and unknown selections; 6 iterations in all, so that an outer loop turns again after an inner one has turned twice; trip counts from 0 |
| `hw_kernel` | `EveryCycleCharged`, `MarkersCounted`, `AssertsHold`, `DotExact`, `CollectedIsFinal`, `ReportedOnReturn`, `Returns` | nests of up to three loops, one that never turns, products of integers and of floats, in a loop, of length 0 and of shapes the pass leaves alone; each recipe's passes alone, one run twice in a row, and all together; counters of 3 bits, which wrap, 1-bit locations, which the four ids of one kernel exceed, 4-bit words, in which the product wraps; latency 0 to 2 |

Deadlock checking is off where a behaviour really ends: every command was issued
(the bound `MaxCommands`), a device without a page table hangs, a pass pipeline,
program or simulation is over.

`OffloadReturns` assumes `TlbSuffices` (no FFN tile, or a TLB that holds every
buffer of the kernel): without it the code may poll for ever, because a refused
allocation leaves the device handle set (see 6).  `Returns` assumes weak fairness
of `Next`, which there is a clock that keeps running; `MaxLatency` makes the memory
answer.

## 5. The proofs

Each theorem holds for every value of the constants that satisfies the module's
named assumptions; what else one supposes is in its `ASSUME`.  The assumptions of
the modules are evaluated by TLC on the instance of every run.

| theorem | states | supposes besides |
|---|---|---|
| `TypeCorrect`, `Inductive` (EspOffload) | `TypeOK`, `IInv` | |
| `AcceleratorStaysInBuffer` | `SafeDMA` | |
| `ProcessorWaits` | `QuietWhileRunning` | |
| `BufferHoldsOperands` | `DataInv` | batch 1, `aligned_malloc` does not fail |
| `OffloadIsBatchMatmul` | `ImplementsOffload` | the same |
| `StateAlwaysConsistent` (EspClient) | `StateConsistent` | |
| `OnlyFreeMovesBuffer` | `BufferPinned` | |
| `TypesHold` (ExperimentStore) | `TypeOK` | |
| `NameHasOneOwner` | `OneOwnerPerName` | |
| `LinksNeverMove` | `LinksStable` | the user removes no symlink |
| `RegistryListsComplete`, `RegistryListsOnce` | `RegisteredIsComplete`, `NoShadowedEntry` | the user strikes entries at most |
| `DirectoryHasOneOwner` | `OwnDirectory` | one process |
| `SequentialListsOnce` | `NoShadowedEntry` | one process, derived names |
| `StoreIsNameTable` | `ImplementsNameTable` | the same, and no crash inside a rewrite |
| `ChannelsHoldStores` (DataflowStreams) | `TypeOK` | |
| `StreamsKeepValues` | `SameValues` | what is converted is `InStep` |
| `FailuresAreClean` (BambuLowering) | `FailsUntouched` | |
| `EntryPointsExist` | `SymbolsDefined` | |
| `StreamsAllLowered` | no stream is left at the end | |
| `TypeCorrect`, `StackFollowsLoops` (OpCounters) | `TypeOK`, `StackIsNest` | |
| `TotalsBounded` | `NeverOvercounts` | `LoopsTold` of the inputs |
| `TotalsAreExact` | `TotalsExact` | `TotalsTold` of the inputs |
| `CountersAreExact` | `DynamicExact` | |
| `ReportIsExact` | `ReportExact` | `TotalsTold` of the inputs |
| `CyclesAreShared` (HwKernel) | `EveryCycleCharged` | |
| `ProductIsExact` | `DotExact` | products go to a cleared scalar; of floats `DotExact` says the documented integer stand-in |
| `AssertionsHold` | `AssertsHold` | `AssertsOwn`, and `AssertsOnce` where the pass ran |
| `LoopsAreCounted` | `MarkersCounted` | `CountsPaired` or `CountsNothing` |
| `CollectionIsFinal` | `CollectedIsFinal` | the same, `PRINT_ON_STOP` |
| `ReportsAreFinal` | `ReportedOnReturn` | `ReportsOnce` where a report is asked for, `ReportsNever` elsewhere |

**ESP.**  `SafeDMA` alone is not inductive: that the registers fit the buffer
depends on both being of the same operation, so `IInv` adds that a live buffer was
sized for `op` (`LiveInv`), that the device runs only inside `esp_accel_wait`
(`RunInv`), and that from the configuration on the registers are `Config(op)`
(`RegsInv`); `SafeDMA` then is the arithmetic of the layout (`ShapeLayout`,
`RoundedSizeCovers`, `ChunksCover`).  The refinement needs what the memories hold:
`DataInv` follows the operands through `View` (what the processor reads, in its
cache or in memory) up to the flush, after which the device finds them in `dram`;
it is kept by an eviction at any time, because an eviction changes no `View`.  The
two suppositions of the refinement are real: the pass lays the buffer out for one
batch and copies all of them (the hazard at `EspRuntime.cpp:106`), and
the second `aligned_malloc` is not checked.  For `EspClient`, whose calls come in
any order, `StateConsistent` is inductive together with the types of the sizes.

**Store.**  `TypesHold` is more than typing: `_timestamp` must always find a
suffix, which is a counting argument.  `Budget` says that directories and commands
that may still make one are together at most the commands issued, so that of as
many suffixes as there are commands one is free.  `NameHasOneOwner` rests on
`OwnerInv`: a command past its symlink holds it, and of two of them the names
differ, as `symlink` fails where a link exists.  `CompleteInv` adds what the
registry promises: each listed name has its link and a filled directory, a command
that holds a link and has not appended is listed nowhere, neither in `registry.py`
nor in the text another command is about to write.  With two commands a rewrite
may lose the other's entry; that it never brings back or invents one is in
`ListsGood`.  With one process `OwnDirInv` adds time: a directory an entry leads
to exists, or is of a second that is past, so that no later command takes its
stamp even when the user removed it.  The step lemma of the refinement goes through the actions:
only the write of `append`, the creation of `registry.py` and the user's edits
move the table.

**Streams.**  A channel has one band at each end, so the argument counts.
`FifoInv`: a channel is as long as its stores are ahead of its loads, and its i-th
value is of the store that many after the last one loaded; `LoadInv`: the n-th
load got the value of the n-th store.  What the accesses of a band are is proved
from the definition of its trace (a product of trip counts, then the iterations
an `if` lets through, by rank).  `StreamsKeepValues` then needs that the n-th store
is the one the sequential program's n-th load sees, and that is `InStep`: it is
false of `dataflow_reread`'s function although `BufferToStream` accepts it.  TLC
shows both: `AcceptsInStep` is an invariant of `dataflow_streams`, `RereadIsNot` an
assumption of `MCDataflowStreams`.  That the conversion's guard implies `InStep` for
functions that visit each element once is checked on the instance and not proved.

**Bambu.**  `LoweringInv` says by step what has been done: up to the last step of the
second pass the functions are the given ones (`Untouched`), the specializations
found are exactly the element types of their stream operations (`Gathered`), and
from then on the calls are to symbols the unit defines.  The lemmas look through
`FlattenSeq`, in which the lowering puts its operations (`FlattenElements`).

**Operation counters.**  `CoreInv` is the inductive invariant: each frame stands in its
function, the program is what the passes made of an input (`ProgInv`), and the
stack is the concatenation, frame by frame, of the ids of the loops around where
it stands (`Stack`, `NestOf`).  That a step keeps it is a fact about the text: past
an operation or a whole region the loops around stay (`AroundRegion`), a start
marker adds the innermost (`NestGrows`), and the stop marker, which looks for the
last entry of its id, finds it on top (`StopPops`).  Conditionals and calls may
stand anywhere, and functions may call each other as they like.

The totals are never right while a loop turns: a turn is counted when it ends.
So `Balanced` says what they lack: per loop around the program's place, and per
kind, the operations of the bodies that are behind it in the turns in progress,
those of inner loops not included, as these were counted when they ended (`Owed`,
from the set `Done`).  What was executed is at least the total and what is owed,
and equal to it where every operation stands in a loop's own body.  The markers
move operations from what is owed to the totals (`DoneTurn`, `StopBalanced`), an
operation adds one to both sides (`DoneExecute`, `ExecuteCounted`), a skipped
region none (`DonePast`).  `Place` ties this to one place in the function that has
the loops, also while a helper called from a loop runs: no frame above it has
loops.  A stop charges each entry of the stack, so that two entries of one id
would charge twice; `OccursOnce` excludes that, from `LoopIdsDiffer`.  Outside of all
loops nothing is owed: `TotalsExact`.  Where programs have loops in two functions
the ids clash, and the supposition is needed (6).

For the counters per operation, `CompileStep` follows an operation through the
passes: the first that tracks it puts its counter and the mark stops the ones after
(`CounterOf`), so that `Bumped` is one call or none (`BumpedIs`); the sum in
`DynamicExact` then grows by one with the counter (`SumOneMore`).  `ReportInv` adds
that the printer is registered exactly when something reached the runtime, that
every total is of a loop's id, and that what was printed is the totals of the end;
`RankedAscends` puts its lines in order.

**Hardware.**  The controller stays inside the text (`ControlInv`).  The sum of the
change-location counters is that of a function with one number more than before,
reduced to the width: `SumUpdate`, from the recursion behind `SumFunction`
(`SumIs`, `SumInAnyOrder`), and `ModShift`.  `DotInv` says state by state what the vector module
has asked of the memory, which answer is on the wires, and that `acc` is the
product of the first `idx` elements, cut to the word (`Multiplies`); outside its
calls the module rests and the memory has no answer left over.  That the scalar
is clear when a call starts is `ClearsFirst` of the text, evaluated by TLC on the
kernels of the run.  `PowersAssumption` (powers of two are positive) is a fact the
provers lack.

The other four rest on three facts.  A call is a handshake (`ShakeInv`): a module's
`done` register is up only in the cycles the controller waits for it, and what it
latched is of that call.  A step appends at most one line to the log, and which one
follows from the call (`OneLine` and the lemmas under "What is displayed").  The
domain of the induction variables is the set of loops around the controller, each
variable between its bounds (`IvsInv`), which needs that regions nest: two loops
around one position are one in the other, and the loop a position is left through
is the innermost (the lemmas under "Loop texts" in `DataLemmas`, from `Depth`).
`AssertInv` then ties the assertions in the log to the bodies entered, with one
still to come while the controller is in the calls that start a body.  `ReportInv`
says of each module that before the report call nothing final is in the log and
after it the lines of one report, next to each other and in order.  The loop
counters do not move any more after their report (`ReportsAtEnd`), so it shows them as they
stand; the locations' do, in the active one, and their report adds up to the cycles
up to its own call (`asked`).  For the loop counters
`WindowInv` is the key: a loop's `running` bit is up exactly while the controller is
between the loop's start call and its stop call, in the whole text and not only in
the loop's own turn; `CountInv` then counts calls on both sides.  `Settled` adds that
the last line the log has of a location is the counter's value whenever no
call of it is in flight, so that the collector, which keeps the last line, reads
the counter (`CollectInv`).  These hold of kernels no two of whose loop ids the
width merges (`NoneMerged`), as the two properties say.  What the passes leave is
supposed and not proved: `Instrument` folds over the plan and flattens sequences, by
operators the provers see nothing of; TLC evaluates it,
with the assumptions of `MCHwKernel`.

**What stays with TLC.**  Liveness under fairness (`OffloadReturns`, `Completes`,
`Returns`), and with it `ENABLED`.  Weak fairness per stage in `DataflowStreams`
stands for hardware modules that each have their own control: a stage whose next
access is possible makes it.  `DataflowTasks`, which is recursive.  `BundlesAgree`
and `ChannelsLive`: the first compares names through `Callees` and
`SelectSeq`, which the provers see nothing of; the second orders constructions, uses and
destructions within a `FlattenSeq`, where only membership is proved.
The library's induction theorems take an operator and cannot
be instantiated; `DataLemmas` has induction over the naturals in set form
(`NaturalsBySet`), from which the recursive functions used here are treated one
by one.

## 6. Where the code and its documents disagree

Shown by a run:

- `store_same_second`: `_timestamp` and `mkdir(exist_ok=True)` are not atomic,
  against "ensuring uniqueness within the same second" (`init.py:154-155`).
- `dataflow_reread`: the order test ignores loops that do not index the buffer
  (`Utils.cpp:83-88`), so a consumer that reads a row again is converted, against
  `Utils.h:30-31` and the negative test's first lines.
- `bambu_shared_array`: an array the top allocates for two stages has no name of
  its own (`EmitBambuArchitecture.cpp:298`), and each stage invents a bundle,
  against the comment at 292-294.

Met while modelling, noted with the hazards, and kept out of the passing runs by
their inputs or by what the properties suppose:

- The device handle survives a refused allocation (`EspRuntime.cpp:131`), against
  the comment at 70-71; the calls that follow start the device over whatever table
  it last had.
- The capacity of `fitsInBuffer` is the rounded one (`EspRuntime.cpp:106`): batch 2
  of a small shape is not caught, against 101-103.
- An explicit name still in `registry.py` is not refused when its symlink is gone
  (`init.py:135`), against `README.md:82-83`.
- A stage that only pops a channel becomes a node without outputs and is erased
  (`Dataflow.cpp:228`), against `TasksToNodes.cpp:49-51`; the optional result of
  `stream_read` exists for that use.
- Canonicalizing between tasks-to-nodes and nodes-to-func inlines a dispatch full
  of nodes (`Dataflow.cpp:164`), against `canonicalize.mlir:45-46`.
- Loops of two functions share ids and totals (`InstrPasses.cpp:242`), against
  `DynamicOpCounterRuntime.h:34`.
- By the post-order walk the innermost loop is location 0
  (`InstrPasses.cpp:210`), which `SODAPPasses.td:129-131` calls the outermost
  scope; nothing switches back when a loop is left.
- While the vector module's result is stored, its always block and
  `my_result_store` drive the same ports (`sodaVectorDot.v:159-161`, `103-106`),
  against lines 14-18; and it takes products of floats as integers, which lines
  20-27 announce.
- `sodaInstrHWCounters` increments once per call while a loop runs (`start_port`,
  line 99), not once per cycle, and its "print on every stop" prints on starts too.
- `collect.py` reads none of the "FINAL" lines: with `PRINT_ON_STOP = 0`, and for
  the change-location recipe, no counter is collected.

## 7. What is not modelled

- Q16.16 rounding and saturation of the ESP copies, the UART messages, the mock
  runtime (it computes nothing).
- A `fork` whose source was given as a bare path, the text of the generated files, bytecode caching of
  `registry.py`.
- Affine index expressions other than sums of induction variables; imperfect
  bands; functions of which only some buffers are converted.
- Tracked operations in an `scf.if` of a loop, which the loop totals count nowhere
  (`InstrPasses.cpp:105`): the programs of `op_counters` have none.
- Tasks: two dispatches in one function, nested ones included (their outlined functions would share
  names), writes through a call in a task, an allocation in a loop with a
  deallocation or a dynamic size of its own.
- Bambu: payload bitcasts, the object layout Clang answers, `size_in_bytes` beyond
  32 bits, channels declared in a loop, the passes of MLIR that follow.
- Hardware: floating-point arithmetic, negative loop bounds (the assertion compares unsigned), the byte
  addresses of the vector module, the software stubs of the recipes.
- Collection: resource figures, file counts, the driver, `metrics.json` itself.
- The build pipeline and the run-time C helpers: make's own rules over the files of
  tools that are not here, and a strided copy whose correctness is MLIR's layout.
- Experiment configuration, catalog, analysis and view passes, benchmark kernels:
  look-ups, printing and numerical code without state.
- The agentic workflow: its steps are an agent's decisions.
