----------------------------- MODULE EspOffload -----------------------------
(***************************************************************************)
(* A compiled kernel whose linalg.batch_matmul operations the pass         *)
(* sodap-linalg-batch-matmul-to-esp (ESPPasses.cpp) replaced by calls of   *)
(* the ESP runtime, running beside the accelerator.  The kernel's thread   *)
(* makes the calls in the order replaceBatchMatmul emits them; the         *)
(* accelerator and the cache's evictions interleave with it.               *)
(***************************************************************************)
EXTENDS EspRuntime

CONSTANT Shapes   \* the batch_matmul operations of the kernel

szIn(s) == s.M * s.K
szW(s)  == s.K * s.N
szO(s)  == s.M * s.N
offIn(s) == 0
offW(s)  == szIn(s)
offO(s)  == offW(s) + szW(s)
totalElems(s) == offO(s) + szO(s)
totalBytes(s) == totalElems(s) * TokenBytes

\* The arguments of esp_accel_cfg_regs: no bias, so b is the output's offset.
Config(s) == [M |-> s.M, K |-> s.K, N |-> s.N,
              i |-> offIn(s), w |-> offW(s), b |-> offO(s), o |-> offO(s)]

\* The layout must fit the unsigned that esp_alloc_shared keeps it in.
ASSUME ShapesAssumption ==
  \A s \in Shapes :
    /\ s \in [M : Nat \ {0}, K : Nat \ {0}, N : Nat \ {0}, batch : Nat \ {0}]
    /\ totalBytes(s) < UMod

VARIABLES
  pc,   \* the next call of the kernel's thread
  op,   \* the shape of the operation under way, or of the last one
  c     \* what C holds: what it held before, the product, or neither

kernelVars == <<pc, op, c>>
vars == <<espVars, kernelVars>>

Goto(from, to) == pc = from /\ pc' = to /\ UNCHANGED op

Init ==
  /\ EspInit
  /\ pc = "idle" /\ op \in Shapes /\ c = "old"

\* Control reaches a replaced batch_matmul.
Begin(s) ==
  /\ pc = "idle" /\ pc' = "alloc" /\ op' = s /\ c' = "old"
  /\ UNCHANGED espVars

Alloc == Goto("alloc", "copyA") /\ esp_alloc_shared(totalBytes(op)) /\ UNCHANGED c

CopyA ==
  /\ Goto("copyA", "copyB")
  /\ esp_float2fixed_f32("A", op.batch * szIn(op), offIn(op))
  /\ UNCHANGED c

CopyB ==
  /\ Goto("copyB", "cfg")
  /\ esp_float2fixed_f32("B", op.batch * szW(op), offW(op))
  /\ UNCHANGED c

CfgRegs == Goto("cfg", "start") /\ esp_accel_cfg_regs(Config(op)) /\ UNCHANGED c

Start == Goto("start", "wait") /\ esp_accel_start /\ UNCHANGED c

Wait == Goto("wait", "copyC") /\ esp_accel_wait /\ UNCHANGED c

CopyC ==
  /\ Goto("copyC", "free")
  /\ LET n == op.batch * szO(op)
     IN  c' = IF ~ CopiesOut(offO(op), n) THEN c
              ELSE IF CopiedTags(offO(op), n) = [i \in 0 .. n - 1 |-> Tag("P", i)]
                THEN "product" ELSE "wrong"
  /\ UNCHANGED espVars

Free == Goto("free", "idle") /\ esp_free_shared /\ UNCHANGED c

Kernel ==
  \/ \E s \in Shapes : Begin(s)
  \/ Alloc \/ CopyA \/ CopyB \/ CfgRegs \/ Start \/ Wait \/ CopyC \/ Free

Hardware ==
  /\ Accelerate \/ \E l \in lines : Evict(l)
  /\ UNCHANGED kernelVars

Next == Kernel \/ Hardware

Calls == Alloc \/ CopyA \/ CopyB \/ CfgRegs \/ Start \/ Wait \/ CopyC \/ Free

Spec == Init /\ [][Next]_vars

\* The processor runs the straight-line call sequence; the accelerator, once
\* started over a good page table, raises "done".
FairSpec == Spec /\ WF_vars(Calls) /\ WF_vars(Accelerate /\ UNCHANGED kernelVars)

-----------------------------------------------------------------------------
TagType == [k : {"zero", "junk", "A", "B", "P"}, i : Nat]

TypeOK ==
  /\ soc \in SocType
  /\ dev \in BOOLEAN /\ live \in BOOLEAN /\ needFlush \in BOOLEAN
  /\ memSize \in Nat /\ nchunkReg \in Nat
  /\ regs \in [M : Nat, K : Nat, N : Nat, i : Nat, w : Nat, b : Nat, o : Nat]
  /\ ptReg \in {"none", "live", "freed", "null"}
  /\ status \in {"idle", "running", "done", "hung"}
  /\ dram \in [Cells -> TagType] /\ cpu \in [Cells -> TagType]
  /\ lines \subseteq Int
  /\ pc \in {"idle", "alloc", "copyA", "copyB", "cfg", "start", "wait", "copyC", "free"}
  /\ op \in Shapes
  /\ c \in {"old", "product", "wrong"}

\* While the accelerator runs over a live buffer, every word it reads or writes
\* is inside the buffer, its results never land on an operand it still reads,
\* and the page table it walks has an entry for every byte of the buffer.
SafeDMA ==
  (status = "running" /\ live) =>
    /\ Touched \subseteq Cells
    /\ OutWords \cap (InWords \cup WgtWords) = {}
    /\ memSize <= nchunkReg * ChunkSize

\* From start to done the processor leaves the accelerator alone: it reprograms
\* no register, and neither frees nor reallocates the buffer under the DMA.
QuietWhileRunning ==
  [][status = "running" => UNCHANGED <<regs, ptReg, nchunkReg, dev, live, memSize>>]_vars

\* The inductive strengthening of SafeDMA: a live buffer is the one allocated
\* for the operation under way, the device only runs inside esp_accel_wait, and
\* from the configuration on the registers describe that operation.
LiveInv ==
  live => /\ dev /\ pc \notin {"idle", "alloc"}
          /\ memSize = RoundedSize(totalBytes(op))
          /\ nchunkReg = nchunk(memSize)
RunInv  == status = "running" => pc = "wait" /\ dev
RegsInv == live /\ pc \in {"start", "wait"} => regs = Config(op)
IInv == TypeOK /\ LiveInv /\ RunInv /\ RegsInv

\* The inductive strengthening of ImplementsOffload: what the processor reads of
\* the live buffer at each point of the call sequence, and what the accelerator
\* finds in memory once it runs.
Operand(i) ==
  IF i < offW(op) THEN Tag("A", i)
  ELSE IF i < offO(op) THEN Tag("B", i - offW(op)) ELSE Zero
Filled(n) == [i \in Cells |-> IF i < n THEN Operand(i) ELSE Zero]
OperandsInv ==
  live => /\ pc = "copyA" => View = Filled(0)
          /\ pc = "copyB" => View = Filled(offW(op))
          /\ pc \in {"cfg", "start"} => View = Filled(offO(op))
          /\ pc = "wait" /\ status = "running" => lines = {} /\ dram = Filled(offO(op))
ProductInv ==
  live /\ (pc = "copyC" \/ (pc = "wait" /\ status = "done")) =>
    \A j \in 0 .. szO(op) - 1 : View[offO(op) + j] = Tag("P", j)
DeviceInv ==
  /\ live => /\ ptReg = "live" /\ needFlush = soc.caches
             /\ pc = "wait" => status \in {"running", "done"}
  /\ ~ soc.caches => lines = {}
OutcomeInv ==
  /\ pc = "alloc" => c = "old"
  /\ live => c = IF pc = "free" THEN "product" ELSE "old"
DataInv == OperandsInv /\ ProductInv /\ DeviceInv /\ OutcomeInv

\* With batch 1 the offload is a batch_matmul: C becomes the product once when
\* the buffer was granted and is left alone when it was not.
phase ==
  IF pc = "idle" THEN "idle"
  ELSE IF pc = "alloc" THEN "asked"
  ELSE IF live THEN "granted" ELSE "refused"
Abstract == INSTANCE MatmulOffload WITH phase <- phase, c <- c
ImplementsOffload == Abstract!Spec

\* On a chip whose TLB holds every buffer of the kernel, or that has no FFN tile
\* at all, every offloaded operation returns: the polling loop always ends.
TlbSuffices ==
  ~ soc.ffn \/ \A s \in Shapes : soc.tlb >= nchunk(RoundedSize(totalBytes(s)))
OffloadReturns == TlbSuffices => (pc # "idle" ~> pc = "idle")
=============================================================================
