-------------------------- MODULE EspOffload_proofs --------------------------
(***************************************************************************)
(* For every set of shapes that fit an unsigned, every TLB size and        *)
(* whether or not allocations fail: the accelerator of EspOffload never    *)
(* leaves the live buffer (SafeDMA), and the processor leaves it alone     *)
(* while it runs (QuietWhileRunning).  For batches of 1 and an allocator   *)
(* that does not fail, the offload implements MatmulOffload.               *)
(***************************************************************************)
EXTENDS EspOffload, TLAPS

-----------------------------------------------------------------------------
(* Arithmetic of the layout.                                               *)

\* A product of two positive sizes is a positive size no smaller than either:
\* what the nonlinear layout of replaceBatchMatmul needs.
LEMMA ProductOfNats ==
  ASSUME NEW m \in Nat \ {0}, NEW n \in Nat \ {0}
  PROVE  /\ m * n \in Nat /\ m * n > 0
         /\ m <= m * n /\ n <= m * n
OBVIOUS

\* The offsets replaceBatchMatmul computes lay the three operands out one after
\* the other, and the whole layout fits the unsigned of esp_alloc_shared.
LEMMA ShapeLayout ==
  ASSUME NEW s \in Shapes
  PROVE  /\ s.M \in Nat /\ s.K \in Nat /\ s.N \in Nat /\ s.batch \in Nat
         /\ s.M < UMod /\ s.K < UMod /\ s.N < UMod
         /\ szIn(s) \in Nat /\ szW(s) \in Nat /\ szO(s) \in Nat
         /\ s.N <= szO(s)
         /\ offIn(s) = 0 /\ offW(s) = szIn(s) /\ offO(s) = szIn(s) + szW(s)
         /\ offW(s) < UMod /\ offO(s) < UMod
         /\ totalBytes(s) = 4 * (szIn(s) + szW(s) + szO(s))
         /\ totalBytes(s) \in Nat /\ totalBytes(s) < UMod
<1> USE ConstantsAssumption, ShapesAssumption
<1>1. /\ s.M \in Nat \ {0} /\ s.K \in Nat \ {0} /\ s.N \in Nat \ {0}
      /\ s.batch \in Nat \ {0}
      /\ totalBytes(s) < UMod
  OBVIOUS
<1>2. /\ szIn(s) \in Nat /\ szIn(s) >= s.M /\ szIn(s) >= s.K
      /\ szW(s) \in Nat /\ szW(s) >= s.N
      /\ szO(s) \in Nat /\ szO(s) >= s.N
  BY <1>1, ProductOfNats DEF szIn, szW, szO
<1>3. /\ offIn(s) = 0 /\ offW(s) = szIn(s) /\ offO(s) = szIn(s) + szW(s)
      /\ totalBytes(s) = 4 * (szIn(s) + szW(s) + szO(s))
  BY <1>2 DEF offIn, offW, offO, totalElems, totalBytes, TokenBytes
<1>4. QED
  BY <1>1, <1>2, <1>3

\* A request below 2^32 bytes is never rounded down by esp_alloc_shared, and the
\* buffer is at least one chunk.
LEMMA RoundedSizeCovers ==
  ASSUME NEW n \in Nat, n < UMod
  PROVE  /\ RoundedSize(n) \in Nat
         /\ n <= RoundedSize(n)
         /\ ChunkSize <= RoundedSize(n)
BY ConstantsAssumption DEF RoundedSize, UInt

\* nchunk page-table entries cover every byte of the buffer.
LEMMA ChunksCover ==
  ASSUME NEW n \in Nat
  PROVE  nchunk(n) \in Nat /\ n <= nchunk(n) * ChunkSize
BY ConstantsAssumption DEF nchunk

\* The cast to unsigned in esp_accel_cfg_regs changes none of the seven arguments
\* the pass computes.
LEMMA ConfigUnchangedByCast ==
  ASSUME NEW s \in Shapes
  PROVE  /\ Config(s) \in [M : Nat, K : Nat, N : Nat, i : Nat, w : Nat, b : Nat, o : Nat]
         /\ [f \in DOMAIN Config(s) |-> UInt(Config(s)[f])] = Config(s)
<1> DEFINE g == Config(s)
<1>1. /\ s.M \in Nat /\ s.K \in Nat /\ s.N \in Nat
      /\ offIn(s) \in Nat /\ offW(s) \in Nat /\ offO(s) \in Nat
      /\ s.M < UMod /\ s.K < UMod /\ s.N < UMod
      /\ offIn(s) < UMod /\ offW(s) < UMod /\ offO(s) < UMod
  BY ShapeLayout, ConstantsAssumption
<1>2. \A n \in Nat : n < UMod => UInt(n) = n
  BY ConstantsAssumption DEF UInt
<1>3. \A f \in DOMAIN Config(s) : UInt(Config(s)[f]) = Config(s)[f]
  BY <1>1, <1>2 DEF Config
<1>4. Config(s) \in [M : Nat, K : Nat, N : Nat, i : Nat, w : Nat, b : Nat, o : Nat]
  BY <1>1 DEF Config
<1>5. [f \in DOMAIN Config(s) |-> UInt(Config(s)[f])] = [f \in DOMAIN Config(s) |-> Config(s)[f]]
  BY <1>3
<1>6. [f \in DOMAIN Config(s) |-> Config(s)[f]] = Config(s)
  BY DEF Config
<1>7. QED
  BY <1>4, <1>5, <1>6

-----------------------------------------------------------------------------
(* Type correctness.                                                       *)

\* A tag built from a known kind and a natural index is a tag.
LEMMA TagsTyped ==
  ASSUME NEW k \in {"zero", "junk", "A", "B", "P"}, NEW i \in Nat
  PROVE  Tag(k, i) \in TagType
BY DEF Tag, TagType

\* The initial state of g_state and of the device has the expected types.
LEMMA InitTyped == Init => TypeOK
<1> SUFFICES ASSUME Init PROVE TypeOK
  OBVIOUS
<1>1. Cells = {}
  BY DEF Init, EspInit, Cells, Capacity, TokenBytes
<1>2. NoMemory \in [Cells -> TagType]
  BY <1>1 DEF NoMemory
<1>3. NoRegs \in [M : Nat, K : Nat, N : Nat, i : Nat, w : Nat, b : Nat, o : Nat]
  BY DEF NoRegs
<1>4. QED
  BY <1>2, <1>3 DEF Init, EspInit, TypeOK

\* What the processor loads from the buffer is a tag for every token of it.
LEMMA ViewTyped == TypeOK => View \in [Cells -> TagType]
BY DEF TypeOK, View

\* Every call of the runtime, every device step and every eviction keeps the
\* types, the sizes of the two images of the buffer included.
LEMMA StepTyped == TypeOK /\ [Next]_vars => TypeOK'
<1> SUFFICES ASSUME TypeOK, [Next]_vars PROVE TypeOK'
  OBVIOUS
<1> USE DEF TypeOK, Goto
<1>1. ASSUME NEW s \in Shapes, Begin(s) PROVE TypeOK'
  BY <1>1 DEF Begin, espVars, gstate, device, memory, Cells, Capacity
<1>2. CASE Alloc
  <2>1. CASE AllocRefused(totalBytes(op))
    BY <1>2, <2>1 DEF Alloc, AllocRefused, gstate, device, memory, Cells, Capacity
  <2>2. CASE AllocDone(totalBytes(op))
    <3>1. memSize' \in Nat
      BY <2>2, ShapeLayout, RoundedSizeCovers DEF AllocDone, Establish
    <3>2. nchunkReg' \in Nat
      BY <2>2, <3>1, ChunksCover DEF AllocDone, Establish
    <3>3. Zero \in TagType /\ Junk \in TagType
      BY TagsTyped DEF Zero, Junk
    <3>4. dram' \in [Cells' -> TagType] /\ cpu' \in [Cells' -> TagType]
      BY <2>2, <3>3 DEF AllocDone, Establish, Cells, Capacity
    <3>5. lines' \subseteq Int
      <4>1. \A i \in Cells' : LineOf(i) \in Int
        BY <3>1, ConstantsAssumption DEF LineOf, Cells, Capacity, TokenBytes
      <4>2. Establish(totalBytes(op))
        BY <2>2 DEF AllocDone
      <4>3. CASE soc.caches
        <5>1. lines' = {LineOf(i) : i \in Cells'} \cup {PtLine}
          BY <4>2, <4>3 DEF Establish, Cells, Capacity
        <5>2. PtLine \in Int
          BY DEF PtLine
        <5>3. QED
          BY <4>1, <5>1, <5>2
      <4>4. CASE ~ soc.caches
        BY <4>2, <4>4 DEF Establish
      <4>5. QED
        BY <4>3, <4>4
    <3>6. /\ dev' \in BOOLEAN /\ live' \in BOOLEAN /\ needFlush' \in BOOLEAN
          /\ ptReg' \in {"live", "null"}
          /\ UNCHANGED <<soc, regs, status>>
      BY <2>2 DEF AllocDone, Establish, SocType
    <3>7. pc' = "copyA" /\ UNCHANGED <<op, c>>
      BY <1>2 DEF Alloc
    <3>8. QED
      BY <3>1, <3>2, <3>4, <3>5, <3>6, <3>7
  <2>3. QED
    BY <1>2, <2>1, <2>2 DEF Alloc, esp_alloc_shared
<1>3. ASSUME NEW k \in {"A", "B"}, NEW n \in Nat, NEW o \in Nat,
             esp_float2fixed_f32(k, n, o), pc' \in {"copyB", "cfg"}, UNCHANGED <<op, c>>
      PROVE  TypeOK'
  <2>1. CASE live /\ FitsInBuffer(o, n)
    <3> DEFINE S == o .. o + n - 1
               f == [i \in Cells |-> IF i \in S THEN Tag(k, i - o) ELSE View[i]]
    <3>1. f \in [Cells -> TagType]
      BY ViewTyped, TagsTyped
    <3>2. \A i \in S : LineOf(i) \in Int
      BY ConstantsAssumption DEF LineOf, TokenBytes
    <3>3. Store(f, S) /\ UNCHANGED <<soc, gstate, device>>
      BY <1>3, <2>1 DEF esp_float2fixed_f32
    <3>4. Cells' = Cells
      BY <3>3 DEF gstate, Cells, Capacity
    <3> HIDE DEF f, S
    <3>5. dram' \in [Cells -> TagType] /\ cpu' \in [Cells -> TagType] /\ lines' \subseteq Int
      <4>1. CASE soc.caches
        <5>1. lines' = lines \cup {LineOf(i) : i \in S}
          BY <3>3, <4>1 DEF Store
        <5>2. lines' \subseteq Int
          BY <3>2, <5>1
        <5>3. QED
          BY <3>1, <3>3, <4>1, <5>2 DEF Store
      <4>2. CASE ~ soc.caches
        BY <3>1, <3>3, <4>2 DEF Store
      <4>3. QED
        BY <4>1, <4>2
    <3>6. QED
      BY <1>3, <3>3, <3>4, <3>5 DEF gstate, device
  <2>2. CASE ~ (live /\ FitsInBuffer(o, n))
    BY <1>3, <2>2 DEF esp_float2fixed_f32, espVars, gstate, device, memory, Cells, Capacity
  <2>3. QED
    BY <2>1, <2>2
<1>4. CASE CopyA
  <2>1. op.batch * szIn(op) \in Nat /\ offIn(op) \in Nat
    BY ShapeLayout
  <2>2. QED
    BY <1>3, <1>4, <2>1 DEF CopyA
<1>5. CASE CopyB
  <2>1. op.batch * szW(op) \in Nat /\ offW(op) \in Nat
    BY ShapeLayout
  <2>2. QED
    BY <1>3, <1>5, <2>1 DEF CopyB
<1>6. CASE CfgRegs
  BY <1>6, ConfigUnchangedByCast
     DEF CfgRegs, esp_accel_cfg_regs, espVars, gstate, device, memory, Cells, Capacity
<1>7. CASE Start
  BY <1>7, ViewTyped DEF Start, esp_accel_start, espVars, gstate, device, memory, Cells, Capacity
<1>8. CASE Wait
  BY <1>8 DEF Wait, esp_accel_wait, espVars, gstate, device, memory, Cells, Capacity
<1>9. CASE CopyC
  BY <1>9 DEF CopyC, espVars, gstate, device, memory, Cells, Capacity
<1>10. CASE Free
  <2>1. CASE live
    <3>1. Cells' = {} /\ memSize' = 0
      BY <1>10, <2>1 DEF Free, esp_free_shared, Cells, Capacity, TokenBytes
    <3>2. NoMemory \in [Cells' -> TagType]
      BY <3>1 DEF NoMemory
    <3>3. QED
      BY <1>10, <2>1, <3>1, <3>2 DEF Free, esp_free_shared
  <2>2. CASE ~ live
    BY <1>10, <2>2 DEF Free, esp_free_shared, espVars, gstate, device, memory, Cells, Capacity
  <2>3. QED
    BY <2>1, <2>2
<1>11. CASE Compute /\ UNCHANGED kernelVars
  <2>1. \A i \in OutWords : Computed(i - regs.o) \in TagType
    BY TagsTyped DEF OutWords, Computed, Junk
  <2>2. dram' \in [Cells -> TagType]
    BY <1>11, <2>1 DEF Compute
  <2>3. QED
    BY <1>11, <2>2 DEF Compute, kernelVars, gstate, Cells, Capacity
<1>12. CASE Stray /\ UNCHANGED kernelVars
  BY <1>12 DEF Stray, kernelVars, gstate, memory, Cells, Capacity
<1>13. ASSUME NEW l \in lines, Evict(l), UNCHANGED kernelVars PROVE TypeOK'
  BY <1>13 DEF Evict, kernelVars, gstate, device, Cells, Capacity
<1>14. CASE UNCHANGED vars
  BY <1>14 DEF vars, kernelVars, espVars, gstate, device, memory, Cells, Capacity
<1>15. QED
  BY <1>1, <1>2, <1>4, <1>5, <1>6, <1>7, <1>8, <1>9, <1>10, <1>11, <1>12, <1>13, <1>14
     DEF Next, Kernel, Hardware, Accelerate

\* Every state of the offload is of the expected type, the buffer's two images
\* included: they always have exactly as many tokens as memSize says.
THEOREM TypeCorrect == Spec => []TypeOK
BY InitTyped, StepTyped, PTL DEF Spec

-----------------------------------------------------------------------------
(* The inductive invariant.  SafeDMA is not inductive: that the registers  *)
(* name regions of the live buffer follows from their naming the operation *)
(* under way (RegsInv), which the buffer was sized for (LiveInv), and both *)
(* survive because nothing is called while the device runs (RunInv).       *)

Strengthening == LiveInv /\ RunInv /\ RegsInv

\* Before the first call no buffer is live and nothing runs.
LEMMA InitStrengthening == Init => Strengthening
BY DEF Init, EspInit, Strengthening, LiveInv, RunInv, RegsInv

\* Every step keeps the relation between the operation under way, the live buffer
\* and the registers.
LEMMA StepStrengthening ==
  TypeOK /\ Strengthening /\ [Next]_vars => Strengthening'
<1> SUFFICES ASSUME TypeOK, Strengthening, [Next]_vars PROVE Strengthening'
  OBVIOUS
<1> USE DEF Strengthening, LiveInv, RunInv, RegsInv, Goto
<1>1. ASSUME NEW s \in Shapes, Begin(s) PROVE Strengthening'
  BY <1>1 DEF Begin, espVars, gstate, device
<1>2. CASE Alloc
  <2>1. CASE AllocRefused(totalBytes(op))
    BY <1>2, <2>1 DEF Alloc, AllocRefused, gstate, device
  <2>2. CASE AllocDone(totalBytes(op))
    BY <1>2, <2>2 DEF Alloc, AllocDone, Establish
  <2>3. QED
    BY <1>2, <2>1, <2>2 DEF Alloc, esp_alloc_shared
<1>3. ASSUME CopyA \/ CopyB, UNCHANGED <<gstate, device>> PROVE Strengthening'
  BY <1>3 DEF CopyA, CopyB, gstate, device
<1>4. CASE CopyA
  BY <1>3, <1>4 DEF CopyA, esp_float2fixed_f32, espVars, device
<1>5. CASE CopyB
  BY <1>3, <1>5 DEF CopyB, esp_float2fixed_f32, espVars, device
<1>6. CASE CfgRegs
  <2>1. dev => regs' = Config(op)
    BY <1>6, ConfigUnchangedByCast DEF CfgRegs, esp_accel_cfg_regs, TypeOK
  <2>2. UNCHANGED <<gstate, nchunkReg, status, op>> /\ pc = "cfg" /\ pc' = "start"
    BY <1>6 DEF CfgRegs, esp_accel_cfg_regs, espVars, device
  <2>3. Config(op)' = Config(op)
    BY <2>2
  <2>4. QED
    BY <2>1, <2>2, <2>3 DEF gstate
<1>7. CASE Start
  BY <1>7 DEF Start, esp_accel_start, espVars, gstate, device
<1>8. CASE Wait
  BY <1>8 DEF Wait, esp_accel_wait, espVars, gstate, device
<1>9. CASE CopyC
  BY <1>9 DEF CopyC, espVars, gstate, device
<1>10. CASE Free
  BY <1>10 DEF Free, esp_free_shared, espVars, gstate, device
<1>11. CASE Accelerate /\ UNCHANGED kernelVars
  BY <1>11 DEF Accelerate, Compute, Stray, kernelVars, gstate
<1>12. ASSUME NEW l \in lines, Evict(l), UNCHANGED kernelVars PROVE Strengthening'
  BY <1>12 DEF Evict, kernelVars, gstate, device
<1>13. CASE UNCHANGED vars
  BY <1>13 DEF vars, kernelVars, espVars, gstate, device
<1>14. QED
  BY <1>1, <1>2, <1>4, <1>5, <1>6, <1>7, <1>8, <1>9, <1>10, <1>11, <1>12, <1>13
     DEF Next, Kernel, Hardware

\* The strengthened invariant holds in every reachable state.
THEOREM Inductive == Spec => []IInv
<1>1. Init => TypeOK /\ Strengthening
  BY InitTyped, InitStrengthening
<1>2. TypeOK /\ Strengthening /\ [Next]_vars => (TypeOK /\ Strengthening)'
  BY StepTyped, StepStrengthening
<1>3. TypeOK /\ Strengthening => IInv
  BY DEF IInv, Strengthening
<1>4. QED
  BY <1>1, <1>2, <1>3, PTL DEF Spec

\* The strengthening is strong enough: a running accelerator's windows are the
\* layout of the operation, which lies inside the buffer with the output apart.
LEMMA LayoutInBuffer == IInv => SafeDMA
<1> SUFFICES ASSUME IInv, status = "running", live
             PROVE  /\ Touched \subseteq Cells
                    /\ OutWords \cap (InWords \cup WgtWords) = {}
                    /\ memSize <= nchunkReg * ChunkSize
  BY DEF SafeDMA
<1> DEFINE i == szIn(op)
           w == szW(op)
           o == szO(op)
<1>1. op \in Shapes /\ memSize \in Nat
  BY DEF IInv, TypeOK
<1>2. /\ regs = Config(op)
      /\ memSize = RoundedSize(totalBytes(op))
      /\ nchunkReg = nchunk(memSize)
  BY DEF IInv, LiveInv, RunInv, RegsInv
<1>3. /\ i \in Nat /\ w \in Nat /\ o \in Nat /\ op.N \in Nat /\ op.N <= o
      /\ 4 * (i + w + o) <= memSize
  BY <1>1, <1>2, ShapeLayout, RoundedSizeCovers
<1>4. /\ InWords   = 0 .. i - 1
      /\ WgtWords  = i .. i + w - 1
      /\ BiasWords = i + w .. i + w + op.N - 1
      /\ OutWords  = i + w .. i + w + o - 1
  <2>1. /\ regs.M * regs.K = i /\ regs.K * regs.N = w /\ regs.M * regs.N = o
        /\ regs.N = op.N
    BY <1>2 DEF Config, szIn, szW, szO
  <2>2. regs.i = 0 /\ regs.w = i /\ regs.b = i + w /\ regs.o = i + w
    BY <1>1, <1>2, ShapeLayout DEF Config
  <2> HIDE DEF i, w, o
  <2>3. QED
    BY <1>3, <2>1, <2>2 DEF InWords, WgtWords, BiasWords, OutWords
<1> HIDE DEF i, w, o
<1>5. Cells = 0 .. (memSize \div 4) - 1 /\ i + w + o <= memSize \div 4
  BY <1>1, <1>3 DEF Cells, Capacity, TokenBytes
<1>6. Touched \subseteq Cells
  BY <1>1, <1>3, <1>4, <1>5 DEF Touched
<1>7. OutWords \cap (InWords \cup WgtWords) = {}
  BY <1>3, <1>4
<1>8. memSize <= nchunkReg * ChunkSize
  BY <1>1, <1>2, ChunksCover
<1>9. QED
  BY <1>6, <1>7, <1>8

\* The accelerator never reads or writes outside the buffer that is live while
\* it runs, whatever the kernel's shapes and however large the chip's TLB is.
THEOREM AcceleratorStaysInBuffer == Spec => []SafeDMA
BY Inductive, LayoutInBuffer, PTL

\* Between start and done the processor reprograms nothing and frees nothing.
THEOREM ProcessorWaits == Spec => QuietWhileRunning
<1> DEFINE Quiet == status = "running" =>
                      UNCHANGED <<regs, ptReg, nchunkReg, dev, live, memSize>>
<1>1. IInv /\ [Next]_vars => [Quiet]_vars
  <2> SUFFICES ASSUME IInv, Next, status = "running"
               PROVE  UNCHANGED <<regs, ptReg, nchunkReg, dev, live, memSize>>
    OBVIOUS
  <2>1. pc = "wait" /\ dev
    BY DEF IInv, RunInv
  <2>2. ~ Kernel
    BY <2>1 DEF Kernel, Begin, Alloc, CopyA, CopyB, CfgRegs, Start, Wait, CopyC, Free,
                Goto, esp_accel_wait
  <2>3. QED
    BY <2>2 DEF Next, Hardware, Accelerate, Compute, Stray, Evict, gstate, device
<1>2. QED
  BY <1>1, Inductive, PTL DEF Spec, QuietWhileRunning
-----------------------------------------------------------------------------
(* The refinement.  That C becomes the product is a fact about every word  *)
(* of the buffer as two agents see it: what the processor reads (View) may *)
(* be in its cache or in memory, and the accelerator reads memory alone.   *)
(* DataInv follows the words from the copies through the flush and the     *)
(* product back to C.                                                      *)

\* A dirty line written back changes what is in memory and nothing the processor
\* reads.
LEMMA EvictKeepsView ==
  ASSUME TypeOK, NEW l \in lines, Evict(l)
  PROVE  View' = View
BY DEF TypeOK, Evict, View, gstate, Cells, Capacity

\* After a store of f the processor reads f, whether or not the chip has caches
\* and whichever lines were dirty already.
LEMMA StoreThenView ==
  ASSUME NEW f, NEW S, TypeOK, DeviceInv, Store(f, S), UNCHANGED gstate, S \subseteq Cells,
         f \in [Cells -> TagType], \A i \in Cells \ S : f[i] = View[i]
  PROVE  View' = f
<1>1. Cells' = Cells
  BY DEF gstate, Cells, Capacity
<1>2. CASE soc.caches
  <2>1. \A i \in Cells : (IF LineOf(i) \in lines' THEN cpu'[i] ELSE dram'[i]) = f[i]
    BY <1>2 DEF Store, View
  <2>2. QED
    BY <1>1, <2>1 DEF View
<1>3. CASE ~ soc.caches
  BY <1>1, <1>3 DEF Store, View, DeviceInv
<1>4. QED
  BY <1>2, <1>3

\* A fresh buffer reads as zeroes: the constructor's loop writes every token.
LEMMA AllocatedIsZero ==
  ASSUME NEW n, Establish(n)
  PROVE  View' = [i \in Cells' |-> Zero]
BY DEF Establish, View, Cells, Capacity

\* An allocation of the operation's size has room for its three operands.
LEMMA LayoutFits ==
  ASSUME IInv, live
  PROVE  /\ szIn(op) \in Nat /\ szW(op) \in Nat /\ szO(op) \in Nat
         /\ offIn(op) = 0 /\ offW(op) = szIn(op) /\ offO(op) = szIn(op) + szW(op)
         /\ offO(op) + szO(op) <= Capacity
         /\ Capacity \in Nat /\ Cells = 0 .. Capacity - 1
<1>1. op \in Shapes /\ memSize = RoundedSize(totalBytes(op))
  BY DEF IInv, TypeOK, LiveInv
<1> DEFINE t == szIn(op) + szW(op) + szO(op)
<1>2. /\ szIn(op) \in Nat /\ szW(op) \in Nat /\ szO(op) \in Nat
      /\ offIn(op) = 0 /\ offW(op) = szIn(op) /\ offO(op) = szIn(op) + szW(op)
      /\ totalBytes(op) = 4 * t
      /\ totalBytes(op) \in Nat /\ totalBytes(op) < UMod
  BY <1>1, ShapeLayout
<1>3. memSize \in Nat /\ 4 * t <= memSize
  BY <1>1, <1>2, RoundedSizeCovers
<1> HIDE DEF t
<1>4. t \in Nat
  BY <1>2 DEF t
<1>5. t <= Capacity /\ Capacity \in Nat
  BY <1>3, <1>4 DEF Capacity, TokenBytes
<1>6. QED
  BY <1>2, <1>5 DEF Cells, t

\* Before the first call C holds what it held, and no buffer is live.
LEMMA InitData == Init => DataInv
BY DEF Init, EspInit, DataInv, OperandsInv, ProductInv, DeviceInv, OutcomeInv

\* One copy of replaceBatchMatmul fills the next region of the buffer and leaves
\* the ones before it alone.
LEMMA CopyFills ==
  ASSUME IInv, DataInv, live, NEW k \in {"A", "B"}, NEW o \in Nat, NEW n \in Nat,
         o + n <= Capacity, View = Filled(o), UNCHANGED op,
         \A i \in o .. o + n - 1 : Operand(i) = Tag(k, i - o),
         esp_float2fixed_f32(k, n, o)
  PROVE  View' = Filled(o + n)' /\ UNCHANGED <<soc, gstate, device>> /\ (~ soc.caches => lines' = {})
<1> DEFINE S == o .. o + n - 1
           f == [i \in Cells |-> IF i \in S THEN Tag(k, i - o) ELSE View[i]]
<1>1. /\ Store(f, S) /\ UNCHANGED <<soc, gstate, device>>
  BY DEF esp_float2fixed_f32, FitsInBuffer
<1>2. Cells' = Cells /\ Filled(o + n)' = Filled(o + n)
  BY <1>1 DEF gstate, Cells, Capacity, Filled, Operand, offW, offO, szIn, szW
<1>3. Capacity \in Nat /\ Cells = 0 .. Capacity - 1
  BY LayoutFits
<1>4. f \in [Cells -> TagType]
  BY ViewTyped, TagsTyped DEF IInv
<1>5. S \subseteq Cells /\ \A i \in Cells \ S : f[i] = View[i]
  BY <1>3
<1>6. f = Filled(o + n)
  BY <1>3 DEF Filled
<1> HIDE DEF f, S
<1>7. View' = f
  BY <1>1, <1>4, <1>5, StoreThenView DEF IInv, DataInv
<1>8. ~ soc.caches => lines' = {}
  BY <1>1 DEF Store, DataInv, DeviceInv
<1>9. QED
  BY <1>1, <1>2, <1>6, <1>7, <1>8

\* The accelerator finds the operands where the registers say and nowhere else,
\* with no bias: what it writes over them is the product.
LEMMA ComputeYieldsProduct ==
  ASSUME IInv, DataInv, live, Compute
  PROVE  \A j \in 0 .. szO(op) - 1 : dram'[offO(op) + j] = Tag("P", j)
<1>1. pc = "wait" /\ status = "running" /\ regs = Config(op)
  BY DEF Compute, IInv, RunInv, RegsInv
<1>2. dram = Filled(offO(op))
  BY <1>1 DEF DataInv, OperandsInv
<1> DEFINE a == szIn(op)
           b == szW(op)
           p == szO(op)
<1>3. /\ a \in Nat /\ b \in Nat /\ p \in Nat /\ op.N \in Nat /\ op.N <= p
      /\ offIn(op) = 0 /\ offW(op) = a /\ offO(op) = a + b /\ a + b + p <= Capacity
      /\ Capacity \in Nat /\ Cells = 0 .. Capacity - 1
  BY LayoutFits, ShapeLayout DEF IInv, TypeOK
<1>4. /\ InWords = 0 .. a - 1
      /\ WgtWords = a .. a + b - 1
      /\ BiasWords = a + b .. a + b + op.N - 1
      /\ OutWords = a + b .. a + b + p - 1
      /\ regs.i = 0 /\ regs.w = a /\ regs.o = a + b
  <2>1. regs.M * regs.K = a /\ regs.K * regs.N = b /\ regs.M * regs.N = p /\ regs.N = op.N
    BY <1>1 DEF Config, szIn, szW, szO
  <2>2. regs.i = 0 /\ regs.w = a /\ regs.b = a + b /\ regs.o = a + b
    BY <1>1, <1>3 DEF Config
  <2> HIDE DEF a, b, p
  <2>3. QED
    BY <1>3, <2>1, <2>2 DEF InWords, WgtWords, BiasWords, OutWords
<1> HIDE DEF a, b, p
<1>5. \A i \in 0 .. a + b + p - 1 :
        dram[i] = IF i < a THEN Tag("A", i) ELSE IF i < a + b THEN Tag("B", i - a) ELSE Zero
  BY <1>2, <1>3 DEF Filled, Operand
<1>6. /\ \A i \in InWords : dram[i] = Tag("A", i - regs.i)
      /\ \A i \in WgtWords : dram[i] = Tag("B", i - regs.w)
      /\ \A i \in BiasWords : dram[i] = Zero
  BY <1>3, <1>4, <1>5
<1>7. \A j \in 0 .. p - 1 : Computed(j) = Tag("P", j)
  BY <1>6 DEF Computed
<1>8. DOMAIN dram = Cells
  BY DEF IInv, TypeOK
<1>9. \A j \in 0 .. p - 1 : dram'[a + b + j] = Computed(j)
  BY <1>3, <1>4, <1>8 DEF Compute
<1>10. QED
  BY <1>3, <1>7, <1>9 DEF p

\* Every step keeps what each token of the buffer holds, on a kernel of single
\* matrix products and when the page table is allocated whenever the buffer is.
LEMMA StepData ==
  ASSUME ~ MallocMayFail, \A s \in Shapes : s.batch = 1, IInv, DataInv, [Next]_vars
  PROVE  DataInv'
<1> DEFINE NoView == UNCHANGED <<soc, gstate, memory, op>>
<1>0. ASSUME NoView
      PROVE  View' = View /\ \A n : Filled(n)' = Filled(n)
  BY <1>0 DEF gstate, memory, View, Cells, Capacity, Filled, Operand, offO, offW, szIn, szW
<1> USE DEF DataInv, DeviceInv, OutcomeInv, Goto
<1>1. ASSUME NEW s \in Shapes, Begin(s) PROVE DataInv'
  BY <1>1 DEF Begin, espVars, gstate, device, memory, IInv, LiveInv, OperandsInv, ProductInv
<1>2. CASE Alloc
  <2>1. CASE AllocRefused(totalBytes(op))
    BY <1>2, <2>1 DEF Alloc, AllocRefused, IInv, LiveInv, OperandsInv, ProductInv, memory
  <2>2. CASE AllocDone(totalBytes(op))
    <3>1. Establish(totalBytes(op)) /\ pc' = "copyA" /\ op' = op /\ c' = c /\ pc = "alloc"
      BY <1>2, <2>2 DEF Alloc, AllocDone
    <3>2. View' = Filled(0)'
      <4>1. \A i \in Cells' : ~ (i < 0)
        BY DEF Cells
      <4>2. Filled(0)' = [i \in Cells' |-> Zero]
        BY <4>1 DEF Filled
      <4>3. QED
        BY <3>1, <4>2, AllocatedIsZero
    <3>3. DeviceInv' /\ OutcomeInv'
      BY <3>1 DEF Establish
    <3>4. QED
      BY <3>1, <3>2, <3>3 DEF OperandsInv, ProductInv
  <2>3. QED
    BY <1>2, <2>1, <2>2 DEF Alloc, esp_alloc_shared
<1>3. CASE CopyA
  <2>1. CASE live
    <3>1. op.batch * szIn(op) = szIn(op)
      BY <2>1, LayoutFits DEF IInv, TypeOK
    <3>2. esp_float2fixed_f32("A", szIn(op), 0)
      BY <1>3, <2>1, <3>1, LayoutFits DEF CopyA
    <3>3. /\ View = Filled(0) /\ 0 + szIn(op) <= Capacity /\ szIn(op) \in Nat
          /\ \A i \in 0 .. 0 + szIn(op) - 1 : Operand(i) = Tag("A", i - 0)
      BY <1>3, <2>1, LayoutFits DEF CopyA, OperandsInv, Operand
    <3>4. /\ View' = Filled(0 + szIn(op))'
          /\ UNCHANGED <<soc, gstate, device>> /\ (~ soc.caches => lines' = {})
      BY <1>3, <2>1, <3>2, <3>3, CopyFills DEF CopyA
    <3>5. View' = Filled(offW(op))'
      BY <1>3, <2>1, <3>4, LayoutFits DEF CopyA, offW, szIn
    <3>6. QED
      BY <1>3, <3>4, <3>5 DEF CopyA, OperandsInv, ProductInv, gstate, device
  <2>2. CASE ~ live
    BY <1>3, <2>2 DEF CopyA, esp_float2fixed_f32, espVars, gstate, memory, OperandsInv, ProductInv
  <2>3. QED
    BY <2>1, <2>2
<1>4. CASE CopyB
  <2>1. CASE live
    <3>1. op.batch * szW(op) = szW(op)
      BY <2>1, LayoutFits DEF IInv, TypeOK
    <3>2. esp_float2fixed_f32("B", szW(op), offW(op))
      BY <1>4, <2>1, <3>1 DEF CopyB
    <3>3. /\ View = Filled(offW(op)) /\ offW(op) + szW(op) <= Capacity /\ szW(op) \in Nat
          /\ offW(op) \in Nat
          /\ \A i \in offW(op) .. offW(op) + szW(op) - 1 : Operand(i) = Tag("B", i - offW(op))
      BY <1>4, <2>1, LayoutFits DEF CopyB, OperandsInv, Operand
    <3>4. /\ View' = Filled(offW(op) + szW(op))'
          /\ UNCHANGED <<soc, gstate, device>> /\ (~ soc.caches => lines' = {})
      BY <1>4, <2>1, <3>2, <3>3, CopyFills DEF CopyB
    <3>5. View' = Filled(offO(op))'
      BY <1>4, <2>1, <3>4, LayoutFits DEF CopyB, offO, offW, szIn, szW
    <3>6. QED
      BY <1>4, <3>4, <3>5 DEF CopyB, OperandsInv, ProductInv, gstate, device
  <2>2. CASE ~ live
    BY <1>4, <2>2 DEF CopyB, esp_float2fixed_f32, espVars, gstate, memory, OperandsInv, ProductInv
  <2>3. QED
    BY <2>1, <2>2
<1>5. CASE CfgRegs
  <2>1. NoView /\ UNCHANGED <<ptReg, status, c>> /\ pc = "cfg" /\ pc' = "start"
    BY <1>5 DEF CfgRegs, esp_accel_cfg_regs, espVars, device, gstate, memory
  <2>2. View' = View /\ Filled(offO(op))' = Filled(offO(op))
    BY <2>1, <1>0 DEF Filled, Operand, offO, offW, szIn, szW, gstate, Cells, Capacity
  <2>3. QED
    BY <2>1, <2>2 DEF OperandsInv, ProductInv, gstate, memory
<1>6. CASE Start
  <2>1. CASE live
    <3>1. dev /\ pc = "start" /\ pc' = "wait" /\ UNCHANGED <<soc, gstate, regs, ptReg, op, c, cpu>>
      BY <1>6, <2>1 DEF Start, esp_accel_start, IInv, LiveInv
    <3>2. status' = "running" /\ (IF needFlush THEN dram' = View /\ lines' = {} ELSE UNCHANGED <<dram, lines>>)
      BY <1>6, <3>1 DEF Start, esp_accel_start
    <3>3. View = Filled(offO(op)) /\ needFlush = soc.caches
      BY <2>1, <3>1 DEF OperandsInv
    <3>4. lines' = {} /\ dram' = View
      <4>1. CASE needFlush
        BY <3>2, <4>1
      <4>2. CASE ~ needFlush
        BY <3>2, <3>3, <4>2 DEF View, IInv, TypeOK
      <4>3. QED
        BY <4>1, <4>2
    <3>5. Filled(offO(op))' = Filled(offO(op))
      BY <3>1 DEF Filled, Operand, offO, offW, szIn, szW, gstate, Cells, Capacity
    <3>6. QED
      BY <3>1, <3>2, <3>3, <3>4, <3>5 DEF OperandsInv, ProductInv, gstate
  <2>2. CASE ~ live
    BY <1>6, <2>2 DEF Start, esp_accel_start, espVars, gstate, memory, OperandsInv, ProductInv
  <2>3. QED
    BY <2>1, <2>2
<1>7. CASE Wait
  <2>1. CASE live
    <3>1. /\ status = "done" /\ pc = "wait" /\ pc' = "copyC"
          /\ NoView /\ UNCHANGED <<ptReg, c>>
      BY <1>7, <2>1 DEF Wait, esp_accel_wait, IInv, LiveInv, gstate, memory
    <3>2. View' = View /\ szO(op)' = szO(op) /\ offO(op)' = offO(op)
      BY <3>1, <1>0
    <3>3. QED
      BY <2>1, <3>1, <3>2 DEF OperandsInv, ProductInv, gstate, memory
  <2>2. CASE ~ live
    BY <1>7, <2>2 DEF Wait, esp_accel_wait, espVars, gstate, device, memory, OperandsInv, ProductInv
  <2>3. QED
    BY <2>1, <2>2
<1>8. CASE CopyC
  <2>1. pc = "copyC" /\ pc' = "free" /\ UNCHANGED <<espVars, op>>
    BY <1>8 DEF CopyC
  <2>2. live => c' = "product"
    <3>1. ASSUME live PROVE c' = "product"
      <4>1. op.batch * szO(op) = szO(op) /\ CopiesOut(offO(op), szO(op))
        BY <3>1, LayoutFits DEF IInv, TypeOK, CopiesOut, FitsInBuffer
      <4>2. CopiedTags(offO(op), szO(op)) = [i \in 0 .. szO(op) - 1 |-> Tag("P", i)]
        BY <2>1, <3>1 DEF CopiedTags, ProductInv
      <4>3. QED
        BY <1>8, <4>1, <4>2 DEF CopyC
    <3>2. QED
      BY <3>1
  <2>3. QED
    BY <2>1, <2>2 DEF OperandsInv, ProductInv, espVars, gstate, device, memory
<1>9. CASE Free
  BY <1>9 DEF Free, esp_free_shared, espVars, gstate, device, memory, OperandsInv, ProductInv
<1>10. CASE Compute /\ UNCHANGED kernelVars
  <2>1. CASE live
    <3>1. /\ pc = "wait" /\ status = "running" /\ status' = "done"
          /\ UNCHANGED <<soc, gstate, ptReg, lines, kernelVars>>
      BY <1>10 DEF Compute, IInv, RunInv
    <3>2. lines = {}
      BY <2>1, <3>1 DEF OperandsInv
    <3>3. \A i \in Cells' : View'[i] = dram'[i]
      BY <3>1, <3>2 DEF View
    <3>4. Cells' = 0 .. Capacity - 1 /\ szO(op)' = szO(op) /\ offO(op)' = offO(op)
      BY <2>1, <3>1, LayoutFits DEF gstate, kernelVars, Cells, Capacity
    <3>5. \A j \in 0 .. szO(op) - 1 : View'[offO(op) + j] = Tag("P", j)
      BY <1>10, <2>1, <3>3, <3>4, ComputeYieldsProduct, LayoutFits
    <3>6. QED
      BY <2>1, <3>1, <3>2, <3>4, <3>5 DEF OperandsInv, ProductInv, gstate, kernelVars
  <2>2. CASE ~ live
    BY <1>10, <2>2 DEF Compute, kernelVars, gstate, OperandsInv, ProductInv
  <2>3. QED
    BY <2>1, <2>2
<1>11. CASE Stray /\ UNCHANGED kernelVars
  <2>1. ~ live
    <3>1. status = "running" /\ pc = "wait"
      BY <1>11 DEF Stray, IInv, RunInv
    <3>2. live => TableGood /\ Touched \subseteq DOMAIN dram
      BY <3>1, LayoutInBuffer DEF OperandsInv, TableGood, SafeDMA, IInv, TypeOK
    <3>3. QED
      BY <1>11, <3>2 DEF Stray
  <2>2. QED
    BY <1>11, <2>1 DEF Stray, kernelVars, gstate, memory, OperandsInv, ProductInv
<1>12. ASSUME NEW l \in lines, Evict(l), UNCHANGED kernelVars PROVE DataInv'
  <2>1. View' = View
    BY <1>12, EvictKeepsView DEF IInv
  <2>2. UNCHANGED <<soc, gstate, ptReg, status, kernelVars>> /\ lines' \subseteq lines /\ lines # {}
    BY <1>12 DEF Evict, device
  <2>3. \A n : Filled(n)' = Filled(n)
    BY <2>2 DEF Filled, Operand, offO, offW, szIn, szW, gstate, kernelVars, Cells, Capacity
  <2>4. QED
    BY <2>1, <2>2, <2>3 DEF OperandsInv, ProductInv, gstate, kernelVars
<1>13. CASE UNCHANGED vars
  <2>1. NoView /\ UNCHANGED <<espVars, kernelVars>>
    BY <1>13 DEF vars, kernelVars, espVars
  <2>2. View' = View /\ \A n : Filled(n)' = Filled(n)
    BY <2>1, <1>0
  <2>3. QED
    BY <2>1, <2>2 DEF espVars, kernelVars, gstate, device, memory, OperandsInv, ProductInv
<1>14. QED
  BY <1>1, <1>2, <1>3, <1>4, <1>5, <1>6, <1>7, <1>8, <1>9, <1>10, <1>11, <1>12, <1>13
     DEF Next, Kernel, Hardware, Accelerate

\* With single matrix products and no failing page table, the processor's and the
\* accelerator's words stay what the call sequence means them to be.
THEOREM BufferHoldsOperands ==
  ASSUME ~ MallocMayFail, \A s \in Shapes : s.batch = 1
  PROVE  Spec => []DataInv
<1>1. Init => DataInv
  BY InitData
<1>2. IInv /\ DataInv /\ [Next]_vars => DataInv'
  BY StepData
<1>3. QED
  BY <1>1, <1>2, Inductive, PTL DEF Spec

\* Every step of the call sequence, the accelerator and the cache is a step of
\* what an offloaded batch_matmul promises, or changes nothing of it.
LEMMA StepRefines ==
  ASSUME IInv, DataInv, DataInv', [Next]_vars
  PROVE  [Abstract!Next]_<<phase, c>>
<1> USE DEF phase, Goto, Abstract!Next
<1>1. ASSUME NEW s \in Shapes, Begin(s) PROVE Abstract!Ask
  BY <1>1 DEF Begin, Abstract!Ask
<1>2. CASE Alloc
  <2>1. pc = "alloc" /\ pc' = "copyA" /\ c' = c /\ live' \in BOOLEAN
    BY <1>2 DEF Alloc, esp_alloc_shared, AllocRefused, AllocDone, Establish, IInv, TypeOK
  <2>2. Abstract!Grant \/ Abstract!Refuse
    BY <2>1 DEF Abstract!Grant, Abstract!Refuse
  <2>3. QED
    BY <2>2
<1>3. CASE CopyA
  BY <1>3 DEF CopyA, esp_float2fixed_f32, espVars, gstate
<1>4. CASE CopyB
  BY <1>4 DEF CopyB, esp_float2fixed_f32, espVars, gstate
<1>5. CASE CfgRegs
  BY <1>5 DEF CfgRegs, esp_accel_cfg_regs, espVars, gstate
<1>6. CASE Start
  BY <1>6 DEF Start, esp_accel_start, espVars, gstate
<1>7. CASE Wait
  BY <1>7 DEF Wait, esp_accel_wait, espVars, gstate
<1>8. CASE CopyC
  <2>1. pc = "copyC" /\ pc' = "free" /\ live' = live
    BY <1>8 DEF CopyC, espVars, gstate
  <2>2. CASE live
    <3>1. c = "old" /\ c' = "product"
      BY <2>1, <2>2 DEF DataInv, OutcomeInv
    <3>2. Abstract!Deliver
      BY <2>1, <2>2, <3>1 DEF Abstract!Deliver
    <3>3. QED
      BY <3>2
  <2>3. CASE ~ live
    BY <1>8, <2>1, <2>3 DEF CopyC, CopiesOut
  <2>4. QED
    BY <2>2, <2>3
<1>9. CASE Free
  <2>1. pc = "free" /\ pc' = "idle" /\ c' = c
    BY <1>9 DEF Free
  <2>2. live => c = "product"
    BY <2>1 DEF DataInv, OutcomeInv
  <2>3. Abstract!Return
    BY <2>1, <2>2 DEF Abstract!Return
  <2>4. QED
    BY <2>3
<1>10. CASE Hardware
  BY <1>10 DEF Hardware, Accelerate, Compute, Stray, Evict, kernelVars, gstate
<1>11. CASE UNCHANGED vars
  BY <1>11 DEF vars, kernelVars, espVars, gstate
<1>12. QED
  BY <1>1, <1>2, <1>3, <1>4, <1>5, <1>6, <1>7, <1>8, <1>9, <1>10, <1>11 DEF Next, Kernel

\* The offload implements batch_matmul: granted the buffer, C becomes the product
\* of A and B exactly once before the kernel goes on; refused it, C is left alone;
\* whatever the caches write back and whenever the accelerator finishes.
THEOREM OffloadIsBatchMatmul ==
  ASSUME ~ MallocMayFail, \A s \in Shapes : s.batch = 1
  PROVE  Spec => ImplementsOffload
<1>1. Init => Abstract!Init
  BY DEF Init, Abstract!Init, phase
<1>2. IInv /\ DataInv /\ DataInv' /\ [Next]_vars => [Abstract!Next]_<<phase, c>>
  BY StepRefines
<1>3. QED
  BY <1>1, <1>2, Inductive, BufferHoldsOperands, PTL DEF Spec, ImplementsOffload, Abstract!Spec
=============================================================================
