--------------------------- MODULE EspClient_proofs ---------------------------
(***************************************************************************)
(* For every client of the ESP runtime, whatever sizes it allocates and in *)
(* whatever order it calls: the state of a live buffer is consistent       *)
(* (StateConsistent), and nothing but a free changes it (BufferPinned).    *)
(***************************************************************************)
EXTENDS EspClient, TLAPS

\* nchunk page-table entries cover every byte of the buffer.
LEMMA ChunksCover ==
  ASSUME NEW n \in Nat
  PROVE  nchunk(n) \in Nat /\ n <= nchunk(n) * ChunkSize
BY ConstantsAssumption DEF nchunk

\* Whatever size is asked for, the truncation to an unsigned included, the
\* buffer is a natural number of bytes and at least one chunk.
LEMMA RoundedSizeTyped ==
  ASSUME NEW n \in Int
  PROVE  RoundedSize(n) \in Nat /\ ChunkSize <= RoundedSize(n)
BY ConstantsAssumption DEF RoundedSize, UInt

\* StateConsistent is inductive once the sizes are known to be naturals and the
\* page-table register to be one an allocation or a free leaves.
ClientInv ==
  /\ StateConsistent
  /\ memSize \in Nat /\ nchunkReg \in Nat
  /\ live \in BOOLEAN /\ soc \in SocType

\* Before the first call there is no buffer.
LEMMA InitClient == Init => ClientInv
<1> SUFFICES ASSUME Init PROVE ClientInv
  OBVIOUS
<1>1. live = FALSE /\ memSize = 0 /\ lines = {} /\ nchunkReg = 0 /\ soc \in SocType
  BY DEF Init, EspInit
<1>2. QED
  BY <1>1 DEF ClientInv, StateConsistent

\* Every call in every order, every device step and every eviction keeps the state
\* of the runtime consistent.
LEMMA StepClient == ClientInv /\ [Next]_espVars => ClientInv'
<1> SUFFICES ASSUME ClientInv, [Next]_espVars PROVE ClientInv'
  OBVIOUS
<1> USE DEF ClientInv, StateConsistent
<1>1. ASSUME NEW n \in Sizes, esp_alloc_shared(n) PROVE ClientInv'
  <2>1. CASE AllocRefused(n)
    BY <2>1 DEF AllocRefused, device, memory
  <2>2. CASE AllocDone(n)
    <3>1. n \in Int
      BY ClientAssumption
    <3>2. /\ memSize' = RoundedSize(n) /\ nchunkReg' = nchunk(memSize')
          /\ dev' = TRUE /\ live' = TRUE /\ needFlush' = soc.caches
          /\ ptReg' \in {"live", "null"} /\ UNCHANGED soc
          /\ soc.ffn /\ nchunk(memSize') <= soc.tlb
      BY <2>2, <3>1, RoundedSizeTyped, ChunksCover DEF AllocDone, Establish, SocType
    <3>3. memSize' \in Nat /\ memSize' >= ChunkSize
      BY <3>1, <3>2, RoundedSizeTyped, ConstantsAssumption
    <3>4. nchunkReg' \in Nat /\ memSize' <= nchunkReg' * ChunkSize
      BY <3>2, <3>3, ChunksCover
    <3>5. QED
      BY <3>2, <3>3, <3>4
  <2>3. QED
    BY <1>1, <2>1, <2>2 DEF esp_alloc_shared
<1>2. CASE CallFree
  <2>1. CASE live
    <3>1. live' = FALSE /\ memSize' = 0 /\ lines' = {} /\ UNCHANGED <<soc, nchunkReg>>
      BY <1>2, <2>1 DEF CallFree, esp_free_shared
    <3>2. QED
      BY <3>1
  <2>2. CASE ~ live
    BY <1>2, <2>2 DEF CallFree, esp_free_shared, espVars, gstate, device, memory
  <2>3. QED
    BY <2>1, <2>2
<1>3. CASE CallCopy
  <2>1. UNCHANGED <<soc, gstate, device>>
    BY <1>3 DEF CallCopy, esp_float2fixed_f32, espVars
  <2>2. ~ live => lines' = lines
    BY <1>3 DEF CallCopy, esp_float2fixed_f32, espVars, memory
  <2>3. QED
    BY <2>1, <2>2 DEF gstate, device
<1>4. CASE CallCfg
  BY <1>4 DEF CallCfg, esp_accel_cfg_regs, espVars, gstate, device, memory
<1>5. CASE CallStart
  BY <1>5 DEF CallStart, esp_accel_start, espVars, gstate, device, memory
<1>6. CASE CallWait
  BY <1>6 DEF CallWait, esp_accel_wait, espVars, gstate, device, memory
<1>7. CASE Accelerate
  BY <1>7 DEF Accelerate, Compute, Stray, gstate, memory
<1>8. ASSUME NEW l \in lines, Evict(l) PROVE ClientInv'
  BY <1>8 DEF Evict, gstate, device
<1>9. CASE UNCHANGED espVars
  BY <1>9 DEF espVars, gstate, device, memory
<1>10. QED
  BY <1>1, <1>2, <1>3, <1>4, <1>5, <1>6, <1>7, <1>8, <1>9 DEF Next, CallAlloc

\* The inductive invariant holds of every client.
LEMMA ClientInvariant == Spec => []ClientInv
BY InitClient, StepClient, PTL DEF Spec

\* A live buffer always comes with a device handle, a page table that covers all of
\* it and fits the TLB, and the flush decision the chip calls for; a freed one
\* leaves no dirty line behind: for every order of calls.
THEOREM StateAlwaysConsistent == Spec => []StateConsistent
BY ClientInvariant, PTL DEF ClientInv

\* No call but a free changes a live buffer's size or the page table the device
\* walks: a second allocation is refused.
THEOREM OnlyFreeMovesBuffer == Spec => BufferPinned
<1>1. [Next]_espVars => [live /\ live' => UNCHANGED <<memSize, ptReg, nchunkReg>>]_espVars
  <2> SUFFICES ASSUME Next, live, live' PROVE UNCHANGED <<memSize, ptReg, nchunkReg>>
    OBVIOUS
  <2>1. CASE CallAlloc
    BY <2>1 DEF CallAlloc, esp_alloc_shared, AllocRefused, AllocDone, device
  <2>2. CASE CallFree
    BY <2>2 DEF CallFree, esp_free_shared
  <2>3. CASE CallCopy
    BY <2>3 DEF CallCopy, esp_float2fixed_f32, espVars, gstate, device
  <2>4. CASE CallCfg \/ CallStart \/ CallWait
    BY <2>4 DEF CallCfg, CallStart, CallWait, esp_accel_cfg_regs, esp_accel_start,
                esp_accel_wait, espVars, gstate, device
  <2>5. CASE Accelerate \/ \E l \in lines : Evict(l)
    BY <2>5 DEF Accelerate, Compute, Stray, Evict, gstate, device
  <2>6. QED
    BY <2>1, <2>2, <2>3, <2>4, <2>5 DEF Next
<1>2. QED
  BY <1>1, PTL DEF Spec, BufferPinned
=============================================================================
