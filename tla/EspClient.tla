------------------------------ MODULE EspClient ------------------------------
(***************************************************************************)
(* The ESP runtime under a client that calls the functions of ESPRuntime.h *)
(* in any order, allocations that fail included: what g_state and the      *)
(* device's page-table registers keep to whatever the caller does.         *)
(***************************************************************************)
EXTENDS EspRuntime

CONSTANTS
  Sizes,    \* the sizes, in bytes, the client allocates
  Counts,   \* the element counts of the operands it copies
  Offsets,  \* the element offsets it copies them to
  Configs   \* the register settings it writes

ASSUME ClientAssumption ==
  Sizes \subseteq Int /\ Counts \subseteq Nat /\ Offsets \subseteq Int

Init == EspInit

CallAlloc == \E n \in Sizes : esp_alloc_shared(n)
CallFree  == esp_free_shared
CallCopy  == \E n \in Counts, o \in Offsets : esp_float2fixed_f32("A", n, o)
CallCfg   == \E r \in Configs : esp_accel_cfg_regs(r)
CallStart == esp_accel_start
CallWait  == esp_accel_wait

Next ==
  \/ CallAlloc \/ CallFree \/ CallCopy \/ CallCfg \/ CallStart \/ CallWait
  \/ Accelerate
  \/ \E l \in lines : Evict(l)

Spec == Init /\ [][Next]_espVars

\* A live buffer always comes with a device handle, with a page table whose
\* entries cover all of it and fit the device's TLB, and with the decision to
\* flush that the chip calls for; without a buffer no dirty line of one is left.
StateConsistent ==
  IF live
    THEN /\ dev /\ soc.ffn
         /\ ptReg \in {"live", "null"}
         /\ memSize >= ChunkSize
         /\ memSize <= nchunkReg * ChunkSize
         /\ nchunkReg <= soc.tlb
         /\ needFlush = soc.caches
    ELSE memSize = 0 /\ lines = {}

\* While a buffer is live nothing but freeing it changes its size or the page
\* table the device walks: a second allocation is refused, not substituted.
BufferPinned ==
  [][live /\ live' => UNCHANGED <<memSize, ptReg, nchunkReg>>]_espVars
=============================================================================
