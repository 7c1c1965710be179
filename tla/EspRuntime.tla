----------------------------- MODULE EspRuntime -----------------------------
(***************************************************************************)
(* The ESP runtime (EspRuntime.cpp) and the device it drives: one global   *)
(* state g_state, the registers of the FFN accelerator, and the shared     *)
(* buffer as the processor and the accelerator see it.  Every exported     *)
(* esp_* function is one operator; EspOffload calls them in the order the  *)
(* lowering emits, EspClient in any order.                                 *)
(*                                                                         *)
(* Data is abstract: a token of the buffer is a tag that says which        *)
(* element of which operand it holds.  Sizes, offsets, the chunk rounding  *)
(* and the truncation to a 32-bit unsigned are kept.                       *)
(***************************************************************************)
EXTENDS Integers

CONSTANTS
  ChunkSize,      \* kChunkSize: bytes one page-table entry maps
  UMod,           \* 2^32: the range of an unsigned
  MaxChunks,      \* bound: the largest TLB an SoC of the model has
  MallocMayFail   \* whether aligned_malloc may return NULL

TokenBytes == 4   \* sizeof(token_t)

ASSUME ConstantsAssumption ==
  /\ ChunkSize \in Nat /\ ChunkSize > 0 /\ ChunkSize % TokenBytes = 0
  /\ UMod \in Nat /\ UMod > ChunkSize /\ UMod % TokenBytes = 0
  /\ MaxChunks \in Nat
  /\ MallocMayFail \in BOOLEAN

VARIABLES
  soc,        \* the chip: is the FFN tile there, are there caches, TLB entries
  dev,        \* g_state.dev # nullptr
  live,       \* g_state.buf # nullptr
  memSize,    \* g_state.memSize, in bytes
  needFlush,  \* g_state.needFlush
  regs,       \* the user registers of the accelerator
  ptReg,      \* what PT_ADDRESS_REG points at
  nchunkReg,  \* PT_NCHUNK_REG
  status,     \* the accelerator's command and status registers
  dram,       \* the buffer as the accelerator reads it
  cpu,        \* the processor's cached copy of the lines in "lines"
  lines       \* the chunks (and the page table) still dirty in the cache

gstate  == <<dev, live, memSize, needFlush>>
device  == <<regs, ptReg, nchunkReg, status>>
memory  == <<dram, cpu, lines>>
espVars == <<soc, gstate, device, memory>>

SocType == [ffn : BOOLEAN, caches : BOOLEAN, tlb : 0 .. MaxChunks]
Tag(k, i) == [k |-> k, i |-> i]
Zero == Tag("zero", 0)
Junk == Tag("junk", 0)
NoRegs == [M |-> 0, K |-> 0, N |-> 0, i |-> 0, w |-> 0, b |-> 0, o |-> 0]

NoMemory == [i \in {} |-> Zero]

UInt(n) == n % UMod
\* Mutant of nchunk: the division rounds down.
nchunk_Floor(bytes) == bytes \div ChunkSize

nchunk(bytes) == IF bytes % ChunkSize = 0 THEN bytes \div ChunkSize
                                          ELSE bytes \div ChunkSize + 1

Capacity == memSize \div TokenBytes
Cells    == 0 .. Capacity - 1
PtLine   == -1                         \* the line(s) holding the page table
LineOf(i) == i \div (ChunkSize \div TokenBytes)

\* What a load by the processor returns for each token.
View == [i \in Cells |-> IF LineOf(i) \in lines THEN cpu[i] ELSE dram[i]]

\* The processor stores f over the buffer: f differs from View on S only.
Store(f, S) ==
  IF soc.caches
    THEN /\ cpu' = f
         /\ lines' = lines \cup {LineOf(i) : i \in S}
         /\ UNCHANGED dram
    ELSE /\ dram' = f
         /\ UNCHANGED <<cpu, lines>>

\* A dirty line is written back when the cache needs the room.
Evict(l) ==
  /\ l \in lines
  /\ dram' = [i \in DOMAIN dram |-> IF LineOf(i) = l THEN cpu[i] ELSE dram[i]]
  /\ lines' = lines \ {l}
  /\ UNCHANGED <<soc, gstate, device, cpu>>

-----------------------------------------------------------------------------
\* bool fitsInBuffer(what, offset, view)
FitsInBuffer(offset, numElements) ==
  offset >= 0 /\ offset + numElements <= Capacity

\* memSize as esp_alloc_shared rounds it
RoundedSize(totalBytes) ==
  IF UInt(totalBytes) < ChunkSize THEN ChunkSize ELSE UInt(totalBytes)

\* The early returns of esp_alloc_shared.  All but the first two leave the
\* device handle set.
AllocRefused(totalBytes) ==
  /\ \/ live
     \/ ~ soc.ffn
     \/ soc.tlb = 0
     \/ soc.tlb < nchunk(RoundedSize(totalBytes))
     \/ MallocMayFail
  /\ dev' = (dev \/ (~ live /\ soc.ffn))
  /\ UNCHANGED <<soc, live, memSize, needFlush, device, memory>>

\* The rest of esp_alloc_shared.  The buffer's old contents are whatever the
\* heap held; the page table is a second, unchecked aligned_malloc.
Establish(totalBytes) ==
  /\ dev' = TRUE
  /\ live' = TRUE
  /\ memSize' = RoundedSize(totalBytes)
  /\ needFlush' = soc.caches
  /\ LET cells == 0 .. (memSize' \div TokenBytes) - 1
     IN  IF soc.caches
           THEN /\ cpu' = [i \in cells |-> Zero]
                /\ dram' = [i \in cells |-> Junk]
                /\ lines' = {LineOf(i) : i \in cells} \cup {PtLine}
           ELSE /\ cpu' = [i \in cells |-> Junk]
                /\ dram' = [i \in cells |-> Zero]
                /\ lines' = {}
  /\ ptReg' \in IF MallocMayFail THEN {"live", "null"} ELSE {"live"}
  /\ nchunkReg' = nchunk(memSize')
  /\ UNCHANGED <<soc, regs, status>>

\* Mutant of AllocDone: a live buffer is replaced instead of kept.
AllocDone_Replaces(totalBytes) ==
  /\ soc.ffn
  /\ soc.tlb # 0
  /\ soc.tlb >= nchunk(RoundedSize(totalBytes))
  /\ Establish(totalBytes)

\* Mutant of AllocDone: the size of the TLB is not looked at.
AllocDone_AnyTlb(totalBytes) == ~ live /\ soc.ffn /\ Establish(totalBytes)

AllocDone(totalBytes) ==
  /\ ~ live
  /\ soc.ffn
  /\ soc.tlb # 0
  /\ soc.tlb >= nchunk(RoundedSize(totalBytes))
  /\ Establish(totalBytes)

esp_alloc_shared(totalBytes) == AllocRefused(totalBytes) \/ AllocDone(totalBytes)

\* Mutant of esp_free_shared: the size of the freed buffer is not reset.
esp_free_shared_KeepsSize ==
  IF live
    THEN /\ dev' = FALSE
         /\ live' = FALSE
         /\ ptReg' = IF ptReg = "live" THEN "freed" ELSE ptReg
         /\ dram' = NoMemory /\ cpu' = NoMemory /\ lines' = {}
         /\ UNCHANGED <<soc, memSize, needFlush, regs, nchunkReg, status>>
    ELSE UNCHANGED espVars

\* g_state = EspState(); the registers of the device keep their values.
esp_free_shared ==
  IF live
    THEN /\ dev' = FALSE
         /\ live' = FALSE
         /\ memSize' = 0
         /\ needFlush' = FALSE
         /\ ptReg' = IF ptReg = "live" THEN "freed" ELSE ptReg
         /\ dram' = NoMemory /\ cpu' = NoMemory /\ lines' = {}
         /\ UNCHANGED <<soc, regs, nchunkReg, status>>
    ELSE UNCHANGED espVars

\* Elements 0 .. n-1 of the operand tagged k go to offset .. offset + n - 1.
esp_float2fixed_f32(k, n, offset) ==
  IF live /\ FitsInBuffer(offset, n)
    THEN LET S == offset .. offset + n - 1
         IN  /\ Store([i \in Cells |-> IF i \in S THEN Tag(k, i - offset)
                                                  ELSE View[i]], S)
             /\ UNCHANGED <<soc, gstate, device>>
    ELSE UNCHANGED espVars

\* The caller's view of esp_fixed2float_f32: TRUE when it copies at all, and
\* the tags it copies.
CopiesOut(offset, n) == live /\ FitsInBuffer(offset, n)
CopiedTags(offset, n) == [i \in 0 .. n - 1 |-> View[offset + i]]

esp_accel_cfg_regs(r) ==
  IF dev
    THEN /\ regs' = [f \in DOMAIN r |-> UInt(r[f])]
         /\ UNCHANGED <<soc, gstate, ptReg, nchunkReg, status, memory>>
    ELSE UNCHANGED espVars

\* Mutants of esp_accel_start: the caches are never flushed, and the command is
\* only written on a chip without caches.
esp_accel_start_NoFlush ==
  IF dev
    THEN status' = "running" /\ UNCHANGED <<soc, gstate, regs, ptReg, nchunkReg, memory>>
    ELSE UNCHANGED espVars
esp_accel_start_FlushOnly ==
  IF dev /\ ~ needFlush
    THEN status' = "running" /\ UNCHANGED <<soc, gstate, regs, ptReg, nchunkReg, memory>>
    ELSE UNCHANGED espVars

\* esp_flush writes every dirty line back before CMD_REG is written.
esp_accel_start ==
  IF dev
    THEN /\ IF needFlush
              THEN /\ dram' = View
                   /\ lines' = {}
              ELSE UNCHANGED <<dram, lines>>
         /\ status' = "running"
         /\ UNCHANGED <<soc, gstate, regs, ptReg, nchunkReg, cpu>>
    ELSE UNCHANGED espVars

\* Mutant of esp_accel_wait: it returns without polling.
esp_accel_wait_NoPoll == UNCHANGED espVars

\* The last iteration of the polling loop: enabled once the device is done.
esp_accel_wait ==
  IF dev
    THEN /\ status = "done"
         /\ status' = "idle"
         /\ UNCHANGED <<soc, gstate, regs, ptReg, nchunkReg, memory>>
    ELSE UNCHANGED espVars
-----------------------------------------------------------------------------
(* The FFN accelerator, external to this repository: what EspRuntime.cpp's *)
(* header comments and the lowering rely on.  It reads M*K inputs, K*N     *)
(* weights and N bias words through the page table and writes M*N outputs. *)
InWords   == regs.i .. regs.i + regs.M * regs.K - 1
WgtWords  == regs.w .. regs.w + regs.K * regs.N - 1
BiasWords == regs.b .. regs.b + regs.N - 1
OutWords  == regs.o .. regs.o + regs.M * regs.N - 1
Touched   == InWords \cup WgtWords \cup BiasWords \cup OutWords

TableGood == ptReg = "live" /\ PtLine \notin lines

\* The matrix product, when the operands are where the registers say; a value
\* that means nothing otherwise.
Computed(j) ==
  IF /\ \A i \in InWords : dram[i] = Tag("A", i - regs.i)
     /\ \A i \in WgtWords : dram[i] = Tag("B", i - regs.w)
     /\ \A i \in BiasWords : dram[i] = Zero
    THEN Tag("P", j) ELSE Junk

Compute ==
  /\ status = "running"
  /\ TableGood
  /\ Touched \subseteq DOMAIN dram
  /\ dram' = [i \in DOMAIN dram |->
                IF i \in OutWords THEN Computed(i - regs.o) ELSE dram[i]]
  /\ status' = "done"
  /\ UNCHANGED <<soc, gstate, regs, ptReg, nchunkReg, cpu, lines>>

\* A page table that was freed, never set or not yet in memory sends the DMA
\* anywhere; whether "done" is ever raised is unknown.
Stray ==
  /\ status = "running"
  /\ ~ (TableGood /\ Touched \subseteq DOMAIN dram)
  /\ status' \in {"done", "hung"}
  /\ UNCHANGED <<soc, gstate, regs, ptReg, nchunkReg, memory>>

Accelerate == Compute \/ Stray

EspInit ==
  /\ soc \in SocType
  /\ dev = FALSE /\ live = FALSE /\ memSize = 0 /\ needFlush = FALSE
  /\ regs = NoRegs /\ ptReg = "none" /\ nchunkReg = 0 /\ status = "idle"
  /\ dram = NoMemory /\ cpu = NoMemory /\ lines = {}
=============================================================================
