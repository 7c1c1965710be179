----------------------------- MODULE HwModules ------------------------------
(***************************************************************************)
(* The Verilog modules of sb_cli/recipes/*/IPs: the registers each keeps   *)
(* (r), what reset makes of them, and what a rising clock edge does.  The  *)
(* counters and the assertion share a handshake: done_port follows         *)
(* start_port by two cycles, and at the edge that raises it they display   *)
(* lines, of what their registers and their inputs are in that cycle.      *)
(***************************************************************************)
EXTENDS Integers, Sequences

CONSTANTS
  LocWidth, CounterWidth, WordWidth,  \* bits of a location, a counter, a word
  PRINT_ON_STOP                       \* whether counters are displayed at each call

ASSUME WidthsAssumption ==
  /\ LocWidth \in Nat /\ CounterWidth \in Nat /\ WordWidth \in Nat
  /\ PRINT_ON_STOP \in BOOLEAN

\* Of powers the provers know no law.
ASSUME PowersAssumption == \A width \in {LocWidth, CounterWidth, WordWidth} : 2^width \in Nat \ {0}

Report == -1    \* kReportSentinelLocation: bit 63 of location is set
Locations == 0 .. 2^LocWidth - 1
LocIdx(location) == location % 2^LocWidth
Bump(n) == (n + 1) % 2^CounterWidth
Word(n) == n % 2^WordWidth
Zeroes == [l \in Locations |-> 0]

-----------------------------------------------------------------------------
(* sodaInstrAssertLessThen: the wires are unsigned, 64 bits of them here    *)
(* WordWidth.                                                              *)
AssertReset == [reg |-> FALSE, done |-> FALSE]
AssertEdge(r, start) == [reg |-> start, done |-> r.reg]
AssertDisplay(r, it, max) == IF r.reg THEN << <<"assert", Word(it) < Word(max)>> >> ELSE << >>

-----------------------------------------------------------------------------
(* sodaInstrHWCounters.                                                    *)

\* The final report: a line for every location.
FinalReport(kind, r) == [k \in 1 .. 2^LocWidth |-> <<kind, k - 1, r.counters[k - 1]>>]

CountersReset ==
  [reg |-> FALSE, pending |-> FALSE, done |-> FALSE,
   counters |-> Zeroes, running |-> [l \in Locations |-> FALSE]]

\* Mutant of CountersNext: a counter runs with the clock, not with the calls.
CountersNext_Cycles(r, start, location) ==
  [l \in Locations |-> IF r.running[l] THEN Bump(r.counters[l]) ELSE r.counters[l]]

\* The counters that run move in the start cycle of a call; a report moves none.
CountersNext(r, start, location) ==
  [l \in Locations |->
     IF r.running[l] /\ start /\ location # Report THEN Bump(r.counters[l]) ELSE r.counters[l]]

\* action reaches running in every cycle, with a call or without one.
RunningNext(r, action, location) ==
  IF location = Report THEN r.running ELSE [r.running EXCEPT ![LocIdx(location)] = action]

\* Mutant of CountersEdge: a report is not acknowledged.
CountersEdge_SilentReport(r, start, action, location) ==
  [reg |-> start /\ location # Report, pending |-> start /\ location = Report, done |-> r.reg,
   counters |-> CountersNext(r, start, location), running |-> RunningNext(r, action, location)]

CountersEdge(r, start, action, location) ==
  [reg |-> start, pending |-> start /\ location = Report, done |-> r.reg,
   counters |-> CountersNext(r, start, location), running |-> RunningNext(r, action, location)]

CountersDisplay(r, location) ==
  CASE ~r.reg                 -> << >>
    [] r.reg /\ r.pending     -> FinalReport("FINAL counter", r)
    [] r.reg /\ ~r.pending    ->
         IF PRINT_ON_STOP THEN << <<"counter", location, r.counters[LocIdx(location)]>> >> ELSE << >>

-----------------------------------------------------------------------------
(* sodaInstrChangeLocation.                                                *)
LocationReset ==
  [reg |-> FALSE, pending |-> FALSE, done |-> FALSE,
   counters |-> Zeroes, current |-> 0]

\* Mutant of Charged: the cycle of a call is charged to no location.
Charged_NotOnCalls(r, start) ==
  IF start THEN r.counters ELSE [r.counters EXCEPT ![r.current] = Bump(@)]

\* The active location counts in every cycle from reset on.
Charged(r, start) == [r.counters EXCEPT ![r.current] = Bump(@)]

\* Mutant of LocationEdge: every call asks for the report.
LocationEdge_AnyReports(r, start, location) ==
  [reg |-> start, pending |-> start, done |-> r.reg,
   counters |-> Charged(r, start),
   current |-> IF start /\ location # Report THEN LocIdx(location) ELSE r.current]

\* A call switches the active location, unless it asks for the report.
LocationEdge(r, start, location) ==
  [reg |-> start, pending |-> start /\ location = Report, done |-> r.reg,
   counters |-> Charged(r, start),
   current |-> IF start /\ location # Report THEN LocIdx(location) ELSE r.current]

LocationDisplay(r) == IF r.reg /\ r.pending THEN FinalReport("FINAL location", r) ELSE << >>

-----------------------------------------------------------------------------
(* sodaVectorDot.  An address is <<vector, index>>: the byte arithmetic is  *)
(* left out.  ram is the memory side: rdy and data are M_DataRdy and        *)
(* M_Rdata_ram, stored is done_port_memstore.  The datapath is an integer   *)
(* one over the raw words, whatever the type of the elements.              *)
DotReset == [state |-> "IDLE", idx |-> 0, acc |-> 0, a_val |-> 0]

NextState(r, start, len, ram) ==
  CASE r.state = "IDLE"       -> IF ~start THEN "IDLE" ELSE IF len = 0 THEN "STORE" ELSE "REQ_A"
    [] r.state = "REQ_A"      -> "WAIT_A"
    [] r.state = "WAIT_A"     -> IF ram.rdy THEN "REQ_B" ELSE "WAIT_A"
    [] r.state = "REQ_B"      -> "WAIT_B"
    [] r.state = "WAIT_B"     -> IF ram.rdy THEN "ACCUM" ELSE "WAIT_B"
    [] r.state = "ACCUM"      -> IF r.idx + 1 >= len THEN "STORE" ELSE "REQ_A"
    [] r.state = "STORE"      -> "STORE_WAIT"
    [] r.state = "STORE_WAIT" -> IF ram.stored THEN "DONE" ELSE "STORE_WAIT"
    [] r.state = "DONE"       -> "IDLE"

\* Mutant of Accumulate: the sum is not cleared between two calls.
Accumulate_KeepsSum(r, ram) == IF r.state = "ACCUM" THEN Word(r.acc + r.a_val * ram.data) ELSE r.acc

\* The b operand is what the memory last answered, read a cycle after its answer.
Accumulate(r, ram) ==
  CASE r.state = "IDLE"  -> 0
    [] r.state = "ACCUM" -> Word(r.acc + r.a_val * ram.data)
    [] OTHER             -> r.acc

DotEdge(r, start, len, ram) ==
  [state |-> NextState(r, start, len, ram),
   idx   |-> CASE r.state = "IDLE" -> 0 [] r.state = "ACCUM" -> r.idx + 1 [] OTHER -> r.idx,
   acc   |-> Accumulate(r, ram),
   a_val |-> IF r.state = "WAIT_A" /\ ram.rdy THEN ram.data ELSE r.a_val]

\* What the module asks of the memory in a cycle.  In the last two states the
\* FSM's own defaults, 0, and my_result_store drive the same ports: storeDrives
\* says which of the two they carry.
DotRequest(r, storeDrives) ==
  CASE r.state \in {"REQ_A", "WAIT_A"}     -> << "a", r.idx + 1 >>
    [] r.state \in {"REQ_B", "WAIT_B"}     -> << "b", r.idx + 1 >>
    [] r.state \in {"STORE", "STORE_WAIT"} -> IF storeDrives THEN << "out", r.acc >> ELSE << >>
    [] OTHER                               -> << >>

DotDone(r) == r.state = "DONE"
=============================================================================
