------------------------- MODULE MetricsCollection --------------------------
(***************************************************************************)
(* What the collectors of sb_cli/collect.py read of a Bambu log.  A log is *)
(* a sequence of lines, each a tuple that starts with what the line is:    *)
(* <<"counter", location, count>>, <<"assert", outcome>>, <<"cycles", n>>, *)
(* and lines no collector looks for.                                       *)
(***************************************************************************)
EXTENDS Integers, Sequences, FiniteSets

LinesOf(log, kind) == {i \in DOMAIN log : log[i][1] = kind}

\* parse_cycle_count: the first such line, or nothing (a set of at most one).
parse_cycle_count(log) ==
  {log[i][2] : i \in {j \in LinesOf(log, "cycles") : \A k \in LinesOf(log, "cycles") : j <= k}}

\* Mutant of LineFor: the first print of a location is kept.
LineFor_First(log, location) ==
  CHOOSE i \in LinesOf(log, "counter") :
    /\ log[i][2] = location
    /\ \A j \in LinesOf(log, "counter") : log[j][2] = location => i <= j

\* Each print of a location takes the place of the one before it.
LineFor(log, location) ==
  CHOOSE i \in LinesOf(log, "counter") :
    /\ log[i][2] = location
    /\ \A j \in LinesOf(log, "counter") : log[j][2] = location => j <= i

\* The "FINAL" lines of a report do not have the form the collector looks for.
hw_counter_final_count_by_location(log) ==
  [location \in {log[i][2] : i \in LinesOf(log, "counter")} |-> log[LineFor(log, location)][3]]

assertion_results(log) ==
  [outcome \in BOOLEAN |-> Cardinality({i \in LinesOf(log, "assert") : log[i][2] = outcome})]
=============================================================================
