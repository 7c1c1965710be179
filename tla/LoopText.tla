------------------------------ MODULE LoopText ------------------------------
(***************************************************************************)
(* A function as flat text: records whose op is "for" and "end", "if" and  *)
(* "fi" in matching pairs, or an operation.  What InstrPasses.cpp asks of  *)
(* it: the bodies of its loops, and the ids its walks give them.           *)
(***************************************************************************)
EXTENDS Integers, Sequences, FiniteSets

Opens(op)  == op \in {"for", "if"}
Closes(op) == op \in {"end", "fi"}

\* How many regions are open after position p.
Depth(code, p) ==
  Cardinality({q \in 1 .. p : Opens(code[q].op)}) - Cardinality({q \in 1 .. p : Closes(code[q].op)})

\* The region that opens at p ends at q.
EndsAt(code, p, q) ==
  /\ Depth(code, q) = Depth(code, p) - 1
  /\ \A r \in p .. q - 1 : Depth(code, r) >= Depth(code, p)

End(code, p) == CHOOSE q \in p + 1 .. Len(code) : EndsAt(code, p, q)

Loops(code) == {p \in DOMAIN code : code[p].op = "for"}

\* The loop whose body ends at q.
LoopOf(code, q) == CHOOSE p \in Loops(code) : End(code, p) = q

\* The text is structured: each loop ends, and each "end" is that of a loop.
Structured(code) ==
  /\ Len(code) \in Nat /\ DOMAIN code = 1 .. Len(code)
  /\ \A l \in Loops(code) :
       /\ End(code, l) \in l + 1 .. Len(code) /\ EndsAt(code, l, End(code, l))
       /\ code[End(code, l)].op = "end"
  /\ \A q \in DOMAIN code : code[q].op = "end" =>
       LoopOf(code, q) \in Loops(code) /\ End(code, LoopOf(code, q)) = q

\* The loops in whose bodies position p stands.
LoopsAround(code, p) == {l \in Loops(code) : l < p /\ p <= End(code, l)}

\* funcOp.walk visits inner loops first and loopId starts at 0 in each function:
\* a loop's id is how many loops end before it does.
LoopId(code, p) == Cardinality({q \in Loops(code) : End(code, q) < End(code, p)})

\* The loop in whose body, but in no inner region, position p stands.
DirectlyIn(code, l, p) == l < p /\ p < End(code, l) /\ Depth(code, p) = Depth(code, l)
=============================================================================
