----------------------------- MODULE AffineBands -----------------------------
(***************************************************************************)
(* Loop bands of an affine function and the analysis that decides which of *)
(* its buffers become streams (AffineToDataflow/Utils.cpp and              *)
(* ConvertMemRefsToStreams.cpp).  Pure operators, no state.                *)
(*                                                                         *)
(* A band is a perfect nest: for each loop, outermost first, the values its*)
(* induction variable takes (bounds and step), and the accesses of its     *)
(* body.  An access has the operands of its affine map (the number of the  *)
(* enclosing loop whose induction variable it is, 0 for any other value),  *)
(* the map (per dimension of the buffer, the operands it adds up), and the *)
(* affine.if around it: "always", or at the first or last value of a loop. *)
(***************************************************************************)
EXTENDS Integers, Sequences, SequencesExt, Ranking

NullMap == <<0>>    \* the null AffineMap: no permutation holds a 0

IsPermutation(values) == ToSet(values) = 1 .. Len(values)

PositionIn(seq, v) == CHOOSE i \in DOMAIN seq : seq[i] = v

\* The first occurrence of each element, in order.
Distinct(seq) ==
  FoldLeft(LAMBDA acc, v : IF Contains(acc, v) THEN acc ELSE Append(acc, v), << >>, seq)

\* The enclosing loops whose induction variable indexes the buffer, outermost first.
RelevantLoops(band, a) ==
  SelectSeq([l \in DOMAIN band.loops |-> l], LAMBDA l : Contains(a.args, l))

\* getMinimalAccessPattern: the order in which the dimensions of the relevant
\* loops appear in the index, if each operand is one of them.
getMinimalAccessPattern(band, a) ==
  LET relevant  == RelevantLoops(band, a)
      analysable == /\ Len(relevant) = Len(a.args)
                    /\ ToSet(a.args) = ToSet(relevant)
      loopOrder == [k \in DOMAIN a.args |-> PositionIn(relevant, a.args[k])]
      reordered == [d \in DOMAIN a.map |-> [j \in DOMAIN a.map[d] |-> loopOrder[a.map[d][j]]]]
      locations == Distinct(FlattenSeq(reordered))
  IN  IF analysable /\ IsPermutation(locations) THEN locations ELSE NullMap

-----------------------------------------------------------------------------
(* The conversion.  A program has buffers (how many elements, whether that *)
(* is static, the users that are neither affine load nor store) and bands, *)
(* in the order of the function.                                           *)

Users(p, b, op) ==
  UNION {{<<s, i>> : i \in {i \in DOMAIN p.bands[s].body :
                              /\ p.bands[s].body[i].buf = b
                              /\ p.bands[s].body[i].op = op}} : s \in DOMAIN p.bands}

\* Two accesses walk the buffer alike, as far as BufferToStream looks.
SameOrder(p, u, v) ==
  LET pattern(w) == getMinimalAccessPattern(p.bands[w[1]], p.bands[w[1]].body[w[2]])
      map(w)     == p.bands[w[1]].body[w[2]].map
  IN  pattern(u) # NullMap /\ pattern(u) = pattern(v) /\ map(u) = map(v)

\* Mutant of BufferToStream: the access order is not compared.
BufferToStream_AnyOrder(p, b) ==
  /\ p.bufs[b].static
  /\ p.bufs[b].others \in {"none", "dealloc"}
  /\ \E l \in Users(p, b, "load"), st \in Users(p, b, "store") :
       /\ Users(p, b, "load") = {l} /\ Users(p, b, "store") = {st}
       /\ l[1] # st[1]

\* BufferToStream::matchAndRewrite succeeds: static shape, no user but affine
\* accesses and deallocs, one load and one store, in different loops, and the
\* same order.  The load and store of one perfect band share their loop.
BufferToStream(p, b) ==
  /\ p.bufs[b].static
  /\ p.bufs[b].others \in {"none", "dealloc"}
  /\ \E l \in Users(p, b, "load"), st \in Users(p, b, "store") :
       /\ Users(p, b, "load") = {l} /\ Users(p, b, "store") = {st}
       /\ l[1] # st[1]
       /\ SameOrder(p, l, st)

\* Mutant of StreamDepth: the depth StreamOp has by default.
StreamDepth_One(p, b) == 1

\* The depth of the channel: every element of the buffer.
StreamDepth(p, b) == p.bufs[b].elems

-----------------------------------------------------------------------------
(* What a band executes: affine.for runs its loops in lexicographic order. *)

\* How many iterations of the loops inside loop l one iteration of l has.
Inner(band, l) ==
  LET from[m \in l .. Len(band.loops)] ==
        IF m = Len(band.loops) THEN 1 ELSE from[m + 1] * Len(band.loops[m + 1])
  IN  from[l]

Iterations(band) == Inner(band, 0)

\* Where loop l stands in iteration k (from 0) of the whole band.
Turn(band, l, k) == 1 + ((k \div Inner(band, l)) % Len(band.loops[l]))

Executes(band, a, k) ==
  CASE a.when = "always" -> TRUE
    [] a.when = "first"  -> Turn(band, a.guard, k) = 1
    [] a.when = "last"   -> Turn(band, a.guard, k) = Len(band.loops[a.guard])

\* The element of the buffer that iteration k accesses.
Element(band, a, k) ==
  [d \in DOMAIN a.map |->
     FoldLeft(LAMBDA sum, o : sum + band.loops[a.args[o]][Turn(band, a.args[o], k)],
              0, a.map[d])]

\* Every access the band makes, in order: turn m of the body's n accesses is
\* access m % n in iteration m \div n.
Trace(band) ==
  LET n == Len(band.body)
      access(m) == band.body[1 + (m % n)]
      turns == {m \in 0 .. n * Iterations(band) - 1 : Executes(band, access(m), m \div n)}
      made(m) == [op |-> access(m).op, buf |-> access(m).buf, elem |-> Element(band, access(m), m \div n)]
  IN  [k \in 1 .. Cardinality(turns) |-> made(Ranked(turns, k))]
=============================================================================
