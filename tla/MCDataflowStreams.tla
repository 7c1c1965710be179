-------------------------- MODULE MCDataflowStreams --------------------------
(* Small instances of DataflowStreams: buffers of up to 2 x 2 elements.       *)
EXTENDS DataflowStreams

Access(op, b, args, map, when, guard) ==
  [op |-> op, buf |-> b, args |-> args, map |-> map, when |-> when, guard |-> guard]
Plain(op, b, args) == Access(op, b, args, [k \in DOMAIN args |-> <<k>>], "always", 1)
Band(loops, body) == [loops |-> loops, body |-> body]
Static(n) == [elems |-> n, static |-> TRUE, others |-> "none"]

Two   == <<0, 1>>
Three == <<0, 1, 2>>
Maps1 == {<< <<1>> >>}
Maps2 == {<< <<1>>, <<2>> >>, << <<2>>, <<1>> >>}

\* Every way to walk a buffer "t" in full, once: one loop over a vector, two
\* loops over a matrix in either order, and either with one more loop around,
\* inside or between and a guard that lets one of its turns through.
Walks(op) ==
  {Band(<<r>>, <<Access(op, "t", <<1>>, m, "always", 1)>>) : r \in {Two, Three}, m \in Maps1}
  \cup {Band(<<Two, Two>>, <<Access(op, "t", a, m, "always", 1)>>) :
          a \in {<<1, 2>>, <<2, 1>>}, m \in Maps2}
  \cup {Band(<<Two, Two>>, <<Access(op, "t", <<3 - g>>, m, w, g)>>) :
          g \in {1, 2}, m \in Maps1, w \in {"first", "last"}}

Elems(band) == IF Len(band.body[1].args) = 2 THEN 4 ELSE Len(band.loops[band.body[1].args[1]])
TwoBands(P, C) ==
  {[bufs |-> [t |-> Static(Elems(x))], bands |-> <<x, y>>] :
     <<x, y>> \in {<<x, y>> \in P \X C : Elems(x) = Elems(y)}}

\* load, compute, store; and a value that meets its own derivative downstream:
\* the middle band reads all of b before it writes any of c.
Chain ==
  [bufs |-> [t |-> Static(2), u |-> Static(2)],
   bands |-> << Band(<<Two>>, <<Plain("store", "t", <<1>>)>>),
                Band(<<Two>>, <<Plain("load", "t", <<1>>), Plain("store", "u", <<1>>)>>),
                Band(<<Two>>, <<Plain("load", "u", <<1>>)>>) >>]
Reconvergent ==
  [bufs |-> [a |-> Static(2), b |-> Static(2), c |-> Static(2)],
   bands |-> << Band(<<Two>>, <<Plain("store", "a", <<1>>), Plain("store", "b", <<1>>)>>),
                Band(<<Two, Two>>, <<Access("load", "b", <<2>>, << <<1>> >>, "first", 1),
                                     Access("store", "c", <<2>>, << <<1>> >>, "last", 1)>>),
                Band(<<Two>>, <<Plain("load", "c", <<1>>), Plain("load", "a", <<1>>)>>) >>]

\* Two consumers: declined.
Fork ==
  [bufs |-> [t |-> Static(2)],
   bands |-> << Band(<<Two>>, <<Plain("store", "t", <<1>>)>>),
                Band(<<Two>>, <<Plain("load", "t", <<1>>)>>),
                Band(<<Two>>, <<Plain("load", "t", <<1>>)>>) >>]

OncePrograms == TwoBands(Walks("store"), Walks("load")) \cup {Chain, Reconvergent, Fork}

\* The operand of a product: row i of t is loaded again for every column j.
Reread ==
  [bufs |-> [t |-> Static(4)],
   bands |-> << Band(<<Two, Two>>, <<Plain("store", "t", <<1, 2>>)>>),
                Band(<<Two, Two, Two>>, <<Plain("load", "t", <<1, 3>>)>>) >>]
RereadPrograms == {Reread}

\* What the proofs assume of converted programs (AcceptsInStep) is not so of this one.
ASSUME RereadIsNot == Converted(Reread) /\ ~InStep(Reread)
=============================================================================
