--------------------------- MODULE DataflowStreams ---------------------------
(***************************************************************************)
(* An affine function after sodap-convert-memrefs-to-streams and           *)
(* sodap-create-dataflow-tasks: its bands are the stages of a dispatch and *)
(* run concurrently, and the buffers between them are FIFO channels        *)
(* (dataflow.stream, stream_read, stream_write).                           *)
(*                                                                         *)
(* A value is identified by the store that made it: <<band, access>>.  As  *)
(* long as every load returns the value it returned when the bands ran one *)
(* after the other over arrays, every band computes what it computed then. *)
(***************************************************************************)
EXTENDS AffineBands

CONSTANT Programs   \* the functions given to the pass

\* A function's buffers are counted, and its loads and stores are of them.
AccessesOf(p) ==
  [op : {"load", "store"}, buf : DOMAIN p.bufs, args : Seq(Nat), map : Seq(Seq(Nat)),
   when : {"always", "first", "last"}, guard : Nat]

ASSUME ProgramsAssumption ==
  \A p \in Programs :
    /\ p.bands \in Seq([loops : Seq(Seq(Int)), body : Seq(AccessesOf(p))])
    /\ \A b \in DOMAIN p.bufs : p.bufs[b].elems \in Nat

VARIABLES
  prog,   \* the function, all of whose buffers were converted
  code,   \* per band, the accesses it makes, in order
  at,     \* per band, how many of them it has made
  chan,   \* per buffer, the values in its channel
  loads   \* per band and access, the value a load returned; NoValue before

NoValue == << >>
program == <<prog, code>>
vars == <<prog, code, at, chan, loads>>

Bands   == DOMAIN prog.bands
AllBands == UNION {DOMAIN p.bands : p \in Programs}
Buffers == DOMAIN prog.bufs

Converted(p) == \A b \in DOMAIN p.bufs : BufferToStream(p, b)

Init ==
  /\ prog \in {p \in Programs : Converted(p)}
  /\ code = [s \in Bands |-> Trace(prog.bands[s])]
  /\ at = [s \in Bands |-> 0]
  /\ chan = [b \in Buffers |-> << >>]
  /\ loads = [s \in Bands |-> [k \in DOMAIN code[s] |-> NoValue]]

Upcoming(s, op) == at[s] < Len(code[s]) /\ code[s][at[s] + 1].op = op
Advance(s) == at' = [at EXCEPT ![s] = @ + 1]
Chan(s) == code[s][at[s] + 1].buf

\* dataflow.stream_write pushes, and waits while the channel is full.
StreamWrite(s) ==
  /\ Upcoming(s, "store")
  /\ Len(chan[Chan(s)]) < StreamDepth(prog, Chan(s))
  /\ chan' = [chan EXCEPT ![Chan(s)] = Append(@, <<s, at[s] + 1>>)]
  /\ Advance(s)
  /\ UNCHANGED <<program, loads>>

\* Mutant of StreamRead: the popped value is dropped.
StreamRead_NoResult(s) ==
  /\ Upcoming(s, "load")
  /\ chan[Chan(s)] # << >>
  /\ loads' = [loads EXCEPT ![s][at[s] + 1] = <<0, 0>>]
  /\ chan' = [chan EXCEPT ![Chan(s)] = Tail(@)]
  /\ Advance(s)
  /\ UNCHANGED program

\* dataflow.stream_read pops, and waits while the channel is empty.
StreamRead(s) ==
  /\ Upcoming(s, "load")
  /\ chan[Chan(s)] # << >>
  /\ loads' = [loads EXCEPT ![s][at[s] + 1] = Head(chan[Chan(s)])]
  /\ chan' = [chan EXCEPT ![Chan(s)] = Tail(@)]
  /\ Advance(s)
  /\ UNCHANGED program

Stage(s) == StreamWrite(s) \/ StreamRead(s)

Next == \E s \in Bands : Stage(s)

Spec == Init /\ [][Next]_vars

\* Stages are hardware modules (or calls of one function after the other): a
\* stage that can go on does.
FairSpec == Spec /\ \A s \in AllBands : WF_vars(s \in Bands /\ Stage(s))

-----------------------------------------------------------------------------
\* The last store of the element the k-th access of band s loads, when the
\* bands run one after the other; <<0, 0>> when it was never stored.
StoredBefore(s, k) ==
  {u \in UNION {{r} \X DOMAIN code[r] : r \in 1 .. s} :
     /\ u[1] < s \/ u[2] < k
     /\ code[u[1]][u[2]] = [code[s][k] EXCEPT !.op = "store"]}
LastStore(s, k) ==
  IF StoredBefore(s, k) = {} THEN <<0, 0>>
  ELSE CHOOSE u \in StoredBefore(s, k) :
         \A v \in StoredBefore(s, k) : v[1] < u[1] \/ (v[1] = u[1] /\ v[2] <= u[2])

\* The loads band s has made.
Loaded(s) == {k \in 1 .. at[s] : code[s][k].op = "load"}

\* A channel never holds more than its depth, and what a band loaded is a value
\* some band stored into the buffer it loads from.
TypeOK ==
  /\ prog \in Programs
  /\ at \in [Bands -> Nat]
  /\ \A s \in Bands : at[s] <= Len(code[s])
  /\ \A b \in Buffers : Len(chan[b]) <= StreamDepth(prog, b)
  /\ \A s \in Bands : \A k \in Loaded(s) :
       LET u == loads[s][k]
       IN  /\ u[1] \in Bands /\ u[2] \in DOMAIN code[u[1]]
           /\ code[u[1]][u[2]].op = "store" /\ code[u[1]][u[2]].buf = code[s][k].buf

\* Converting the buffers does not change the program: every load returns what
\* it returned when the bands ran in sequence over arrays.
SameValues ==
  \A s \in Bands : \A k \in Loaded(s) : loads[s][k] = LastStore(s, k)

\* Where access k of a band stands among those that do the same to its buffer.
Place(accesses, k) ==
  Cardinality({i \in 1 .. k : accesses[i].op = accesses[k].op /\ accesses[i].buf = accesses[k].buf})

\* The n-th load of a buffer is of the element that the n-th store, of an earlier
\* band, is the last to store: what BufferToStream looks for in bands and maps.
InStep(p) ==
  \A r, s \in DOMAIN p.bands :
    LET made == Trace(p.bands[r])
        used == Trace(p.bands[s])
    IN  \A j \in DOMAIN made, k \in DOMAIN used :
          made[j].op = "store" /\ used[k].op = "load" /\ made[j].buf = used[k].buf =>
            /\ r < s
            /\ Place(made, j) = Place(used, k) =>
                 /\ made[j].elem = used[k].elem
                 /\ \A i \in j + 1 .. Len(made) : made[i] # made[j]

\* The conversion accepts a function only if a channel can stand for each buffer:
\* loads take the elements in the order of the stores, each as it was last left.
AcceptsInStep == InStep(prog)

\* Every stage ends: no cycle of waits among full and empty channels.
Completes == <>(\A s \in Bands : at[s] = Len(code[s]))
=============================================================================
