------------------------ MODULE ExperimentStore_proofs ------------------------
(***************************************************************************)
(* Proofs about the experiment store, for every number of processes, every *)
(* set of commands, every clock and counter bound, and a crash anywhere    *)
(* unless a theorem says otherwise.                                        *)
(***************************************************************************)
EXTENDS ExperimentStore, DataLemmas, FiniteSetTheorems

-----------------------------------------------------------------------------
(* The operators the store is built from.                                  *)

\* Lookup takes the directory of one of the entries of the name, the last.
LEMMA LookupIsAnEntry ==
  ASSUME NEW T, Entries \in Seq(T), NEW n, Registered(n)
  PROVE  \E i \in DOMAIN Entries :
           Entries[i] \in T /\ Entries[i].name = n /\ Lookup(n) = Entries[i].dir
<1> DEFINE I == {i \in DOMAIN Entries : Entries[i].name = n}
<1>1. DOMAIN Entries = 1 .. Len(Entries) /\ Len(Entries) \in Nat
  OBVIOUS
<1>2. I \in SUBSET Nat /\ I # {} /\ \A i \in I : i <= Len(Entries)
  BY <1>1 DEF Registered
<1>3. Max(I) \in I
  BY <1>1, <1>2, MaxIsGreatest
<1>4. \A i \in DOMAIN Entries : Entries[i] \in T
  OBVIOUS
<1>5. QED
  BY <1>3, <1>4 DEF Lookup

\* The bounds are natural numbers.
LEMMA BoundsTyped ==
  MaxCounter \in Nat /\ MaxClock \in Nat /\ MaxCommands \in Nat /\ Commands # {}
BY Zenon, StoreAssumption

\* The fields of a command.
LEMMA CommandFields ==
  ASSUME NEW c \in Commands
  PROVE  c.op \in {"init", "fork"} /\ c.src \in Names /\ c.out \in Names \cup {AutoName}
<1>1. c \in [op : {"init", "fork"}, src : Names, out : Names \cup {AutoName},
            target : BOOLEAN, ips : BOOLEAN]
  BY Zenon, StoreAssumption
<1>2. QED
  BY <1>1

\* A write that raced with another leaves its own text, or one that no longer
\* parses.
LEMMA OverlaidLeaves ==
  ASSUME NEW f, NEW g \in Overlaid(f)
  PROVE  g = f \/ g = File("broken", << >>)
BY DEF Overlaid

\* Removing the i-th element of a sequence closes the gap.
LEMMA RemoveAtElements ==
  ASSUME NEW T, NEW s \in Seq(T), NEW i \in DOMAIN s
  PROVE  /\ RemoveAt(s, i) \in Seq(T)
         /\ DOMAIN RemoveAt(s, i) = 1 .. Len(s) - 1
         /\ \A j \in 1 .. Len(s) - 1 : RemoveAt(s, i)[j] = s[IF j < i THEN j ELSE j + 1]
<1> DEFINE a == SubSeq(s, 1, i - 1)
           b == SubSeq(s, i + 1, Len(s))
<1>1. Len(s) \in Nat /\ i \in 1 .. Len(s)
  OBVIOUS
<1>2. a \in Seq(T) /\ Len(a) = i - 1 /\ \A j \in 1 .. i - 1 : a[j] = s[j]
  BY <1>1
<1>3. b \in Seq(T) /\ Len(b) = Len(s) - i /\ \A j \in 1 .. Len(s) - i : b[j] = s[i + j]
  BY <1>1
<1>4. RemoveAt(s, i) = a \o b
  BY DEF RemoveAt
<1> HIDE DEF a, b
<1>5. QED
  BY <1>1, <1>2, <1>3, <1>4

\* What is left were distinct elements before.
LEMMA RemoveAtEmbeds ==
  ASSUME NEW T, NEW s \in Seq(T), NEW i \in DOMAIN s
  PROVE  \A j, k \in DOMAIN RemoveAt(s, i) : \E m, n \in DOMAIN s :
           /\ RemoveAt(s, i)[j] = s[m] /\ RemoveAt(s, i)[k] = s[n]
           /\ m = n => j = k
<1> DEFINE rs == RemoveAt(s, i)
           at(j) == IF j < i THEN j ELSE j + 1
<1>1. DOMAIN s = 1 .. Len(s) /\ Len(s) \in Nat /\ i \in 1 .. Len(s)
  OBVIOUS
<1>2. DOMAIN rs = 1 .. Len(s) - 1 /\ \A j \in 1 .. Len(s) - 1 : rs[j] = s[at(j)]
  BY RemoveAtElements
<1>3. \A j \in 1 .. Len(s) - 1 : at(j) \in 1 .. Len(s)
  BY <1>1
<1>4. \A j, k \in 1 .. Len(s) - 1 : at(j) = at(k) => j = k
  BY <1>1
<1> HIDE DEF rs, at
<1>5. \A j, k \in DOMAIN rs : \E m, n \in DOMAIN s :
        rs[j] = s[m] /\ rs[k] = s[n] /\ (m = n => j = k)
  BY <1>1, <1>2, <1>3, <1>4
<1>6. QED
  BY <1>5 DEF rs

\* Appending adds one element after those that are there.
LEMMA AppendElements ==
  ASSUME NEW T, NEW s \in Seq(T), NEW e \in T
  PROVE  /\ Append(s, e) \in Seq(T)
         /\ \A i \in DOMAIN Append(s, e) :
              \/ i \in DOMAIN s /\ Append(s, e)[i] = s[i]
              \/ i = Len(s) + 1 /\ Append(s, e)[i] = e
OBVIOUS
\* The points at which a command looks for its source, tries a name, and has its
\* name, its second and its directory.
Sourcing == {"ensure0", "make0", "fill_make0", "resolve", "reload"}
Trying  == {"look", "ensure", "make", "fill_make", "load"}
Named   == Points \ ({"idle"} \cup Sourcing \cup Trying)
Stamped == Named \ {"named"}
Made    == Stamped \ {"stamped"}

\* The commands that may still create a directory.
Pending == {p \in Procs : pc[p] \in Points \ (Made \cup {"idle"})}

\* What a running command knows of itself.
Progress ==
  \A p \in Procs :
    /\ pc[p] # "idle" => id[p] \in 1 .. MaxCommands
    /\ pc[p] \in Trying \cup Named => name[p] \in Names
    /\ pc[p] \in Stamped => stamp[p] \in Stamps
    /\ pc[p] \in Made => stamp[p] \in DOMAIN dirs
    /\ text[p].st # "absent"

\* Every directory was made by a command of its own, which is why _timestamp
\* always finds a suffix.
Budget ==
  /\ IsFiniteSet(DOMAIN dirs) /\ IsFiniteSet(Pending)
  /\ Cardinality(DOMAIN dirs) + Cardinality(Pending) <= issued

TypeInv == TypeOK /\ Progress /\ Budget

\* _timestamp finds a suffix no directory of this second has: there are fewer
\* directories than commands, and this one has none yet.
LEMMA FreshStampIsFresh ==
  ASSUME TypeInv, NEW p \in Pending
  PROVE  FreshStamp \in Stamps /\ FreshStamp \notin DOMAIN dirs
<1> DEFINE K == {k \in 0 .. MaxCommands : [t |-> now, k |-> k] \notin DOMAIN dirs}
           f == [k \in 0 .. MaxCommands |-> [t |-> now, k |-> k]]
<1>1. now \in 0 .. MaxClock /\ issued \in 0 .. MaxCommands
  BY DEF TypeInv, TypeOK
<1>2. Cardinality(DOMAIN dirs) \in Nat /\ Cardinality(Pending) \in Nat
  BY FS_CardinalityType DEF TypeInv, Budget
<1>3. Cardinality(Pending) # 0
  BY FS_EmptySet DEF TypeInv, Budget
<1>4. Cardinality(DOMAIN dirs) < MaxCommands
  BY <1>1, <1>2, <1>3, BoundsTyped DEF TypeInv, Budget
<1>5. K # {}
  <2> SUFFICES ASSUME K = {} PROVE FALSE
    OBVIOUS
  <2>1. f \in Injection(0 .. MaxCommands, DOMAIN dirs)
    BY DEF Injection, IsInjective
  <2>2. Cardinality(0 .. MaxCommands) <= Cardinality(DOMAIN dirs)
    BY <2>1, FS_Injection DEF TypeInv, Budget
  <2>3. Cardinality(0 .. MaxCommands) = MaxCommands + 1
    BY FS_Interval, BoundsTyped
  <2>4. QED
    BY <1>2, <1>4, <2>2, <2>3, BoundsTyped
<1>6. K \in SUBSET Nat
  OBVIOUS
<1>7. Min(K) \in K
  BY <1>5, <1>6, MinIsLeast
<1>8. FreshStamp = [t |-> now, k |-> Min(K)]
  BY DEF FreshStamp
<1> HIDE DEF K
<1>9. Min(K) \in 0 .. MaxCommands /\ [t |-> now, k |-> Min(K)] \notin DOMAIN dirs
  BY <1>7 DEF K
<1>10. QED
  BY <1>1, <1>8, <1>9 DEF Stamps

-----------------------------------------------------------------------------
(* Types.                                                                  *)

\* The store starts out empty and every process idle.
LEMMA InitTypes == Init => TypeInv
<1> SUFFICES ASSUME Init PROVE TypeInv
  OBVIOUS
<1>1. Pending = {} /\ DOMAIN dirs = {}
  BY DEF Init, Pending, Points, Made, Stamped, Named, Sourcing, Trying
<1>2. Budget
  BY <1>1, FS_EmptySet DEF Budget, Init
<1>3. Progress
  BY DEF Init, Progress, Points, Made, Stamped, Named, Sourcing, Trying, Template, File
<1>4. TypeOK
  <2>1. cmd \in [Procs -> Commands]
    BY BoundsTyped DEF Init
  <2>2. registry \in FileType /\ text \in [Procs -> FileType]
    BY DEF Init, FileType, File, Template
  <2>3. QED
    BY <2>1, <2>2, <1>1, BoundsTyped DEF Init, TypeOK, Points
<1>5. QED
  BY <1>2, <1>3, <1>4 DEF TypeInv

\* A step that makes no directory and issues no command keeps the budget.
LEMMA BudgetKept ==
  ASSUME TypeInv, IsFiniteSet(DOMAIN dirs'), Cardinality(DOMAIN dirs') <= Cardinality(DOMAIN dirs),
         Pending' \subseteq Pending, issued' = issued
  PROVE  Budget'
<1>1. IsFiniteSet(Pending') /\ Cardinality(Pending') <= Cardinality(Pending)
  BY FS_Subset DEF TypeInv, Budget
<1>2. /\ Cardinality(DOMAIN dirs) \in Nat /\ Cardinality(DOMAIN dirs') \in Nat
      /\ Cardinality(Pending) \in Nat /\ Cardinality(Pending') \in Nat
      /\ issued \in Nat
  BY <1>1, FS_CardinalityType DEF TypeInv, Budget, TypeOK
<1>3. QED
  BY <1>1, <1>2 DEF TypeInv, Budget

\* The steps of a command that touch neither a directory nor the registry, and
\* those that rewrite the registry, keep the types.
LEMMA StepTypesRegistry ==
  ASSUME TypeInv, NEW p \in Procs, UNCHANGED <<dirs, links, now, issued, local>>,
         NEW from \in Points, NEW to \in Points, Step(p, from, to),
         registry' \in FileType, registry'.st = "absent" => registry.st = "absent",
         to \in {"resolve", "reload", "load", "read"} => registry'.st # "absent",
         from = "idle" => to = "idle",
         to \in Trying => from \in Trying,
         to \in Named => from \in Named,
         to \in Stamped => from \in Stamped,
         to \in Made => from \in Made,
         to \notin Made \cup {"idle"} => from \notin Made \cup {"idle"}
  PROVE  TypeInv'
<1> USE DEF TypeInv, Step, local
<1>1. TypeOK'
  BY DEF TypeOK
<1>2. Progress'
  BY DEF Progress, TypeOK
<1>3. Budget'
  <2>1. Pending' \subseteq Pending
    BY DEF Pending, TypeOK
  <2>2. DOMAIN dirs' = DOMAIN dirs
    OBVIOUS
  <2>3. IsFiniteSet(DOMAIN dirs') /\ Cardinality(DOMAIN dirs') <= Cardinality(DOMAIN dirs)
    BY <2>2, FS_CardinalityType DEF Budget
  <2>4. QED
    BY <2>1, <2>3, BudgetKept
<1>4. QED
  BY <1>1, <1>2, <1>3

\* A text that is already of the type of the file is written as one, and the file
\* is there afterwards.
LEMMA OverlaidTyped ==
  ASSUME NEW f \in FileType, f.st # "absent", NEW g \in Overlaid(f)
  PROVE  g \in FileType /\ g.st # "absent"
<1>1. File("broken", << >>) \in FileType /\ File("broken", << >>).st = "broken"
  BY DEF File, FileType
<1>2. QED
  BY <1>1, OverlaidLeaves

\* The template and a truncated file are of the type of the file.
LEMMA FilesTyped ==
  /\ Template \in FileType /\ Template.st = "dict"
  /\ File("empty", << >>) \in FileType /\ File("empty", << >>).st = "empty"
BY DEF Template, File, FileType

\* Creating the file before a load or before an append keeps the types.
LEMMA EnsureTypes ==
  ASSUME TypeInv, NEW p \in Procs, EnsureForSource(p) \/ EnsureForLoad(p) \/ EnsureForAppend(p)
  PROVE  TypeInv'
<1> USE DEF Points, Made, Stamped, Named, Sourcing, Trying
<1>0. registry \in FileType
  BY DEF TypeInv, TypeOK
<1>1. CASE EnsureForLoad(p)
  <2>1. CASE Step(p, "ensure", IF registry.st = "absent" THEN "make" ELSE "load")
             /\ UNCHANGED <<store, now, issued, local>>
    BY <2>1, <1>0, StepTypesRegistry DEF store
  <2>2. CASE Step(p, "make", "fill_make") /\ registry' = File("empty", << >>)
             /\ UNCHANGED <<dirs, links, now, issued, local>>
    BY <2>2, FilesTyped, StepTypesRegistry
  <2>3. CASE Step(p, "fill_make", "load") /\ registry' \in Overlaid(Template)
             /\ UNCHANGED <<dirs, links, now, issued, local>>
    BY <2>3, FilesTyped, OverlaidTyped, StepTypesRegistry
  <2>4. QED
    BY <1>1, <2>1, <2>2, <2>3 DEF EnsureForLoad, EnsureExists
<1>2. CASE EnsureForAppend(p)
  <2>1. CASE Step(p, "ensure2", IF registry.st = "absent" THEN "make2" ELSE "read")
             /\ UNCHANGED <<store, now, issued, local>>
    BY <2>1, <1>0, StepTypesRegistry DEF store
  <2>2. CASE Step(p, "make2", "fill_make2") /\ registry' = File("empty", << >>)
             /\ UNCHANGED <<dirs, links, now, issued, local>>
    BY <2>2, FilesTyped, StepTypesRegistry
  <2>3. CASE Step(p, "fill_make2", "read") /\ registry' \in Overlaid(Template)
             /\ UNCHANGED <<dirs, links, now, issued, local>>
    BY <2>3, FilesTyped, OverlaidTyped, StepTypesRegistry
  <2>4. QED
    BY <1>2, <2>1, <2>2, <2>3 DEF EnsureForAppend, EnsureExists
<1>3. CASE EnsureForSource(p)
  <2>1. CASE Step(p, "ensure0", IF registry.st = "absent" THEN "make0" ELSE "resolve")
             /\ UNCHANGED <<store, now, issued, local>>
    BY <2>1, <1>0, StepTypesRegistry DEF store
  <2>2. CASE Step(p, "make0", "fill_make0") /\ registry' = File("empty", << >>)
             /\ UNCHANGED <<dirs, links, now, issued, local>>
    BY <2>2, FilesTyped, StepTypesRegistry
  <2>3. CASE Step(p, "fill_make0", "resolve") /\ registry' \in Overlaid(Template)
             /\ UNCHANGED <<dirs, links, now, issued, local>>
    BY <2>3, FilesTyped, OverlaidTyped, StepTypesRegistry
  <2>4. QED
    BY <1>3, <2>1, <2>2, <2>3 DEF EnsureForSource, EnsureExists
<1>4. QED
  BY <1>1, <1>2, <1>3

\* Giving up, dying and the rewrite of registry.py keep the types.
LEMMA RewriteTypes ==
  ASSUME TypeInv, NEW p \in Procs,
         RefuseName(p) \/ AppendRead(p) \/ AppendTruncate(p) \/ AppendWrite(p) \/ Crash(p)
  PROVE  TypeInv'
<1> USE DEF Points, Made, Stamped, Named, Sourcing, Trying
<1>0. registry \in FileType /\ pc \in [Procs -> Points] /\ text \in [Procs -> FileType]
  BY DEF TypeInv, TypeOK
<1>1. CASE RefuseName(p)
  <2>1. Step(p, pc[p], "idle") /\ UNCHANGED <<dirs, links, registry, now, issued, local>>
    BY <1>1 DEF RefuseName, store
  <2>2. QED
    BY <2>1, <1>0, StepTypesRegistry
<1>2. CASE Crash(p)
  <2>1. Step(p, pc[p], "idle") /\ UNCHANGED <<dirs, links, registry, now, issued, local>>
    BY <1>2 DEF Crash, Step, store
  <2>2. QED
    BY <2>1, <1>0, StepTypesRegistry
<1>3. CASE AppendTruncate(p)
  BY <1>3, FilesTyped, StepTypesRegistry DEF AppendTruncate
<1>4. CASE AppendWrite(p)
  BY <1>4, <1>0, OverlaidTyped, StepTypesRegistry DEF AppendWrite, TypeInv, Progress
<1>5. CASE AppendRead(p)
  <2> DEFINE e == [name |-> name[p], dir |-> stamp[p]]
             f == Inserted(registry, e)
  <2>1. /\ pc[p] = "read" /\ pc' = [pc EXCEPT ![p] = "truncate"]
        /\ text' = [text EXCEPT ![p] = f]
        /\ UNCHANGED <<dirs, links, registry, now, issued, cmd, id, name, src, stamp>>
    BY <1>5 DEF AppendRead, Step, store
  <2>2. e \in EntryType
    BY <2>1 DEF TypeInv, Progress, EntryType
  <2>3. f \in FileType /\ f.st # "absent"
    <3>1. Append(registry.es, e) \in Seq(EntryType)
      BY <1>0, <2>2 DEF FileType
    <3>2. QED
      BY <3>1 DEF Inserted, File, FileType
  <2> HIDE DEF f
  <2>4. TypeOK'
    BY <2>1, <2>3 DEF TypeInv, TypeOK
  <2>5. Progress'
    BY <1>0, <2>1, <2>3 DEF TypeInv, Progress
  <2>6. Pending' = Pending
    BY <1>0, <2>1 DEF Pending
  <2>7. QED
    BY <2>1, <2>4, <2>5, <2>6 DEF TypeInv, Budget
<1>6. QED
  BY <1>1, <1>2, <1>3, <1>4, <1>5

\* The next candidate replaces the last, unless the counters have run out.
LEMMA TryNameMoves ==
  ASSUME NEW p \in Procs, NEW from, NEW st \in Stems \cup {DirStem}, NEW k \in Nat,
         TryName(p, from, [s |-> st, n |-> k])
  PROVE  /\ pc[p] = from
         /\ \/ /\ pc' = [pc EXCEPT ![p] = "look"]
               /\ \E n \in Names : name' = [name EXCEPT ![p] = n]
            \/ pc' = [pc EXCEPT ![p] = "idle"] /\ UNCHANGED name
<1> DEFINE n == [s |-> st, n |-> k]
<1>1. CASE k < MaxCounter
  <2>1. n \in Names
    BY <1>1, BoundsTyped DEF Names
  <2>2. Step(p, from, "look") /\ name' = [name EXCEPT ![p] = n]
    BY <1>1 DEF TryName
  <2>3. QED
    BY <2>1, <2>2 DEF Step
<1>2. CASE ~ (k < MaxCounter)
  BY <1>2 DEF TryName, Step
<1>3. QED
  BY <1>1, <1>2

\* The counter after that of a name.
LEMMA NextNameIs ==
  ASSUME NEW p \in Procs, name[p] \in Names
  PROVE  \E st \in Stems \cup {DirStem}, k \in Nat : NextName(p) = [s |-> st, n |-> k]
<1>1. name[p].s \in Stems \cup {DirStem} /\ name[p].n + 1 \in Nat
  BY BoundsTyped DEF Names
<1>2. NextName(p) = [s |-> name[p].s, n |-> name[p].n + 1]
  BY DEF NextName, Names
<1>3. QED
  BY <1>1, <1>2

\* What choosing the name changes: where the command is, its candidate, its source.
LEMMA ChoosingMoves ==
  ASSUME TypeInv, NEW p \in Procs, ChooseName(p)
  PROVE  /\ UNCHANGED <<dirs, links, registry, now, issued, cmd, id, stamp, text>>
         /\ pc[p] \in {"resolve", "reload", "look", "load"}
         /\ \E to \in {"reload", "look", "ensure", "load", "named", "idle"} :
              /\ pc' = [pc EXCEPT ![p] = to]
              /\ to = "reload" => pc[p] = "resolve"
              /\ to = "load" => registry.st # "absent"
         /\ \/ UNCHANGED name /\ (pc[p] \in {"resolve", "reload"} => pc'[p] \in {"reload", "idle"})
            \/ \E n \in Names : name' = [name EXCEPT ![p] = n]
         /\ \/ pc[p] # "resolve" /\ UNCHANGED src
            \/ /\ pc[p] = "resolve" /\ Registered(cmd[p].src)
               /\ src' = [src EXCEPT ![p] = Lookup(cmd[p].src)]
<1> USE DEF Step, store
<1>0. pc \in [Procs -> Points] /\ cmd[p] \in Commands
  BY DEF TypeInv, TypeOK
<1>1. CASE ResolveSource(p)
  BY <1>0, <1>1 DEF ResolveSource
<1>2. CASE SettleName(p)
  <2>1. UNCHANGED <<dirs, links, registry, now, issued, cmd, id, src, stamp, text>>
    BY <1>2 DEF SettleName
  <2>2. CASE cmd[p].out # AutoName
    <3>1. /\ pc[p] = "reload" /\ pc' = [pc EXCEPT ![p] = "named"]
          /\ name' = [name EXCEPT ![p] = cmd[p].out] /\ cmd[p].out \in Names
      BY <1>0, <1>2, <2>2, CommandFields DEF SettleName
    <3>2. QED
      BY <2>1, <3>1
  <2>3. CASE cmd[p].out = AutoName
    <3>1. PICK st \in Stems \cup {DirStem} : TryName(p, "reload", [s |-> st, n |-> 0])
      BY <1>0, <1>2, <2>3, CommandFields DEF SettleName, Names
    <3>2. QED
      BY <1>0, <2>1, <3>1, TryNameMoves
  <2>4. QED
    BY <2>2, <2>3
<1>3. ASSUME NEW from \in {"look", "load"}, pc[p] = from, TryName(p, from, NextName(p))
      PROVE  /\ \/ /\ pc' = [pc EXCEPT ![p] = "look"]
                   /\ \E n \in Names : name' = [name EXCEPT ![p] = n]
                \/ pc' = [pc EXCEPT ![p] = "idle"] /\ UNCHANGED name
  <2>1. name[p] \in Names
    BY <1>3 DEF TypeInv, Progress, Trying
  <2>2. PICK st \in Stems \cup {DirStem}, k \in Nat : NextName(p) = [s |-> st, n |-> k]
    BY <2>1, NextNameIs
  <2>3. TryName(p, from, [s |-> st, n |-> k])
    BY <1>3, <2>2 DEF TryName
  <2>4. QED
    BY <1>3, <2>3, TryNameMoves
<1>4. CASE LookForLink(p)
  <2>1. /\ UNCHANGED <<dirs, links, registry, now, issued, cmd, id, src, stamp, text>>
        /\ pc[p] = "look"
    BY <1>4 DEF LookForLink
  <2>2. CASE TryName(p, "look", NextName(p))
    BY <1>3, <2>1, <2>2
  <2>3. CASE ~ TryName(p, "look", NextName(p))
    BY <1>4, <2>1, <2>3 DEF LookForLink
  <2>4. QED
    BY <2>2, <2>3
<1>5. CASE AskRegistry(p)
  <2>1. /\ UNCHANGED <<dirs, links, registry, now, issued, cmd, id, src, stamp, text>>
        /\ pc[p] = "load"
    BY <1>5 DEF AskRegistry, TryName
  <2>2. CASE TryName(p, "load", NextName(p))
    BY <1>3, <2>1, <2>2
  <2>3. CASE ~ TryName(p, "load", NextName(p))
    BY <1>5, <2>1, <2>3 DEF AskRegistry
  <2>4. QED
    BY <2>2, <2>3
<1>6. QED
  BY <1>1, <1>2, <1>4, <1>5 DEF ChooseName

\* Choosing the name and taking the second keep the types.
LEMMA ChoiceTypes ==
  ASSUME TypeInv, NEW p \in Procs, ChooseName(p) \/ TakeStamp(p)
  PROVE  TypeInv'
<1> USE DEF TypeInv, Points, Made, Stamped, Named, Sourcing, Trying
<1>0. pc \in [Procs -> Points] /\ name \in [Procs -> Names \cup {AutoName}]
  BY DEF TypeOK
<1>1. CASE ChooseName(p)
  <2>1. PICK to \in {"reload", "look", "ensure", "load", "named", "idle"} :
          /\ pc' = [pc EXCEPT ![p] = to]
          /\ to = "reload" => pc[p] = "resolve"
          /\ to = "load" => registry.st # "absent"
    BY <1>1, ChoosingMoves
  <2>2. /\ pc[p] \in {"resolve", "reload", "look", "load"}
        /\ UNCHANGED <<dirs, links, registry, now, issued, cmd, id, stamp, text>>
    BY <1>1, ChoosingMoves
  <2>3. /\ name' \in [Procs -> Names \cup {AutoName}]
        /\ \A q \in Procs : q # p => name'[q] = name[q]
        /\ to \in Trying \cup Named => name'[p] \in Names
    <3>1. CASE UNCHANGED name /\ (pc[p] \in {"resolve", "reload"} => pc'[p] \in {"reload", "idle"})
      BY <1>0, <2>1, <2>2, <3>1 DEF Progress
    <3>2. CASE \E n \in Names : name' = [name EXCEPT ![p] = n]
      BY <1>0, <3>2
    <3>3. QED
      BY <1>1, <3>1, <3>2, ChoosingMoves
  <2>4. src' \in [Procs -> Stamps \cup {NoLink}]
    <3>1. Registered(cmd[p].src) => Lookup(cmd[p].src) \in Stamps
      <4>1. Entries \in Seq(EntryType)
        BY DEF TypeOK, FileType, Entries
      <4>2. \A e \in EntryType : e.dir \in Stamps
        BY DEF EntryType
      <4>3. QED
        BY <4>1, <4>2, LookupIsAnEntry
    <3>2. \/ UNCHANGED src
          \/ /\ Registered(cmd[p].src)
             /\ src' = [src EXCEPT ![p] = Lookup(cmd[p].src)]
      BY <1>1, ChoosingMoves
    <3>3. QED
      BY <3>1, <3>2 DEF TypeOK
  <2>5. TypeOK'
    BY <1>0, <2>1, <2>2, <2>3, <2>4 DEF TypeOK
  <2>6. Progress'
    BY <1>0, <2>1, <2>2, <2>3 DEF Progress
  <2>7. Budget'
    <3>1. Pending' \subseteq Pending
      BY <1>0, <2>1, <2>2 DEF Pending
    <3>2. IsFiniteSet(DOMAIN dirs') /\ Cardinality(DOMAIN dirs') <= Cardinality(DOMAIN dirs)
      BY <2>2, FS_CardinalityType DEF Budget
    <3>3. QED
      BY <2>2, <3>1, <3>2, BudgetKept
  <2>8. QED
    BY <2>5, <2>6, <2>7
<1>2. CASE TakeStamp(p)
  <2>1. /\ pc[p] = "named" /\ pc' = [pc EXCEPT ![p] = "stamped"]
        /\ stamp' = [stamp EXCEPT ![p] = FreshStamp]
        /\ UNCHANGED <<dirs, links, registry, now, issued, cmd, id, name, src, text>>
    BY <1>2 DEF TakeStamp, Step, store
  <2>2. p \in Pending /\ FreshStamp \in Stamps
    BY <2>1, FreshStampIsFresh DEF Pending
  <2>3. TypeOK'
    BY <2>1, <2>2 DEF TypeOK
  <2>4. Progress'
    BY <1>0, <2>1, <2>2 DEF Progress, TypeOK
  <2>5. Pending' = Pending
    BY <1>0, <2>1 DEF Pending
  <2>6. QED
    BY <2>1, <2>3, <2>4, <2>5 DEF Budget
<1>3. QED
  BY <1>1, <1>2

\* Making the directory spends what the command was allowed, so the types hold and
\* the suffixes never run out.
LEMMA MakeDirTypes ==
  ASSUME TypeInv, NEW p \in Procs, MakeDir(p)
  PROVE  TypeInv'
<1> USE DEF TypeInv, Points, Made, Stamped, Named, Sourcing, Trying
<1> DEFINE to == IF cmd[p].op = "fork" THEN "link"
                 ELSE IF cmd[p].target THEN "files" ELSE "idle"
<1>0. pc \in [Procs -> Points]
  BY DEF TypeOK
<1>1. /\ pc[p] = "stamped" /\ pc' = [pc EXCEPT ![p] = to]
      /\ dirs' = [d \in DOMAIN dirs \cup {stamp[p]} |-> IF d \in DOMAIN dirs THEN dirs[d] ELSE {}]
      /\ UNCHANGED <<links, registry, now, issued, cmd, id, name, src, stamp, text>>
  BY DEF MakeDir, Step, local
<1>2. stamp[p] \in Stamps /\ to \in {"link", "files", "idle"}
  BY <1>1 DEF Progress
<1> HIDE DEF to
<1>3. DOMAIN dirs' = DOMAIN dirs \cup {stamp[p]}
  BY <1>1
<1>4. TypeOK'
  BY <1>0, <1>1, <1>2 DEF TypeOK
<1>5. Progress'
  BY <1>0, <1>1, <1>2, <1>3 DEF Progress
<1>6. Budget'
  <2>1. p \in Pending /\ Pending' = Pending \ {p}
    BY <1>0, <1>1, <1>2 DEF Pending
  <2>2. /\ IsFiniteSet(Pending') /\ Cardinality(Pending') = Cardinality(Pending) - 1
    BY <2>1, FS_RemoveElement DEF Budget
  <2>3. IsFiniteSet(DOMAIN dirs')
        /\ Cardinality(DOMAIN dirs') \in {Cardinality(DOMAIN dirs), Cardinality(DOMAIN dirs) + 1}
    BY <1>3, FS_AddElement DEF Budget
  <2>4. Cardinality(DOMAIN dirs) \in Nat /\ Cardinality(Pending) \in Nat /\ issued \in Nat
    BY FS_CardinalityType DEF Budget, TypeOK
  <2>5. QED
    BY <1>1, <2>2, <2>3, <2>4 DEF Budget
<1>7. QED
  BY <1>4, <1>5, <1>6

\* Filling the directory and creating the symlink keep the types.
LEMMA FillTypes ==
  ASSUME TypeInv, NEW p \in Procs, WriteFiles(p) \/ CreateSymlink(p)
  PROVE  TypeInv'
<1> USE DEF TypeInv, Points, Made, Stamped, Named, Sourcing, Trying
<1>0. pc \in [Procs -> Points]
  BY DEF TypeOK
<1>1. CASE WriteFiles(p)
  <2>1. PICK to \in {"idle", "ensure2", "link"}, b \in BOOLEAN :
          /\ pc[p] = "files" /\ pc' = [pc EXCEPT ![p] = to]
          /\ dirs' \in {dirs, [dirs EXCEPT ![stamp[p]] = @ \cup {[id |-> id[p], ips |-> b]}]}
          /\ UNCHANGED <<links, registry, now, issued, cmd, id, name, src, stamp, text>>
    BY <1>1 DEF WriteFiles, Step, local
  <2>2. DOMAIN dirs' = DOMAIN dirs /\ stamp[p] \in DOMAIN dirs /\ id[p] \in 1 .. MaxCommands
    BY <2>1 DEF Progress
  <2>3. \A d \in DOMAIN dirs' : dirs'[d] \subseteq [id : 1 .. MaxCommands, ips : BOOLEAN]
    BY <2>1, <2>2 DEF TypeOK
  <2>4. TypeOK'
    BY <1>0, <2>1, <2>2, <2>3 DEF TypeOK
  <2>5. Progress'
    BY <1>0, <2>1, <2>2 DEF Progress
  <2>6. Pending' = Pending
    BY <1>0, <2>1 DEF Pending
  <2>7. QED
    BY <2>1, <2>2, <2>4, <2>5, <2>6 DEF Budget
<1>2. CASE CreateSymlink(p)
  <2>1. PICK to \in {"idle", "files", "ensure2"} :
          /\ pc[p] = "link" /\ pc' = [pc EXCEPT ![p] = to]
          /\ links' \in {links, [links EXCEPT ![name[p]] = stamp[p]]}
          /\ UNCHANGED <<dirs, registry, now, issued, cmd, id, name, src, stamp, text>>
    BY <1>2 DEF CreateSymlink, Step, local
  <2>2. name[p] \in Names /\ stamp[p] \in Stamps
    BY <2>1 DEF Progress
  <2>3. TypeOK'
    BY <1>0, <2>1, <2>2 DEF TypeOK
  <2>4. Progress'
    BY <1>0, <2>1 DEF Progress
  <2>5. Pending' = Pending
    BY <1>0, <2>1 DEF Pending
  <2>6. QED
    BY <2>1, <2>3, <2>4, <2>5 DEF Budget
<1>3. QED
  BY <1>1, <1>2

\* A new command may make one directory more.
LEMMA IssueTypes ==
  ASSUME TypeInv, NEW p \in Procs, NEW c \in Commands, Issue(p, c)
  PROVE  TypeInv'
<1> USE DEF TypeInv, Points, Made, Stamped, Named, Sourcing, Trying
<1> DEFINE to == IF c.op = "fork" THEN "ensure0"
                 ELSE IF c.out = AutoName THEN "look" ELSE "named"
           first == IF c.op = "init" /\ c.out = AutoName THEN c.src ELSE c.out
<1>0. pc \in [Procs -> Points]
  BY DEF TypeOK
<1>1. /\ pc[p] = "idle" /\ pc' = [pc EXCEPT ![p] = to]
      /\ issued < MaxCommands /\ issued' = issued + 1
      /\ cmd' = [cmd EXCEPT ![p] = c]
      /\ id' = [id EXCEPT ![p] = issued + 1]
      /\ name' = [name EXCEPT ![p] = first]
      /\ src' = [src EXCEPT ![p] = NoLink]
      /\ stamp' = [stamp EXCEPT ![p] = NoLink]
      /\ text' = [text EXCEPT ![p] = Template]
      /\ UNCHANGED <<dirs, links, registry, now>>
  BY DEF Issue, Step, store
<1>2. to \in {"named", "ensure0", "look"} /\ (to # "ensure0" => first \in Names)
      /\ first \in Names \cup {AutoName}
  BY CommandFields
<1>3. issued + 1 \in 1 .. MaxCommands /\ issued \in Nat
  BY <1>1, BoundsTyped DEF TypeOK
<1> HIDE DEF to, first
<1>4. TypeOK'
  BY <1>0, <1>1, <1>2, <1>3, FilesTyped DEF TypeOK
<1>5. Progress'
  BY <1>0, <1>1, <1>2, <1>3, FilesTyped DEF Progress, TypeOK
<1>6. Budget'
  <2>1. p \notin Pending /\ Pending' = Pending \cup {p}
    BY <1>0, <1>1, <1>2 DEF Pending
  <2>2. IsFiniteSet(Pending') /\ Cardinality(Pending') = Cardinality(Pending) + 1
    BY <2>1, FS_AddElement DEF Budget
  <2>3. Cardinality(DOMAIN dirs) \in Nat /\ Cardinality(Pending) \in Nat
    BY FS_CardinalityType DEF Budget
  <2>4. QED
    BY <1>1, <1>3, <2>2, <2>3 DEF Budget
<1>7. QED
  BY <1>4, <1>5, <1>6

\* The user's edits keep the types: they happen between commands.
LEMMA EditTypes ==
  ASSUME TypeInv, Edit
  PROVE  TypeInv'
<1> USE DEF TypeInv, Points, Made, Stamped, Named, Sourcing, Trying
<1>1. /\ \A p \in Procs : pc[p] = "idle"
      /\ UNCHANGED <<now, issued, pc, cmd, id, name, src, stamp, text>>
  BY DEF Edit, local
<1>2. links' \in [Names -> Stamps \cup {NoLink}]
  BY DEF Edit, TypeOK
<1>3. /\ DOMAIN dirs' \subseteq DOMAIN dirs
      /\ \A d \in DOMAIN dirs' : dirs'[d] = dirs[d]
  BY DEF Edit
<1>4. registry' \in FileType
  <2>1. registry' = registry
        \/ \E i \in DOMAIN registry.es : registry' = [registry EXCEPT !.es = RemoveAt(@, i)]
    BY DEF Edit, Entries
  <2>2. \A i \in DOMAIN registry.es :
          RemoveAt(registry.es, i) \in Seq(EntryType)
    BY RemoveAtElements DEF TypeOK, FileType
  <2>3. registry \in FileType
    BY DEF TypeOK
  <2>4. QED
    BY <2>1, <2>2, <2>3 DEF FileType
<1>5. TypeOK'
  BY <1>1, <1>2, <1>3, <1>4 DEF TypeOK
<1>6. Progress'
  BY <1>1 DEF Progress
<1>7. Budget'
  <2>1. IsFiniteSet(DOMAIN dirs') /\ Cardinality(DOMAIN dirs') <= Cardinality(DOMAIN dirs)
    BY <1>3, FS_Subset DEF Budget
  <2>2. Pending' = Pending
    BY <1>1 DEF Pending
  <2>3. QED
    BY <1>1, <2>1, <2>2, BudgetKept
<1>8. QED
  BY <1>5, <1>6, <1>7

\* Every step keeps the types.
LEMMA StepTypes == TypeInv /\ [Next]_vars => TypeInv'
<1> SUFFICES ASSUME TypeInv, [Next]_vars PROVE TypeInv'
  OBVIOUS
<1>1. ASSUME NEW p \in Procs, Command(p) PROVE TypeInv'
  BY <1>1, EnsureTypes, RewriteTypes, ChoiceTypes, MakeDirTypes, FillTypes DEF Command
<1>2. ASSUME NEW p \in Procs, Crash(p) PROVE TypeInv'
  BY <1>2, RewriteTypes
<1>3. ASSUME NEW p \in Procs, NEW c \in Commands, Issue(p, c) PROVE TypeInv'
  BY <1>3, IssueTypes
<1>4. CASE Tick
  <2>1. now' \in 0 .. MaxClock
    BY <1>4, BoundsTyped DEF Tick, TypeInv, TypeOK
  <2>2. UNCHANGED <<dirs, links, registry, issued, pc, cmd, id, name, src, stamp, text>>
    BY <1>4 DEF Tick, store, local
  <2>3. QED
    BY <2>1, <2>2 DEF TypeInv, TypeOK, Progress, Budget, Pending
<1>5. CASE Edit
  BY <1>5, EditTypes
<1>6. CASE UNCHANGED vars
  BY <1>6 DEF vars, store, local, TypeInv, TypeOK, Progress, Budget, Pending
<1>7. QED
  BY <1>1, <1>2, <1>3, <1>4, <1>5, <1>6 DEF Next

\* The types hold in every reachable state.
LEMMA TypeInvariant == Spec => []TypeInv
BY InitTypes, StepTypes, PTL DEF Spec

\* Every value keeps its type, the second a directory is stamped with and the
\* suffix _timestamp finds included, for any number of concurrent commands.
THEOREM TypesHold == Spec => []TypeOK
BY TypeInvariant, PTL DEF TypeInv

-----------------------------------------------------------------------------
(* Symlinks: creating one is what takes a name.                            *)

\* A command that created its symlink and is not done.
Linked(p) == Holds(p) \/ (pc[p] = "files" /\ cmd[p].op = "fork")

\* The symlink of such a command is its own, and so is its name.
OwnerInv ==
  /\ \A p \in Procs : Linked(p) => links[name[p]] = stamp[p]
  /\ \A p, q \in Procs : p # q /\ Linked(p) /\ Linked(q) => name[p] # name[q]

\* A step that creates no symlink, by which no command comes to hold one.
LEMMA OwnerKept ==
  ASSUME OwnerInv, UNCHANGED links, NEW p \in Procs,
         \A q \in Procs : q # p =>
           /\ Linked(q)' = Linked(q)
           /\ name'[q] = name[q] /\ stamp'[q] = stamp[q],
         Linked(p)' => Linked(p) /\ name'[p] = name[p] /\ stamp'[p] = stamp[p]
  PROVE  OwnerInv'
BY DEF OwnerInv

\* What a step of one command leaves alone.
LEMMA OthersUntouched ==
  ASSUME TypeInv, NEW p \in Procs, Command(p) \/ Crash(p) \/ \E c \in Commands : Issue(p, c)
  PROVE  \A q \in Procs : q # p =>
           /\ pc'[q] = pc[q] /\ cmd'[q] = cmd[q] /\ id'[q] = id[q] /\ name'[q] = name[q]
           /\ src'[q] = src[q] /\ stamp'[q] = stamp[q] /\ text'[q] = text[q]
<1> USE DEF TypeInv, TypeOK, Step, local
<1>1. CASE EnsureForSource(p) \/ EnsureForLoad(p) \/ EnsureForAppend(p)
  BY <1>1 DEF EnsureForSource, EnsureForLoad, EnsureForAppend, EnsureExists
<1>2. CASE ChooseName(p) \/ RefuseName(p) \/ TakeStamp(p)
  BY <1>2, ChoosingMoves DEF RefuseName, TakeStamp
<1>3. CASE MakeDir(p) \/ WriteFiles(p)
  BY <1>3 DEF MakeDir, WriteFiles
<1>4. CASE CreateSymlink(p)
  BY <1>4 DEF CreateSymlink
<1>5. CASE AppendRead(p) \/ AppendTruncate(p) \/ AppendWrite(p)
  BY <1>5 DEF AppendRead, AppendTruncate, AppendWrite
<1>6. CASE Crash(p)
  BY <1>6 DEF Crash
<1>7. CASE \E c \in Commands : Issue(p, c)
  BY <1>7 DEF Issue
<1>8. QED
  BY <1>1, <1>2, <1>3, <1>4, <1>5, <1>6, <1>7 DEF Command

\* Only _create_symlink takes a name, and it fails on one that is taken.
LEMMA StepOwner == TypeInv /\ OwnerInv /\ [Next]_vars => OwnerInv'
<1> SUFFICES ASSUME TypeInv, OwnerInv, [Next]_vars PROVE OwnerInv'
  OBVIOUS
<1> USE DEF Linked, Holds
<1>0. pc \in [Procs -> Points] /\ cmd \in [Procs -> Commands]
  BY DEF TypeInv, TypeOK
<1>1. ASSUME NEW p \in Procs, Command(p) \/ Crash(p) \/ \E c \in Commands : Issue(p, c)
      PROVE  OwnerInv'
  <2>1. \A q \in Procs : q # p =>
           Linked(q)' = Linked(q) /\ name'[q] = name[q] /\ stamp'[q] = stamp[q]
    BY <1>1, OthersUntouched
  <2>2. CASE EnsureForSource(p) \/ EnsureForLoad(p) \/ EnsureForAppend(p)
    <3>1. /\ UNCHANGED <<links, name, stamp, cmd>>
          /\ Linked(p)' => Linked(p)
      BY <1>0, <2>2 DEF EnsureForSource, EnsureForLoad, EnsureForAppend, EnsureExists, Step, store, local
    <3>2. QED
      BY <2>1, <3>1, OwnerKept
  <2>3. CASE ChooseName(p) \/ RefuseName(p) \/ TakeStamp(p)
    <3>1. UNCHANGED links /\ ~ Linked(p)'
      BY <1>0, <2>3, ChoosingMoves DEF RefuseName, TakeStamp, Step, store, local
    <3>2. QED
      BY <2>1, <3>1, OwnerKept
  <2>4. CASE MakeDir(p) \/ WriteFiles(p)
    <3>1. UNCHANGED <<links, name, stamp, cmd>> /\ (Linked(p)' => Linked(p))
      BY <1>0, <2>4 DEF MakeDir, WriteFiles, Step, local
    <3>2. QED
      BY <2>1, <3>1, OwnerKept
  <2>5. CASE CreateSymlink(p)
    <3>1. /\ UNCHANGED <<name, stamp, cmd>> /\ pc[p] = "link"
          /\ name[p] \in Names /\ stamp[p] \in Stamps /\ stamp[p] # NoLink
      BY <2>5 DEF CreateSymlink, local, TypeInv, Progress, Points, Made, Stamped, Named, Sourcing, Trying,
                  Stamps, NoLink
    <3>2. CASE links[name[p]] = NoLink
      <4>1. links' = [links EXCEPT ![name[p]] = stamp[p]]
        BY <2>5, <3>2 DEF CreateSymlink
      <4>2. \A q \in Procs : q # p /\ Linked(q) =>
              /\ name[q] \in Names /\ stamp[q] \in Stamps /\ stamp[q] # NoLink
              /\ links[name[q]] = stamp[q] /\ name[q] # name[p]
        BY <3>2 DEF OwnerInv, TypeInv, Progress, Points, Made, Stamped, Named, Sourcing, Trying, Stamps, NoLink
      <4>3. links'[name[p]] = stamp[p]
            /\ \A n \in Names : n # name[p] => links'[n] = links[n]
        BY <3>1, <4>1 DEF TypeInv, TypeOK
      <4>4. \A q \in Procs : Linked(q)' => q = p \/ Linked(q)
        BY <2>1
      <4>5. \A q \in Procs : Linked(q)' => links'[name'[q]] = stamp'[q]
        BY <3>1, <4>2, <4>3, <4>4
      <4>6. \A q, r \in Procs : q # r /\ Linked(q)' /\ Linked(r)' => name'[q] # name'[r]
        BY <3>1, <4>2, <4>4 DEF OwnerInv
      <4>7. QED
        BY <4>5, <4>6 DEF OwnerInv
    <3>3. CASE links[name[p]] # NoLink
      <4>1. UNCHANGED links /\ ~ Linked(p)'
        BY <1>0, <2>5, <3>3 DEF CreateSymlink, Step
      <4>2. QED
        BY <2>1, <4>1, OwnerKept
    <3>4. QED
      BY <3>2, <3>3
  <2>6. CASE AppendRead(p) \/ AppendTruncate(p) \/ AppendWrite(p)
    <3>1. UNCHANGED <<links, name, stamp, cmd>> /\ (Linked(p)' => Linked(p))
      BY <1>0, <2>6 DEF AppendRead, AppendTruncate, AppendWrite, Step, store, local
    <3>2. QED
      BY <2>1, <3>1, OwnerKept
  <2>7. CASE Crash(p) \/ \E c \in Commands : Issue(p, c)
    <3>1. UNCHANGED links /\ ~ Linked(p)'
      BY <1>0, <2>7 DEF Crash, Issue, Step, store
    <3>2. QED
      BY <2>1, <3>1, OwnerKept
  <2>8. QED
    BY <1>1, <2>2, <2>3, <2>4, <2>5, <2>6, <2>7 DEF Command
<1>2. CASE Tick
  BY <1>2 DEF Tick, store, local, OwnerInv
<1>3. CASE Edit
  BY <1>3 DEF Edit, local, OwnerInv
<1>4. CASE UNCHANGED vars
  BY <1>4 DEF vars, store, local, OwnerInv
<1>5. QED
  BY <1>1, <1>2, <1>3, <1>4 DEF Next

\* A held name has its own symlink in every reachable state.
LEMMA OwnerInvariant == Spec => [](TypeInv /\ OwnerInv)
<1>1. Init => OwnerInv
  BY DEF Init, OwnerInv, Linked, Holds
<1>2. QED
  BY <1>1, InitTypes, StepTypes, StepOwner, PTL DEF Spec

\* Of any number of commands that run at once, whatever dies and whatever the user
\* edits between them, no two go on with one name.
THEOREM NameHasOneOwner == Spec => []OneOwnerPerName
<1>1. OwnerInv => OneOwnerPerName
  BY DEF OwnerInv, OneOwnerPerName, Linked
<1>2. QED
  BY <1>1, OwnerInvariant, PTL

\* Where the user removes no symlink, none is ever pointed anywhere else.
THEOREM LinksNeverMove ==
  ASSUME "link" \notin UserEdits
  PROVE  Spec => LinksStable
<1>1. TypeInv /\ [Next]_vars =>
        [\A n \in Names : links[n] # NoLink => links'[n] = links[n]]_links
  <2> SUFFICES ASSUME TypeInv, Next, links' # links
               PROVE  \A n \in Names : links[n] # NoLink => links'[n] = links[n]
    BY DEF vars, store
  <2>1. ~ Edit /\ ~ Tick
    BY DEF Edit, Tick, store
  <2>2. PICK p \in Procs : Command(p) \/ Crash(p) \/ \E c \in Commands : Issue(p, c)
    BY <2>1 DEF Next
  <2>3. CreateSymlink(p)
    BY <2>2, ChoosingMoves
       DEF Command, EnsureForSource, EnsureForLoad, EnsureForAppend, EnsureExists, RefuseName,
                TakeStamp, MakeDir, WriteFiles, AppendRead, AppendTruncate,
                AppendWrite, Crash, Issue, store
  <2>4. links[name[p]] = NoLink /\ links' = [links EXCEPT ![name[p]] = stamp[p]]
    BY <2>3 DEF CreateSymlink
  <2>5. QED
    BY <2>4 DEF TypeInv, TypeOK
<1>2. QED
  BY <1>1, TypeInvariant, PTL DEF Spec, LinksStable

-----------------------------------------------------------------------------
(* The registry, where the user edits nothing but its entries.             *)

\* Entries that lead to an experiment with its files and its symlink, one a name.
Complete(es) ==
  \A i \in DOMAIN es :
    /\ es[i].dir \in DOMAIN dirs /\ dirs[es[i].dir] # {}
    /\ links[es[i].name] = es[i].dir
NoDuplicate(es) == \A i, j \in DOMAIN es : es[i].name = es[j].name => i = j
Good(es) == Complete(es) /\ NoDuplicate(es)
Absent(n, es) == \A i \in DOMAIN es : es[i].name # n

Rewriting(p) == pc[p] \in {"truncate", "write"}

\* What is in registry.py, and what a command is about to write there.
ListsGood ==
  /\ Good(registry.es)
  /\ \A p \in Procs : Rewriting(p) => Good(text[p].es)

\* A command that holds a name is the only one that can list it.
Unlisted ==
  \A p \in Procs : Linked(p) =>
    /\ Absent(name[p], registry.es)
    /\ \A q \in Procs : q # p /\ Rewriting(q) => Absent(name[p], text[q].es)

\* The points at which a fork knows the directory it copies from.
Sourced == {"reload"} \cup Trying \cup Named

\* The directory of a command that will append is filled, and so is the directory
\* a fork copies from.
DirsFilled ==
  \A p \in Procs :
    /\ Holds(p) \/ (pc[p] = "link" /\ cmd[p].op = "init") => dirs[stamp[p]] # {}
    /\ pc[p] \in Sourced /\ cmd[p].op = "fork" =>
         src[p] \in DOMAIN dirs /\ dirs[src[p]] # {}

CompleteInv == ListsGood /\ Unlisted /\ DirsFilled

\* Appending the entry of a complete experiment whose name is not listed.
LEMMA AppendGood ==
  ASSUME NEW es \in Seq(EntryType), NEW e \in EntryType, Good(es), Absent(e.name, es),
         e.dir \in DOMAIN dirs, dirs[e.dir] # {}, links[e.name] = e.dir
  PROVE  Good(Append(es, e))
<1>1. Complete(Append(es, e))
  BY AppendElements DEF Good, Complete
<1>2. NoDuplicate(Append(es, e))
  BY AppendElements DEF Good, NoDuplicate, Absent
<1>3. QED
  BY <1>1, <1>2 DEF Good

\* An appended entry lists its own name only.
LEMMA AppendAbsent ==
  ASSUME NEW es \in Seq(EntryType), NEW e \in EntryType, NEW n, n # e.name, Absent(n, es)
  PROVE  Absent(n, Append(es, e))
BY AppendElements DEF Absent

\* Removing an entry leaves the others as they were.
LEMMA RemoveGood ==
  ASSUME NEW es \in Seq(EntryType), NEW i \in DOMAIN es
  PROVE  /\ Good(es) => Good(RemoveAt(es, i))
         /\ \A n : Absent(n, es) => Absent(n, RemoveAt(es, i))
<1>1. \A j, k \in DOMAIN RemoveAt(es, i) : \E m, n \in DOMAIN es :
        /\ RemoveAt(es, i)[j] = es[m] /\ RemoveAt(es, i)[k] = es[n]
        /\ m = n => j = k
  BY RemoveAtEmbeds
<1> DEFINE rs == RemoveAt(es, i)
<1> HIDE DEF rs
<1>2. \A j, k \in DOMAIN rs : \E m, n \in DOMAIN es :
        rs[j] = es[m] /\ rs[k] = es[n] /\ (m = n => j = k)
  BY <1>1 DEF rs
<1>3. Complete(es) => Complete(rs)
  BY <1>2 DEF Complete
<1>4. NoDuplicate(es) => NoDuplicate(rs)
  BY <1>2 DEF NoDuplicate
<1>5. \A n : Absent(n, es) => Absent(n, rs)
  BY <1>2 DEF Absent
<1>6. QED
  BY <1>3, <1>4, <1>5 DEF Good, rs

\* Without entries there is nothing to say.
LEMMA EmptyGood == Good(<< >>) /\ \A n : Absent(n, << >>)
BY DEF Good, Complete, NoDuplicate, Absent

\* How a step may change the files and the links: directories are only filled, and
\* symlinks only created.
LEMMA StoreGrows ==
  ASSUME TypeInv, UserEdits \subseteq {"entry"}, Next
  PROVE  /\ \A d \in DOMAIN dirs :
              d \in DOMAIN dirs' /\ (dirs[d] # {} => dirs'[d] # {})
         /\ \A n \in Names : links[n] # NoLink => links'[n] = links[n]
<1>1. CASE Tick
  BY <1>1 DEF Tick, store
<1>2. CASE Edit
  BY <1>2 DEF Edit
<1>3. ASSUME NEW p \in Procs, Command(p) \/ Crash(p) \/ \E c \in Commands : Issue(p, c)
      PROVE  /\ \A d \in DOMAIN dirs :
                  d \in DOMAIN dirs' /\ (dirs[d] # {} => dirs'[d] # {})
             /\ \A n \in Names : links[n] # NoLink => links'[n] = links[n]
  <2>1. CASE MakeDir(p)
    BY <2>1 DEF MakeDir
  <2>2. CASE WriteFiles(p)
    BY <2>2 DEF WriteFiles
  <2>3. CASE CreateSymlink(p)
    BY <2>3 DEF CreateSymlink, TypeInv, TypeOK
  <2>4. CASE UNCHANGED <<dirs, links>>
    BY <2>4
  <2>5. QED
    BY <1>3, <2>1, <2>2, <2>3, <2>4, ChoosingMoves
       DEF Command, EnsureForSource, EnsureForLoad, EnsureForAppend, EnsureExists, RefuseName,
           TakeStamp, AppendRead, AppendTruncate, AppendWrite, Crash, Issue, store
<1>4. QED
  BY <1>1, <1>2, <1>3 DEF Next

\* What a step may make of the entries of registry.py.
LEMMA RegistryMoves ==
  ASSUME TypeInv, Next
  PROVE  \/ registry'.es \in {registry.es, << >>}
         \/ \E p \in Procs : AppendWrite(p) /\ registry'.es = text[p].es
         \/ Edit /\ \E i \in DOMAIN registry.es : registry'.es = RemoveAt(registry.es, i)
<1>1. CASE Tick
  BY <1>1 DEF Tick, store
<1>2. CASE Edit
  <2>1. CASE registry' = registry
    BY <2>1
  <2>2. CASE \E i \in DOMAIN Entries : registry' = [registry EXCEPT !.es = RemoveAt(@, i)]
    <3>1. \E i \in DOMAIN registry.es : registry'.es = RemoveAt(registry.es, i)
      BY <2>2 DEF Entries, TypeInv, TypeOK, FileType
    <3>2. QED
      BY <1>2, <3>1
  <2>3. QED
    BY <1>2, <2>1, <2>2 DEF Edit
<1>3. ASSUME NEW p \in Procs, Command(p) \/ Crash(p) \/ \E c \in Commands : Issue(p, c)
      PROVE  \/ registry'.es \in {registry.es, << >>}
             \/ AppendWrite(p) /\ registry'.es = text[p].es
  <2>1. CASE EnsureForSource(p) \/ EnsureForLoad(p) \/ EnsureForAppend(p)
    <3>1. \/ registry' \in {registry, File("empty", << >>)} \/ registry' \in Overlaid(Template)
      BY <2>1 DEF EnsureForSource, EnsureForLoad, EnsureForAppend, EnsureExists, store
    <3>2. QED
      BY <3>1, OverlaidLeaves DEF File, Template
  <2>2. CASE AppendTruncate(p)
    BY <2>2 DEF AppendTruncate, File
  <2>3. CASE AppendWrite(p)
    <3>1. registry' \in Overlaid(text[p])
      BY <2>3 DEF AppendWrite
    <3>2. registry' = text[p] \/ registry'.es = << >>
      BY <3>1, OverlaidLeaves DEF File
    <3>3. QED
      BY <2>3, <3>2
  <2>4. CASE UNCHANGED registry
    BY <2>4
  <2>5. QED
    BY <1>3, <2>1, <2>2, <2>3, <2>4, ChoosingMoves
       DEF Command, RefuseName, TakeStamp, MakeDir, WriteFiles, CreateSymlink,
           AppendRead, Crash, Issue, store
<1>4. QED
  BY <1>1, <1>2, <1>3 DEF Next

\* How a command comes to rewrite the file, and to hold its name.
LEMMA CommandMoves ==
  ASSUME TypeInv, Next, NEW q \in Procs
  PROVE  /\ Rewriting(q)' =>
              (Rewriting(q) /\ text'[q] = text[q]) \/ AppendRead(q)
         /\ Linked(q)' =>
              /\ Linked(q) \/ (CreateSymlink(q) /\ links[name[q]] = NoLink)
              /\ name'[q] = name[q] /\ stamp'[q] = stamp[q] /\ pc[q] \in Made
<1> USE DEF Rewriting, Linked, Holds
<1>0. pc \in [Procs -> Points] /\ cmd \in [Procs -> Commands]
  BY DEF TypeInv, TypeOK
<1>1. CASE Tick \/ Edit
  BY <1>1 DEF Tick, Edit, store, local, Made, Stamped, Named, Sourcing, Trying, Points
<1>2. ASSUME NEW p \in Procs, p # q,
             Command(p) \/ Crash(p) \/ \E c \in Commands : Issue(p, c)
      PROVE  UNCHANGED <<pc[q], cmd[q], name[q], stamp[q], text[q]>>
  BY <1>2, OthersUntouched
<1>3. CASE UNCHANGED <<pc[q], cmd[q], name[q], stamp[q], text[q]>>
  BY <1>3 DEF Made, Stamped, Named, Sourcing, Trying, Points
<1>4. CASE Crash(q) \/ (\E c \in Commands : Issue(q, c))
  BY <1>0, <1>4 DEF Crash, Issue, Step
<1>5. CASE Command(q)
  <2> USE <1>0 DEF Step, store, local, Made, Stamped, Named, Sourcing, Trying, Points
  <2>1. CASE EnsureForSource(q) \/ EnsureForLoad(q) \/ EnsureForAppend(q)
    BY <2>1 DEF EnsureForSource, EnsureForLoad, EnsureForAppend, EnsureExists
  <2>2. CASE ChooseName(q) \/ RefuseName(q) \/ TakeStamp(q)
    BY <2>2, ChoosingMoves DEF RefuseName, TakeStamp
  <2>3. CASE MakeDir(q) \/ WriteFiles(q)
    BY <2>3 DEF MakeDir, WriteFiles
  <2>4. CASE CreateSymlink(q)
    BY <2>4 DEF CreateSymlink
  <2>5. CASE AppendRead(q)
    BY <2>5 DEF AppendRead
  <2>6. CASE AppendTruncate(q) \/ AppendWrite(q)
    BY <2>6 DEF AppendTruncate, AppendWrite
  <2>7. QED
    BY <1>5, <2>1, <2>2, <2>3, <2>4, <2>5, <2>6 DEF Command
<1>6. QED
  BY <1>1, <1>2, <1>3, <1>4, <1>5 DEF Next

\* Entries that were good stay good: their directories and symlinks remain.
LEMMA GoodStays ==
  ASSUME TypeInv, UserEdits \subseteq {"entry"}, Next,
         NEW es \in Seq(EntryType), Good(es)
  PROVE  Good(es)'
<1>1. \A i \in DOMAIN es : es[i] \in EntryType
  OBVIOUS
<1>2. \A i \in DOMAIN es : es[i].name \in Names /\ es[i].dir \in Stamps /\ es[i].dir # NoLink
  BY <1>1 DEF EntryType, Stamps, NoLink
<1>3. QED
  BY <1>2, StoreGrows DEF Good, Complete, NoDuplicate

\* A command whose symlink is not there yet is not listed: every listed name has one.
LEMMA NoLinkNoEntry ==
  ASSUME NEW es \in Seq(EntryType), Good(es), NEW n, links[n] = NoLink
  PROVE  Absent(n, es)
<1>1. \A i \in DOMAIN es : es[i] \in EntryType
  OBVIOUS
<1>2. \A i \in DOMAIN es : es[i].dir \in Stamps /\ es[i].dir # NoLink
  BY <1>1 DEF EntryType, Stamps, NoLink
<1>3. QED
  BY <1>2 DEF Good, Complete, Absent

\* What AppendRead makes of the file: the entry at its end, or a text without any.
LEMMA AppendReadText ==
  ASSUME TypeInv, NEW p \in Procs, AppendRead(p)
  PROVE  LET e == [name |-> name[p], dir |-> stamp[p]] IN
         /\ Holds(p) /\ e \in EntryType /\ stamp[p] \in DOMAIN dirs
         /\ text'[p].es = Append(registry.es, e) \/ text'[p].es = << >>
         /\ UNCHANGED <<dirs, links, registry, name, stamp>>
<1> DEFINE e == [name |-> name[p], dir |-> stamp[p]]
<1>1. pc[p] = "read" /\ text' = [text EXCEPT ![p] = Inserted(registry, e)]
  BY DEF AppendRead, Step
<1>2. name[p] \in Names /\ stamp[p] \in Stamps /\ stamp[p] \in DOMAIN dirs
  BY <1>1 DEF TypeInv, Progress, Points, Made, Stamped, Named, Sourcing, Trying
<1>3. text'[p] = Inserted(registry, e)
  BY <1>1 DEF TypeInv, TypeOK
<1>4. text'[p].es = Append(registry.es, e) \/ text'[p].es = << >>
  BY <1>3 DEF Inserted, File
<1>5. QED
  BY <1>1, <1>2, <1>4 DEF Holds, EntryType, AppendRead, store

\* The entries of a typed file.
LEMMA ListsTyped ==
  ASSUME TypeInv
  PROVE  registry.es \in Seq(EntryType) /\ \A p \in Procs : text[p].es \in Seq(EntryType)
BY DEF TypeInv, TypeOK, FileType


\* The registry, and every text about to replace it, keeps listing complete
\* experiments, each once.
LEMMA StepLists ==
  ASSUME TypeInv, OwnerInv, CompleteInv, UserEdits \subseteq {"entry"}, Next
  PROVE  ListsGood'
<1>0. /\ \A es \in Seq(EntryType) : Good(es) => Good(es)'
      /\ registry.es \in Seq(EntryType) /\ \A p \in Procs : text[p].es \in Seq(EntryType)
      /\ Good(registry.es) /\ Good(<< >>)'
  <2>1. \A es \in Seq(EntryType) : Good(es) => Good(es)'
    BY GoodStays
  <2>2. Good(<< >>)'
    BY DEF Good, Complete, NoDuplicate
  <2>3. QED
    BY <2>1, <2>2, ListsTyped DEF CompleteInv, ListsGood
<1>1. Good(registry.es)'
  <2>1. CASE registry'.es \in {registry.es, << >>}
    BY <1>0, <2>1
  <2>2. CASE \E p \in Procs : AppendWrite(p) /\ registry'.es = text[p].es
    <3>1. PICK p \in Procs : pc[p] = "write" /\ registry'.es = text[p].es
      BY <2>2 DEF AppendWrite, Step
    <3>2. Good(text[p].es) /\ text[p].es \in Seq(EntryType)
      BY <1>0, <3>1 DEF CompleteInv, ListsGood, Rewriting
    <3>3. QED
      BY <1>0, <3>1, <3>2
  <2>3. CASE \E i \in DOMAIN registry.es : registry'.es = RemoveAt(registry.es, i)
    BY <1>0, <2>3, RemoveGood, RemoveAtElements
  <2>4. QED
    BY <2>1, <2>2, <2>3, RegistryMoves
<1>2. ASSUME NEW p \in Procs, Rewriting(p)' PROVE Good(text[p].es)'
  <2>1. CASE Rewriting(p) /\ text'[p] = text[p]
    BY <1>0, <2>1 DEF CompleteInv, ListsGood
  <2>2. CASE AppendRead(p)
    <3> DEFINE e == [name |-> name[p], dir |-> stamp[p]]
    <3>1. /\ Holds(p) /\ e \in EntryType /\ stamp[p] \in DOMAIN dirs
          /\ text'[p].es = Append(registry.es, e) \/ text'[p].es = << >>
      BY <2>2, AppendReadText
    <3>2. /\ Absent(name[p], registry.es) /\ dirs[stamp[p]] # {}
          /\ links[name[p]] = stamp[p]
      BY <3>1 DEF CompleteInv, Unlisted, DirsFilled, OwnerInv, Linked
    <3>3. e.name = name[p] /\ e.dir = stamp[p]
      OBVIOUS
    <3> HIDE DEF e
    <3>4. Good(Append(registry.es, e)) /\ Append(registry.es, e) \in Seq(EntryType)
      BY <1>0, <3>1, <3>2, <3>3, AppendGood
    <3>5. QED
      BY <1>0, <3>1, <3>4
  <2>3. QED
    BY <1>2, <2>1, <2>2, CommandMoves
<1>3. QED
  BY <1>1, <1>2 DEF ListsGood

\* The name of a command that holds it is listed by no one else, and a command that
\* takes a name takes one that is not listed.
LEMMA StepUnlisted ==
  ASSUME TypeInv, OwnerInv, CompleteInv, UserEdits \subseteq {"entry"}, Next
  PROVE  Unlisted'
<1> SUFFICES ASSUME NEW p \in Procs, Linked(p)'
             PROVE  /\ Absent(name'[p], registry'.es)
                    /\ \A q \in Procs : q # p /\ Rewriting(q)' => Absent(name'[p], text'[q].es)
  BY DEF Unlisted, Absent
<1>0. /\ registry.es \in Seq(EntryType) /\ \A q \in Procs : text[q].es \in Seq(EntryType)
      /\ name'[p] = name[p] /\ stamp'[p] = stamp[p]
  BY ListsTyped, CommandMoves
<1>1. /\ Absent(name[p], registry.es)
      /\ \A q \in Procs : q # p /\ Rewriting(q) => Absent(name[p], text[q].es)
  <2>1. CASE Linked(p)
    BY <2>1 DEF CompleteInv, Unlisted
  <2>2. CASE links[name[p]] = NoLink
    BY <1>0, <2>2, NoLinkNoEntry DEF CompleteInv, ListsGood
  <2>3. QED
    BY <2>1, <2>2, CommandMoves
<1>2. Absent(name[p], registry'.es)
  <2>1. CASE registry'.es \in {registry.es, << >>}
    BY <1>1, <2>1, EmptyGood
  <2>2. CASE \E q \in Procs : AppendWrite(q) /\ registry'.es = text[q].es
    <3>1. PICK q \in Procs : AppendWrite(q) /\ registry'.es = text[q].es
      BY <2>2
    <3>2. pc[q] = "write" /\ pc'[q] = "idle"
      BY <3>1 DEF AppendWrite, Step, TypeInv, TypeOK
    <3>3. q # p
      BY <3>2 DEF Linked, Holds
    <3>4. QED
      BY <1>1, <3>1, <3>2, <3>3 DEF Rewriting
  <2>3. CASE \E i \in DOMAIN registry.es : registry'.es = RemoveAt(registry.es, i)
    BY <1>0, <1>1, <2>3, RemoveGood
  <2>4. QED
    BY <2>1, <2>2, <2>3, RegistryMoves
<1>3. ASSUME NEW q \in Procs, q # p, Rewriting(q)'
      PROVE  Absent(name[p], text'[q].es)
  <2>1. CASE Rewriting(q) /\ text'[q] = text[q]
    BY <1>1, <1>3, <2>1
  <2>2. CASE AppendRead(q)
    <3> DEFINE e == [name |-> name[q], dir |-> stamp[q]]
    <3>1. /\ Holds(q) /\ e \in EntryType
          /\ text'[q].es = Append(registry.es, e) \/ text'[q].es = << >>
          /\ UNCHANGED links
      BY <2>2, AppendReadText
    <3>2. Linked(p)
      <4>1. ~ CreateSymlink(p)
        BY <1>3, <2>2 DEF AppendRead, CreateSymlink, Step, TypeInv, TypeOK
      <4>2. QED
        BY <4>1, CommandMoves
    <3>3. name[p] # name[q]
      BY <1>3, <3>1, <3>2 DEF OwnerInv, Linked
    <3>4. e.name = name[q]
      OBVIOUS
    <3> HIDE DEF e
    <3>5. Absent(name[p], Append(registry.es, e))
      BY <1>0, <1>1, <3>1, <3>3, <3>4, AppendAbsent
    <3>6. QED
      BY <3>1, <3>5, EmptyGood
  <2>3. QED
    BY <1>3, <2>1, <2>2, CommandMoves
<1>4. QED
  BY <1>0, <1>2, <1>3

\* A command appends only what it has filled, and a fork copies from a directory
\* that was filled when it looked its source up.
LEMMA StepFilled ==
  ASSUME TypeInv, CompleteInv, UserEdits \subseteq {"entry"}, Next
  PROVE  DirsFilled'
<1> SUFFICES ASSUME NEW p \in Procs
             PROVE  /\ (Holds(p) \/ (pc[p] = "link" /\ cmd[p].op = "init"))' =>
                         dirs'[stamp'[p]] # {}
                    /\ (pc[p] \in Sourced /\ cmd[p].op = "fork")' =>
                         src'[p] \in DOMAIN dirs' /\ dirs'[src'[p]] # {}
  BY DEF DirsFilled
<1> USE DEF Holds
<1>0. /\ pc \in [Procs -> Points] /\ cmd \in [Procs -> Commands] /\ src \in [Procs -> Stamps \cup {NoLink}]
      /\ stamp \in [Procs -> Stamps \cup {NoLink}]
      /\ \A d \in DOMAIN dirs : d \in DOMAIN dirs' /\ (dirs[d] # {} => dirs'[d] # {})
      /\ pc[p] \in Made => stamp[p] \in DOMAIN dirs
      /\ cmd[p].op \in {"init", "fork"}
  BY StoreGrows, CommandFields DEF TypeInv, TypeOK, Progress
<1>1. /\ Holds(p) \/ (pc[p] = "link" /\ cmd[p].op = "init") => dirs[stamp[p]] # {}
      /\ pc[p] \in Sourced /\ cmd[p].op = "fork" => src[p] \in DOMAIN dirs /\ dirs[src[p]] # {}
  BY DEF CompleteInv, DirsFilled
<1>2. CASE /\ UNCHANGED <<cmd[p], stamp[p], src[p]>>
           /\ pc'[p] \in Sourced => pc[p] \in Sourced
           /\ (Holds(p) \/ (pc[p] = "link" /\ cmd[p].op = "init"))' =>
                Holds(p) \/ (pc[p] = "link" /\ cmd[p].op = "init")
  BY <1>0, <1>1, <1>2 DEF Made, Stamped, Sourced, Named, Sourcing, Trying, Points
<1>3. CASE Tick \/ Edit
  <2>1. UNCHANGED <<pc, cmd, stamp, src>>
    BY <1>3 DEF Tick, Edit, local
  <2>2. QED
    BY <2>1, <1>2
<1>4. ASSUME NEW q \in Procs, q # p,
             Command(q) \/ Crash(q) \/ \E c \in Commands : Issue(q, c)
      PROVE  UNCHANGED <<pc[p], cmd[p], stamp[p], src[p]>>
  BY <1>4, OthersUntouched
<1>5. CASE UNCHANGED <<pc[p], cmd[p], stamp[p], src[p]>>
  BY <1>5, <1>2
<1>6. CASE Crash(p)
  <2>1. pc'[p] = "idle" /\ "idle" \notin Sourced
    BY <1>0, <1>6 DEF Crash, Sourced, Named, Trying
  <2>2. QED
    BY <2>1
<1>7. ASSUME NEW c \in Commands, Issue(p, c)
      PROVE  ~ Holds(p)' /\ pc'[p] # "link" /\ (pc'[p] \in Sourced => cmd'[p].op # "fork")
  BY <1>0, <1>7 DEF Issue, Step, Sourced, Named, Trying, Sourcing
<1>8. CASE Command(p)
  <2> USE <1>0 DEF Step, store, local, Made, Stamped, Sourced, Named, Sourcing, Trying, Points
  <2>1. CASE EnsureForSource(p) \/ EnsureForLoad(p) \/ EnsureForAppend(p)
    BY <2>1, <1>2 DEF EnsureForSource, EnsureForLoad, EnsureForAppend, EnsureExists
  <2>2. CASE ChooseName(p)
    <3>1. /\ UNCHANGED <<dirs, cmd, stamp>> /\ pc[p] \in {"resolve", "reload", "look", "load"}
          /\ pc'[p] \in {"reload", "look", "ensure", "load", "named", "idle"}
      BY <2>2, ChoosingMoves
    <3>2. CASE UNCHANGED src /\ pc[p] # "resolve"
      BY <3>1, <3>2, <1>2
    <3>3. CASE pc[p] = "resolve" /\ Registered(cmd[p].src) /\ src'[p] = Lookup(cmd[p].src)
      <4>1. Entries \in Seq(EntryType) /\ Good(registry.es)
        BY ListsTyped DEF Entries, CompleteInv, ListsGood
      <4>2. \E i \in DOMAIN registry.es : src'[p] = registry.es[i].dir
        BY <3>3, <4>1, LookupIsAnEntry DEF Entries
      <4>3. src'[p] \in DOMAIN dirs /\ dirs[src'[p]] # {}
        BY <4>1, <4>2 DEF Good, Complete
      <4>4. QED
        BY <3>1, <4>3
    <3>4. QED
      BY <2>2, <3>2, <3>3, ChoosingMoves
  <2>3. CASE RefuseName(p)
    BY <2>3, <1>2 DEF RefuseName
  <2>4. CASE TakeStamp(p)
    <3>1. pc[p] = "named" /\ pc'[p] = "stamped" /\ UNCHANGED <<dirs, cmd, src>>
      BY <2>4 DEF TakeStamp
    <3>2. QED
      BY <3>1, <1>1
  <2>5. CASE MakeDir(p)
    <3>1. /\ pc[p] = "stamped" /\ UNCHANGED <<cmd, src, stamp>>
          /\ pc'[p] = "link" => cmd[p].op = "fork"
          /\ pc'[p] \in {"link", "files", "idle"}
      BY <2>5 DEF MakeDir
    <3>2. QED
      BY <3>1, <1>2
  <2>6. CASE WriteFiles(p)
    <3>1. /\ pc[p] = "files" /\ UNCHANGED <<cmd, src, stamp>>
          /\ pc'[p] \in {"idle", "ensure2", "link"}
          /\ \E b : \/ dirs' = [dirs EXCEPT ![stamp[p]] = @ \cup {b}]
                    \/ cmd[p].op = "fork" /\ (src[p] \notin DOMAIN dirs \/ dirs[src[p]] = {})
      BY <2>6 DEF WriteFiles
    <3>2. stamp[p] \in DOMAIN dirs
          /\ (cmd[p].op = "fork" => src[p] \in DOMAIN dirs /\ dirs[src[p]] # {})
      BY <3>1, <1>1
    <3>3. dirs'[stamp'[p]] # {}
      BY <3>1, <3>2
    <3>4. QED
      BY <3>1, <3>2, <3>3
  <2>7. CASE CreateSymlink(p)
    BY <2>7, <1>1 DEF CreateSymlink
  <2>8. CASE AppendRead(p) \/ AppendTruncate(p) \/ AppendWrite(p)
    BY <2>8, <1>2 DEF AppendRead, AppendTruncate, AppendWrite
  <2>9. QED
    BY <1>8, <2>1, <2>2, <2>3, <2>4, <2>5, <2>6, <2>7, <2>8 DEF Command
<1>9. ASSUME NEW c \in Commands, Issue(p, c)
      PROVE  /\ (Holds(p) \/ (pc[p] = "link" /\ cmd[p].op = "init"))' =>
                  dirs'[stamp'[p]] # {}
             /\ (pc[p] \in Sourced /\ cmd[p].op = "fork")' =>
                  src'[p] \in DOMAIN dirs' /\ dirs'[src'[p]] # {}
  BY <1>7, <1>9
<1>10. QED
  BY <1>3, <1>4, <1>5, <1>6, <1>8, <1>9 DEF Next

\* The registry is complete in every reachable state.
LEMMA CompleteInvariant ==
  ASSUME UserEdits \subseteq {"entry"}
  PROVE  Spec => [](TypeInv /\ OwnerInv /\ CompleteInv)
<1>1. Init => CompleteInv
  BY EmptyGood DEF Init, CompleteInv, ListsGood, Unlisted, DirsFilled, Linked, Holds,
                   Rewriting, Sourced, Named, Sourcing, Trying, Points, File
<1>2. TypeInv /\ OwnerInv /\ CompleteInv /\ [Next]_vars => CompleteInv'
  <2> SUFFICES ASSUME TypeInv, OwnerInv, CompleteInv, [Next]_vars PROVE CompleteInv'
    OBVIOUS
  <2>1. CASE Next
    BY <2>1, StepLists, StepUnlisted, StepFilled DEF CompleteInv
  <2>2. CASE UNCHANGED vars
    BY <2>2 DEF vars, store, local, CompleteInv, ListsGood, Unlisted, DirsFilled, Linked,
                Holds, Rewriting, Good, Complete
  <2>3. QED
    BY <2>1, <2>2
<1>3. QED
  BY <1>1, <1>2, OwnerInvariant, PTL DEF Spec

\* However many commands run at once and wherever they die, an experiment found
\* through the registry has its files, and its symlink agrees.
THEOREM RegistryListsComplete ==
  ASSUME UserEdits \subseteq {"entry"}
  PROVE  Spec => []RegisteredIsComplete
<1>1. CompleteInv => RegisteredIsComplete
  BY DEF CompleteInv, ListsGood, Good, Complete, RegisteredIsComplete, Entries
<1>2. QED
  BY <1>1, CompleteInvariant, PTL

\* Nor is an experiment ever hidden by a second entry of its name.
THEOREM RegistryListsOnce ==
  ASSUME UserEdits \subseteq {"entry"}
  PROVE  Spec => []NoShadowedEntry
<1>1. CompleteInv => NoShadowedEntry
  BY DEF CompleteInv, ListsGood, Good, NoDuplicate, NoShadowedEntry, Entries
<1>2. QED
  BY <1>1, CompleteInvariant, PTL

-----------------------------------------------------------------------------
(* Under one sb-cli at a time, whatever the user edits between its         *)
(* commands: no experiment shares a directory, and registry.py behaves as  *)
(* the table of NameTable.                                                 *)

\* At most one sb-cli.
OneProcess == \A p, q \in Procs : p = q

-----------------------------------------------------------------------------
(* Every experiment has a directory of its own.                            *)

\* The directories entries lead to: distinct, and not a second that _timestamp
\* could still hand out once the user removed them.
Kept(es) ==
  /\ \A i \in DOMAIN es : es[i].dir \in DOMAIN dirs \/ es[i].dir.t < now
  /\ \A i, j \in DOMAIN es : es[i].dir = es[j].dir => i = j

Unused(d, es) == \A i \in DOMAIN es : es[i].dir # d

\* The command has its directory and has not filled it.
Filling(p) == pc[p] = "files" \/ (pc[p] = "link" /\ cmd[p].op = "fork")

\* The command has its second and has not read the registry for its append.
Owning(p) == pc[p] \in Stamped /\ ~ Rewriting(p)

OwnDirInv ==
  /\ \A d \in DOMAIN dirs : \A v, w \in dirs[d] : v = w
  /\ Kept(registry.es)
  /\ \A p \in Procs :
       /\ Rewriting(p) => Kept(text[p].es)
       /\ pc[p] = "stamped" => stamp[p] \notin DOMAIN dirs
       /\ Filling(p) => dirs[stamp[p]] = {}
       /\ Owning(p) => Unused(stamp[p], registry.es)

\* A step that touches no directory and at most empties the registry.
LEMMA OwnDirKept ==
  ASSUME OneProcess, OwnDirInv, NEW p \in Procs, UNCHANGED <<dirs, now>>,
         registry'.es \in {registry.es, << >>},
         Rewriting(p)' => Rewriting(p) /\ text'[p] = text[p],
         pc'[p] # "stamped",
         Filling(p)' => Filling(p) /\ stamp'[p] = stamp[p],
         Owning(p)' => Owning(p) /\ stamp'[p] = stamp[p]
  PROVE  OwnDirInv'
<1>1. Kept(registry.es)'
  BY DEF OwnDirInv, Kept
<1>2. \A q \in Procs : q = p
  BY DEF OneProcess
<1>3. Rewriting(p)' => Kept(text[p].es)'
  BY DEF OwnDirInv, Kept
<1>4. Owning(p)' => Unused(stamp[p], registry.es)'
  BY DEF OwnDirInv, Unused
<1>5. Filling(p)' => dirs'[stamp'[p]] = {}
  BY DEF OwnDirInv
<1>6. \A d \in DOMAIN dirs' : \A v, w \in dirs'[d] : v = w
  BY DEF OwnDirInv
<1>7. QED
  BY <1>1, <1>2, <1>3, <1>4, <1>5, <1>6 DEF OwnDirInv

\* The steps that only move a command on.
LEMMA OwnDirQuiet ==
  ASSUME OneProcess, TypeInv, OwnDirInv, NEW p \in Procs,
         \/ EnsureForSource(p) \/ EnsureForLoad(p) \/ EnsureForAppend(p) \/ ChooseName(p) \/ RefuseName(p)
         \/ CreateSymlink(p) \/ AppendTruncate(p) \/ Crash(p) \/ \E c \in Commands : Issue(p, c)
  PROVE  OwnDirInv'
<1> USE DEF Rewriting, Filling, Owning, Stamped, Named, Sourcing, Trying, Points
<1>0. pc \in [Procs -> Points] /\ cmd \in [Procs -> Commands]
  BY DEF TypeInv, TypeOK
<1>1. CASE EnsureForSource(p) \/ EnsureForLoad(p) \/ EnsureForAppend(p)
  <2>1. /\ UNCHANGED <<dirs, now, cmd, stamp, text>>
        /\ registry' \in {registry, File("empty", << >>)} \/ registry' \in Overlaid(Template)
    BY <1>1 DEF EnsureForSource, EnsureForLoad, EnsureForAppend, EnsureExists, store, local
  <2>2. registry'.es \in {registry.es, << >>}
    BY <2>1, OverlaidLeaves DEF File, Template
  <2>3. CASE EnsureForSource(p) \/ EnsureForLoad(p)
    <3>1. pc'[p] \in {"make0", "fill_make0", "resolve", "make", "fill_make", "load"}
      BY <1>0, <2>3 DEF EnsureForSource, EnsureForLoad, EnsureExists, Step
    <3>2. QED
      BY <2>1, <2>2, <3>1, OwnDirKept
  <2>4. CASE EnsureForAppend(p)
    <3>1. /\ pc'[p] \in {"make2", "fill_make2", "read"}
          /\ pc[p] \in {"ensure2", "make2", "fill_make2"}
      BY <1>0, <2>4 DEF EnsureForAppend, EnsureExists, Step
    <3>2. QED
      BY <2>1, <2>2, <3>1, OwnDirKept
  <2>5. QED
    BY <1>1, <2>3, <2>4
<1>2. CASE ChooseName(p) \/ RefuseName(p)
  <2>1. /\ UNCHANGED <<dirs, now, registry>>
        /\ pc'[p] \in {"reload", "look", "ensure", "load", "named", "idle"}
    BY <1>0, <1>2, ChoosingMoves DEF RefuseName, Step, store
  <2>2. QED
    BY <2>1, OwnDirKept
<1>3. CASE CreateSymlink(p)
  <2>1. /\ UNCHANGED <<dirs, now, registry, cmd, stamp>> /\ pc[p] = "link"
        /\ pc'[p] \in {"idle", IF cmd[p].op = "fork" THEN "files" ELSE "ensure2"}
    BY <1>0, <1>3 DEF CreateSymlink, Step, local
  <2>2. QED
    BY <2>1, OwnDirKept
<1>4. CASE AppendTruncate(p)
  <2>1. /\ UNCHANGED <<dirs, now, text>> /\ registry'.es = << >>
        /\ pc[p] = "truncate" /\ pc'[p] = "write"
    BY <1>0, <1>4 DEF AppendTruncate, Step, local, File
  <2>2. QED
    BY <2>1, OwnDirKept
<1>5. CASE Crash(p) \/ \E c \in Commands : Issue(p, c)
  <2>1. UNCHANGED <<dirs, now, registry>> /\ pc'[p] \in {"idle", "named", "ensure0", "look"}
    BY <1>0, <1>5 DEF Crash, Issue, Step, store
  <2>2. QED
    BY <2>1, OwnDirKept
<1>6. QED
  BY <1>1, <1>2, <1>3, <1>4, <1>5

\* The second taken is one no directory and no entry has: an entry whose directory
\* the user removed is of an earlier second.
LEMMA OwnDirStamp ==
  ASSUME OneProcess, TypeInv, OwnDirInv, NEW p \in Procs, TakeStamp(p)
  PROVE  OwnDirInv'
<1> USE DEF Rewriting, Filling, Owning
<1>1. /\ pc[p] = "named" /\ pc'[p] = "stamped" /\ stamp'[p] = FreshStamp
      /\ UNCHANGED <<dirs, now, registry, text>>
  BY DEF TakeStamp, Step, store, TypeInv, TypeOK
<1>2. FreshStamp \notin DOMAIN dirs /\ FreshStamp.t = now
  <2>1. p \in Pending
    BY <1>1 DEF Pending, Points, Made, Stamped, Named, Sourcing, Trying
  <2>2. QED
    BY <2>1, FreshStampIsFresh DEF FreshStamp
<1>3. now \in Int
  BY BoundsTyped DEF TypeInv, TypeOK
<1>4. Unused(FreshStamp, registry.es)
  <2> SUFFICES ASSUME NEW i \in DOMAIN registry.es, registry.es[i].dir = FreshStamp PROVE FALSE
    BY DEF Unused
  <2>1. FreshStamp.t < now
    BY <1>2 DEF OwnDirInv, Kept
  <2>2. QED
    BY <1>2, <1>3, <2>1
<1>5. \A q \in Procs : q = p
  BY DEF OneProcess
<1>6. Kept(registry.es)' /\ Unused(stamp[p], registry.es)'
  BY <1>1, <1>4 DEF OwnDirInv, Kept, Unused
<1>7. QED
  BY <1>1, <1>2, <1>5, <1>6 DEF OwnDirInv

\* mkdir creates a directory that was not there, and it is empty.
LEMMA OwnDirMake ==
  ASSUME OneProcess, TypeInv, OwnDirInv, NEW p \in Procs, MakeDir(p)
  PROVE  OwnDirInv'
<1> USE DEF Rewriting, Filling, Owning
<1>1. /\ pc[p] = "stamped" /\ pc'[p] \in {"link", "files", "idle"}
      /\ dirs' = [d \in DOMAIN dirs \cup {stamp[p]} |-> IF d \in DOMAIN dirs THEN dirs[d] ELSE {}]
      /\ UNCHANGED <<now, registry, stamp, text, cmd>>
  BY DEF MakeDir, Step, local, TypeInv, TypeOK
<1>2. stamp[p] \notin DOMAIN dirs
  BY <1>1 DEF OwnDirInv
<1>3. /\ DOMAIN dirs \subseteq DOMAIN dirs' /\ dirs'[stamp[p]] = {}
      /\ \A d \in DOMAIN dirs' : dirs'[d] = {} \/ (d \in DOMAIN dirs /\ dirs'[d] = dirs[d])
  BY <1>1, <1>2
<1>4. \A q \in Procs : q = p
  BY DEF OneProcess
<1>5. Kept(registry.es)'
  BY <1>1, <1>3 DEF OwnDirInv, Kept
<1>6. Unused(stamp[p], registry.es)'
  BY <1>1 DEF OwnDirInv, Unused, Stamped, Named, Sourcing, Trying, Points
<1>7. \A d \in DOMAIN dirs' : \A v, w \in dirs'[d] : v = w
  BY <1>3 DEF OwnDirInv
<1>8. QED
  BY <1>1, <1>3, <1>4, <1>5, <1>6, <1>7 DEF OwnDirInv

\* A directory is filled once: it was empty.
LEMMA OwnDirFill ==
  ASSUME OneProcess, TypeInv, OwnDirInv, NEW p \in Procs, WriteFiles(p)
  PROVE  OwnDirInv'
<1> USE DEF Rewriting, Filling, Owning
<1>1. PICK b :
        /\ pc[p] = "files"
        /\ dirs' \in {dirs, [dirs EXCEPT ![stamp[p]] = @ \cup {b}]}
        /\ UNCHANGED <<now, registry, stamp, text, cmd>>
  BY DEF WriteFiles, Step, local
<1>2. pc'[p] \in {"idle", "ensure2"} \/ (pc'[p] = "link" /\ cmd[p].op # "fork")
  BY DEF WriteFiles, Step, TypeInv, TypeOK
<1>3. dirs[stamp[p]] = {} /\ stamp[p] \in DOMAIN dirs
  BY <1>1 DEF OwnDirInv, TypeInv, Progress, Points, Made, Stamped, Named, Sourcing, Trying
<1>4. \A q \in Procs : q = p
  BY DEF OneProcess
<1>5. Kept(registry.es)'
  BY <1>1 DEF OwnDirInv, Kept
<1>6. Unused(stamp[p], registry.es)'
  BY <1>1 DEF OwnDirInv, Unused, Stamped, Named, Sourcing, Trying, Points
<1>7. \A d \in DOMAIN dirs' : \A v, w \in dirs'[d] : v = w
  BY <1>1, <1>3 DEF OwnDirInv
<1>8. QED
  BY <1>1, <1>2, <1>4, <1>5, <1>6, <1>7 DEF OwnDirInv

\* The entry appended is the only one that leads to its directory.
LEMMA OwnDirAppend ==
  ASSUME OneProcess, TypeInv, OwnDirInv, NEW p \in Procs, AppendRead(p) \/ AppendWrite(p)
  PROVE  OwnDirInv'
<1> USE DEF Rewriting, Filling, Owning
<1>1. \A q \in Procs : q = p
  BY DEF OneProcess
<1>2. CASE AppendRead(p)
  <2> DEFINE e == [name |-> name[p], dir |-> stamp[p]]
  <2>1. /\ e \in EntryType /\ stamp[p] \in DOMAIN dirs /\ e.dir = stamp[p]
        /\ text'[p].es = Append(registry.es, e) \/ text'[p].es = << >>
        /\ UNCHANGED <<dirs, links, registry, name, stamp>>
        /\ registry.es \in Seq(EntryType)
    BY <1>2, AppendReadText, ListsTyped
  <2>2. pc[p] = "read" /\ pc'[p] = "truncate" /\ UNCHANGED now
    BY <1>2 DEF AppendRead, Step, TypeInv, TypeOK
  <2> HIDE DEF e
  <2>3. Kept(registry.es) /\ Unused(stamp[p], registry.es)
    BY <2>2 DEF OwnDirInv, Stamped, Named, Sourcing, Trying, Points
  <2>4. Kept(Append(registry.es, e))
    BY <2>1, <2>3, AppendElements DEF Kept, Unused
  <2>5. Kept(text[p].es)'
    <3>1. CASE text'[p].es = Append(registry.es, e)
      BY <2>1, <2>2, <2>4, <3>1 DEF Kept
    <3>2. CASE text'[p].es = << >>
      BY <3>2 DEF Kept
    <3>3. QED
      BY <2>1, <3>1, <3>2
  <2>6. Kept(registry.es)'
    BY <2>1, <2>2, <2>3 DEF Kept
  <2>7. QED
    BY <1>1, <2>1, <2>2, <2>5, <2>6 DEF OwnDirInv
<1>3. CASE AppendWrite(p)
  <2>1. pc[p] = "write" /\ pc'[p] = "idle" /\ UNCHANGED <<dirs, now>> /\ registry' \in Overlaid(text[p])
    BY <1>3 DEF AppendWrite, Step, TypeInv, TypeOK
  <2>2. registry'.es \in {text[p].es, << >>}
    BY <2>1, OverlaidLeaves DEF File
  <2>3. Kept(registry.es)'
    BY <2>1, <2>2 DEF OwnDirInv, Kept
  <2>4. QED
    BY <1>1, <2>1, <2>3 DEF OwnDirInv, Stamped, Named, Sourcing, Trying
<1>4. QED
  BY <1>2, <1>3

\* The clock only runs forward.
LEMMA OwnDirTick ==
  ASSUME TypeInv, OwnDirInv, Tick
  PROVE  OwnDirInv'
<1>1. /\ now' = now + 1 /\ now \in Nat
      /\ UNCHANGED <<dirs, registry, pc, cmd, stamp, text>>
  BY BoundsTyped DEF Tick, store, local, TypeInv, TypeOK
<1>2. ASSUME NEW es \in Seq(EntryType), Kept(es)
      PROVE  Kept(es)'
  <2>1. \A i \in DOMAIN es : es[i] \in EntryType
    OBVIOUS
  <2>2. \A i \in DOMAIN es : es[i].dir.t \in Int
    BY <2>1, BoundsTyped DEF EntryType, Stamps
  <2>3. QED
    BY <1>1, <1>2, <2>2 DEF Kept
<1>3. Kept(registry.es)' /\ \A p \in Procs : Rewriting(p)' => Kept(text[p].es)'
  BY <1>1, <1>2, ListsTyped DEF OwnDirInv, Rewriting
<1>4. QED
  BY <1>1, <1>3 DEF OwnDirInv, Filling, Owning, Rewriting, Unused

\* The user removes a directory of an earlier second, or an entry.
LEMMA OwnDirEdit ==
  ASSUME TypeInv, OwnDirInv, Edit
  PROVE  OwnDirInv'
<1>1. /\ \A p \in Procs : pc'[p] = "idle"
      /\ now' = now /\ DOMAIN dirs' \subseteq DOMAIN dirs
      /\ \A d \in DOMAIN dirs : d \in DOMAIN dirs' \/ d.t < now
      /\ \A d \in DOMAIN dirs' : dirs'[d] = dirs[d]
  BY DEF Edit
<1>2. ASSUME NEW es \in Seq(EntryType), Kept(es)
      PROVE  Kept(es)'
  BY <1>1, <1>2 DEF Kept
<1>3. ASSUME NEW es \in Seq(EntryType), NEW i \in DOMAIN es, Kept(es)
      PROVE  Kept(RemoveAt(es, i)) /\ RemoveAt(es, i) \in Seq(EntryType)
  <2> DEFINE rs == RemoveAt(es, i)
  <2>1. rs \in Seq(EntryType)
    BY RemoveAtElements
  <2>2. \A j, k \in DOMAIN rs : \E m, n \in DOMAIN es :
          rs[j] = es[m] /\ rs[k] = es[n] /\ (m = n => j = k)
    BY RemoveAtEmbeds
  <2> HIDE DEF rs
  <2>3. \A j \in DOMAIN rs : rs[j].dir \in DOMAIN dirs \/ rs[j].dir.t < now
    <3>1. \A j \in DOMAIN rs : \E m \in DOMAIN es : rs[j] = es[m]
      BY <2>2
    <3>2. QED
      BY <1>3, <3>1 DEF Kept
  <2>4. \A j, k \in DOMAIN rs : rs[j].dir = rs[k].dir => j = k
    BY <1>3, <2>2 DEF Kept
  <2>5. QED
    BY <2>1, <2>3, <2>4 DEF Kept, rs
<1>4. Kept(registry.es)'
  <2>1. Kept(registry.es) /\ registry.es \in Seq(EntryType)
    BY ListsTyped DEF OwnDirInv
  <2>2. \/ registry'.es = registry.es
        \/ \E i \in DOMAIN registry.es : registry'.es = RemoveAt(registry.es, i)
    BY DEF Edit, Entries, TypeInv, TypeOK, FileType
  <2>3. QED
    BY <1>2, <1>3, <2>1, <2>2
<1>5. QED
  BY <1>1, <1>4 DEF OwnDirInv, Filling, Owning, Rewriting, Stamped, Named, Sourcing, Trying

\* Directories have one owner in every reachable state.
LEMMA OwnDirInvariant ==
  ASSUME OneProcess
  PROVE  Spec => [](TypeInv /\ OwnDirInv)
<1>1. Init => OwnDirInv
  BY DEF Init, OwnDirInv, Kept, Filling, Owning, Rewriting, Stamped, Named, Sourcing, Trying, File
<1>2. TypeInv /\ OwnDirInv /\ [Next]_vars => OwnDirInv'
  <2> SUFFICES ASSUME TypeInv, OwnDirInv, [Next]_vars PROVE OwnDirInv'
    OBVIOUS
  <2>1. ASSUME NEW p \in Procs, Command(p) \/ Crash(p) \/ \E c \in Commands : Issue(p, c)
        PROVE  OwnDirInv'
    BY <2>1, OwnDirQuiet, OwnDirStamp, OwnDirMake, OwnDirFill, OwnDirAppend DEF Command
  <2>2. CASE UNCHANGED vars
    BY <2>2 DEF vars, store, local, OwnDirInv, Kept, Unused, Filling, Owning, Rewriting
  <2>3. QED
    BY <2>1, <2>2, OwnDirTick, OwnDirEdit DEF Next
<1>3. QED
  BY <1>1, <1>2, TypeInvariant, PTL DEF Spec

\* Under one sb-cli at a time every experiment has a directory of its own: no two
\* commands fill one, and no two names are registered for it, whatever the user
\* removes between them and wherever a command dies.
THEOREM DirectoryHasOneOwner ==
  ASSUME OneProcess
  PROVE  Spec => []OwnDirectory
<1>1. OwnDirInv => OwnDirectory
  <2> SUFFICES ASSUME OwnDirInv PROVE OwnDirectory
    OBVIOUS
  <2>1. ASSUME NEW d \in DOMAIN dirs PROVE Cardinality(dirs[d]) <= 1
    <3>1. \A v, w \in dirs[d] : v = w
      BY DEF OwnDirInv
    <3>2. CASE dirs[d] = {}
      BY <3>2, FS_EmptySet
    <3>3. ASSUME NEW w \in dirs[d] PROVE Cardinality(dirs[d]) <= 1
      <4>1. dirs[d] = {w}
        BY <3>1
      <4>2. QED
        BY <4>1, FS_Singleton
    <3>4. QED
      BY <3>2, <3>3
  <2>2. QED
    BY <2>1 DEF OwnDirInv, OwnDirectory, Kept, Entries
<1>2. QED
  BY <1>1, OwnDirInvariant, PTL

-----------------------------------------------------------------------------
(* Names, where every command is left to choose its own.                   *)

AutoOnly == \A c \in Commands : c.out = AutoName

\* The command has its name and has not read the registry for its append.
Naming(p) == pc[p] \in Named /\ ~ Rewriting(p)

NamesInv ==
  /\ NoDuplicate(registry.es)
  /\ \A p \in Procs :
       /\ Rewriting(p) => NoDuplicate(text[p].es)
       /\ Naming(p) => Absent(name[p], registry.es)

\* How a command comes to have a name that it has not listed.
LEMMA NamingMoves ==
  ASSUME OneProcess, AutoOnly, TypeInv, Next, NEW p \in Procs, Naming(p)'
  PROVE  \/ /\ name'[p] = name[p] /\ ~ Registered(name[p])
            /\ UNCHANGED registry
         \/ /\ Naming(p) /\ name'[p] = name[p]
            /\ registry'.es \in {registry.es, << >>}
<1> USE DEF Naming, Rewriting, Named, Sourcing, Trying, Points
<1>0. pc \in [Procs -> Points] /\ cmd \in [Procs -> Commands]
  BY DEF TypeInv, TypeOK
<1>1. CASE Tick
  BY <1>1 DEF Tick, store, local
<1>2. CASE Edit
  BY <1>2 DEF Edit, local
<1>3. ASSUME NEW q \in Procs, Crash(q) \/ \E c \in Commands : Issue(q, c)
      PROVE  FALSE
  <2>1. q = p
    BY DEF OneProcess
  <2>2. pc'[q] \in {"idle", "ensure0", "look"}
    BY <1>0, <1>3 DEF Crash, Issue, Step, AutoOnly
  <2>3. QED
    BY <2>1, <2>2
<1>4. ASSUME NEW q \in Procs, Command(q)
      PROVE  \/ /\ name'[p] = name[p] /\ ~ Registered(name[p])
                /\ UNCHANGED registry
             \/ /\ Naming(p) /\ name'[p] = name[p]
                /\ registry'.es \in {registry.es, << >>}
  <2> USE <1>0 DEF Step, store, local
  <2>0. q = p
    BY DEF OneProcess
  <2>1. CASE EnsureForSource(p) \/ EnsureForLoad(p) \/ EnsureForAppend(p)
    <3>1. registry' \in {registry, File("empty", << >>)} \/ registry' \in Overlaid(Template)
      BY <2>1 DEF EnsureForSource, EnsureForLoad, EnsureForAppend, EnsureExists
    <3>2. registry'.es \in {registry.es, << >>}
      BY <3>1, OverlaidLeaves DEF File, Template
    <3>3. name' = name /\ Naming(p)
      BY <2>1 DEF EnsureForSource, EnsureForLoad, EnsureForAppend, EnsureExists
    <3>4. QED
      BY <3>2, <3>3
  <2>2. CASE RefuseName(p) \/ TakeStamp(p)
    BY <2>2 DEF RefuseName, TakeStamp
  <2>3. CASE MakeDir(p) \/ WriteFiles(p)
    BY <2>3 DEF MakeDir, WriteFiles
  <2>4. CASE CreateSymlink(p)
    BY <2>4 DEF CreateSymlink
  <2>5. CASE AppendRead(p) \/ AppendTruncate(p) \/ AppendWrite(p)
    BY <2>5 DEF AppendRead, AppendTruncate, AppendWrite
  <2>6. CASE ChooseName(p)
    <3>1. CASE ResolveSource(p) \/ LookForLink(p)
      BY <3>1 DEF ResolveSource, LookForLink, TryName
    <3>2. CASE SettleName(p)
      BY <3>2 DEF SettleName, TryName, AutoOnly
    <3>3. CASE AskRegistry(p)
      BY <3>3 DEF AskRegistry, TryName
    <3>4. QED
      BY <2>6, <3>1, <3>2, <3>3 DEF ChooseName
  <2>7. QED
    BY <1>4, <2>0, <2>1, <2>2, <2>3, <2>4, <2>5, <2>6 DEF Command
<1>5. QED
  BY <1>1, <1>2, <1>3, <1>4 DEF Next

\* The one command that runs lists a name that nothing has listed since it chose it.
LEMMA StepNames ==
  ASSUME OneProcess, AutoOnly, TypeInv, NamesInv, Next
  PROVE  NamesInv'
<1>0. /\ \A es \in Seq(EntryType) : NoDuplicate(es) =>
           \A i \in DOMAIN es : NoDuplicate(RemoveAt(es, i))
      /\ NoDuplicate(<< >>) /\ \A n : Absent(n, << >>)
      /\ registry.es \in Seq(EntryType) /\ \A p \in Procs : text[p].es \in Seq(EntryType)
  <2>1. ASSUME NEW es \in Seq(EntryType), NoDuplicate(es), NEW i \in DOMAIN es
        PROVE  NoDuplicate(RemoveAt(es, i))
    <3> DEFINE rs == RemoveAt(es, i)
    <3>1. \A j, k \in DOMAIN rs : \E m, n \in DOMAIN es :
            rs[j] = es[m] /\ rs[k] = es[n] /\ (m = n => j = k)
      BY RemoveAtEmbeds
    <3> HIDE DEF rs
    <3>2. NoDuplicate(rs)
      BY <2>1, <3>1 DEF NoDuplicate
    <3>3. QED
      BY <3>2 DEF rs
  <2>2. QED
    BY <2>1, EmptyGood, ListsTyped DEF Good
<1>1. NoDuplicate(registry'.es)
  <2>1. CASE registry'.es \in {registry.es, << >>}
    BY <1>0, <2>1 DEF NamesInv
  <2>2. CASE \E p \in Procs : AppendWrite(p) /\ registry'.es = text[p].es
    BY <2>2 DEF NamesInv, AppendWrite, Step, Rewriting
  <2>3. CASE \E i \in DOMAIN registry.es : registry'.es = RemoveAt(registry.es, i)
    BY <1>0, <2>3 DEF NamesInv
  <2>4. QED
    BY <2>1, <2>2, <2>3, RegistryMoves
<1>2. ASSUME NEW p \in Procs, Rewriting(p)' PROVE NoDuplicate(text'[p].es)
  <2>1. CASE Rewriting(p) /\ text'[p] = text[p]
    BY <2>1 DEF NamesInv
  <2>2. CASE AppendRead(p)
    <3> DEFINE e == [name |-> name[p], dir |-> stamp[p]]
    <3>1. /\ Holds(p) /\ e \in EntryType /\ e.name = name[p]
          /\ text'[p].es = Append(registry.es, e) \/ text'[p].es = << >>
      BY <2>2, AppendReadText
    <3>2. Absent(name[p], registry.es) /\ NoDuplicate(registry.es)
      BY <2>2 DEF NamesInv, Naming, Named, Sourcing, Trying, Points, Rewriting, AppendRead, Step
    <3> HIDE DEF e
    <3>3. NoDuplicate(Append(registry.es, e))
      BY <1>0, <3>1, <3>2, AppendElements DEF NoDuplicate, Absent
    <3>4. QED
      BY <1>0, <3>1, <3>3
  <2>3. QED
    BY <1>2, <2>1, <2>2, CommandMoves
<1>3. ASSUME NEW p \in Procs, Naming(p)' PROVE Absent(name'[p], registry'.es)
  <2>1. CASE name'[p] = name[p] /\ ~ Registered(name[p]) /\ UNCHANGED registry
    BY <2>1 DEF Registered, Entries, Absent
  <2>2. CASE Naming(p) /\ name'[p] = name[p] /\ registry'.es \in {registry.es, << >>}
    BY <1>0, <2>2 DEF NamesInv
  <2>3. QED
    BY <1>3, <2>1, <2>2, NamingMoves
<1>4. QED
  BY <1>1, <1>2, <1>3 DEF NamesInv, NoDuplicate, Absent

\* The names hold in every reachable state.
LEMMA NamesInvariant ==
  ASSUME OneProcess, AutoOnly
  PROVE  Spec => [](TypeInv /\ NamesInv)
<1>1. Init => NamesInv
  BY DEF Init, NamesInv, Naming, Rewriting, Named, Sourcing, Trying, Points, NoDuplicate, File
<1>2. TypeInv /\ NamesInv /\ [Next]_vars => NamesInv'
  <2> SUFFICES ASSUME TypeInv, NamesInv, UNCHANGED vars PROVE NamesInv'
    BY StepNames
  <2>1. QED
    BY DEF vars, store, local, NamesInv, Naming, Rewriting, NoDuplicate, Absent
<1>3. QED
  BY <1>1, <1>2, TypeInvariant, PTL DEF Spec

\* Under one sb-cli at a time that chooses its names itself, no experiment is hidden
\* by a second entry of its name, whatever the user removes.
THEOREM SequentialListsOnce ==
  ASSUME OneProcess, AutoOnly
  PROVE  Spec => []NoShadowedEntry
<1>1. NamesInv => NoShadowedEntry
  BY DEF NamesInv, NoDuplicate, NoShadowedEntry, Entries
<1>2. QED
  BY <1>1, NamesInvariant, PTL

-----------------------------------------------------------------------------
(* The rewrite of registry.py.                                             *)

\* A file that does not parse has no entries; while it is created it has none; and
\* between the truncation of a rewrite and its last write, the text about to be
\* written holds what the file listed, and at most one entry more.
RewriteInv ==
  /\ registry.st # "dict" => registry.es = << >>
  /\ \A p \in Procs :
       /\ pc[p] \in {"make0", "fill_make0", "make", "fill_make", "make2", "fill_make2"} => registry.es = << >>
       /\ pc[p] = "write" => registry = File("empty", << >>)
       /\ text[p].st # "dict" => text[p].es = << >>
       /\ pc[p] = "truncate" =>
            SubSeq(text[p].es, 1, Len(text[p].es) - 1) = registry.es

\* The text an append writes, but for its last entry, is what it read.
LEMMA InsertedFront ==
  ASSUME NEW f, NEW e, f.es \in Seq(EntryType), e \in EntryType,
         f.st # "dict" => f.es = << >>
  PROVE  LET es == Inserted(f, e).es IN SubSeq(es, 1, Len(es) - 1) = f.es
<1>1. CASE f.st = "dict"
  <2>1. Inserted(f, e).es = Append(f.es, e)
    BY <1>1 DEF Inserted, File
  <2>2. SubSeq(Append(f.es, e), 1, Len(f.es)) = f.es
    OBVIOUS
  <2>3. QED
    BY <2>1, <2>2
<1>2. CASE f.st # "dict"
  BY <1>2 DEF Inserted, File
<1>3. QED
  BY <1>1, <1>2

\* The one command that runs keeps what it rewrites.
LEMMA StepRewrite ==
  ASSUME OneProcess, TypeInv, RewriteInv, Next
  PROVE  RewriteInv'
<1>0. pc \in [Procs -> Points] /\ text \in [Procs -> FileType] /\ registry \in FileType
  BY DEF TypeInv, TypeOK
<1>1. CASE Tick
  BY <1>1 DEF Tick, store, local, RewriteInv
<1>2. CASE Edit
  <2>1. registry'.st = registry.st /\ (registry.es = << >> => registry'.es = << >>)
    BY <1>0, <1>2 DEF Edit, Entries, FileType
  <2>2. QED
    BY <1>2, <2>1 DEF Edit, local, RewriteInv
<1>3. ASSUME NEW p \in Procs, Command(p) \/ Crash(p) \/ \E c \in Commands : Issue(p, c)
      PROVE  RewriteInv'
  <2> USE <1>0 DEF Step, store, local
  <2>0. \A q \in Procs : q = p
    BY DEF OneProcess
  <2>1. CASE /\ UNCHANGED registry /\ text'[p] \in {text[p], Template}
             /\ pc'[p] \notin {"make0", "fill_make0", "make", "fill_make", "make2", "fill_make2",
                              "write", "truncate"}
    BY <2>0, <2>1 DEF RewriteInv, Template, File
  <2>2. CASE EnsureForLoad(p)
    <3>1. CASE UNCHANGED registry
      BY <2>0, <2>2, <3>1 DEF EnsureForLoad, EnsureExists, RewriteInv, File, Template
    <3>2. CASE pc'[p] = "fill_make" /\ registry' = File("empty", << >>) /\ UNCHANGED text
      BY <2>0, <3>2 DEF RewriteInv, File
    <3>3. CASE pc'[p] = "load" /\ registry' \in Overlaid(Template) /\ UNCHANGED text
      <4>1. registry'.es = << >>
        BY <3>3, OverlaidLeaves DEF File, Template
      <4>2. QED
        BY <2>0, <3>3, <4>1 DEF RewriteInv
    <3>4. QED
      BY <2>2, <3>1, <3>2, <3>3 DEF EnsureForLoad, EnsureExists
  <2>3. CASE EnsureForAppend(p)
    <3>1. CASE UNCHANGED registry
      BY <2>0, <2>3, <3>1 DEF EnsureForAppend, EnsureExists, RewriteInv, File, Template
    <3>2. CASE pc'[p] = "fill_make2" /\ registry' = File("empty", << >>) /\ UNCHANGED text
      BY <2>0, <3>2 DEF RewriteInv, File
    <3>3. CASE pc'[p] = "read" /\ registry' \in Overlaid(Template) /\ UNCHANGED text
      <4>1. registry'.es = << >>
        BY <3>3, OverlaidLeaves DEF File, Template
      <4>2. QED
        BY <2>0, <3>3, <4>1 DEF RewriteInv
    <3>4. QED
      BY <2>3, <3>1, <3>2, <3>3 DEF EnsureForAppend, EnsureExists
  <2>4. CASE AppendRead(p)
    <3> DEFINE e == [name |-> name[p], dir |-> stamp[p]]
    <3>1. /\ e \in EntryType /\ registry.es \in Seq(EntryType)
          /\ text'[p] = Inserted(registry, e)
          /\ pc'[p] = "truncate" /\ UNCHANGED registry
      BY <2>4, AppendReadText, ListsTyped DEF AppendRead
    <3>2. SubSeq(text'[p].es, 1, Len(text'[p].es) - 1) = registry.es
      BY <3>1, InsertedFront DEF RewriteInv
    <3>3. text'[p].st # "dict" => text'[p].es = << >>
      BY <3>1 DEF Inserted, File
    <3>4. QED
      BY <2>0, <3>1, <3>2, <3>3 DEF RewriteInv
  <2>5. CASE AppendTruncate(p)
    <3>1. registry' = File("empty", << >>) /\ pc'[p] = "write" /\ UNCHANGED text
      BY <2>5 DEF AppendTruncate
    <3>2. QED
      BY <2>0, <3>1 DEF RewriteInv, File
  <2>6. CASE AppendWrite(p)
    <3>1. registry' \in Overlaid(text[p]) /\ pc'[p] = "idle" /\ UNCHANGED text
      BY <2>6 DEF AppendWrite
    <3>2. registry' = text[p] \/ registry' = File("broken", << >>)
      BY <3>1, OverlaidLeaves
    <3>3. QED
      BY <2>0, <3>1, <3>2 DEF RewriteInv, File
  <2>7. CASE \E c \in Commands : Issue(p, c)
    <3>1. UNCHANGED registry /\ text'[p] = Template /\ pc'[p] \in {"named", "ensure0", "look"}
      BY <2>7 DEF Issue
    <3>2. QED
      BY <2>1, <3>1
  <2>8. CASE EnsureForSource(p)
    <3>1. CASE UNCHANGED registry
      BY <2>0, <2>8, <3>1 DEF EnsureForSource, EnsureExists, RewriteInv, File, Template
    <3>2. CASE pc'[p] = "fill_make0" /\ registry' = File("empty", << >>) /\ UNCHANGED text
      BY <2>0, <3>2 DEF RewriteInv, File
    <3>3. CASE pc'[p] = "resolve" /\ registry' \in Overlaid(Template) /\ UNCHANGED text
      <4>1. registry'.es = << >>
        BY <3>3, OverlaidLeaves DEF File, Template
      <4>2. QED
        BY <2>0, <3>3, <4>1 DEF RewriteInv
    <3>4. QED
      BY <2>8, <3>1, <3>2, <3>3 DEF EnsureForSource, EnsureExists
  <2>9. CASE ChooseName(p)
    <3>1. /\ UNCHANGED <<registry, text>>
          /\ pc'[p] \in {"reload", "look", "ensure", "load", "named", "idle"}
      BY <2>9, ChoosingMoves
    <3>2. QED
      BY <2>1, <3>1
  <2>10. QED
    BY <1>3, <2>1, <2>2, <2>3, <2>4, <2>5, <2>6, <2>7, <2>8, <2>9
       DEF Command, RefuseName, TakeStamp, MakeDir, WriteFiles, CreateSymlink, Crash
<1>4. QED
  BY <1>1, <1>2, <1>3 DEF Next

-----------------------------------------------------------------------------
(* The table the entries of the file stand for.                            *)

\* The key of an entry is a key of the table, with the entry's directory.
LEMMA TableOfEntry ==
  ASSUME NEW es \in Seq(EntryType), NoDuplicate(es)
  PROVE  /\ \A m : m \in DOMAIN TableOf(es) <=> \E i \in DOMAIN es : es[i].name = m
         /\ \A i \in DOMAIN es : TableOf(es)[es[i].name] = es[i].dir
<1>1. ASSUME NEW i \in DOMAIN es
      PROVE  Max({j \in DOMAIN es : es[j].name = es[i].name}) = i
  <2> DEFINE J == {j \in DOMAIN es : es[j].name = es[i].name}
  <2>1. J = {i}
    BY DEF NoDuplicate
  <2>2. i \in Nat
    OBVIOUS
  <2>3. {i} \in SUBSET Nat /\ {i} # {} /\ \A j \in {i} : j <= i
    BY <2>2
  <2>4. Max({i}) \in {i}
    BY <2>2, <2>3, MaxIsGreatest
  <2>5. QED
    BY <2>1, <2>4
<1>2. QED
  BY <1>1 DEF TableOf

\* Appending an entry of a new name adds it to the table.
LEMMA TableAppend ==
  ASSUME NEW es \in Seq(EntryType), NEW e \in EntryType,
         NoDuplicate(es), Absent(e.name, es)
  PROVE  TableOf(Append(es, e)) =
           [m \in DOMAIN TableOf(es) \cup {e.name} |->
              IF m = e.name THEN e.dir ELSE TableOf(es)[m]]
<1> DEFINE as == Append(es, e)
<1>1. /\ as \in Seq(EntryType) /\ DOMAIN as = DOMAIN es \cup {Len(es) + 1}
      /\ \A i \in DOMAIN es : as[i] = es[i]
      /\ as[Len(es) + 1] = e
  OBVIOUS
<1> HIDE DEF as
<1>2. NoDuplicate(as)
  BY <1>1 DEF NoDuplicate, Absent
<1> DEFINE t == TableOf(es)
           u == TableOf(as)
<1>3. /\ \A m : m \in DOMAIN t <=> \E i \in DOMAIN es : es[i].name = m
      /\ \A i \in DOMAIN es : t[es[i].name] = es[i].dir
  BY TableOfEntry
<1>4. /\ \A m : m \in DOMAIN u <=> \E i \in DOMAIN as : as[i].name = m
      /\ \A i \in DOMAIN as : u[as[i].name] = as[i].dir
  BY <1>1, <1>2, TableOfEntry
<1>5. u = [m \in DOMAIN u |-> u[m]]
  BY DEF TableOf
<1> HIDE DEF t, u
<1>6. e.name \in DOMAIN u /\ u[e.name] = e.dir
  BY <1>1, <1>4
<1>7. ASSUME NEW m \in DOMAIN t
      PROVE  m \in DOMAIN u /\ u[m] = t[m] /\ m # e.name
  <2>1. PICK i \in DOMAIN es : es[i].name = m
    BY <1>3
  <2>2. i \in DOMAIN as /\ as[i] = es[i] /\ m # e.name
    BY <1>1, <2>1 DEF Absent
  <2>3. m \in DOMAIN u /\ u[m] = es[i].dir /\ t[m] = es[i].dir
    BY <1>3, <1>4, <2>1, <2>2
  <2>4. QED
    BY <2>2, <2>3
<1>8. ASSUME NEW m \in DOMAIN u
      PROVE  m \in DOMAIN t \/ m = e.name
  <2>1. PICK i \in DOMAIN as : as[i].name = m
    BY <1>4
  <2>2. i = Len(es) + 1 \/ (i \in DOMAIN es /\ as[i] = es[i])
    BY <1>1
  <2>3. QED
    BY <1>1, <1>3, <2>1, <2>2
<1>9. DOMAIN u = DOMAIN t \cup {e.name}
      /\ \A m \in DOMAIN u : u[m] = IF m = e.name THEN e.dir ELSE t[m]
  BY <1>6, <1>7, <1>8
<1>10. QED
  BY <1>9, <1>5 DEF as, t, u

\* Removing an entry removes its name.
LEMMA TableRemove ==
  ASSUME NEW es \in Seq(EntryType), NEW i \in DOMAIN es, NoDuplicate(es)
  PROVE  TableOf(RemoveAt(es, i)) =
           [m \in DOMAIN TableOf(es) \ {es[i].name} |-> TableOf(es)[m]]
<1> DEFINE rs == RemoveAt(es, i)
           at(j) == IF j < i THEN j ELSE j + 1
<1>1. DOMAIN es = 1 .. Len(es) /\ Len(es) \in Nat /\ i \in 1 .. Len(es)
  OBVIOUS
<1>2. /\ rs \in Seq(EntryType) /\ DOMAIN rs = 1 .. Len(es) - 1
      /\ \A j \in 1 .. Len(es) - 1 : rs[j] = es[at(j)]
  BY RemoveAtElements
<1>3. \A j \in 1 .. Len(es) - 1 : at(j) \in 1 .. Len(es) /\ at(j) # i
  BY <1>1
<1>4. \A k \in 1 .. Len(es) : k # i => \E j \in 1 .. Len(es) - 1 : at(j) = k
  <2> SUFFICES ASSUME NEW k \in 1 .. Len(es), k # i
               PROVE  \E j \in 1 .. Len(es) - 1 : at(j) = k
    OBVIOUS
  <2>1. CASE k < i
    BY <1>1, <2>1
  <2>2. CASE k > i
    <3>1. k - 1 \in 1 .. Len(es) - 1 /\ at(k - 1) = k
      BY <1>1, <2>2
    <3>2. QED
      BY <3>1
  <2>3. QED
    BY <1>1, <2>1, <2>2
<1> HIDE DEF at
<1>5. NoDuplicate(rs)
  BY RemoveAtEmbeds DEF NoDuplicate
<1> HIDE DEF rs
<1> DEFINE t == TableOf(es)
           u == TableOf(rs)
<1>6. /\ \A m : m \in DOMAIN t <=> \E k \in DOMAIN es : es[k].name = m
      /\ \A k \in DOMAIN es : t[es[k].name] = es[k].dir
  BY TableOfEntry
<1>7. /\ \A m : m \in DOMAIN u <=> \E j \in DOMAIN rs : rs[j].name = m
      /\ \A j \in DOMAIN rs : u[rs[j].name] = rs[j].dir
  BY <1>2, <1>5, TableOfEntry
<1>8. u = [m \in DOMAIN u |-> u[m]]
  BY DEF TableOf
<1> HIDE DEF t, u
<1>9. ASSUME NEW m \in DOMAIN u
       PROVE  m \in DOMAIN t /\ m # es[i].name /\ u[m] = t[m]
  <2>1. PICK j \in DOMAIN rs : rs[j].name = m
    BY <1>7
  <2>2. at(j) \in DOMAIN es /\ at(j) # i /\ rs[j] = es[at(j)]
    BY <1>1, <1>2, <1>3
  <2>3. m # es[i].name
    BY <2>1, <2>2 DEF NoDuplicate
  <2>4. m \in DOMAIN t /\ t[m] = es[at(j)].dir /\ u[m] = es[at(j)].dir
    BY <1>6, <1>7, <2>1, <2>2
  <2>5. QED
    BY <2>3, <2>4
<1>10. ASSUME NEW m \in DOMAIN t, m # es[i].name
       PROVE  m \in DOMAIN u
  <2>1. PICK k \in DOMAIN es : es[k].name = m
    BY <1>6
  <2>2. PICK j \in DOMAIN rs : at(j) = k
    BY <1>1, <1>2, <1>4, <1>10, <2>1
  <2>3. rs[j].name = m
    BY <1>2, <2>1, <2>2
  <2>4. QED
    BY <1>7, <2>3
<1>11. DOMAIN u = DOMAIN t \ {es[i].name} /\ \A m \in DOMAIN u : u[m] = t[m]
  BY <1>9, <1>10
<1>12. QED
  BY <1>8, <1>11 DEF rs, t, u

-----------------------------------------------------------------------------
(* The store as a table of names.                                          *)

\* What the refinement needs to know of the store.
SequentialInv == TypeInv /\ OwnDirInv /\ NamesInv /\ RewriteInv

\* All of it together holds in every reachable state.
LEMMA SequentialInvariant ==
  ASSUME OneProcess, AutoOnly
  PROVE  Spec => []SequentialInv
<1>1. Init => RewriteInv
  BY DEF Init, RewriteInv, File, Template
<1>2. TypeInv /\ RewriteInv /\ [Next]_vars => RewriteInv'
  <2> SUFFICES ASSUME TypeInv, RewriteInv, UNCHANGED vars PROVE RewriteInv'
    BY StepRewrite
  <2>1. QED
    BY DEF vars, store, local, RewriteInv
<1>3. QED
  BY <1>1, <1>2, OwnDirInvariant, NamesInvariant, PTL DEF Spec, SequentialInv

\* What the file lists, a rewrite under way taking effect at its last write.
LEMMA ListedIs ==
  ASSUME OneProcess, NEW p \in Procs
  PROVE  /\ busy <=> pc[p] # "idle"
         /\ pc[p] # "write" => listed = registry.es
         /\ pc[p] = "write" => listed = SubSeq(text[p].es, 1, Len(text[p].es) - 1)
<1>1. \A q \in Procs : q = p
  BY DEF OneProcess
<1>2. pc[p] # "write" => rewriting = {}
  BY <1>1 DEF rewriting
<1>3. pc[p] = "write" => rewriting = {p}
  BY <1>1 DEF rewriting
<1>4. QED
  BY <1>1, <1>2, <1>3 DEF busy, listed, Entries

\* The same of the next state.
LEMMA ListedIsNext ==
  ASSUME OneProcess, NEW p \in Procs
  PROVE  /\ busy' <=> pc'[p] # "idle"
         /\ pc'[p] # "write" => listed' = registry'.es
         /\ pc'[p] = "write" => listed' = SubSeq(text'[p].es, 1, Len(text'[p].es) - 1)
<1>1. \A q \in Procs : q = p
  BY DEF OneProcess
<1>2. pc'[p] # "write" => rewriting' = {}
  BY <1>1 DEF rewriting
<1>3. pc'[p] = "write" => rewriting' = {p}
  BY <1>1 DEF rewriting
<1>4. QED
  BY <1>1, <1>2, <1>3 DEF busy, listed, Entries

\* A step that lists the same experiments starts a command, ends one, or does
\* nothing the table sees.
LEMMA ListedKept ==
  ASSUME OneProcess, NEW p \in Procs, listed' = listed
  PROVE  [Abstract!Next]_<<table, busy>>
<1>1. table' = table
  BY DEF table
<1>2. busy \in BOOLEAN /\ busy' \in BOOLEAN
  BY DEF busy
<1>3. QED
  BY <1>1, <1>2 DEF Abstract!Next, Abstract!Start, Abstract!Stop

\* The last write of a rewrite binds the one name the text adds.
LEMMA WriteBinds ==
  ASSUME OneProcess, SequentialInv, NEW p \in Procs, AppendWrite(p)
  PROVE  [Abstract!Next]_<<table, busy>>
<1> DEFINE es == text[p].es
           n == Len(es)
           front == SubSeq(es, 1, n - 1)
<1>1. pc[p] = "write" /\ pc'[p] = "idle" /\ registry' \in Overlaid(text[p])
  BY DEF AppendWrite, Step, SequentialInv, TypeInv, TypeOK
<1>2. es \in Seq(EntryType) /\ n \in Nat
  BY ListsTyped DEF SequentialInv
<1>3. registry'.es = es
  <2>1. registry = File("empty", << >>)
    BY <1>1 DEF SequentialInv, RewriteInv
  <2>2. registry.es = << >> /\ registry.st # "broken"
    BY <2>1 DEF File
  <2>3. IsPrefix(<< >>, es)
    BY <1>2 DEF IsPrefix
  <2>4. registry' = text[p]
    BY <1>1, <2>2, <2>3 DEF Overlaid
  <2>5. QED
    BY <2>4
<1>4. listed = front /\ listed' = es /\ busy /\ ~ busy'
  BY <1>1, <1>3, ListedIs, ListedIsNext
<1>5. NoDuplicate(es) /\ Kept(es)
  BY <1>1 DEF SequentialInv, NamesInv, OwnDirInv, Rewriting
<1>6. CASE n = 0
  <2>1. es = << >> /\ front = << >>
    BY <1>2, <1>6
  <2>2. QED
    BY <1>4, <2>1, ListedKept
<1>7. CASE n # 0
  <2> DEFINE e == es[n]
  <2>1. /\ front \in Seq(EntryType) /\ e \in EntryType /\ Append(front, e) = es
        /\ DOMAIN front = 1 .. n - 1 /\ \A i \in 1 .. n - 1 : front[i] = es[i]
        /\ DOMAIN es = 1 .. n
    BY <1>2, <1>7
  <2> HIDE DEF es, n, front, e
  <2>2. NoDuplicate(front) /\ Absent(e.name, front)
    BY <1>2, <1>5, <1>7, <2>1 DEF NoDuplicate, Absent, n, e
  <2>3. table' = [m \in DOMAIN table \cup {e.name} |-> IF m = e.name THEN e.dir ELSE table[m]]
    BY <1>4, <2>1, <2>2, TableAppend DEF table
  <2>4. e.name \notin DOMAIN table
    BY <1>4, <2>1, <2>2, TableOfEntry DEF table, Absent
  <2>5. \A m \in DOMAIN table : table[m] # e.dir
    <3> SUFFICES ASSUME NEW m \in DOMAIN table PROVE table[m] # e.dir
      OBVIOUS
    <3>1. PICK i \in DOMAIN front : front[i].name = m
      BY <1>4, <2>1, <2>2, TableOfEntry DEF table
    <3>2. table[m] = front[i].dir
      BY <1>4, <2>1, <2>2, <3>1, TableOfEntry DEF table
    <3>3. es[i].dir # e.dir
      BY <1>2, <1>5, <1>7, <2>1 DEF Kept, n, e
    <3>4. QED
      BY <2>1, <3>2, <3>3
  <2>6. e.name \in Names /\ e.dir \in Stamps
    BY <2>1 DEF EntryType
  <2>7. busy \in BOOLEAN /\ busy' \in BOOLEAN
    BY DEF busy
  <2>8. Abstract!Bind(e.name, e.dir)
    BY <1>4, <2>3, <2>4, <2>5, <2>7 DEF Abstract!Bind
  <2>9. QED
    BY <2>6, <2>8 DEF Abstract!Next
<1>8. QED
  BY <1>6, <1>7

\* An entry the user removes unbinds its name.
LEMMA EditUnbinds ==
  ASSUME OneProcess, SequentialInv, Edit
  PROVE  [Abstract!Next]_<<table, busy>>
<1>1. /\ \A p \in Procs : pc[p] = "idle" /\ pc'[p] = "idle"
      /\ UNCHANGED pc
  BY DEF Edit
<1>2. /\ listed = registry.es /\ listed' = registry'.es
      /\ busy = FALSE /\ busy' = FALSE
  <2>1. rewriting = {} /\ rewriting' = {}
    BY <1>1 DEF rewriting
  <2>2. QED
    BY <1>1, <2>1 DEF listed, Entries, busy
<1>3. CASE registry'.es = registry.es
  BY <1>2, <1>3 DEF table
<1>4. ASSUME NEW i \in DOMAIN registry.es, registry'.es = RemoveAt(registry.es, i)
      PROVE  [Abstract!Next]_<<table, busy>>
  <2> DEFINE n == registry.es[i].name
  <2>1. registry.es \in Seq(EntryType) /\ NoDuplicate(registry.es) /\ n \in Names
    <3>1. registry.es \in Seq(EntryType)
      BY ListsTyped DEF SequentialInv
    <3>2. registry.es[i] \in EntryType
      BY <3>1
    <3>3. QED
      BY <3>1, <3>2 DEF SequentialInv, NamesInv, EntryType
  <2>2. table' = [m \in DOMAIN table \ {n} |-> table[m]]
    <3>1. table = TableOf(registry.es) /\ table' = TableOf(RemoveAt(registry.es, i))
      BY <1>2, <1>4 DEF table
    <3>2. TableOf(RemoveAt(registry.es, i)) =
            [m \in DOMAIN TableOf(registry.es) \ {n} |-> TableOf(registry.es)[m]]
      BY <2>1, TableRemove
    <3>3. QED
      BY <3>1, <3>2
  <2> HIDE DEF n
  <2>3. n \in DOMAIN table
    BY <1>2, <2>1, TableOfEntry DEF table, n
  <2>4. Abstract!Unbind(n)
    BY <1>2, <2>2, <2>3 DEF Abstract!Unbind
  <2>5. QED
    BY <2>1, <2>4 DEF Abstract!Next
<1>5. \/ registry'.es = registry.es
      \/ \E i \in DOMAIN registry.es : registry'.es = RemoveAt(registry.es, i)
  BY DEF Edit, Entries, SequentialInv, TypeInv, TypeOK, FileType
<1>6. QED
  BY <1>3, <1>4, <1>5

\* Every other step lists the same experiments.
LEMMA CommandKeeps ==
  ASSUME OneProcess, SequentialInv, "write" \notin CrashAt, NEW p \in Procs,
         Command(p) \/ Crash(p) \/ \E c \in Commands : Issue(p, c), ~ AppendWrite(p)
  PROVE  listed' = listed
<1> USE DEF Step, store, local, SequentialInv
<1>0. pc \in [Procs -> Points] /\ text \in [Procs -> FileType]
  BY DEF TypeInv, TypeOK
<1>1. CASE registry'.es = registry.es /\ pc[p] # "write" /\ pc'[p] # "write"
  BY <1>1, ListedIs, ListedIsNext
<1>2. CASE EnsureForSource(p) \/ EnsureForLoad(p) \/ EnsureForAppend(p)
  <2>1. \/ registry' = registry
        \/ pc[p] \in {"make0", "fill_make0", "make", "fill_make", "make2", "fill_make2"}
           /\ (registry' = File("empty", << >>) \/ registry' \in Overlaid(Template))
    BY <1>2 DEF EnsureForSource, EnsureForLoad, EnsureForAppend, EnsureExists
  <2>2. registry'.es = registry.es
    BY <2>1, OverlaidLeaves DEF RewriteInv, File, Template
  <2>3. pc[p] # "write" /\ pc'[p] # "write"
    BY <1>0, <1>2 DEF EnsureForSource, EnsureForLoad, EnsureForAppend, EnsureExists
  <2>4. QED
    BY <1>1, <2>2, <2>3
<1>3. CASE AppendTruncate(p)
  <2>1. pc[p] = "truncate" /\ pc'[p] = "write" /\ UNCHANGED text
    BY <1>0, <1>3 DEF AppendTruncate
  <2>2. SubSeq(text[p].es, 1, Len(text[p].es) - 1) = registry.es
    BY <2>1 DEF RewriteInv
  <2>3. listed = registry.es /\ listed' = SubSeq(text[p].es, 1, Len(text[p].es) - 1)
    BY <2>1, ListedIs, ListedIsNext
  <2>4. QED
    BY <2>2, <2>3
<1>4. CASE RefuseName(p) \/ ChooseName(p) \/ TakeStamp(p)
  <2>1. UNCHANGED registry /\ pc[p] # "write" /\ pc'[p] # "write"
    BY <1>0, <1>4, ChoosingMoves DEF RefuseName, TakeStamp
  <2>2. QED
    BY <1>1, <2>1
<1>5. CASE MakeDir(p) \/ WriteFiles(p) \/ CreateSymlink(p)
  <2>1. UNCHANGED registry /\ pc[p] # "write" /\ pc'[p] # "write"
    BY <1>0, <1>5 DEF MakeDir, WriteFiles, CreateSymlink
  <2>2. QED
    BY <1>1, <2>1
<1>6. CASE AppendRead(p) \/ Crash(p) \/ \E c \in Commands : Issue(p, c)
  <2>1. UNCHANGED registry /\ pc[p] # "write" /\ pc'[p] # "write"
    BY <1>0, <1>6 DEF AppendRead, Crash, Issue
  <2>2. QED
    BY <1>1, <2>1
<1>7. QED
  BY <1>2, <1>3, <1>4, <1>5, <1>6 DEF Command

\* The initial store maps to the empty table and every step to one of the table's:
\* while one sb-cli runs at a time and none dies inside a rewrite, a command adds
\* at most its own name, bound to a directory no other name has, and loses none.
THEOREM StoreIsNameTable ==
  ASSUME OneProcess, AutoOnly, "write" \notin CrashAt
  PROVE  Spec => ImplementsNameTable
<1>1. Init => Abstract!Init
  <2> SUFFICES ASSUME Init PROVE Abstract!Init
    OBVIOUS
  <2>1. rewriting = {} /\ busy = FALSE /\ registry.es = << >>
    BY DEF Init, rewriting, busy, File
  <2>2. table = TableOf(<< >>)
    BY <2>1 DEF table, listed, Entries
  <2>3. TableOf(<< >>) = [n \in {} |-> {}]
    <3>1. {<< >>[i].name : i \in DOMAIN << >>} = {}
      OBVIOUS
    <3>2. QED
      BY <3>1 DEF TableOf
  <2>4. QED
    BY <2>1, <2>2, <2>3 DEF Abstract!Init
<1>2. SequentialInv /\ [Next]_vars => [Abstract!Next]_<<table, busy>>
  <2> SUFFICES ASSUME SequentialInv, [Next]_vars PROVE [Abstract!Next]_<<table, busy>>
    OBVIOUS
  <2>1. ASSUME NEW p \in Procs, Command(p) \/ Crash(p) \/ \E c \in Commands : Issue(p, c)
        PROVE  [Abstract!Next]_<<table, busy>>
    <3>1. CASE AppendWrite(p)
      BY <3>1, WriteBinds
    <3>2. CASE ~ AppendWrite(p)
      BY <2>1, <3>2, CommandKeeps, ListedKept
    <3>3. QED
      BY <3>1, <3>2
  <2>2. CASE Tick
    BY <2>2 DEF Tick, store, local, table, listed, busy, rewriting, Entries
  <2>3. CASE Edit
    BY <2>3, EditUnbinds
  <2>4. CASE UNCHANGED vars
    BY <2>4 DEF vars, store, local, table, listed, busy, rewriting, Entries
  <2>5. QED
    BY <2>1, <2>2, <2>3, <2>4 DEF Next
<1>3. QED
  BY <1>1, <1>2, SequentialInvariant, PTL DEF Spec, ImplementsNameTable, Abstract!Spec
=============================================================================
