--------------------------- MODULE ExperimentStore ---------------------------
(***************************************************************************)
(* benches/experiments/ as sb-cli keeps it: timestamped directories, a     *)
(* symlink per logical name, and registry.py, a text file that is re-read  *)
(* and rewritten whole.  Each running sb-cli (init or fork) is a process;  *)
(* every system call that another process, a crash or the user could come  *)
(* between is a step of its own.                                           *)
(*                                                                         *)
(* A name is a stem and a counter (-1: none); a directory is a second and  *)
(* the suffix _timestamp adds (0: none).  A directory's contents are       *)
(* reduced to the set of commands that filled it.                          *)
(***************************************************************************)
EXTENDS Integers, Sequences, FiniteSets, SequencesExt

CONSTANTS
  Procs,        \* the sb-cli processes
  Commands,     \* the commands they may be given
  Stems,        \* the stems of the names
  DirStem,      \* the stem a directory's own name makes (every timestamp as one)
  MaxCounter,   \* _MAX_COUNTER (1000 in the code): counters are below it
  MaxClock,     \* bound: the last second
  MaxCommands,  \* bound: how many commands are ever issued
  UserEdits,    \* the edits the user makes: a subset of {"link", "dir", "entry"}
  CrashAt       \* the points (values of pc) at which a process may die

Names == [s : Stems \cup {DirStem}, n : -1 .. MaxCounter - 1]
Stamps == [t : 0 .. MaxClock, k : 0 .. MaxCommands]
NoLink == [t |-> -1, k |-> 0]
AutoName == [s |-> "", n |-> -1]        \* no --output_dir

ASSUME StoreAssumption ==
  /\ MaxCounter \in Nat /\ MaxClock \in Nat /\ MaxCommands \in Nat
  /\ "" \notin Stems /\ DirStem \notin Stems \cup {""}
  /\ Commands # {}
  /\ Commands \subseteq
       [op : {"init", "fork"}, src : Names, out : Names \cup {AutoName},
        target : BOOLEAN, ips : BOOLEAN]
  /\ \A c \in Commands : c.op = "init" => c.src.n = -1   \* default_experiment_name
  /\ UserEdits \subseteq {"link", "dir", "entry"}

VARIABLES
  dirs,      \* the directories, each with the ids of the commands that filled it
  links,     \* the symlinks: what each name points at, or NoLink
  registry,  \* registry.py: whether it parses, and its entries in order
  now,       \* the clock, in seconds
  issued,    \* how many commands were issued so far
  pc, cmd,   \* per process: where it is, and in which command
  id,        \* the number of that command
  name,      \* the resolved name (output_dir)
  src,       \* fork: source_dir
  stamp,     \* ts
  text       \* what Registry.append read

store == <<dirs, links, registry>>
local == <<cmd, id, name, src, stamp, text>>
vars  == <<store, now, issued, pc, local>>

-----------------------------------------------------------------------------
(* registry.py                                                             *)

File(st, es) == [st |-> st, es |-> es]
Template == File("dict", << >>)

\* Registry.load: a truncated file executes as an empty module, whose
\* EXPERIMENTS defaults to {}; a later entry of a name shadows an earlier one.
Entries == registry.es
Registered(n) == \E i \in DOMAIN Entries : Entries[i].name = n
Lookup(n) ==
  Entries[Max({i \in DOMAIN Entries : Entries[i].name = n})].dir

\* Mutant of Inserted: the file is rendered anew with the one entry.
Inserted_Only(f, e) == File("dict", <<e>>)

\* The text append writes: the entry goes before the last '}'.  A text without
\* one (a truncated file) gets a '}' but no header, and no longer parses.
Inserted(f, e) ==
  IF f.st = "dict" THEN File("dict", Append(f.es, e)) ELSE File("broken", << >>)

\* write_text after its truncation: a file another process wrote meanwhile is
\* overlaid from its start, which leaves garbage behind unless f covers it.
Overlaid(f) ==
  IF registry.st # "broken" /\ IsPrefix(registry.es, f.es)
    THEN {f}
    ELSE {f, File("broken", << >>)}

-----------------------------------------------------------------------------
(* Seconds.                                                                *)

\* Mutant of FreshStamp: no suffix within one second.
FreshStamp_NoSuffix == [t |-> now, k |-> 0]

\* _timestamp: the first suffix no directory of this second has
FreshStamp == [t |-> now, k |-> Min({k \in 0 .. MaxCommands : [t |-> now, k |-> k] \notin DOMAIN dirs})]

-----------------------------------------------------------------------------
Init ==
  /\ dirs = [d \in {} |-> {}]
  /\ links = [n \in Names |-> NoLink]
  /\ registry = File("absent", << >>)
  /\ now = 0 /\ issued = 0
  /\ pc = [p \in Procs |-> "idle"]
  /\ cmd \in [Procs -> {CHOOSE c \in Commands : TRUE}]
  /\ id = [p \in Procs |-> 0]
  /\ name = [p \in Procs |-> AutoName]
  /\ src = [p \in Procs |-> NoLink]
  /\ stamp = [p \in Procs |-> NoLink]
  /\ text = [p \in Procs |-> Template]

Step(p, from, to) == pc[p] = from /\ pc' = [pc EXCEPT ![p] = to]

Issue(p, c) ==
  /\ issued < MaxCommands
  /\ issued' = issued + 1
  /\ Step(p, "idle", IF c.op = "fork" THEN "ensure0"
                    ELSE IF c.out = AutoName THEN "look" ELSE "named")
  /\ cmd' = [cmd EXCEPT ![p] = c]
  /\ id' = [id EXCEPT ![p] = issued + 1]
  /\ name' = [name EXCEPT ![p] = IF c.op = "init" /\ c.out = AutoName THEN c.src ELSE c.out]
  /\ src' = [src EXCEPT ![p] = NoLink]
  /\ stamp' = [stamp EXCEPT ![p] = NoLink]
  /\ text' = [text EXCEPT ![p] = Template]
  /\ UNCHANGED <<store, now>>

\* Mutant of EnsureExists: the file is taken to be there.
EnsureExists_Assumed(p, from, make, fill, next) ==
  Step(p, from, next) /\ UNCHANGED <<store, now, issued, local>>

\* Registry._ensure_exists, before fork resolves its source (ensure0), before
\* name_is_free loads (ensure) and before an append (ensure2): the existence
\* check, then write_text, which truncates first.
EnsureExists(p, from, make, fill, next) ==
  \/ /\ Step(p, from, IF registry.st = "absent" THEN make ELSE next)
     /\ UNCHANGED <<store, now, issued, local>>
  \/ /\ Step(p, make, fill)
     /\ registry' = File("empty", << >>)
     /\ UNCHANGED <<dirs, links, now, issued, local>>
  \/ /\ Step(p, fill, next)
     /\ registry' \in Overlaid(Template)
     /\ UNCHANGED <<dirs, links, now, issued, local>>

EnsureForSource(p) == EnsureExists(p, "ensure0", "make0", "fill_make0", "resolve")
EnsureForLoad(p)   == EnsureExists(p, "ensure", "make", "fill_make", "load")
EnsureForAppend(p) == EnsureExists(p, "ensure2", "make2", "fill_make2", "read")

\* Registry.resolve: the directory the source is registered under, not looked at.
ResolveSource(p) ==
  /\ registry.st # "broken" /\ Registered(cmd[p].src)
  /\ Step(p, "resolve", "reload")
  /\ src' = [src EXCEPT ![p] = Lookup(cmd[p].src)]
  /\ UNCHANGED <<store, now, issued, cmd, id, name, stamp, text>>

\* A candidate is put to name_is_free, until every counter is taken.
TryName(p, from, n) ==
  IF n.n < MaxCounter
    THEN Step(p, from, "look") /\ name' = [name EXCEPT ![p] = n]
    ELSE Step(p, from, "idle") /\ UNCHANGED name
NextName(p) == [name[p] EXCEPT !.n = @ + 1]

\* fork loads the registry again: a source that is not there any more (a rewrite
\* is under way) counts as a path, and the directory's name becomes the stem.
SettleName(p) ==
  LET c == cmd[p]
      stem == IF Registered(c.src) THEN c.src.s ELSE DirStem
  IN
  /\ registry.st # "broken"
  /\ IF c.out # AutoName
       THEN Step(p, "reload", "named") /\ name' = [name EXCEPT ![p] = c.out]
       ELSE TryName(p, "reload", [s |-> stem, n |-> 0])
  /\ UNCHANGED <<store, now, issued, cmd, id, src, stamp, text>>

\* name_is_free looks for a link first ...
LookForLink(p) ==
  /\ pc[p] = "look"
  /\ IF links[name[p]] # NoLink
       THEN TryName(p, "look", NextName(p))
       ELSE /\ Step(p, "look", IF registry.st = "absent" THEN "ensure" ELSE "load")
            /\ UNCHANGED name
  /\ UNCHANGED <<store, now, issued, cmd, id, src, stamp, text>>

\* Mutant of AskRegistry: the free link settles it.
AskRegistry_LinkOnly(p) ==
  /\ registry.st # "broken"
  /\ Step(p, "load", "named")
  /\ UNCHANGED <<store, now, issued, local>>

\* ... and then loads the registry, which may list a name whose link is gone.
AskRegistry(p) ==
  /\ registry.st # "broken"
  /\ IF Registered(name[p])
       THEN TryName(p, "load", NextName(p))
       ELSE Step(p, "load", "named") /\ UNCHANGED name
  /\ UNCHANGED <<store, now, issued, cmd, id, src, stamp, text>>

ChooseName(p) == ResolveSource(p) \/ SettleName(p) \/ LookForLink(p) \/ AskRegistry(p)

\* SystemExit: registry.py has a syntax error, or the source is unknown.
RefuseName(p) ==
  /\ \/ pc[p] \in {"resolve", "reload", "load"} /\ registry.st = "broken"
     \/ pc[p] = "resolve" /\ ~ Registered(cmd[p].src)
  /\ Step(p, pc[p], "idle")
  /\ UNCHANGED <<store, now, issued, local>>

TakeStamp(p) ==
  /\ Step(p, "named", "stamped")
  /\ stamp' = [stamp EXCEPT ![p] = FreshStamp]
  /\ UNCHANGED <<store, now, issued, cmd, id, name, src, text>>

\* _create_experiment_dir: mkdir(exist_ok=True).  An init whose target_path()
\* has no such stage for its backend raises right after it.
MakeDir(p) ==
  LET made == stamp[p] IN
  /\ Step(p, "stamped", IF cmd[p].op = "fork" THEN "link"
                        ELSE IF cmd[p].target THEN "files" ELSE "idle")
  /\ dirs' = [d \in DOMAIN dirs \cup {made} |-> IF d \in DOMAIN dirs THEN dirs[d] ELSE {}]
  /\ UNCHANGED <<links, registry, now, issued, local>>

\* init renders the experiment's files and copies the recipe's IPs; fork copies
\* the files and IPs its source has.  copytree raises when IPs/ is there already.
WriteFiles(p) ==
  LET fork   == cmd[p].op = "fork"
      source == IF src[p] \in DOMAIN dirs THEN dirs[src[p]] ELSE {}
      some   == fork => source # {}
      ips    == IF fork THEN \E w \in source : w.ips ELSE cmd[p].ips
      clash  == ips /\ \E w \in dirs[stamp[p]] : w.ips
  IN
  /\ Step(p, "files", IF clash THEN "idle" ELSE IF fork THEN "ensure2" ELSE "link")
  /\ dirs' = IF ~ some THEN dirs
             ELSE [dirs EXCEPT ![stamp[p]] = @ \cup {[id |-> id[p], ips |-> ips /\ ~ clash]}]
  /\ UNCHANGED <<links, registry, now, issued, local>>

\* Mutant of CreateSymlink: an existing link is replaced.
CreateSymlink_Replaces(p) ==
  /\ links' = [links EXCEPT ![name[p]] = stamp[p]]
  /\ Step(p, "link", IF cmd[p].op = "fork" THEN "files" ELSE "ensure2")
  /\ UNCHANGED <<dirs, registry, now, issued, local>>

\* _create_symlink: symlink_to fails on a name that appeared since the check.
CreateSymlink(p) ==
  /\ pc[p] = "link"
  /\ IF links[name[p]] = NoLink
       THEN /\ links' = [links EXCEPT ![name[p]] = stamp[p]]
            /\ Step(p, "link", IF cmd[p].op = "fork" THEN "files" ELSE "ensure2")
       ELSE Step(p, "link", "idle") /\ UNCHANGED links
  /\ UNCHANGED <<dirs, registry, now, issued, local>>

\* Registry.append: read_text, then write_text, which truncates before it writes.
AppendRead(p) ==
  /\ Step(p, "read", "truncate")
  /\ text' = [text EXCEPT ![p] = Inserted(registry, [name |-> name[p], dir |-> stamp[p]])]
  /\ UNCHANGED <<store, now, issued, cmd, id, name, src, stamp>>

AppendTruncate(p) ==
  /\ Step(p, "truncate", "write")
  /\ registry' = File("empty", << >>)
  /\ UNCHANGED <<dirs, links, now, issued, local>>

AppendWrite(p) ==
  /\ Step(p, "write", "idle")
  /\ registry' \in Overlaid(text[p])
  /\ UNCHANGED <<dirs, links, now, issued, local>>

\* The process dies (interrupted, killed) and leaves the files as they are.
Crash(p) ==
  /\ pc[p] \in CrashAt /\ pc' = [pc EXCEPT ![p] = "idle"]
  /\ UNCHANGED <<store, now, issued, local>>

Command(p) ==
  \/ EnsureForSource(p) \/ EnsureForLoad(p) \/ ChooseName(p) \/ RefuseName(p)
  \/ TakeStamp(p) \/ MakeDir(p) \/ WriteFiles(p) \/ CreateSymlink(p)
  \/ EnsureForAppend(p) \/ AppendRead(p) \/ AppendTruncate(p) \/ AppendWrite(p)

Tick == now < MaxClock /\ now' = now + 1 /\ UNCHANGED <<store, issued, pc, local>>

\* The user, between commands and not within the second a directory was made:
\* removes a symlink or a directory, or comments an entry out of registry.py.
Edit ==
  /\ \A p \in Procs : pc[p] = "idle"
  /\ \/ /\ "link" \in UserEdits
        /\ \E n \in Names : links[n] # NoLink /\ links' = [links EXCEPT ![n] = NoLink]
        /\ UNCHANGED <<dirs, registry>>
     \/ /\ "dir" \in UserEdits
        /\ \E d \in DOMAIN dirs :
             d.t < now /\ dirs' = [x \in DOMAIN dirs \ {d} |-> dirs[x]]
        /\ UNCHANGED <<links, registry>>
     \/ /\ "entry" \in UserEdits
        /\ \E i \in DOMAIN Entries : registry' = [registry EXCEPT !.es = RemoveAt(@, i)]
        /\ UNCHANGED <<dirs, links>>
  /\ UNCHANGED <<now, issued, pc, local>>

Next ==
  \/ \E p \in Procs : Command(p) \/ Crash(p) \/ \E c \in Commands : Issue(p, c)
  \/ Tick
  \/ Edit

Spec == Init /\ [][Next]_vars

-----------------------------------------------------------------------------
Points == {"idle", "ensure0", "make0", "fill_make0", "resolve", "reload",
           "look", "ensure", "make", "fill_make", "load", "named", "stamped",
           "files", "link", "ensure2", "make2", "fill_make2", "read", "truncate", "write"}
EntryType == [name : Names, dir : Stamps]
FileType == [st : {"absent", "empty", "dict", "broken"}, es : Seq(EntryType)]

TypeOK ==
  /\ DOMAIN dirs \subseteq Stamps
  /\ \A d \in DOMAIN dirs : dirs[d] \subseteq [id : 1 .. MaxCommands, ips : BOOLEAN]
  /\ links \in [Names -> Stamps \cup {NoLink}]
  /\ registry \in FileType
  /\ now \in 0 .. MaxClock /\ issued \in 0 .. MaxCommands
  /\ pc \in [Procs -> Points]
  /\ cmd \in [Procs -> Commands]
  /\ id \in [Procs -> 0 .. MaxCommands]
  /\ name \in [Procs -> Names \cup {AutoName}]
  /\ src \in [Procs -> Stamps \cup {NoLink}]
  /\ stamp \in [Procs -> Stamps \cup {NoLink}]
  /\ text \in [Procs -> FileType]
  /\ \A p \in Procs : pc[p] \in {"resolve", "reload", "load", "read"} => registry.st # "absent"

\* Every experiment has a directory of its own: no two commands fill the same
\* one, and no two names are registered for the same one.
OwnDirectory ==
  /\ \A d \in DOMAIN dirs : Cardinality(dirs[d]) <= 1
  /\ \A i, j \in DOMAIN Entries :
       Entries[i].dir = Entries[j].dir => Entries[i].name = Entries[j].name

\* registry.py never holds a second entry of a name, which would silently take
\* the place of the first (the later key of a dict literal wins).
NoShadowedEntry ==
  \A i, j \in DOMAIN Entries : Entries[i].name = Entries[j].name => i = j

\* The entry is the last thing written: whatever instant a command died at, an
\* experiment found through the registry has its files, and its symlink agrees.
RegisteredIsComplete ==
  \A i \in DOMAIN Entries :
    /\ Entries[i].dir \in DOMAIN dirs /\ dirs[Entries[i].dir] # {}
    /\ links[Entries[i].name] = Entries[i].dir

\* Two running commands never both go on with the same name: creating the
\* symlink is what takes it, and only one of them can.
Holds(p) == pc[p] \in {"ensure2", "make2", "fill_make2", "read", "truncate", "write"}
OneOwnerPerName ==
  \A p, q \in Procs : p # q /\ Holds(p) /\ Holds(q) => name[p] # name[q]

\* A symlink, once created, never points anywhere else.
LinksStable ==
  [][\A n \in Names : links[n] # NoLink => links'[n] = links[n]]_links

\* The registry, seen as a table of names, with a rewrite under way taking
\* effect when its last write does: a command adds at most its own name, and
\* loses none.
rewriting == {p \in Procs : pc[p] = "write"}
listed ==
  IF rewriting = {} THEN Entries
  ELSE LET t == text[CHOOSE p \in rewriting : TRUE].es
       IN  SubSeq(t, 1, Len(t) - 1)
TableOf(es) == [n \in {es[i].name : i \in DOMAIN es} |->
                  es[Max({i \in DOMAIN es : es[i].name = n})].dir]
table == TableOf(listed)
busy == \E p \in Procs : pc[p] # "idle"
Abstract == INSTANCE NameTable WITH table <- table, busy <- busy, Dirs <- Stamps
ImplementsNameTable == Abstract!Spec
=============================================================================
