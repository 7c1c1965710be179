-------------------------- MODULE MCExperimentStore --------------------------
(* Small instances of ExperimentStore: one or two stems, two counters.        *)
EXTENDS ExperimentStore

Bare(s)     == [s |-> s, n |-> -1]
Cmd(op, n, o, t, i) == [op |-> op, src |-> n, out |-> o, target |-> t, ips |-> i]

\* init without --output_dir, with and without a recipe or a reachable stage
AutoInits == {Cmd("init", Bare("a"), AutoName, TRUE, TRUE),
              Cmd("init", Bare("a"), AutoName, FALSE, FALSE)}
AutoForks == {Cmd("fork", n, AutoName, TRUE, FALSE) : n \in {Bare("a"), [s |-> "a", n |-> 0]}}
ExplicitInits == {Cmd("init", Bare("a"), Bare(s), TRUE, FALSE) : s \in Stems}
ExplicitForks == {Cmd("fork", Bare("a"), [s |-> "a", n |-> 0], TRUE, FALSE)}

AutoCommands == AutoInits \cup AutoForks
AllCommands  == AutoCommands \cup ExplicitInits \cup ExplicitForks

Everywhere == Points \ {"idle"}
NotMidWrite == Everywhere \ {"write"}
=============================================================================
