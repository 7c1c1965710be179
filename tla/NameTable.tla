------------------------------ MODULE NameTable ------------------------------
(***************************************************************************)
(* What the registry of experiments promises: a table from names to        *)
(* directories.  A command may add one name, bound to a directory no other *)
(* name has, as it ends; it never removes or changes a binding.  Only the  *)
(* user does, between commands.                                            *)
(***************************************************************************)
CONSTANTS Names, Dirs
VARIABLES table, busy

Init == table = [n \in {} |-> {}] /\ busy = FALSE

Start == ~ busy /\ busy' = TRUE /\ UNCHANGED table

Stop == busy /\ busy' = FALSE /\ UNCHANGED table

Bind(n, d) ==
  /\ busy /\ busy' = FALSE
  /\ n \notin DOMAIN table
  /\ \A m \in DOMAIN table : table[m] # d
  /\ table' = [m \in DOMAIN table \cup {n} |-> IF m = n THEN d ELSE table[m]]

Unbind(n) ==
  /\ ~ busy
  /\ n \in DOMAIN table
  /\ table' = [m \in DOMAIN table \ {n} |-> table[m]]
  /\ UNCHANGED busy

Next ==
  \/ Start \/ Stop
  \/ \E n \in Names : Unbind(n) \/ \E d \in Dirs : Bind(n, d)

Spec == Init /\ [][Next]_<<table, busy>>
=============================================================================
