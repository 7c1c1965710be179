---------------------------- MODULE MatmulOffload ----------------------------
(***************************************************************************)
(* What offloading a linalg.batch_matmul promises the kernel around it: the*)
(* operation asks for the accelerator; when it is granted, C becomes the   *)
(* product of A and B exactly once before the kernel goes on, and when it  *)
(* is refused, C keeps what it held.                                       *)
(***************************************************************************)
VARIABLES phase, c

Init == phase = "idle" /\ c = "old"

Ask     == phase = "idle" /\ phase' = "asked" /\ c' = "old"
Grant   == phase = "asked" /\ phase' = "granted" /\ UNCHANGED c
Refuse  == phase = "asked" /\ phase' = "refused" /\ UNCHANGED c
Deliver == phase = "granted" /\ c = "old" /\ c' = "product" /\ UNCHANGED phase
Return  == /\ phase = "refused" \/ (phase = "granted" /\ c = "product")
           /\ phase' = "idle"
           /\ UNCHANGED c

Next == Ask \/ Grant \/ Refuse \/ Deliver \/ Return

Spec == Init /\ [][Next]_<<phase, c>>
=============================================================================
