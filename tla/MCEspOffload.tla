---------------------------- MODULE MCEspOffload ----------------------------
(* Small instances of EspOffload: four tokens to a chunk, so that the four   *)
(* chunk counts 0 .. 3 of the page table all occur.                          *)
EXTENDS EspOffload

Dims == 1 .. 2
BatchOne == [M : Dims, K : Dims, N : Dims, batch : {1}]
=============================================================================
