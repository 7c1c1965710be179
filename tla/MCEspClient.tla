----------------------------- MODULE MCEspClient -----------------------------
(* Two tokens to a chunk; sizes below, at and above the chunk boundaries, one *)
(* of which wraps around UMod, as a negative one does.                        *)
EXTENDS EspClient

MCSizes == {-4, 4, 8, 12, 16, 36}
MCOffsets == {-1, 0, 1}
MCConfigs == {[M |-> 1, K |-> 1, N |-> 1, i |-> 0, w |-> 1, b |-> 2, o |-> 2]}
=============================================================================
