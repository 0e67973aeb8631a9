---------------------------- MODULE MCPiCamera -----------------------------
(* PiCamera called by an arbitrary client, on the same small instance.    *)
EXTENDS PiCamera

MC_FpsWindow == 2
MC_MaxSeq == 3
MC_MaxTime == 3
=============================================================================
