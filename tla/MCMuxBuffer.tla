----------------------------- MODULE MCMuxBuffer -----------------------------
(* Instances of MuxBuffer for TLC.                                          *)
EXTENDS MuxBuffer
=============================================================================
