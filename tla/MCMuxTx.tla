------------------------------ MODULE MCMuxTx ------------------------------
(* An instance of MuxTx for TLC. *)
EXTENDS MuxTx
=============================================================================
