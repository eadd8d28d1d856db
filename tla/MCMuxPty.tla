------------------------------ MODULE MCMuxPty ------------------------------
(* Instances of MuxPty for TLC.                                             *)
EXTENDS MuxPty
=============================================================================
