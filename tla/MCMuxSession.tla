---------------------------- MODULE MCMuxSession ----------------------------
(* Instances of MuxSession for TLC; the constants are set in the .cfg files. *)
EXTENDS MuxSession
=============================================================================
