---------------------------- MODULE MCRilRequests ----------------------------
(* An instance of RilRequests for TLC. *)
EXTENDS RilRequests
=============================================================================
