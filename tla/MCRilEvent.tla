----------------------------- MODULE MCRilEvent -----------------------------
(* An instance of RilEvent for TLC. *)
EXTENDS RilEvent
=============================================================================
