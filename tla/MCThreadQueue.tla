---------------------------- MODULE MCThreadQueue ----------------------------
(* Instances of ThreadQueue for TLC.                                        *)
EXTENDS ThreadQueue
=============================================================================
