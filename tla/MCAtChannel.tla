---------------------------- MODULE MCAtChannel ----------------------------
(* An instance of AtChannel for TLC: the channel of the unsolicited lines,  *)
(* which the start-up code (s2) shares with another thread (s1).            *)
EXTENDS AtChannel

CONSTANTS s1, s2

MCSenders == {s1, s2}
MCKinds == [s \in MCSenders |-> IF s = s1 THEN {"multi", "sms"} ELSE {"handshake"}]
=============================================================================
