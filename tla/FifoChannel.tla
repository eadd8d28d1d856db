----------------------------- MODULE FifoChannel -----------------------------
(***************************************************************************)
(* What an in-order channel promises its users: what was put in comes out  *)
(* once, in the order in which it was put in, and a reset drops only what  *)
(* was still inside.  ThreadQueue (immvibe) and MuxBuffer (gsm0710muxd)    *)
(* are shown to implement it.                                              *)
(***************************************************************************)
EXTENDS Sequences, Naturals

CONSTANT Data                   \* what users pass through the channel

VARIABLES sent,                 \* what was put in and not dropped by a reset
          got                   \* what was handed out

avars == <<sent, got>>

Init == sent = <<>> /\ got = <<>>

\* A user puts d in.
Send(d) == sent' = Append(sent, d) /\ UNCHANGED got

\* The oldest element not yet handed out is handed to one receiver.
Deliver == /\ Len(got) < Len(sent)
           /\ got' = Append(got, sent[Len(got) + 1])
           /\ UNCHANGED sent

\* The channel is reset: what was inside is gone.
Reset == sent' = got /\ UNCHANGED got

Next == (\E d \in Data : Send(d)) \/ Deliver \/ Reset

Spec == Init /\ [][Next]_avars
=============================================================================
