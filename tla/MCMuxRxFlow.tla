----------------------------- MODULE MCMuxRxFlow -----------------------------
(* Instances of MuxRxFlow for TLC, and the one property that needs a fold.  *)
EXTENDS MuxRxFlow, SequencesExt

CONSTANTS t1, t2

\* Bytes that wait for the pty: in rx_fl, of whose first frame rx_fl_written
\* bytes are written already, or in the hand of a retry thread.
PendingBytes ==
  FoldSeq(LAMBDA f, n : n + len[f], 0, rx_fl) - rx_fl_written
    + FoldSet(LAMBDA t, n : n + len[tframe[t]] - twritten[t], 0,
              {t \in Threads : tpc[t] = "write"})

\* However retry threads overlap, rx_fl_total never counts less than what is
\* pending, and a pty that is not read costs at most the high watermark.
\* (It may count more, as it is not reduced when a frame is popped: frames are
\* then dropped earlier than the log line says.)
CacheBounded == PendingBytes <= rx_fl_total /\ rx_fl_total <= MARK

\* The cache of the flow control is used as its assertions say and is bounded.
CacheSound == TypeOK /\ AssertsHold /\ CacheBounded
=============================================================================
