---------------------------- MODULE MCVibeDaemon ----------------------------
\* The vibrator daemon on a small instance; see MCVibeDaemon.cfg.
EXTENDS VibeDaemon
=============================================================================
