------------------------------- MODULE MuxPty -------------------------------
(***************************************************************************)
(* mtk/gsm0710muxd: the transmit side of one logical channel.  A thread    *)
(* per channel (poll_thread, pseudo_device_read) reads the channel's pty   *)
(* and sends what it read to the modem, as far as the modem's MSC commands *)
(* (handle_command) allow it; watchdog() replaces a pty whose application  *)
(* hung up, and starts a new thread for it.                                *)
(*                                                                         *)
(* What the application writes are numbered chunks, each the size of one   *)
(* read().  mux_setup_chnl_complete is set by the session (the answers to  *)
(* all SABM frames); until then main() keeps watch_lock.                   *)
(*                                                                         *)
(* Definitions named X_but... are faulty variants of X that no             *)
(* specification uses; PROJECT.json lists them as mutants.                 *)
(***************************************************************************)
EXTENDS Naturals, Sequences

CONSTANTS MaxChunks,    \* bound: chunks the application writes
          MaxMsc,       \* bound: MSC commands the modem sends
          MaxHangups    \* bound: times an application hangs up

ASSUME PtyAssumption == MaxChunks \in Nat /\ MaxMsc \in Nat /\ MaxHangups \in Nat

VARIABLES
  setup,        \* mux_setup_chnl_complete
  fdOpen,       \* channel->fd >= 0
  reopen,       \* channel->reopen
  tx_fc_off,    \* channel->tx_fc_off
  choked,       \* is output on the pty's slave side stopped?
  inq,          \* chunks in the pty
  hungup,       \* has the application closed the slave side?
  ppc,          \* the thread that polls the channel's pty, "none" when it ended
  chunk,        \* what it read and has not sent yet
  apc,          \* the assembling thread in its MSC handler
  wpc,          \* watchdog() while it reopens the channel
  wrote,        \* history: chunks written by the application
  sent,         \* history: chunks sent to the modem
  mscs, hangups,\* counters for the bounds
  asserted,     \* history: has GSM0710MUXD_PTY_READ_ERR fired?
  early,        \* history: has an application used the pty before the setup?
  raced,        \* history: has a thread closed its pty before watchdog() cleared reopen?
  down          \* history: has GSM0710MUXD_RESTART_PTY_ERR sent main() to its end?

fc    == <<tx_fc_off, choked>>
port  == <<fdOpen, reopen, inq, hungup>>
poll  == <<ppc, chunk>>
count == <<mscs, hangups>>
hist  == <<wrote, sent, asserted, early, raced, down>>
vars  == <<setup, port, fc, poll, apc, wpc, count, hist>>

(***************************************************************************)
(* The application and the modem (neither is part of the repository).      *)
(***************************************************************************)
AppWrites ==
  /\ fdOpen /\ ~hungup /\ ~choked
  /\ wrote < MaxChunks
  /\ wrote' = wrote + 1
  /\ inq' = Append(inq, wrote + 1)
  /\ early' = (early \/ ~setup)
  /\ UNCHANGED <<setup, fdOpen, reopen, hungup, fc, poll, apc, wpc, count, sent, asserted,
                 raced, down>>

AppHangsUp ==
  /\ fdOpen /\ ~hungup
  /\ hangups < MaxHangups
  /\ hangups' = hangups + 1
  /\ hungup' = TRUE
  /\ early' = (early \/ ~setup)
  /\ UNCHANGED <<setup, fdOpen, reopen, inq, fc, poll, apc, wpc, mscs, wrote, sent, asserted,
                 raced, down>>

SetupCompletes ==
  /\ ~setup
  /\ setup' = TRUE
  /\ UNCHANGED <<port, fc, poll, apc, wpc, count, hist>>

(***************************************************************************)
(* The assembling thread: handle_command for MSC, which first switches     *)
(* tx_fc_off under tx_fc_lock ...                                          *)
(***************************************************************************)
MscFcOff ==
  /\ setup /\ apc = "idle" /\ mscs < MaxMsc
  /\ mscs' = mscs + 1
  /\ tx_fc_off' = TRUE
  /\ apc' = IF tx_fc_off THEN "idle" ELSE "choke"
  /\ UNCHANGED <<setup, port, choked, poll, wpc, hangups, hist>>

\* Faulty: the flag is cleared and the waiting thread is not signalled.
MscFcOn_butSilent ==
  /\ setup /\ apc = "idle" /\ mscs < MaxMsc
  /\ mscs' = mscs + 1
  /\ tx_fc_off' = FALSE
  /\ apc' = IF tx_fc_off THEN "release" ELSE "idle"
  /\ UNCHANGED <<setup, port, choked, poll, wpc, hangups, hist>>

MscFcOn ==
  /\ setup /\ apc = "idle" /\ mscs < MaxMsc
  /\ mscs' = mscs + 1
  /\ tx_fc_off' = FALSE
  /\ ppc' = IF tx_fc_off /\ ppc = "wait" THEN "woken" ELSE ppc
  /\ apc' = IF tx_fc_off THEN "release" ELSE "idle"
  /\ UNCHANGED <<setup, port, choked, chunk, wpc, hangups, hist>>

(***************************************************************************)
(* ... and then, without the lock, stops or starts the pty's slave side.   *)
(* The ioctl fails when the pty is closed.                                 *)
(***************************************************************************)
_fc_chokePty ==
  /\ apc = "choke"
  /\ choked' = (choked \/ fdOpen)
  /\ apc' = "idle"
  /\ UNCHANGED <<setup, port, tx_fc_off, poll, wpc, count, hist>>

\* Faulty: TCIOFF instead of TCION.
_fc_releasePty_butWrongCode ==
  /\ apc = "release"
  /\ choked' = (choked \/ fdOpen)
  /\ apc' = "idle"
  /\ UNCHANGED <<setup, port, tx_fc_off, poll, wpc, count, hist>>

_fc_releasePty ==
  /\ apc = "release"
  /\ choked' = (choked /\ ~fdOpen)
  /\ apc' = "idle"
  /\ UNCHANGED <<setup, port, tx_fc_off, poll, wpc, count, hist>>

(***************************************************************************)
(* poll_thread.                                                            *)
(***************************************************************************)

\* Faulty: the pty is set to report data from two chunks on.
Select_butWantsTwo ==
  /\ ppc = "select" /\ fdOpen
  /\ Len(inq) > 1 \/ hungup
  /\ ppc' = "enter"
  /\ UNCHANGED <<setup, port, fc, chunk, apc, wpc, count, hist>>

\* select() returns: there is data or the application has hung up.
Select ==
  /\ ppc = "select" /\ fdOpen
  /\ inq # <<>> \/ hungup
  /\ ppc' = "enter"
  /\ UNCHANGED <<setup, port, fc, chunk, apc, wpc, count, hist>>

\* pseudo_device_read before the setup is complete: it returns an error,
\* and poll_thread ends.
EnterTooEarly ==
  /\ ppc = "enter" /\ ~setup
  /\ ppc' = "none"
  /\ UNCHANGED <<setup, port, fc, chunk, apc, wpc, count, hist>>

Enter ==
  /\ ppc = "enter" /\ setup
  /\ ppc' = "gate"
  /\ UNCHANGED <<setup, port, fc, chunk, apc, wpc, count, hist>>

\* Under tx_fc_lock: wait, once, for FC On.
Gate ==
  /\ ppc = "gate"
  /\ ppc' = IF tx_fc_off THEN "wait" ELSE "read"
  /\ UNCHANGED <<setup, port, fc, chunk, apc, wpc, count, hist>>

\* pthread_cond_wait returns without a signal.
SpuriousWakeup ==
  /\ ppc = "wait"
  /\ ppc' = "woken"
  /\ UNCHANGED <<setup, port, fc, chunk, apc, wpc, count, hist>>

AfterWait ==
  /\ ppc = "woken"
  /\ ppc' = "read"
  /\ UNCHANGED <<setup, port, fc, chunk, apc, wpc, count, hist>>

\* Faulty: the chunk stays in the pty.
Read_butPeeks ==
  /\ ppc = "read" /\ inq # <<>>
  /\ chunk' = <<Head(inq)>>
  /\ ppc' = "send"
  /\ UNCHANGED <<setup, port, fc, apc, wpc, count, hist>>

\* read() returns data.
Read ==
  /\ ppc = "read" /\ inq # <<>>
  /\ chunk' = <<Head(inq)>>
  /\ inq' = Tail(inq)
  /\ ppc' = "send"
  /\ UNCHANGED <<setup, fdOpen, reopen, hungup, fc, apc, wpc, count, hist>>

\* handle_channel_data, write_frame.
Send ==
  /\ ppc = "send"
  /\ sent' = sent \o chunk
  /\ chunk' = <<>>
  /\ ppc' = "select"
  /\ UNCHANGED <<setup, port, fc, apc, wpc, count, wrote, asserted, early, raced, down>>

\* read() fails with EIO: close_pty_channel, and poll_thread ends; or with
\* EAGAIN in the first round, which is an assertion.
ReadFails ==
  /\ ppc = "read" /\ inq = <<>>
  /\ IF hungup
     THEN /\ fdOpen' = FALSE /\ choked' = FALSE
          /\ reopen' = TRUE
          /\ ppc' = "none"
          /\ raced' = (raced \/ wpc = "started")
          /\ UNCHANGED asserted
     ELSE asserted' = TRUE /\ ppc' = "select" /\ UNCHANGED <<fdOpen, reopen, choked, raced>>
  /\ UNCHANGED <<setup, inq, hungup, tx_fc_off, chunk, apc, wpc, count, wrote, sent, early, down>>

(***************************************************************************)
(* watchdog() in MUX_STATE_MUXING, called by the ending poll_thread and by *)
(* main(), under watch_lock and pts_reopen_lock.  close_pty_channel takes  *)
(* neither of them: it may set reopen again before watchdog() clears it.   *)
(***************************************************************************)

\* setup_pty_interface opens a pty and publishes it by its symbolic link: from
\* here on an application may use it, and no thread polls it yet.
WatchdogOpens ==
  /\ setup /\ reopen /\ wpc = "idle"
  /\ fdOpen' = TRUE /\ hungup' = FALSE /\ choked' = FALSE
  /\ inq' = <<>>
  /\ wpc' = "published"
  /\ UNCHANGED <<setup, reopen, tx_fc_off, poll, apc, count, hist>>

\* create_thread.
WatchdogStarts ==
  /\ wpc = "published"
  /\ ppc' = "select"
  /\ wpc' = "started"
  /\ UNCHANGED <<setup, port, fc, chunk, apc, count, hist>>

\* setup_pty_interface has succeeded.
WatchdogClears ==
  /\ wpc = "started"
  /\ reopen' = FALSE
  /\ wpc' = "idle"
  /\ UNCHANGED <<setup, fdOpen, inq, hungup, fc, poll, apc, count, hist>>

\* A system call fails before the pty is published, or create_thread does
\* afterwards: reopen stays set for a later call, and the assertion makes main()
\* leave its loop, after which the other threads go on for a while.
WatchdogFails ==
  /\ \/ setup /\ reopen /\ wpc = "idle"
     \/ wpc = "published"
  /\ wpc' = "idle"
  /\ down' = TRUE
  /\ UNCHANGED <<setup, port, fc, poll, apc, count, wrote, sent, asserted, early, raced>>

(***************************************************************************)
(* The specification starts after c_alloc_channel set up the pty.          *)
(***************************************************************************)
Init ==
  /\ setup = FALSE /\ fdOpen = TRUE /\ reopen = FALSE
  /\ tx_fc_off = FALSE /\ choked = FALSE
  /\ inq = <<>> /\ hungup = FALSE
  /\ ppc = "select" /\ chunk = <<>> /\ apc = "idle" /\ wpc = "idle"
  /\ wrote = 0 /\ sent = <<>> /\ asserted = FALSE /\ early = FALSE
  /\ raced = FALSE /\ down = FALSE
  /\ mscs = 0 /\ hangups = 0

Poll ==
  \/ Select \/ EnterTooEarly \/ Enter \/ Gate \/ AfterWait
  \/ Read \/ Send \/ ReadFails
Assembler == _fc_chokePty \/ _fc_releasePty
Environment == AppWrites \/ AppHangsUp \/ SetupCompletes \/ MscFcOff \/ MscFcOn

Watchdog == WatchdogOpens \/ WatchdogStarts \/ WatchdogClears

Next == Environment \/ Poll \/ Assembler \/ SpuriousWakeup \/ Watchdog \/ WatchdogFails

Spec == Init /\ [][Next]_vars

\* The threads are scheduled, and main() calls watchdog() periodically.
FairSpec ==
  Spec /\ WF_vars(Poll) /\ WF_vars(Assembler) /\ WF_vars(Watchdog) /\ WF_vars(SetupCompletes)

TypeOK ==
  /\ setup \in BOOLEAN /\ fdOpen \in BOOLEAN /\ reopen \in BOOLEAN /\ hungup \in BOOLEAN
  /\ tx_fc_off \in BOOLEAN /\ choked \in BOOLEAN /\ asserted \in BOOLEAN /\ early \in BOOLEAN
  /\ wrote \in 0..MaxChunks
  /\ inq \in Seq(1..wrote) /\ chunk \in Seq(1..wrote) /\ sent \in Seq(1..wrote)
  /\ ppc \in {"select", "enter", "gate", "wait", "woken", "read", "send", "none"}
  /\ apc \in {"idle", "choke", "release"}
  /\ wpc \in {"idle", "published", "started"} /\ raced \in BOOLEAN /\ down \in BOOLEAN
  /\ mscs \in 0..MaxMsc /\ hangups \in 0..MaxHangups

(***************************************************************************)
(* Properties.                                                             *)
(***************************************************************************)

\* A thread sleeps on tx_fc_on_signal only while the modem forbids to send:
\* an FC On that arrives at any moment is not missed.
NoMissedFcOn == ppc = "wait" => tx_fc_off

\* When the MSC handler is done, an application whose output is stopped is
\* stopped for a reason, whichever pty the ioctls went to.
NotLeftChoked == apc = "idle" /\ choked => tx_fc_off

\* A pty that no thread polls is being replaced or waits for it, unless it was
\* used before the channels were set up, or its thread met a hang-up before
\* watchdog() cleared the reopen of the pty before it.
PolledOrReopening == ppc = "none" => reopen \/ early \/ raced

\* Chunks reach the modem once and in order, and a hang-up loses none, as long as
\* every pty could be set up.
SentInOrder == down \/ sent \o chunk \o inq = [i \in 1..wrote |-> i]

\* Assertion GSM0710MUXD_PTY_READ_ERR never fires: after select() the read
\* finds something, even when the thread waited for FC On in between.
ReadFindsData == ~asserted

\* What an application wrote is sent, also when a hang-up follows in the middle of
\* watchdog()'s steps, unless the modem forbids it for good, the pty was used
\* before the channels were set up or the setup of a pty failed.
EveryChunkSent ==
  \A n \in 1..MaxChunks : [](wrote = n => <>(Len(sent) >= n \/ []tx_fc_off \/ early \/ down))

\* Over hang-ups and replaced ptys a port loses no chunk, its read after select()
\* never comes back empty, and it is polled or about to be replaced, but for the
\* three exceptions its parts name.
PortSound == TypeOK /\ SentInOrder /\ ReadFindsData /\ PolledOrReopening
=============================================================================
