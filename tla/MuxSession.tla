----------------------------- MODULE MuxSession -----------------------------
(***************************************************************************)
(* mtk/gsm0710muxd: the multiplexer session.  watchdog() opens the serial  *)
(* line, starts the multiplexer, establishes the logical channels, waits   *)
(* for the setup to complete, pings the modem and closes the session; the  *)
(* assembling thread handles the modem's SABM, DISC, UA, DM and CLD        *)
(* (extract_frames, handle_command).                                       *)
(*                                                                         *)
(* watch_lock admits one thread at a time to watchdog(): main(), or a      *)
(* poll_thread that ends.  mpc is where that thread is.  Flags of the      *)
(* members of channellist[] are sets of channels.  Frames are pairs of a   *)
(* type and a channel; the line is reliable (MuxBuffer is about the bytes, *)
(* MuxRxFlow and MuxPty are about the data of an open channel).            *)
(*                                                                         *)
(* Definitions named X_but... are faulty variants of X that no             *)
(* specification uses; PROJECT.json lists them as mutants.                 *)
(***************************************************************************)
EXTENDS Naturals, Sequences, FiniteSets

CONSTANTS Ports,        \* vir_ports, the logical channels of ch_cfg
          ATCI,         \* the channel that the modem may lack (DLCI 26)
          use_ping,     \* option -p, 0 when it is not given
          MaxSessions,  \* bound: sessions
          MaxPeer,      \* bound: requests of the modem
          MaxHangups    \* bound: applications that hang up

ASSUME SessionAssumption ==
  /\ Ports \in Nat \ {0} /\ ATCI \in 1..Ports /\ use_ping \in Nat
  /\ MaxSessions \in Nat /\ MaxPeer \in Nat /\ MaxHangups \in Nat

Chans == 1..Ports            \* channel 0 is the control channel
Frame(type, c) == <<type, c>>

VARIABLES
  state,             \* serial.state
  serialOpen,        \* serial.fd >= 0
  ping_number,       \* serial.ping_number
  fdOpen,            \* channels with fd >= 0
  reopen, opened, sabm_ua_pending, disc_ua_pending,    \* channels with the flag set
  mux_setup_chnl_complete, sabm_ua_received, LackofAtciChannel, rild_started,
  close_down,        \* close_down_send_disc_for_all_chnl
  mpc,               \* the thread in watchdog(); "idle" when there is none
  i,                 \* its loop variable
  num_disc_sent,
  apc,               \* channel of a DISC that the assembling thread handles, or 0
  toModem, fromModem,
  modemOpen,         \* channels the modem regards as open
  asked,             \* channels whose SABM or DISC of the modem is not answered
  sessions, peer, hangups,   \* counters for the bounds
  silent,            \* history: pings since the last answer to one
  seen               \* history: which kinds of trouble there were so far

chan    == <<fdOpen, opened, sabm_ua_pending, disc_ua_pending>>
setup   == <<mux_setup_chnl_complete, sabm_ua_received, LackofAtciChannel>>
dog     == <<mpc, i, num_disc_sent, close_down, rild_started>>
serial  == <<state, serialOpen, ping_number>>
line    == <<toModem, fromModem>>
modem   == <<modemOpen, asked>>
bounds  == <<sessions, peer, hangups, seen>>
vars    == <<serial, chan, reopen, setup, dog, apc, line, modem, bounds, silent>>

\* write_frame on a closed serial.fd is only logged.
Write(s) == toModem' = IF serialOpen THEN toModem \o s ELSE toModem

\* logical_channel_close for the channels of S.
logical_channel_close(S) ==
  /\ fdOpen' = fdOpen \ S
  /\ opened' = opened \ S
  /\ sabm_ua_pending' = sabm_ua_pending \ S
  /\ disc_ua_pending' = disc_ua_pending \ S

(***************************************************************************)
(* watchdog(), MUX_STATE_OPENING and MUX_STATE_INITILIZING.                *)
(***************************************************************************)

\* open_serial_device initialises every channel, which closes it.
OpenSerial ==
  /\ mpc = "idle" /\ state = "OPENING" /\ sessions < MaxSessions
  /\ sessions' = sessions + 1
  /\ serialOpen' = TRUE /\ ping_number' = 0
  /\ state' = "INITILIZING"
  /\ logical_channel_close(0..Ports)
  /\ reopen' = {}
  /\ mpc' = "start"
  /\ UNCHANGED <<setup, i, num_disc_sent, close_down, rild_started, apc, line, modem,
                 peer, hangups, seen, silent>>

\* start_muxer: the modem has answered AT+CMUX, so it has handled what was
\* sent before and chat() has read its answers; SABM for the control channel.
start_muxer ==
  /\ mpc = "start" /\ toModem = <<>> /\ apc = 0
  /\ fromModem' = <<>> /\ modemOpen' = {} /\ asked' = {} /\ silent' = 0
  /\ state' = "MUXING"
  /\ sabm_ua_pending' = sabm_ua_pending \cup {0}
  /\ Write(<<Frame("SABM", 0)>>)
  /\ mpc' = "alloc" /\ i' = 1
  /\ UNCHANGED <<serialOpen, ping_number, fdOpen, opened, disc_ua_pending, reopen, setup,
                 num_disc_sent, close_down, rild_started, apc, bounds>>

\* The modem does not answer: an assertion, on which main() returns.
StartFails ==
  /\ mpc = "start"
  /\ mpc' = "exit"
  /\ UNCHANGED <<serial, chan, reopen, setup, i, num_disc_sent, close_down, rild_started,
                 apc, line, modem, bounds, silent>>

logical_channel_establish(c) ==
  /\ fdOpen' = fdOpen \cup {c}
  /\ sabm_ua_pending' = sabm_ua_pending \cup {c}
  /\ Write(<<Frame("SABM", c)>>)

\* One turn of the loop: the first channel of ch_cfg that has no pty, else
\* (all have one) the last of ch_cfg again.
c_alloc_channel ==
  /\ mpc = "alloc" /\ i <= Ports /\ state = "MUXING"
  /\ LET free == Chans \ fdOpen
     IN  logical_channel_establish(IF free = {} THEN Ports
                                   ELSE CHOOSE c \in free : \A d \in free : c <= d)
  /\ i' = i + 1
  /\ UNCHANGED <<serial, opened, disc_ua_pending, reopen, setup, mpc, num_disc_sent,
                 close_down, rild_started, apc, fromModem, modem, bounds, silent>>

\* The assembling thread changed the state: watchdog() returns an error, on
\* which main() returns but a poll_thread does not care.
AllocFails ==
  /\ mpc = "alloc" /\ i <= Ports /\ state # "MUXING"
  /\ mpc' \in {"exit", "idle"}
  /\ UNCHANGED <<serial, chan, reopen, setup, i, num_disc_sent, close_down, rild_started,
                 apc, line, modem, bounds, silent>>

\* Under setup_chnl_complete_lock: wait, once, for the setup to complete.
WaitForSetup ==
  /\ mpc = "alloc" /\ i > Ports
  /\ mpc' = IF mux_setup_chnl_complete THEN "start_rild" ELSE "wait"
  /\ UNCHANGED <<serial, chan, reopen, setup, i, num_disc_sent, close_down, rild_started,
                 apc, line, modem, bounds, silent>>

SpuriousWakeup ==
  /\ mpc = "wait"
  /\ mpc' = "start_rild"
  /\ seen' = seen \cup {"wakeup"}
  /\ UNCHANGED <<serial, chan, reopen, setup, i, num_disc_sent, close_down, rild_started,
                 apc, line, modem, sessions, peer, hangups, silent>>

StartRild ==
  /\ mpc = "start_rild"
  /\ rild_started' = TRUE
  /\ mpc' = "idle"
  /\ UNCHANGED <<serial, chan, reopen, setup, i, num_disc_sent, close_down, apc, line,
                 modem, bounds, silent>>

(***************************************************************************)
(* watchdog(), MUX_STATE_MUXING: replace the ptys that were closed, then   *)
(* ping the modem.                                                         *)
(***************************************************************************)
Muxing ==
  /\ mpc = "idle" /\ state = "MUXING"
  /\ fdOpen' = fdOpen \cup reopen
  /\ reopen' = {}
  /\ mpc' = IF use_ping > 0 THEN "ping" ELSE "idle"
  /\ UNCHANGED <<serial, opened, sabm_ua_pending, disc_ua_pending, setup, i, num_disc_sent,
                 close_down, rild_started, apc, line, modem, bounds, silent>>

Ping ==
  /\ mpc = "ping"
  /\ IF ping_number > use_ping
     THEN state' = "CLOSING" /\ UNCHANGED <<ping_number, toModem, silent>>
     ELSE /\ Write(<<Frame("TEST", 0)>>)
          /\ ping_number' = ping_number + 1
          /\ silent' = silent + 1
          /\ UNCHANGED state
  /\ mpc' = "idle"
  /\ UNCHANGED <<serialOpen, chan, reopen, setup, i, num_disc_sent, close_down, rild_started,
                 apc, fromModem, modem, bounds>>

(***************************************************************************)
(* watchdog(), MUX_STATE_CLOSING: close_devices.                           *)
(***************************************************************************)

\* ua_rsp_for_disc_lock is taken, and held while mpc = "disc".
CloseBegin ==
  /\ mpc = "idle" /\ state = "CLOSING"
  /\ close_down' = TRUE
  /\ mpc' = "disc" /\ i' = 1 /\ num_disc_sent' = 0
  /\ UNCHANGED <<serial, chan, reopen, setup, rild_started, apc, line, modem, bounds,
                 silent>>

\* Faulty: the last channel is left out.
SendDisc_butNotLast ==
  /\ mpc = "disc" /\ i <= Ports
  /\ IF i \in fdOpen \cap opened /\ i < Ports
     THEN /\ disc_ua_pending' = disc_ua_pending \cup {i}
          /\ num_disc_sent' = num_disc_sent + 1
          /\ Write(<<Frame("DISC", i)>>)
     ELSE UNCHANGED <<disc_ua_pending, num_disc_sent, toModem>>
  /\ i' = i + 1
  /\ UNCHANGED <<serial, fdOpen, opened, sabm_ua_pending, reopen, setup, mpc, close_down,
                 rild_started, apc, fromModem, modem, bounds, silent>>

SendDisc ==
  /\ mpc = "disc" /\ i <= Ports
  /\ IF i \in fdOpen \cap opened
     THEN /\ disc_ua_pending' = disc_ua_pending \cup {i}
          /\ num_disc_sent' = num_disc_sent + 1
          /\ Write(<<Frame("DISC", i)>>)
     ELSE UNCHANGED <<disc_ua_pending, num_disc_sent, toModem>>
  /\ i' = i + 1
  /\ UNCHANGED <<serial, fdOpen, opened, sabm_ua_pending, reopen, setup, mpc, close_down,
                 rild_started, apc, fromModem, modem, bounds, silent>>

\* All DISC were sent: the lock is given up, in pthread_cond_timedwait if
\* there is a UA to wait for.
WaitForUa ==
  /\ mpc = "disc" /\ i > Ports
  /\ mpc' = IF serialOpen /\ num_disc_sent > 0 THEN "uawait" ELSE "cld"
  /\ UNCHANGED <<serial, chan, reopen, setup, i, num_disc_sent, close_down, rild_started,
                 apc, line, modem, bounds, silent>>

\* Faulty: close_devices waits on as long as a UA is missing.
UaTimeout_butWaitsOn ==
  /\ mpc = "uawait" /\ disc_ua_pending = {}
  /\ mpc' = "cld"
  /\ close_down' = FALSE
  /\ UNCHANGED <<serial, chan, reopen, setup, i, num_disc_sent, rild_started, apc, line,
                 modem, bounds, silent>>

\* ACK_T1_TIMEOUT, or a spurious wakeup.
UaTimeout ==
  /\ mpc = "uawait"
  /\ mpc' = "cld"
  /\ close_down' = FALSE
  /\ UNCHANGED <<serial, chan, reopen, setup, i, num_disc_sent, rild_started, apc, line,
                 modem, bounds, silent>>

\* CLD, and the serial line is closed.  reset_cntx_and_terminate_threads
\* does nothing.
CloseEnd ==
  /\ mpc = "cld"
  /\ Write(<<Frame("CLD", 0)>>)
  /\ serialOpen' = FALSE
  /\ state' = "OPENING"
  /\ mpc' = "idle"
  /\ UNCHANGED <<ping_number, chan, reopen, setup, i, num_disc_sent, close_down,
                 rild_started, apc, fromModem, modem, bounds, silent>>

\* MUX_STATE_PEER_CLOSING: shutdown_devices.
shutdown_devices ==
  /\ mpc = "idle" /\ state = "PEER_CLOSING"
  /\ logical_channel_close(Chans \cap fdOpen \cap opened)
  /\ Write(<<Frame("RSP", 0)>>)
  /\ serialOpen' = FALSE
  /\ state' = "OPENING"
  /\ UNCHANGED <<ping_number, reopen, setup, dog, apc, fromModem, modem, bounds, silent>>

(***************************************************************************)
(* The assembling thread: extract_frames.                                  *)
(***************************************************************************)
Receive(f) ==
  /\ apc = 0 /\ fromModem # <<>> /\ Head(fromModem) = f
  /\ fromModem' = Tail(fromModem)

\* Faulty: the setup is complete one UA too early.
SetupComplete_butTooEarly(n) == n = Ports

\* MUXD_CH_NUM_ALL counts the control channel, too.
SetupComplete(n) == n = Ports + 1

\* UA for a channel that is not open answers a SABM.
UaOpens(c) ==
  /\ Receive(Frame("UA", c))
  /\ c \notin opened /\ c \in sabm_ua_pending
  /\ opened' = opened \cup {c}
  /\ sabm_ua_pending' = sabm_ua_pending \ {c}
  /\ sabm_ua_received' = sabm_ua_received + 1
  /\ IF SetupComplete(sabm_ua_received')
     THEN /\ mux_setup_chnl_complete' = TRUE
          /\ mpc' = IF mpc = "wait" THEN "start_rild" ELSE mpc
     ELSE UNCHANGED <<mux_setup_chnl_complete, mpc>>
  /\ UNCHANGED <<serial, fdOpen, disc_ua_pending, reopen, LackofAtciChannel, i,
                 num_disc_sent, close_down, rild_started, apc, toModem, modem, bounds,
                 silent>>

\* Faulty: close_devices is not signalled.
UaCloses_butSilent(c) ==
  /\ Receive(Frame("UA", c))
  /\ c \in opened /\ mpc # "disc"
  /\ logical_channel_close({c} \cap disc_ua_pending)
  /\ UNCHANGED <<serial, reopen, setup, dog, apc, toModem, modem, bounds, silent>>

\* UA for an open channel answers a DISC of close_devices, or is ignored;
\* under ua_rsp_for_disc_lock.
UaCloses(c) ==
  /\ Receive(Frame("UA", c))
  /\ c \in opened /\ mpc # "disc"
  /\ logical_channel_close({c} \cap disc_ua_pending)
  /\ IF close_down /\ disc_ua_pending' \cap Chans = {} /\ mpc = "uawait"
     THEN mpc' = "cld" /\ close_down' = FALSE
     ELSE UNCHANGED <<mpc, close_down>>
  /\ UNCHANGED <<serial, reopen, setup, i, num_disc_sent, rild_started, apc, toModem,
                 modem, bounds, silent>>

\* UA for a channel that is closed by now.
UaIgnored(c) ==
  /\ Receive(Frame("UA", c))
  /\ c \notin opened \cup sabm_ua_pending
  /\ disc_ua_pending' = disc_ua_pending \ {c}
  /\ UNCHANGED <<serial, fdOpen, opened, sabm_ua_pending, reopen, setup, dog, apc, toModem,
                 modem, bounds, silent>>

\* DM for an open channel: it is closed.
DmCloses(c) ==
  /\ Receive(Frame("DM", c))
  /\ c \in opened
  /\ logical_channel_close({c})
  /\ UNCHANGED <<serial, reopen, setup, dog, apc, toModem, modem, bounds, silent>>

\* DM answers a SABM: without the control channel the session ends, and the
\* setup is complete when the last channel is the one that may be missing.
DmRefuses(c) ==
  /\ Receive(Frame("DM", c))
  /\ c \notin opened
  /\ state' = IF c = 0 THEN "CLOSING" ELSE state
  /\ IF c = ATCI
     THEN /\ mux_setup_chnl_complete' = TRUE /\ LackofAtciChannel' = TRUE
          /\ mpc' = IF mpc = "wait" THEN "start_rild" ELSE mpc
     ELSE UNCHANGED <<mux_setup_chnl_complete, LackofAtciChannel, mpc>>
  /\ UNCHANGED <<serialOpen, ping_number, chan, reopen, sabm_ua_received, i, num_disc_sent,
                 close_down, rild_started, apc, toModem, modem, bounds, silent>>

\* DISC: the flag is cleared and UA sent, then the channel closed.  DISC for
\* the control channel closes the session.
HandleDisc(c) ==
  /\ Receive(Frame("DISC", c))
  /\ IF c \in opened
     THEN /\ opened' = opened \ {c}
          /\ Write(<<Frame("UA", c)>>)
          /\ apc' = c
          /\ state' = IF c = 0 THEN "PEER_CLOSING" ELSE state
     ELSE Write(<<Frame("DM", c)>>) /\ UNCHANGED <<opened, apc, state>>
  /\ UNCHANGED <<serialOpen, ping_number, fdOpen, sabm_ua_pending, disc_ua_pending, reopen, setup, dog,
                 modem, bounds, silent>>

DiscCloses ==
  /\ apc # 0
  /\ logical_channel_close({apc})
  /\ apc' = 0
  /\ UNCHANGED <<serial, reopen, setup, dog, line, modem, bounds, silent>>

\* Faulty: the modem's SABM is acknowledged, but not recorded.
HandleSabm_butUnrecorded(c) ==
  /\ Receive(Frame("SABM", c))
  /\ Write(<<Frame("UA", c)>>)
  /\ UNCHANGED <<serial, chan, reopen, setup, dog, apc, modem, bounds, silent>>

\* SABM: the channel counts as open from now on, with or without a pty.
HandleSabm(c) ==
  /\ Receive(Frame("SABM", c))
  /\ opened' = opened \cup {c}
  /\ Write(<<Frame("UA", c)>>)
  /\ UNCHANGED <<serial, fdOpen, sabm_ua_pending, disc_ua_pending, reopen, setup, dog, apc,
                 modem, bounds, silent>>

\* handle_command for CLD, which is also acknowledged.
HandleCld ==
  /\ Receive(Frame("CLD", 0))
  /\ state' = "PEER_CLOSING"
  /\ Write(<<Frame("RSP", 0)>>)
  /\ UNCHANGED <<serialOpen, ping_number, chan, reopen, setup, dog, apc, modem, bounds,
                 silent>>

\* handle_command for the answer to a ping: nothing is recorded.
HandleRsp ==
  /\ Receive(Frame("RSP", 0))
  /\ silent' = 0
  /\ UNCHANGED <<serial, chan, reopen, setup, dog, apc, toModem, modem, bounds>>

\* pseudo_device_read, close_pty_channel: the application has hung up.
PtyCloses(c) ==
  /\ c \in fdOpen /\ mux_setup_chnl_complete /\ hangups < MaxHangups
  /\ hangups' = hangups + 1
  /\ fdOpen' = fdOpen \ {c}
  /\ reopen' = reopen \cup {c}
  /\ UNCHANGED <<serial, opened, sabm_ua_pending, disc_ua_pending, setup, dog, apc, line,
                 modem, sessions, peer, seen, silent>>

(***************************************************************************)
(* The modem (not part of the repository).                                 *)
(***************************************************************************)
Take(f) == toModem # <<>> /\ Head(toModem) = f /\ toModem' = Tail(toModem)
Answer(f) == fromModem' = IF serialOpen THEN Append(fromModem, f) ELSE fromModem
Daemon == <<serial, chan, reopen, setup, dog, apc, sessions, hangups, silent>>

ModemAccepts(c) ==
  /\ Take(Frame("SABM", c))
  /\ modemOpen' = modemOpen \cup {c}
  /\ Answer(Frame("UA", c))
  /\ UNCHANGED <<Daemon, asked, peer, seen>>

ModemRefuses(c) ==
  /\ Take(Frame("SABM", c)) /\ c \notin modemOpen
  /\ Answer(Frame("DM", c))
  /\ seen' = seen \cup {"refusal"}
  /\ UNCHANGED <<Daemon, modem, peer>>

ModemCloses(c) ==
  /\ Take(Frame("DISC", c))
  /\ Answer(Frame(IF c \in modemOpen THEN "UA" ELSE "DM", c))
  /\ modemOpen' = modemOpen \ {c}
  /\ UNCHANGED <<Daemon, asked, peer, seen>>

\* CLD closes all channels, a ping is answered, UA and DM are answers.
ModemHandles(f) ==
  /\ Take(f)
  /\ modemOpen' = IF f[1] = "CLD" THEN {} ELSE modemOpen
  /\ asked' = IF f[1] \in {"UA", "DM"} THEN asked \ {f[2]} ELSE asked
  /\ IF f = Frame("TEST", 0) /\ modemOpen # {}
     THEN Answer(Frame("RSP", 0)) ELSE UNCHANGED fromModem
  /\ UNCHANGED <<Daemon, peer, seen>>

\* The modem's own requests.  It closes the session at any time; single
\* channels, one request at a time each, after the daemon's setup is over.
ModemRequests(type, c) ==
  /\ serialOpen /\ state # "INITILIZING" /\ peer < MaxPeer
  /\ {0, c} \cap asked = {} /\ 0 \in modemOpen
  /\ type = "CLD" \/ (sabm_ua_pending = {} /\ mpc # "alloc")
  /\ \/ type = "DISC" /\ c \in modemOpen /\ modemOpen' = modemOpen \ {c}
     \/ type = "SABM" /\ c \notin modemOpen /\ modemOpen' = modemOpen \cup {c}
     \/ type = "CLD"  /\ c = 0 /\ modemOpen' = {}
  /\ asked' = IF type = "CLD" THEN asked ELSE asked \cup {c}
  /\ peer' = peer + 1
  /\ seen' = seen \cup {type}
  /\ Answer(Frame(type, c))
  /\ UNCHANGED <<Daemon, toModem>>

(***************************************************************************)
(* The specification.                                                      *)
(***************************************************************************)
Init ==
  /\ state = "OPENING" /\ serialOpen = FALSE /\ ping_number = 0
  /\ fdOpen = {} /\ reopen = {} /\ opened = {} /\ sabm_ua_pending = {} /\ disc_ua_pending = {}
  /\ mux_setup_chnl_complete = FALSE /\ sabm_ua_received = 0 /\ LackofAtciChannel = FALSE
  /\ rild_started = FALSE /\ close_down = FALSE
  /\ mpc = "idle" /\ i = 1 /\ num_disc_sent = 0 /\ apc = 0
  /\ toModem = <<>> /\ fromModem = <<>> /\ modemOpen = {} /\ asked = {}
  /\ sessions = 0 /\ peer = 0 /\ hangups = 0 /\ silent = 0 /\ seen = {}

watchdog ==
  \/ OpenSerial \/ start_muxer \/ c_alloc_channel \/ AllocFails \/ WaitForSetup
  \/ StartRild \/ Muxing \/ Ping \/ CloseBegin \/ SendDisc \/ WaitForUa \/ UaTimeout
  \/ CloseEnd \/ shutdown_devices
extract_frames ==
  \/ \E c \in 0..Ports :
       \/ UaOpens(c) \/ UaCloses(c) \/ UaIgnored(c) \/ DmCloses(c) \/ DmRefuses(c)
       \/ HandleDisc(c) \/ HandleSabm(c)
  \/ DiscCloses \/ HandleCld \/ HandleRsp
Modem ==
  \/ \E c \in 0..Ports : ModemAccepts(c) \/ ModemRefuses(c) \/ ModemCloses(c)
  \/ \E c \in 0..Ports, t \in {"UA", "DM", "RSP", "TEST", "CLD"} : ModemHandles(Frame(t, c))

Next ==
  \/ watchdog \/ StartFails \/ SpuriousWakeup
  \/ extract_frames \/ (\E c \in Chans : PtyCloses(c))
  \/ Modem
  \/ \E c \in 0..Ports, t \in {"DISC", "SABM", "CLD"} : ModemRequests(t, c)

Spec == Init /\ [][Next]_vars

\* main() calls watchdog() every five seconds, the assembling thread is
\* scheduled and the modem handles what it receives.
FairSpec == Spec /\ WF_vars(watchdog) /\ WF_vars(extract_frames) /\ WF_vars(Modem)

\* The same with a modem that may stop answering.
SilentModemSpec == Spec /\ WF_vars(watchdog) /\ WF_vars(extract_frames)

TypeOK ==
  /\ state \in {"OPENING", "INITILIZING", "MUXING", "CLOSING", "PEER_CLOSING"}
  /\ serialOpen \in BOOLEAN /\ ping_number \in 0..(use_ping + 1)
  /\ fdOpen \subseteq Chans /\ reopen \subseteq Chans
  /\ opened \subseteq 0..Ports /\ sabm_ua_pending \subseteq 0..Ports
  /\ disc_ua_pending \subseteq Chans
  /\ mux_setup_chnl_complete \in BOOLEAN /\ LackofAtciChannel \in BOOLEAN
  /\ sabm_ua_received \in Nat
  /\ rild_started \in BOOLEAN /\ close_down \in BOOLEAN
  /\ mpc \in {"idle", "start", "alloc", "wait", "start_rild", "ping", "disc", "uawait", "cld",
              "exit"}
  /\ i \in 1..(Ports + 1) /\ num_disc_sent \in 0..Ports /\ apc \in 0..Ports
  /\ toModem \in Seq({"SABM", "UA", "DM", "DISC", "CLD", "RSP", "TEST"} \X (0..Ports))
  /\ fromModem \in Seq({"SABM", "UA", "DM", "DISC", "CLD", "RSP"} \X (0..Ports))
  /\ modemOpen \subseteq 0..Ports /\ asked \subseteq 0..Ports
  /\ sessions \in 0..MaxSessions /\ peer \in 0..MaxPeer /\ hangups \in 0..MaxHangups
  /\ silent \in 0..(use_ping + 1)
  /\ seen \subseteq {"wakeup", "refusal", "DISC", "SABM", "CLD"}

(***************************************************************************)
(* Properties.                                                             *)
(***************************************************************************)

\* pseudo_device_read never meets its assertion GSM0710MUXD_TXTHREAD_ERR in
\* the first session: once it lets applications send, every pty belongs to
\* an open channel, unless the modem itself closed one.
TxOnlyOnOpened ==
  /\ sessions = 1 /\ "DISC" \notin seen
  /\ mux_setup_chnl_complete /\ ~LackofAtciChannel
  => fdOpen \subseteq opened

\* The radio daemon is started when the setup is complete, not before, unless
\* watchdog() was woken without a reason.
RildAfterSetup == "wakeup" \notin seen => (rild_started => mux_setup_chnl_complete)

\* When nothing is under way both sides agree on which channels are open, in
\* the first session.  Not, though, when the modem lacks a channel that is not
\* the last of ch_cfg (DLCI 26, gsm0710muxd.c:384, is the last for one SIM, not
\* for two): its DM completes the setup while c_alloc_channel goes on, which
\* then gives a second SABM to a channel whose application hung up.
Agreement ==
  /\ sessions = 1 /\ (LackofAtciChannel => ATCI = Ports)
  /\ state = "MUXING" /\ mpc \in {"idle", "wait"} /\ apc = 0
  /\ toModem = <<>> /\ fromModem = <<>>
  => opened = modemOpen

\* close_devices sleeps only while a UA is missing: no UA comes in between
\* its last DISC and its wait, in the first session and unless the modem
\* closed the channel or the session itself.
UaNotMissed ==
  sessions = 1 /\ mpc = "uawait" /\ seen \cap {"DISC", "CLD"} = {} => disc_ua_pending # {}

\* Channels are closed before the session: the modem has no logical channel
\* open when CLD reaches it (gsm0710muxd.c:3213 "Close all non-control
\* channels one by one and finaly close the control channel"), in a session
\* without hang-ups, refusals and requests of the modem.
OrderlyClose ==
  /\ sessions = 1 /\ hangups = 0 /\ seen = {}
  /\ toModem # <<>> /\ Head(toModem) = Frame("CLD", 0)
  => modemOpen \cap Chans = {}

\* The wait for the setup ends, if the modem goes on to answer and refuses
\* no channel.
SetupFinishes ==
  WF_vars(Modem) => ((mpc = "wait") ~> (mpc # "wait" \/ "refusal" \in seen))

\* A session that is to be closed is closed, whether the modem answers or
\* not, unless main() returned or the modem had refused a channel.
CloseFinishes ==
  (state = "CLOSING") ~> (state # "CLOSING" \/ mpc = "exit" \/ "refusal" \in seen)

\* Nobody uses a channel before the setup: applications send on open channels
\* only, and the radio daemon starts when the channels are open.
SetupGate == TypeOK /\ TxOnlyOnOpened /\ RildAfterSetup

\* watchdog() gets on: the setup ends, and so does the closing of a session.
SessionProgress == SetupFinishes /\ CloseFinishes
=============================================================================
