------------------------------ MODULE MuxRxFlow ------------------------------
(***************************************************************************)
(* mtk/gsm0710muxd: receive flow control of one logical channel            *)
(* (gsm0710muxd_fc.c, and the UIH branch of extract_frames).               *)
(*                                                                         *)
(* The assembling thread writes each frame to the channel's pty.  What the *)
(* pty does not take is cached in rx_fl, the modem is told to stop (MSC    *)
(* with FC Off) and a retry_write_pty_thread drains rx_fl; it tells the    *)
(* modem to go on (FC On) when rx_fl is empty.                             *)
(*                                                                         *)
(* Frames are numbered in the order in which the modem sends them;         *)
(* len[f] is the length of frame f.  A write() that fails with EINTR, EIO  *)
(* or another errno is tried again by both threads: no step here.          *)
(*                                                                         *)
(* Definitions named X_but... are faulty variants of X that no             *)
(* specification uses; PROJECT.json lists them as mutants.                 *)
(***************************************************************************)
EXTENDS Naturals, Sequences, FiniteSets

CONSTANTS CAP,          \* bytes a pty holds
          MARK,         \* RX_FLOW_CTRL_HIGH_WATERMARK
          MaxLen,       \* the longest frame
          Threads,      \* identifiers for retry_write_pty_threads
          MaxFrames     \* bound: frames the modem sends

ASSUME RxAssumption ==
  /\ CAP \in Nat \ {0} /\ MARK \in Nat /\ MaxLen \in Nat \ {0} /\ MaxFrames \in Nat

None == 0               \* no frame

VARIABLES
  vt,                   \* is this the video telephony channel, MUXD_VT_CH_NUM?
  len,                  \* lengths of the frames sent so far
  next,                 \* the frame the assembling thread dispatches next
  msc,                  \* MSC commands on their way to the modem
  modemOff,             \* has the modem been told to stop?
  rx_fc_off, rx_thread, rx_fl, rx_fl_total, rx_fl_written,  \* members of Channel
  apc, aframe, awritten,                \* the assembling thread
  tpc, tframe, twritten,                \* the retry threads
  used,                 \* bytes in the pty the application has not read
  out,                  \* history: <<frame, position>> of the bytes written
  dropped,              \* history: frames discarded
  freed,                \* history: frames handed to destroy_frame
  asserted,             \* history: has a Gsm0710Muxd_Assert fired?
  failed                \* history: has create_thread failed?

avars == <<apc, aframe, awritten>>
tvars == <<tpc, tframe, twritten>>
fl    == <<rx_fl, rx_fl_total, rx_fl_written>>
pty   == <<used, out>>
hist  == <<dropped, freed, asserted, failed>>
modem == <<vt, len, modemOff>>
vars  == <<modem, next, msc, rx_fc_off, rx_thread, fl, avars, tvars, pty, hist>>

(***************************************************************************)
(* The modem and the application (neither is part of the repository).      *)
(***************************************************************************)
ModemSends(n) ==
  /\ ~modemOff /\ Len(len) < MaxFrames
  /\ len' = Append(len, n)
  /\ UNCHANGED <<vt, modemOff, next, msc, rx_fc_off, rx_thread, fl, avars, tvars, pty, hist>>

ModemHandlesMsc ==
  /\ msc # <<>>
  /\ modemOff' = (Head(msc) = "off")
  /\ msc' = Tail(msc)
  /\ UNCHANGED <<vt, len, next, rx_fc_off, rx_thread, fl, avars, tvars, pty, hist>>

AppReads(k) ==
  /\ k \in 1..used
  /\ used' = used - k
  /\ UNCHANGED <<modem, next, msc, rx_fc_off, rx_thread, fl, avars, tvars, out, hist>>

\* write() to the pty takes what there is room for: k bytes of f from w on.
WritePty(f, w, k) ==
  /\ k = IF len[f] - w <= CAP - used THEN len[f] - w ELSE CAP - used
  /\ used' = used + k
  /\ out' = out \o [i \in 1..k |-> <<f, w + i>>]

(***************************************************************************)
(* The assembling thread: the UIH branch of extract_frames.                *)
(***************************************************************************)

\* Faulty: a cached frame is not counted.
_fc_cacheFrameData_butUncounted(f) ==
  /\ IF rx_fl_total + len[f] > MARK
     THEN dropped' = dropped \cup {f} /\ UNCHANGED <<rx_fl, rx_fl_total>>
     ELSE rx_fl' = Append(rx_fl, f) /\ UNCHANGED <<rx_fl_total, dropped>>
  /\ freed' = freed \cup {f}
  /\ UNCHANGED rx_fl_written

\* Faulty: the frame is put in front of the list.
_fc_cacheFrameData_butAtHead(f) ==
  /\ IF rx_fl_total + len[f] > MARK
     THEN dropped' = dropped \cup {f} /\ UNCHANGED <<rx_fl, rx_fl_total>>
     ELSE /\ rx_fl_total' = rx_fl_total + len[f]
          /\ rx_fl' = <<f>> \o rx_fl
          /\ UNCHANGED dropped
  /\ freed' = freed \cup {f}
  /\ UNCHANGED rx_fl_written

\* Called with rx_fc_lock held.  The frame is destroyed on both branches.
_fc_cacheFrameData(f) ==
  /\ IF rx_fl_total + len[f] > MARK
     THEN dropped' = dropped \cup {f} /\ UNCHANGED <<rx_fl, rx_fl_total>>
     ELSE /\ rx_fl_total' = rx_fl_total + len[f]
          /\ rx_fl' = Append(rx_fl, f)
          /\ UNCHANGED dropped
  /\ freed' = freed \cup {f}
  /\ UNCHANGED rx_fl_written

\* Under rx_fc_lock: is the frame cached or written?
Dispatch ==
  /\ apc = "idle" /\ next <= Len(len)
  /\ next' = next + 1
  /\ IF rx_fc_off
     THEN _fc_cacheFrameData(next) /\ UNCHANGED <<apc, aframe>>
     ELSE aframe' = next /\ apc' = "write" /\ UNCHANGED <<fl, dropped, freed, failed>>
  /\ UNCHANGED <<modem, msc, rx_fc_off, rx_thread, awritten, tvars, pty, asserted, failed>>

\* The pty is full (EAGAIN): the frame is cached, or lost on the VT channel.
WriteAgain ==
  /\ apc = "write" /\ used = CAP
  /\ awritten' = 0
  /\ IF vt THEN apc' = "idle" /\ dropped' = dropped \cup {aframe}
           ELSE apc' = "cache" /\ UNCHANGED dropped
  /\ UNCHANGED <<modem, next, msc, rx_fc_off, rx_thread, fl, aframe, tvars, pty, freed, asserted, failed>>

\* write() succeeds for all of the frame or for a part of it.
Write ==
  /\ apc = "write" /\ used < CAP
  /\ \E k \in 1..CAP :
       /\ WritePty(aframe, 0, k)
       /\ IF k = len[aframe]
          THEN apc' = "idle" /\ freed' = freed \cup {aframe} /\ UNCHANGED awritten
          ELSE apc' = "cache" /\ awritten' = k /\ UNCHANGED freed
  /\ UNCHANGED <<modem, next, msc, rx_fc_off, rx_thread, fl, aframe, tvars, dropped, asserted, failed>>

\* rx_fc_lock is not held.  A list that is not empty is an assertion, and is
\* emptied by _fl_init.
_fc_cacheRemainingFrameData ==
  /\ apc = "cache"
  /\ asserted' = (asserted \/ rx_fl # <<>>)
  /\ rx_fl' = <<aframe>>
  /\ rx_fl_total' = len[aframe] - awritten
  /\ rx_fl_written' = awritten
  /\ apc' = "fcoff"
  /\ UNCHANGED <<modem, next, msc, rx_fc_off, rx_thread, aframe, awritten, tvars, pty,
                 dropped, freed, failed>>

\* start_retry_write_thread: FC Off is sent first ...
SendFcOff ==
  /\ apc = "fcoff"
  /\ msc' = Append(msc, "off")
  /\ apc' = "gate"
  /\ UNCHANGED <<modem, next, rx_fc_off, rx_thread, fl, aframe, awritten, tvars, pty, hist>>

\* ... then, under rx_fc_lock, it waits once for an old thread to end ...
Gate ==
  /\ apc = "gate"
  /\ IF rx_thread
     THEN apc' = "wait" /\ UNCHANGED rx_fc_off
     ELSE apc' = "create" /\ rx_fc_off' = TRUE
  /\ UNCHANGED <<modem, next, msc, rx_thread, fl, aframe, awritten, tvars, pty, hist>>

\* pthread_cond_wait may return without a signal.
SpuriousWakeup ==
  /\ apc = "wait"
  /\ apc' = "woken"
  /\ UNCHANGED <<modem, next, msc, rx_fc_off, rx_thread, fl, aframe, awritten, tvars, pty, hist>>

AfterWait ==
  /\ apc = "woken"
  /\ rx_fc_off' = TRUE
  /\ apc' = "create"
  /\ UNCHANGED <<modem, next, msc, rx_thread, fl, aframe, awritten, tvars, pty, hist>>

\* ... and starts a new one.  When that fails the error is only logged.
CreateThread(t) ==
  /\ apc = "create" /\ tpc[t] = "none"
  /\ tpc' = [tpc EXCEPT ![t] = "start"]
  /\ apc' = "idle"
  /\ UNCHANGED <<modem, next, msc, rx_fc_off, rx_thread, fl, aframe, awritten, tframe,
                 twritten, pty, hist>>

CreateThreadFails ==
  /\ apc = "create"
  /\ apc' = "idle"
  /\ failed' = TRUE
  /\ UNCHANGED <<modem, next, msc, rx_fc_off, rx_thread, fl, aframe, awritten, tvars, pty,
                 dropped, freed, asserted>>

(***************************************************************************)
(* retry_write_pty_thread.                                                 *)
(***************************************************************************)

\* Under rx_fc_lock: take the first frame.  An empty list is an assertion.
RetryStart(t) ==
  /\ tpc[t] = "start"
  /\ rx_thread' = TRUE
  /\ rx_fl_written' = 0
  /\ twritten' = [twritten EXCEPT ![t] = rx_fl_written]
  /\ IF rx_fl = <<>>
     THEN /\ asserted' = TRUE
          /\ tpc' = [tpc EXCEPT ![t] = "dead"]
          /\ UNCHANGED <<rx_fl, tframe>>
     ELSE /\ tframe' = [tframe EXCEPT ![t] = Head(rx_fl)]
          /\ rx_fl' = Tail(rx_fl)
          /\ tpc' = [tpc EXCEPT ![t] = "write"]
          /\ UNCHANGED asserted
  /\ UNCHANGED <<modem, next, msc, rx_fc_off, rx_fl_total, avars, pty, dropped, freed, failed>>

\* One write(); with EAGAIN the thread sleeps and tries again.
RetryWrite(t) ==
  /\ tpc[t] = "write" /\ used < CAP
  /\ \E k \in 1..CAP :
       /\ WritePty(tframe[t], twritten[t], k)
       /\ IF twritten[t] + k < len[tframe[t]]
          THEN twritten' = [twritten EXCEPT ![t] = @ + k] /\ UNCHANGED tpc
          ELSE /\ twritten' = [twritten EXCEPT ![t] = 0]
               /\ tpc' = [tpc EXCEPT ![t] = "pop"]
  /\ UNCHANGED <<modem, next, msc, rx_fc_off, rx_thread, fl, avars, tframe, hist>>

\* Under rx_fc_lock: the next frame, or the end of flow control.
RetryPop(t) ==
  /\ tpc[t] = "pop"
  /\ IF rx_fl = <<>>
     THEN /\ rx_fc_off' = FALSE
          /\ tpc' = [tpc EXCEPT ![t] = "fcon"]
          /\ UNCHANGED <<rx_fl, tframe>>
     ELSE /\ tframe' = [tframe EXCEPT ![t] = Head(rx_fl)]
          /\ rx_fl' = Tail(rx_fl)
          /\ tpc' = [tpc EXCEPT ![t] = "write"]
          /\ UNCHANGED rx_fc_off
  /\ UNCHANGED <<modem, next, msc, rx_thread, rx_fl_total, rx_fl_written, avars, twritten,
                 pty, hist>>

\* Faulty: the modem is not told to go on.
SendFcOn_butSilent(t) ==
  /\ tpc[t] = "fcon"
  /\ tpc' = [tpc EXCEPT ![t] = "exit"]
  /\ UNCHANGED <<modem, next, msc, rx_fc_off, rx_thread, fl, avars, tframe, twritten, pty, hist>>

SendFcOn(t) ==
  /\ tpc[t] = "fcon"
  /\ msc' = Append(msc, "on")
  /\ tpc' = [tpc EXCEPT ![t] = "exit"]
  /\ UNCHANGED <<modem, next, rx_fc_off, rx_thread, fl, avars, tframe, twritten, pty, hist>>

RetryExit(t) ==
  /\ tpc[t] = "exit"
  /\ rx_thread' = FALSE
  /\ tpc' = [tpc EXCEPT ![t] = "signal"]
  /\ UNCHANGED <<modem, next, msc, rx_fc_off, fl, avars, tframe, twritten, pty, hist>>

RetrySignal(t) ==
  /\ tpc[t] = "signal"
  /\ apc' = IF apc = "wait" THEN "woken" ELSE apc
  /\ tpc' = [tpc EXCEPT ![t] = "none"]
  /\ tframe' = [tframe EXCEPT ![t] = None]
  /\ UNCHANGED <<modem, next, msc, rx_fc_off, rx_thread, fl, aframe, awritten, twritten,
                 pty, hist>>

(***************************************************************************)
(* The specification.                                                      *)
(***************************************************************************)
Init ==
  /\ vt \in BOOLEAN /\ len = <<>> /\ modemOff = FALSE /\ next = 1 /\ msc = <<>>
  /\ rx_fc_off = FALSE /\ rx_thread = FALSE
  /\ rx_fl = <<>> /\ rx_fl_total = 0 /\ rx_fl_written = 0
  /\ apc = "idle" /\ aframe = None /\ awritten = 0
  /\ tpc = [t \in Threads |-> "none"]
  /\ tframe = [t \in Threads |-> None] /\ twritten = [t \in Threads |-> 0]
  /\ used = 0 /\ out = <<>>
  /\ dropped = {} /\ freed = {} /\ asserted = FALSE /\ failed = FALSE

Assembler ==
  \/ Dispatch \/ WriteAgain \/ Write \/ _fc_cacheRemainingFrameData
  \/ SendFcOff \/ Gate \/ AfterWait \/ \E t \in Threads : CreateThread(t)
Retry(t) ==
  \/ RetryStart(t) \/ RetryWrite(t) \/ RetryPop(t)
  \/ SendFcOn(t) \/ RetryExit(t) \/ RetrySignal(t)

Next ==
  \/ \E n \in 1..MaxLen : ModemSends(n)
  \/ ModemHandlesMsc
  \/ \E k \in 1..CAP : AppReads(k)
  \/ Assembler \/ SpuriousWakeup \/ CreateThreadFails
  \/ \E t \in Threads : Retry(t)

Spec == Init /\ [][Next]_vars

\* The threads are scheduled, the modem handles its commands and the
\* application keeps reading its pty.
FairSpec ==
  /\ Spec
  /\ WF_vars(Assembler) /\ \A t \in Threads : WF_vars(Retry(t))
  /\ WF_vars(ModemHandlesMsc) /\ WF_vars(\E k \in 1..CAP : AppReads(k))

TypeOK ==
  /\ vt \in BOOLEAN /\ len \in Seq(1..MaxLen) /\ modemOff \in BOOLEAN
  /\ next \in 1..(Len(len) + 1)
  /\ msc \in Seq({"off", "on"})
  /\ rx_fc_off \in BOOLEAN /\ rx_thread \in BOOLEAN
  /\ rx_fl \in Seq(1..Len(len)) /\ rx_fl_total \in Nat /\ rx_fl_written \in 0..MaxLen
  /\ apc \in {"idle", "write", "cache", "fcoff", "gate", "wait", "woken", "create"}
  /\ aframe \in 0..Len(len) /\ awritten \in 0..MaxLen
  /\ tpc \in [Threads -> {"none", "start", "write", "pop", "fcon", "exit", "signal", "dead"}]
  /\ tframe \in [Threads -> 0..Len(len)] /\ twritten \in [Threads -> 0..MaxLen]
  /\ used \in 0..CAP
  /\ out \in Seq((1..Len(len)) \X (1..MaxLen))
  /\ dropped \subseteq 1..Len(len) /\ freed \subseteq 1..Len(len)
  /\ asserted \in BOOLEAN /\ failed \in BOOLEAN

(***************************************************************************)
(* Properties.                                                             *)
(***************************************************************************)

\* b follows a in the stream of the frames that were not dropped.
Follows(a, b) ==
  IF a[2] < len[a[1]]
  THEN b = <<a[1], a[2] + 1>>
  ELSE /\ b[2] = 1 /\ b[1] > a[1] /\ b[1] \notin dropped
       /\ \A f \in (a[1] + 1)..(b[1] - 1) : f \in dropped

\* Whichever thread writes, the pty receives the bytes of the frames in the
\* modem's order, each once, with no gap but whole frames that were dropped.
PtyStreamInOrder == \A i \in 1..(Len(out) - 1) : Follows(out[i], out[i + 1])

\* GSM0710MUXD_FRAMELIST_INIT_ERR and GSM0710MUXD_RXTHREAD_ERR never fire:
\* the list is empty when a frame is cached for a new retry thread, and is
\* not when that thread starts.
AssertsHold == ~asserted

\* Every frame the modem sent is written to the pty or dropped, unless a
\* retry thread could not be created: nothing drains rx_fl then.
EveryFrameWritten ==
  \A f \in 1..MaxFrames :
    (Len(len) = f) ~>
      \/ f \in dropped \/ failed
      \/ f <= Len(len) /\ \E i \in 1..Len(out) : out[i] = <<f, len[f]>>

\* A modem that was stopped is allowed to send again, unless a retry thread
\* could not be created.
FlowResumes == modemOff ~> (~modemOff \/ failed)

\* Frames in rx_fl are still allocated ("All data sent from the modem before
\* receiving the MSC with FC OFF Rsp will be inserted into the link list").
CachedFramesIntact == \A t \in Threads : tpc[t] = "write" => tframe[t] \notin freed

\* Flow control ends: the cached frames reach the pty, the modem sends again.
FlowProgress == EveryFrameWritten /\ FlowResumes
=============================================================================
