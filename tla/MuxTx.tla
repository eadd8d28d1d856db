------------------------------- MODULE MuxTx -------------------------------
(***************************************************************************)
(* mtk/gsm0710muxd: write_frame and its callers.  The channels' threads    *)
(* send what they read from their ptys (handle_channel_data), in frames of *)
(* at most N1 bytes and with retries; the assembling thread answers the    *)
(* modem's commands, and others send control frames (rx_thread_write_frame *)
(* and plain calls of write_frame, which ignore the result).  They share   *)
(* the serial port under write_frame_lock.                                 *)
(*                                                                         *)
(* A write() may be cut short or interrupted by a signal, may find the     *)
(* modem gone (ETXTBSY, ENODEV), or fail for good.  The wire is the        *)
(* sequence of the pieces written: prefix, data from one byte to another,  *)
(* postfix.                                                                *)
(***************************************************************************)
EXTENDS Naturals, Sequences

CONSTANTS Data,       \* threads in handle_channel_data, each with one chunk
          Control,    \* threads that answer an MSC command of the modem
          Len_,       \* bytes of a chunk
          N1,         \* negotiated_N1
          Retries,    \* GSM0710_WRITE_RETRIES
          MscLike,    \* data threads whose chunks begin with the byte of an MSC
          MaxCuts,    \* bound: write() calls that are cut short
          None

ASSUME TxAssumption ==
  /\ Data \cap Control = {} /\ None \notin Data \cup Control /\ MscLike \subseteq Data
  /\ Len_ \in Nat \ {0} /\ N1 \in Nat \ {0} /\ Retries \in Nat \ {0} /\ MaxCuts \in Nat

VARIABLES
  cmux_mode,      \* advanced mode: a frame is one write()
  write_frame_lock,
  stop_muxd,
  uih_pf_bit_received,
  ee,             \* PROPERTY_MODEM_EE: the modem is in its exception handler
  serial,         \* "up", "gone" (ETXTBSY, ENODEV) or "failing" (any other error)
  pc,             \* per thread: "idle", "call", "prefix", "data", "postfix", "done"
  written, tries, \* per thread: of handle_channel_data
  wire,           \* the pieces written, in order
  asserted,       \* GSM0710MUXD_SERIAL_WRITE_ERR
  cuts,           \* counter, and history: pieces cut short
  zeros,          \* history, per thread: calls that returned 0, up to Retries
  stopped         \* history: threads told that a frame was sent after the stop

flags == <<cmux_mode, stop_muxd, ee, serial>>
call  == <<pc, written, tries, asserted, zeros>>
vars  == <<flags, write_frame_lock, uih_pf_bit_received, call, wire, cuts, stopped>>

Threads == Data \cup Control

\* The bytes of the frame that thread w sends: min(negotiated_N1, length).
From(w)   == written[w] + 1
To(w)     == IF w \in Control THEN 1
             ELSE IF Len_ - written[w] < N1 THEN Len_ ELSE written[w] + N1
Length(w) == To(w) - written[w]

Piece(w, part, whole) ==
  [of |-> w, part |-> part, from |-> From(w), to |-> To(w), whole |-> whole, pf |-> FALSE]

\* Faulty: a round that wrote nothing is not counted.
handle_channel_data_butEndless(w, n) ==
  /\ written' = [written EXCEPT ![w] = @ + n]
  /\ pc' = [pc EXCEPT ![w] = IF written'[w] = Len_ THEN "done" ELSE "call"]
  /\ UNCHANGED <<tries, asserted>>

\* One round of handle_channel_data, which write_frame told that n bytes are
\* written; and pseudo_device_read, which asserts that nothing remains.
handle_channel_data(w, n) ==
  /\ written' = [written EXCEPT ![w] = @ + n]
  /\ tries' = [tries EXCEPT ![w] = IF n = 0 THEN @ + 1 ELSE @]
  /\ LET finished == written'[w] = Len_ \/ tries'[w] = Retries IN
     /\ pc' = [pc EXCEPT ![w] = IF finished THEN "done" ELSE "call"]
     /\ asserted' = (asserted \/ (finished /\ written'[w] # Len_))

\* write_frame returns n and releases the lock.
Return(w, n) ==
  /\ write_frame_lock' = None
  /\ zeros' = [zeros EXCEPT ![w] = IF n = 0 /\ @ < Retries THEN @ + 1 ELSE @]
  /\ IF w \in Data THEN handle_channel_data(w, n)
     ELSE /\ pc' = [pc EXCEPT ![w] = "done"]
          /\ UNCHANGED <<written, tries, asserted>>

\* Data arrive, or a command that must be answered.
Begin(w) ==
  /\ pc[w] = "idle"
  /\ pc' = [pc EXCEPT ![w] = "call"]
  /\ UNCHANGED <<flags, write_frame_lock, uih_pf_bit_received, written, tries, asserted, zeros,
                 wire, cuts, stopped>>

\* Faulty: write_frame does not take its lock.
Enter_butUnlocked(w) ==
  /\ pc[w] = "call" /\ ~stop_muxd
  /\ pc' = [pc EXCEPT ![w] = "prefix"]
  /\ UNCHANGED <<flags, write_frame_lock, uih_pf_bit_received, written, tries, asserted, zeros,
                 wire, cuts, stopped>>

\* write_frame: the lock; after the stop, every call reports one byte.
Enter(w) ==
  /\ pc[w] = "call" /\ write_frame_lock = None
  /\ \/ /\ stop_muxd
        /\ stopped' = stopped \cup {w}
        /\ Return(w, 1)
     \/ /\ ~stop_muxd
        /\ write_frame_lock' = w
        /\ pc' = [pc EXCEPT ![w] = "prefix"]
        /\ UNCHANGED <<written, tries, asserted, zeros, stopped>>
  /\ UNCHANGED <<flags, uih_pf_bit_received, wire, cuts>>

\* Every frame here has data.  (SABM, UA and the like have none and go from the
\* prefix to the postfix, 716; so would the frames of a chunk that is read while
\* logical_channel_close sets negotiated_N1 to 0, 873, each of which counts as a
\* write of nothing.  Both are left out.)
NextPart(w) ==
  CASE pc[w] = "prefix" /\ cmux_mode -> "postfix"
    [] pc[w] = "prefix" /\ ~cmux_mode -> "data"
    [] pc[w] = "data" -> "postfix"

\* The P/F bit goes to the first UIH frame that looks like an MSC command.
TakesPf(w) == pc[w] = "prefix" /\ uih_pf_bit_received /\ w \in Control \cup MscLike

\* A write() that succeeds; the last one completes the frame.  In advanced mode
\* there is only one.
WriteAll(w) ==
  /\ pc[w] \in {"prefix", "data", "postfix"} /\ serial = "up"
  /\ uih_pf_bit_received' = (uih_pf_bit_received /\ ~TakesPf(w))
  /\ LET last  == pc[w] = "postfix" \/ cmux_mode
         piece == [Piece(w, IF cmux_mode THEN "frame" ELSE pc[w], TRUE) EXCEPT !.pf = TakesPf(w)]
     IN  /\ wire' = Append(wire, piece)
         /\ IF last THEN Return(w, Length(w))
            ELSE /\ pc' = [pc EXCEPT ![w] = NextPart(w)]
                 /\ UNCHANGED <<write_frame_lock, written, tries, asserted, zeros>>
  /\ UNCHANGED <<flags, cuts, stopped>>

\* Faulty: a write that was cut short counts as done.
WriteShort_butFine(w) ==
  /\ pc[w] \in {"prefix", "data", "postfix"} /\ serial = "up" /\ cuts < MaxCuts
  /\ cuts' = cuts + 1
  /\ uih_pf_bit_received' = (uih_pf_bit_received /\ ~TakesPf(w))
  /\ wire' = Append(wire, Piece(w, IF cmux_mode THEN "frame" ELSE pc[w], FALSE))
  /\ Return(w, Length(w))
  /\ UNCHANGED <<flags, stopped>>

\* A write() that is cut short, or interrupted before its first byte: write_frame
\* returns 0, and what it wrote of the frame stays on the wire.
WriteShort(w) ==
  /\ pc[w] \in {"prefix", "data", "postfix"} /\ serial = "up" /\ cuts < MaxCuts
  /\ cuts' = cuts + 1
  /\ uih_pf_bit_received' = (uih_pf_bit_received /\ ~TakesPf(w))
  /\ wire' = Append(wire, Piece(w, IF cmux_mode THEN "frame" ELSE pc[w], FALSE))
  /\ Return(w, 0)
  /\ UNCHANGED <<flags, stopped>>

\* A write() that fails: in basic mode a modem that is gone gets its data dropped
\* and PROPERTY_MODEM_EE set, and the caller is told that all is written.
WriteFails(w) ==
  /\ pc[w] \in {"prefix", "data", "postfix"} /\ serial # "up"
  /\ uih_pf_bit_received' = (uih_pf_bit_received /\ ~TakesPf(w))
  /\ ee' = (ee \/ (serial = "gone" /\ ~cmux_mode))
  /\ Return(w, IF serial = "gone" /\ ~cmux_mode THEN Length(w) ELSE 0)
  /\ UNCHANGED <<cmux_mode, stop_muxd, serial, wire, cuts, stopped>>

\* The assembling thread gets a UIH frame with the P/F bit.
PfReceived ==
  /\ ~uih_pf_bit_received /\ \E c \in Control : pc[c] = "idle"
  /\ uih_pf_bit_received' = TRUE
  /\ UNCHANGED <<flags, write_frame_lock, call, wire, cuts, stopped>>

\* The modem stops, or the port fails.
SerialFails ==
  /\ serial = "up"
  /\ serial' \in {"gone", "failing"}
  /\ UNCHANGED <<cmux_mode, stop_muxd, ee, write_frame_lock, uih_pf_bit_received, call,
                 wire, cuts, stopped>>

\* SIGUSR2: the signal handler sets stop_muxd, whoever holds the lock, ...
StopMuxd ==
  /\ ~stop_muxd
  /\ stop_muxd' = TRUE
  /\ UNCHANGED <<cmux_mode, ee, serial, write_frame_lock, uih_pf_bit_received, call,
                 wire, cuts, stopped>>

\* ... and then closes the port (shutdown_devices) under a frame being written.
shutdown_devices ==
  /\ stop_muxd /\ serial # "failing"
  /\ serial' = "failing"
  /\ UNCHANGED <<cmux_mode, stop_muxd, ee, write_frame_lock, uih_pf_bit_received, call,
                 wire, cuts, stopped>>

(***************************************************************************)
Init ==
  /\ cmux_mode \in BOOLEAN
  /\ write_frame_lock = None /\ stop_muxd = FALSE /\ uih_pf_bit_received = FALSE
  /\ ee = FALSE /\ serial = "up"
  /\ pc = [w \in Threads |-> "idle"]
  /\ written = [w \in Threads |-> 0] /\ tries = [w \in Threads |-> 0]
  /\ wire = <<>> /\ asserted = FALSE /\ cuts = 0
  /\ zeros = [w \in Threads |-> 0]
  /\ stopped = {}

Step(w) == Enter(w) \/ WriteAll(w) \/ WriteShort(w) \/ WriteFails(w)

Next ==
  \/ \E w \in Threads : Begin(w) \/ Step(w)
  \/ PfReceived \/ SerialFails \/ StopMuxd \/ shutdown_devices

\* A thread that can run does, and the lock reaches every thread that waits.
Spec ==
  /\ Init /\ [][Next]_vars
  /\ \A w \in Threads : WF_vars(Step(w))
  /\ WF_vars(shutdown_devices)

(***************************************************************************)
(* Properties.                                                             *)
(***************************************************************************)
TypeOK ==
  /\ cmux_mode \in BOOLEAN /\ stop_muxd \in BOOLEAN /\ ee \in BOOLEAN
  /\ write_frame_lock \in Threads \cup {None}
  /\ uih_pf_bit_received \in BOOLEAN /\ serial \in {"up", "gone", "failing"}
  /\ pc \in [Threads -> {"idle", "call", "prefix", "data", "postfix", "done"}]
  /\ written \in [Threads -> 0..Len_] /\ tries \in [Threads -> 0..Retries]
  /\ cuts \in 0..MaxCuts

\* Is piece k of the wire followed by the rest of its frame?
Continues(k) ==
  LET p == wire[k]
      q == wire[k + 1]
  IN  /\ q.of = p.of /\ q.from = p.from /\ q.to = p.to
      /\ <<p.part, q.part>> \in {<<"prefix", "data">>, <<"data", "postfix">>}

\* The pieces of a frame follow each other on the wire, whatever other threads
\* send, up to the piece that was cut; only the last piece of all may wait for its
\* successor, because the frame is being written or the port failed.
FramesContiguous ==
  \A k \in DOMAIN wire :
    /\ wire[k].part \in {"prefix", "data"} /\ wire[k].whole
    => \/ k < Len(wire) /\ Continues(k)
       \/ k = Len(wire) /\ (write_frame_lock = wire[k].of \/ serial # "up")

\* Where on the wire whole frames of thread w end.
FrameEnds(w) ==
  {k \in DOMAIN wire : /\ wire[k].of = w /\ wire[k].whole
                       /\ wire[k].part \in {"frame", "postfix"}}

\* Whole frames carry a chunk's bytes once, in order and without a gap, also
\* after retries; and when handle_channel_data reports that nothing remains, all
\* of them are on the wire, unless the modem is gone or the daemon was stopped.
NothingLost ==
  \A w \in Data :
    /\ \A j, k \in FrameEnds(w) : j < k => wire[j].to < wire[k].from
    /\ \A k \in FrameEnds(w) :
         /\ wire[k].from <= wire[k].to
         /\ wire[k].from # 1 => \E j \in FrameEnds(w) : wire[j].to + 1 = wire[k].from
    /\ pc[w] = "done" /\ written[w] = Len_ /\ ~ee /\ w \notin stopped
         => \E k \in FrameEnds(w) : wire[k].to = Len_

\* The value returned from handle_channel_data "must be zero": the assertion in
\* pseudo_device_read fires only after Retries failed writes of one chunk.
AssertNeedsFailures ==
  asserted => \E w \in Data : zeros[w] = Retries

\* The P/F bit is in an answer, never in the data of a channel (unless the data
\* begin like an MSC command).
PfInAnswer ==
  \A k \in DOMAIN wire : wire[k].pf => wire[k].of \in Control \cup MscLike

\* Every call returns, whatever the port does: the retries are limited, and the
\* lock is released on every path.
EveryCallReturns == []<>(\A w \in Threads : pc[w] \in {"idle", "done"})

\* Several threads write frames in pieces; what is on the line are frames, with
\* the P/F bit where it belongs.
WireSound == TypeOK /\ FramesContiguous /\ PfInAnswer

\* What the callers of write_frame are told is what happened on the line.
ReportsTrue == NothingLost /\ AssertNeedsFailures
=============================================================================
