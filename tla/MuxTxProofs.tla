----------------------------- MODULE MuxTxProofs -----------------------------
(***************************************************************************)
(* TLAPS proofs about MuxTx, for any number of channel and control threads *)
(* and any chunk length, frame length and number of retries.               *)
(***************************************************************************)
EXTENDS MuxTx, TLAPS

Writing == {"prefix", "data", "postfix"}

Pieces == [of : Threads, part : Writing \cup {"frame"}, from : Nat, to : Nat,
           whole : BOOLEAN, pf : BOOLEAN]

(***************************************************************************)
(* The inductive invariant.  First the callers ...                         *)
(***************************************************************************)

HistoryOK == /\ asserted \in BOOLEAN /\ stopped \subseteq Threads
             /\ zeros \in [Threads -> 0..Retries]

\* Who is inside write_frame has its lock, and nobody else.
LockHeld == \A w \in Threads : pc[w] \in Writing <=> write_frame_lock = w

\* A thread that is not done has something left to write and a retry left.
Pending ==
  /\ \A w \in Data : pc[w] # "done" => written[w] < Len_ /\ tries[w] < Retries
  /\ \A w \in Control : written[w] = 0

RetriesCounted == \A w \in Data : zeros[w] = tries[w]

\* A thread that was told of a frame after the stop sends no frame any more, and
\* the modem that was found gone does not come back.
NoReturn == /\ \A w \in stopped : stop_muxd /\ pc[w] \in {"call", "done"}
            /\ ee => serial # "up"

CInv == /\ TypeOK /\ HistoryOK /\ LockHeld /\ Pending /\ RetriesCounted
        /\ NoReturn /\ AssertNeedsFailures

(***************************************************************************)
(* ... then the wire.                                                      *)
(***************************************************************************)

\* The frame of piece k goes on.
Open(k) == wire[k].part \in {"prefix", "data"} /\ wire[k].whole

\* The next piece of that frame is what the holder of the lock writes next.
Expected(k) ==
  LET w == wire[k].of IN
  /\ write_frame_lock = w /\ ~cmux_mode
  /\ wire[k].from = From(w) /\ wire[k].to = To(w)
  /\ <<wire[k].part, pc[w]>> \in {<<"prefix", "data">>, <<"data", "postfix">>}

Joined ==
  /\ \A k \in 1..Len(wire) : k < Len(wire) /\ Open(k) => Continues(k)
  /\ Len(wire) > 0 /\ Open(Len(wire)) => serial # "up" \/ Expected(Len(wire))

\* The whole frames of a thread carry the bytes that it counts as written, in
\* order; all of them unless the thread was told so by a stop or a lost modem.
Sent(w) ==
  /\ \A j, k \in FrameEnds(w) : j < k => wire[j].to < wire[k].from
  /\ \A k \in FrameEnds(w) :
       /\ wire[k].from <= wire[k].to
       /\ wire[k].from # 1 => \E j \in FrameEnds(w) : wire[j].to + 1 = wire[k].from
       /\ wire[k].to <= written[w]
  /\ w \notin stopped /\ ~ee /\ written[w] > 0
       => \E k \in FrameEnds(w) : wire[k].to = written[w]

WInv == /\ wire \in Seq(Pieces) /\ Joined /\ PfInAnswer
        /\ \A w \in Data : Sent(w)

IInv == CInv /\ WInv

\* Nothing is sent yet.
LEMMA InitIInv == Init => IInv
<1> SUFFICES ASSUME Init PROVE IInv
  OBVIOUS
<1>1. TypeOK /\ HistoryOK
  <2>1. /\ cmux_mode \in BOOLEAN /\ stop_muxd \in BOOLEAN /\ ee \in BOOLEAN
        /\ uih_pf_bit_received \in BOOLEAN /\ asserted \in BOOLEAN
    BY Zenon DEF Init
  <2> QED  BY <2>1, TxAssumption DEF Init, TypeOK, HistoryOK, Threads
<1>2. LockHeld /\ Pending /\ RetriesCounted /\ NoReturn /\ AssertNeedsFailures
  BY TxAssumption DEF Init, LockHeld, Pending, RetriesCounted, NoReturn,
     AssertNeedsFailures, Threads, Writing
<1>3. WInv
  BY DEF Init, WInv, Joined, PfInAnswer, Sent, FrameEnds, Threads
<1> QED  BY <1>1, <1>2, <1>3 DEF IInv, CInv

(***************************************************************************)
(* The steps of the callers.                                               *)
(***************************************************************************)

\* The frame a thread is sending: at least one byte, and none beyond the chunk.
LEMMA FrameBytes ==
  ASSUME CInv, NEW w \in Threads, pc[w] # "done"
  PROVE  /\ From(w) \in Nat /\ To(w) \in Nat /\ Length(w) \in Nat \ {0}
         /\ From(w) = written[w] + 1 /\ From(w) <= To(w) /\ written[w] \in Nat
         /\ written[w] + Length(w) = To(w)
         /\ w \in Data => To(w) <= Len_
<1>1. CASE w \in Control
  BY <1>1, TxAssumption DEF CInv, Pending, From, To, Length
<1>2. CASE w \in Data /\ w \notin Control
  <2>1. written[w] \in Nat /\ written[w] < Len_ /\ Len_ \in Nat /\ N1 \in Nat \ {0}
    BY <1>2, TxAssumption DEF CInv, TypeOK, Pending
  <2>2. To(w) = IF Len_ - written[w] < N1 THEN Len_ ELSE written[w] + N1
    BY <1>2 DEF To
  <2> QED  BY <2>1, <2>2 DEF From, Length
<1> QED  BY <1>1, <1>2, TxAssumption DEF Threads

\* What a return of write_frame leaves behind: one thread moves on, by the bytes
\* it was told; a thread that is not done has bytes and retries left.
LEMMA ReturnCInv ==
  ASSUME CInv, NEW w \in Threads, pc[w] \in Writing \cup {"call"}, NEW n \in Nat,
         w \in Data => written[w] + n <= Len_,
         Return(w, n),
         pc[w] = "call" => write_frame_lock = None
  PROVE  /\ write_frame_lock' = None
         /\ pc' \in [Threads -> {"idle", "call", "prefix", "data", "postfix", "done"}]
         /\ written' \in [Threads -> 0..Len_] /\ tries' \in [Threads -> 0..Retries]
         /\ pc'[w] \in {"call", "done"}
         /\ \A v \in Threads \ {w} : pc'[v] = pc[v] /\ written'[v] = written[v]
         /\ w \in Data => written'[w] = written[w] + n
         /\ asserted' \in BOOLEAN /\ zeros' \in [Threads -> 0..Retries]
         /\ LockHeld' /\ Pending' /\ RetriesCounted' /\ AssertNeedsFailures'
<1>0. /\ pc \in [Threads -> {"idle", "call", "prefix", "data", "postfix", "done"}]
      /\ written \in [Threads -> 0..Len_] /\ tries \in [Threads -> 0..Retries]
      /\ zeros \in [Threads -> 0..Retries] /\ asserted \in BOOLEAN
      /\ LockHeld /\ Pending /\ RetriesCounted /\ AssertNeedsFailures
      /\ Len_ \in Nat \ {0} /\ Retries \in Nat \ {0} /\ None \notin Threads
      /\ Data \cap Control = {} /\ Threads = Data \cup Control
  BY TxAssumption DEF CInv, TypeOK, HistoryOK, Threads
<1>1. /\ write_frame_lock' = None
      /\ zeros' = [zeros EXCEPT ![w] = IF n = 0 /\ @ < Retries THEN @ + 1 ELSE @]
  BY DEF Return
<1>2. zeros' \in [Threads -> 0..Retries] /\ \A v \in Threads \ {w} : zeros'[v] = zeros[v]
  BY <1>0, <1>1
<1>3. ASSUME NEW v \in Threads, v # w PROVE pc[v] \notin Writing
  <2>1. CASE pc[w] \in Writing
    BY <1>0, <1>3, <2>1 DEF LockHeld
  <2>2. CASE pc[w] = "call"
    BY <1>0, <1>3, <2>2 DEF LockHeld
  <2> QED  BY <2>1, <2>2
<1>4. CASE w \in Control
  <2>1. pc' = [pc EXCEPT ![w] = "done"] /\ UNCHANGED <<written, tries, asserted>>
    BY <1>0, <1>4 DEF Return
  <2>2. LockHeld'
    BY <1>0, <1>1, <1>3, <2>1 DEF LockHeld, Writing
  <2>3. Pending' /\ RetriesCounted' /\ AssertNeedsFailures'
    BY <1>0, <1>2, <1>4, <2>1 DEF Pending, RetriesCounted, AssertNeedsFailures
  <2> QED  BY <2>1, <2>2, <2>3, <1>0, <1>1, <1>2, <1>4
<1>5. CASE w \in Data
  <2> DEFINE finished == written'[w] = Len_ \/ tries'[w] = Retries
  <2>1. /\ written' = [written EXCEPT ![w] = @ + n]
        /\ tries' = [tries EXCEPT ![w] = IF n = 0 THEN @ + 1 ELSE @]
        /\ pc' = [pc EXCEPT ![w] = IF finished THEN "done" ELSE "call"]
        /\ asserted' = (asserted \/ (finished /\ written'[w] # Len_))
    BY <1>5 DEF Return, handle_channel_data
  <2>2. pc[w] # "done"
    BY <1>0 DEF Writing
  <2>3. /\ written[w] \in Nat /\ written[w] < Len_ /\ tries[w] \in Nat
        /\ tries[w] < Retries /\ zeros[w] = tries[w] /\ written[w] + n <= Len_
    BY <1>0, <1>5, <2>2 DEF Pending, RetriesCounted
  <2>4. /\ written'[w] = written[w] + n /\ written' \in [Threads -> 0..Len_]
        /\ \A v \in Threads \ {w} : written'[v] = written[v]
    BY <1>0, <2>1, <2>3
  <2>5. /\ tries'[w] = zeros'[w] /\ tries'[w] \in 0..Retries
        /\ tries' \in [Threads -> 0..Retries]
        /\ \A v \in Threads \ {w} : tries'[v] = tries[v]
    BY <1>0, <1>1, <2>1, <2>3
  <2>6. /\ pc'[w] = IF finished THEN "done" ELSE "call"
        /\ pc' \in [Threads -> {"idle", "call", "prefix", "data", "postfix", "done"}]
        /\ \A v \in Threads \ {w} : pc'[v] = pc[v]
    BY <1>0, <2>1
  <2>7. asserted' \in BOOLEAN
    BY <2>1, <1>0
  <2>8. LockHeld'
    BY <1>0, <1>1, <1>3, <2>6 DEF LockHeld, Writing
  <2>9. Pending'
    <3>1. ASSUME NEW v \in Data, pc'[v] # "done"
          PROVE  written'[v] < Len_ /\ tries'[v] < Retries
      <4>1. CASE v = w
        <5>1. written'[w] # Len_ /\ tries'[w] # Retries
          BY <3>1, <4>1, <2>6
        <5> QED  BY <5>1, <4>1, <2>3, <2>4, <2>5, <1>0
      <4>2. CASE v # w
        BY <3>1, <4>2, <1>0, <2>4, <2>5, <2>6 DEF Pending
      <4> QED  BY <4>1, <4>2
    <3>2. \A v \in Control : written'[v] = 0
      BY <1>0, <1>5, <2>4 DEF Pending
    <3> QED  BY <3>1, <3>2 DEF Pending
  <2>10. RetriesCounted'
    BY <1>0, <1>2, <2>5 DEF RetriesCounted
  <2>11. AssertNeedsFailures'
    <3> SUFFICES ASSUME asserted' PROVE \E v \in Data : zeros'[v] = Retries
      BY DEF AssertNeedsFailures
    <3>1. CASE asserted
      <4>1. PICK v \in Data : zeros[v] = Retries
        BY <3>1, <1>0 DEF AssertNeedsFailures
      <4>2. v # w
        BY <4>1, <2>3, <1>0
      <4> QED  BY <4>1, <4>2, <1>2, <1>0
    <3>2. CASE finished /\ written'[w] # Len_
      BY <3>2, <2>5, <1>5
    <3> QED  BY <3>1, <3>2, <2>1
  <2> QED  BY <2>4, <2>5, <2>6, <2>7, <2>8, <2>9, <2>10, <2>11, <1>1, <1>2, <1>5
<1> QED  BY <1>4, <1>5, <1>0

\* The conjuncts of CInv' that a return leaves to its caller.
LEMMA ReturnedCInv ==
  ASSUME CInv, NEW w \in Threads, pc[w] \in Writing \cup {"call"}, NEW n \in Nat,
         w \in Data => written[w] + n <= Len_,
         Return(w, n),
         pc[w] = "call" => write_frame_lock = None,
         UNCHANGED <<cmux_mode, stop_muxd, serial>>,
         uih_pf_bit_received' \in BOOLEAN, ee' \in BOOLEAN, ee' => ee \/ serial # "up",
         cuts' \in 0..MaxCuts,
         stopped' = stopped \/ (stop_muxd /\ stopped' = stopped \cup {w})
  PROVE  CInv'
<1>0. /\ write_frame_lock' = None
      /\ pc' \in [Threads -> {"idle", "call", "prefix", "data", "postfix", "done"}]
      /\ written' \in [Threads -> 0..Len_] /\ tries' \in [Threads -> 0..Retries]
      /\ pc'[w] \in {"call", "done"}
      /\ \A v \in Threads \ {w} : pc'[v] = pc[v] /\ written'[v] = written[v]
      /\ asserted' \in BOOLEAN /\ zeros' \in [Threads -> 0..Retries]
      /\ LockHeld' /\ Pending' /\ RetriesCounted' /\ AssertNeedsFailures'
  BY ReturnCInv
<1>1. TypeOK /\ HistoryOK /\ NoReturn
  BY DEF CInv
<1>2. TypeOK'
  BY <1>0, <1>1 DEF TypeOK
<1>3. HistoryOK'
  BY <1>0, <1>1 DEF HistoryOK
<1>4. NoReturn'
  BY <1>0, <1>1 DEF NoReturn, HistoryOK
<1> QED  BY <1>0, <1>2, <1>3, <1>4 DEF CInv

\* A thread that writes one piece of several keeps the lock.
LEMMA OnwardCInv ==
  ASSUME CInv, NEW w \in Threads, pc[w] # "done",
         \/ write_frame_lock = None /\ write_frame_lock' = w /\ ~stop_muxd
         \/ write_frame_lock = w /\ write_frame_lock' = w,
         NEW part \in Writing, pc' = [pc EXCEPT ![w] = part],
         uih_pf_bit_received' \in BOOLEAN,
         UNCHANGED <<flags, written, tries, asserted, zeros, cuts, stopped>>
  PROVE  CInv'
<1>0. TypeOK /\ HistoryOK /\ LockHeld /\ Pending /\ RetriesCounted /\ NoReturn
      /\ AssertNeedsFailures /\ None \notin Threads
  BY TxAssumption DEF CInv, Threads
<1>1. TypeOK' /\ HistoryOK'
  BY <1>0 DEF TypeOK, HistoryOK, flags, Writing
<1>2. LockHeld'
  BY <1>0 DEF TypeOK, LockHeld, Writing
<1>3. Pending' /\ RetriesCounted' /\ AssertNeedsFailures'
  BY <1>0 DEF TypeOK, Pending, RetriesCounted, AssertNeedsFailures, Writing, Threads
<1>4. NoReturn'
  BY <1>0 DEF TypeOK, NoReturn, LockHeld, HistoryOK, Writing, flags
<1> QED  BY <1>1, <1>2, <1>3, <1>4 DEF CInv

\* Every step keeps the callers' part of the invariant.
LEMMA NextCInv == CInv /\ [Next]_vars => CInv'
<1> SUFFICES ASSUME CInv, [Next]_vars PROVE CInv'
  OBVIOUS
<1>0. /\ TypeOK /\ HistoryOK /\ LockHeld /\ Pending /\ RetriesCounted /\ NoReturn
      /\ AssertNeedsFailures /\ None \notin Threads /\ cuts \in 0..MaxCuts /\ MaxCuts \in Nat
      /\ uih_pf_bit_received \in BOOLEAN /\ ee \in BOOLEAN /\ 0 \in Nat /\ 1 \in Nat
  BY TxAssumption DEF CInv, Threads, TypeOK
<1>1. ASSUME NEW w \in Threads, Begin(w) PROVE CInv'
  <2>1. /\ pc[w] = "idle" /\ pc' = [pc EXCEPT ![w] = "call"]
        /\ UNCHANGED <<flags, write_frame_lock, uih_pf_bit_received, written, tries, asserted,
                       zeros, wire, cuts, stopped>>
    BY <1>1 DEF Begin
  <2>2. TypeOK' /\ HistoryOK'
    BY <1>0, <2>1 DEF TypeOK, HistoryOK, flags
  <2>3. LockHeld' /\ Pending' /\ RetriesCounted' /\ AssertNeedsFailures'
    BY <1>0, <2>1 DEF TypeOK, LockHeld, Pending, RetriesCounted, AssertNeedsFailures,
       Writing, Threads
  <2>4. NoReturn'
    BY <1>0, <2>1 DEF TypeOK, NoReturn, HistoryOK, flags
  <2> QED  BY <2>2, <2>3, <2>4 DEF CInv
<1>2. ASSUME NEW w \in Threads, Enter(w) PROVE CInv'
  <2>1. /\ pc[w] = "call" /\ write_frame_lock = None
        /\ UNCHANGED <<flags, uih_pf_bit_received, wire, cuts>>
    BY <1>2 DEF Enter
  <2>2. CASE stop_muxd /\ stopped' = stopped \cup {w} /\ Return(w, 1)
    <3>1. w \in Data => written[w] + 1 <= Len_
      BY <1>0, <2>1, TxAssumption DEF Pending, TypeOK
    <3>2. UNCHANGED <<cmux_mode, stop_muxd, serial, ee, uih_pf_bit_received, cuts>>
      BY <2>1 DEF flags
    <3> QED  BY <1>0, <2>1, <2>2, <3>1, <3>2, ReturnedCInv
  <2>3. CASE ~stop_muxd /\ write_frame_lock' = w /\ pc' = [pc EXCEPT ![w] = "prefix"]
             /\ UNCHANGED <<written, tries, asserted, zeros, stopped>>
    <3>1. "prefix" \in Writing /\ pc[w] # "done" /\ uih_pf_bit_received' \in BOOLEAN
      BY <1>0, <2>1 DEF Writing
    <3>2. UNCHANGED <<flags, written, tries, asserted, zeros, cuts, stopped>>
      BY <2>1, <2>3
    <3> QED  BY <2>1, <2>3, <3>1, <3>2, OnwardCInv
  <2> QED  BY <1>2, <2>2, <2>3 DEF Enter
<1>3. ASSUME NEW w \in Threads, WriteAll(w) PROVE CInv'
  <2>1. /\ pc[w] \in Writing /\ UNCHANGED <<flags, cuts, stopped>>
        /\ uih_pf_bit_received' = (uih_pf_bit_received /\ ~TakesPf(w))
    BY <1>3 DEF WriteAll, Writing
  <2>2. pc[w] # "done" /\ pc[w] # "call" /\ uih_pf_bit_received' \in BOOLEAN
    BY <1>0, <2>1 DEF Writing
  <2>3. CASE Return(w, Length(w))
    <3>1. Length(w) \in Nat /\ (w \in Data => written[w] + Length(w) <= Len_)
      BY <2>2, FrameBytes
    <3>2. UNCHANGED <<cmux_mode, stop_muxd, serial, ee, cuts, stopped>>
      BY <2>1 DEF flags
    <3> QED  BY <1>0, <2>1, <2>2, <2>3, <3>1, <3>2, ReturnedCInv
  <2>4. CASE ~(pc[w] = "postfix" \/ cmux_mode)
    <3>1. /\ pc' = [pc EXCEPT ![w] = NextPart(w)]
          /\ UNCHANGED <<write_frame_lock, written, tries, asserted, zeros>>
      BY <1>3, <2>4 DEF WriteAll
    <3>2. NextPart(w) \in Writing
      BY <2>1, <2>4, <1>0 DEF NextPart, Writing, TypeOK
    <3>3. write_frame_lock = w
      BY <1>0, <2>1 DEF LockHeld
    <3> QED  BY <2>1, <2>2, <3>1, <3>2, <3>3, OnwardCInv
  <2> QED  BY <1>3, <2>3, <2>4 DEF WriteAll
<1>4. ASSUME NEW w \in Threads, WriteShort(w) \/ WriteFails(w) PROVE CInv'
  <2>1. /\ pc[w] \in Writing /\ UNCHANGED <<cmux_mode, stop_muxd, serial, stopped>>
        /\ uih_pf_bit_received' = (uih_pf_bit_received /\ ~TakesPf(w))
        /\ ee' = ee \/ (ee' = (ee \/ (serial = "gone" /\ ~cmux_mode)) /\ serial # "up")
        /\ cuts' = cuts \/ (cuts < MaxCuts /\ cuts' = cuts + 1)
        /\ Return(w, 0) \/ Return(w, Length(w))
    BY <1>4 DEF WriteShort, WriteFails, flags, Writing
  <2>2. pc[w] # "done" /\ pc[w] # "call" /\ uih_pf_bit_received' \in BOOLEAN
    BY <1>0, <2>1 DEF Writing
  <2>3. cuts' \in 0..MaxCuts /\ ee' \in BOOLEAN /\ (ee' => ee \/ serial # "up")
    <3>1. cuts' \in 0..MaxCuts
      BY <1>0, <2>1
    <3>2. ee' \in BOOLEAN /\ (ee' => ee \/ serial # "up")
      <4>1. CASE ee' = ee
        BY <4>1, <1>0
      <4>2. CASE ee' = (ee \/ (serial = "gone" /\ ~cmux_mode)) /\ serial # "up"
        BY <4>2
      <4> QED  BY <4>1, <4>2, <2>1
    <3> QED  BY <3>1, <3>2
  <2>4. /\ Length(w) \in Nat /\ (w \in Data => written[w] + Length(w) <= Len_)
        /\ w \in Data => written[w] + 0 <= Len_
    BY <2>2, FrameBytes, TxAssumption
  <2>5. CASE Return(w, 0)
    BY <1>0, <2>1, <2>2, <2>3, <2>4, <2>5, ReturnedCInv
  <2>6. CASE Return(w, Length(w))
    BY <1>0, <2>1, <2>2, <2>3, <2>4, <2>6, ReturnedCInv
  <2> QED  BY <2>1, <2>5, <2>6
<1>5. CASE PfReceived \/ SerialFails \/ StopMuxd \/ shutdown_devices
  <2>1. /\ UNCHANGED <<write_frame_lock, call, wire, cuts, stopped, cmux_mode, ee>>
        /\ stop_muxd' \in BOOLEAN /\ uih_pf_bit_received' \in BOOLEAN
        /\ stop_muxd => stop_muxd'
        /\ serial' \in {"up", "gone", "failing"} /\ (serial # "up" => serial' # "up")
    BY <1>0, <1>5 DEF PfReceived, SerialFails, StopMuxd, shutdown_devices, flags, TypeOK
  <2>2. UNCHANGED <<pc, written, tries, asserted, zeros>>
    BY <2>1 DEF call
  <2>3. TypeOK' /\ HistoryOK'
    BY <1>0, <2>1, <2>2 DEF TypeOK, HistoryOK
  <2>4. LockHeld' /\ Pending' /\ RetriesCounted' /\ AssertNeedsFailures'
    BY <1>0, <2>1, <2>2 DEF LockHeld, Pending, RetriesCounted, AssertNeedsFailures
  <2>5. NoReturn'
    BY <1>0, <2>1, <2>2 DEF NoReturn
  <2> QED  BY <2>3, <2>4, <2>5 DEF CInv
<1>6. CASE UNCHANGED vars
  <2>1. UNCHANGED <<write_frame_lock, pc, written, tries, asserted, zeros, wire, cuts, stopped,
                    cmux_mode, ee, stop_muxd, uih_pf_bit_received, serial>>
    BY <1>6 DEF vars, flags, call
  <2> QED  BY <1>0, <2>1 DEF CInv, TypeOK, HistoryOK, LockHeld, Pending, RetriesCounted,
              AssertNeedsFailures, NoReturn
<1> QED  BY <1>1, <1>2, <1>3, <1>4, <1>5, <1>6 DEF Next, Step

(***************************************************************************)
(* The steps on the wire.                                                  *)
(***************************************************************************)

\* One more piece at the end of the wire.
LEMMA AppendPiece ==
  ASSUME NEW s \in Seq(Pieces), NEW p \in Pieces
  PROVE  /\ Append(s, p) \in Seq(Pieces) /\ Len(s) \in Nat
         /\ Len(Append(s, p)) = Len(s) + 1
         /\ DOMAIN s = 1..Len(s) /\ DOMAIN Append(s, p) = 1..(Len(s) + 1)
         /\ \A k \in 1..Len(s) : Append(s, p)[k] = s[k]
         /\ Append(s, p)[Len(s) + 1] = p
OBVIOUS

\* What one write() of thread w puts on the wire.
Written(w, p) ==
  /\ p \in Pieces /\ p.of = w /\ p.from = From(w) /\ p.to = To(w)
  /\ p.part = IF cmux_mode THEN "frame" ELSE pc[w]
  /\ p.pf => w \in Control \cup MscLike

\* The piece that Piece builds, with the P/F bit as TakesPf says.
LEMMA PieceWritten ==
  ASSUME CInv, NEW w \in Threads, pc[w] \in Writing, NEW whole \in BOOLEAN,
         NEW part, part = IF cmux_mode THEN "frame" ELSE pc[w]
  PROVE  /\ Written(w, Piece(w, part, whole)) /\ Piece(w, part, whole).whole = whole
         /\ Written(w, [Piece(w, part, whole) EXCEPT !.pf = TakesPf(w)])
         /\ [Piece(w, part, whole) EXCEPT !.pf = TakesPf(w)].whole = whole
<1>1. From(w) \in Nat /\ To(w) \in Nat
  BY FrameBytes DEF Writing
<1>2. part \in Writing \cup {"frame"}
  OBVIOUS
<1>3. TakesPf(w) \in BOOLEAN /\ (TakesPf(w) => w \in Control \cup MscLike)
  BY DEF TakesPf, CInv, TypeOK
<1>4. Piece(w, part, whole) =
        [of |-> w, part |-> part, from |-> From(w), to |-> To(w), whole |-> whole, pf |-> FALSE]
  BY DEF Piece
<1>5. [Piece(w, part, whole) EXCEPT !.pf = TakesPf(w)] =
        [of |-> w, part |-> part, from |-> From(w), to |-> To(w), whole |-> whole,
         pf |-> TakesPf(w)]
  BY <1>4
<1>6. ASSUME NEW b \in BOOLEAN
      PROVE  [of |-> w, part |-> part, from |-> From(w), to |-> To(w), whole |-> whole,
              pf |-> b] \in Pieces
  BY <1>1, <1>2 DEF Pieces
<1>7. /\ Piece(w, part, whole) \in Pieces
      /\ [Piece(w, part, whole) EXCEPT !.pf = TakesPf(w)] \in Pieces
  BY <1>3, <1>4, <1>5, <1>6
<1> QED  BY <1>3, <1>4, <1>5, <1>7 DEF Written

\* A piece that the holder of the lock writes continues the frame that is open, if
\* one is, and every frame before stays as it was.
LEMMA PieceFits ==
  ASSUME CInv, WInv, NEW w \in Threads, pc[w] \in Writing, serial = "up",
         NEW p, Written(w, p), wire' = Append(wire, p)
  PROVE  /\ wire' \in Seq(Pieces) /\ Len(wire') = Len(wire) + 1 /\ Len(wire) \in Nat
         /\ DOMAIN wire' = 1..(Len(wire) + 1) /\ DOMAIN wire = 1..Len(wire)
         /\ \A k \in 1..Len(wire) : wire'[k] = wire[k]
         /\ wire'[Len(wire) + 1] = p
         /\ \A k \in 1..Len(wire') : k < Len(wire') /\ Open(k)' => Continues(k)'
         /\ PfInAnswer'
<1>0. wire \in Seq(Pieces) /\ Joined /\ PfInAnswer /\ p \in Pieces
  BY DEF WInv, Written
<1>1. /\ wire' \in Seq(Pieces) /\ Len(wire) \in Nat /\ Len(wire') = Len(wire) + 1
      /\ DOMAIN wire = 1..Len(wire) /\ DOMAIN wire' = 1..(Len(wire) + 1)
      /\ \A k \in 1..Len(wire) : wire'[k] = wire[k]
      /\ wire'[Len(wire) + 1] = p
  BY <1>0, AppendPiece
<1>2. ASSUME NEW k \in 1..Len(wire), Open(k)' PROVE Continues(k)'
  <2>1. wire'[k] = wire[k] /\ Open(k)
    BY <1>1, <1>2 DEF Open
  <2>2. CASE k < Len(wire)
    <3>1. k + 1 \in 1..Len(wire)
      BY <1>1, <2>2
    <3>2. wire'[k + 1] = wire[k + 1] /\ Continues(k)
      BY <1>0, <1>1, <2>1, <2>2, <3>1 DEF Joined
    <3> QED  BY <2>1, <3>2 DEF Continues
  <2>3. CASE k = Len(wire)
    <3>1. Expected(k)
      BY <1>0, <1>1, <2>1, <2>3 DEF Joined
    <3>2. write_frame_lock = w
      BY DEF CInv, LockHeld
    <3>3. wire'[k + 1] = p
      BY <1>1, <2>3
    <3>4. /\ wire[k].of = w /\ ~cmux_mode /\ wire[k].from = From(w) /\ wire[k].to = To(w)
          /\ <<wire[k].part, pc[w]>> \in {<<"prefix", "data">>, <<"data", "postfix">>}
      BY <3>1, <3>2 DEF Expected
    <3>5. p.of = w /\ p.from = From(w) /\ p.to = To(w) /\ p.part = pc[w]
      BY <3>4 DEF Written
    <3> QED  BY <2>1, <3>3, <3>4, <3>5 DEF Continues
  <2>4. k < Len(wire) \/ k = Len(wire)
    <3>1. Len(wire) \in Nat
      BY <1>1
    <3> QED  BY <3>1
  <2> QED  BY <2>2, <2>3, <2>4
<1>3. \A k \in 1..Len(wire') : k < Len(wire') => k \in 1..Len(wire)
  BY <1>1
<1>4. PfInAnswer'
  <2>1. ASSUME NEW k \in 1..(Len(wire) + 1), wire'[k].pf
        PROVE  wire'[k].of \in Control \cup MscLike
    <3>1. CASE k \in 1..Len(wire)
      BY <3>1, <2>1, <1>0, <1>1 DEF PfInAnswer
    <3>2. CASE k = Len(wire) + 1
      BY <3>2, <2>1, <1>1 DEF Written
    <3> QED  BY <3>1, <3>2, <1>1
  <2> QED  BY <2>1, <1>1 DEF PfInAnswer
<1> QED  BY <1>1, <1>2, <1>3, <1>4

\* Where frames end on a wire that got one more piece.
LEMMA FrameEndsAppend ==
  ASSUME NEW v, NEW p, Len(wire) \in Nat,
         DOMAIN wire' = 1..(Len(wire) + 1), DOMAIN wire = 1..Len(wire),
         \A k \in 1..Len(wire) : wire'[k] = wire[k],
         wire'[Len(wire) + 1] = p
  PROVE  /\ FrameEnds(v) \subseteq 1..Len(wire)
         /\ p.of = v /\ p.whole /\ p.part \in {"frame", "postfix"}
              => FrameEnds(v)' = FrameEnds(v) \cup {Len(wire) + 1}
         /\ ~(p.of = v /\ p.whole /\ p.part \in {"frame", "postfix"})
              => FrameEnds(v)' = FrameEnds(v)
<1>1. \A k \in 1..(Len(wire) + 1) : k \in 1..Len(wire) \/ k = Len(wire) + 1
  OBVIOUS
<1>2. Len(wire) + 1 \notin 1..Len(wire) /\ 1..Len(wire) \subseteq 1..(Len(wire) + 1)
      /\ Len(wire) + 1 \in 1..(Len(wire) + 1)
  OBVIOUS
<1> QED  BY <1>1, <1>2 DEF FrameEnds

\* A piece at the end of a frame carries the numbers of bytes.
LEMMA PieceOfWire ==
  ASSUME WInv, NEW v, NEW k \in FrameEnds(v)
  PROVE  wire[k].to \in Nat /\ wire[k].from \in Nat
<1>1. wire \in Seq(Pieces) /\ k \in DOMAIN wire
  BY DEF WInv, FrameEnds
<1>2. wire[k] \in Pieces
  BY <1>1
<1> QED  BY <1>2 DEF Pieces

\* A thread whose frames on the wire are the same as before: what it counts as
\* written grows only when it was stopped or the modem is gone.
LEMMA SentStays ==
  ASSUME CInv, WInv, CInv', NEW v \in Data, Sent(v),
         FrameEnds(v)' = FrameEnds(v), \A k \in FrameEnds(v) : wire'[k] = wire[k],
         written[v] <= written'[v],
         v \notin stopped' /\ ~ee' => v \notin stopped /\ ~ee /\ written'[v] = written[v]
  PROVE  Sent(v)'
<1>1. written[v] \in Nat /\ written'[v] \in Nat
  BY DEF CInv, TypeOK, Threads
<1>2. \A k \in FrameEnds(v) : wire[k].to \in Nat
  BY PieceOfWire
<1>3. \A j, k \in FrameEnds(v)' : j < k => wire'[j].to < wire'[k].from
  BY DEF Sent
<1>4. ASSUME NEW k \in FrameEnds(v)'
      PROVE  /\ wire'[k].from <= wire'[k].to
             /\ wire'[k].from # 1 => \E j \in FrameEnds(v)' : wire'[j].to + 1 = wire'[k].from
             /\ wire'[k].to <= written'[v]
  BY <1>1, <1>2 DEF Sent
<1>5. v \notin stopped' /\ ~ee' /\ written'[v] > 0
        => \E k \in FrameEnds(v)' : wire'[k].to = written'[v]
  BY DEF Sent
<1> QED  BY <1>3, <1>4, <1>5 DEF Sent

\* The thread whose frame has just ended: its bytes are the next ones.
LEMMA SentGrows ==
  ASSUME CInv, WInv, CInv', NEW w \in Data, Sent(w), pc[w] \in Writing, serial = "up",
         NEW p, p.from = From(w), p.to = To(w), Len(wire) \in Nat,
         FrameEnds(w) \subseteq 1..Len(wire),
         FrameEnds(w)' = FrameEnds(w) \cup {Len(wire) + 1},
         \A k \in FrameEnds(w) : wire'[k] = wire[k],
         wire'[Len(wire) + 1] = p,
         written'[w] = To(w)
  PROVE  Sent(w)'
<1> DEFINE n == Len(wire) + 1
<1>1. /\ From(w) \in Nat /\ To(w) \in Nat /\ From(w) = written[w] + 1 /\ From(w) <= To(w)
      /\ written[w] \in Nat
  BY FrameBytes DEF Writing, Threads
<1>2. w \notin stopped /\ ~ee
  BY DEF CInv, NoReturn, Writing
<1>3. ASSUME NEW k \in FrameEnds(w)
      PROVE  /\ wire[k].to \in Nat /\ wire[k].from \in Nat /\ wire[k].to <= written[w]
             /\ k < n /\ k # n /\ k \in Nat
  <2>1. wire[k].to \in Nat /\ wire[k].from \in Nat
    BY PieceOfWire
  <2>2. wire[k].to <= written[w]
    BY DEF Sent
  <2> QED  BY <2>1, <2>2
<1> HIDE DEF n
<1>4. wire'[n] = p /\ FrameEnds(w)' = FrameEnds(w) \cup {n} /\ n \in Nat
  BY DEF n
<1>5. ASSUME NEW j \in FrameEnds(w)', NEW k \in FrameEnds(w)', j < k
      PROVE  wire'[j].to < wire'[k].from
  <2>1. j \in FrameEnds(w)
    BY <1>3, <1>4, <1>5
  <2>2. CASE k \in FrameEnds(w)
    BY <2>1, <2>2, <1>5 DEF Sent
  <2>3. CASE k = n
    BY <2>1, <2>3, <1>1, <1>3, <1>4
  <2> QED  BY <2>2, <2>3, <1>4
<1>6. ASSUME NEW k \in FrameEnds(w)'
      PROVE  /\ wire'[k].from <= wire'[k].to
             /\ wire'[k].from # 1 => \E j \in FrameEnds(w)' : wire'[j].to + 1 = wire'[k].from
             /\ wire'[k].to <= written'[w]
  <2>1. CASE k \in FrameEnds(w)
    <3>1. /\ wire[k].from <= wire[k].to
          /\ wire[k].from # 1 => \E j \in FrameEnds(w) : wire[j].to + 1 = wire[k].from
      BY <2>1 DEF Sent
    <3>2. wire'[k] = wire[k] /\ wire[k].to <= written'[w]
      BY <2>1, <1>1, <1>3
    <3> QED  BY <3>1, <3>2, <1>4
  <2>2. CASE k = n
    <3>1. CASE written[w] = 0
      BY <3>1, <2>2, <1>1, <1>4
    <3>2. CASE written[w] > 0
      <4>1. PICK j \in FrameEnds(w) : wire[j].to = written[w]
        BY <3>2, <1>2 DEF Sent
      <4>2. wire'[j].to + 1 = p.from /\ j \in FrameEnds(w)'
        BY <4>1, <1>1, <1>4
      <4> QED  BY <4>2, <2>2, <1>1, <1>4
    <3> QED  BY <3>1, <3>2, <1>1
  <2> QED  BY <2>1, <2>2, <1>4
<1>7. \E k \in FrameEnds(w)' : wire'[k].to = written'[w]
  BY <1>4
<1> QED  BY <1>5, <1>6, <1>7 DEF Sent

\* Every step keeps the wire's part of the invariant.
LEMMA NextWInv == IInv /\ [Next]_vars => WInv'
<1> SUFFICES ASSUME IInv, [Next]_vars PROVE WInv'
  OBVIOUS
<1>0. CInv /\ WInv /\ CInv'
  BY NextCInv DEF IInv
<1>1. /\ wire \in Seq(Pieces) /\ Joined /\ PfInAnswer /\ \A v \in Data : Sent(v)
      /\ LockHeld /\ None \notin Threads /\ Data \subseteq Threads
  BY <1>0, TxAssumption DEF WInv, CInv, Threads
<1>t. /\ written \in [Threads -> 0..Len_] /\ Len_ \in Nat
      /\ \A v \in Threads : written[v] \in Nat
  BY <1>0, TxAssumption DEF CInv, TypeOK
<1>2. ASSUME NEW w \in Threads, WriteAll(w) \/ WriteShort(w) PROVE WInv'
  <2> DEFINE part == IF cmux_mode THEN "frame" ELSE pc[w]
             N == Len(wire) + 1
  <2>1. pc[w] \in Writing /\ serial = "up" /\ pc[w] # "done" /\ pc[w] # "call"
    BY <1>2 DEF WriteAll, WriteShort, Writing
  <2>2. PICK p : /\ Written(w, p) /\ wire' = Append(wire, p)
                 /\ p.whole => WriteAll(w)
                 /\ ~p.whole => Return(w, 0) /\ ee' = ee /\ stopped' = stopped
    <3>1. CASE WriteAll(w)
      <4>1. wire' = Append(wire, [Piece(w, part, TRUE) EXCEPT !.pf = TakesPf(w)])
        BY <3>1 DEF WriteAll
      <4>2. /\ Written(w, [Piece(w, part, TRUE) EXCEPT !.pf = TakesPf(w)])
            /\ [Piece(w, part, TRUE) EXCEPT !.pf = TakesPf(w)].whole = TRUE
        BY <1>0, <2>1, PieceWritten
      <4> QED  BY <3>1, <4>1, <4>2
    <3>2. CASE WriteShort(w)
      <4>1. /\ wire' = Append(wire, Piece(w, part, FALSE)) /\ Return(w, 0)
            /\ ee' = ee /\ stopped' = stopped
        BY <3>2 DEF WriteShort, flags
      <4>2. Written(w, Piece(w, part, FALSE)) /\ Piece(w, part, FALSE).whole = FALSE
        BY <1>0, <2>1, PieceWritten
      <4> QED  BY <4>1, <4>2
    <3> QED  BY <1>2, <3>1, <3>2
  <2>3. /\ wire' \in Seq(Pieces) /\ Len(wire') = N /\ Len(wire) \in Nat
        /\ DOMAIN wire' = 1..N /\ DOMAIN wire = 1..Len(wire)
        /\ \A k \in 1..Len(wire) : wire'[k] = wire[k]
        /\ wire'[N] = p
        /\ \A k \in 1..Len(wire') : k < Len(wire') /\ Open(k)' => Continues(k)'
        /\ PfInAnswer'
    BY <1>0, <2>1, <2>2, PieceFits
  <2>4. /\ p.of = w /\ p.from = From(w) /\ p.to = To(w)
        /\ p.part = IF cmux_mode THEN "frame" ELSE pc[w]
    BY <2>2 DEF Written
  <2>5. ASSUME NEW v \in Data
        PROVE  /\ FrameEnds(v) \subseteq 1..Len(wire)
               /\ p.of = v /\ p.whole /\ p.part \in {"frame", "postfix"}
                    => FrameEnds(v)' = FrameEnds(v) \cup {N}
               /\ ~(p.of = v /\ p.whole /\ p.part \in {"frame", "postfix"})
                    => FrameEnds(v)' = FrameEnds(v)
    BY <2>3, FrameEndsAppend
  <2>6. \A v \in Data : \A k \in FrameEnds(v) : wire'[k] = wire[k]
    BY <2>3, <2>5
  <2>7. ASSUME ~p.whole PROVE WInv'
    <3>1. Return(w, 0) /\ ee' = ee /\ stopped' = stopped
      BY <2>2, <2>7
    <3>2. w \in Data => written[w] + 0 <= Len_
      BY <1>t
    <3>3. /\ \A v \in Threads \ {w} : written'[v] = written[v]
          /\ w \in Data => written'[w] = written[w] + 0
      BY <1>0, <2>1, <3>1, <3>2, ReturnCInv
    <3>4. \A v \in Data : written'[v] = written[v] /\ written[v] <= written'[v]
      BY <1>1, <1>t, <3>3
    <3>5. \A v \in Data : FrameEnds(v)' = FrameEnds(v)
      BY <2>5, <2>7
    <3>6. ASSUME NEW v \in Data PROVE Sent(v)'
      BY <1>0, <1>1, <2>6, <3>1, <3>4, <3>5, SentStays
    <3>7. Joined'
      <4>1. ~wire'[Len(wire')].whole
        BY <2>3, <2>7
      <4> QED  BY <2>3, <4>1 DEF Joined, Open
    <3> QED  BY <2>3, <3>6, <3>7 DEF WInv
  <2>8. ASSUME p.whole, pc[w] = "postfix" \/ cmux_mode PROVE WInv'
    <3>1. Return(w, Length(w)) /\ ee' = ee /\ stopped' = stopped
      BY <2>2, <2>8 DEF WriteAll, flags
    <3>2. /\ Length(w) \in Nat /\ written[w] + Length(w) = To(w)
          /\ w \in Data => written[w] + Length(w) <= Len_
      BY <1>0, <2>1, FrameBytes
    <3>3. /\ \A v \in Threads \ {w} : written'[v] = written[v]
          /\ w \in Data => written'[w] = written[w] + Length(w)
      BY <1>0, <2>1, <3>1, <3>2, ReturnCInv
    <3>4. p.part \in {"frame", "postfix"}
      BY <2>4, <2>8
    <3>5. ASSUME NEW v \in Data PROVE Sent(v)'
      <4>1. CASE v = w
        <5>1. FrameEnds(w) \subseteq 1..Len(wire) /\ FrameEnds(w)' = FrameEnds(w) \cup {N}
          BY <4>1, <2>4, <2>5, <2>8, <3>4
        <5>2. written'[w] = To(w)
          BY <4>1, <3>2, <3>3
        <5> QED  BY <4>1, <5>1, <5>2, <1>0, <1>1, <2>1, <2>3, <2>4, <2>6, SentGrows
      <4>2. CASE v # w
        <5>1. FrameEnds(v)' = FrameEnds(v)
          BY <4>2, <2>4, <2>5
        <5>2. written'[v] = written[v] /\ written[v] <= written'[v]
          BY <1>1, <1>t, <3>3, <4>2
        <5> QED  BY <5>1, <5>2, <1>0, <1>1, <2>6, <3>1, SentStays
      <4> QED  BY <4>1, <4>2
    <3>6. Joined'
      <4>1. wire'[Len(wire')].part \notin {"prefix", "data"}
        BY <2>3, <3>4
      <4> QED  BY <2>3, <4>1 DEF Joined, Open
    <3> QED  BY <2>3, <3>5, <3>6 DEF WInv
  <2>9. ASSUME p.whole, ~(pc[w] = "postfix" \/ cmux_mode) PROVE WInv'
    <3>1. /\ pc' = [pc EXCEPT ![w] = NextPart(w)]
          /\ UNCHANGED <<write_frame_lock, written, ee, stopped, cmux_mode>>
      BY <2>2, <2>9 DEF WriteAll, flags
    <3>2. p.part = pc[w] /\ p.part \in {"prefix", "data"}
      BY <2>1, <2>4, <2>9 DEF Writing
    <3>3. ASSUME NEW v \in Data PROVE Sent(v)'
      <4>1. FrameEnds(v)' = FrameEnds(v)
        BY <2>5, <3>2
      <4>2. written'[v] = written[v] /\ written[v] <= written'[v]
        BY <1>1, <1>t, <3>1
      <4> QED  BY <4>1, <4>2, <1>0, <1>1, <2>6, <3>1, SentStays
    <3>4. Joined'
      <4>1. write_frame_lock' = w
        BY <1>1, <2>1, <3>1 DEF LockHeld
      <4>2. pc'[w] = NextPart(w)
        BY <1>0, <3>1 DEF CInv, TypeOK
      <4>3. <<pc[w], NextPart(w)>> \in {<<"prefix", "data">>, <<"data", "postfix">>}
        BY <2>9, <3>2 DEF NextPart
      <4>4. /\ p.from = written'[w] + 1
            /\ p.to = IF w \in Control THEN 1
                      ELSE IF Len_ - written'[w] < N1 THEN Len_ ELSE written'[w] + N1
        BY <2>4, <3>1 DEF From, To
      <4>5. ~cmux_mode' /\ wire'[Len(wire')] = p
        BY <2>3, <2>9, <3>1
      <4>6. Expected(Len(wire))'
        BY <4>1, <4>2, <4>3, <4>4, <4>5, <2>4, <3>2 DEF Expected, From, To
      <4> QED  BY <2>3, <4>6 DEF Joined
    <3> QED  BY <2>3, <3>3, <3>4 DEF WInv
  <2> QED  BY <2>7, <2>8, <2>9
<1>3. ASSUME wire' = wire,
             \A v \in Data : /\ written[v] <= written'[v]
                             /\ v \notin stopped' /\ ~ee' =>
                                  v \notin stopped /\ ~ee /\ written'[v] = written[v],
             \/ serial' # "up"
             \/ serial = "up" /\ (write_frame_lock = None \/
                                  UNCHANGED <<write_frame_lock, cmux_mode, pc, written>>)
      PROVE  WInv'
  <2>1. PfInAnswer'
    BY <1>1, <1>3 DEF PfInAnswer
  <2>2. \A v \in Data : FrameEnds(v)' = FrameEnds(v)
    BY <1>3 DEF FrameEnds
  <2>3. ASSUME NEW v \in Data PROVE Sent(v)'
    BY <1>0, <1>1, <1>3, <2>2, SentStays
  <2>4. Joined'
    <3>1. \A k \in 1..Len(wire') : k < Len(wire') /\ Open(k)' => Continues(k)'
      BY <1>1, <1>3 DEF Joined, Open, Continues
    <3>2. ASSUME Len(wire') > 0, Open(Len(wire))', serial' = "up" PROVE Expected(Len(wire))'
      <4>1. Expected(Len(wire)) /\ serial = "up"
        BY <1>1, <1>3, <3>2 DEF Joined, Open
      <4>2. wire[Len(wire)].of \in Threads
        <5>1. Len(wire) \in 1..Len(wire)
          BY <1>1, <1>3, <3>2
        <5>2. wire[Len(wire)] \in Pieces
          BY <5>1, <1>1
        <5> QED  BY <5>2 DEF Pieces
      <4>3. write_frame_lock # None
        BY <4>1, <4>2, <1>1 DEF Expected
      <4>4. UNCHANGED <<write_frame_lock, cmux_mode, pc, written>>
        BY <1>3, <3>2, <4>3
      <4> QED  BY <4>1, <4>4, <1>3 DEF Expected, From, To
    <3> QED  BY <3>1, <3>2 DEF Joined
  <2> QED  BY <1>1, <1>3, <2>1, <2>3, <2>4 DEF WInv
<1>4. ASSUME NEW w \in Threads, Begin(w) PROVE WInv'
  <2>1. /\ pc[w] = "idle" /\ pc' = [pc EXCEPT ![w] = "call"]
        /\ UNCHANGED <<cmux_mode, ee, serial, write_frame_lock, written, wire, stopped>>
    BY <1>4 DEF Begin, flags
  <2>2. ASSUME serial = "up", Len(wire) > 0, Open(Len(wire)) PROVE Expected(Len(wire))'
    <3>1. Expected(Len(wire))
      BY <1>1, <2>2 DEF Joined
    <3>2. wire[Len(wire)].of # w
      BY <2>1, <3>1 DEF Expected
    <3>3. pc'[wire[Len(wire)].of] = pc[wire[Len(wire)].of]
      BY <1>0, <2>1, <3>2 DEF CInv, TypeOK
    <3> QED  BY <2>1, <3>1, <3>3 DEF Expected, From, To
  <2>3. Joined'
    BY <1>1, <2>1, <2>2 DEF Joined, Open, Continues
  <2>4. PfInAnswer'
    BY <1>1, <2>1 DEF PfInAnswer
  <2>5. \A v \in Data : FrameEnds(v)' = FrameEnds(v)
    BY <2>1 DEF FrameEnds
  <2>6. \A v \in Data : written'[v] = written[v] /\ written[v] <= written'[v]
    BY <1>1, <1>t, <2>1
  <2>7. ASSUME NEW v \in Data PROVE Sent(v)'
    BY <1>0, <1>1, <2>1, <2>5, <2>6, SentStays
  <2> QED  BY <1>1, <2>1, <2>3, <2>4, <2>7 DEF WInv
<1>5. ASSUME NEW w \in Threads, Enter(w) PROVE WInv'
  <2>1. /\ pc[w] = "call" /\ write_frame_lock = None
        /\ UNCHANGED <<cmux_mode, ee, serial, wire>>
    BY <1>5 DEF Enter, flags
  <2>2. CASE stop_muxd /\ stopped' = stopped \cup {w} /\ Return(w, 1)
    <3>1. w \in Data => written[w] + 1 <= Len_
      BY <1>0, <1>t, <2>1 DEF CInv, Pending
    <3>2. /\ \A v \in Threads \ {w} : written'[v] = written[v]
          /\ w \in Data => written'[w] = written[w] + 1
      BY <1>0, <2>1, <2>2, <3>1, ReturnCInv
    <3>3. \A v \in Data : /\ written[v] <= written'[v]
                          /\ v \notin stopped' => v # w /\ written'[v] = written[v]
      BY <1>1, <1>t, <2>2, <3>2
    <3> QED  BY <1>3, <2>1, <2>2, <3>3
  <2>3. CASE ~stop_muxd /\ UNCHANGED <<written, stopped>>
    <3>1. \A v \in Data : written[v] <= written'[v]
      BY <1>1, <1>t, <2>3
    <3> QED  BY <1>3, <2>1, <2>3, <3>1
  <2> QED  BY <1>5, <2>2, <2>3 DEF Enter
<1>6. ASSUME NEW w \in Threads, WriteFails(w) PROVE WInv'
  <2>1. /\ pc[w] \in Writing /\ serial # "up" /\ UNCHANGED <<serial, wire, stopped>>
        /\ pc[w] # "done" /\ pc[w] # "call"
        /\ \/ Return(w, 0) /\ (~ee' => ~ee)
           \/ Return(w, Length(w)) /\ ee'
    BY <1>6 DEF WriteFails, Writing
  <2>2. /\ Length(w) \in Nat /\ (w \in Data => written[w] + Length(w) <= Len_)
        /\ (w \in Data => written[w] + 0 <= Len_) /\ 0 \in Nat
    BY <1>0, <1>t, <2>1, FrameBytes
  <2>3. CASE Return(w, 0) /\ (~ee' => ~ee)
    <3>1. /\ \A v \in Threads \ {w} : written'[v] = written[v]
          /\ w \in Data => written'[w] = written[w] + 0
      BY <1>0, <2>1, <2>2, <2>3, ReturnCInv
    <3>2. \A v \in Data : written[v] <= written'[v] /\ written'[v] = written[v]
      BY <1>1, <1>t, <3>1
    <3> QED  BY <1>3, <2>1, <2>3, <3>2
  <2>4. CASE Return(w, Length(w)) /\ ee'
    <3>1. /\ \A v \in Threads \ {w} : written'[v] = written[v]
          /\ w \in Data => written'[w] = written[w] + Length(w)
      BY <1>0, <2>1, <2>2, <2>4, ReturnCInv
    <3>2. \A v \in Data : written[v] <= written'[v]
      BY <1>1, <1>t, <2>2, <3>1
    <3> QED  BY <1>3, <2>1, <2>4, <3>2
  <2> QED  BY <2>1, <2>3, <2>4
<1>7. CASE PfReceived \/ SerialFails \/ StopMuxd \/ shutdown_devices \/ UNCHANGED vars
  <2>1. /\ UNCHANGED <<write_frame_lock, pc, written, wire, stopped, cmux_mode, ee>>
        /\ serial' = serial \/ serial' # "up"
    BY <1>7 DEF PfReceived, SerialFails, StopMuxd, shutdown_devices, flags, call, vars
  <2>2. \A v \in Data : written[v] <= written'[v]
    BY <1>1, <1>t, <2>1
  <2> QED  BY <1>3, <2>1, <2>2
<1> QED  BY <1>2, <1>4, <1>5, <1>6, <1>7 DEF Next, Step

\* Every step preserves the inductive invariant.
LEMMA NextIInv == IInv /\ [Next]_vars => IInv'
BY NextCInv, NextWInv DEF IInv

(***************************************************************************)
(* The theorems.                                                           *)
(***************************************************************************)

\* Whatever threads call write_frame, and however their write() calls are cut
\* short, interrupted or fail: on the line every whole piece of a frame is
\* followed by the rest of that frame, and the P/F bit is only where TakesPf
\* allows it.
THEOREM WireAlwaysSound == Spec => []WireSound
<1>1. IInv => WireSound
  <2> SUFFICES ASSUME IInv PROVE WireSound
    OBVIOUS
  <2>0. TypeOK /\ PfInAnswer /\ Joined /\ wire \in Seq(Pieces)
    BY DEF IInv, CInv, WInv
  <2>1. ASSUME NEW k \in DOMAIN wire, Open(k)
        PROVE  \/ k < Len(wire) /\ Continues(k)
               \/ k = Len(wire) /\ (write_frame_lock = wire[k].of \/ serial # "up")
    <3>1. k \in 1..Len(wire) /\ Len(wire) \in Nat
      BY <2>0
    <3>2. CASE k < Len(wire)
      BY <3>1, <3>2, <2>0, <2>1 DEF Joined
    <3>3. CASE k = Len(wire)
      <4>1. Len(wire) > 0
        BY <3>1
      <4> QED  BY <3>3, <4>1, <2>0, <2>1 DEF Joined, Expected
    <3> QED  BY <3>1, <3>2, <3>3
  <2>2. FramesContiguous
    BY <2>1 DEF FramesContiguous, Open
  <2> QED  BY <2>0, <2>2 DEF WireSound
<1> QED  BY InitIInv, NextIInv, <1>1, PTL DEF Spec

\* What handle_channel_data is told is true: whole frames carry a chunk's bytes
\* once and in order, all of them when nothing remains to be written (but for a
\* stop or a modem that is gone), and pseudo_device_read asserts only after
\* GSM0710_WRITE_RETRIES failures of one chunk.
THEOREM ReportsAlwaysTrue == Spec => []ReportsTrue
<1>1. IInv => ReportsTrue
  <2> SUFFICES ASSUME IInv PROVE ReportsTrue
    OBVIOUS
  <2>1. AssertNeedsFailures /\ \A w \in Data : Sent(w)
    BY DEF IInv, CInv, WInv
  <2>2. Len_ > 0
    BY TxAssumption
  <2>3. NothingLost
    BY <2>1, <2>2 DEF NothingLost, Sent
  <2> QED  BY <2>1, <2>3 DEF ReportsTrue
<1> QED  BY InitIInv, NextIInv, <1>1, PTL DEF Spec
=============================================================================
