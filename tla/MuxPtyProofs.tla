---------------------------- MODULE MuxPtyProofs ----------------------------
(***************************************************************************)
(* The safety properties of MuxPty, for any number of chunks, MSC commands *)
(* and hang-ups.                                                           *)
(***************************************************************************)
EXTENDS MuxPty, SequenceTheorems, TLAPS

\* The MSC handler between its two steps.
Handler ==
  /\ apc = "choke" => tx_fc_off
  /\ apc = "release" => ~tx_fc_off

\* Why the thread left select().
Ready == ppc \in {"enter", "gate", "wait", "woken", "read"} => inq # <<>> \/ hungup

\* A channel to be reopened has neither a pty nor a thread, and while watchdog()
\* reopens it the flag stays set; a thread that ends meanwhile met a hang-up.
Closed ==
  /\ reopen /\ wpc = "idle" => ppc = "none" /\ (~fdOpen \/ down)
  /\ wpc = "published" => ppc = "none"
  /\ wpc # "idle" => setup /\ reopen
  /\ wpc = "started" /\ ppc = "none" => raced
  /\ choked => fdOpen
  /\ ~early /\ ~setup => inq = <<>> /\ ~hungup

\* Only between its read and its send has the thread a chunk in hand, and a pty
\* is replaced only when it is empty: why nothing is lost.
Settled ==
  /\ ppc # "send" => chunk = <<>>
  /\ reopen /\ wpc = "idle" => inq = <<>> \/ down

\* The inductive invariant of the order of the chunks.
Order == TypeOK /\ Settled /\ SentInOrder

\* The inductive invariant.
IInv ==
  /\ TypeOK /\ Handler /\ Ready /\ Closed
  /\ NoMissedFcOn /\ NotLeftChoked /\ ReadFindsData /\ PolledOrReopening

USE PtyAssumption DEF fc, port, poll, count, hist

\* c_alloc_channel's state satisfies the invariant.
LEMMA InitIInv == Init => IInv
<1>. SUFFICES ASSUME Init PROVE IInv
  OBVIOUS
<1>. USE DEF Init
<1>1. TypeOK
  <2>1. inq \in Seq(1..wrote) /\ chunk \in Seq(1..wrote) /\ sent \in Seq(1..wrote)
    OBVIOUS
  <2>2. wrote \in 0..MaxChunks /\ mscs \in 0..MaxMsc /\ hangups \in 0..MaxHangups
    OBVIOUS
  <2>. QED BY <2>1, <2>2, Zenon DEF TypeOK
<1>2. Handler /\ Ready /\ Closed
  BY DEF Handler, Ready, Closed
<1>3. NoMissedFcOn /\ NotLeftChoked /\ ReadFindsData /\ PolledOrReopening
  BY DEF NoMissedFcOn, NotLeftChoked, ReadFindsData, PolledOrReopening
<1>. QED BY <1>1, <1>2, <1>3 DEF IInv

\* The chunks in transit stay chunks that were written.
LEMMA NextTypeOK == TypeOK /\ [Next]_vars => TypeOK'
<1>. SUFFICES ASSUME TypeOK, [Next]_vars PROVE TypeOK'
  OBVIOUS
<1>. USE DEF TypeOK
<1>1. CASE AppWrites
  <2>1. \A s \in Seq(1..wrote) : s \in Seq(1..(wrote + 1))
    OBVIOUS
  <2>2. inq' \in Seq(1..(wrote + 1))
    BY <1>1, <2>1 DEF AppWrites
  <2>. QED BY <1>1, <2>1, <2>2 DEF AppWrites
<1>2. CASE AppHangsUp
  BY <1>2 DEF AppHangsUp
<1>3. CASE SetupCompletes
  BY <1>3 DEF SetupCompletes
<1>4. CASE MscFcOff
  BY <1>4 DEF MscFcOff
<1>5. CASE MscFcOn
  <2>1. /\ tx_fc_off' \in BOOLEAN
        /\ UNCHANGED <<setup, fdOpen, reopen, inq, hungup, choked, chunk, hangups, wrote,
                       sent, asserted, early, raced, down, wpc>>
    BY <1>5, Zenon DEF MscFcOn
  <2>3. mscs' \in 0..MaxMsc
    BY <1>5 DEF MscFcOn
  <2>4. apc' \in {"idle", "release"}
    BY <1>5, Zenon DEF MscFcOn
  <2>2. ppc' \in {"select", "enter", "gate", "wait", "woken", "read", "send", "none"}
    BY <1>5 DEF MscFcOn
  <2>. QED BY <2>1, <2>2, <2>3, <2>4
<1>6. CASE Assembler
  <2>1. /\ choked' \in BOOLEAN /\ apc' = "idle"
        /\ UNCHANGED <<setup, fdOpen, reopen, inq, hungup, tx_fc_off, ppc, chunk, wpc, mscs,
                       hangups, wrote, sent, asserted, early, raced, down>>
    BY <1>6, Zenon DEF Assembler, _fc_chokePty, _fc_releasePty
  <2>. QED BY <2>1
<1>7. CASE Select \/ EnterTooEarly \/ Enter \/ Gate \/ AfterWait \/ SpuriousWakeup
  BY <1>7 DEF Select, EnterTooEarly, Enter, Gate, AfterWait, SpuriousWakeup
<1>8. CASE Read
  <2>1. Head(inq) \in 1..wrote /\ Tail(inq) \in Seq(1..wrote)
    BY <1>8 DEF Read
  <2>. QED BY <1>8, <2>1 DEF Read
<1>9. CASE Send
  BY <1>9 DEF Send
<1>10. CASE ReadFails
  BY <1>10 DEF ReadFails
<1>11. CASE WatchdogOpens
  <2>1. inq' \in Seq(1..wrote)
    BY <1>11 DEF WatchdogOpens
  <2>. QED BY <1>11, <2>1 DEF WatchdogOpens
<1>12. CASE WatchdogStarts \/ WatchdogClears \/ WatchdogFails
  <2>1. /\ ppc' \in {ppc, "select"} /\ wpc' \in {"idle", "started"}
        /\ reopen' \in BOOLEAN /\ down' \in BOOLEAN
    BY <1>12, Zenon DEF WatchdogStarts, WatchdogClears, WatchdogFails
  <2>2. UNCHANGED <<setup, fdOpen, inq, hungup, tx_fc_off, choked, chunk, apc, mscs, hangups,
                    wrote, sent, asserted, early, raced>>
    BY <1>12, Zenon DEF WatchdogStarts, WatchdogClears, WatchdogFails
  <2>. QED BY <2>1, <2>2
<1>13. CASE UNCHANGED vars
  BY <1>13 DEF vars
<1>. QED BY <1>1, <1>2, <1>3, <1>4, <1>5, <1>6, <1>7, <1>8, <1>9, <1>10, <1>11, <1>12, <1>13
     DEF Next, Environment, Poll, Watchdog

\* What was appended to is not empty.
LEMMA AppendNonEmpty == ASSUME NEW S, NEW s \in Seq(S), NEW e PROVE Append(s, e) # <<>>
  BY Len(Append(s, e)) = Len(s) + 1, Len(s) \in Nat

\* Every step keeps the invariant.
LEMMA NextIInv == IInv /\ [Next]_vars => IInv'
<1>. SUFFICES ASSUME IInv, [Next]_vars PROVE IInv'
  OBVIOUS
<1>0. TypeOK'
  BY NextTypeOK DEF IInv
<1>. USE DEF IInv, TypeOK, Handler, Ready, Closed, NoMissedFcOn, NotLeftChoked,
             ReadFindsData, PolledOrReopening
<1>1. CASE AppWrites
  <2>3. inq' = Append(inq, wrote + 1) /\ early' = (early \/ ~setup)
    BY <1>1, Zenon DEF AppWrites
  <2>4. Append(inq, wrote + 1) # <<>>
    BY inq \in Seq(1..wrote), AppendNonEmpty, Zenon
  <2>1. inq' # <<>> /\ early' = (early \/ ~setup)
    BY <2>3, <2>4
  <2>2. UNCHANGED <<setup, fdOpen, reopen, hungup, tx_fc_off, choked, ppc, apc, wpc, asserted,
                       raced, down>>
    BY <1>1 DEF AppWrites
  <2>. QED BY <1>0, <2>1, <2>2
<1>2. CASE AppHangsUp
  BY <1>0, <1>2 DEF AppHangsUp
<1>3. CASE SetupCompletes
  BY <1>0, <1>3 DEF SetupCompletes
<1>4. CASE MscFcOff
  BY <1>0, <1>4 DEF MscFcOff
<1>5. CASE MscFcOn
  BY <1>0, <1>5 DEF MscFcOn
<1>6. CASE _fc_chokePty
  BY <1>0, <1>6 DEF _fc_chokePty
<1>7. CASE _fc_releasePty
  BY <1>0, <1>7 DEF _fc_releasePty
<1>8. CASE Select \/ EnterTooEarly \/ Enter
  BY <1>0, <1>8 DEF Select, EnterTooEarly, Enter
<1>9. CASE Gate \/ AfterWait \/ SpuriousWakeup
  BY <1>0, <1>9 DEF Gate, AfterWait, SpuriousWakeup
<1>10. CASE Read \/ Send
  BY <1>0, <1>10 DEF Read, Send
<1>11. CASE ReadFails
  BY <1>0, <1>11 DEF ReadFails
<1>12. CASE WatchdogOpens \/ WatchdogStarts
  BY <1>0, <1>12 DEF WatchdogOpens, WatchdogStarts
<1>13. CASE WatchdogClears
  BY <1>0, <1>13 DEF WatchdogClears
<1>14. CASE WatchdogFails
  BY <1>0, <1>14 DEF WatchdogFails
<1>15. CASE UNCHANGED vars
  BY <1>0, <1>15 DEF vars
<1>. QED BY <1>1, <1>2, <1>3, <1>4, <1>5, <1>6, <1>7, <1>8, <1>9, <1>10, <1>11, <1>12, <1>13,
            <1>14, <1>15
     DEF Next, Environment, Poll, Assembler, Watchdog

\* The first chunk of the pty becomes the chunk in hand.
LEMMA MoveHead ==
  ASSUME NEW s \in Seq(Nat), NEW q \in Seq(Nat), q # <<>>
  PROVE  (s \o <<Head(q)>>) \o Tail(q) = (s \o <<>>) \o q
<1>1. Head(q) \in Nat /\ Tail(q) \in Seq(Nat) /\ <<Head(q)>> \in Seq(Nat)
  OBVIOUS
<1>2. <<Head(q)>> \o Tail(q) = q
  OBVIOUS
<1>3. s \o <<>> = s
  BY ConcatEmptySeq
<1>4. (s \o <<Head(q)>>) \o Tail(q) = s \o (<<Head(q)>> \o Tail(q))
  BY <1>1, ConcatAssociative
<1>. QED BY <1>2, <1>3, <1>4

\* Appending to the last of two sequences.
LEMMA AppendLast ==
  ASSUME NEW s \in Seq(Nat), NEW q \in Seq(Nat), NEW e \in Nat
  PROVE  s \o Append(q, e) = Append(s \o q, e)
<1>1. <<e>> \in Seq(Nat) /\ s \o q \in Seq(Nat)
  OBVIOUS
<1>2. Append(q, e) = q \o <<e>> /\ Append(s \o q, e) = (s \o q) \o <<e>>
  BY <1>1, AppendIsConcat
<1>. QED BY <1>1, <1>2, ConcatAssociative

\* A chunk that the application adds is the last one.
LEMMA AddLast ==
  ASSUME NEW s \in Seq(Nat), NEW n \in Nat, s = [i \in 1..n |-> i]
  PROVE  Append(s, n + 1) = [i \in 1..(n + 1) |-> i]
<1>1. Len(s) = n
  <2>1. DOMAIN s = 1..n
    OBVIOUS
  <2>. QED BY <2>1, LenProperties
<1>2. /\ Append(s, n + 1) \in Seq(Nat) /\ Len(Append(s, n + 1)) = n + 1
      /\ \A i \in 1..n : Append(s, n + 1)[i] = s[i]
      /\ Append(s, n + 1)[n + 1] = n + 1
  BY <1>1, AppendProperties
<1>3. \A i \in 1..(n + 1) : Append(s, n + 1)[i] = i
  BY <1>2
<1>4. Append(s, n + 1) \in [1..(n + 1) -> Nat]
  BY <1>2, LenProperties
<1>. QED BY <1>3, <1>4

\* Every step keeps the order of the chunks: reading and sending move a chunk,
\* and a replaced pty had none left unless setting it up had failed.
LEMMA NextOrder == IInv /\ Order /\ [Next]_vars => Order'
<1>. SUFFICES ASSUME IInv, Order, [Next]_vars PROVE Settled' /\ SentInOrder'
  BY NextTypeOK DEF Order
<1>. USE DEF Order, Settled, SentInOrder
<1>0. sent \in Seq(Nat) /\ chunk \in Seq(Nat) /\ inq \in Seq(Nat) /\ wrote \in Nat
  BY DEF TypeOK
<1>1. CASE AppWrites
  <2>1. down \/ (sent \o chunk) \o Append(inq, wrote + 1) = [i \in 1..(wrote + 1) |-> i]
    <3>. SUFFICES ASSUME ~down
                  PROVE  (sent \o chunk) \o Append(inq, wrote + 1) = [i \in 1..(wrote + 1) |-> i]
      OBVIOUS
    <3>1. sent \o chunk \in Seq(Nat)
      BY <1>0
    <3>2. wrote + 1 \in Nat
      BY <1>0
    <3>3. (sent \o chunk) \o Append(inq, wrote + 1) = Append((sent \o chunk) \o inq, wrote + 1)
      BY <1>0, <3>1, <3>2, AppendLast, Zenon
    <3>4. (sent \o chunk) \o inq \in Seq(Nat)
      BY <1>0, <3>1, ConcatProperties, Zenon
    <3>5. Append((sent \o chunk) \o inq, wrote + 1) = [i \in 1..(wrote + 1) |-> i]
      BY <1>0, <3>4, AddLast, Zenon
    <3>. QED BY <3>3, <3>5, Zenon
  <2>2. reopen /\ wpc = "idle" => down
    BY <1>1 DEF AppWrites, IInv, Closed
  <2>. QED BY <1>1, <2>1, <2>2 DEF AppWrites
<1>2. CASE Read
  <2>0. inq # <<>>
    BY <1>2 DEF Read
  <2>1. (sent \o <<Head(inq)>>) \o Tail(inq) = (sent \o <<>>) \o inq
    BY <1>0, <2>0, MoveHead, Zenon
  <2>2. ~(reopen /\ wpc = "idle") /\ chunk = <<>>
    BY <1>2 DEF Read, IInv, Closed
  <2>. QED BY <1>2, <2>1, <2>2 DEF Read
<1>3. CASE Send
  <2>1. (sent \o chunk) \o <<>> = sent \o chunk
    BY <1>0, ConcatEmptySeq
  <2>. QED BY <1>3, <2>1 DEF Send
<1>4. CASE WatchdogOpens
  <2>1. (inq = <<>> \/ down) /\ UNCHANGED <<ppc, chunk>>
    BY <1>4 DEF WatchdogOpens
  <2>2. inq' = <<>> /\ wpc' = "published" /\ UNCHANGED <<sent, wrote, down>>
    BY <1>4 DEF WatchdogOpens
  <2>. QED BY <2>1, <2>2
<1>5. CASE ReadFails
  BY <1>5 DEF ReadFails
<1>6. CASE AppHangsUp \/ SetupCompletes \/ MscFcOff \/ MscFcOn \/ Assembler
  <2>1. UNCHANGED <<sent, chunk, inq, wrote, reopen, wpc, down>> /\ (ppc' = "send" <=> ppc = "send")
    BY <1>6 DEF AppHangsUp, SetupCompletes, MscFcOff, MscFcOn, Assembler, _fc_chokePty,
                _fc_releasePty
  <2>. QED BY <2>1
<1>7. CASE Select \/ EnterTooEarly \/ Enter \/ Gate \/ AfterWait \/ SpuriousWakeup
  <2>1. UNCHANGED <<sent, chunk, inq, wrote, reopen, wpc, down>> /\ ppc # "send"
    BY <1>7 DEF Select, EnterTooEarly, Enter, Gate, AfterWait, SpuriousWakeup
  <2>. QED BY <2>1
<1>8. CASE WatchdogStarts
  <2>1. UNCHANGED <<sent, chunk, inq, wrote, down>> /\ wpc' = "started" /\ ppc # "send"
    BY <1>8 DEF WatchdogStarts, IInv, Closed
  <2>. QED BY <2>1
<1>9. CASE WatchdogClears
  BY <1>9 DEF WatchdogClears
<1>10. CASE WatchdogFails
  BY <1>10 DEF WatchdogFails
<1>11. CASE UNCHANGED vars
  BY <1>11 DEF vars
<1>. QED BY <1>1, <1>2, <1>3, <1>4, <1>5, <1>6, <1>7, <1>8, <1>9, <1>10, <1>11
     DEF Next, Environment, Poll, Watchdog

\* A port of the multiplexer is sound, for any number of chunks and hang-ups:
\* chunks are sent once and in order unless setting up a pty failed, the read
\* after select() finds data, and a pty without a thread is being replaced or
\* about to be, unless it was used too early or watchdog() was overtaken.
THEOREM PortAlwaysSound == Spec => []PortSound
<1>1. Init => Order
  <2>1. ASSUME Init PROVE sent \o chunk \o inq = [i \in 1..wrote |-> i]
    <3>1. (<<>> \o <<>>) \o <<>> = <<>>
      OBVIOUS
    <3>2. [i \in 1..0 |-> i] = <<>>
      OBVIOUS
    <3>. QED BY <2>1, <3>1, <3>2 DEF Init
  <2>. QED BY <2>1, InitIInv DEF IInv, Order, Settled, SentInOrder, Init
<1>2. IInv /\ Order => PortSound
  BY DEF IInv, Order, PortSound
<1>. QED BY <1>1, <1>2, InitIInv, NextIInv, NextOrder, PTL DEF Spec

\* No FC On is missed by a sleeping pseudo_device_read, spurious wakeups and
\* replaced ptys included.
THEOREM FcOnNeverMissed == Spec => []NoMissedFcOn
<1>1. IInv => NoMissedFcOn
  BY DEF IInv
<1>. QED BY <1>1, InitIInv, NextIInv, PTL DEF Spec

\* The MSC handler never leaves an application stopped that may write.
THEOREM NeverLeftChoked == Spec => []NotLeftChoked
<1>1. IInv => NotLeftChoked
  BY DEF IInv
<1>. QED BY <1>1, InitIInv, NextIInv, PTL DEF Spec

\* GSM0710MUXD_PTY_READ_ERR cannot fire.
THEOREM ReadAlwaysFindsData == Spec => []ReadFindsData
<1>1. IInv => ReadFindsData
  BY DEF IInv
<1>. QED BY <1>1, InitIInv, NextIInv, PTL DEF Spec

\* Every pty is polled, being replaced or about to be: the early return of
\* pseudo_device_read and a hang-up met between create_thread and the reopen = 0
\* of watchdog() are the only ways to lose a thread.
THEOREM PortStaysPolled == Spec => []PolledOrReopening
<1>1. IInv => PolledOrReopening
  BY DEF IInv
<1>. QED BY <1>1, InitIInv, NextIInv, PTL DEF Spec
=============================================================================
