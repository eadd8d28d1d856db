--------------------------- MODULE MuxBufferProofs ---------------------------
(***************************************************************************)
(* The ring of MuxBuffer is a byte FIFO and its two threads never sleep at *)
(* once, for every buffer size, frame length, line and interleaving.       *)
(***************************************************************************)
EXTENDS MuxBuffer, SequenceTheorems, TLAPS

\* Only between the copy and the update of datacount are bytes uncounted.
Counted == rpc # "count" => rlen = 0

\* get_frame runs below the recursion limit until it asserts.
Shallow == apc # "asserted" => depth < MAX_RESYNC

\* The handshake of the two threads around a full buffer.
Handshake ==
  /\ input_sleeping <=> rpc \in {"full", "asleep"}
  /\ apc = "waiting" => rpc \notin {"full", "asleep"}
  /\ apc = "waiting" /\ datacount = SIZE => rpc = "notify"
  /\ apc = "top" /\ datacount = SIZE =>
       newdataready \/ rpc = "notify" \/ input_sleeping

\* The inductive invariant.
IInv == TypeOK /\ Counted /\ Shallow /\ RingConsistent /\ RingHoldsPending /\ Handshake

USE SizeAssumption, ResyncAssumption, LineAssumption

\* The initial state satisfies the invariant: gsm0710_buffer_init's buffer.
LEMMA InitIInv == Init => IInv
<1>. SUFFICES ASSUME Init PROVE IInv
  OBVIOUS
<1>1. TypeOK
  <2>1. 0 \in Bytes /\ 0 \in 0..(SIZE - 1) /\ 0 \in 0..SIZE /\ 0 \in 0..MAX_RESYNC
    BY DEF Bytes, FLAG
  <2>2. 0 \in 0..MaxNoise
    OBVIOUS
  <2>3. line \in Seq(Bytes) /\ frame \in Seq(Bytes) /\ pending \in Seq(Bytes)
    BY DEF Init
  <2>4. data \in [0..(SIZE - 1) -> Bytes]
    BY <2>1 DEF Init
  <2>. QED BY <2>1, <2>2, <2>3, <2>4, Zenon DEF Init, TypeOK
<1>2. Counted /\ Shallow /\ RingConsistent
  BY DEF Init, Counted, Shallow, RingConsistent, Wrap
<1>3. RingHoldsPending
  BY DEF Init, RingHoldsPending
<1>4. Handshake
  BY DEF Init, Handshake
<1>. QED BY <1>1, <1>2, <1>3, <1>4 DEF IInv

\* A frame on the line is a string of bytes.
LEMMA FrameBytesType == ASSUME NEW p \in Payloads PROVE FrameBytes(p) \in Seq(Bytes)
<1>1. PICK n \in 0..N1 : p \in [1..n -> {0, FLAG}]
  BY DEF Payloads
<1>2. p \in Seq(Bytes) /\ Len(p) = n
  BY <1>1 DEF FLAG, Bytes
<1>3. n \in Bytes /\ FLAG \in Bytes
  BY DEF FLAG, Bytes
<1>. QED BY <1>2, <1>3 DEF FrameBytes

\* What is left of a sequence without its first k elements, and those k.
LEMMA Split ==
  ASSUME NEW S, NEW s \in Seq(S), NEW k \in 0..Len(s)
  PROVE  /\ SubSeq(s, k + 1, Len(s)) \in Seq(S)
         /\ Len(SubSeq(s, k + 1, Len(s))) = Len(s) - k
         /\ \A i \in 1..(Len(s) - k) : SubSeq(s, k + 1, Len(s))[i] = s[i + k]
         /\ SubSeq(s, 1, k) \in Seq(S)
         /\ Len(SubSeq(s, 1, k)) = k
         /\ \A i \in 1..k : SubSeq(s, 1, k)[i] = s[i]
<1>1. \A i \in 1..Len(s) : s[i] \in S
  BY ElementOfSeq
<1>2. /\ SubSeq(s, k + 1, Len(s)) \in Seq(S)
      /\ Len(SubSeq(s, k + 1, Len(s))) = IF k + 1 <= Len(s) THEN Len(s) - (k + 1) + 1 ELSE 0
      /\ \A i \in 1..(Len(s) - (k + 1) + 1) :
           SubSeq(s, k + 1, Len(s))[i] = s[(k + 1) + i - 1]
  <2>1. \A i \in (k + 1)..Len(s) : s[i] \in S
    BY <1>1
  <2>. QED BY <2>1, k + 1 \in Int, Len(s) \in Int, SubSeqProperties
<1>3. /\ SubSeq(s, 1, k) \in Seq(S)
      /\ Len(SubSeq(s, 1, k)) = IF 1 <= k THEN k - 1 + 1 ELSE 0
      /\ \A i \in 1..(k - 1 + 1) : SubSeq(s, 1, k)[i] = s[1 + i - 1]
  <2>1. \A i \in 1..k : s[i] \in S
    BY <1>1
  <2>. QED BY <2>1, 1 \in Int, k \in Int, SubSeqProperties
<1>4. Len(SubSeq(s, k + 1, Len(s))) = Len(s) - k /\ Len(SubSeq(s, 1, k)) = k
  BY <1>2, <1>3
<1>5. \A i \in 1..(Len(s) - k) : SubSeq(s, k + 1, Len(s))[i] = s[i + k]
  <2>1. ASSUME NEW i \in 1..(Len(s) - k) PROVE SubSeq(s, k + 1, Len(s))[i] = s[i + k]
    BY <1>2, i \in 1..(Len(s) - (k + 1) + 1), (k + 1) + i - 1 = i + k
  <2>. QED BY <2>1
<1>6. \A i \in 1..k : SubSeq(s, 1, k)[i] = s[i]
  <2>1. ASSUME NEW i \in 1..k PROVE SubSeq(s, 1, k)[i] = s[i]
    BY <1>3, i \in 1..(k - 1 + 1), 1 + i - 1 = i
  <2>. QED BY <2>1
<1>. QED BY <1>2, <1>3, <1>4, <1>5, <1>6

\* The elements of a concatenation.
LEMMA Joined ==
  ASSUME NEW S, NEW s \in Seq(S), NEW t \in Seq(S)
  PROVE  /\ s \o t \in Seq(S) /\ Len(s \o t) = Len(s) + Len(t)
         /\ \A i \in 1..Len(s) : (s \o t)[i] = s[i]
         /\ \A j \in 1..Len(t) : (s \o t)[Len(s) + j] = t[j]
  OBVIOUS

\* Consuming k counted bytes keeps the ring a FIFO (gsm0710_buffer_inc).
LEMMA ConsumeRing ==
  ASSUME IInv, NEW k \in Nat, k <= datacount, Consume(k),
         UNCHANGED <<data, writep, rlen>>
  PROVE  /\ RingConsistent' /\ RingHoldsPending'
         /\ readp' \in 0..(SIZE - 1) /\ datacount' \in 0..SIZE
         /\ pending' \in Seq(Bytes)
         /\ k > 0 => datacount' < SIZE
<1>. USE DEF IInv, TypeOK
<1>1. readp' = Wrap(readp + k) /\ datacount' = datacount - k
      /\ pending' = SubSeq(pending, k + 1, Len(pending))
  BY DEF Consume
<1>2. readp' \in 0..(SIZE - 1) /\ datacount' \in 0..SIZE
  BY <1>1 DEF Wrap
<1>3. RingConsistent'
  BY <1>1 DEF RingConsistent, Wrap
<1>4. /\ pending' \in Seq(Bytes) /\ Len(pending') = Len(pending) - k
      /\ \A i \in 1..Len(pending') : pending'[i] = pending[i + k]
  <2>1. k \in 0..Len(pending) /\ pending \in Seq(Bytes)
    BY DEF RingHoldsPending
  <2>. QED BY <1>1, <2>1, Split
<1>5. ASSUME NEW i \in 1..Len(pending') PROVE pending'[i] = At(i - 1)'
  <2>1. pending[i + k] = data[Wrap(readp + (i + k - 1))]
    BY <1>4, i + k \in 1..Len(pending) DEF RingHoldsPending, At
  <2>2. Wrap(readp + (i + k - 1)) = Wrap(readp' + (i - 1))
    BY <1>1, <1>4, i + k - 1 < SIZE DEF Wrap, RingHoldsPending, RingConsistent
  <2>. QED BY <2>1, <2>2, <1>4 DEF At, Wrap
<1>. QED BY <1>1, <1>2, <1>3, <1>4, <1>5 DEF RingHoldsPending

\* Where the cells of an append land, and which cells they leave alone.
LEMMA CopiedCells ==
  ASSUME TypeOK, NEW k \in 1..SIZE
  PROVE  /\ \A j \in 1..k : Copied(k)[Wrap(writep + j - 1)] = line[j]
         /\ \A i \in 0..(SIZE - 1) :
              (\A j \in 1..k : Wrap(writep + j - 1) # i) => Copied(k)[i] = data[i]
<1>1. \A j \in 1..k : Wrap(writep + j - 1) \in 0..(SIZE - 1)
  BY DEF TypeOK, Wrap
<1>2. \A j, l \in 1..k : Wrap(writep + j - 1) = Wrap(writep + l - 1) => j = l
  BY DEF TypeOK, Wrap
<1>3. ASSUME NEW j \in 1..k PROVE Copied(k)[Wrap(writep + j - 1)] = line[j]
  <2>. DEFINE c == CHOOSE l \in 1..k : Wrap(writep + l - 1) = Wrap(writep + j - 1)
  <2>1. c \in 1..k /\ Wrap(writep + c - 1) = Wrap(writep + j - 1)
    OBVIOUS
  <2>2. c = j
    BY <2>1, <1>2
  <2>3. Copied(k)[Wrap(writep + j - 1)] = line[c]
    BY <1>1 DEF Copied
  <2>. QED BY <2>2, <2>3
<1>4. ASSUME NEW i \in 0..(SIZE - 1), \A j \in 1..k : Wrap(writep + j - 1) # i
      PROVE  Copied(k)[i] = data[i]
  BY <1>4 DEF Copied
<1>. QED BY <1>3, <1>4

\* gsm0710_buffer_write appends to the FIFO what read() returned.
LEMMA AppendRing ==
  ASSUME IInv, rpc # "count", UNCHANGED <<readp, datacount>>,
         NEW k \in 1..SIZE, k <= Len(line), k <= SIZE - datacount,
         data' = Copied(k), writep' = AdvanceWrite(k), rlen' = k,
         pending' = pending \o SubSeq(line, 1, k),
         line' = SubSeq(line, k + 1, Len(line))
  PROVE  /\ RingConsistent' /\ RingHoldsPending'
         /\ data' \in [0..(SIZE - 1) -> Bytes] /\ writep' \in 0..(SIZE - 1)
         /\ pending' \in Seq(Bytes) /\ line' \in Seq(Bytes)
<1>. USE DEF IInv
<1>1. rlen = 0 /\ Len(pending) = datacount /\ writep = Wrap(readp + datacount)
  BY DEF Counted, RingConsistent, RingHoldsPending, TypeOK
<1>2. writep' \in 0..(SIZE - 1) /\ RingConsistent'
  BY <1>1 DEF TypeOK, AdvanceWrite, Wrap, RingConsistent
<1>3. /\ SubSeq(line, 1, k) \in Seq(Bytes) /\ Len(SubSeq(line, 1, k)) = k
      /\ \A i \in 1..k : SubSeq(line, 1, k)[i] = line[i]
      /\ line' \in Seq(Bytes)
  BY line \in Seq(Bytes), k \in 0..Len(line), Split DEF TypeOK
<1>4. /\ pending' \in Seq(Bytes) /\ Len(pending') = datacount + k
      /\ \A i \in 1..datacount : pending'[i] = pending[i]
      /\ \A j \in 1..k : pending'[datacount + j] = line[j]
  <2>1. pending \in Seq(Bytes) /\ datacount \in Nat
    BY DEF TypeOK
  <2>. DEFINE t == SubSeq(line, 1, k)
  <2>2. /\ pending \o t \in Seq(Bytes) /\ Len(pending \o t) = Len(pending) + Len(t)
        /\ \A i \in 1..Len(pending) : (pending \o t)[i] = pending[i]
        /\ \A j \in 1..Len(t) : (pending \o t)[Len(pending) + j] = t[j]
    <3>. HIDE DEF t
    <3>1. t \in Seq(Bytes)
      BY <1>3 DEF t
    <3>2. pending \in Seq(Bytes)
      BY <2>1
    <3>. QED BY <3>1, <3>2, Joined
  <2>3. pending' = pending \o t /\ Len(t) = k /\ \A j \in 1..k : t[j] = line[j]
    BY <1>3, Zenon
  <2>. HIDE DEF t
  <2>. QED BY <2>2, <2>3, <1>1
<1>5. data' \in [0..(SIZE - 1) -> Bytes]
  <2>1. \A j \in 1..k : line[j] \in Bytes
    BY ElementOfSeq DEF TypeOK
  <2>. QED BY <2>1 DEF Copied, TypeOK
<1>6. ASSUME NEW i \in 1..(datacount + k) PROVE pending'[i] = At(i - 1)'
  <2>1. At(i - 1)' = data'[Wrap(readp + (i - 1))] /\ Wrap(readp + (i - 1)) \in 0..(SIZE - 1)
    BY DEF At, Wrap, TypeOK
  <2>2. CASE i <= datacount
    <3>1. \A j \in 1..k : Wrap(writep + j - 1) # Wrap(readp + (i - 1))
      BY <1>1, <2>2 DEF Wrap, TypeOK
    <3>2. data'[Wrap(readp + (i - 1))] = data[Wrap(readp + (i - 1))]
      BY <3>1, <2>1, CopiedCells
    <3>3. pending[i] = data[Wrap(readp + (i - 1))]
      BY <1>1, <2>2 DEF RingHoldsPending, At, TypeOK
    <3>4. pending'[i] = pending[i]
      BY <1>4, <2>2 DEF TypeOK
    <3>. QED BY <3>2, <3>3, <3>4, <2>1
  <2>3. CASE i > datacount
    <3>1. i - datacount \in 1..k
      BY <2>3 DEF TypeOK
    <3>2. Wrap(writep + (i - datacount) - 1) = Wrap(readp + (i - 1))
      BY <1>1, <2>3 DEF Wrap, TypeOK
    <3>3. data'[Wrap(readp + (i - 1))] = line[i - datacount]
      BY <3>1, <3>2, CopiedCells
    <3>4. pending'[i] = line[i - datacount]
      BY <1>4, <3>1, datacount + (i - datacount) = i DEF TypeOK
    <3>. QED BY <3>3, <3>4, <2>1, Zenon
  <2>4. i <= datacount \/ i > datacount
    BY DEF TypeOK
  <2>. QED BY <2>2, <2>3, <2>4, Zenon
<1>. QED BY <1>2, <1>3, <1>4, <1>5, <1>6 DEF RingHoldsPending

\* A step that leaves the ring and its history alone keeps the FIFO.
LEMMA RingUntouched ==
  ASSUME RingConsistent, RingHoldsPending, UNCHANGED <<ring, rlen, pending>>
  PROVE  RingConsistent' /\ RingHoldsPending'
  BY DEF RingConsistent, RingHoldsPending, ring, At, Wrap

\* The modem and the noise on the line keep the invariant.
LEMMA LineIInv == IInv /\ Line => IInv'
<1>1. ASSUME IInv, NEW p \in Payloads, ModemSends(p) PROVE IInv'
  <2>1. RingConsistent' /\ RingHoldsPending'
    BY <1>1, RingUntouched DEF IInv, ModemSends, rvars
  <2>2. line' \in Seq(Bytes)
    BY <1>1, FrameBytesType DEF ModemSends, IInv, TypeOK
  <2>. QED BY <1>1, <2>1, <2>2
       DEF IInv, TypeOK, Counted, Shallow, Handshake, ModemSends, rvars, avars, ring
<1>2. ASSUME IInv, NEW b \in Bytes, LineNoise(b) PROVE IInv'
  <2>1. RingConsistent' /\ RingHoldsPending'
    BY <1>2, RingUntouched DEF IInv, LineNoise, rvars, hist
  <2>. QED BY <1>2, <2>1
       DEF IInv, TypeOK, Counted, Shallow, Handshake, LineNoise, rvars, avars, ring, hist
<1>. QED BY <1>1, <1>2 DEF Line

\* Every step of the reading thread keeps the invariant.
LEMMA ReaderIInv == IInv /\ Reader => IInv'
<1>. SUFFICES ASSUME IInv, Reader PROVE IInv'
  OBVIOUS
<1>. USE DEF IInv, TypeOK, Counted, Shallow, Handshake, avars, hist
<1>1. CASE ReaderRead
  <2>1. PICK k \in 1..SIZE :
          /\ k <= Len(line) /\ k <= SIZE - datacount
          /\ data' = Copied(k) /\ writep' = AdvanceWrite(k) /\ rlen' = k
          /\ line' = SubSeq(line, k + 1, Len(line))
          /\ pending' = pending \o SubSeq(line, 1, k)
    BY <1>1 DEF ReaderRead
  <2>2. rpc = "loop" /\ rpc' = "count" /\ UNCHANGED <<readp, datacount>>
    BY <1>1 DEF ReaderRead
  <2>3. /\ RingConsistent' /\ RingHoldsPending'
        /\ data' \in [0..(SIZE - 1) -> Bytes] /\ writep' \in 0..(SIZE - 1)
        /\ pending' \in Seq(Bytes) /\ line' \in Seq(Bytes)
    <3>. HIDE DEF IInv, TypeOK, Counted, Shallow, Handshake
    <3>. QED BY <2>1, <2>2, AppendRing
  <2>. QED BY <1>1, <2>1, <2>2, <2>3 DEF ReaderRead
<1>2. CASE ReaderCount
  <2>1. RingConsistent' /\ datacount' \in 0..SIZE
    BY <1>2 DEF ReaderCount, RingConsistent, Wrap
  <2>2. RingHoldsPending'
    BY <1>2 DEF ReaderCount, RingHoldsPending, At, Wrap
  <2>. QED BY <1>2, <2>1, <2>2 DEF ReaderCount
<1>3. CASE ReaderNotify
  BY <1>3, RingUntouched DEF ReaderNotify, ring
<1>4. CASE ReaderFull
  BY <1>4, RingUntouched DEF ReaderFull, ring
<1>5. CASE ReaderRecheck
  BY <1>5, RingUntouched DEF ReaderRecheck, ring
<1>. QED BY <1>1, <1>2, <1>3, <1>4, <1>5 DEF Reader

\* Waking the reader keeps its side of the handshake.
LEMMA SignalHandshake ==
  ASSUME Handshake, TypeOK, Counted, SignalReader, apc' \notin {"top", "waiting"} \/ datacount = 0,
         apc' # "waiting", UNCHANGED <<input_sleeping, datacount, newdataready, rlen>>
  PROVE  /\ Handshake' /\ Counted'
         /\ rpc' \in {"loop", "count", "notify", "full", "asleep"}
  BY DEF Handshake, TypeOK, Counted, SignalReader

\* Every way out of the analysis of a header keeps the invariant.
LEMMA ParseIInv == IInv /\ ParseFrame => IInv'
<1>. SUFFICES ASSUME IInv, ParseFrame PROVE IInv'
  OBVIOUS
<1>1. /\ apc = "parse"
      /\ UNCHANGED <<line, data, writep, newdataready, input_sleeping, rvars, sent, got, noise>>
  BY DEF ParseFrame
<1>2. CASE ReturnNull /\ datacount < SIZE
  <2>1. RingConsistent' /\ RingHoldsPending'
    BY <1>1, <1>2, RingUntouched DEF IInv, ReturnNull, ring, rvars
  <2>. QED BY <1>1, <1>2, <2>1 DEF IInv, TypeOK, Counted, Shallow, Handshake, ReturnNull, rvars
<1>3. ASSUME NEW k \in Nat, k <= datacount, DropFrame(k) PROVE IInv'
  <2>1. Consume(k) /\ UNCHANGED <<data, writep, rlen>>
    BY <1>1, <1>3 DEF DropFrame, rvars
  <2>2. /\ RingConsistent' /\ RingHoldsPending'
        /\ readp' \in 0..(SIZE - 1) /\ datacount' \in 0..SIZE /\ pending' \in Seq(Bytes)
    BY <1>3, <2>1, ConsumeRing
  <2>3. /\ depth' \in 0..MAX_RESYNC /\ apc' \in {"find", "asserted"} /\ Shallow'
        /\ flag_found' = FALSE /\ UNCHANGED frame
    BY <1>1, <1>3 DEF DropFrame, IInv, TypeOK, Shallow
  <2>4. UNCHANGED <<line, data, writep, newdataready, input_sleeping, rpc, rlen, noise>>
    BY <1>1 DEF rvars
  <2>5. TypeOK' /\ Counted'
    BY <2>2, <2>3, <2>4 DEF IInv, TypeOK, Counted
  <2>6. Handshake'
    BY <1>1, <2>3, <2>4 DEF IInv, Handshake
  <2>. QED BY <2>2, <2>3, <2>5, <2>6 DEF IInv
<1>4. ASSUME NEW n \in 0..N1, n + 3 <= datacount, TakeFrame(n) PROVE IInv'
  <2>1. Consume(n + 3) /\ UNCHANGED <<data, writep, rlen>>
    BY <1>1, <1>4 DEF TakeFrame, rvars
  <2>2. /\ RingConsistent' /\ RingHoldsPending'
        /\ readp' \in 0..(SIZE - 1) /\ datacount' \in 0..SIZE /\ pending' \in Seq(Bytes)
    BY <1>4, <2>1, n + 3 \in Nat, ConsumeRing
  <2>3. frame' \in Seq(Bytes)
    <3>1. \A i \in 1..n : At(i) \in Bytes
      BY <1>4 DEF At, Wrap, IInv, TypeOK
    <3>. QED BY <1>4, <3>1 DEF TakeFrame
  <2>. QED BY <1>1, <1>4, <2>2, <2>3
       DEF IInv, TypeOK, Counted, Shallow, Handshake, TakeFrame, rvars
<1>5. datacount \in 0..SIZE /\ SIZE >= N1 + 4 /\ N1 \in Nat /\ SIZE \in Nat
  BY DEF IInv, TypeOK
<1>6. CASE datacount < 3
  BY <1>2, <1>5, <1>6 DEF ParseFrame
<1>7. CASE ~(datacount < 3)
  <2>1. PICK n \in Lengths(At(0)) :
            IF n > N1 THEN DropFrame(0)
            ELSE IF datacount < n + 3 THEN ReturnNull
            ELSE IF At(n + 1) # At(0) \/ At(n + 2) # FLAG THEN DropFrame(n + 2)
            ELSE TakeFrame(n)
    BY <1>7 DEF ParseFrame
  <2>2. n \in Nat
    BY DEF Lengths, At, Wrap, Bytes, FLAG, IInv, TypeOK
  <2>3. CASE n > N1
    BY <2>1, <2>3, <1>3, <1>5
  <2>4. CASE ~(n > N1) /\ datacount < n + 3
    BY <2>1, <2>2, <2>4, <1>2, <1>5
  <2>5. CASE ~(n > N1) /\ ~(datacount < n + 3) /\ DropFrame(n + 2)
    BY <2>2, <2>5, <1>3, <1>5, n + 2 \in Nat, n + 2 <= datacount
  <2>6. CASE ~(n > N1) /\ ~(datacount < n + 3) /\ TakeFrame(n)
    BY <2>2, <2>6, <1>4, <1>5, n \in 0..N1, n + 3 <= datacount
  <2>. QED BY <2>1, <2>3, <2>4, <2>5, <2>6, Zenon
<1>. QED BY <1>6, <1>7

\* Every step of the assembling thread keeps the invariant.
LEMMA AssemblerIInv == IInv /\ Assembler => IInv'
<1>. SUFFICES ASSUME IInv, Assembler PROVE IInv'
  OBVIOUS
<1>1. CASE AssemblerTop
  <2>1. RingConsistent' /\ RingHoldsPending'
    BY <1>1, RingUntouched DEF AssemblerTop, IInv, rvars, hist
  <2>2. newdataready' \in BOOLEAN /\ apc' \in {"find", "waiting"} /\ depth' = 0
    BY <1>1 DEF AssemblerTop, IInv, TypeOK
  <2>4. UNCHANGED <<line, data, readp, writep, datacount, input_sleeping, rpc, rlen, frame,
                    flag_found, pending, noise>>
    BY <1>1 DEF AssemblerTop, rvars, ring, hist
  <2>5. TypeOK'
    BY <2>2, <2>4 DEF IInv, TypeOK
  <2>6. Counted' /\ Shallow'
    BY <2>2, <2>4 DEF IInv, Counted, Shallow
  <2>3. Handshake'
    BY <1>1 DEF AssemblerTop, IInv, TypeOK, Handshake, rvars, ring
  <2>. QED BY <2>1, <2>3, <2>5, <2>6 DEF IInv
<1>2. CASE FindFlag
  <2>1. 1 <= datacount /\ Consume(1) /\ UNCHANGED <<data, writep, rlen>>
    BY <1>2 DEF FindFlag, rvars, IInv, TypeOK
  <2>2. /\ RingConsistent' /\ RingHoldsPending'
        /\ readp' \in 0..(SIZE - 1) /\ datacount' \in 0..SIZE /\ pending' \in Seq(Bytes)
    BY <2>1, ConsumeRing
  <2>. QED BY <1>2, <2>2 DEF FindFlag, IInv, TypeOK, Counted, Shallow, Handshake, rvars
<1>3. CASE FlagFoundBefore
  BY <1>3, RingUntouched
  DEF FlagFoundBefore, IInv, TypeOK, Counted, Shallow, Handshake, rvars, hist, ring
<1>4. CASE NoFlag
  <2>1. RingConsistent' /\ RingHoldsPending'
    BY <1>4, RingUntouched DEF NoFlag, IInv, hist
  <2>2. Handshake' /\ Counted' /\ rpc' \in {"loop", "count", "notify", "full", "asleep"}
    BY <1>4, SignalHandshake DEF NoFlag, IInv, ring
  <2>. QED BY <1>4, <2>1, <2>2 DEF NoFlag, IInv, TypeOK, Shallow, hist, ring
<1>5. CASE SkipFlag
  <2>1. CASE datacount > 0 /\ At(0) = FLAG
    <3>1. 1 <= datacount /\ Consume(1) /\ UNCHANGED <<data, writep, rlen>>
      BY <1>5, <2>1 DEF SkipFlag, rvars, IInv, TypeOK
    <3>2. /\ RingConsistent' /\ RingHoldsPending'
          /\ readp' \in 0..(SIZE - 1) /\ datacount' \in 0..SIZE /\ pending' \in Seq(Bytes)
      BY <3>1, ConsumeRing
    <3>. QED BY <1>5, <2>1, <3>2 DEF SkipFlag, IInv, TypeOK, Counted, Shallow, Handshake, rvars
  <2>2. CASE ~(datacount > 0 /\ At(0) = FLAG)
    BY <1>5, <2>2, RingUntouched
    DEF SkipFlag, IInv, TypeOK, Counted, Shallow, Handshake, rvars, ring
  <2>. QED BY <2>1, <2>2
<1>6. CASE ParseFrame
  BY <1>6, ParseIInv
<1>7. CASE SignalAndDispatch
  <2>1. RingConsistent' /\ RingHoldsPending'
    BY <1>7, RingUntouched DEF SignalAndDispatch, IInv
  <2>2. Handshake' /\ Counted' /\ rpc' \in {"loop", "count", "notify", "full", "asleep"}
    BY <1>7, SignalHandshake DEF SignalAndDispatch, IInv, ring
  <2>. QED BY <1>7, <2>1, <2>2 DEF SignalAndDispatch, IInv, TypeOK, Shallow, ring
<1>. QED BY <1>1, <1>2, <1>3, <1>4, <1>5, <1>6, <1>7 DEF Assembler

\* A step, stuttering included, keeps the invariant.
LEMMA NextIInv == IInv /\ [Next]_vars => IInv'
<1>1. IInv /\ Next => IInv'
  BY LineIInv, ReaderIInv, AssemblerIInv DEF Next
<1>2. IInv /\ UNCHANGED vars => IInv'
  BY RingUntouched DEF IInv, vars, ring, rvars, avars, hist, TypeOK, Counted, Shallow, Handshake
<1>. QED BY <1>1, <1>2

\* The state of the two threads and of the buffer keeps its type: writep and
\* readp stay inside buf->data and datacount within GSM0710_BUFFER_SIZE.
THEOREM TypeCorrect == Spec => []TypeOK
<1>1. IInv => TypeOK
  BY DEF IInv
<1>. QED BY <1>1, InitIInv, NextIInv, PTL DEF Spec

\* readp, writep and datacount always describe the same region of the ring,
\* however the reader's three steps interleave with the assembler's.
THEOREM RingAlwaysConsistent == Spec => []RingConsistent
<1>1. IInv => RingConsistent
  BY DEF IInv
<1>. QED BY <1>1, InitIInv, NextIInv, PTL DEF Spec

\* gsm0710_buffer_write and gsm0710_buffer_inc implement a byte FIFO: what
\* the assembler reads next is what the line delivered next.
THEOREM RingIsFifo == Spec => []RingHoldsPending
<1>1. IInv => RingHoldsPending
  BY DEF IInv
<1>. QED BY <1>1, InitIInv, NextIInv, PTL DEF Spec

\* The reader never sleeps on bufferready_signal while the assembler sleeps
\* on newdataready_signal, on any line.
THEOREM NeverBothAsleep == Spec => []NoMutualSleep
<1>1. IInv => NoMutualSleep
  BY DEF IInv, NoMutualSleep, Handshake
<1>. QED BY <1>1, InitIInv, NextIInv, PTL DEF Spec

\* The ring of gsm0710_buffer_write and gsm0710_buffer_inc is a byte FIFO whose
\* pointers and counts agree, for every buffer size, payload length and noise.
THEOREM RingAlwaysSound == Spec => []RingSound
<1>1. IInv => RingSound
  BY DEF IInv, RingSound
<1>. QED BY <1>1, InitIInv, NextIInv, PTL DEF Spec
=============================================================================
