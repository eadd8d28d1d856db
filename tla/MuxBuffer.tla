------------------------------ MODULE MuxBuffer ------------------------------
(***************************************************************************)
(* mtk/gsm0710muxd: the ring buffer between the thread that reads the      *)
(* modem's serial line (thread_serial_device_read, gsm0710_buffer_write)   *)
(* and the thread that cuts it into basic-mode frames                      *)
(* (assemble_frame_thread, extract_frames, gsm0710_base_buffer_get_frame). *)
(*                                                                         *)
(* On the line a frame is FLAG, header, payload, FCS, FLAG.  The three     *)
(* header bytes (address, control, length) are one cell here, whose value  *)
(* is the payload's length; the FCS cell is right when it repeats the      *)
(* header, which is what the code's FCS covers in a UIH frame.  As in the  *)
(* basic option a payload may contain FLAG.                                *)
(*                                                                         *)
(* Definitions named X_but... are faulty variants of X that no             *)
(* specification uses; PROJECT.json lists them as mutants.                 *)
(***************************************************************************)
EXTENDS Naturals, Sequences

CONSTANTS SIZE,          \* GSM0710_BUFFER_SIZE
          N1,            \* channellist[].negotiated_N1, the longest payload
          MAX_RESYNC,    \* MAX_RESYNC_GET_FRAME_COUNT
          MaxFrames,     \* bound: frames the modem sends
          MaxNoise       \* bound: stray bytes on the line

\* gsm0710muxd.h:56 asks for a buffer larger than the largest N1: a full
\* buffer then holds a whole frame, even after its start flag was consumed.
ASSUME SizeAssumption == SIZE \in Nat /\ N1 \in Nat /\ SIZE >= N1 + 4
ASSUME ResyncAssumption == MAX_RESYNC \in Nat \ {0}
ASSUME LineAssumption == MaxFrames \in Nat /\ MaxNoise \in Nat

FLAG  == N1 + 2                      \* GSM0710_FRAME_FLAG
Bytes == 0 .. FLAG                   \* N1 + 1 is a length that is too long
Payloads == UNION {[1..n -> {0, FLAG}] : n \in 0..N1}
FrameBytes(p) == <<FLAG, Len(p)>> \o p \o <<Len(p), FLAG>>

VARIABLES
  line,             \* bytes the modem sent that were not read yet
  data,             \* buf->data
  readp, writep,    \* offsets of buf->readp and buf->writep
  datacount, newdataready, input_sleeping, flag_found,  \* members of buf
  rpc,              \* ser_read_thread
  rlen,             \* bytes it copied and has not yet counted
  apc,              \* frame_assembly_thread
  depth,            \* depth_level of the running get_frame
  frame,            \* the frame get_frame returned
  pending,          \* history: bytes copied in and not yet consumed
  sent, got,        \* history: payloads sent, payloads extracted
  noise             \* history: stray bytes so far

rvars == <<rpc, rlen>>
avars == <<apc, depth, frame, flag_found>>
ring  == <<data, readp, writep, datacount>>
hist  == <<pending, sent, got>>
vars  == <<line, ring, newdataready, input_sleeping, rvars, avars, hist, noise>>

Wrap(i) == IF i >= SIZE THEN i - SIZE ELSE i
At(i) == data[Wrap(readp + i)]       \* the i-th unread byte

(***************************************************************************)
(* The line (the modem is not part of the repository).                     *)
(***************************************************************************)
ModemSends(p) ==
  /\ Len(sent) < MaxFrames
  /\ line' = line \o FrameBytes(p)
  /\ sent' = Append(sent, p)
  /\ UNCHANGED <<ring, newdataready, input_sleeping, rvars, avars, pending, got, noise>>

LineNoise(b) ==
  /\ noise < MaxNoise
  /\ noise' = noise + 1
  /\ line' = Append(line, b)
  /\ UNCHANGED <<ring, newdataready, input_sleeping, rvars, avars, hist>>

(***************************************************************************)
(* ser_read_thread.                                                        *)
(***************************************************************************)

\* Faulty: after the wrap the second memcpy starts over with the input.
Copied_butRestartsInput(k) ==
  [i \in 0..(SIZE - 1) |->
     IF i >= writep /\ i < writep + k THEN line[i - writep + 1]
     ELSE IF i + SIZE < writep + k THEN line[i + 1]
     ELSE data[i]]

\* gsm0710_buffer_write, its two memcpy: k bytes at writep, wrapped at endp.
Copied(k) ==
  [i \in 0..(SIZE - 1) |->
     IF \E j \in 1..k : Wrap(writep + j - 1) = i
     THEN line[CHOOSE j \in 1..k : Wrap(writep + j - 1) = i]
     ELSE data[i]]

\* gsm0710_buffer_write: where writep ends up.
AdvanceWrite(k) == Wrap(writep + k)

\* There is room: read() returns some bytes and they are copied in.
ReaderRead ==
  /\ rpc = "loop" /\ datacount < SIZE
  /\ \E k \in 1..SIZE :
       /\ k <= Len(line) /\ k <= SIZE - datacount
       /\ data' = Copied(k)
       /\ writep' = AdvanceWrite(k)
       /\ rlen' = k
       /\ line' = SubSeq(line, k + 1, Len(line))
       /\ pending' = pending \o SubSeq(line, 1, k)
  /\ rpc' = "count"
  /\ UNCHANGED <<readp, datacount, newdataready, input_sleeping, avars, sent, got, noise>>

\* datacount is updated under datacount_lock.
ReaderCount ==
  /\ rpc = "count"
  /\ datacount' = datacount + rlen
  /\ rlen' = 0
  /\ rpc' = "notify"
  /\ UNCHANGED <<line, data, readp, writep, newdataready, input_sleeping, avars, hist, noise>>

\* newdataready is set under newdataready_lock, then the assembler signalled.
ReaderNotify ==
  /\ rpc = "notify"
  /\ newdataready' = TRUE
  /\ apc' = IF apc = "waiting" THEN "top" ELSE apc
  /\ rpc' = "loop"
  /\ UNCHANGED <<line, ring, input_sleeping, rlen, depth, frame, flag_found, hist, noise>>

\* The buffer is full: under bufferready_lock, held while rpc = "full", the
\* thread announces that it sleeps ...
ReaderFull ==
  /\ rpc = "loop" /\ datacount = SIZE
  /\ input_sleeping' = TRUE
  /\ rpc' = "full"
  /\ UNCHANGED <<line, ring, newdataready, rlen, avars, hist, noise>>

\* ... and sleeps on bufferready_signal as long as there is no room.
ReaderRecheck ==
  /\ rpc = "full"
  /\ IF datacount = SIZE
     THEN rpc' = "asleep" /\ UNCHANGED input_sleeping
     ELSE rpc' = "loop" /\ input_sleeping' = FALSE
  /\ UNCHANGED <<line, ring, newdataready, rlen, avars, hist, noise>>

(***************************************************************************)
(* frame_assembly_thread.                                                  *)
(***************************************************************************)

\* Faulty: the thread sleeps although the reader sleeps, too.
AssemblerTop_butIgnoresSleeper ==
  /\ apc = "top"
  /\ IF datacount > 0 /\ newdataready
     THEN newdataready' = FALSE /\ apc' = "find"
     ELSE apc' = "waiting" /\ UNCHANGED newdataready
  /\ depth' = 0
  /\ UNCHANGED <<line, ring, input_sleeping, rvars, frame, flag_found, hist, noise>>

\* The loop of assemble_frame_thread up to its call of extract_frames; it
\* sleeps on newdataready_signal unless the other thread sleeps as well.
AssemblerTop ==
  /\ apc = "top"
  /\ IF (datacount > 0 /\ newdataready) \/ input_sleeping
     THEN newdataready' = FALSE /\ apc' = "find"
     ELSE apc' = "waiting" /\ UNCHANGED newdataready
  /\ depth' = 0
  /\ UNCHANGED <<line, ring, input_sleeping, rvars, frame, flag_found, hist, noise>>

\* gsm0710_buffer_inc on the shared pointer, and what it removes.
Consume(k) ==
  /\ readp' = Wrap(readp + k)
  /\ datacount' = datacount - k
  /\ pending' = SubSeq(pending, k + 1, Len(pending))

\* Under bufferready_lock: wake the reader if it said that it sleeps.
SignalReader ==
  /\ rpc # "full"
  /\ rpc' = IF input_sleeping /\ rpc = "asleep" THEN "full" ELSE rpc

\* One turn of the search for a start flag.
FindFlag ==
  /\ apc = "find" /\ ~flag_found /\ datacount > 0
  /\ flag_found' = (At(0) = FLAG)
  /\ Consume(1)
  /\ apc' = IF flag_found' THEN "skip" ELSE "find"
  /\ UNCHANGED <<line, data, writep, newdataready, input_sleeping, rvars, depth, frame,
                 sent, got, noise>>

\* The flag was found by an earlier call.
FlagFoundBefore ==
  /\ apc = "find" /\ flag_found
  /\ apc' = "skip"
  /\ UNCHANGED <<line, ring, newdataready, input_sleeping, rvars, depth, frame,
                 flag_found, hist, noise>>

\* Nothing but garbage: get_frame wakes the reader and returns NULL.
NoFlag ==
  /\ apc = "find" /\ ~flag_found /\ datacount = 0
  /\ SignalReader
  /\ apc' = "top"
  /\ UNCHANGED <<line, ring, newdataready, input_sleeping, rlen, depth, frame,
                 flag_found, hist, noise>>

\* Empty frames are skipped; the loop ends on another byte or an empty buffer.
SkipFlag ==
  /\ apc = "skip"
  /\ IF datacount > 0 /\ At(0) = FLAG
     THEN Consume(1) /\ UNCHANGED apc
     ELSE apc' = "parse" /\ UNCHANGED <<readp, datacount, pending>>
  /\ UNCHANGED <<line, data, writep, newdataready, input_sleeping, rvars, depth, frame,
                 flag_found, sent, got, noise>>

\* The length a header cell stands for.  A header that is FLAG itself names
\* channel 62, beyond channellist[]: its N1, hence the outcome, is arbitrary.
Lengths(b) == IF b = FLAG THEN 0..(N1 + 1) ELSE {b}

\* get_frame returns NULL and waits for more data: nothing is consumed.
ReturnNull == apc' = "top" /\ UNCHANGED <<readp, datacount, pending, depth, frame, flag_found>>

\* update_buffer_dropping_frame: consume k cells, look for a flag again one
\* level deeper; Gsm0710Muxd_Assert(13) when that is too deep.  (Of a header with a
\* length that is too long the code consumes all but the length byte; a header is one
\* cell here, which stays and is skipped by the search for a flag.)
DropFrame(k) ==
  /\ Consume(k)
  /\ flag_found' = FALSE
  /\ depth' = depth + 1
  /\ apc' = IF depth + 1 < MAX_RESYNC THEN "find" ELSE "asserted"
  /\ UNCHANGED frame

\* Faulty: the payload is copied from one cell too early.
TakeFrame_butShifted(n) ==
  /\ frame' = [i \in 1..n |-> At(i - 1)]
  /\ Consume(n + 3)
  /\ flag_found' = FALSE
  /\ apc' = "signal"
  /\ UNCHANGED depth

\* A complete frame: header, n cells of payload, FCS, end flag are consumed.
TakeFrame(n) ==
  /\ frame' = [i \in 1..n |-> At(i)]
  /\ Consume(n + 3)
  /\ flag_found' = FALSE
  /\ apc' = "signal"
  /\ UNCHANGED depth

\* Faulty: a byte beyond the end flag is waited for.
ParseFrame_butWantsMore ==
  /\ apc = "parse"
  /\ IF datacount < 3 THEN ReturnNull
     ELSE \E n \in Lengths(At(0)) :
            IF n > N1 THEN DropFrame(0)
            ELSE IF datacount <= n + 3 THEN ReturnNull
            ELSE IF At(n + 1) # At(0) \/ At(n + 2) # FLAG THEN DropFrame(n + 2)
            ELSE TakeFrame(n)
  /\ UNCHANGED <<line, data, writep, newdataready, input_sleeping, rvars, sent, got, noise>>

\* The rest of get_frame, on local copies of readp and datacount.
ParseFrame ==
  /\ apc = "parse"
  /\ IF datacount < 3 THEN ReturnNull
     ELSE \E n \in Lengths(At(0)) :
            IF n > N1 THEN DropFrame(0)
            ELSE IF datacount < n + 3 THEN ReturnNull
            ELSE IF At(n + 1) # At(0) \/ At(n + 2) # FLAG THEN DropFrame(n + 2)
            ELSE TakeFrame(n)
  /\ UNCHANGED <<line, data, writep, newdataready, input_sleeping, rvars, sent, got, noise>>

\* extract_frames: the reader is woken and the frame goes to its channel;
\* then get_frame(buf, 0) is called again.
SignalAndDispatch ==
  /\ apc = "signal"
  /\ SignalReader
  /\ got' = Append(got, frame)
  /\ apc' = "find" /\ depth' = 0
  /\ UNCHANGED <<line, ring, newdataready, input_sleeping, rlen, frame, flag_found,
                 pending, sent, noise>>

Init ==
  /\ line = <<>>
  /\ data = [i \in 0..(SIZE - 1) |-> 0] /\ readp = 0 /\ writep = 0 /\ datacount = 0
  /\ newdataready = FALSE /\ input_sleeping = FALSE /\ flag_found = FALSE
  /\ rpc = "loop" /\ rlen = 0
  /\ apc = "top" /\ depth = 0 /\ frame = <<>>
  /\ pending = <<>> /\ sent = <<>> /\ got = <<>> /\ noise = 0

Reader == ReaderRead \/ ReaderCount \/ ReaderNotify \/ ReaderFull \/ ReaderRecheck
Assembler == \/ AssemblerTop \/ FindFlag \/ FlagFoundBefore \/ NoFlag
             \/ SkipFlag \/ ParseFrame \/ SignalAndDispatch
Line == (\E p \in Payloads : ModemSends(p)) \/ (\E b \in Bytes : LineNoise(b))

Next == Line \/ Reader \/ Assembler

Spec == Init /\ [][Next]_vars

\* Both threads loop for the life of the daemon and are scheduled.
FairSpec == Spec /\ WF_vars(Reader) /\ WF_vars(Assembler)

TypeOK ==
  /\ line \in Seq(Bytes)
  /\ data \in [0..(SIZE - 1) -> Bytes]
  /\ readp \in 0..(SIZE - 1) /\ writep \in 0..(SIZE - 1)
  /\ datacount \in 0..SIZE
  /\ newdataready \in BOOLEAN /\ input_sleeping \in BOOLEAN /\ flag_found \in BOOLEAN
  /\ rpc \in {"loop", "count", "notify", "full", "asleep"}
  /\ rlen \in 0..SIZE
  /\ apc \in {"top", "waiting", "find", "skip", "parse", "signal", "asserted"}
  /\ depth \in 0..MAX_RESYNC
  /\ frame \in Seq(Bytes) /\ pending \in Seq(Bytes)
  /\ noise \in 0..MaxNoise

(***************************************************************************)
(* Properties.                                                             *)
(***************************************************************************)

\* writep, readp and the separately kept datacount describe the same region,
\* whatever the two threads are doing: gsm0710_buffer_write never lands on a
\* byte that was not consumed.
RingConsistent ==
  /\ datacount + rlen <= SIZE
  /\ writep = Wrap(readp + datacount + rlen)

\* The ring holds exactly the bytes read from the line and not yet consumed,
\* in order: it is a byte FIFO.
RingHoldsPending ==
  /\ Len(pending) = datacount + rlen
  /\ \A i \in 1..Len(pending) : pending[i] = At(i - 1)

\* The two threads never wait for each other (gsm0710muxd.h:56-57).
NoMutualSleep == ~(rpc = "asleep" /\ apc = "waiting")

\* Frames reach their channels once and in the order in which the modem sent
\* them, whatever their payload, as long as the line is clean.
Frames == INSTANCE FifoChannel WITH Data <- Payloads
FramesInOrder ==
  Frames!Init /\ [][noise' = 0 => [Frames!Next]_(Frames!avars)]_vars

\* On a clean line the reader never sleeps for good.
ReaderWakes == (rpc = "asleep") ~> (rpc # "asleep" \/ noise > 0)

\* Every frame that the modem sends on a clean line is extracted.
EveryFrameExtracted ==
  \A n \in 1..MaxFrames : (Len(sent) = n) ~> (Len(got) >= n \/ noise > 0)

\* gsm0710_buffer_write and gsm0710_buffer_inc, called by two threads without a
\* common lock, implement a byte FIFO.
RingSound == TypeOK /\ RingConsistent /\ RingHoldsPending

\* On a clean line the two threads of the receiver go on until every frame is
\* extracted.
ReceiveProgress == ReaderWakes /\ EveryFrameExtracted
=============================================================================
