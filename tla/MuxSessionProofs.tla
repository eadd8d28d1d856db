-------------------------- MODULE MuxSessionProofs --------------------------
(***************************************************************************)
(* Theorems about MuxSession: its type invariant and the gate of the       *)
(* setup, the agreement of the two sides on the open channels, the wait    *)
(* for the UAs and the order in which a session is closed.                 *)
(*                                                                         *)
(* The invariant has one part per concern.  Most parts are about the first *)
(* session (sessions = 1): flags and counters of the setup are never       *)
(* reset, and the properties are about that session.                       *)
(***************************************************************************)
EXTENDS MuxSession, FiniteSetTheorems, TLAPS

(***************************************************************************)
(* What is on a line, for any sequence of frames.                          *)
(***************************************************************************)
Frames == {"SABM", "UA", "DM", "DISC", "CLD", "RSP", "TEST"} \X (0..Ports)

\* The frames that open and close channel c.
Signals(c) == {Frame("SABM", c), Frame("UA", c), Frame("DM", c), Frame("DISC", c)}

On(s, f) == \E k \in 1..Len(s) : s[k] = f
Quiet(s, c) == \A k \in 1..Len(s) : s[k] \notin Signals(c)

\* f is the only signal of channel c on the line.
Sole(s, c, f) ==
  \E k \in 1..Len(s) : s[k] = f /\ \A j \in 1..Len(s) : s[j] \in Signals(c) => j = k

\* A DM for c that the receiver meets before a CLD.
Refused(s, c, k) ==
  k \in 1..Len(s) /\ s[k] = Frame("DM", c) /\ \A j \in 1..(k - 1) : s[j] # Frame("CLD", 0)
DmAhead(s, c) == \E k \in 1..Len(s) : Refused(s, c, k)

\* No such DM comes after a frame that opens the channel.
DmFirst(s, c) ==
  \A k \in 1..Len(s) : Refused(s, c, k) =>
    \A j \in 1..(k - 1) : s[j] \notin {Frame("UA", c), Frame("SABM", c)}

\* After a DISC neither a SABM nor a second DISC for the channel.
DiscLast(s, c) ==
  \A k, j \in 1..Len(s) :
    s[k] = Frame("DISC", c) /\ j > k => s[j] \notin {Frame("SABM", c), Frame("DISC", c)}

CldLast(s) == \A k \in 1..Len(s) : s[k] = Frame("CLD", 0) => k = Len(s)

(***************************************************************************)
(* The parts of the invariant.                                             *)
(***************************************************************************)

\* What bounds the counters, and what the program counters tell, in every session.
Counts ==
  /\ mpc = "disc" => num_disc_sent <= i - 1
  /\ mpc \notin {"start", "exit"} => silent <= ping_number
  /\ mpc \in {"start", "alloc", "wait", "start_rild", "ping", "uawait"} => serialOpen
  /\ state \in {"INITILIZING", "MUXING"} => serialOpen
  /\ mpc \in {"disc", "uawait"} => close_down
  /\ apc # 0 => apc \notin opened
  /\ mux_setup_chnl_complete /\ ~LackofAtciChannel => sabm_ua_received >= Ports + 1
  /\ "wakeup" \notin seen /\ (rild_started \/ mpc = "start_rild") => mux_setup_chnl_complete

Pristine ==
  /\ fdOpen = {} /\ reopen = {} /\ opened = {} /\ sabm_ua_pending = {} /\ disc_ua_pending = {}
  /\ mux_setup_chnl_complete = FALSE /\ sabm_ua_received = 0 /\ LackofAtciChannel = FALSE
  /\ apc = 0 /\ toModem = <<>> /\ fromModem = <<>> /\ modemOpen = {} /\ asked = {}
  /\ hangups = 0 /\ seen = {}

\* Before the first session, and until its multiplexer starts, nothing has happened.
Fresh ==
  /\ sessions = 0 => Pristine /\ mpc = "idle" /\ state = "OPENING" /\ ~serialOpen
  /\ sessions = 1 /\ mpc = "start" => Pristine /\ state = "INITILIZING"

\* Every SABM is answered by at most one UA that counts.
Counted ==
  sessions = 1 =>
    /\ sabm_ua_received + Cardinality(sabm_ua_pending) <= Ports + 1
    /\ mpc = "alloc" => sabm_ua_received + Cardinality(sabm_ua_pending) <= i

\* The first session is not closed as long as its state is MUXING, and CLD
\* and DISC come from the modem when it has asked for them only.
Muxes ==
  sessions = 1 =>
    /\ state = "MUXING" =>
         /\ disc_ua_pending = {}
         /\ mpc \in {"alloc", "wait", "start_rild", "idle", "ping"}
         /\ "CLD" \in seen => On(fromModem, Frame("CLD", 0))
    /\ "CLD" \notin seen => ~On(fromModem, Frame("CLD", 0))
    /\ "DISC" \notin seen => apc = 0 /\ \A c \in 0..Ports : ~On(fromModem, Frame("DISC", c))
    /\ serialOpen => \A c \in 0..Ports : ~On(toModem, Frame("CLD", c))
    /\ CldLast(toModem)

\* The modem has handled the daemon's DISC for channel c.
Taken(c) ==
  /\ mpc \in {"disc", "uawait", "cld"} /\ (mpc = "disc" => c < i)
  /\ ~On(toModem, Frame("SABM", c)) /\ ~On(toModem, Frame("DISC", c))

\* The first session, as long as the modem has closed nothing itself.
Undisturbed ==
  sessions = 1 /\ serialOpen /\ "DISC" \notin seen /\ ("CLD" \in seen => state = "MUXING")

\* What close_devices relies on: a DM never concerns an open channel, so that
\* the answer to a DISC is the UA that it waits for.
DmHarmless(c) == DmFirst(fromModem, c) /\ (DmAhead(fromModem, c) => c \notin opened)

\* The modem has open what the daemon has open or is told to be open.
Opening(c) ==
  c \in opened \/ On(fromModem, Frame("UA", c)) \/ On(fromModem, Frame("SABM", c))
ModemFollows(c) == "CLD" \notin seen /\ c \notin modemOpen /\ Opening(c) => Taken(c)

\* One DISC for each channel, after the SABMs.
DiscOnce(c) ==
  /\ DiscLast(toModem, c)
  /\ On(toModem, Frame("DISC", c)) =>
       mpc \in {"disc", "uawait", "cld"} /\ (mpc = "disc" => c < i)

UaAwaited ==
  /\ disc_ua_pending \subseteq opened
  /\ mpc = "disc" /\ num_disc_sent > 0 => disc_ua_pending # {}
  /\ mpc = "uawait" => disc_ua_pending # {}

AnsweredNow ==
  (\A c \in 0..Ports : DmHarmless(c) /\ ModemFollows(c) /\ DiscOnce(c)) /\ UaAwaited
Answered == Undisturbed => AnsweredNow

\* A pty belongs to a channel that is open or about to be.
PtysOpen ==
  sessions = 1 /\ "DISC" \notin seen /\ ~LackofAtciChannel =>
    /\ fdOpen \subseteq opened \cup sabm_ua_pending
    /\ state = "MUXING" => reopen \subseteq opened \cup sabm_ua_pending

\* Where channel c stands between the two sides: nothing is under way, or the
\* daemon's SABM, its answer, the modem's request or its answer is.
Agreed(c, tm, fm, isOpen, isModemOpen, isPending, isAsked) ==
  \/ Quiet(tm, c) /\ Quiet(fm, c) /\ (isOpen <=> isModemOpen)
  \/ Sole(tm, c, Frame("SABM", c)) /\ Quiet(fm, c) /\ isPending /\ ~isOpen /\ ~isModemOpen
  \/ Quiet(tm, c) /\ Sole(fm, c, Frame("UA", c)) /\ isPending /\ ~isOpen /\ isModemOpen
  \/ Quiet(tm, c) /\ Sole(fm, c, Frame("DM", c)) /\ isPending /\ ~isOpen /\ ~isModemOpen
  \/ Quiet(tm, c) /\ Sole(fm, c, Frame("DISC", c)) /\ isAsked /\ isOpen /\ ~isModemOpen
     /\ ~isPending
  \/ Quiet(tm, c) /\ Sole(fm, c, Frame("SABM", c)) /\ isAsked /\ ~isOpen /\ isModemOpen
  \/ Sole(tm, c, Frame("UA", c)) /\ Quiet(fm, c) /\ isAsked /\ (isOpen <=> isModemOpen)

\* The multiplexed phase of the first session, unless a channel may be
\* established twice: the modem refused a channel that is not the last one.
Regular ==
  sessions = 1 /\ state = "MUXING" /\ "CLD" \notin seen /\ (LackofAtciChannel => ATCI = Ports)

AgreedOn(c) ==
  Agreed(c, toModem, fromModem, c \in opened, c \in modemOpen, c \in sabm_ua_pending, c \in asked)

\* Channels are established in their order, each of them once.
Allocating ==
  mpc = "alloc" =>
    /\ "DISC" \notin seen
    /\ i <= Ports => ~mux_setup_chnl_complete /\ fdOpen = 1..(i - 1)
    /\ \A c \in i..Ports :
         Quiet(toModem, c) /\ Quiet(fromModem, c) /\ c \notin opened /\ c \notin modemOpen

AgreesNow ==
  /\ \A c \in 0..Ports : AgreedOn(c)
  /\ apc # 0 => apc \notin sabm_ua_pending
  /\ Allocating
Agrees == Regular => AgreesNow

\* A session in which nothing goes wrong.
Smooth == sessions = 1 /\ hangups = 0 /\ seen = {}

\* What the modem has open is being closed.
DiscSent(c) == c \in modemOpen => On(toModem, Frame("DISC", c))

ClosesNow ==
  /\ state \in {"INITILIZING", "MUXING", "CLOSING", "OPENING"}
  /\ ~On(fromModem, Frame("DM", 0)) /\ ~On(toModem, Frame("DISC", 0))
  /\ \A c \in 0..Ports : ~On(fromModem, Frame("SABM", c))
  /\ state = "INITILIZING" => mpc \in {"start", "exit"}
  /\ state = "MUXING" =>
       /\ \A c \in 0..Ports : ~On(fromModem, Frame("DM", c))
       /\ ~LackofAtciChannel
       /\ sabm_ua_received = Cardinality(opened)
       /\ (opened \cup sabm_ua_pending) \cap Chans \subseteq fdOpen
       /\ mpc \in {"start_rild", "idle", "ping"} => mux_setup_chnl_complete
  /\ state \in {"CLOSING", "OPENING"} => \A c \in 0..Ports : ~On(toModem, Frame("SABM", c))
  /\ state = "CLOSING" => serialOpen /\ mpc \in {"idle", "disc", "uawait", "cld"}
  /\ state = "CLOSING" /\ mpc = "idle" =>
       Chans \subseteq fdOpen \cap opened /\ disc_ua_pending = {}
  /\ state = "CLOSING" /\ mpc = "disc" =>
       i..Ports \subseteq fdOpen \cap opened /\ \A c \in 1..(i - 1) : DiscSent(c)
  /\ state = "OPENING" => ~serialOpen /\ mpc = "idle"
  /\ state = "OPENING" \/ mpc \in {"uawait", "cld"} => \A c \in Chans : DiscSent(c)

\* The DISCs of all channels come before the CLD.
Closes == Smooth => ClosesNow

IInv ==
  TypeOK /\ Counts /\ Fresh /\ Counted /\ Muxes /\ Answered /\ PtysOpen /\ Agrees /\ Closes

-----------------------------------------------------------------------------
(***************************************************************************)
(* Lines: what the predicates above become when a frame is sent (Append)   *)
(* or received (Tail).                                                     *)
(***************************************************************************)

\* write_frame appends one frame.
LEMMA SendOne ==
  ASSUME NEW s \in Seq(Frames), NEW f \in Frames
  PROVE  s \o <<f>> = Append(s, f) /\ Append(s, f) \in Seq(Frames)
OBVIOUS

\* A sent frame is on the line, with those that were there before.
LEMMA OnAppend ==
  ASSUME NEW s \in Seq(Frames), NEW f \in Frames, NEW g
  PROVE  On(Append(s, f), g) <=> (On(s, g) \/ f = g)
BY DEF On

\* Receiving takes the first frame off the line and leaves the others.
LEMMA OnTail ==
  ASSUME NEW s \in Seq(Frames), s # <<>>, NEW g
  PROVE  /\ Tail(s) \in Seq(Frames) /\ On(s, Head(s))
         /\ On(Tail(s), g) => On(s, g)
         /\ On(s, g) => g = Head(s) \/ On(Tail(s), g)
<1>1. /\ Len(Tail(s)) = Len(s) - 1 /\ Len(s) \in Nat \ {0}
      /\ \A k \in 1..Len(Tail(s)) : Tail(s)[k] = s[k + 1]
      /\ Head(s) = s[1]
  OBVIOUS
<1>2. Tail(s) \in Seq(Frames)
  OBVIOUS
<1>3. ASSUME On(Tail(s), g) PROVE On(s, g)
  <2>1. PICK k \in 1..Len(Tail(s)) : Tail(s)[k] = g
    BY <1>3 DEF On
  <2>2. k + 1 \in 1..Len(s) /\ s[k + 1] = g
    BY <1>1, <2>1
  <2> QED BY <2>2 DEF On
<1>4. ASSUME On(s, g), g # Head(s) PROVE On(Tail(s), g)
  <2>1. PICK k \in 1..Len(s) : s[k] = g
    BY <1>4 DEF On
  <2>2. k - 1 \in 1..Len(Tail(s)) /\ Tail(s)[k - 1] = g
    BY <1>1, <1>4, <2>1
  <2> QED BY <2>2 DEF On
<1> QED BY <1>1, <1>2, <1>3, <1>4 DEF On

\* Nothing is on an empty line.
LEMMA OnEmpty ==
  ASSUME NEW c
  PROVE  ~On(<<>>, c) /\ Quiet(<<>>, c)
BY DEF On, Quiet

\* The signals of a channel when a frame is sent.
LEMMA SoleAppend ==
  ASSUME NEW s \in Seq(Frames), NEW f \in Frames, NEW c
  PROVE  /\ Quiet(Append(s, f), c) <=> Quiet(s, c) /\ f \notin Signals(c)
         /\ Quiet(s, c) /\ f \in Signals(c) => Sole(Append(s, f), c, f)
         /\ \A g : Sole(s, c, g) /\ f \notin Signals(c) => Sole(Append(s, f), c, g)
<1>1. /\ Len(Append(s, f)) = Len(s) + 1 /\ Len(s) \in Nat
      /\ \A k \in 1..Len(s) : Append(s, f)[k] = s[k]
      /\ Append(s, f)[Len(s) + 1] = f
  OBVIOUS
<1>2. Quiet(Append(s, f), c) <=> Quiet(s, c) /\ f \notin Signals(c)
  BY <1>1 DEF Quiet
<1>3. Quiet(s, c) /\ f \in Signals(c) => Sole(Append(s, f), c, f)
  <2> SUFFICES ASSUME Quiet(s, c), f \in Signals(c) PROVE Sole(Append(s, f), c, f)
    OBVIOUS
  <2>1. Len(s) + 1 \in 1..Len(Append(s, f)) /\ Append(s, f)[Len(s) + 1] = f
    BY <1>1
  <2>2. \A j \in 1..Len(Append(s, f)) : Append(s, f)[j] \in Signals(c) => j = Len(s) + 1
    BY <1>1 DEF Quiet
  <2> QED BY <2>1, <2>2 DEF Sole
<1>4. ASSUME NEW g, Sole(s, c, g), f \notin Signals(c) PROVE Sole(Append(s, f), c, g)
  <2>1. PICK k \in 1..Len(s) : s[k] = g /\ \A j \in 1..Len(s) : s[j] \in Signals(c) => j = k
    BY <1>4 DEF Sole
  <2>2. k \in 1..Len(Append(s, f)) /\ Append(s, f)[k] = g
    BY <1>1, <2>1
  <2>3. \A j \in 1..Len(Append(s, f)) : Append(s, f)[j] \in Signals(c) => j = k
    BY <1>1, <1>4, <2>1
  <2> QED BY <2>2, <2>3 DEF Sole
<1> QED BY <1>2, <1>3, <1>4

\* The signals of a channel when a frame is received.
LEMMA SoleTail ==
  ASSUME NEW s \in Seq(Frames), s # <<>>, NEW c
  PROVE  /\ Quiet(s, c) => Head(s) \notin Signals(c) /\ Quiet(Tail(s), c)
         /\ \A g : Sole(s, c, g) =>
              /\ Head(s) \in Signals(c) => Head(s) = g /\ Quiet(Tail(s), c)
              /\ Head(s) \notin Signals(c) /\ g \in Signals(c) => Sole(Tail(s), c, g)
<1>1. /\ Len(Tail(s)) = Len(s) - 1 /\ Len(s) \in Nat \ {0}
      /\ \A k \in 1..Len(Tail(s)) : Tail(s)[k] = s[k + 1]
      /\ Head(s) = s[1]
  OBVIOUS
<1>2. Quiet(s, c) => Head(s) \notin Signals(c) /\ Quiet(Tail(s), c)
  BY <1>1 DEF Quiet
<1>3. ASSUME NEW g, Sole(s, c, g)
      PROVE  /\ Head(s) \in Signals(c) => Head(s) = g /\ Quiet(Tail(s), c)
             /\ Head(s) \notin Signals(c) /\ g \in Signals(c) => Sole(Tail(s), c, g)
  <2>1. PICK k \in 1..Len(s) : s[k] = g /\ \A j \in 1..Len(s) : s[j] \in Signals(c) => j = k
    BY <1>3 DEF Sole
  <2>2. Head(s) \in Signals(c) => k = 1
    BY <1>1, <2>1
  <2>3. Head(s) \in Signals(c) => Head(s) = g /\ Quiet(Tail(s), c)
    BY <1>1, <2>1, <2>2 DEF Quiet
  <2>4. ASSUME Head(s) \notin Signals(c), g \in Signals(c) PROVE Sole(Tail(s), c, g)
    <3>1. k - 1 \in 1..Len(Tail(s)) /\ Tail(s)[k - 1] = g
      BY <1>1, <2>1, <2>4
    <3>2. \A j \in 1..Len(Tail(s)) : Tail(s)[j] \in Signals(c) => j = k - 1
      BY <1>1, <2>1
    <3> QED BY <3>1, <3>2 DEF Sole
  <2> QED BY <2>3, <2>4
<1> QED BY <1>2, <1>3

\* A line has the only signal on it, and no quiet line has a signal.
LEMMA SoleOn ==
  ASSUME NEW s \in Seq(Frames), NEW c
  PROVE  /\ \A g : Sole(s, c, g) => On(s, g)
         /\ \A g \in Signals(c) : On(s, g) => ~Quiet(s, c)
         /\ \A g : \A h \in Signals(c) : Sole(s, c, g) /\ On(s, h) => h = g
         /\ \A g : Sole(s, c, g) => s # <<>>
BY DEF Sole, On, Quiet

\* The DMs of a channel when a frame is sent: a frame behind a CLD does not
\* matter, and a DM must not follow a frame that opens the channel.
LEMMA DmAppend ==
  ASSUME NEW s \in Seq(Frames), NEW f \in Frames, NEW c, DmFirst(s, c)
  PROVE  /\ f # Frame("DM", c) \/ On(s, Frame("CLD", 0))
              \/ ~(On(s, Frame("UA", c)) \/ On(s, Frame("SABM", c)))
            => DmFirst(Append(s, f), c)
         /\ f # Frame("DM", c) \/ On(s, Frame("CLD", 0)) =>
              (DmAhead(Append(s, f), c) => DmAhead(s, c))
<1>1. /\ Len(Append(s, f)) = Len(s) + 1 /\ Len(s) \in Nat
      /\ \A k \in 1..Len(s) : Append(s, f)[k] = s[k]
      /\ Append(s, f)[Len(s) + 1] = f
  OBVIOUS
<1>2. ASSUME NEW k \in 1..Len(s) PROVE Refused(Append(s, f), c, k) <=> Refused(s, c, k)
  BY <1>1 DEF Refused
<1>3. ASSUME f # Frame("DM", c) \/ On(s, Frame("CLD", 0))
      PROVE  ~Refused(Append(s, f), c, Len(s) + 1)
  BY <1>1, <1>3 DEF Refused, On
<1>4. ASSUME NEW k \in 1..Len(s), Refused(Append(s, f), c, k)
      PROVE  \A j \in 1..(k - 1) : Append(s, f)[j] \notin {Frame("UA", c), Frame("SABM", c)}
  BY <1>1, <1>2, <1>4 DEF DmFirst
<1>5. ASSUME ~(On(s, Frame("UA", c)) \/ On(s, Frame("SABM", c)))
      PROVE  \A j \in 1..Len(s) : Append(s, f)[j] \notin {Frame("UA", c), Frame("SABM", c)}
  BY <1>1, <1>5 DEF On
<1>6. \A k \in 1..Len(Append(s, f)) : k \in 1..Len(s) \/ k = Len(s) + 1
  BY <1>1
<1>7. ASSUME \/ f # Frame("DM", c) \/ On(s, Frame("CLD", 0))
             \/ ~(On(s, Frame("UA", c)) \/ On(s, Frame("SABM", c))),
             NEW k \in 1..Len(Append(s, f)), Refused(Append(s, f), c, k)
      PROVE  \A j \in 1..(k - 1) : Append(s, f)[j] \notin {Frame("UA", c), Frame("SABM", c)}
  <2>1. CASE k \in 1..Len(s)
    BY <1>4, <1>7, <2>1
  <2>2. CASE k = Len(s) + 1
    <3>1. ~(On(s, Frame("UA", c)) \/ On(s, Frame("SABM", c)))
      BY <1>3, <1>7, <2>2
    <3>2. k - 1 = Len(s)
      BY <1>1, <2>2
    <3> QED BY <1>5, <3>1, <3>2
  <2> QED BY <1>6, <2>1, <2>2
<1>8. ASSUME f # Frame("DM", c) \/ On(s, Frame("CLD", 0)), DmAhead(Append(s, f), c)
      PROVE  DmAhead(s, c)
  <2>1. PICK k \in 1..Len(Append(s, f)) : Refused(Append(s, f), c, k)
    BY <1>8 DEF DmAhead
  <2>2. k \in 1..Len(s)
    BY <1>3, <1>6, <1>8, <2>1
  <2> QED BY <1>2, <2>1, <2>2 DEF DmAhead
<1> QED BY <1>7, <1>8 DEF DmFirst

\* The DMs of a channel when a frame other than CLD is received.
LEMMA DmTail ==
  ASSUME NEW s \in Seq(Frames), s # <<>>, NEW c, DmFirst(s, c), Head(s) # Frame("CLD", 0)
  PROVE  /\ DmFirst(Tail(s), c)
         /\ DmAhead(Tail(s), c) => DmAhead(s, c)
         /\ Head(s) = Frame("DM", c) => DmAhead(s, c)
         /\ Head(s) \in {Frame("UA", c), Frame("SABM", c)} => ~DmAhead(Tail(s), c)
<1>1. /\ Len(Tail(s)) = Len(s) - 1 /\ Len(s) \in Nat \ {0}
      /\ \A k \in 1..Len(Tail(s)) : Tail(s)[k] = s[k + 1]
      /\ Head(s) = s[1]
  OBVIOUS
<1>2. ASSUME NEW k \in 1..Len(Tail(s)), Refused(Tail(s), c, k) PROVE Refused(s, c, k + 1)
  <2>1. k + 1 \in 1..Len(s) /\ s[k + 1] = Frame("DM", c)
    BY <1>1, <1>2 DEF Refused
  <2>2. ASSUME NEW j \in 1..k PROVE s[j] # Frame("CLD", 0)
    <3>1. CASE j = 1
      BY <1>1, <3>1
    <3>2. CASE j # 1
      <4>1. j - 1 \in 1..(k - 1) /\ j - 1 \in 1..Len(Tail(s)) /\ (j - 1) + 1 = j
        BY <1>1, <3>2
      <4> QED BY <1>1, <1>2, <4>1 DEF Refused
    <3> QED BY <3>1, <3>2
  <2>3. (k + 1) - 1 = k
    BY <1>1
  <2> QED BY <2>1, <2>2, <2>3 DEF Refused
<1>3. ASSUME NEW k \in 1..Len(Tail(s)), Refused(Tail(s), c, k)
      PROVE  /\ \A j \in 1..(k - 1) : Tail(s)[j] \notin {Frame("UA", c), Frame("SABM", c)}
             /\ Head(s) \notin {Frame("UA", c), Frame("SABM", c)}
             /\ DmAhead(s, c)
  <2>1. Refused(s, c, k + 1) /\ k + 1 \in 1..Len(s)
    BY <1>1, <1>2, <1>3
  <2>2. \A j \in 1..k : s[j] \notin {Frame("UA", c), Frame("SABM", c)}
    <3>1. (k + 1) - 1 = k
      BY <1>1
    <3> QED BY <2>1, <3>1 DEF DmFirst
  <2>3. \A j \in 1..(k - 1) : Tail(s)[j] \notin {Frame("UA", c), Frame("SABM", c)}
    BY <1>1, <2>2
  <2> QED BY <1>1, <2>1, <2>2, <2>3 DEF DmAhead
<1>4. Head(s) = Frame("DM", c) => DmAhead(s, c)
  BY <1>1 DEF DmAhead, Refused
<1> QED BY <1>3, <1>4 DEF DmFirst, DmAhead

\* The DISC of a channel when a frame is sent or received.
LEMMA DiscLine ==
  ASSUME NEW s \in Seq(Frames), NEW c, DiscLast(s, c)
  PROVE  /\ \A f \in Frames : f \notin {Frame("SABM", c), Frame("DISC", c)}
                              \/ ~On(s, Frame("DISC", c)) => DiscLast(Append(s, f), c)
         /\ s # <<>> => DiscLast(Tail(s), c)
         /\ s # <<>> /\ Head(s) = Frame("DISC", c) =>
              ~On(Tail(s), Frame("SABM", c)) /\ ~On(Tail(s), Frame("DISC", c))
<1>1. ASSUME NEW f \in Frames,
             f \notin {Frame("SABM", c), Frame("DISC", c)} \/ ~On(s, Frame("DISC", c))
      PROVE  DiscLast(Append(s, f), c)
  <2>1. /\ Len(Append(s, f)) = Len(s) + 1 /\ Len(s) \in Nat
        /\ \A k \in 1..Len(s) : Append(s, f)[k] = s[k]
        /\ Append(s, f)[Len(s) + 1] = f
    OBVIOUS
  <2> SUFFICES ASSUME NEW k \in 1..Len(Append(s, f)), NEW j \in 1..Len(Append(s, f)),
                      Append(s, f)[k] = Frame("DISC", c), j > k
               PROVE  Append(s, f)[j] \notin {Frame("SABM", c), Frame("DISC", c)}
    BY DEF DiscLast
  <2>2. k \in 1..Len(s) /\ s[k] = Frame("DISC", c)
    BY <2>1
  <2>3. CASE j \in 1..Len(s)
    BY <2>1, <2>2, <2>3 DEF DiscLast
  <2>4. CASE j = Len(s) + 1
    BY <1>1, <2>1, <2>2, <2>4 DEF On
  <2> QED BY <2>1, <2>3, <2>4
<1>2. ASSUME s # <<>>
      PROVE  /\ Len(Tail(s)) = Len(s) - 1 /\ Len(s) \in Nat \ {0}
             /\ \A k \in 1..Len(Tail(s)) : Tail(s)[k] = s[k + 1] /\ k + 1 \in 2..Len(s)
             /\ Head(s) = s[1]
  BY <1>2
<1>3. ASSUME s # <<>> PROVE DiscLast(Tail(s), c)
  BY <1>2, <1>3 DEF DiscLast
<1>4. ASSUME s # <<>>, Head(s) = Frame("DISC", c)
      PROVE  ~On(Tail(s), Frame("SABM", c)) /\ ~On(Tail(s), Frame("DISC", c))
  <2>1. \A k \in 2..Len(s) : s[k] \notin {Frame("SABM", c), Frame("DISC", c)}
    BY <1>2, <1>4 DEF DiscLast
  <2> QED BY <1>2, <1>4, <2>1 DEF On
<1> QED BY <1>1, <1>3, <1>4

\* CLD stays the last frame of a line on which nothing more is sent.
LEMMA CldLine ==
  ASSUME NEW s \in Seq(Frames), CldLast(s)
  PROVE  /\ \A f \in Frames : ~On(s, Frame("CLD", 0)) => CldLast(Append(s, f))
         /\ s # <<>> => CldLast(Tail(s))
         /\ s # <<>> /\ Head(s) = Frame("CLD", 0) => \A g : ~On(Tail(s), g)
<1>1. ASSUME NEW f \in Frames, ~On(s, Frame("CLD", 0)) PROVE CldLast(Append(s, f))
  BY <1>1 DEF CldLast, On
<1>2. ASSUME s # <<>>
      PROVE  /\ Len(Tail(s)) = Len(s) - 1 /\ Len(s) \in Nat \ {0}
             /\ \A k \in 1..Len(Tail(s)) : Tail(s)[k] = s[k + 1] /\ k + 1 \in 1..Len(s)
             /\ Head(s) = s[1]
  BY <1>2
<1>3. ASSUME s # <<>> PROVE CldLast(Tail(s))
  BY <1>2, <1>3 DEF CldLast
<1>4. ASSUME s # <<>>, Head(s) = Frame("CLD", 0) PROVE \A g : ~On(Tail(s), g)
  BY <1>2, <1>4 DEF CldLast, On
<1> QED BY <1>1, <1>3, <1>4

-----------------------------------------------------------------------------
(***************************************************************************)
(* The type invariant and the counters.                                    *)
(***************************************************************************)
FromFrames == {"SABM", "UA", "DM", "DISC", "CLD", "RSP"} \X (0..Ports)

\* What write_frame does to the line.
LEMMA Sent ==
  ASSUME TypeOK, NEW f \in Frames, Write(<<f>>)
  PROVE  /\ toModem' \in Seq(Frames)
         /\ serialOpen => toModem' = Append(toModem, f)
         /\ ~serialOpen => toModem' = toModem
BY SendOne DEF TypeOK, Write, Frames

\* What the assembling thread does to the line.
LEMMA Received ==
  ASSUME TypeOK, NEW f, Receive(f)
  PROVE  /\ fromModem # <<>> /\ Head(fromModem) = f /\ apc = 0
         /\ fromModem' = Tail(fromModem) /\ fromModem' \in Seq(FromFrames)
BY DEF TypeOK, Receive, FromFrames

\* What the modem does to the line when it handles a frame.
LEMMA Handled ==
  ASSUME TypeOK, NEW f, Take(f)
  PROVE  /\ toModem # <<>> /\ Head(toModem) = f
         /\ toModem' = Tail(toModem) /\ toModem' \in Seq(Frames)
BY DEF TypeOK, Take, Frames

\* What the modem does to the line when it sends a frame.
LEMMA Replied ==
  ASSUME TypeOK, NEW f \in FromFrames, Answer(f)
  PROVE  /\ fromModem' \in Seq(FromFrames)
         /\ serialOpen => fromModem' = Append(fromModem, f)
         /\ ~serialOpen => fromModem' = fromModem
BY DEF TypeOK, Answer, FromFrames

\* The lines are lines of frames, both of them.
LEMMA Lines ==
  ASSUME TypeOK
  PROVE  /\ toModem \in Seq(Frames)
         /\ fromModem \in Seq(Frames) /\ fromModem \in Seq(FromFrames)
BY DEF TypeOK, Frames, FromFrames

\* The frames that are sent.
LEMMA FrameTypes ==
  ASSUME NEW c \in 0..Ports
  PROVE  /\ \A t \in {"SABM", "UA", "DM", "DISC", "CLD", "RSP", "TEST"} : Frame(t, c) \in Frames
         /\ \A t \in {"SABM", "UA", "DM", "DISC", "CLD", "RSP"} : Frame(t, c) \in FromFrames
         /\ 0 \in 0..Ports /\ c \in Chans \cup {0}
BY SessionAssumption DEF Frames, FromFrames, Frame, Chans

\* c_alloc_channel takes the first channel of ch_cfg without a pty.
LEMMA FirstFree ==
  ASSUME TypeOK, Chans \ fdOpen # {}
  PROVE  LET c == CHOOSE x \in Chans \ fdOpen : \A d \in Chans \ fdOpen : x <= d
         IN  c \in Chans \ fdOpen /\ \A d \in Chans \ fdOpen : c <= d
<1>1. Chans \ fdOpen \subseteq Nat
  BY SessionAssumption DEF Chans
<1>2. PICK x \in Chans \ fdOpen :
        \A d \in Chans \ fdOpen : ~(<<d, x>> \in OpToRel(<, Nat))
  BY <1>1, WFMin, NatLessThanWellFounded
<1>3. ASSUME NEW d \in Chans \ fdOpen PROVE x <= d
  <2>1. x \in Nat /\ d \in Nat /\ <<d, x>> \in Nat \X Nat
    BY <1>1
  <2>2. ~(d < x)
    BY <1>2, <2>1 DEF OpToRel
  <2> QED BY <2>1, <2>2
<1> QED BY <1>3

\* The channel that c_alloc_channel establishes.
LEMMA Allocated ==
  ASSUME TypeOK, c_alloc_channel
  PROVE  \E c \in Chans :
           /\ Chans \ fdOpen # {} => c \in Chans \ fdOpen /\ \A d \in Chans \ fdOpen : c <= d
           /\ fdOpen' = fdOpen \cup {c} /\ sabm_ua_pending' = sabm_ua_pending \cup {c}
           /\ Write(<<Frame("SABM", c)>>)
<1> DEFINE free == Chans \ fdOpen
           least == CHOOSE x \in free : \A d \in free : x <= d
           c == IF free = {} THEN Ports ELSE least
<1>1. free # {} => least \in free /\ \A d \in free : least <= d
  BY FirstFree
<1>2. logical_channel_establish(c)
  BY DEF c_alloc_channel
<1>3. Ports \in Chans
  BY SessionAssumption DEF Chans
<1> HIDE DEF least
<1>4. c \in Chans /\ (free # {} => c \in free /\ \A d \in free : c <= d)
  BY <1>1, <1>3
<1> QED BY <1>2, <1>4 DEF logical_channel_establish

LinesTyped == toModem \in Seq(Frames) /\ fromModem \in Seq(FromFrames)

\* The lines keep their type.
LEMMA NextLines ==
  ASSUME TypeOK, Next
  PROVE  LinesTyped'
<1>1. CASE OpenSerial
  BY <1>1, Lines DEF OpenSerial, line, LinesTyped
<1>2. CASE start_muxer
  BY <1>2, Sent, Lines, FrameTypes, SessionAssumption DEF start_muxer, LinesTyped
<1>3. CASE c_alloc_channel
  <2>1. PICK c \in Chans : Write(<<Frame("SABM", c)>>)
    BY <1>3, Allocated
  <2>2. c \in 0..Ports
    BY SessionAssumption DEF Chans
  <2> QED BY <1>3, <2>1, <2>2, Lines, FrameTypes, Sent DEF c_alloc_channel, LinesTyped
<1>4. CASE AllocFails
  BY <1>4, Lines DEF AllocFails, line, LinesTyped
<1>5. CASE WaitForSetup
  BY <1>5, Lines DEF WaitForSetup, line, LinesTyped
<1>6. CASE StartRild
  BY <1>6, Lines DEF StartRild, line, LinesTyped
<1>7. CASE Muxing
  BY <1>7, Lines DEF Muxing, line, LinesTyped
<1>8. CASE Ping
  BY <1>8, Sent, Lines, FrameTypes, SessionAssumption DEF Ping, LinesTyped
<1>9. CASE CloseBegin
  BY <1>9, Lines DEF CloseBegin, line, LinesTyped
<1>10. CASE SendDisc
  <2>1. i \in 0..Ports
    BY <1>10, SessionAssumption DEF SendDisc, TypeOK
  <2> QED BY <1>10, <2>1, Sent, Lines, FrameTypes DEF SendDisc, LinesTyped
<1>11. CASE WaitForUa
  BY <1>11, Lines DEF WaitForUa, line, LinesTyped
<1>12. CASE UaTimeout
  BY <1>12, Lines DEF UaTimeout, line, LinesTyped
<1>13. CASE CloseEnd
  BY <1>13, Sent, Lines, FrameTypes, SessionAssumption DEF CloseEnd, LinesTyped
<1>14. CASE shutdown_devices
  BY <1>14, Sent, Lines, FrameTypes, SessionAssumption DEF shutdown_devices, LinesTyped
<1>15. CASE StartFails
  BY <1>15, Lines DEF StartFails, line, LinesTyped
<1>16. CASE SpuriousWakeup
  BY <1>16, Lines DEF SpuriousWakeup, line, LinesTyped
<1>17. CASE DiscCloses
  BY <1>17, Lines DEF DiscCloses, line, LinesTyped
<1>18. CASE HandleCld
  BY <1>18, Sent, Received, Lines, FrameTypes, SessionAssumption DEF HandleCld, LinesTyped
<1>19. CASE HandleRsp
  BY <1>19, Received, Lines, FrameTypes, SessionAssumption DEF HandleRsp, LinesTyped
<1>20. ASSUME NEW c \in 0..Ports, UaOpens(c) PROVE LinesTyped'
  BY <1>20, Received, Lines, FrameTypes, SessionAssumption DEF UaOpens, LinesTyped
<1>21. ASSUME NEW c \in 0..Ports, UaCloses(c) PROVE LinesTyped'
  BY <1>21, Received, Lines, FrameTypes, SessionAssumption DEF UaCloses, LinesTyped
<1>22. ASSUME NEW c \in 0..Ports, UaIgnored(c) PROVE LinesTyped'
  BY <1>22, Received, Lines, FrameTypes, SessionAssumption DEF UaIgnored, LinesTyped
<1>23. ASSUME NEW c \in 0..Ports, DmCloses(c) PROVE LinesTyped'
  BY <1>23, Received, Lines, FrameTypes, SessionAssumption DEF DmCloses, LinesTyped
<1>24. ASSUME NEW c \in 0..Ports, DmRefuses(c) PROVE LinesTyped'
  BY <1>24, Received, Lines, FrameTypes, SessionAssumption DEF DmRefuses, LinesTyped
<1>25. ASSUME NEW c \in 0..Ports, HandleDisc(c) PROVE LinesTyped'
  BY <1>25, Sent, Received, Lines, FrameTypes, SessionAssumption DEF HandleDisc, LinesTyped
<1>26. ASSUME NEW c \in 0..Ports, HandleSabm(c) PROVE LinesTyped'
  BY <1>26, Sent, Received, Lines, FrameTypes, SessionAssumption DEF HandleSabm, LinesTyped
<1>27. ASSUME NEW c \in Chans, PtyCloses(c) PROVE LinesTyped'
  BY <1>27, Lines DEF PtyCloses, line, LinesTyped
<1>28. ASSUME NEW c \in 0..Ports, ModemAccepts(c) PROVE LinesTyped'
  BY <1>28, Handled, Replied, Lines, FrameTypes, SessionAssumption DEF ModemAccepts, LinesTyped
<1>29. ASSUME NEW c \in 0..Ports, ModemRefuses(c) PROVE LinesTyped'
  BY <1>29, Handled, Replied, Lines, FrameTypes, SessionAssumption DEF ModemRefuses, LinesTyped
<1>30. ASSUME NEW c \in 0..Ports, ModemCloses(c) PROVE LinesTyped'
  BY <1>30, Handled, Replied, Lines, FrameTypes, SessionAssumption DEF ModemCloses, LinesTyped
<1>31. ASSUME NEW c \in 0..Ports, NEW t \in {"UA", "DM", "RSP", "TEST", "CLD"},
             ModemHandles(Frame(t, c))
      PROVE  LinesTyped'
  BY <1>31, Handled, Replied, Lines, FrameTypes, SessionAssumption DEF ModemHandles, LinesTyped
<1>32. ASSUME NEW c \in 0..Ports, NEW t \in {"DISC", "SABM", "CLD"}, ModemRequests(t, c)
      PROVE  LinesTyped'
  BY <1>32, Replied, Lines, FrameTypes, SessionAssumption DEF ModemRequests, LinesTyped
<1> QED
  BY <1>1, <1>2, <1>3, <1>4, <1>5, <1>6, <1>7, <1>8, <1>9, <1>10, <1>11, <1>12,
     <1>13, <1>14, <1>15, <1>16, <1>17, <1>18, <1>19, <1>20, <1>21, <1>22, <1>23,
     <1>24, <1>25, <1>26, <1>27, <1>28, <1>29, <1>30, <1>31, <1>32
     DEF Next, watchdog, extract_frames, Modem

\* The type invariant without the lines.
Plain ==
  /\ state \in {"OPENING", "INITILIZING", "MUXING", "CLOSING", "PEER_CLOSING"}
  /\ serialOpen \in BOOLEAN /\ ping_number \in 0..(use_ping + 1)
  /\ fdOpen \subseteq Chans /\ reopen \subseteq Chans
  /\ opened \subseteq 0..Ports /\ sabm_ua_pending \subseteq 0..Ports
  /\ disc_ua_pending \subseteq Chans
  /\ mux_setup_chnl_complete \in BOOLEAN /\ LackofAtciChannel \in BOOLEAN
  /\ sabm_ua_received \in Nat
  /\ rild_started \in BOOLEAN /\ close_down \in BOOLEAN
  /\ mpc \in {"idle", "start", "alloc", "wait", "start_rild", "ping", "disc", "uawait", "cld",
              "exit"}
  /\ i \in 1..(Ports + 1) /\ num_disc_sent \in 0..Ports /\ apc \in 0..Ports
  /\ modemOpen \subseteq 0..Ports /\ asked \subseteq 0..Ports
  /\ sessions \in 0..MaxSessions /\ peer \in 0..MaxPeer /\ hangups \in 0..MaxHangups
  /\ silent \in 0..(use_ping + 1)
  /\ seen \subseteq {"wakeup", "refusal", "DISC", "SABM", "CLD"}

\* The type invariant is that of the lines and that of the other variables.
LEMMA TypeParts ==
  TypeOK <=> Plain /\ LinesTyped
BY DEF TypeOK, Plain, LinesTyped, Frames, FromFrames

\* Every step keeps the other variables' types, and with them what bounds the
\* counters of watchdog() and what its place tells about the serial line.
LEMMA NextPlain ==
  ASSUME TypeOK, Plain, Counts, Next
  PROVE  Plain' /\ Counts'
<1>1. CASE OpenSerial
  BY <1>1, SessionAssumption DEF OpenSerial, Plain, Counts, Chans, logical_channel_close,
     setup, modem
<1>2. CASE start_muxer
  BY <1>2, SessionAssumption DEF start_muxer, Plain, Counts, Chans, setup, bounds
<1>3. CASE c_alloc_channel
  <2>1. PICK c \in Chans :
          fdOpen' = fdOpen \cup {c} /\ sabm_ua_pending' = sabm_ua_pending \cup {c}
    BY <1>3, Allocated
  <2>2. c \in 0..Ports /\ i' \in 1..(Ports + 1)
    BY <1>3, SessionAssumption DEF Chans, Plain, c_alloc_channel
  <2>3. Plain'
    BY <1>3, <2>1, <2>2 DEF c_alloc_channel, Plain, setup, serial, modem, bounds
  <2>4. Counts'
    BY <1>3 DEF c_alloc_channel, Plain, Counts, setup, serial, modem, bounds
  <2> QED BY <2>3, <2>4
<1>4. CASE AllocFails
  BY <1>4, SessionAssumption DEF AllocFails, Plain, Counts, Chans, chan, setup, serial, modem,
     bounds
<1>5. CASE WaitForSetup
  BY <1>5, SessionAssumption DEF WaitForSetup, Plain, Counts, Chans, chan, setup, serial,
     modem, bounds
<1>6. CASE StartRild
  BY <1>6, SessionAssumption DEF StartRild, Plain, Counts, Chans, chan, setup, serial, modem,
     bounds
<1>7. CASE Muxing
  <2>1. CASE use_ping > 0
    <3>1. Plain'
      BY <2>1, <1>7, SessionAssumption DEF Muxing, Plain, Counts, Chans, setup, serial, modem,
         bounds
    <3>2. Counts'
      BY <2>1, <1>7, SessionAssumption DEF Muxing, Plain, Counts, Chans, setup, serial, modem,
         bounds
    <3> QED BY <3>1, <3>2
  <2>2. CASE ~(use_ping > 0)
    <3>1. Plain'
      BY <2>2, <1>7, SessionAssumption DEF Muxing, Plain, Counts, Chans, setup, serial, modem,
         bounds
    <3>2. Counts'
      BY <2>2, <1>7, SessionAssumption DEF Muxing, Plain, Counts, Chans, setup, serial, modem,
         bounds
    <3> QED BY <3>1, <3>2
  <2> QED BY <2>1, <2>2
<1>8. CASE Ping
  BY <1>8, SessionAssumption DEF Ping, Plain, Counts, Chans, chan, setup, modem, bounds
<1>9. CASE CloseBegin
  BY <1>9, SessionAssumption DEF CloseBegin, Plain, Counts, Chans, chan, setup, serial, modem,
     bounds
<1>10. CASE SendDisc
  <2>1. i \in Chans /\ i' \in 1..(Ports + 1) /\ i' = i + 1
    BY <1>10, SessionAssumption DEF Chans, Plain, SendDisc
  <2>2. disc_ua_pending' \subseteq disc_ua_pending \cup {i}
    BY <1>10 DEF SendDisc
  <2>3. num_disc_sent' \in 0..Ports /\ num_disc_sent' <= i' - 1
    BY <1>10, <2>1, SessionAssumption DEF SendDisc, Plain, Counts, Chans
  <2>4. Plain'
    BY <1>10, <2>1, <2>2, <2>3 DEF SendDisc, Plain, setup, serial, modem, bounds
  <2>5. Counts'
    BY <1>10, <2>3 DEF SendDisc, Plain, Counts, setup, serial, modem, bounds
  <2> QED BY <2>4, <2>5
<1>11. CASE WaitForUa
  <2>1. CASE serialOpen /\ num_disc_sent > 0
    <3>1. Plain'
      BY <2>1, <1>11, SessionAssumption DEF WaitForUa, Plain, Counts, Chans, chan, setup,
         serial, modem, bounds
    <3>2. Counts'
      BY <2>1, <1>11, SessionAssumption DEF WaitForUa, Plain, Counts, Chans, chan, setup,
         serial, modem, bounds
    <3> QED BY <3>1, <3>2
  <2>2. CASE ~(serialOpen /\ num_disc_sent > 0)
    <3>1. Plain'
      BY <2>2, <1>11, SessionAssumption DEF WaitForUa, Plain, Counts, Chans, chan, setup,
         serial, modem, bounds
    <3>2. Counts'
      BY <2>2, <1>11, SessionAssumption DEF WaitForUa, Plain, Counts, Chans, chan, setup,
         serial, modem, bounds
    <3> QED BY <3>1, <3>2
  <2> QED BY <2>1, <2>2
<1>12. CASE UaTimeout
  BY <1>12, SessionAssumption DEF UaTimeout, Plain, Counts, Chans, chan, setup, serial, modem,
     bounds
<1>13. CASE CloseEnd
  BY <1>13, SessionAssumption DEF CloseEnd, Plain, Counts, Chans, chan, setup, modem, bounds
<1>14. CASE shutdown_devices
  BY <1>14, SessionAssumption DEF shutdown_devices, Plain, Counts, Chans,
     logical_channel_close, setup, dog, modem, bounds
<1>15. CASE StartFails
  BY <1>15, SessionAssumption DEF StartFails, Plain, Counts, Chans, chan, setup, serial,
     modem, bounds
<1>16. CASE SpuriousWakeup
  BY <1>16, SessionAssumption DEF SpuriousWakeup, Plain, Counts, Chans, chan, setup, serial,
     modem
<1>17. CASE DiscCloses
  BY <1>17, SessionAssumption DEF DiscCloses, Plain, Counts, Chans, logical_channel_close,
     setup, dog, serial, modem, bounds
<1>18. CASE HandleCld
  BY <1>18, Received, SessionAssumption DEF HandleCld, Plain, Counts, Chans, chan, setup, dog,
     modem, bounds
<1>19. CASE HandleRsp
  BY <1>19, Received, SessionAssumption DEF HandleRsp, Plain, Counts, Chans, chan, setup, dog,
     serial, modem, bounds
<1>20. ASSUME NEW c \in 0..Ports, UaOpens(c) PROVE Plain' /\ Counts'
  <2>1. CASE SetupComplete(sabm_ua_received')
    <3>1. Plain'
      BY <2>1, <1>20, Received, SessionAssumption DEF UaOpens, Plain, Counts, Chans,
         SetupComplete, serial, modem, bounds
    <3>2. Counts'
      BY <2>1, <1>20, Received, SessionAssumption DEF UaOpens, Plain, Counts, Chans,
         SetupComplete, serial, modem, bounds
    <3> QED BY <3>1, <3>2
  <2>2. CASE ~SetupComplete(sabm_ua_received')
    <3>1. Plain'
      BY <2>2, <1>20, Received, SessionAssumption DEF UaOpens, Plain, Counts, Chans,
         SetupComplete, serial, modem, bounds
    <3>2. Counts'
      BY <2>2, <1>20, Received, SessionAssumption DEF UaOpens, Plain, Counts, Chans,
         SetupComplete, serial, modem, bounds
    <3> QED BY <3>1, <3>2
  <2> QED BY <2>1, <2>2
<1>21. ASSUME NEW c \in 0..Ports, UaCloses(c) PROVE Plain' /\ Counts'
  <2>1. CASE close_down /\ disc_ua_pending' \cap Chans = {} /\ mpc = "uawait"
    <3>1. Plain'
      BY <2>1, <1>21, Received, SessionAssumption DEF UaCloses, Plain, Counts, Chans,
         logical_channel_close, setup, serial, modem, bounds
    <3>2. Counts'
      BY <2>1, <1>21, Received, SessionAssumption DEF UaCloses, Plain, Counts, Chans,
         logical_channel_close, setup, serial, modem, bounds
    <3> QED BY <3>1, <3>2
  <2>2. CASE ~(close_down /\ disc_ua_pending' \cap Chans = {} /\ mpc = "uawait")
    <3>1. Plain'
      BY <2>2, <1>21, Received, SessionAssumption DEF UaCloses, Plain, Counts, Chans,
         logical_channel_close, setup, serial, modem, bounds
    <3>2. Counts'
      BY <2>2, <1>21, Received, SessionAssumption DEF UaCloses, Plain, Counts, Chans,
         logical_channel_close, setup, serial, modem, bounds
    <3> QED BY <3>1, <3>2
  <2> QED BY <2>1, <2>2
<1>22. ASSUME NEW c \in 0..Ports, UaIgnored(c) PROVE Plain' /\ Counts'
  BY <1>22, Received, SessionAssumption DEF UaIgnored, Plain, Counts, Chans, setup, dog,
     serial, modem, bounds
<1>23. ASSUME NEW c \in 0..Ports, DmCloses(c) PROVE Plain' /\ Counts'
  BY <1>23, Received, SessionAssumption DEF DmCloses, Plain, Counts, Chans,
     logical_channel_close, setup, dog, serial, modem, bounds
<1>24. ASSUME NEW c \in 0..Ports, DmRefuses(c) PROVE Plain' /\ Counts'
  <2>1. CASE c = ATCI
    <3>1. Plain'
      BY <2>1, <1>24, Received, SessionAssumption DEF DmRefuses, Plain, Counts, Chans, chan,
         modem, bounds
    <3>2. Counts'
      BY <2>1, <1>24, Received, SessionAssumption DEF DmRefuses, Plain, Counts, Chans, chan,
         modem, bounds
    <3> QED BY <3>1, <3>2
  <2>2. CASE c # ATCI
    <3>1. Plain'
      BY <2>2, <1>24, Received, SessionAssumption DEF DmRefuses, Plain, Counts, Chans, chan,
         modem, bounds
    <3>2. Counts'
      BY <2>2, <1>24, Received, SessionAssumption DEF DmRefuses, Plain, Counts, Chans, chan,
         modem, bounds
    <3> QED BY <3>1, <3>2
  <2> QED BY <2>1, <2>2
<1>25. ASSUME NEW c \in 0..Ports, HandleDisc(c) PROVE Plain' /\ Counts'
  <2>1. CASE c \in opened
    <3>1. Plain'
      BY <2>1, <1>25, Received, SessionAssumption DEF HandleDisc, Plain, Counts, Chans, setup,
         dog, modem, bounds
    <3>2. Counts'
      BY <2>1, <1>25, Received, SessionAssumption DEF HandleDisc, Plain, Counts, Chans, setup,
         dog, modem, bounds
    <3> QED BY <3>1, <3>2
  <2>2. CASE c \notin opened
    <3>1. Plain'
      BY <2>2, <1>25, Received, SessionAssumption DEF HandleDisc, Plain, Counts, Chans, setup,
         dog, modem, bounds
    <3>2. Counts'
      BY <2>2, <1>25, Received, SessionAssumption DEF HandleDisc, Plain, Counts, Chans, setup,
         dog, modem, bounds
    <3> QED BY <3>1, <3>2
  <2> QED BY <2>1, <2>2
<1>26. ASSUME NEW c \in 0..Ports, HandleSabm(c) PROVE Plain' /\ Counts'
  BY <1>26, Received, SessionAssumption DEF HandleSabm, Plain, Counts, Chans, setup, dog,
     serial, modem, bounds
<1>27. ASSUME NEW c \in Chans, PtyCloses(c) PROVE Plain' /\ Counts'
  BY <1>27, SessionAssumption DEF PtyCloses, Plain, Counts, Chans, setup, dog, serial, modem
<1>28. ASSUME NEW c \in 0..Ports, ModemAccepts(c) PROVE Plain' /\ Counts'
  BY <1>28, SessionAssumption DEF ModemAccepts, Plain, Counts, Chans, chan, setup, dog,
     serial, Daemon
<1>29. ASSUME NEW c \in 0..Ports, ModemRefuses(c) PROVE Plain' /\ Counts'
  BY <1>29, SessionAssumption DEF ModemRefuses, Plain, Counts, Chans, chan, setup, dog,
     serial, modem, Daemon
<1>30. ASSUME NEW c \in 0..Ports, ModemCloses(c) PROVE Plain' /\ Counts'
  BY <1>30, SessionAssumption DEF ModemCloses, Plain, Counts, Chans, chan, setup, dog, serial,
     Daemon
<1>31. ASSUME NEW c \in 0..Ports, NEW t \in {"UA", "DM", "RSP", "TEST", "CLD"},
             ModemHandles(Frame(t, c))
      PROVE  Plain' /\ Counts'
  <2>1. Plain'
    BY <1>31, SessionAssumption DEF ModemHandles, Plain, Counts, Chans, chan, setup, dog,
       serial, Daemon
  <2>2. Counts'
    BY <1>31, SessionAssumption DEF ModemHandles, Plain, Counts, Chans, chan, setup, dog,
       serial, Daemon
  <2> QED BY <2>1, <2>2
<1>32. ASSUME NEW c \in 0..Ports, NEW t \in {"DISC", "SABM", "CLD"}, ModemRequests(t, c)
      PROVE  Plain' /\ Counts'
  <2>1. modemOpen' \subseteq 0..Ports /\ asked' \subseteq 0..Ports
    BY <1>32 DEF ModemRequests, Plain
  <2>2. peer' \in 0..MaxPeer
    BY <1>32, SessionAssumption DEF ModemRequests, Plain
  <2>3. seen' \subseteq {"wakeup", "refusal", "DISC", "SABM", "CLD"} /\ seen \subseteq seen'
    BY <1>32 DEF ModemRequests, Plain
  <2>4. Plain'
    BY <1>32, <2>1, <2>2, <2>3 DEF ModemRequests, Plain, Daemon, chan, setup, dog, serial
  <2>5. Counts'
    BY <1>32, <2>3 DEF ModemRequests, Plain, Counts, Daemon, chan, setup, dog, serial
  <2> QED BY <2>4, <2>5
<1> QED
  BY <1>1, <1>2, <1>3, <1>4, <1>5, <1>6, <1>7, <1>8, <1>9, <1>10, <1>11, <1>12,
     <1>13, <1>14, <1>15, <1>16, <1>17, <1>18, <1>19, <1>20, <1>21, <1>22, <1>23,
     <1>24, <1>25, <1>26, <1>27, <1>28, <1>29, <1>30, <1>31, <1>32
     DEF Next, watchdog, extract_frames, Modem

\* OpenSerial is the only step of the daemon that is not started, and
\* start_muxer or a failure the next one.
LEMMA NextFresh ==
  ASSUME TypeOK, Plain, Counts, Fresh, Next
  PROVE  Fresh'
<1>1. CASE OpenSerial
  BY <1>1, SessionAssumption DEF OpenSerial, Fresh, Pristine, logical_channel_close, setup,
     line, modem, Plain
<1>2. CASE start_muxer
  BY <1>2 DEF start_muxer, Fresh, Pristine, setup, bounds
<1>3. CASE c_alloc_channel
  BY <1>3 DEF c_alloc_channel, Fresh, Pristine, setup, serial, modem, bounds
<1>4. CASE AllocFails
  BY <1>4 DEF AllocFails, Fresh, Pristine, chan, setup, serial, line, modem, bounds
<1>5. CASE WaitForSetup
  BY <1>5 DEF WaitForSetup, Fresh, Pristine, chan, setup, serial, line, modem, bounds
<1>6. CASE StartRild
  BY <1>6 DEF StartRild, Fresh, Pristine, chan, setup, serial, line, modem, bounds
<1>7. CASE Muxing
  BY <1>7, SessionAssumption DEF Muxing, Fresh, Pristine, setup, serial, line, modem, bounds,
     Plain
<1>8. CASE Ping
  BY <1>8 DEF Ping, Fresh, Pristine, chan, setup, modem, bounds
<1>9. CASE CloseBegin
  BY <1>9 DEF CloseBegin, Fresh, Pristine, chan, setup, serial, line, modem, bounds
<1>10. CASE SendDisc
  BY <1>10 DEF SendDisc, Fresh, Pristine, setup, serial, modem, bounds
<1>11. CASE WaitForUa
  BY <1>11 DEF WaitForUa, Fresh, Pristine, chan, setup, serial, line, modem, bounds
<1>12. CASE UaTimeout
  BY <1>12 DEF UaTimeout, Fresh, Pristine, chan, setup, serial, line, modem, bounds
<1>13. CASE CloseEnd
  BY <1>13 DEF CloseEnd, Fresh, Pristine, chan, setup, modem, bounds
<1>14. CASE shutdown_devices
  BY <1>14 DEF shutdown_devices, Fresh, Pristine, logical_channel_close, setup, dog, modem,
     bounds
<1>15. CASE StartFails
  BY <1>15 DEF StartFails, Fresh, Pristine, chan, setup, serial, line, modem, bounds
<1>16. CASE SpuriousWakeup
  BY <1>16 DEF SpuriousWakeup, Fresh, Pristine, chan, setup, serial, line, modem
<1>17. CASE DiscCloses
  BY <1>17 DEF DiscCloses, Fresh, Pristine, logical_channel_close, setup, dog, serial, line,
     modem, bounds
<1>18. CASE HandleCld
  BY <1>18 DEF HandleCld, Fresh, Pristine, Receive, chan, setup, dog, modem, bounds
<1>19. CASE HandleRsp
  BY <1>19 DEF HandleRsp, Fresh, Pristine, Receive, chan, setup, dog, serial, modem, bounds
<1>20. ASSUME NEW c \in 0..Ports, UaOpens(c) PROVE Fresh'
  BY <1>20 DEF UaOpens, Fresh, Pristine, Receive, SetupComplete, serial, modem, bounds
<1>21. ASSUME NEW c \in 0..Ports, UaCloses(c) PROVE Fresh'
  BY <1>21 DEF UaCloses, Fresh, Pristine, Receive, logical_channel_close, setup, serial,
     modem, bounds
<1>22. ASSUME NEW c \in 0..Ports, UaIgnored(c) PROVE Fresh'
  BY <1>22 DEF UaIgnored, Fresh, Pristine, Receive, setup, dog, serial, modem, bounds
<1>23. ASSUME NEW c \in 0..Ports, DmCloses(c) PROVE Fresh'
  BY <1>23 DEF DmCloses, Fresh, Pristine, Receive, logical_channel_close, setup, dog, serial,
     modem, bounds
<1>24. ASSUME NEW c \in 0..Ports, DmRefuses(c) PROVE Fresh'
  BY <1>24 DEF DmRefuses, Fresh, Pristine, Receive, chan, modem, bounds
<1>25. ASSUME NEW c \in 0..Ports, HandleDisc(c) PROVE Fresh'
  BY <1>25 DEF HandleDisc, Fresh, Pristine, Receive, setup, dog, modem, bounds
<1>26. ASSUME NEW c \in 0..Ports, HandleSabm(c) PROVE Fresh'
  BY <1>26 DEF HandleSabm, Fresh, Pristine, Receive, setup, dog, serial, modem, bounds
<1>27. ASSUME NEW c \in Chans, PtyCloses(c) PROVE Fresh'
  BY <1>27 DEF PtyCloses, Fresh, Pristine, setup, dog, serial, line, modem
<1>28. ASSUME NEW c \in 0..Ports, ModemAccepts(c) PROVE Fresh'
  BY <1>28 DEF ModemAccepts, Fresh, Pristine, Take, chan, setup, dog, serial, Daemon
<1>29. ASSUME NEW c \in 0..Ports, ModemRefuses(c) PROVE Fresh'
  BY <1>29 DEF ModemRefuses, Fresh, Pristine, Take, chan, setup, dog, serial, modem, Daemon
<1>30. ASSUME NEW c \in 0..Ports, ModemCloses(c) PROVE Fresh'
  BY <1>30 DEF ModemCloses, Fresh, Pristine, Take, chan, setup, dog, serial, Daemon
<1>31. ASSUME NEW c \in 0..Ports, NEW t \in {"UA", "DM", "RSP", "TEST", "CLD"},
             ModemHandles(Frame(t, c))
      PROVE  Fresh'
  BY <1>31 DEF ModemHandles, Fresh, Pristine, Take, chan, setup, dog, serial, Daemon
<1>32. ASSUME NEW c \in 0..Ports, NEW t \in {"DISC", "SABM", "CLD"}, ModemRequests(t, c)
      PROVE  Fresh'
  BY <1>32 DEF ModemRequests, Fresh, Pristine, chan, setup, dog, serial, Daemon
<1> QED
  BY <1>1, <1>2, <1>3, <1>4, <1>5, <1>6, <1>7, <1>8, <1>9, <1>10, <1>11, <1>12,
     <1>13, <1>14, <1>15, <1>16, <1>17, <1>18, <1>19, <1>20, <1>21, <1>22, <1>23,
     <1>24, <1>25, <1>26, <1>27, <1>28, <1>29, <1>30, <1>31, <1>32
     DEF Next, watchdog, extract_frames, Modem

\* The flags of the channels are finite sets, of which closing takes some away.
LEMMA Fewer ==
  ASSUME NEW S, S \subseteq 0..Ports, NEW T
  PROVE  /\ IsFiniteSet(S) /\ Cardinality(S) \in Nat /\ Cardinality(S \ T) \in Nat
         /\ Cardinality(S \ T) <= Cardinality(S)
<1>1. IsFiniteSet(0..Ports)
  BY FS_Interval, SessionAssumption
<1>2. IsFiniteSet(S) /\ IsFiniteSet(S \ T)
  BY <1>1, FS_Subset
<1> QED BY <1>2, FS_Subset, FS_CardinalityType

\* Establishing a channel adds at most one.
LEMMA OneMore ==
  ASSUME NEW S, S \subseteq 0..Ports, NEW c \in 0..Ports
  PROVE  /\ Cardinality(S) \in Nat /\ Cardinality(S \cup {c}) \in Nat
         /\ Cardinality(S \cup {c}) <= Cardinality(S) + 1
         /\ c \notin S => Cardinality(S \cup {c}) = Cardinality(S) + 1
<1>1. IsFiniteSet(S) /\ S \cup {c} \subseteq 0..Ports
  BY Fewer
<1>2. Cardinality(S) \in Nat /\ Cardinality(S \cup {c}) \in Nat
  BY <1>1, Fewer
<1>3. c \in S => S \cup {c} = S
  OBVIOUS
<1>4. c \notin S => Cardinality(S \cup {c}) = Cardinality(S) + 1
  BY <1>1, FS_AddElement
<1> QED BY <1>2, <1>3, <1>4

\* Opening a channel takes away one.
LEMMA OneLess ==
  ASSUME NEW S, S \subseteq 0..Ports, NEW c \in S
  PROVE  Cardinality(S \ {c}) = Cardinality(S) - 1
BY Fewer, FS_RemoveElement

\* A UA counts once for each SABM.
LEMMA NextCounted ==
  ASSUME TypeOK, Plain, Counts, Fresh, Counted, Next
  PROVE  Counted'
<1>1. CASE OpenSerial
  <2> SUFFICES ASSUME sessions' = 1 PROVE Counted'
    BY DEF Counted
  <2>1. sessions = 0
    BY <1>1, SessionAssumption DEF OpenSerial, Plain
  <2>2. sabm_ua_pending' = {} /\ sabm_ua_received' = 0 /\ mpc' = "start"
    BY <1>1, <2>1 DEF OpenSerial, logical_channel_close, Fresh, Pristine, setup
  <2> QED BY <2>2, FS_EmptySet, SessionAssumption DEF Counted
<1>2. CASE start_muxer
  <2> SUFFICES ASSUME sessions = 1 PROVE Counted'
    BY <1>2 DEF start_muxer, Counted, bounds
  <2>1. sabm_ua_pending' = {0} /\ sabm_ua_received' = 0 /\ i' = 1
    BY <1>2 DEF start_muxer, Fresh, Pristine, setup
  <2>2. Cardinality({0}) = 1
    BY FS_Singleton
  <2> QED BY <2>1, <2>2, SessionAssumption DEF Counted
<1>3. CASE c_alloc_channel
  <2>1. PICK c \in Chans : sabm_ua_pending' = sabm_ua_pending \cup {c}
    BY <1>3, Allocated
  <2>2. /\ Cardinality(sabm_ua_pending') <= Cardinality(sabm_ua_pending) + 1
        /\ Cardinality(sabm_ua_pending') \in Nat /\ Cardinality(sabm_ua_pending) \in Nat
    <3>1. c \in 0..Ports /\ sabm_ua_pending \subseteq 0..Ports
      BY SessionAssumption DEF Plain, Chans
    <3> QED BY <2>1, <3>1, OneMore
  <2>3. mpc = "alloc" /\ mpc' = mpc /\ i' = i + 1 /\ i <= Ports /\ i \in Nat
    BY <1>3, SessionAssumption DEF c_alloc_channel, Plain
  <2>4. sessions' = sessions /\ sabm_ua_received' = sabm_ua_received /\ sabm_ua_received \in Nat
    BY <1>3 DEF c_alloc_channel, setup, bounds, Plain
  <2> QED BY <2>2, <2>3, <2>4, SessionAssumption DEF Counted
<1>4. CASE AllocFails
  BY <1>4, SessionAssumption DEF AllocFails, Counted, Plain, chan, setup, bounds
<1>5. CASE WaitForSetup
  BY <1>5, SessionAssumption DEF WaitForSetup, Counted, Plain, chan, setup, bounds
<1>6. CASE StartRild
  BY <1>6, SessionAssumption DEF StartRild, Counted, Plain, chan, setup, bounds
<1>7. CASE Muxing
  BY <1>7, SessionAssumption DEF Muxing, Counted, Plain, setup, bounds
<1>8. CASE Ping
  BY <1>8, SessionAssumption DEF Ping, Counted, Plain, chan, setup, bounds
<1>9. CASE CloseBegin
  BY <1>9, SessionAssumption DEF CloseBegin, Counted, Plain, chan, setup, bounds
<1>10. CASE SendDisc
  BY <1>10, SessionAssumption DEF SendDisc, Counted, Plain, setup, bounds
<1>11. CASE WaitForUa
  BY <1>11, SessionAssumption DEF WaitForUa, Counted, Plain, chan, setup, bounds
<1>12. CASE UaTimeout
  BY <1>12, SessionAssumption DEF UaTimeout, Counted, Plain, chan, setup, bounds
<1>13. CASE CloseEnd
  BY <1>13, SessionAssumption DEF CloseEnd, Counted, Plain, chan, setup, bounds
<1>14. CASE shutdown_devices
  <2>1. sabm_ua_pending' = sabm_ua_pending \ (Chans \cap fdOpen \cap opened)
    BY <1>14 DEF shutdown_devices, logical_channel_close
  <2>2. Cardinality(sabm_ua_pending') <= Cardinality(sabm_ua_pending)
    BY <2>1, Fewer DEF Plain
  <2>3. Cardinality(sabm_ua_pending') \in Nat /\ Cardinality(sabm_ua_pending) \in Nat
    BY <2>1, Fewer DEF Plain
  <2> QED BY <1>14, <2>2, <2>3, SessionAssumption DEF shutdown_devices, Counted, Plain, setup,
       dog, bounds
<1>15. CASE StartFails
  BY <1>15, SessionAssumption DEF StartFails, Counted, Plain, chan, setup, bounds
<1>16. CASE SpuriousWakeup
  BY <1>16, SessionAssumption DEF SpuriousWakeup, Counted, Plain, chan, setup
<1>17. CASE DiscCloses
  <2>1. sabm_ua_pending' = sabm_ua_pending \ {apc}
    BY <1>17 DEF DiscCloses, logical_channel_close
  <2>2. Cardinality(sabm_ua_pending') <= Cardinality(sabm_ua_pending)
    BY <2>1, Fewer DEF Plain
  <2>3. Cardinality(sabm_ua_pending') \in Nat /\ Cardinality(sabm_ua_pending) \in Nat
    BY <2>1, Fewer DEF Plain
  <2> QED BY <1>17, <2>2, <2>3, SessionAssumption DEF DiscCloses, Counted, Plain, setup, dog,
       bounds
<1>18. CASE HandleCld
  BY <1>18, SessionAssumption DEF HandleCld, Counted, Plain, chan, setup, dog, bounds
<1>19. CASE HandleRsp
  BY <1>19, SessionAssumption DEF HandleRsp, Counted, Plain, chan, setup, dog, bounds
<1>20. ASSUME NEW c \in 0..Ports, UaOpens(c) PROVE Counted'
  <2>1. sabm_ua_pending' = sabm_ua_pending \ {c} /\ c \in sabm_ua_pending
    BY <1>20 DEF UaOpens
  <2>2. /\ Cardinality(sabm_ua_pending') = Cardinality(sabm_ua_pending) - 1
        /\ Cardinality(sabm_ua_pending') \in Nat /\ Cardinality(sabm_ua_pending) \in Nat
    BY <2>1, OneLess, Fewer DEF Plain
  <2>3. /\ sessions' = sessions /\ i' = i /\ (mpc' = "alloc" => mpc = "alloc")
        /\ sabm_ua_received' = sabm_ua_received + 1
    BY <1>20 DEF UaOpens, bounds
  <2> QED BY <2>2, <2>3, SessionAssumption DEF Counted, Plain
<1>21. ASSUME NEW c \in 0..Ports, UaCloses(c) PROVE Counted'
  <2>1. sabm_ua_pending' = sabm_ua_pending \ ({c} \cap disc_ua_pending)
    BY <1>21 DEF UaCloses, logical_channel_close
  <2>2. Cardinality(sabm_ua_pending') <= Cardinality(sabm_ua_pending)
    BY <2>1, Fewer DEF Plain
  <2>3. Cardinality(sabm_ua_pending') \in Nat /\ Cardinality(sabm_ua_pending) \in Nat
    BY <2>1, Fewer DEF Plain
  <2> QED BY <1>21, <2>2, <2>3, SessionAssumption DEF UaCloses, Counted, Plain, setup, bounds
<1>22. ASSUME NEW c \in 0..Ports, UaIgnored(c) PROVE Counted'
  BY <1>22, SessionAssumption DEF UaIgnored, Counted, Plain, setup, dog, bounds
<1>23. ASSUME NEW c \in 0..Ports, DmCloses(c) PROVE Counted'
  <2>1. sabm_ua_pending' = sabm_ua_pending \ {c}
    BY <1>23 DEF DmCloses, logical_channel_close
  <2>2. Cardinality(sabm_ua_pending') <= Cardinality(sabm_ua_pending)
    BY <2>1, Fewer DEF Plain
  <2>3. Cardinality(sabm_ua_pending') \in Nat /\ Cardinality(sabm_ua_pending) \in Nat
    BY <2>1, Fewer DEF Plain
  <2> QED BY <1>23, <2>2, <2>3, SessionAssumption DEF DmCloses, Counted, Plain, setup, dog,
       bounds
<1>24. ASSUME NEW c \in 0..Ports, DmRefuses(c) PROVE Counted'
  BY <1>24, SessionAssumption DEF DmRefuses, Counted, Plain, chan, bounds
<1>25. ASSUME NEW c \in 0..Ports, HandleDisc(c) PROVE Counted'
  BY <1>25, SessionAssumption DEF HandleDisc, Counted, Plain, setup, dog, bounds
<1>26. ASSUME NEW c \in 0..Ports, HandleSabm(c) PROVE Counted'
  BY <1>26, SessionAssumption DEF HandleSabm, Counted, Plain, setup, dog, bounds
<1>27. ASSUME NEW c \in Chans, PtyCloses(c) PROVE Counted'
  BY <1>27, SessionAssumption DEF PtyCloses, Counted, Plain, setup, dog
<1>28. ASSUME NEW c \in 0..Ports, ModemAccepts(c) PROVE Counted'
  BY <1>28, SessionAssumption DEF ModemAccepts, Counted, Plain, chan, setup, dog, Daemon
<1>29. ASSUME NEW c \in 0..Ports, ModemRefuses(c) PROVE Counted'
  BY <1>29, SessionAssumption DEF ModemRefuses, Counted, Plain, chan, setup, dog, Daemon
<1>30. ASSUME NEW c \in 0..Ports, ModemCloses(c) PROVE Counted'
  BY <1>30, SessionAssumption DEF ModemCloses, Counted, Plain, chan, setup, dog, Daemon
<1>31. ASSUME NEW c \in 0..Ports, NEW t \in {"UA", "DM", "RSP", "TEST", "CLD"},
             ModemHandles(Frame(t, c))
      PROVE  Counted'
  BY <1>31, SessionAssumption DEF ModemHandles, Counted, Plain, chan, setup, dog, Daemon
<1>32. ASSUME NEW c \in 0..Ports, NEW t \in {"DISC", "SABM", "CLD"}, ModemRequests(t, c)
      PROVE  Counted'
  BY <1>32, SessionAssumption DEF ModemRequests, Counted, Plain, chan, setup, dog, Daemon
<1> QED
  BY <1>1, <1>2, <1>3, <1>4, <1>5, <1>6, <1>7, <1>8, <1>9, <1>10, <1>11, <1>12,
     <1>13, <1>14, <1>15, <1>16, <1>17, <1>18, <1>19, <1>20, <1>21, <1>22, <1>23,
     <1>24, <1>25, <1>26, <1>27, <1>28, <1>29, <1>30, <1>31, <1>32
     DEF Next, watchdog, extract_frames, Modem

\* The assembling thread takes a frame off its line and leaves the others there.
LEMMA Popped ==
  ASSUME TypeOK, NEW t, NEW c, Receive(Frame(t, c))
  PROVE  /\ On(fromModem, Frame(t, c)) /\ apc = 0
         /\ \A u, d : On(fromModem', Frame(u, d)) => On(fromModem, Frame(u, d))
         /\ \A u, d : (u # t \/ d # c) /\ On(fromModem, Frame(u, d)) => On(fromModem', Frame(u, d))
<1>1. /\ fromModem \in Seq(Frames) /\ fromModem # <<>> /\ Head(fromModem) = Frame(t, c) /\ apc = 0
      /\ fromModem' = Tail(fromModem)
  BY Received, Lines
<1> QED BY <1>1, OnTail DEF Frame

\* The modem takes a frame off its line and leaves the others there.
LEMMA TookOff ==
  ASSUME TypeOK, NEW t, NEW c, Take(Frame(t, c))
  PROVE  /\ On(toModem, Frame(t, c))
         /\ \A u, d : On(toModem', Frame(u, d)) => On(toModem, Frame(u, d))
         /\ \A u, d : (u # t \/ d # c) /\ On(toModem, Frame(u, d)) => On(toModem', Frame(u, d))
         /\ CldLast(toModem) => CldLast(toModem')
<1>1. /\ toModem \in Seq(Frames) /\ toModem # <<>> /\ Head(toModem) = Frame(t, c)
      /\ toModem' = Tail(toModem)
  BY Handled, Lines
<1>2. CldLast(toModem) => CldLast(toModem')
  BY <1>1, CldLine
<1> QED BY <1>1, <1>2, OnTail DEF Frame

\* write_frame puts a frame on the line of an open serial device and nothing on
\* that of a closed one; CLD stays the last frame if none was there.
LEMMA Wrote ==
  ASSUME TypeOK, NEW t \in {"SABM", "UA", "DM", "DISC", "CLD", "RSP", "TEST"}, NEW c \in 0..Ports,
         Write(<<Frame(t, c)>>)
  PROVE  /\ \A u, d : On(toModem', Frame(u, d)) <=>
                        On(toModem, Frame(u, d)) \/ (serialOpen /\ t = u /\ c = d)
         /\ CldLast(toModem) /\ (serialOpen => ~On(toModem, Frame("CLD", 0))) => CldLast(toModem')
<1>1. toModem \in Seq(Frames) /\ Frame(t, c) \in Frames
  BY Lines, FrameTypes
<1>2. CASE serialOpen
  <2>1. toModem' = Append(toModem, Frame(t, c))
    BY <1>1, <1>2, Sent
  <2>2. CldLast(toModem) /\ ~On(toModem, Frame("CLD", 0)) => CldLast(toModem')
    BY <1>1, <2>1, CldLine
  <2>3. \A u, d : On(toModem', Frame(u, d)) <=> On(toModem, Frame(u, d)) \/ (t = u /\ c = d)
    BY <1>1, <2>1, OnAppend DEF Frame
  <2> QED BY <1>2, <2>2, <2>3
<1>3. CASE ~serialOpen
  BY <1>1, <1>3, Sent
<1> QED BY <1>2, <1>3

\* The modem puts a frame on its line, which nobody reads when the device is closed.
LEMMA Said ==
  ASSUME TypeOK, NEW t \in {"SABM", "UA", "DM", "DISC", "CLD", "RSP"}, NEW c \in 0..Ports,
         Answer(Frame(t, c))
  PROVE  \A u, d : On(fromModem', Frame(u, d)) <=>
                     On(fromModem, Frame(u, d)) \/ (serialOpen /\ t = u /\ c = d)
<1>1. fromModem \in Seq(Frames) /\ Frame(t, c) \in Frames /\ Frame(t, c) \in FromFrames
  BY Lines, FrameTypes
<1>2. CASE serialOpen
  <2>1. fromModem' = Append(fromModem, Frame(t, c))
    BY <1>1, <1>2, Replied
  <2> QED BY <1>1, <1>2, <2>1, OnAppend DEF Frame
<1>3. CASE ~serialOpen
  BY <1>1, <1>3, Replied
<1> QED BY <1>2, <1>3

\* A session that is multiplexed has not begun to close.
LEMMA NextMuxes ==
  ASSUME TypeOK, Plain, Counts, Fresh, Muxes, Next
  PROVE  Muxes'
<1>1. CASE OpenSerial
  <2> SUFFICES ASSUME sessions' = 1 PROVE Muxes'
    BY DEF Muxes
  <2>1. sessions = 0
    BY <1>1, SessionAssumption DEF OpenSerial, Plain
  <2>2. toModem' = <<>> /\ fromModem' = <<>> /\ apc' = 0 /\ state' = "INITILIZING"
    BY <1>1, <2>1 DEF OpenSerial, Fresh, Pristine, line
  <2>3. CldLast(<<>>)
    BY DEF CldLast
  <2> QED BY <2>2, <2>3, OnEmpty DEF Muxes
<1>2. CASE start_muxer
  <2> SUFFICES ASSUME sessions = 1 PROVE Muxes'
    BY <1>2 DEF start_muxer, Muxes, bounds
  <2>1. toModem = <<>> /\ fromModem' = <<>> /\ apc' = 0 /\ seen' = {} /\ disc_ua_pending' = {}
    BY <1>2 DEF start_muxer, Fresh, Pristine, bounds
  <2>2. CldLast(toModem') /\ \A c \in 0..Ports : ~On(toModem', Frame("CLD", c))
    <3>1. /\ \A g : ~On(toModem, g)
          /\ CldLast(toModem)
      BY <2>1, OnEmpty DEF CldLast
    <3> QED BY <1>2, <3>1, Wrote, SessionAssumption DEF start_muxer
  <2> QED BY <1>2, <2>1, <2>2, OnEmpty DEF start_muxer, Muxes
<1>3. CASE c_alloc_channel
  <2>1. PICK c \in Chans : Write(<<Frame("SABM", c)>>)
    BY <1>3, Allocated
  <2>2. c \in 0..Ports
    BY SessionAssumption DEF Chans
  <2> QED BY <1>3, <2>1, <2>2, Wrote, SessionAssumption DEF c_alloc_channel, Muxes, serial,
       setup, bounds
<1>4. CASE AllocFails
  BY <1>4, SessionAssumption DEF AllocFails, Muxes, Counts, Plain, chan, setup, serial, line,
     modem, bounds
<1>5. CASE WaitForSetup
  BY <1>5, SessionAssumption DEF WaitForSetup, Muxes, Counts, Plain, chan, setup, serial,
     line, modem, bounds
<1>6. CASE StartRild
  BY <1>6, SessionAssumption DEF StartRild, Muxes, Counts, Plain, chan, setup, serial, line,
     modem, bounds
<1>7. CASE Muxing
  BY <1>7, SessionAssumption DEF Muxing, Muxes, Counts, Plain, setup, serial, line, modem,
     bounds
<1>8. CASE Ping
  BY <1>8, Wrote, SessionAssumption DEF Ping, Muxes, Counts, Plain, chan, setup, modem, bounds
<1>9. CASE CloseBegin
  BY <1>9, SessionAssumption DEF CloseBegin, Muxes, Counts, Plain, chan, setup, serial, line,
     modem, bounds
<1>10. CASE SendDisc
  <2>1. i \in 0..Ports
    BY <1>10, SessionAssumption DEF SendDisc, Plain
  <2>2. state # "MUXING" \/ sessions # 1
    BY <1>10 DEF SendDisc, Muxes
  <2>3. (\A c \in 0..Ports : ~On(toModem, Frame("CLD", c))) \/ ~serialOpen \/ sessions # 1
    BY DEF Muxes
  <2>4. sessions = 1 =>
          CldLast(toModem') /\ (serialOpen => \A c \in 0..Ports : ~On(toModem', Frame("CLD", c)))
    BY <1>10, <2>1, <2>3, Wrote, SessionAssumption DEF SendDisc, Muxes
  <2> QED BY <1>10, <2>2, <2>4 DEF SendDisc, Muxes, serial, setup, bounds
<1>11. CASE WaitForUa
  BY <1>11, SessionAssumption DEF WaitForUa, Muxes, Counts, Plain, chan, setup, serial, line,
     modem, bounds
<1>12. CASE UaTimeout
  BY <1>12, SessionAssumption DEF UaTimeout, Muxes, Counts, Plain, chan, setup, serial, line,
     modem, bounds
<1>13. CASE CloseEnd
  BY <1>13, Wrote, SessionAssumption DEF CloseEnd, Muxes, Counts, Plain, chan, setup, modem,
     bounds
<1>14. CASE shutdown_devices
  BY <1>14, Wrote, SessionAssumption DEF shutdown_devices, Muxes, Counts, Plain,
     logical_channel_close, setup, dog, modem, bounds
<1>15. CASE StartFails
  BY <1>15, SessionAssumption DEF StartFails, Muxes, Counts, Plain, chan, setup, serial, line,
     modem, bounds
<1>16. CASE SpuriousWakeup
  BY <1>16, SessionAssumption DEF SpuriousWakeup, Muxes, Counts, Plain, chan, setup, serial,
     line, modem
<1>17. CASE DiscCloses
  BY <1>17, SessionAssumption DEF DiscCloses, Muxes, Counts, Plain, logical_channel_close,
     setup, dog, serial, line, modem, bounds
<1>18. CASE HandleCld
  BY <1>18, Popped, Wrote, SessionAssumption DEF HandleCld, Muxes, Counts, Plain, chan, setup,
     dog, modem, bounds
<1>19. CASE HandleRsp
  BY <1>19, Popped, SessionAssumption DEF HandleRsp, Muxes, Counts, Plain, chan, setup, dog,
     serial, modem, bounds
<1>20. ASSUME NEW c \in 0..Ports, UaOpens(c) PROVE Muxes'
  BY <1>20, Popped, SessionAssumption DEF UaOpens, Muxes, Counts, Plain, serial, modem, bounds
<1>21. ASSUME NEW c \in 0..Ports, UaCloses(c) PROVE Muxes'
  BY <1>21, Popped, SessionAssumption DEF UaCloses, Muxes, Counts, Plain,
     logical_channel_close, setup, serial, modem, bounds
<1>22. ASSUME NEW c \in 0..Ports, UaIgnored(c) PROVE Muxes'
  BY <1>22, Popped, SessionAssumption DEF UaIgnored, Muxes, Counts, Plain, setup, dog, serial,
     modem, bounds
<1>23. ASSUME NEW c \in 0..Ports, DmCloses(c) PROVE Muxes'
  BY <1>23, Popped, SessionAssumption DEF DmCloses, Muxes, Counts, Plain,
     logical_channel_close, setup, dog, serial, modem, bounds
<1>24. ASSUME NEW c \in 0..Ports, DmRefuses(c) PROVE Muxes'
  BY <1>24, Popped, SessionAssumption DEF DmRefuses, Muxes, Counts, Plain, chan, modem, bounds
<1>25. ASSUME NEW c \in 0..Ports, HandleDisc(c) PROVE Muxes'
  BY <1>25, Popped, Wrote, SessionAssumption DEF HandleDisc, Muxes, Counts, Plain, setup, dog,
     modem, bounds
<1>26. ASSUME NEW c \in 0..Ports, HandleSabm(c) PROVE Muxes'
  BY <1>26, Popped, Wrote, SessionAssumption DEF HandleSabm, Muxes, Counts, Plain, setup, dog,
     serial, modem, bounds
<1>27. ASSUME NEW c \in Chans, PtyCloses(c) PROVE Muxes'
  BY <1>27, SessionAssumption DEF PtyCloses, Muxes, Counts, Plain, setup, dog, serial, line,
     modem
<1>28. ASSUME NEW c \in 0..Ports, ModemAccepts(c) PROVE Muxes'
  BY <1>28, TookOff, Said, SessionAssumption DEF ModemAccepts, Muxes, Counts, Plain, chan,
     setup, dog, serial, Daemon
<1>29. ASSUME NEW c \in 0..Ports, ModemRefuses(c) PROVE Muxes'
  BY <1>29, TookOff, Said, SessionAssumption DEF ModemRefuses, Muxes, Counts, Plain, chan,
     setup, dog, serial, modem, Daemon
<1>30. ASSUME NEW c \in 0..Ports, ModemCloses(c) PROVE Muxes'
  BY <1>30, TookOff, Said, SessionAssumption DEF ModemCloses, Muxes, Counts, Plain, chan,
     setup, dog, serial, Daemon
<1>31. ASSUME NEW c \in 0..Ports, NEW t \in {"UA", "DM", "RSP", "TEST", "CLD"},
             ModemHandles(Frame(t, c))
      PROVE  Muxes'
  BY <1>31, TookOff, Said, SessionAssumption DEF ModemHandles, Muxes, Counts, Plain, chan,
     setup, dog, serial, Daemon
<1>32. ASSUME NEW c \in 0..Ports, NEW t \in {"DISC", "SABM", "CLD"}, ModemRequests(t, c)
      PROVE  Muxes'
  BY <1>32, Said, SessionAssumption DEF ModemRequests, Muxes, Counts, Plain, chan, setup, dog,
     serial, Daemon
<1> QED
  BY <1>1, <1>2, <1>3, <1>4, <1>5, <1>6, <1>7, <1>8, <1>9, <1>10, <1>11, <1>12,
     <1>13, <1>14, <1>15, <1>16, <1>17, <1>18, <1>19, <1>20, <1>21, <1>22, <1>23,
     <1>24, <1>25, <1>26, <1>27, <1>28, <1>29, <1>30, <1>31, <1>32
     DEF Next, watchdog, extract_frames, Modem

\* A session that is undisturbed has been so from its start.
LEMMA UndisturbedSoFar ==
  ASSUME Plain, Fresh, Next, ~OpenSerial, Undisturbed'
  PROVE  Undisturbed
<1>1. CASE OpenSerial
  BY <1>1
<1>2. CASE start_muxer
  BY <1>2 DEF start_muxer, Undisturbed, Fresh, Pristine, bounds
<1>3. CASE c_alloc_channel
  BY <1>3 DEF c_alloc_channel, Undisturbed, serial, bounds
<1>4. CASE AllocFails
  BY <1>4 DEF AllocFails, Undisturbed, serial, bounds
<1>5. CASE WaitForSetup
  BY <1>5 DEF WaitForSetup, Undisturbed, serial, bounds
<1>6. CASE StartRild
  BY <1>6 DEF StartRild, Undisturbed, serial, bounds
<1>7. CASE Muxing
  BY <1>7 DEF Muxing, Undisturbed, serial, bounds
<1>8. CASE Ping
  BY <1>8 DEF Ping, Undisturbed, bounds
<1>9. CASE CloseBegin
  BY <1>9 DEF CloseBegin, Undisturbed, serial, bounds
<1>10. CASE SendDisc
  BY <1>10 DEF SendDisc, Undisturbed, serial, bounds
<1>11. CASE WaitForUa
  BY <1>11 DEF WaitForUa, Undisturbed, serial, bounds
<1>12. CASE UaTimeout
  BY <1>12 DEF UaTimeout, Undisturbed, serial, bounds
<1>13. CASE CloseEnd
  BY <1>13 DEF CloseEnd, Undisturbed, bounds
<1>14. CASE shutdown_devices
  BY <1>14 DEF shutdown_devices, Undisturbed, bounds
<1>15. CASE StartFails
  BY <1>15 DEF StartFails, Undisturbed, serial, bounds
<1>16. CASE SpuriousWakeup
  BY <1>16 DEF SpuriousWakeup, Undisturbed, serial
<1>17. CASE DiscCloses
  BY <1>17 DEF DiscCloses, Undisturbed, serial, bounds
<1>18. CASE HandleCld
  BY <1>18 DEF HandleCld, Undisturbed, bounds
<1>19. CASE HandleRsp
  BY <1>19 DEF HandleRsp, Undisturbed, serial, bounds
<1>20. ASSUME NEW c \in 0..Ports, UaOpens(c) PROVE Undisturbed
  BY <1>20 DEF UaOpens, Undisturbed, serial, bounds
<1>21. ASSUME NEW c \in 0..Ports, UaCloses(c) PROVE Undisturbed
  BY <1>21 DEF UaCloses, Undisturbed, serial, bounds
<1>22. ASSUME NEW c \in 0..Ports, UaIgnored(c) PROVE Undisturbed
  BY <1>22 DEF UaIgnored, Undisturbed, serial, bounds
<1>23. ASSUME NEW c \in 0..Ports, DmCloses(c) PROVE Undisturbed
  BY <1>23 DEF DmCloses, Undisturbed, serial, bounds
<1>24. ASSUME NEW c \in 0..Ports, DmRefuses(c) PROVE Undisturbed
  BY <1>24 DEF DmRefuses, Undisturbed, bounds
<1>25. ASSUME NEW c \in 0..Ports, HandleDisc(c) PROVE Undisturbed
  BY <1>25 DEF HandleDisc, Undisturbed, bounds
<1>26. ASSUME NEW c \in 0..Ports, HandleSabm(c) PROVE Undisturbed
  BY <1>26 DEF HandleSabm, Undisturbed, serial, bounds
<1>27. ASSUME NEW c \in Chans, PtyCloses(c) PROVE Undisturbed
  BY <1>27 DEF PtyCloses, Undisturbed, serial
<1>28. ASSUME NEW c \in 0..Ports, ModemAccepts(c) PROVE Undisturbed
  BY <1>28 DEF ModemAccepts, Undisturbed, serial, Daemon
<1>29. ASSUME NEW c \in 0..Ports, ModemRefuses(c) PROVE Undisturbed
  BY <1>29 DEF ModemRefuses, Undisturbed, serial, Daemon
<1>30. ASSUME NEW c \in 0..Ports, ModemCloses(c) PROVE Undisturbed
  BY <1>30 DEF ModemCloses, Undisturbed, serial, Daemon
<1>31. ASSUME NEW c \in 0..Ports, NEW t \in {"UA", "DM", "RSP", "TEST", "CLD"},
             ModemHandles(Frame(t, c))
      PROVE  Undisturbed
  BY <1>31 DEF ModemHandles, Undisturbed, serial, Daemon
<1>32. ASSUME NEW c \in 0..Ports, NEW t \in {"DISC", "SABM", "CLD"}, ModemRequests(t, c)
      PROVE  Undisturbed
  BY <1>32 DEF ModemRequests, Undisturbed, serial, Daemon
<1> QED
  BY <1>1, <1>2, <1>3, <1>4, <1>5, <1>6, <1>7, <1>8, <1>9, <1>10, <1>11, <1>12,
     <1>13, <1>14, <1>15, <1>16, <1>17, <1>18, <1>19, <1>20, <1>21, <1>22, <1>23,
     <1>24, <1>25, <1>26, <1>27, <1>28, <1>29, <1>30, <1>31, <1>32
     DEF Next, watchdog, extract_frames, Modem

\* The assembling thread receives a frame: a DM that it met before any CLD was one
\* of those ahead, and none is ahead once a frame has opened the channel.
LEMMA PoppedDm ==
  ASSUME TypeOK, NEW t, NEW c, Receive(Frame(t, c)), t # "CLD", NEW d, DmFirst(fromModem, d)
  PROVE  /\ DmFirst(fromModem', d)
         /\ DmAhead(fromModem', d) => DmAhead(fromModem, d)
         /\ t = "DM" /\ d = c => DmAhead(fromModem, d)
         /\ t \in {"UA", "SABM"} /\ d = c => ~DmAhead(fromModem', d)
<1>1. /\ fromModem \in Seq(Frames) /\ fromModem # <<>> /\ Head(fromModem) = Frame(t, c)
      /\ fromModem' = Tail(fromModem)
  BY Received, Lines
<1>2. Head(fromModem) # Frame("CLD", 0)
  BY <1>1 DEF Frame
<1> QED BY <1>1, <1>2, DmTail

\* The modem sends a DM only where no frame that opens the channel is ahead of
\* it, or behind a CLD; no other frame matters.
LEMMA SaidDm ==
  ASSUME TypeOK, NEW t \in {"SABM", "UA", "DM", "DISC", "CLD", "RSP"}, NEW c \in 0..Ports,
         Answer(Frame(t, c)), NEW d, DmFirst(fromModem, d)
  PROVE  /\ t # "DM" \/ d # c \/ On(fromModem, Frame("CLD", 0))
              \/ ~(On(fromModem, Frame("UA", d)) \/ On(fromModem, Frame("SABM", d)))
            => DmFirst(fromModem', d)
         /\ t # "DM" \/ d # c \/ On(fromModem, Frame("CLD", 0)) =>
              (DmAhead(fromModem', d) => DmAhead(fromModem, d))
<1>1. fromModem \in Seq(Frames) /\ Frame(t, c) \in Frames /\ Frame(t, c) \in FromFrames
  BY Lines, FrameTypes
<1>2. t # "DM" \/ d # c => Frame(t, c) # Frame("DM", d)
  BY DEF Frame
<1>3. CASE serialOpen
  <2>1. fromModem' = Append(fromModem, Frame(t, c))
    BY <1>1, <1>3, Replied
  <2> QED BY <1>1, <1>2, <2>1, DmAppend
<1>4. CASE ~serialOpen
  BY <1>1, <1>4, Replied
<1> QED BY <1>3, <1>4

\* The daemon writes no SABM and no second DISC for a channel behind its DISC.
LEMMA WroteDisc ==
  ASSUME TypeOK, NEW t \in {"SABM", "UA", "DM", "DISC", "CLD", "RSP", "TEST"}, NEW c \in 0..Ports,
         Write(<<Frame(t, c)>>), NEW d, DiscLast(toModem, d),
         t \notin {"SABM", "DISC"} \/ d # c \/ ~On(toModem, Frame("DISC", d))
  PROVE  DiscLast(toModem', d)
<1>1. toModem \in Seq(Frames) /\ Frame(t, c) \in Frames
  BY Lines, FrameTypes
<1>2. \/ Frame(t, c) \notin {Frame("SABM", d), Frame("DISC", d)}
      \/ ~On(toModem, Frame("DISC", d))
  BY DEF Frame
<1>3. CASE serialOpen
  <2>1. toModem' = Append(toModem, Frame(t, c))
    BY <1>1, <1>3, Sent
  <2> QED BY <1>1, <1>2, <2>1, DiscLine
<1>4. CASE ~serialOpen
  BY <1>1, <1>4, Sent
<1> QED BY <1>3, <1>4

\* Once the modem takes a DISC, neither a SABM nor a DISC for the channel is left.
LEMMA TookDisc ==
  ASSUME TypeOK, NEW t, NEW c, Take(Frame(t, c)), NEW d, DiscLast(toModem, d)
  PROVE  /\ DiscLast(toModem', d)
         /\ t = "DISC" /\ d = c =>
              ~On(toModem', Frame("SABM", d)) /\ ~On(toModem', Frame("DISC", d))
<1>1. /\ toModem \in Seq(Frames) /\ toModem # <<>> /\ Head(toModem) = Frame(t, c)
      /\ toModem' = Tail(toModem)
  BY Handled, Lines
<1> QED BY <1>1, DiscLine

\* The daemon's DISC is answered by the UA that it waits for.
LEMMA NextAnswered ==
  ASSUME TypeOK, Plain, Counts, Fresh, Muxes, Answered, Next
  PROVE  Answered'
<1> SUFFICES ASSUME Undisturbed' PROVE AnsweredNow'
  BY DEF Answered
<1>o. CASE OpenSerial
  <2>1. sessions = 0
    BY <1>o, SessionAssumption DEF OpenSerial, Plain, Undisturbed
  <2>2. /\ toModem' = <<>> /\ fromModem' = <<>> /\ opened' = {} /\ disc_ua_pending' = {}
        /\ mpc' = "start"
    BY <1>o, <2>1 DEF OpenSerial, Fresh, Pristine, line, logical_channel_close
  <2>3. \A c : DmFirst(<<>>, c) /\ ~DmAhead(<<>>, c) /\ DiscLast(<<>>, c)
    BY DEF DmFirst, DmAhead, DiscLast
  <2> QED BY <2>2, <2>3, OnEmpty
          DEF AnsweredNow, DmHarmless, Opening, ModemFollows, DiscOnce, UaAwaited
<1> SUFFICES ASSUME ~OpenSerial PROVE AnsweredNow'
  BY <1>o
<1>a. Undisturbed /\ AnsweredNow
  BY UndisturbedSoFar DEF Answered
<1>b. /\ sessions = 1 /\ serialOpen /\ apc = 0 /\ "DISC" \notin seen
      /\ "CLD" \in seen => state = "MUXING" /\ On(fromModem, Frame("CLD", 0))
      /\ \A c \in 0..Ports : ~On(fromModem, Frame("DISC", c))
  BY <1>a DEF Undisturbed, Muxes
<1>c. state = "MUXING" => disc_ua_pending = {}
                          /\ mpc \in {"alloc", "wait", "start_rild", "idle", "ping"}
  BY <1>b DEF Muxes
<1>1. CASE OpenSerial
  BY <1>1, <1>a, <1>b, <1>c, SessionAssumption DEF OpenSerial, AnsweredNow, DmHarmless,
     Opening, ModemFollows, DiscOnce, Taken, UaAwaited, logical_channel_close, setup, line,
     modem
<1>2. CASE start_muxer
  <2>1. /\ toModem = <<>> /\ fromModem' = <<>> /\ opened' = {} /\ disc_ua_pending' = {}
        /\ mpc' = "alloc" /\ Write(<<Frame("SABM", 0)>>) /\ 0 \in 0..Ports
    BY <1>2, <1>b, SessionAssumption DEF start_muxer, Fresh, Pristine
  <2>2. \A c : DmFirst(<<>>, c) /\ ~DmAhead(<<>>, c) /\ DiscLast(<<>>, c)
    BY DEF DmFirst, DmAhead, DiscLast
  <2>3. \A c \in 0..Ports : DiscLast(toModem', c) /\ ~On(toModem', Frame("DISC", c))
    BY <2>1, <2>2, OnEmpty, Wrote, WroteDisc
  <2> QED BY <2>1, <2>2, <2>3, OnEmpty DEF AnsweredNow, DmHarmless, Opening, ModemFollows,
       DiscOnce, Taken, UaAwaited
<1>3. CASE c_alloc_channel
  <2>1. PICK c \in Chans : Write(<<Frame("SABM", c)>>)
    BY <1>3, Allocated
  <2>2. c \in 0..Ports
    BY SessionAssumption DEF Chans
  <2> QED BY <1>3, <1>a, <1>b, <2>1, <2>2, Wrote, WroteDisc
          DEF c_alloc_channel, AnsweredNow, DmHarmless, Opening, ModemFollows, DiscOnce, Taken,
              UaAwaited, modem, bounds
<1>4. CASE AllocFails
  BY <1>4, <1>a, <1>b, <1>c, SessionAssumption DEF AllocFails, AnsweredNow, DmHarmless,
     Opening, ModemFollows, DiscOnce, Taken, UaAwaited, chan, setup, serial, line, modem,
     bounds
<1>5. CASE WaitForSetup
  BY <1>5, <1>a, <1>b, <1>c, SessionAssumption DEF WaitForSetup, AnsweredNow, DmHarmless,
     Opening, ModemFollows, DiscOnce, Taken, UaAwaited, chan, setup, serial, line, modem,
     bounds
<1>6. CASE StartRild
  BY <1>6, <1>a, <1>b, <1>c, SessionAssumption DEF StartRild, AnsweredNow, DmHarmless,
     Opening, ModemFollows, DiscOnce, Taken, UaAwaited, chan, setup, serial, line, modem,
     bounds
<1>7. CASE Muxing
  BY <1>7, <1>a, <1>b, <1>c, SessionAssumption DEF Muxing, AnsweredNow, DmHarmless, Opening,
     ModemFollows, DiscOnce, Taken, UaAwaited, setup, serial, line, modem, bounds
<1>8. CASE Ping
  BY <1>8, <1>a, <1>b, <1>c, Wrote, WroteDisc, SessionAssumption DEF Ping, AnsweredNow,
     DmHarmless, Opening, ModemFollows, DiscOnce, Taken, UaAwaited, chan, setup, modem, bounds
<1>9. CASE CloseBegin
  BY <1>9, <1>a, <1>b, <1>c, SessionAssumption DEF CloseBegin, AnsweredNow, DmHarmless,
     Opening, ModemFollows, DiscOnce, Taken, UaAwaited, chan, setup, serial, line, modem,
     bounds
<1>10. CASE SendDisc
  <2>1. i \in 0..Ports /\ i' = i + 1 /\ mpc = "disc" /\ mpc' = "disc"
    BY <1>10, SessionAssumption DEF SendDisc, Plain
  <2>2. /\ fromModem' = fromModem /\ opened' = opened /\ modemOpen' = modemOpen /\ seen' = seen
    BY <1>10 DEF SendDisc, modem, bounds
  <2>3. \A c \in 0..Ports : DmHarmless(c)'
    BY <1>a, <2>2 DEF AnsweredNow, DmHarmless
  <2>4. CASE i \in fdOpen \cap opened
    <3>1. /\ disc_ua_pending' = disc_ua_pending \cup {i} /\ Write(<<Frame("DISC", i)>>)
          /\ num_disc_sent' = num_disc_sent + 1
      BY <1>10, <2>4 DEF SendDisc
    <3>2. ~On(toModem, Frame("DISC", i))
      BY <1>a, <2>1 DEF AnsweredNow, DiscOnce, Plain
    <3>3. \A c \in 0..Ports : DiscOnce(c)'
      BY <1>a, <2>1, <3>1, <3>2, Wrote, WroteDisc, SessionAssumption DEF AnsweredNow, DiscOnce
    <3>4. ASSUME NEW c \in 0..Ports PROVE ModemFollows(c)'
      <4>1. CASE c # i
        BY <1>a, <2>1, <2>2, <3>1, <4>1, Wrote, SessionAssumption
           DEF AnsweredNow, ModemFollows, Opening, Taken
      <4>2. CASE c = i
        BY <1>a, <2>1, <2>2, <2>4, <4>2 DEF AnsweredNow, ModemFollows, Opening, Taken
      <4> QED BY <4>1, <4>2
    <3>5. UaAwaited'
      BY <1>a, <2>1, <2>2, <2>4, <3>1 DEF AnsweredNow, UaAwaited
    <3> QED BY <2>3, <3>3, <3>4, <3>5 DEF AnsweredNow
  <2>5. CASE i \notin fdOpen \cap opened
    <3>1. UNCHANGED <<disc_ua_pending, num_disc_sent, toModem>>
      BY <1>10, <2>5 DEF SendDisc
    <3>2. \A c \in 0..Ports : DiscOnce(c)' /\ ModemFollows(c)'
      BY <1>a, <2>1, <2>2, <3>1, SessionAssumption
         DEF AnsweredNow, DiscOnce, ModemFollows, Opening, Taken
    <3>3. UaAwaited'
      BY <1>a, <2>1, <2>2, <3>1 DEF AnsweredNow, UaAwaited
    <3> QED BY <2>3, <3>2, <3>3 DEF AnsweredNow
  <2> QED BY <2>4, <2>5
<1>11. CASE WaitForUa
  BY <1>11, <1>a, <1>b, <1>c, SessionAssumption DEF WaitForUa, AnsweredNow, DmHarmless,
     Opening, ModemFollows, DiscOnce, Taken, UaAwaited, chan, setup, serial, line, modem,
     bounds
<1>12. CASE UaTimeout
  BY <1>12, <1>a, <1>b, <1>c, SessionAssumption DEF UaTimeout, AnsweredNow, DmHarmless,
     Opening, ModemFollows, DiscOnce, Taken, UaAwaited, chan, setup, serial, line, modem,
     bounds
<1>13. CASE CloseEnd
  BY <1>13 DEF CloseEnd, Undisturbed
<1>14. CASE shutdown_devices
  BY <1>14, <1>a, <1>b, <1>c, Wrote, WroteDisc, SessionAssumption DEF shutdown_devices,
     AnsweredNow, DmHarmless, Opening, ModemFollows, DiscOnce, Taken, UaAwaited,
     logical_channel_close, setup, dog, modem, bounds
<1>15. CASE StartFails
  BY <1>15, <1>a, <1>b, <1>c, SessionAssumption DEF StartFails, AnsweredNow, DmHarmless,
     Opening, ModemFollows, DiscOnce, Taken, UaAwaited, chan, setup, serial, line, modem,
     bounds
<1>16. CASE SpuriousWakeup
  BY <1>16, <1>a, <1>b, <1>c, SessionAssumption DEF SpuriousWakeup, AnsweredNow, DmHarmless,
     Opening, ModemFollows, DiscOnce, Taken, UaAwaited, chan, setup, serial, line, modem
<1>17. CASE DiscCloses
  BY <1>17, <1>a, <1>b, <1>c, SessionAssumption DEF DiscCloses, AnsweredNow, DmHarmless,
     Opening, ModemFollows, DiscOnce, Taken, UaAwaited, logical_channel_close, setup, dog,
     serial, line, modem, bounds
<1>18. CASE HandleCld
  <2>1. "CLD" \in seen
    BY <1>18, <1>b, Popped DEF HandleCld, Muxes
  <2> QED BY <1>18, <2>1 DEF HandleCld, Undisturbed, bounds
<1>19. CASE HandleRsp
  BY <1>19, <1>a, <1>b, <1>c, Popped, PoppedDm, SessionAssumption DEF HandleRsp, AnsweredNow,
     DmHarmless, Opening, ModemFollows, DiscOnce, Taken, UaAwaited, chan, setup, dog, serial,
     modem, bounds
<1>20. ASSUME NEW c \in 0..Ports, UaOpens(c) PROVE AnsweredNow'
  BY <1>20, <1>a, <1>b, <1>c, Popped, PoppedDm, SessionAssumption DEF UaOpens, AnsweredNow,
     DmHarmless, Opening, ModemFollows, DiscOnce, Taken, UaAwaited, serial, modem, bounds
<1>21. ASSUME NEW c \in 0..Ports, UaCloses(c) PROVE AnsweredNow'
  <2>1. /\ opened' = opened \ ({c} \cap disc_ua_pending)
        /\ disc_ua_pending' = disc_ua_pending \ {c} /\ mpc # "disc"
        /\ UNCHANGED <<i, toModem, modemOpen, seen, num_disc_sent, state>>
        /\ mpc' = mpc \/ (mpc = "uawait" /\ mpc' = "cld")
    BY <1>21 DEF UaCloses, logical_channel_close, modem, bounds, serial
  <2>2. \A d \in 0..Ports : DmHarmless(d)'
    BY <1>21, <1>a, <2>1, PoppedDm DEF UaCloses, AnsweredNow, DmHarmless
  <2>3. \A d \in 0..Ports : ModemFollows(d)' /\ DiscOnce(d)'
    BY <1>21, <1>a, <2>1, Popped
       DEF UaCloses, AnsweredNow, ModemFollows, Opening, Taken, DiscOnce
  <2>4. UaAwaited'
    <3>1. disc_ua_pending' \subseteq opened'
      BY <1>a, <2>1 DEF AnsweredNow, UaAwaited
    <3>2. mpc' = "uawait" => disc_ua_pending' # {}
      BY <1>21, <1>a, <2>1 DEF UaCloses, Counts, Plain
    <3> QED BY <2>1, <3>1, <3>2 DEF UaAwaited
  <2> QED BY <2>2, <2>3, <2>4 DEF AnsweredNow
<1>22. ASSUME NEW c \in 0..Ports, UaIgnored(c) PROVE AnsweredNow'
  BY <1>22, <1>a, <1>b, <1>c, Popped, PoppedDm, SessionAssumption DEF UaIgnored, AnsweredNow,
     DmHarmless, Opening, ModemFollows, DiscOnce, Taken, UaAwaited, setup, dog, serial, modem,
     bounds
<1>23. ASSUME NEW c \in 0..Ports, DmCloses(c) PROVE AnsweredNow'
  BY <1>23, <1>a, <1>b, <1>c, Popped, PoppedDm, SessionAssumption DEF DmCloses, AnsweredNow,
     DmHarmless, Opening, ModemFollows, DiscOnce, Taken, UaAwaited, logical_channel_close,
     setup, dog, serial, modem, bounds
<1>24. ASSUME NEW c \in 0..Ports, DmRefuses(c) PROVE AnsweredNow'
  BY <1>24, <1>a, <1>b, <1>c, Popped, PoppedDm, SessionAssumption DEF DmRefuses, AnsweredNow,
     DmHarmless, Opening, ModemFollows, DiscOnce, Taken, UaAwaited, chan, modem, bounds
<1>25. ASSUME NEW c \in 0..Ports, HandleDisc(c) PROVE AnsweredNow'
  BY <1>25, <1>a, <1>b, <1>c, Popped, PoppedDm, Wrote, WroteDisc, SessionAssumption DEF
     HandleDisc, AnsweredNow, DmHarmless, Opening, ModemFollows, DiscOnce, Taken, UaAwaited,
     setup, dog, modem, bounds
<1>26. ASSUME NEW c \in 0..Ports, HandleSabm(c) PROVE AnsweredNow'
  BY <1>26, <1>a, <1>b, <1>c, Popped, PoppedDm, Wrote, WroteDisc, SessionAssumption DEF
     HandleSabm, AnsweredNow, DmHarmless, Opening, ModemFollows, DiscOnce, Taken, UaAwaited,
     setup, dog, serial, modem, bounds
<1>27. ASSUME NEW c \in Chans, PtyCloses(c) PROVE AnsweredNow'
  BY <1>27, <1>a, <1>b, <1>c, SessionAssumption DEF PtyCloses, AnsweredNow, DmHarmless,
     Opening, ModemFollows, DiscOnce, Taken, UaAwaited, setup, dog, serial, line, modem
<1>28. ASSUME NEW c \in 0..Ports, ModemAccepts(c) PROVE AnsweredNow'
  BY <1>28, <1>a, <1>b, <1>c, TookOff, TookDisc, Said, SaidDm, SessionAssumption DEF
     ModemAccepts, AnsweredNow, DmHarmless, Opening, ModemFollows, DiscOnce, Taken, UaAwaited,
     chan, setup, dog, serial, Daemon
<1>29. ASSUME NEW c \in 0..Ports, ModemRefuses(c) PROVE AnsweredNow'
  BY <1>29, <1>a, <1>b, <1>c, TookOff, TookDisc, Said, SaidDm, SessionAssumption DEF
     ModemRefuses, AnsweredNow, DmHarmless, Opening, ModemFollows, DiscOnce, Taken, UaAwaited,
     chan, setup, dog, serial, modem, Daemon
<1>30. ASSUME NEW c \in 0..Ports, ModemCloses(c) PROVE AnsweredNow'
  BY <1>30, <1>a, <1>b, <1>c, TookOff, TookDisc, Said, SaidDm, SessionAssumption DEF
     ModemCloses, AnsweredNow, DmHarmless, Opening, ModemFollows, DiscOnce, Taken, UaAwaited,
     chan, setup, dog, serial, Daemon
<1>31. ASSUME NEW c \in 0..Ports, NEW t \in {"UA", "DM", "RSP", "TEST", "CLD"},
             ModemHandles(Frame(t, c))
      PROVE  AnsweredNow'
  <2>1. /\ opened' = opened /\ UNCHANGED <<mpc, i, seen, disc_ua_pending, num_disc_sent>>
        /\ Take(Frame(t, c))
    BY <1>31 DEF ModemHandles, Daemon, chan, dog
  <2>2. /\ fromModem' = fromModem \/ Answer(Frame("RSP", 0))
        /\ t # "CLD" /\ modemOpen' = modemOpen
    <3>1. t # "CLD"
      BY <1>b, <2>1, TookOff DEF Muxes
    <3> QED BY <1>31, <3>1 DEF ModemHandles, Frame
  <2>3. \A d \in 0..Ports : DmHarmless(d)'
    BY <1>a, <2>1, <2>2, SaidDm, SessionAssumption DEF AnsweredNow, DmHarmless
  <2>4. \A d \in 0..Ports : ModemFollows(d)'
    BY <1>a, <2>1, <2>2, Said, TookOff, SessionAssumption
       DEF AnsweredNow, ModemFollows, Opening, Taken
  <2>5. \A d \in 0..Ports : DiscOnce(d)'
    BY <1>a, <2>1, TookOff, TookDisc DEF AnsweredNow, DiscOnce
  <2>6. UaAwaited'
    BY <1>a, <2>1 DEF AnsweredNow, UaAwaited
  <2> QED BY <2>3, <2>4, <2>5, <2>6 DEF AnsweredNow
<1>32. ASSUME NEW c \in 0..Ports, NEW t \in {"DISC", "SABM", "CLD"}, ModemRequests(t, c)
      PROVE  AnsweredNow'
  <2>1. /\ opened' = opened /\ toModem' = toModem
        /\ UNCHANGED <<mpc, i, disc_ua_pending, num_disc_sent>>
        /\ Answer(Frame(t, c)) /\ t # "DISC" /\ seen' = seen \cup {t}
    BY <1>32 DEF ModemRequests, Daemon, chan, dog, Undisturbed
  <2>2. t = "SABM" => modemOpen' = modemOpen \cup {c}
    BY <1>32 DEF ModemRequests
  <2>3. \A d \in 0..Ports : DmHarmless(d)'
    BY <1>a, <2>1, SaidDm DEF AnsweredNow, DmHarmless
  <2>4. \A d \in 0..Ports : ModemFollows(d)'
    BY <1>a, <1>b, <2>1, <2>2, Said DEF AnsweredNow, ModemFollows, Opening, Taken
  <2>5. \A d \in 0..Ports : DiscOnce(d)'
    BY <1>a, <2>1 DEF AnsweredNow, DiscOnce
  <2>6. UaAwaited'
    BY <1>a, <2>1 DEF AnsweredNow, UaAwaited
  <2> QED BY <2>3, <2>4, <2>5, <2>6 DEF AnsweredNow
<1> QED
  BY <1>1, <1>2, <1>3, <1>4, <1>5, <1>6, <1>7, <1>8, <1>9, <1>10, <1>11, <1>12,
     <1>13, <1>14, <1>15, <1>16, <1>17, <1>18, <1>19, <1>20, <1>21, <1>22, <1>23,
     <1>24, <1>25, <1>26, <1>27, <1>28, <1>29, <1>30, <1>31, <1>32
     DEF Next, watchdog, extract_frames, Modem

\* A pty belongs to a channel that is open or about to be.
LEMMA NextPtysOpen ==
  ASSUME TypeOK, Plain, Counts, Fresh, Muxes, Answered, PtysOpen, Next
  PROVE  PtysOpen'
<1>1. CASE OpenSerial
  <2>1. fdOpen' = {} /\ reopen' = {}
    BY <1>1, SessionAssumption DEF OpenSerial, Plain, Chans, logical_channel_close
  <2> QED BY <2>1 DEF PtysOpen
<1>2. CASE start_muxer
  BY <1>2 DEF start_muxer, PtysOpen, Fresh, Pristine, setup, bounds
<1>3. CASE c_alloc_channel
  <2>1. \E c : fdOpen' = fdOpen \cup {c} /\ sabm_ua_pending' = sabm_ua_pending \cup {c}
    BY <1>3, Allocated
  <2> QED BY <1>3, <2>1 DEF c_alloc_channel, PtysOpen, setup, serial, bounds
<1>4. CASE AllocFails
  BY <1>4 DEF AllocFails, PtysOpen, chan, setup, serial, bounds
<1>5. CASE WaitForSetup
  BY <1>5 DEF WaitForSetup, PtysOpen, chan, setup, serial, bounds
<1>6. CASE StartRild
  BY <1>6 DEF StartRild, PtysOpen, chan, setup, serial, bounds
<1>7. CASE Muxing
  BY <1>7 DEF Muxing, PtysOpen, setup, serial, bounds
<1>8. CASE Ping
  BY <1>8 DEF Ping, PtysOpen, chan, setup, bounds
<1>9. CASE CloseBegin
  BY <1>9 DEF CloseBegin, PtysOpen, chan, setup, serial, bounds
<1>10. CASE SendDisc
  BY <1>10 DEF SendDisc, PtysOpen, setup, serial, bounds
<1>11. CASE WaitForUa
  BY <1>11 DEF WaitForUa, PtysOpen, chan, setup, serial, bounds
<1>12. CASE UaTimeout
  BY <1>12 DEF UaTimeout, PtysOpen, chan, setup, serial, bounds
<1>13. CASE CloseEnd
  BY <1>13 DEF CloseEnd, PtysOpen, chan, setup, bounds
<1>14. CASE shutdown_devices
  BY <1>14 DEF shutdown_devices, PtysOpen, logical_channel_close, setup, bounds
<1>15. CASE StartFails
  BY <1>15 DEF StartFails, PtysOpen, chan, setup, serial, bounds
<1>16. CASE SpuriousWakeup
  BY <1>16 DEF SpuriousWakeup, PtysOpen, chan, setup, serial
<1>17. CASE DiscCloses
  BY <1>17 DEF DiscCloses, PtysOpen, Muxes, setup, serial, bounds
<1>18. CASE HandleCld
  BY <1>18 DEF HandleCld, PtysOpen, chan, setup, bounds
<1>19. CASE HandleRsp
  BY <1>19 DEF HandleRsp, PtysOpen, chan, setup, serial, bounds
<1>20. ASSUME NEW c \in 0..Ports, UaOpens(c) PROVE PtysOpen'
  BY <1>20 DEF UaOpens, PtysOpen, serial, bounds
<1>21. ASSUME NEW c \in 0..Ports, UaCloses(c) PROVE PtysOpen'
  BY <1>21 DEF UaCloses, PtysOpen, Muxes, logical_channel_close, setup, serial, bounds
<1>22. ASSUME NEW c \in 0..Ports, UaIgnored(c) PROVE PtysOpen'
  BY <1>22 DEF UaIgnored, PtysOpen, setup, serial, bounds
<1>23. ASSUME NEW c \in 0..Ports, DmCloses(c) PROVE PtysOpen'
  <2>1. ASSUME sessions = 1, state = "MUXING", "DISC" \notin seen PROVE FALSE
    <3>1. DmHarmless(c)
      BY <2>1 DEF Answered, AnsweredNow, Undisturbed, Counts
    <3> QED BY <1>23, <3>1, PoppedDm DEF DmCloses, DmHarmless
  <2> QED BY <1>23, <2>1 DEF DmCloses, PtysOpen, logical_channel_close, setup, serial, bounds
<1>24. ASSUME NEW c \in 0..Ports, DmRefuses(c) PROVE PtysOpen'
  BY <1>24 DEF DmRefuses, PtysOpen, chan, bounds
<1>25. ASSUME NEW c \in 0..Ports, HandleDisc(c) PROVE PtysOpen'
  BY <1>25, Popped DEF HandleDisc, PtysOpen, Muxes, setup, bounds
<1>26. ASSUME NEW c \in 0..Ports, HandleSabm(c) PROVE PtysOpen'
  BY <1>26 DEF HandleSabm, PtysOpen, setup, serial, bounds
<1>27. ASSUME NEW c \in Chans, PtyCloses(c) PROVE PtysOpen'
  BY <1>27 DEF PtyCloses, PtysOpen, setup, serial
<1>28. ASSUME NEW c \in 0..Ports, ModemAccepts(c) PROVE PtysOpen'
  BY <1>28 DEF ModemAccepts, PtysOpen, chan, setup, serial, Daemon
<1>29. ASSUME NEW c \in 0..Ports, ModemRefuses(c) PROVE PtysOpen'
  BY <1>29 DEF ModemRefuses, PtysOpen, chan, setup, serial, Daemon
<1>30. ASSUME NEW c \in 0..Ports, ModemCloses(c) PROVE PtysOpen'
  BY <1>30 DEF ModemCloses, PtysOpen, chan, setup, serial, Daemon
<1>31. ASSUME NEW c \in 0..Ports, NEW t \in {"UA", "DM", "RSP", "TEST", "CLD"},
             ModemHandles(Frame(t, c))
      PROVE  PtysOpen'
  BY <1>31 DEF ModemHandles, PtysOpen, chan, setup, serial, Daemon
<1>32. ASSUME NEW c \in 0..Ports, NEW t \in {"DISC", "SABM", "CLD"}, ModemRequests(t, c)
      PROVE  PtysOpen'
  BY <1>32 DEF ModemRequests, PtysOpen, chan, setup, serial, Daemon
<1> QED
  BY <1>1, <1>2, <1>3, <1>4, <1>5, <1>6, <1>7, <1>8, <1>9, <1>10, <1>11, <1>12,
     <1>13, <1>14, <1>15, <1>16, <1>17, <1>18, <1>19, <1>20, <1>21, <1>22, <1>23,
     <1>24, <1>25, <1>26, <1>27, <1>28, <1>29, <1>30, <1>31, <1>32
     DEF Next, watchdog, extract_frames, Modem

\* A channel's signals stay on the line as they are.
Kept(s, u, c) ==
  (Quiet(s, c) => Quiet(u, c)) /\ \A g \in Signals(c) : Sole(s, c, g) => Sole(u, c, g)

SignalTypes == {"SABM", "UA", "DM", "DISC"}

\* SABM, UA, DM and DISC of a channel are its signals, and the type tells them apart.
LEMMA SignalFrames ==
  ASSUME NEW t, NEW c, NEW d
  PROVE  /\ Frame(t, c) \in Signals(d) <=> t \in SignalTypes /\ c = d
         /\ \A u : Frame(t, c) = Frame(u, c) => t = u
BY DEF Frame, Signals, SignalTypes

\* The assembling thread receives a frame: the other channels keep their signals,
\* and the channel whose only signal it was has none left.
LEMMA ReceivedSignal ==
  ASSUME TypeOK, NEW t, NEW c, Receive(Frame(t, c)), NEW d
  PROVE  /\ d # c \/ t \notin SignalTypes => Kept(fromModem, fromModem', d)
         /\ t \in SignalTypes => ~Quiet(fromModem, c)
         /\ \A u : t \in SignalTypes /\ Sole(fromModem, c, Frame(u, c)) =>
                     u = t /\ Quiet(fromModem', c)
<1>1. /\ fromModem \in Seq(Frames) /\ fromModem # <<>> /\ Head(fromModem) = Frame(t, c)
      /\ fromModem' = Tail(fromModem)
  BY Received, Lines
<1>2. d # c \/ t \notin SignalTypes => Kept(fromModem, fromModem', d)
  BY <1>1, SoleTail, SignalFrames DEF Kept
<1> QED BY <1>1, <1>2, SoleTail, SignalFrames

\* The same for a frame that the modem takes.
LEMMA TookSignal ==
  ASSUME TypeOK, NEW t, NEW c, Take(Frame(t, c)), NEW d
  PROVE  /\ d # c \/ t \notin SignalTypes => Kept(toModem, toModem', d)
         /\ t \in SignalTypes => ~Quiet(toModem, c)
         /\ \A u : t \in SignalTypes /\ Sole(toModem, c, Frame(u, c)) =>
                     u = t /\ Quiet(toModem', c)
<1>1. /\ toModem \in Seq(Frames) /\ toModem # <<>> /\ Head(toModem) = Frame(t, c)
      /\ toModem' = Tail(toModem)
  BY Handled, Lines
<1>2. d # c \/ t \notin SignalTypes => Kept(toModem, toModem', d)
  BY <1>1, SoleTail, SignalFrames DEF Kept
<1> QED BY <1>1, <1>2, SoleTail, SignalFrames

\* The daemon writes a frame: the other channels keep their signals, and it is
\* the only signal of a channel that had none.
LEMMA WroteSignal ==
  ASSUME TypeOK, serialOpen,
         NEW t \in {"SABM", "UA", "DM", "DISC", "CLD", "RSP", "TEST"}, NEW c \in 0..Ports,
         Write(<<Frame(t, c)>>), NEW d
  PROVE  /\ d # c \/ t \notin SignalTypes => Kept(toModem, toModem', d)
         /\ t \in SignalTypes /\ Quiet(toModem, c) => Sole(toModem', c, Frame(t, c))
<1>1. toModem \in Seq(Frames) /\ Frame(t, c) \in Frames
  BY Lines, FrameTypes
<1>2. toModem' = Append(toModem, Frame(t, c))
  BY <1>1, Sent
<1>3. d # c \/ t \notin SignalTypes => Kept(toModem, toModem', d)
  BY <1>1, <1>2, SoleAppend, SignalFrames DEF Kept
<1> QED BY <1>1, <1>2, <1>3, SoleAppend, SignalFrames

\* The same for a frame that the modem sends.
LEMMA SaidSignal ==
  ASSUME TypeOK, serialOpen,
         NEW t \in {"SABM", "UA", "DM", "DISC", "CLD", "RSP"}, NEW c \in 0..Ports,
         Answer(Frame(t, c)), NEW d
  PROVE  /\ d # c \/ t \notin SignalTypes => Kept(fromModem, fromModem', d)
         /\ t \in SignalTypes /\ Quiet(fromModem, c) => Sole(fromModem', c, Frame(t, c))
<1>1. fromModem \in Seq(Frames) /\ Frame(t, c) \in Frames /\ Frame(t, c) \in FromFrames
  BY Lines, FrameTypes
<1>2. fromModem' = Append(fromModem, Frame(t, c))
  BY <1>1, Replied
<1>3. d # c \/ t \notin SignalTypes => Kept(fromModem, fromModem', d)
  BY <1>1, <1>2, SoleAppend, SignalFrames DEF Kept
<1> QED BY <1>1, <1>2, <1>3, SoleAppend, SignalFrames

\* A step that is not about channel c does not change where it stands.
LEMMA StaysAgreed ==
  ASSUME NEW c, AgreedOn(c), Kept(toModem, toModem', c), Kept(fromModem, fromModem', c),
         c \in opened' <=> c \in opened, c \in modemOpen' <=> c \in modemOpen,
         c \in sabm_ua_pending' <=> c \in sabm_ua_pending, c \in asked' <=> c \in asked
  PROVE  AgreedOn(c)'
<1>1. \A t \in SignalTypes : Frame(t, c) \in Signals(c)
  BY SignalFrames
<1> QED BY <1>1 DEF AgreedOn, Agreed, Kept, SignalTypes

\* A line that does not change keeps its signals.
LEMMA KeptSame ==
  ASSUME NEW s, NEW c
  PROVE  Kept(s, s, c)
BY DEF Kept

\* The signal that a channel has under way tells what each side believes of it.
LEMMA AgreedSignal ==
  ASSUME NEW c, AgreedOn(c)
  PROVE  /\ \A t \in SignalTypes : ~Quiet(fromModem, c)
              /\ (\A u : Sole(fromModem, c, Frame(u, c)) => u = t) =>
                   /\ Quiet(toModem, c) /\ Sole(fromModem, c, Frame(t, c))
                   /\ t = "UA" => c \in sabm_ua_pending /\ c \notin opened /\ c \in modemOpen
                   /\ t = "DM" => c \in sabm_ua_pending /\ c \notin opened /\ c \notin modemOpen
                   /\ t = "DISC" => /\ c \in asked /\ c \in opened /\ c \notin modemOpen
                                    /\ c \notin sabm_ua_pending
                   /\ t = "SABM" => c \in asked /\ c \notin opened /\ c \in modemOpen
         /\ \A t \in SignalTypes : ~Quiet(toModem, c)
              /\ (\A u : Sole(toModem, c, Frame(u, c)) => u = t) =>
                   /\ Quiet(fromModem, c) /\ Sole(toModem, c, Frame(t, c))
                   /\ t \in {"SABM", "UA"}
                   /\ t = "SABM" => /\ c \in sabm_ua_pending /\ c \notin opened
                                    /\ c \notin modemOpen
                   /\ t = "UA" => c \in asked /\ (c \in opened <=> c \in modemOpen)
BY DEF AgreedOn, Agreed, SignalTypes

\* The multiplexed phase of the first session has lasted from its start.
LEMMA RegularSoFar ==
  ASSUME Plain, Fresh, Next, ~start_muxer, Regular'
  PROVE  Regular
<1>1. CASE OpenSerial
  BY <1>1 DEF OpenSerial, Regular, setup
<1>2. CASE start_muxer
  BY <1>2
<1>3. CASE c_alloc_channel
  BY <1>3 DEF c_alloc_channel, Regular, serial, setup, bounds
<1>4. CASE AllocFails
  BY <1>4 DEF AllocFails, Regular, serial, setup, bounds
<1>5. CASE WaitForSetup
  BY <1>5 DEF WaitForSetup, Regular, serial, setup, bounds
<1>6. CASE StartRild
  BY <1>6 DEF StartRild, Regular, serial, setup, bounds
<1>7. CASE Muxing
  BY <1>7 DEF Muxing, Regular, serial, setup, bounds
<1>8. CASE Ping
  BY <1>8 DEF Ping, Regular, setup, bounds
<1>9. CASE CloseBegin
  BY <1>9 DEF CloseBegin, Regular, serial, setup, bounds
<1>10. CASE SendDisc
  BY <1>10 DEF SendDisc, Regular, serial, setup, bounds
<1>11. CASE WaitForUa
  BY <1>11 DEF WaitForUa, Regular, serial, setup, bounds
<1>12. CASE UaTimeout
  BY <1>12 DEF UaTimeout, Regular, serial, setup, bounds
<1>13. CASE CloseEnd
  BY <1>13 DEF CloseEnd, Regular, setup, bounds
<1>14. CASE shutdown_devices
  BY <1>14 DEF shutdown_devices, Regular, setup, bounds
<1>15. CASE StartFails
  BY <1>15 DEF StartFails, Regular, serial, setup, bounds
<1>16. CASE SpuriousWakeup
  BY <1>16 DEF SpuriousWakeup, Regular, serial, setup
<1>17. CASE DiscCloses
  BY <1>17 DEF DiscCloses, Regular, serial, setup, bounds
<1>18. CASE HandleCld
  BY <1>18 DEF HandleCld, Regular, setup, bounds
<1>19. CASE HandleRsp
  BY <1>19 DEF HandleRsp, Regular, serial, setup, bounds
<1>20. ASSUME NEW c \in 0..Ports, UaOpens(c) PROVE Regular
  BY <1>20 DEF UaOpens, Regular, serial, bounds
<1>21. ASSUME NEW c \in 0..Ports, UaCloses(c) PROVE Regular
  BY <1>21 DEF UaCloses, Regular, serial, setup, bounds
<1>22. ASSUME NEW c \in 0..Ports, UaIgnored(c) PROVE Regular
  BY <1>22 DEF UaIgnored, Regular, serial, setup, bounds
<1>23. ASSUME NEW c \in 0..Ports, DmCloses(c) PROVE Regular
  BY <1>23 DEF DmCloses, Regular, serial, setup, bounds
<1>24. ASSUME NEW c \in 0..Ports, DmRefuses(c) PROVE Regular
  BY <1>24 DEF DmRefuses, Regular, bounds
<1>25. ASSUME NEW c \in 0..Ports, HandleDisc(c) PROVE Regular
  BY <1>25 DEF HandleDisc, Regular, setup, bounds
<1>26. ASSUME NEW c \in 0..Ports, HandleSabm(c) PROVE Regular
  BY <1>26 DEF HandleSabm, Regular, serial, setup, bounds
<1>27. ASSUME NEW c \in Chans, PtyCloses(c) PROVE Regular
  BY <1>27 DEF PtyCloses, Regular, serial, setup
<1>28. ASSUME NEW c \in 0..Ports, ModemAccepts(c) PROVE Regular
  BY <1>28 DEF ModemAccepts, Regular, serial, setup, Daemon
<1>29. ASSUME NEW c \in 0..Ports, ModemRefuses(c) PROVE Regular
  BY <1>29 DEF ModemRefuses, Regular, serial, setup, Daemon
<1>30. ASSUME NEW c \in 0..Ports, ModemCloses(c) PROVE Regular
  BY <1>30 DEF ModemCloses, Regular, serial, setup, Daemon
<1>31. ASSUME NEW c \in 0..Ports, NEW t \in {"UA", "DM", "RSP", "TEST", "CLD"},
             ModemHandles(Frame(t, c))
      PROVE  Regular
  BY <1>31 DEF ModemHandles, Regular, serial, setup, Daemon
<1>32. ASSUME NEW c \in 0..Ports, NEW t \in {"DISC", "SABM", "CLD"}, ModemRequests(t, c)
      PROVE  Regular
  BY <1>32 DEF ModemRequests, Regular, serial, setup, Daemon
<1> QED
  BY <1>1, <1>2, <1>3, <1>4, <1>5, <1>6, <1>7, <1>8, <1>9, <1>10, <1>11, <1>12,
     <1>13, <1>14, <1>15, <1>16, <1>17, <1>18, <1>19, <1>20, <1>21, <1>22, <1>23,
     <1>24, <1>25, <1>26, <1>27, <1>28, <1>29, <1>30, <1>31, <1>32
     DEF Next, watchdog, extract_frames, Modem

\* A channel's SABM, DISC, UA and DM are under way one at a time, and when
\* none is the two sides agree.
LEMMA NextAgrees ==
  ASSUME TypeOK, Plain, Counts, Fresh, Counted, Muxes, Agrees, Next
  PROVE  Agrees'
<1> SUFFICES ASSUME Regular' PROVE AgreesNow'
  BY DEF Agrees
<1>m. CASE start_muxer
  <2>1. /\ toModem = <<>> /\ fromModem' = <<>> /\ opened' = {} /\ modemOpen' = {} /\ apc' = 0
        /\ sabm_ua_pending' = {0} /\ fdOpen' = {} /\ i' = 1 /\ ~mux_setup_chnl_complete'
        /\ seen' = {} /\ Write(<<Frame("SABM", 0)>>) /\ 0 \in 0..Ports /\ serialOpen
    BY <1>m, SessionAssumption DEF start_muxer, Fresh, Pristine, Regular, Counts, setup,
       bounds
  <2>2. /\ Sole(toModem', 0, Frame("SABM", 0))
        /\ \A d \in 0..Ports : d # 0 => Quiet(toModem', d)
    BY <2>1, WroteSignal, OnEmpty DEF SignalTypes, Kept
  <2>3. \A d : Quiet(fromModem', d)
    BY <2>1, OnEmpty
  <2>4. \A d \in 0..Ports : AgreedOn(d)'
    BY <2>1, <2>2, <2>3 DEF AgreedOn, Agreed
  <2>5. 1..(1 - 1) = {} /\ \A d \in 1..Ports : d \in 0..Ports /\ d # 0
    BY SessionAssumption
  <2>6. Allocating'
    BY <2>1, <2>2, <2>3, <2>5 DEF Allocating
  <2> QED BY <2>1, <2>4, <2>6 DEF AgreesNow
<1> SUFFICES ASSUME ~start_muxer PROVE AgreesNow'
  BY <1>m
<1>a. Regular /\ AgreesNow
  BY RegularSoFar DEF Agrees
<1>b. /\ sessions = 1 /\ state = "MUXING" /\ serialOpen /\ "CLD" \notin seen
      /\ mpc \in {"alloc", "wait", "start_rild", "idle", "ping"}
      /\ ~On(fromModem, Frame("CLD", 0)) /\ \A c \in 0..Ports : ~On(toModem, Frame("CLD", c))
  BY <1>a DEF Regular, Muxes, Counts
<1>r. \A d \in i..Ports : d \in 0..Ports
  BY SessionAssumption DEF Plain
<1>u. ASSUME NEW t \in SignalTypes, NEW c \in 0..Ports, Receive(Frame(t, c))
      PROVE  /\ Quiet(toModem, c) /\ Sole(fromModem, c, Frame(t, c))
             /\ t = "UA" => c \in sabm_ua_pending /\ c \notin opened /\ c \in modemOpen
             /\ t = "DM" => c \in sabm_ua_pending /\ c \notin opened /\ c \notin modemOpen
             /\ t = "DISC" => /\ c \in asked /\ c \in opened /\ c \notin modemOpen
                              /\ c \notin sabm_ua_pending
             /\ t = "SABM" => c \in asked /\ c \notin opened /\ c \in modemOpen
  <2>1. AgreedOn(c) /\ ~Quiet(fromModem, c)
        /\ \A u : Sole(fromModem, c, Frame(u, c)) => u = t
    BY <1>a, <1>u, ReceivedSignal DEF AgreesNow
  <2> QED BY <2>1, AgreedSignal
<1>t. ASSUME NEW t \in SignalTypes, NEW c \in 0..Ports, Take(Frame(t, c))
      PROVE  /\ Quiet(fromModem, c) /\ Sole(toModem, c, Frame(t, c)) /\ t \in {"SABM", "UA"}
             /\ t = "SABM" => c \in sabm_ua_pending /\ c \notin opened /\ c \notin modemOpen
             /\ t = "UA" => c \in asked /\ (c \in opened <=> c \in modemOpen)
  <2>1. AgreedOn(c) /\ ~Quiet(toModem, c)
        /\ \A u : Sole(toModem, c, Frame(u, c)) => u = t
    BY <1>a, <1>t, TookSignal DEF AgreesNow
  <2> QED BY <2>1, AgreedSignal
<1>s. {"UA", "DM", "DISC", "SABM"} = SignalTypes
  BY DEF SignalTypes
<1>1. CASE OpenSerial
  BY <1>1, <1>b DEF OpenSerial
<1>2. CASE start_muxer
  BY <1>2
<1>3. CASE c_alloc_channel
  <2>1. mpc = "alloc" /\ mpc' = "alloc" /\ i <= Ports /\ i' = i + 1 /\ i \in 1..Ports
    BY <1>3, SessionAssumption DEF c_alloc_channel, Plain
  <2>2. PICK c \in Chans :
          /\ Chans \ fdOpen # {} => c \in Chans \ fdOpen /\ \A d \in Chans \ fdOpen : c <= d
          /\ fdOpen' = fdOpen \cup {c} /\ sabm_ua_pending' = sabm_ua_pending \cup {c}
          /\ Write(<<Frame("SABM", c)>>)
    BY <1>3, Allocated
  <2>3. fdOpen = 1..(i - 1) /\ ~mux_setup_chnl_complete
    BY <1>a, <2>1 DEF AgreesNow, Allocating
  <2>4. c = i /\ c \in 0..Ports
    <3>1. i \in Chans \ fdOpen
      BY <2>1, <2>3, SessionAssumption DEF Chans
    <3>2. c \in Chans \ fdOpen /\ c <= i
      BY <2>2, <3>1
    <3> QED BY <2>1, <2>3, <3>2, SessionAssumption DEF Chans
  <2>5. /\ UNCHANGED <<fromModem, opened, modemOpen, asked, apc, seen, mux_setup_chnl_complete>>
    BY <1>3 DEF c_alloc_channel, modem, setup, bounds
  <2>6. Quiet(toModem, i) /\ Quiet(fromModem, i) /\ i \notin opened /\ i \notin modemOpen
    BY <1>a, <2>1 DEF AgreesNow, Allocating
  <2>7. /\ Sole(toModem', i, Frame("SABM", i))
        /\ \A d \in 0..Ports : d # i => Kept(toModem, toModem', d)
    BY <1>b, <2>2, <2>4, <2>6, WroteSignal DEF SignalTypes
  <2>8. \A d \in 0..Ports : AgreedOn(d)'
    <3>1. AgreedOn(c)'
      BY <2>2, <2>4, <2>5, <2>6, <2>7 DEF AgreedOn, Agreed
    <3>2. ASSUME NEW d \in 0..Ports, d # c PROVE AgreedOn(d)'
      BY <1>a, <2>2, <2>4, <2>5, <2>7, <3>2, KeptSame, StaysAgreed DEF AgreesNow
    <3> QED BY <3>1, <3>2
  <2>9. Allocating'
    <3>1. \A d \in (i + 1)..Ports :
            Quiet(toModem', d) /\ Quiet(fromModem, d) /\ d \notin opened /\ d \notin modemOpen
      BY <1>a, <2>1, <2>7, SessionAssumption DEF AgreesNow, Allocating, Kept
    <3>2. fdOpen' = 1..i
      BY <2>1, <2>2, <2>3, <2>4
    <3>3. "DISC" \notin seen
      BY <1>a, <2>1 DEF AgreesNow, Allocating
    <3> QED BY <2>1, <2>3, <2>5, <3>1, <3>2, <3>3 DEF Allocating
  <2>10. apc # 0 => apc \notin sabm_ua_pending'
    <3>1. "DISC" \notin seen
      BY <1>a, <2>1 DEF AgreesNow, Allocating
    <3> QED BY <1>b, <3>1 DEF Muxes
  <2> QED BY <2>5, <2>8, <2>9, <2>10 DEF AgreesNow
<1>4. CASE AllocFails
  BY <1>4, <1>b DEF AllocFails
<1>5. CASE WaitForSetup
  BY <1>5, <1>a DEF WaitForSetup, AgreesNow, AgreedOn, Allocating, chan, setup, line, modem,
     bounds
<1>6. CASE StartRild
  BY <1>6, <1>a DEF StartRild, AgreesNow, AgreedOn, Allocating, chan, setup, line, modem,
     bounds
<1>7. CASE Muxing
  BY <1>7, <1>a DEF Muxing, AgreesNow, AgreedOn, Allocating, setup, line, modem, bounds
<1>8. CASE Ping
  <2>1. /\ Write(<<Frame("TEST", 0)>>) /\ 0 \in 0..Ports /\ mpc' = "idle"
        /\ UNCHANGED <<fromModem, opened, modemOpen, sabm_ua_pending, asked, apc>>
    BY <1>8, SessionAssumption DEF Ping, Regular, chan, modem
  <2>2. \A d \in 0..Ports : AgreedOn(d)'
    BY <1>a, <1>b, <2>1, WroteSignal, KeptSame, StaysAgreed DEF AgreesNow, SignalTypes
  <2> QED BY <1>a, <2>1, <2>2 DEF AgreesNow, Allocating
<1>9. CASE CloseBegin
  BY <1>9, <1>b DEF CloseBegin
<1>10. CASE SendDisc
  BY <1>10, <1>b DEF SendDisc
<1>11. CASE WaitForUa
  BY <1>11, <1>b DEF WaitForUa
<1>12. CASE UaTimeout
  BY <1>12, <1>b DEF UaTimeout
<1>13. CASE CloseEnd
  BY <1>13, <1>b DEF CloseEnd
<1>14. CASE shutdown_devices
  BY <1>14, <1>b DEF shutdown_devices
<1>15. CASE StartFails
  BY <1>15, <1>b DEF StartFails
<1>16. CASE SpuriousWakeup
  BY <1>16, <1>a DEF SpuriousWakeup, AgreesNow, AgreedOn, Allocating, chan, setup, line, modem
<1>17. CASE DiscCloses
  <2>1. /\ opened' = opened \ {apc} /\ sabm_ua_pending' = sabm_ua_pending \ {apc} /\ apc # 0
        /\ UNCHANGED <<toModem, fromModem, modemOpen, asked, mpc>> /\ apc' = 0
    BY <1>17 DEF DiscCloses, logical_channel_close, line, modem, dog
  <2>2. opened' = opened /\ sabm_ua_pending' = sabm_ua_pending /\ mpc # "alloc"
    BY <1>a, <1>b, <2>1 DEF AgreesNow, Allocating, Counts, Muxes
  <2> QED BY <1>a, <2>1, <2>2 DEF AgreesNow, AgreedOn, Allocating
<1>18. CASE HandleCld
  BY <1>18, <1>b, Popped DEF HandleCld
<1>19. CASE HandleRsp
  <2>1. /\ Receive(Frame("RSP", 0))
        /\ UNCHANGED <<toModem, opened, modemOpen, sabm_ua_pending, asked, apc, mpc, i, fdOpen,
                       mux_setup_chnl_complete, seen>>
    BY <1>19 DEF HandleRsp, chan, modem, dog, setup, bounds
  <2>2. \A d \in 0..Ports : Kept(fromModem, fromModem', d)
    BY <2>1, ReceivedSignal DEF SignalTypes
  <2>3. \A d \in 0..Ports : AgreedOn(d)'
    BY <1>a, <2>1, <2>2, KeptSame, StaysAgreed DEF AgreesNow
  <2>4. Allocating'
    BY <1>a, <2>1, <2>2, <1>r DEF AgreesNow, Allocating, Kept
  <2> QED BY <1>a, <2>1, <2>3, <2>4 DEF AgreesNow
<1>20. ASSUME NEW c \in 0..Ports, UaOpens(c) PROVE AgreesNow'
  <2>1. /\ opened' = opened \cup {c} /\ sabm_ua_pending' = sabm_ua_pending \ {c}
        /\ Receive(Frame("UA", c)) /\ c \in sabm_ua_pending
        /\ UNCHANGED <<toModem, modemOpen, asked, apc, i, fdOpen, seen>>
        /\ mpc' = "alloc" => mpc = "alloc"
    BY <1>20 DEF UaOpens, modem, bounds
  <2>2. Quiet(toModem, c) /\ Quiet(fromModem', c) /\ c \in modemOpen /\ ~Quiet(fromModem, c)
    BY <1>u, <2>1, ReceivedSignal DEF SignalTypes
  <2>3. \A d \in 0..Ports : AgreedOn(d)'
    <3>1. AgreedOn(c)'
      BY <2>1, <2>2 DEF AgreedOn, Agreed
    <3>2. ASSUME NEW d \in 0..Ports, d # c PROVE AgreedOn(d)'
      BY <1>a, <2>1, <3>2, ReceivedSignal, KeptSame, StaysAgreed DEF AgreesNow
    <3> QED BY <3>1, <3>2
  <2>4. Allocating'
    <3>1. SUFFICES ASSUME mpc' = "alloc" PROVE Allocating'
      BY DEF Allocating
    <3>2. mpc = "alloc" /\ "DISC" \notin seen /\ c \notin i..Ports
      BY <1>a, <2>1, <2>2, <3>1 DEF AgreesNow, Allocating
    <3>3. \A d \in i..Ports : Quiet(fromModem', d)
      BY <1>a, <1>r, <2>1, <3>2, ReceivedSignal DEF AgreesNow, Allocating, Kept
    <3>4. i <= Ports => ~mux_setup_chnl_complete'
      <4>1. Cardinality(sabm_ua_pending \ {c}) = Cardinality(sabm_ua_pending) - 1
            /\ Cardinality(sabm_ua_pending \ {c}) \in Nat /\ Cardinality(sabm_ua_pending) \in Nat
        BY <2>1, OneLess, Fewer DEF Plain
      <4>2. sabm_ua_received + Cardinality(sabm_ua_pending) <= i
        BY <1>b, <3>2 DEF Counted
      <4>3. i <= Ports => sabm_ua_received + 1 # Ports + 1
        BY <4>1, <4>2, SessionAssumption DEF Plain
      <4>4. i <= Ports => ~mux_setup_chnl_complete
        BY <1>a, <3>2 DEF AgreesNow, Allocating
      <4> QED BY <1>20, <4>3, <4>4 DEF UaOpens, SetupComplete
    <3> QED BY <1>a, <2>1, <3>2, <3>3, <3>4 DEF AgreesNow, Allocating
  <2> QED BY <1>a, <2>1, <2>3, <2>4 DEF AgreesNow
<1>21. ASSUME NEW c \in 0..Ports, UaCloses(c) PROVE AgreesNow'
  BY <1>21, <1>s, <1>u DEF UaCloses
<1>22. ASSUME NEW c \in 0..Ports, UaIgnored(c) PROVE AgreesNow'
  BY <1>22, <1>s, <1>u DEF UaIgnored
<1>23. ASSUME NEW c \in 0..Ports, DmCloses(c) PROVE AgreesNow'
  BY <1>23, <1>s, <1>u DEF DmCloses
<1>24. ASSUME NEW c \in 0..Ports, DmRefuses(c) PROVE AgreesNow'
  <2>1. /\ UNCHANGED <<opened, sabm_ua_pending, toModem, modemOpen, asked, apc, i, fdOpen, seen>>
        /\ Receive(Frame("DM", c))
        /\ mpc' = "alloc" => mpc = "alloc"
        /\ c # ATCI => mux_setup_chnl_complete' = mux_setup_chnl_complete
    BY <1>24 DEF DmRefuses, chan, modem, bounds
  <2>2. /\ Quiet(toModem, c) /\ Quiet(fromModem', c) /\ ~Quiet(fromModem, c)
        /\ c \notin opened /\ c \notin modemOpen
    BY <1>u, <2>1, ReceivedSignal DEF SignalTypes
  <2>3. \A d \in 0..Ports : AgreedOn(d)'
    <3>1. AgreedOn(c)'
      BY <2>1, <2>2 DEF AgreedOn, Agreed
    <3>2. ASSUME NEW d \in 0..Ports, d # c PROVE AgreedOn(d)'
      BY <1>a, <2>1, <3>2, ReceivedSignal, KeptSame, StaysAgreed DEF AgreesNow
    <3> QED BY <3>1, <3>2
  <2>4. Allocating'
    <3>1. SUFFICES ASSUME mpc' = "alloc" PROVE Allocating'
      BY DEF Allocating
    <3>2. mpc = "alloc" /\ "DISC" \notin seen /\ c \notin i..Ports
      BY <1>a, <2>1, <2>2, <3>1 DEF AgreesNow, Allocating
    <3>3. \A d \in i..Ports : Quiet(fromModem', d)
      BY <1>a, <1>r, <2>1, <3>2, ReceivedSignal DEF AgreesNow, Allocating, Kept
    <3>4. i <= Ports => ~mux_setup_chnl_complete'
      <4>1. CASE c = ATCI
        <5>1. c = Ports
          BY <1>24, <4>1 DEF DmRefuses, Regular
        <5>2. ~(i <= Ports)
          BY <3>2, <5>1, SessionAssumption DEF Plain
        <5> QED BY <5>2
      <4>2. CASE c # ATCI
        BY <1>a, <2>1, <3>2, <4>2 DEF AgreesNow, Allocating
      <4> QED BY <4>1, <4>2
    <3> QED BY <1>a, <2>1, <3>2, <3>3, <3>4 DEF AgreesNow, Allocating
  <2> QED BY <1>a, <2>1, <2>3, <2>4 DEF AgreesNow
<1>25. ASSUME NEW c \in 0..Ports, HandleDisc(c) PROVE AgreesNow'
  <2>1. Receive(Frame("DISC", c)) /\ UNCHANGED <<sabm_ua_pending, modemOpen, asked, mpc>>
    BY <1>25 DEF HandleDisc, modem, dog
  <2>2. /\ Quiet(toModem, c) /\ Quiet(fromModem', c)
        /\ c \in asked /\ c \in opened /\ c \notin modemOpen /\ c \notin sabm_ua_pending
    BY <1>u, <2>1, ReceivedSignal DEF SignalTypes
  <2>3. opened' = opened \ {c} /\ Write(<<Frame("UA", c)>>) /\ apc' = c
    BY <1>25, <2>2 DEF HandleDisc
  <2>4. \A d \in 0..Ports : AgreedOn(d)'
    <3>1. AgreedOn(c)'
      <4>1. Sole(toModem', c, Frame("UA", c))
        BY <1>b, <2>2, <2>3, WroteSignal DEF SignalTypes
      <4> QED BY <2>1, <2>2, <2>3, <4>1 DEF AgreedOn, Agreed
    <3>2. ASSUME NEW d \in 0..Ports, d # c PROVE AgreedOn(d)'
      <4>1. Kept(toModem, toModem', d) /\ Kept(fromModem, fromModem', d)
        BY <1>b, <2>1, <2>3, <3>2, ReceivedSignal, WroteSignal
      <4> QED BY <1>a, <2>1, <2>3, <3>2, <4>1, StaysAgreed DEF AgreesNow
    <3> QED BY <3>1, <3>2
  <2>5. mpc # "alloc"
    <3>1. "DISC" \in seen
      BY <1>b, <2>1, Popped DEF Muxes
    <3> QED BY <1>a, <3>1 DEF AgreesNow, Allocating
  <2> QED BY <2>1, <2>2, <2>3, <2>4, <2>5 DEF AgreesNow, Allocating
<1>26. ASSUME NEW c \in 0..Ports, HandleSabm(c) PROVE AgreesNow'
  <2>1. /\ Receive(Frame("SABM", c)) /\ opened' = opened \cup {c} /\ Write(<<Frame("UA", c)>>)
        /\ UNCHANGED <<sabm_ua_pending, modemOpen, asked, apc, mpc, i, fdOpen, seen,
                       mux_setup_chnl_complete>>
    BY <1>26 DEF HandleSabm, modem, dog, bounds, setup
  <2>2. /\ Quiet(toModem, c) /\ Quiet(fromModem', c) /\ ~Quiet(fromModem, c)
        /\ c \in asked /\ c \notin opened /\ c \in modemOpen
    BY <1>u, <2>1, ReceivedSignal DEF SignalTypes
  <2>3. ASSUME NEW d \in 0..Ports, d # c
        PROVE  Kept(toModem, toModem', d) /\ Kept(fromModem, fromModem', d)
    BY <1>b, <2>1, <2>3, ReceivedSignal, WroteSignal
  <2>4. \A d \in 0..Ports : AgreedOn(d)'
    <3>1. AgreedOn(c)'
      <4>1. Sole(toModem', c, Frame("UA", c))
        BY <1>b, <2>1, <2>2, WroteSignal DEF SignalTypes
      <4> QED BY <2>1, <2>2, <4>1 DEF AgreedOn, Agreed
    <3>2. ASSUME NEW d \in 0..Ports, d # c PROVE AgreedOn(d)'
      BY <1>a, <2>1, <2>3, <3>2, StaysAgreed DEF AgreesNow
    <3> QED BY <3>1, <3>2
  <2>5. Allocating'
    <3>1. SUFFICES ASSUME mpc = "alloc" PROVE Allocating'
      BY <2>1 DEF Allocating
    <3>2. c \notin i..Ports
      BY <1>a, <2>2, <3>1 DEF AgreesNow, Allocating
    <3>3. \A d \in i..Ports : Quiet(fromModem', d) /\ Quiet(toModem', d)
      BY <1>a, <1>r, <2>3, <3>1, <3>2 DEF AgreesNow, Allocating, Kept
    <3> QED BY <1>a, <2>1, <3>1, <3>2, <3>3 DEF AgreesNow, Allocating
  <2> QED BY <1>a, <2>1, <2>4, <2>5 DEF AgreesNow
<1>27. ASSUME NEW c \in Chans, PtyCloses(c) PROVE AgreesNow'
  <2>1. /\ UNCHANGED <<opened, sabm_ua_pending, toModem, fromModem, modemOpen, asked, apc, seen>>
        /\ UNCHANGED <<mpc, i, mux_setup_chnl_complete>> /\ mux_setup_chnl_complete
    BY <1>27 DEF PtyCloses, line, modem, dog, setup
  <2>2. Allocating'
    BY <1>a, <2>1 DEF AgreesNow, Allocating
  <2> QED BY <1>a, <2>1, <2>2 DEF AgreesNow, AgreedOn
<1>28. ASSUME NEW c \in 0..Ports, ModemAccepts(c) PROVE AgreesNow'
  <2>1. /\ Take(Frame("SABM", c)) /\ Answer(Frame("UA", c)) /\ modemOpen' = modemOpen \cup {c}
        /\ UNCHANGED <<opened, sabm_ua_pending, asked, apc, mpc, i, fdOpen,
                       mux_setup_chnl_complete>>
        /\ "DISC" \in seen' => "DISC" \in seen
    BY <1>28 DEF ModemAccepts, Daemon, chan, dog, setup
  <2>2. /\ Quiet(fromModem, c) /\ Quiet(toModem', c) /\ ~Quiet(toModem, c)
        /\ c \in sabm_ua_pending /\ c \notin opened /\ c \notin modemOpen
    BY <1>t, <2>1, TookSignal DEF SignalTypes
  <2>3. ASSUME NEW d \in 0..Ports, d # c
        PROVE  Kept(toModem, toModem', d) /\ Kept(fromModem, fromModem', d)
    BY <1>b, <2>1, <2>3, TookSignal, SaidSignal
  <2>4. \A d \in 0..Ports : AgreedOn(d)'
    <3>1. AgreedOn(c)'
      <4>1. Sole(fromModem', c, Frame("UA", c))
        BY <1>b, <2>1, <2>2, SaidSignal DEF SignalTypes
      <4> QED BY <2>1, <2>2, <4>1 DEF AgreedOn, Agreed
    <3>2. ASSUME NEW d \in 0..Ports, d # c PROVE AgreedOn(d)'
      BY <1>a, <2>1, <2>3, <3>2, StaysAgreed DEF AgreesNow
    <3> QED BY <3>1, <3>2
  <2>5. Allocating'
    <3>1. SUFFICES ASSUME mpc = "alloc" PROVE Allocating'
      BY <2>1 DEF Allocating
    <3>2. c \notin i..Ports
      BY <1>a, <2>2, <3>1 DEF AgreesNow, Allocating
    <3>3. \A d \in i..Ports : Quiet(fromModem', d) /\ Quiet(toModem', d)
      BY <1>a, <1>r, <2>3, <3>1, <3>2 DEF AgreesNow, Allocating, Kept
    <3> QED BY <1>a, <2>1, <3>1, <3>2, <3>3 DEF AgreesNow, Allocating
  <2> QED BY <1>a, <2>1, <2>4, <2>5 DEF AgreesNow
<1>29. ASSUME NEW c \in 0..Ports, ModemRefuses(c) PROVE AgreesNow'
  <2>1. /\ Take(Frame("SABM", c)) /\ Answer(Frame("DM", c)) /\ modemOpen' = modemOpen
        /\ UNCHANGED <<opened, sabm_ua_pending, asked, apc, mpc, i, fdOpen,
                       mux_setup_chnl_complete>>
        /\ "DISC" \in seen' => "DISC" \in seen
    BY <1>29 DEF ModemRefuses, Daemon, chan, dog, setup, modem
  <2>2. /\ Quiet(fromModem, c) /\ Quiet(toModem', c) /\ ~Quiet(toModem, c)
        /\ c \in sabm_ua_pending /\ c \notin opened /\ c \notin modemOpen
    BY <1>t, <2>1, TookSignal DEF SignalTypes
  <2>3. ASSUME NEW d \in 0..Ports, d # c
        PROVE  Kept(toModem, toModem', d) /\ Kept(fromModem, fromModem', d)
    BY <1>b, <2>1, <2>3, TookSignal, SaidSignal
  <2>4. \A d \in 0..Ports : AgreedOn(d)'
    <3>1. AgreedOn(c)'
      <4>1. Sole(fromModem', c, Frame("DM", c))
        BY <1>b, <2>1, <2>2, SaidSignal DEF SignalTypes
      <4> QED BY <2>1, <2>2, <4>1 DEF AgreedOn, Agreed
    <3>2. ASSUME NEW d \in 0..Ports, d # c PROVE AgreedOn(d)'
      BY <1>a, <2>1, <2>3, <3>2, StaysAgreed DEF AgreesNow
    <3> QED BY <3>1, <3>2
  <2>5. Allocating'
    <3>1. SUFFICES ASSUME mpc = "alloc" PROVE Allocating'
      BY <2>1 DEF Allocating
    <3>2. c \notin i..Ports
      BY <1>a, <2>2, <3>1 DEF AgreesNow, Allocating
    <3>3. \A d \in i..Ports : Quiet(fromModem', d) /\ Quiet(toModem', d)
      BY <1>a, <1>r, <2>3, <3>1, <3>2 DEF AgreesNow, Allocating, Kept
    <3> QED BY <1>a, <2>1, <3>1, <3>2, <3>3 DEF AgreesNow, Allocating
  <2> QED BY <1>a, <2>1, <2>4, <2>5 DEF AgreesNow
<1>30. ASSUME NEW c \in 0..Ports, ModemCloses(c) PROVE AgreesNow'
  BY <1>30, <1>t DEF ModemCloses, SignalTypes
<1>31. ASSUME NEW c \in 0..Ports, NEW t \in {"UA", "DM", "RSP", "TEST", "CLD"},
             ModemHandles(Frame(t, c))
      PROVE  AgreesNow'
  <2>1. /\ Take(Frame(t, c))
        /\ UNCHANGED <<opened, sabm_ua_pending, apc, mpc, i, fdOpen,
                       mux_setup_chnl_complete, seen>>
        /\ asked' = IF t \in {"UA", "DM"} THEN asked \ {c} ELSE asked
    BY <1>31 DEF ModemHandles, Daemon, chan, dog, setup, Frame
  <2>2. t # "CLD"
    BY <1>b, <2>1, TookOff
  <2>3. modemOpen' = modemOpen /\ (fromModem' = fromModem \/ Answer(Frame("RSP", 0)))
    BY <1>31, <2>2 DEF ModemHandles, Frame
  <2>4. \A d \in 0..Ports : Kept(fromModem, fromModem', d)
    BY <1>b, <2>3, KeptSame, SaidSignal, SessionAssumption DEF SignalTypes
  <2>5. t # "DM"
    BY <1>t, <2>1 DEF SignalTypes
  <2>6. \A d \in 0..Ports : Quiet(toModem, d) => Quiet(toModem', d)
    BY <2>1, TookSignal DEF Kept
  <2>7. \A d \in 0..Ports : AgreedOn(d)'
    <3>1. ASSUME NEW d \in 0..Ports, d # c \/ t # "UA" PROVE AgreedOn(d)'
      <4>1. Kept(toModem, toModem', d)
        BY <2>1, <2>2, <2>5, <3>1, TookSignal DEF SignalTypes
      <4>2. d \in asked' <=> d \in asked
        BY <2>1, <2>5, <3>1
      <4> QED BY <1>a, <2>1, <2>3, <2>4, <4>1, <4>2, StaysAgreed DEF AgreesNow
    <3>2. ASSUME t = "UA" PROVE AgreedOn(c)'
      <4>1. Quiet(fromModem, c) /\ Quiet(toModem', c) /\ (c \in opened <=> c \in modemOpen)
        BY <1>t, <2>1, <3>2, TookSignal DEF SignalTypes
      <4>2. Quiet(fromModem', c)
        BY <2>4, <4>1 DEF Kept
      <4> QED BY <2>1, <2>3, <4>1, <4>2 DEF AgreedOn, Agreed
    <3> QED BY <3>1, <3>2
  <2>8. Allocating'
    BY <1>a, <1>r, <2>1, <2>3, <2>4, <2>6 DEF AgreesNow, Allocating, Kept
  <2> QED BY <1>a, <2>1, <2>7, <2>8 DEF AgreesNow
<1>32. ASSUME NEW c \in 0..Ports, NEW t \in {"DISC", "SABM", "CLD"}, ModemRequests(t, c)
      PROVE  AgreesNow'
  <2>1. /\ Answer(Frame(t, c)) /\ sabm_ua_pending = {} /\ mpc # "alloc" /\ c \notin asked
        /\ t # "CLD" /\ asked' = asked \cup {c}
        /\ UNCHANGED <<toModem, opened, sabm_ua_pending, apc, mpc>>
    BY <1>32 DEF ModemRequests, Daemon, chan, dog, Regular
  <2>2. Quiet(toModem, c) /\ Quiet(fromModem, c) /\ (c \in opened <=> c \in modemOpen)
    BY <1>a, <2>1 DEF AgreesNow, AgreedOn, Agreed
  <2>3. \/ t = "DISC" /\ c \in modemOpen /\ modemOpen' = modemOpen \ {c}
        \/ t = "SABM" /\ c \notin modemOpen /\ modemOpen' = modemOpen \cup {c}
    BY <1>32, <2>1 DEF ModemRequests
  <2>4. Sole(fromModem', c, Frame(t, c))
    BY <1>b, <2>1, <2>2, <2>3, SaidSignal DEF SignalTypes
  <2>5. AgreedOn(c)'
    BY <2>1, <2>2, <2>3, <2>4 DEF AgreedOn, Agreed
  <2>6. ASSUME NEW d \in 0..Ports, d # c PROVE AgreedOn(d)'
    <3>1. Kept(fromModem, fromModem', d) /\ Kept(toModem, toModem', d)
      BY <1>b, <2>1, <2>6, SaidSignal, KeptSame
    <3> QED BY <1>a, <2>1, <2>3, <2>6, <3>1, StaysAgreed DEF AgreesNow
  <2> QED BY <1>a, <2>1, <2>5, <2>6 DEF AgreesNow, Allocating
<1> QED
  BY <1>1, <1>2, <1>3, <1>4, <1>5, <1>6, <1>7, <1>8, <1>9, <1>10, <1>11, <1>12,
     <1>13, <1>14, <1>15, <1>16, <1>17, <1>18, <1>19, <1>20, <1>21, <1>22, <1>23,
     <1>24, <1>25, <1>26, <1>27, <1>28, <1>29, <1>30, <1>31, <1>32
     DEF Next, watchdog, extract_frames, Modem

\* As many channels as there are, are all of them.
LEMMA AllOpen ==
  ASSUME NEW S, S \subseteq 0..Ports, Cardinality(S) >= Ports + 1
  PROVE  S = 0..Ports
<1>1. IsFiniteSet(0..Ports) /\ Cardinality(0..Ports) = Ports + 1
  BY FS_Interval, SessionAssumption
<1>2. Cardinality(S) <= Cardinality(0..Ports) /\ Cardinality(S) \in Nat
      /\ (Cardinality(S) = Cardinality(0..Ports) => S = 0..Ports)
  BY <1>1, FS_Subset, Fewer
<1> QED BY <1>1, <1>2, SessionAssumption

\* Trouble and hang-ups are not forgotten.
LEMMA SmoothSoFar ==
  ASSUME Plain, Next, ~OpenSerial, Smooth'
  PROVE  Smooth
<1>1. CASE OpenSerial
  BY <1>1
<1>2. CASE start_muxer
  BY <1>2 DEF start_muxer, Smooth, Plain, bounds
<1>3. CASE c_alloc_channel
  BY <1>3 DEF c_alloc_channel, Smooth, Plain, bounds
<1>4. CASE AllocFails
  BY <1>4 DEF AllocFails, Smooth, Plain, bounds
<1>5. CASE WaitForSetup
  BY <1>5 DEF WaitForSetup, Smooth, Plain, bounds
<1>6. CASE StartRild
  BY <1>6 DEF StartRild, Smooth, Plain, bounds
<1>7. CASE Muxing
  BY <1>7 DEF Muxing, Smooth, Plain, bounds
<1>8. CASE Ping
  BY <1>8 DEF Ping, Smooth, Plain, bounds
<1>9. CASE CloseBegin
  BY <1>9 DEF CloseBegin, Smooth, Plain, bounds
<1>10. CASE SendDisc
  BY <1>10 DEF SendDisc, Smooth, Plain, bounds
<1>11. CASE WaitForUa
  BY <1>11 DEF WaitForUa, Smooth, Plain, bounds
<1>12. CASE UaTimeout
  BY <1>12 DEF UaTimeout, Smooth, Plain, bounds
<1>13. CASE CloseEnd
  BY <1>13 DEF CloseEnd, Smooth, Plain, bounds
<1>14. CASE shutdown_devices
  BY <1>14 DEF shutdown_devices, Smooth, Plain, bounds
<1>15. CASE StartFails
  BY <1>15 DEF StartFails, Smooth, Plain, bounds
<1>16. CASE SpuriousWakeup
  BY <1>16 DEF SpuriousWakeup, Smooth, Plain
<1>17. CASE DiscCloses
  BY <1>17 DEF DiscCloses, Smooth, Plain, bounds
<1>18. CASE HandleCld
  BY <1>18 DEF HandleCld, Smooth, Plain, bounds
<1>19. CASE HandleRsp
  BY <1>19 DEF HandleRsp, Smooth, Plain, bounds
<1>20. ASSUME NEW c \in 0..Ports, UaOpens(c) PROVE Smooth
  BY <1>20 DEF UaOpens, Smooth, Plain, bounds
<1>21. ASSUME NEW c \in 0..Ports, UaCloses(c) PROVE Smooth
  BY <1>21 DEF UaCloses, Smooth, Plain, bounds
<1>22. ASSUME NEW c \in 0..Ports, UaIgnored(c) PROVE Smooth
  BY <1>22 DEF UaIgnored, Smooth, Plain, bounds
<1>23. ASSUME NEW c \in 0..Ports, DmCloses(c) PROVE Smooth
  BY <1>23 DEF DmCloses, Smooth, Plain, bounds
<1>24. ASSUME NEW c \in 0..Ports, DmRefuses(c) PROVE Smooth
  BY <1>24 DEF DmRefuses, Smooth, Plain, bounds
<1>25. ASSUME NEW c \in 0..Ports, HandleDisc(c) PROVE Smooth
  BY <1>25 DEF HandleDisc, Smooth, Plain, bounds
<1>26. ASSUME NEW c \in 0..Ports, HandleSabm(c) PROVE Smooth
  BY <1>26 DEF HandleSabm, Smooth, Plain, bounds
<1>27. ASSUME NEW c \in Chans, PtyCloses(c) PROVE Smooth
  BY <1>27 DEF PtyCloses, Smooth, Plain
<1>28. ASSUME NEW c \in 0..Ports, ModemAccepts(c) PROVE Smooth
  BY <1>28 DEF ModemAccepts, Smooth, Plain, Daemon
<1>29. ASSUME NEW c \in 0..Ports, ModemRefuses(c) PROVE Smooth
  BY <1>29 DEF ModemRefuses, Smooth, Plain, Daemon
<1>30. ASSUME NEW c \in 0..Ports, ModemCloses(c) PROVE Smooth
  BY <1>30 DEF ModemCloses, Smooth, Plain, Daemon
<1>31. ASSUME NEW c \in 0..Ports, NEW t \in {"UA", "DM", "RSP", "TEST", "CLD"},
             ModemHandles(Frame(t, c))
      PROVE  Smooth
  BY <1>31 DEF ModemHandles, Smooth, Plain, Daemon
<1>32. ASSUME NEW c \in 0..Ports, NEW t \in {"DISC", "SABM", "CLD"}, ModemRequests(t, c)
      PROVE  Smooth
  BY <1>32 DEF ModemRequests, Smooth, Plain, Daemon
<1> QED
  BY <1>1, <1>2, <1>3, <1>4, <1>5, <1>6, <1>7, <1>8, <1>9, <1>10, <1>11, <1>12,
     <1>13, <1>14, <1>15, <1>16, <1>17, <1>18, <1>19, <1>20, <1>21, <1>22, <1>23,
     <1>24, <1>25, <1>26, <1>27, <1>28, <1>29, <1>30, <1>31, <1>32
     DEF Next, watchdog, extract_frames, Modem

\* In a session without trouble the ping ends it, when all channels are open,
\* and each of them gets its DISC.
LEMMA NextCloses ==
  ASSUME TypeOK, Plain, Counts, Fresh, Counted, Muxes, Answered, Agrees, Closes, Next
  PROVE  Closes'
<1> SUFFICES ASSUME Smooth' PROVE ClosesNow'
  BY DEF Closes
<1>o. CASE OpenSerial
  <2>1. sessions = 0
    BY <1>o, SessionAssumption DEF OpenSerial, Plain, Smooth
  <2>2. toModem' = <<>> /\ fromModem' = <<>> /\ state' = "INITILIZING" /\ mpc' = "start"
    BY <1>o, <2>1 DEF OpenSerial, Fresh, Pristine, line
  <2> QED BY <2>2, OnEmpty DEF ClosesNow
<1> SUFFICES ASSUME ~OpenSerial PROVE ClosesNow'
  BY <1>o
<1>a. ClosesNow
  BY SmoothSoFar DEF Closes
<1>b. /\ sessions = 1 /\ hangups = 0 /\ seen = {} /\ apc = 0
      /\ ~On(fromModem, Frame("CLD", 0)) /\ \A c \in 0..Ports : ~On(fromModem, Frame("DISC", c))
  BY SmoothSoFar DEF Smooth, Muxes
<1>1. CASE OpenSerial
  BY <1>1
<1>2. CASE start_muxer
  <2>1. /\ toModem = <<>> /\ fromModem' = <<>> /\ opened' = {} /\ sabm_ua_pending' = {0}
        /\ sabm_ua_received' = 0 /\ ~LackofAtciChannel' /\ Write(<<Frame("SABM", 0)>>)
        /\ state' = "MUXING" /\ mpc' = "alloc" /\ 0 \in 0..Ports
    BY <1>2, <1>b, SessionAssumption DEF start_muxer, Fresh, Pristine, setup
  <2>2. Cardinality({}) = 0 /\ {0} \cap Chans = {}
    BY FS_EmptySet, SessionAssumption DEF Chans
  <2>3. ~On(toModem', Frame("DISC", 0))
    BY <2>1, Wrote, OnEmpty
  <2> QED BY <2>1, <2>2, <2>3, OnEmpty DEF ClosesNow
<1>3. CASE c_alloc_channel
  <2>1. PICK c \in Chans : /\ fdOpen' = fdOpen \cup {c}
                           /\ sabm_ua_pending' = sabm_ua_pending \cup {c}
                           /\ Write(<<Frame("SABM", c)>>)
    BY <1>3, Allocated
  <2>2. c \in 0..Ports
    BY SessionAssumption DEF Chans
  <2>3. ~On(toModem', Frame("DISC", 0))
    BY <1>a, <2>1, <2>2, Wrote DEF ClosesNow
  <2> QED BY <1>3, <1>a, <2>1, <2>3 DEF c_alloc_channel, ClosesNow, setup, serial
<1>4. CASE AllocFails
  BY <1>4, <1>a, <1>b DEF AllocFails, ClosesNow, DiscSent, chan, setup, serial, line, modem,
     bounds
<1>5. CASE WaitForSetup
  BY <1>5, <1>a, <1>b DEF WaitForSetup, ClosesNow, DiscSent, chan, setup, serial, line, modem,
     bounds
<1>6. CASE StartRild
  BY <1>6, <1>a, <1>b DEF StartRild, ClosesNow, DiscSent, chan, setup, serial, line, modem,
     bounds
<1>7. CASE Muxing
  BY <1>7, <1>a, <1>b DEF Muxing, ClosesNow, DiscSent, setup, serial, line, modem, bounds
<1>8. CASE Ping
  <2>1. state = "MUXING" /\ mpc = "ping" /\ mpc' = "idle" /\ mux_setup_chnl_complete
    BY <1>8, <1>a, SessionAssumption DEF Ping, ClosesNow
  <2>2. CASE ping_number > use_ping
    <3>1. /\ state' = "CLOSING"
          /\ UNCHANGED <<toModem, fromModem, opened, fdOpen, disc_ua_pending, serialOpen>>
      BY <1>8, <2>2 DEF Ping, chan
    <3>2. /\ sabm_ua_received >= Ports + 1 /\ sabm_ua_received = Cardinality(opened)
          /\ ~LackofAtciChannel
      BY <1>a, <2>1 DEF ClosesNow, Counts
    <3>3. opened = 0..Ports
      BY <3>2, AllOpen DEF Plain
    <3>4. sabm_ua_pending = {}
      <4>1. sabm_ua_received + Cardinality(sabm_ua_pending) <= Ports + 1
        BY <1>b DEF Counted
      <4>2. Cardinality(sabm_ua_pending) \in Nat /\ IsFiniteSet(sabm_ua_pending)
        BY Fewer DEF Plain
      <4>3. Cardinality(sabm_ua_pending) = 0
        BY <3>2, <4>1, <4>2, SessionAssumption DEF Plain
      <4> QED BY <4>2, <4>3, FS_EmptySet
    <3>5. ASSUME NEW c \in 0..Ports PROVE ~On(toModem, Frame("SABM", c))
      <4>1. AgreedOn(c)
        BY <1>b, <2>1, <3>2 DEF Agrees, AgreesNow, Regular
      <4>2. toModem \in Seq(Frames) /\ Frame("SABM", c) \in Signals(c)
            /\ Frame("SABM", c) # Frame("UA", c)
        BY Lines, SignalFrames DEF SignalTypes, Frame
      <4> QED BY <3>4, <4>1, <4>2, SoleOn DEF AgreedOn, Agreed
    <3>6. Chans \subseteq fdOpen \cap opened
      BY <1>a, <2>1, <3>3, SessionAssumption DEF ClosesNow, Chans
    <3>7. disc_ua_pending = {} /\ serialOpen
      BY <1>b, <2>1 DEF Muxes, Counts
    <3> QED BY <1>a, <2>1, <3>1, <3>5, <3>6, <3>7 DEF ClosesNow
  <2>3. CASE ~(ping_number > use_ping)
    <3>1. Write(<<Frame("TEST", 0)>>) /\ state' = state /\ 0 \in 0..Ports
      BY <1>8, <2>3, SessionAssumption DEF Ping
    <3>2. ~On(toModem', Frame("DISC", 0))
      BY <1>a, <3>1, Wrote DEF ClosesNow
    <3> QED BY <1>8, <1>a, <2>1, <3>1, <3>2 DEF Ping, ClosesNow, chan, setup
  <2> QED BY <2>2, <2>3
<1>9. CASE CloseBegin
  <2>1. /\ state = "CLOSING" /\ mpc = "idle" /\ mpc' = "disc" /\ i' = 1
        /\ UNCHANGED <<toModem, fromModem, opened, fdOpen, state, serialOpen>>
    BY <1>9 DEF CloseBegin, chan, line, serial
  <2>2. Chans \subseteq fdOpen \cap opened /\ 1..Ports = Chans /\ 1..(1 - 1) = {}
    BY <1>a, <2>1 DEF ClosesNow, Chans
  <2> QED BY <1>a, <2>1, <2>2 DEF ClosesNow
<1>10. CASE SendDisc
  <2>1. state = "CLOSING" /\ mpc = "disc" /\ serialOpen /\ i \in Chans /\ i \in 0..Ports
    BY <1>10, <1>a, <1>b, SessionAssumption DEF SendDisc, ClosesNow, Muxes, Plain, Chans
  <2>2. i \in fdOpen \cap opened
    <3>1. i \in i..Ports
      BY <2>1 DEF Chans
    <3> QED BY <1>a, <2>1, <3>1 DEF ClosesNow
  <2>3. /\ Write(<<Frame("DISC", i)>>) /\ i' = i + 1
        /\ UNCHANGED <<state, serialOpen, mpc, opened, fdOpen, fromModem, modemOpen>>
    BY <1>10, <2>2 DEF SendDisc, serial, modem
  <2>4. /\ \A c : On(toModem', Frame("DISC", c)) <=> On(toModem, Frame("DISC", c)) \/ c = i
        /\ \A c : On(toModem', Frame("SABM", c)) <=> On(toModem, Frame("SABM", c))
    BY <2>1, <2>3, Wrote
  <2>5. i # 0 /\ (i + 1)..Ports \subseteq i..Ports
        /\ \A c \in 1..((i + 1) - 1) : c \in 1..(i - 1) \/ c = i
    BY <2>1, SessionAssumption DEF Chans
  <2>6. \A c \in 1..((i + 1) - 1) : DiscSent(c)'
    BY <1>a, <2>1, <2>3, <2>4, <2>5 DEF ClosesNow, DiscSent
  <2>7. (i + 1)..Ports \subseteq fdOpen \cap opened
    BY <1>a, <2>1, <2>5 DEF ClosesNow
  <2> QED BY <1>a, <2>1, <2>3, <2>4, <2>5, <2>6, <2>7 DEF ClosesNow
<1>11. CASE WaitForUa
  <2>1. state = "CLOSING" /\ mpc = "disc" /\ mpc' \in {"uawait", "cld"}
        /\ UNCHANGED <<state, serialOpen, toModem, fromModem, modemOpen>>
    BY <1>11, <1>a, <1>b DEF WaitForUa, ClosesNow, Muxes, serial, line, modem
  <2>2. Chans \subseteq 1..(i - 1)
    BY <1>11, SessionAssumption DEF WaitForUa, Plain, Chans
  <2> QED BY <1>a, <2>1, <2>2 DEF ClosesNow, DiscSent
<1>12. CASE UaTimeout
  BY <1>12, <1>a, <1>b DEF UaTimeout, ClosesNow, DiscSent, chan, setup, serial, line, modem,
     bounds
<1>13. CASE CloseEnd
  <2>1. state = "CLOSING" /\ mpc = "cld" /\ mpc' = "idle" /\ state' = "OPENING" /\ ~serialOpen'
        /\ Write(<<Frame("CLD", 0)>>) /\ UNCHANGED <<fromModem, modemOpen>> /\ 0 \in 0..Ports
    BY <1>13, <1>a, <1>b, SessionAssumption DEF CloseEnd, ClosesNow, Muxes, modem
  <2>2. /\ \A c : On(toModem', Frame("DISC", c)) <=> On(toModem, Frame("DISC", c))
        /\ \A c : On(toModem', Frame("SABM", c)) <=> On(toModem, Frame("SABM", c))
    BY <2>1, Wrote
  <2> QED BY <1>a, <2>1, <2>2 DEF ClosesNow, DiscSent
<1>14. CASE shutdown_devices
  BY <1>14, <1>a, <1>b DEF shutdown_devices, ClosesNow, DiscSent, logical_channel_close,
     setup, dog, modem, bounds
<1>15. CASE StartFails
  BY <1>15, <1>a, <1>b DEF StartFails, Fresh, ClosesNow, serial, line
<1>16. CASE SpuriousWakeup
  BY <1>16, <1>b DEF SpuriousWakeup, Smooth
<1>17. CASE DiscCloses
  BY <1>17, <1>b DEF DiscCloses
<1>18. CASE HandleCld
  BY <1>18, <1>b, Popped, SessionAssumption DEF HandleCld
<1>19. CASE HandleRsp
  BY <1>19, <1>a, <1>b, Popped DEF HandleRsp, ClosesNow, DiscSent, chan, setup, dog, serial,
     modem, bounds
<1>20. ASSUME NEW c \in 0..Ports, UaOpens(c) PROVE ClosesNow'
  <2>1. /\ opened' = opened \cup {c} /\ c \notin opened /\ c \in sabm_ua_pending
        /\ sabm_ua_pending' = sabm_ua_pending \ {c}
        /\ sabm_ua_received' = sabm_ua_received + 1
        /\ UNCHANGED <<state, serialOpen, fdOpen, toModem, modemOpen, LackofAtciChannel, i,
                       disc_ua_pending>>
        /\ mux_setup_chnl_complete => mux_setup_chnl_complete'
        /\ mpc' = mpc \/ (mpc = "wait" /\ mpc' = "start_rild" /\ mux_setup_chnl_complete')
    BY <1>20 DEF UaOpens, serial, modem
  <2>2. Cardinality(opened') = Cardinality(opened) + 1
    BY <2>1, OneMore DEF Plain
  <2>3. \A u, d : On(fromModem', Frame(u, d)) => On(fromModem, Frame(u, d))
    BY <1>20, Popped DEF UaOpens
  <2>4. (opened' \cup sabm_ua_pending') \cap Chans
          \subseteq (opened \cup sabm_ua_pending) \cap Chans
    BY <2>1
  <2>5. opened \subseteq opened'
    BY <2>1
  <2> QED BY <1>a, <2>1, <2>2, <2>3, <2>4, <2>5 DEF ClosesNow, DiscSent
<1>21. ASSUME NEW c \in 0..Ports, UaCloses(c) PROVE ClosesNow'
  <2>1. /\ opened' = opened \ ({c} \cap disc_ua_pending)
        /\ fdOpen' = fdOpen \ ({c} \cap disc_ua_pending)
        /\ sabm_ua_pending' = sabm_ua_pending \ ({c} \cap disc_ua_pending)
        /\ disc_ua_pending' = disc_ua_pending \ ({c} \cap disc_ua_pending)
        /\ mpc # "disc" /\ (mpc' = mpc \/ (mpc = "uawait" /\ mpc' = "cld"))
        /\ UNCHANGED <<state, serialOpen, toModem, modemOpen, LackofAtciChannel,
                       sabm_ua_received, mux_setup_chnl_complete>>
    BY <1>21 DEF UaCloses, logical_channel_close, serial, modem, setup
  <2>2. \A u, d : On(fromModem', Frame(u, d)) => On(fromModem, Frame(u, d))
    BY <1>21, Popped DEF UaCloses
  <2>3. CASE disc_ua_pending = {}
    <3>1. UNCHANGED <<opened, fdOpen, sabm_ua_pending, disc_ua_pending>>
      BY <2>1, <2>3
    <3> QED BY <1>a, <2>1, <2>2, <3>1 DEF ClosesNow, DiscSent
  <2>4. CASE disc_ua_pending # {}
    <3>1. state # "MUXING" /\ ~(state = "CLOSING" /\ mpc = "idle")
      BY <1>a, <1>b, <2>4 DEF ClosesNow, Muxes
    <3> QED BY <1>a, <2>1, <2>2, <3>1 DEF ClosesNow, DiscSent
  <2> QED BY <2>3, <2>4
<1>22. ASSUME NEW c \in 0..Ports, UaIgnored(c) PROVE ClosesNow'
  BY <1>22, <1>a, <1>b, Popped DEF UaIgnored, ClosesNow, DiscSent, setup, dog, serial, modem,
     bounds
<1>23. ASSUME NEW c \in 0..Ports, DmCloses(c) PROVE ClosesNow'
  <2>1. Receive(Frame("DM", c)) /\ c \in opened
        /\ UNCHANGED <<state, serialOpen, mpc, toModem, modemOpen>>
    BY <1>23 DEF DmCloses, serial, dog, modem
  <2>2. state \notin {"MUXING", "CLOSING"}
    <3>1. state # "MUXING"
      BY <1>a, <2>1, Popped DEF ClosesNow
    <3>2. ASSUME state = "CLOSING" PROVE FALSE
      <4>1. DmHarmless(c)
        BY <1>a, <1>b, <3>2 DEF ClosesNow, Answered, AnsweredNow, Undisturbed
      <4> QED BY <2>1, <4>1, PoppedDm DEF DmHarmless
    <3> QED BY <3>1, <3>2
  <2>3. \A u, d : On(fromModem', Frame(u, d)) => On(fromModem, Frame(u, d))
    BY <2>1, Popped
  <2> QED BY <1>a, <2>1, <2>2, <2>3 DEF ClosesNow, DiscSent
<1>24. ASSUME NEW c \in 0..Ports, DmRefuses(c) PROVE ClosesNow'
  <2>1. Receive(Frame("DM", c)) /\ c # 0 /\ state # "MUXING"
    BY <1>24, <1>a, Popped DEF DmRefuses, ClosesNow
  <2>2. /\ UNCHANGED <<state, serialOpen, toModem, modemOpen, opened, fdOpen, disc_ua_pending, i>>
        /\ mpc' = mpc \/ mpc = "wait"
    BY <1>24, <2>1 DEF DmRefuses, chan, modem
  <2>3. mpc # "wait"
    BY <1>a, <2>1 DEF ClosesNow
  <2>4. \A u, d : On(fromModem', Frame(u, d)) => On(fromModem, Frame(u, d))
    BY <2>1, Popped
  <2> QED BY <1>a, <2>1, <2>2, <2>3, <2>4 DEF ClosesNow, DiscSent
<1>25. ASSUME NEW c \in 0..Ports, HandleDisc(c) PROVE ClosesNow'
  BY <1>25, <1>b, Popped DEF HandleDisc
<1>26. ASSUME NEW c \in 0..Ports, HandleSabm(c) PROVE ClosesNow'
  BY <1>26, <1>a, Popped DEF HandleSabm, ClosesNow
<1>27. ASSUME NEW c \in Chans, PtyCloses(c) PROVE ClosesNow'
  BY <1>27, <1>b DEF PtyCloses, Smooth, Plain
<1>28. ASSUME NEW c \in 0..Ports, ModemAccepts(c) PROVE ClosesNow'
  <2>1. /\ Take(Frame("SABM", c)) /\ Answer(Frame("UA", c))
        /\ UNCHANGED <<state, serialOpen, mpc, i, opened, fdOpen, disc_ua_pending, sabm_ua_pending,
                       LackofAtciChannel, sabm_ua_received, mux_setup_chnl_complete>>
    BY <1>28 DEF ModemAccepts, Daemon, serial, dog, chan, setup
  <2>2. state \notin {"CLOSING", "OPENING"}
    BY <1>a, <2>1, TookOff DEF ClosesNow
  <2>3. mpc \notin {"uawait", "cld"}
    BY <1>a, <1>b, <2>2 DEF ClosesNow, Muxes
  <2>4. \A u, d : On(toModem', Frame(u, d)) => On(toModem, Frame(u, d))
    BY <2>1, TookOff
  <2>5. \A u, d : On(fromModem', Frame(u, d)) => On(fromModem, Frame(u, d)) \/ u = "UA"
    BY <2>1, Said
  <2>6. \A u, d : u # "UA" /\ ~On(fromModem, Frame(u, d)) => ~On(fromModem', Frame(u, d))
    BY <2>5
  <2> QED BY <1>a, <2>1, <2>2, <2>3, <2>4, <2>6 DEF ClosesNow
<1>29. ASSUME NEW c \in 0..Ports, ModemRefuses(c) PROVE ClosesNow'
  BY <1>29, <1>b DEF ModemRefuses, Smooth
<1>30. ASSUME NEW c \in 0..Ports, ModemCloses(c) PROVE ClosesNow'
  <2>1. /\ Take(Frame("DISC", c)) /\ Answer(Frame(IF c \in modemOpen THEN "UA" ELSE "DM", c))
        /\ modemOpen' = modemOpen \ {c}
        /\ UNCHANGED <<state, serialOpen, mpc, i, opened, fdOpen, disc_ua_pending, sabm_ua_pending,
                       LackofAtciChannel, sabm_ua_received, mux_setup_chnl_complete>>
    BY <1>30 DEF ModemCloses, Daemon, serial, dog, chan, setup
  <2>2. On(toModem, Frame("DISC", c)) /\ c # 0
    BY <1>a, <2>1, TookOff DEF ClosesNow
  <2>3. state # "MUXING"
    <3>1. ASSUME state = "MUXING" PROVE FALSE
      <4>1. DiscOnce(c) /\ mpc \notin {"disc", "uawait", "cld"}
        BY <1>b, <3>1 DEF Answered, AnsweredNow, Undisturbed, Counts, Muxes
      <4> QED BY <2>2, <4>1 DEF DiscOnce
    <3> QED BY <3>1
  <2>4. /\ \A u, d : On(toModem', Frame(u, d)) => On(toModem, Frame(u, d))
        /\ \A d : d # c /\ On(toModem, Frame("DISC", d)) => On(toModem', Frame("DISC", d))
    BY <2>1, TookOff
  <2>5. \A u, d : On(fromModem', Frame(u, d)) =>
                    On(fromModem, Frame(u, d)) \/ (u \in {"UA", "DM"} /\ d = c)
    <3>1. PICK t \in {"UA", "DM"} : Answer(Frame(t, c))
      BY <2>1
    <3> QED BY <3>1, Said
  <2>6. \A d : DiscSent(d) => DiscSent(d)'
    BY <2>1, <2>4 DEF DiscSent
  <2>7. /\ \A d \in 0..Ports : ~On(fromModem', Frame("SABM", d))
        /\ ~On(fromModem', Frame("DM", 0))
    BY <1>a, <2>2, <2>5 DEF ClosesNow
  <2> QED BY <1>a, <2>1, <2>2, <2>3, <2>4, <2>6, <2>7 DEF ClosesNow
<1>31. ASSUME NEW c \in 0..Ports, NEW t \in {"UA", "DM", "RSP", "TEST", "CLD"},
             ModemHandles(Frame(t, c))
      PROVE  ClosesNow'
  <2>1. /\ Take(Frame(t, c)) /\ modemOpen' \subseteq modemOpen
        /\ fromModem' = fromModem \/ Answer(Frame("RSP", 0))
        /\ UNCHANGED <<state, serialOpen, mpc, i, opened, fdOpen, disc_ua_pending, sabm_ua_pending,
                       LackofAtciChannel, sabm_ua_received, mux_setup_chnl_complete>>
    BY <1>31 DEF ModemHandles, Daemon, serial, dog, chan, setup
  <2>2. /\ \A u, d : On(toModem', Frame(u, d)) => On(toModem, Frame(u, d))
        /\ \A d : On(toModem, Frame("DISC", d)) => On(toModem', Frame("DISC", d))
    BY <2>1, TookOff
  <2>3. \A u, d : On(fromModem', Frame(u, d)) => On(fromModem, Frame(u, d)) \/ u = "RSP"
    BY <2>1, Said, SessionAssumption
  <2>4. \A d : DiscSent(d) => DiscSent(d)'
    BY <2>1, <2>2 DEF DiscSent
  <2>5. /\ \A u, d : u # "RSP" /\ ~On(fromModem, Frame(u, d)) => ~On(fromModem', Frame(u, d))
    BY <2>3
  <2> QED BY <1>a, <2>1, <2>2, <2>4, <2>5 DEF ClosesNow
<1>32. ASSUME NEW c \in 0..Ports, NEW t \in {"DISC", "SABM", "CLD"}, ModemRequests(t, c)
      PROVE  ClosesNow'
  BY <1>32, <1>b DEF ModemRequests, Smooth
<1> QED
  BY <1>1, <1>2, <1>3, <1>4, <1>5, <1>6, <1>7, <1>8, <1>9, <1>10, <1>11, <1>12,
     <1>13, <1>14, <1>15, <1>16, <1>17, <1>18, <1>19, <1>20, <1>21, <1>22, <1>23,
     <1>24, <1>25, <1>26, <1>27, <1>28, <1>29, <1>30, <1>31, <1>32
     DEF Next, watchdog, extract_frames, Modem

-----------------------------------------------------------------------------
(***************************************************************************)
(* The theorems.                                                           *)
(***************************************************************************)

\* The daemon starts with all parts of the invariant.
LEMMA InitIInv == Init => IInv
<1> SUFFICES ASSUME Init PROVE IInv
  OBVIOUS
<1>1. TypeOK
  <2>1. Plain
    <3>1. /\ 0 \in 0..(use_ping + 1) /\ 1 \in 1..(Ports + 1) /\ 0 \in 0..Ports /\ 0 \in Nat
          /\ 0 \in 0..MaxSessions /\ 0 \in 0..MaxPeer /\ 0 \in 0..MaxHangups
      BY SessionAssumption
    <3> QED BY <3>1, Zenon DEF Init, Plain
  <2>2. LinesTyped
    BY DEF Init, LinesTyped
  <2> QED BY <2>1, <2>2, TypeParts
<1>2. sessions = 0
  BY DEF Init
<1>3. Fresh
  BY DEF Init, Fresh, Pristine
<1>4. Counts
  BY DEF Init, Counts
<1> QED
  BY <1>1, <1>2, <1>3, <1>4
     DEF IInv, Counted, Muxes, Answered, Undisturbed, PtysOpen, Agrees, Regular, Closes, Smooth

\* Every step of the daemon, of the modem and of the applications preserves
\* all parts of the invariant.
LEMMA NextIInv == IInv /\ [Next]_vars => IInv'
<1> SUFFICES ASSUME IInv, [Next]_vars PROVE IInv'
  OBVIOUS
<1>1. CASE Next
  <2>1. /\ TypeOK /\ Counts /\ Fresh /\ Counted /\ Muxes /\ Answered /\ PtysOpen /\ Agrees
        /\ Closes /\ Plain
    BY TypeParts DEF IInv
  <2>2. Plain' /\ Counts' /\ LinesTyped'
    BY <1>1, <2>1, NextPlain, NextLines
  <2>3. TypeOK'
    BY <2>2 DEF TypeOK, Plain, LinesTyped, Frames, FromFrames
  <2>4. Fresh' /\ Counted' /\ Muxes'
    BY <1>1, <2>1, NextFresh, NextCounted, NextMuxes
  <2>5. Answered' /\ PtysOpen' /\ Agrees' /\ Closes'
    BY <1>1, <2>1, NextAnswered, NextPtysOpen, NextAgrees, NextCloses
  <2> QED BY <2>2, <2>3, <2>4, <2>5 DEF IInv
<1>2. CASE UNCHANGED vars
  <2>1. UNCHANGED <<state, serialOpen, ping_number, fdOpen, opened, sabm_ua_pending,
                    disc_ua_pending, reopen, mux_setup_chnl_complete, sabm_ua_received,
                    LackofAtciChannel, mpc, i, num_disc_sent, close_down, rild_started, apc,
                    toModem, fromModem, modemOpen, asked, sessions, peer, hangups, seen, silent>>
    BY <1>2 DEF vars, serial, chan, setup, dog, line, modem, bounds
  <2>2. TypeOK' /\ Counts' /\ Fresh' /\ Counted' /\ Muxes' /\ PtysOpen'
    BY <2>1 DEF IInv, TypeOK, Counts, Fresh, Pristine, Counted, Muxes, PtysOpen
  <2>3. Answered'
    BY <2>1 DEF IInv, Answered, AnsweredNow, Undisturbed, DmHarmless, ModemFollows, Opening,
       DiscOnce, Taken, UaAwaited
  <2>4. Agrees'
    BY <2>1 DEF IInv, Agrees, AgreesNow, Regular, AgreedOn, Allocating
  <2>5. Closes'
    BY <2>1 DEF IInv, Closes, Smooth, ClosesNow, DiscSent
  <2> QED BY <2>2, <2>3, <2>4, <2>5 DEF IInv
<1> QED BY <1>1, <1>2

\* Applications send on open channels only and the radio daemon starts when the
\* setup is complete, whatever the order in which the modem's UAs come in relative
\* to c_alloc_channel and to the wait of watchdog(), for any number of channels.
THEOREM SetupGateHolds == Spec => []SetupGate
<1>1. IInv => SetupGate
  <2> SUFFICES ASSUME IInv PROVE SetupGate
    OBVIOUS
  <2>1. TypeOK /\ Counts /\ Counted /\ PtysOpen /\ Plain
    BY TypeParts DEF IInv
  <2>2. ASSUME sessions = 1, "DISC" \notin seen, mux_setup_chnl_complete, ~LackofAtciChannel
        PROVE  fdOpen \subseteq opened
    <3>1. sabm_ua_received >= Ports + 1
      BY <2>1, <2>2 DEF Counts
    <3>2. IsFiniteSet(sabm_ua_pending) /\ Cardinality(sabm_ua_pending) \in Nat
      BY <2>1, Fewer DEF Plain
    <3>3. Cardinality(sabm_ua_pending) = 0
      BY <2>1, <2>2, <3>1, <3>2, SessionAssumption DEF Counted, Plain
    <3>4. sabm_ua_pending = {}
      BY <3>2, <3>3, FS_EmptySet
    <3> QED BY <2>1, <2>2, <3>4 DEF PtysOpen
  <2>3. RildAfterSetup
    BY <2>1 DEF Counts, RildAfterSetup
  <2> QED BY <2>1, <2>2, <2>3 DEF SetupGate, TxOnlyOnOpened
<1> QED BY InitIInv, NextIInv, <1>1, PTL DEF Spec

\* When no frame is under way, the daemon and the modem agree on the open channels,
\* whatever either of them asked for and in whatever order the other one handled it.
THEOREM AgreementHolds == Spec => []Agreement
<1>1. IInv => Agreement
  <2> SUFFICES ASSUME IInv, sessions = 1, state = "MUXING", toModem = <<>>, fromModem = <<>>,
                      LackofAtciChannel => ATCI = Ports
               PROVE  opened = modemOpen
    BY DEF Agreement
  <2>1. TypeOK /\ Muxes /\ Agrees /\ Plain
    BY TypeParts DEF IInv
  <2>2. "CLD" \notin seen
    BY <2>1, OnEmpty DEF Muxes
  <2>3. \A c \in 0..Ports : AgreedOn(c)
    BY <2>1, <2>2 DEF Agrees, AgreesNow, Regular
  <2>4. \A c, g : ~Sole(<<>>, c, g)
    BY DEF Sole
  <2>5. \A c \in 0..Ports : c \in opened <=> c \in modemOpen
    BY <2>3, <2>4 DEF AgreedOn, Agreed
  <2> QED BY <2>1, <2>5 DEF Plain
<1> QED BY InitIInv, NextIInv, <1>1, PTL DEF Spec

\* close_devices does not sleep for UAs that are already there: the assembling
\* thread cannot handle the last of them between the last DISC and the wait.
THEOREM UaNotMissedHolds == Spec => []UaNotMissed
<1>1. IInv => UaNotMissed
  BY DEF IInv, UaNotMissed, Answered, AnsweredNow, Undisturbed, UaAwaited, Counts
<1> QED BY InitIInv, NextIInv, <1>1, PTL DEF Spec

\* The modem has closed every logical channel when CLD reaches it: the DISC of each
\* channel that it has open is on the line before CLD is.
THEOREM OrderlyCloseHolds == Spec => []OrderlyClose
<1>1. IInv => OrderlyClose
  <2> SUFFICES ASSUME IInv, sessions = 1, hangups = 0, seen = {}, toModem # <<>>,
                      Head(toModem) = Frame("CLD", 0), NEW c \in Chans, c \in modemOpen
               PROVE  FALSE
    BY DEF OrderlyClose
  <2>1. TypeOK /\ Counts /\ Muxes /\ ClosesNow
    BY DEF IInv, Closes, Smooth
  <2>2. On(toModem, Frame("CLD", 0)) /\ toModem \in Seq(Frames)
    BY <2>1, Lines, OnTail
  <2>3. ~serialOpen
    BY <2>1, <2>2, SessionAssumption DEF Muxes
  <2>4. state = "OPENING"
    BY <2>1, <2>3 DEF ClosesNow, Counts
  <2>5. On(toModem, Frame("DISC", c))
    BY <2>1, <2>4 DEF ClosesNow, DiscSent
  <2>6. Frame("DISC", c) # Head(toModem) /\ ~On(Tail(toModem), Frame("DISC", c))
    BY <2>1, <2>2, CldLine DEF Muxes, Frame
  <2> QED BY <2>2, <2>5, <2>6, OnTail
<1> QED BY InitIInv, NextIInv, <1>1, PTL DEF Spec
=============================================================================
