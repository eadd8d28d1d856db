----------------------------- MODULE AtChannel -----------------------------
(***************************************************************************)
(* mtk/ril/mtk-ril/atchannels.c: one AT channel of the radio interface     *)
(* layer.  Threads send a command at a time (at_send_command_*,            *)
(* at_handshake) and wait on commandcond for the final response; a reader  *)
(* thread (readerLoop) sorts the modem's lines into answer and unsolicited *)
(* lines; a command that times out, and a reader that meets the end of its *)
(* input, close the channel, which mainLoop (ril_callbacks.c) opens again. *)
(*                                                                         *)
(* What happens under commandmutex without a wait is one step.  Lines are  *)
(* records: their kind, the command they answer, their number.  assert()   *)
(* is compiled out (NDEBUG), as setRadioState, which asserts 0 on every    *)
(* change, requires; isNumericSet is 0; the build is a user build, where a *)
(* timeout does not end the process.                                       *)
(***************************************************************************)
EXTENDS Naturals, SequencesExt

CONSTANTS Senders,    \* threads that send commands on this channel
          Kinds,      \* the kinds of commands each of them sends
          MaxCmds,    \* bound: commands written to the modem
          MaxUrcs,    \* bound: unsolicited lines
          MaxOpens,   \* bound: times the channel is opened
          MaxFaults,  \* bound: times the tty hangs up or another channel closes
          MaxEvents,  \* bound: unsolicited lines and such faults together
          None        \* NULL, and thread id 0

ASSUME AtAssumption ==
  /\ Kinds \in [Senders -> SUBSET {"plain", "single", "multi", "sms", "raw", "handshake"}]
  /\ None \notin Senders
  /\ {MaxCmds, MaxUrcs, MaxOpens, MaxFaults, MaxEvents} \subseteq Nat

VARIABLES
  open,         \* fd >= 0
  readerClosed, tid_myProxy,
  p_response,   \* the pending command's answer so far, or None
  pc, cmd,      \* the senders: where they are, the command they send
  woken,        \* senders that commandcond has woken
  rpc,          \* the reader threads, one per at_open
  toModem, fromModem, hup,  \* the tty: both directions, and hung up?
  mainpc, s_closed,         \* mainLoop
  handled,      \* history: unsolicited lines handed to unsolHandler
  swallowed,    \* history: those taken for part of an answer or lost with the tty
  sent, urcs, opens, faults,   \* counters for the bounds
  overlap,      \* history: has a second sender passed the occupancy test?
  expired,      \* history: has a command timed out?
  forgot,       \* history: has mainLoop reset s_closed after a close?
  broken        \* p_response is reset under a waiting thread, or the channel
                \* has two readers: what follows is undefined

chan   == <<open, readerClosed, tid_myProxy, p_response>>
calls  == <<pc, cmd>>
tty    == <<toModem, fromModem, hup>>
loop   == <<mainpc, s_closed>>
unsol  == <<handled, swallowed>>
count  == <<sent, urcs, opens, faults>>
hist   == <<overlap, expired, forgot, broken>>
vars   == <<chan, calls, woken, rpc, tty, loop, unsol, count, hist>>

Readers   == 1..MaxOpens
InUse     == {"checked", "wait", "expired"}
Line(k, id, n) == [kind |-> k, of |-> id, nr |-> n]
IsUrc(l)  == l.kind \in {"urc", "urclike"}

\* What the modem answers to a command of kind k (sms: to its PDU).
Answers(k, id) ==
  { <<Line("ERROR", id, 0)>>,
    CASE k \in {"plain", "handshake"}    -> <<Line("OK", id, 0)>>
      [] k \in {"single", "sms", "raw"}  -> <<Line("inter", id, 1), Line("OK", id, 0)>>
      [] k = "multi" -> <<Line("inter", id, 1), Line("inter", id, 2), Line("OK", id, 0)>> }

\* pthread_cond_signal(commandcond): wakes one waiting sender, if there is one.
Signal ==
  LET waiting == {s \in Senders : pc[s] = "wait"} \ woken
  IN  IF waiting = {} THEN UNCHANGED woken
      ELSE \E s \in waiting : woken' = woken \cup {s}

NoCmd == [id |-> 0, kind |-> "plain"]

Return(s) ==
  /\ pc' = [pc EXCEPT ![s] = "idle"]
  /\ cmd' = [cmd EXCEPT ![s] = NoCmd]

(***************************************************************************)
(* Sending a command.                                                      *)
(***************************************************************************)
\* The tests at_send_command_full makes before it takes commandmutex: where
\* they fail (the radio is off, a command occupies the channel) the call
\* returns with an error and changes nothing.  at_handshake makes no test; each of
\* its tries is a call of its own.
Begin(s, k) ==
  /\ pc[s] = "idle" /\ sent < MaxCmds
  /\ k = "handshake" \/ tid_myProxy = None
  /\ cmd' = [cmd EXCEPT ![s].kind = k]
  /\ pc' = [pc EXCEPT ![s] = "checked"]
  /\ overlap' = (overlap \/ \E u \in Senders \ {s} : pc[u] \in InUse)
  /\ UNCHANGED <<chan, woken, rpc, tty, loop, unsol, count, expired, forgot, broken>>

\* clearPendingCommand, tid_myProxy = 0 and the return, with an error or not.
Finish(s) ==
  /\ p_response' = None
  /\ tid_myProxy' = IF cmd[s].kind = "handshake" THEN tid_myProxy ELSE None
  /\ Return(s)

\* Faulty: the command does not look for another one that is pending.
Send_butOverwrites(s) ==
  /\ pc[s] = "checked"
  /\ open /\ ~readerClosed /\ ~hup /\ sent < MaxCmds
  /\ sent' = sent + 1
  /\ cmd' = [cmd EXCEPT ![s].id = sent + 1]
  /\ toModem' = Append(toModem, cmd'[s])
  /\ tid_myProxy' = s
  /\ p_response' = [cmd |-> cmd'[s], inter |-> <<>>, final |-> None]
  /\ pc' = [pc EXCEPT ![s] = "wait"]
  /\ UNCHANGED <<open, readerClosed, woken, rpc, fromModem, hup, loop, unsol,
                 urcs, opens, faults, hist>>

\* at_send_command_full_nolock up to the wait.  A command that finds another
\* one pending (AT_ERROR_COMMAND_PENDING) clears that one, whose thread will
\* dereference NULL; a closed channel and a failed write are errors, too.  write()
\* itself is taken to end: a tty that takes nothing keeps the thread in writeline,
\* with commandmutex held and without a limit.
Send(s) ==
  /\ pc[s] = "checked"
  /\ \/ /\ Finish(s)
        /\ broken' = (p_response # None)
        /\ UNCHANGED <<toModem, sent>>
     \/ /\ p_response = None /\ open /\ ~readerClosed /\ ~hup /\ sent < MaxCmds
        /\ sent' = sent + 1
        /\ cmd' = [cmd EXCEPT ![s].id = sent + 1]
        /\ toModem' = Append(toModem, cmd'[s])
        /\ tid_myProxy' = IF cmd[s].kind = "handshake" THEN tid_myProxy ELSE s
        /\ p_response' = [cmd |-> cmd'[s], inter |-> <<>>, final |-> None]
        /\ pc' = [pc EXCEPT ![s] = "wait"]
        /\ UNCHANGED broken
  /\ UNCHANGED <<open, readerClosed, woken, rpc, fromModem, hup, loop, unsol,
                 urcs, opens, faults, overlap, expired, forgot>>

\* Faulty: the answer is returned in the order in which the lines were collected.
Answer_butReversed == Append(p_response.inter, p_response.final)

\* What the call returns: the intermediate lines were collected in reverse.
Answer == Append(Reverse(p_response.inter), p_response.final)

\* The end of the wait.
Wake(s) ==
  /\ pc[s] = "wait" /\ s \in woken
  /\ woken' = woken \ {s}
  /\ \/ /\ p_response.final = None /\ ~readerClosed
        /\ UNCHANGED <<chan, calls>>
     \/ /\ p_response.final # None \/ readerClosed
        /\ Finish(s)
        /\ UNCHANGED <<open, readerClosed>>
  /\ UNCHANGED <<rpc, tty, loop, unsol, count, hist>>

\* Faulty: every command waits without a limit.
Expire_butNever(s) == FALSE /\ UNCHANGED <<s, vars>>

\* The wait ends with ETIMEDOUT; at_handshake waits without a limit.
Expire(s) ==
  /\ pc[s] = "wait" /\ s \notin woken /\ cmd[s].kind # "handshake"
  /\ pc' = [pc EXCEPT ![s] = "expired"]
  /\ expired' = TRUE
  /\ UNCHANGED <<chan, cmd, woken, rpc, tty, loop, unsol, count,
                 overlap, forgot, broken>>

\* commandmutex is taken again: the command is given up, answered or not.
GiveUp(s) ==
  /\ pc[s] = "expired"
  /\ p_response' = None /\ tid_myProxy' = None
  /\ pc' = [pc EXCEPT ![s] = "timeout"]
  /\ cmd' = [cmd EXCEPT ![s] = NoCmd]
  /\ UNCHANGED <<open, readerClosed, woken, rpc, tty, loop, unsol, count, hist>>

at_close ==
  /\ open' = FALSE
  /\ readerClosed' = TRUE
  /\ Signal

\* onATTimeout: closes the channel, ...
OnTimeout(s) ==
  /\ pc[s] = "timeout"
  /\ at_close
  /\ pc' = [pc EXCEPT ![s] = "closing"]
  /\ UNCHANGED <<tid_myProxy, p_response, cmd, rpc, tty, loop, unsol, count, hist>>

\* Faulty: mainLoop is woken before s_closed is set, and not told again.
TellMain_butEarly(s) ==
  /\ pc[s] = "closing"
  /\ pc' = [pc EXCEPT ![s] = "idle"]
  /\ UNCHANGED <<chan, cmd, woken, rpc, tty, loop, unsol, count, hist>>

\* ... then sets s_closed and, in setRadioState, wakes mainLoop.
TellMain(s) ==
  /\ pc[s] = "closing"
  /\ s_closed' = TRUE
  /\ pc' = [pc EXCEPT ![s] = "idle"]
  /\ UNCHANGED <<chan, cmd, woken, rpc, tty, mainpc, unsol, count, hist>>

(***************************************************************************)
(* The reader threads.                                                     *)
(***************************************************************************)
\* Does processLine keep line l as an intermediate line of the pending command?
IsIntermediate(l) ==
  LET k == p_response.cmd.kind
      matches == l.kind \in {"inter", "urclike"}
  IN  CASE k \in {"plain", "handshake"} -> FALSE
        [] k \in {"single", "sms"}      -> matches /\ p_response.inter = <<>>
        [] k = "multi"                  -> matches
        [] k = "raw"                    -> l.kind \notin {"OK", "ERROR", "prompt"}

Keep(l) ==
  /\ p_response' = [p_response EXCEPT !.inter = <<l>> \o @]
  /\ swallowed' = IF IsUrc(l) THEN swallowed \cup {l.nr} ELSE swallowed
  /\ UNCHANGED <<woken, handled, toModem>>

handleFinalResponse(l) ==
  /\ p_response' = [p_response EXCEPT !.final = l]
  /\ Signal
  /\ UNCHANGED <<unsol, toModem>>

handleUnsolicited(l) ==
  /\ handled' = IF IsUrc(l) THEN Append(handled, l.nr) ELSE handled
  /\ UNCHANGED <<p_response, woken, swallowed, toModem>>

\* writeCtrlZ: the PDU of an SMS, when the modem asks for it.
writeCtrlZ ==
  /\ toModem' = IF open /\ ~readerClosed /\ ~hup
                THEN Append(toModem, [p_response.cmd EXCEPT !.kind = "pdu"])
                ELSE toModem
  /\ UNCHANGED <<p_response, woken, unsol>>

processLine(l) ==
  \/ p_response = None /\ handleUnsolicited(l)
  \/ /\ p_response # None
     /\ \/ IsIntermediate(l) /\ Keep(l)
        \/ /\ ~IsIntermediate(l)
           /\ \/ l.kind \in {"OK", "ERROR"} /\ handleFinalResponse(l)
              \/ l.kind = "prompt" /\ p_response.cmd.kind = "sms" /\ writeCtrlZ
              \/ l.kind = "prompt" /\ p_response.cmd.kind # "sms" /\ handleFinalResponse(l)
              \/ l.kind \notin {"OK", "ERROR", "prompt"} /\ handleUnsolicited(l)

\* One round of readerLoop.  A reader that sits in read() when another thread
\* closes the descriptor still gets the lines of the old tty.
ReadLine(r) ==
  /\ rpc[r] = "read" /\ fromModem # <<>>
  /\ fromModem' = Tail(fromModem)
  /\ processLine(Head(fromModem))
  /\ UNCHANGED <<open, readerClosed, tid_myProxy, calls, rpc, hup, loop, count, hist>>

\* read() fails or meets the end of the input: the reader leaves its loop.
ReadFails(r) ==
  /\ rpc[r] = "read" /\ (~open \/ (hup /\ fromModem = <<>>))
  /\ rpc' = [rpc EXCEPT ![r] = "closing"]
  /\ UNCHANGED <<chan, calls, woken, tty, loop, unsol, count, hist>>

\* onReaderClosed: unless the channel is closed already, it wakes the sender ...
onReaderClosed(r) ==
  /\ rpc[r] = "closing"
  /\ rpc' = [rpc EXCEPT ![r] = IF readerClosed THEN "dead" ELSE "closed"]
  /\ IF readerClosed THEN UNCHANGED woken ELSE Signal
  /\ readerClosed' = TRUE
  /\ UNCHANGED <<open, tid_myProxy, p_response, calls, tty, loop, unsol, count, hist>>

\* ... and calls onATReaderClosed, which closes the channel ...
onATReaderClosed(r) ==
  /\ rpc[r] = "closed"
  /\ at_close
  /\ rpc' = [rpc EXCEPT ![r] = "telling"]
  /\ UNCHANGED <<tid_myProxy, p_response, calls, tty, loop, unsol, count, hist>>

\* ... and then sets s_closed.
ReaderTells(r) ==
  /\ rpc[r] = "telling"
  /\ s_closed' = TRUE
  /\ rpc' = [rpc EXCEPT ![r] = "dead"]
  /\ UNCHANGED <<chan, calls, woken, tty, mainpc, unsol, count, hist>>

(***************************************************************************)
(* mainLoop: opens every channel, then waits until one is closed.          *)
(***************************************************************************)
\* open() if the channel is closed, tried until it succeeds, s_closed = 0, at_open
\* in any case.  (pthread_create for the reader is taken to succeed.)
OpenThis ==
  /\ mainpc = "open" /\ opens < MaxOpens
  /\ open' = TRUE
  /\ hup' = (hup /\ open)
  /\ fromModem' = IF open THEN fromModem ELSE <<>>
  /\ swallowed' = IF open THEN swallowed
                  ELSE swallowed \cup {l.nr : l \in {m \in Range(fromModem) : IsUrc(m)}}
  /\ readerClosed' = FALSE
  /\ p_response' = None
  /\ opens' = opens + 1
  /\ rpc' = [rpc EXCEPT ![opens + 1] = "read"]
  /\ s_closed' = FALSE
  /\ mainpc' = "next"
  /\ broken' = (p_response # None \/ \E r \in Readers : rpc[r] \in {"read", "closing", "closed"})
  /\ UNCHANGED <<tid_myProxy, calls, woken, toModem, handled,
                 sent, urcs, faults, overlap, expired, forgot>>

\* The channels after this one: s_closed = 0 again for each of them.  Where the SIM
\* that the modem calls the main one is not the expected one, mainLoop then asks for
\* a restart and returns for good (after the last opening it makes no difference).
OpenNext ==
  /\ mainpc = "next"
  /\ s_closed' = FALSE
  /\ forgot' = (forgot \/ s_closed)
  /\ mainpc' = "wait" \/ (mainpc' = "returned" /\ opens < MaxOpens)
  /\ UNCHANGED <<chan, calls, woken, rpc, tty, unsol, count, overlap, expired, broken>>

waitForClose ==
  /\ mainpc = "wait" /\ s_closed
  /\ mainpc' = "open"
  /\ UNCHANGED <<chan, calls, woken, rpc, tty, s_closed, unsol, count, hist>>

\* Another channel times out or loses its reader.
OtherCloses ==
  /\ faults < MaxFaults /\ urcs + faults < MaxEvents
  /\ faults' = faults + 1
  /\ s_closed' = TRUE
  /\ UNCHANGED <<chan, calls, woken, rpc, tty, mainpc, unsol, sent, urcs, opens, hist>>

(***************************************************************************)
(* The modem (not part of the repository).                                 *)
(***************************************************************************)
\* It answers a command, asks for the PDU of an SMS, or stays silent.
ModemAnswers ==
  /\ toModem # <<>> /\ open /\ ~hup
  /\ toModem' = Tail(toModem)
  /\ LET c == Head(toModem) IN
     \E a \in (IF c.kind = "sms" THEN {<<Line("prompt", c.id, 0)>>, <<Line("ERROR", c.id, 0)>>}
               ELSE Answers(IF c.kind = "pdu" THEN "sms" ELSE c.kind, c.id)) \cup {<<>>} :
       fromModem' = fromModem \o a
  /\ UNCHANGED <<chan, calls, woken, rpc, hup, loop, unsol, count, hist>>

\* An unsolicited line, possibly one that starts like the awaited answer and
\* possibly in the middle of an answer.
ModemUrc ==
  /\ urcs < MaxUrcs /\ urcs + faults < MaxEvents /\ open /\ ~hup
  /\ urcs' = urcs + 1
  /\ \E k \in {"urc", "urclike"}, i \in 1..(Len(fromModem) + 1) :
       /\ \A j \in i..Len(fromModem) : ~IsUrc(fromModem[j])
       /\ fromModem' = InsertAt(fromModem, i, Line(k, 0, urcs + 1))
  /\ UNCHANGED <<chan, calls, woken, rpc, toModem, hup, loop, unsol,
                 sent, opens, faults, hist>>

ModemHangsUp ==
  /\ faults < MaxFaults /\ urcs + faults < MaxEvents /\ open /\ ~hup
  /\ hup' = TRUE
  /\ toModem' = <<>>
  /\ faults' = faults + 1
  /\ UNCHANGED <<chan, calls, woken, rpc, fromModem, loop, unsol,
                 sent, urcs, opens, hist>>

(***************************************************************************)
Init ==
  /\ open = FALSE /\ readerClosed = FALSE /\ tid_myProxy = None /\ p_response = None
  /\ pc = [s \in Senders |-> "idle"]
  /\ cmd = [s \in Senders |-> NoCmd]
  /\ woken = {}
  /\ rpc = [r \in Readers |-> "none"]
  /\ toModem = <<>> /\ fromModem = <<>> /\ hup = FALSE
  /\ mainpc = "open" /\ s_closed = FALSE
  /\ handled = <<>> /\ swallowed = {}
  /\ sent = 0 /\ urcs = 0 /\ opens = 0 /\ faults = 0
  /\ overlap = FALSE /\ expired = FALSE /\ forgot = FALSE /\ broken = FALSE

SenderStep(s) ==
  \/ Send(s) \/ Wake(s) \/ Expire(s) \/ GiveUp(s) \/ OnTimeout(s) \/ TellMain(s)

ReaderStep(r) ==
  ReadLine(r) \/ onReaderClosed(r) \/ onATReaderClosed(r) \/ ReaderTells(r)

MainStep == OpenThis \/ OpenNext \/ waitForClose

Next ==
  /\ ~broken
  /\ \/ \E s \in Senders : SenderStep(s) \/ \E k \in Kinds[s] : Begin(s, k)
     \/ \E r \in Readers : ReaderStep(r) \/ ReadFails(r)
     \/ MainStep \/ OtherCloses
     \/ ModemAnswers \/ ModemUrc \/ ModemHangsUp

Spec == Init /\ [][Next]_vars

(***************************************************************************)
(* A sender's waits are timed, the mutex is handed on, a thread that can   *)
(* run does; nothing is assumed of the modem or of the callers.            *)
(***************************************************************************)
FairSpec ==
  /\ Spec
  /\ \A s \in Senders : WF_vars(~broken /\ SenderStep(s))
  /\ \A r \in Readers : WF_vars(~broken /\ ReaderStep(r))
  /\ WF_vars(~broken /\ MainStep)

(***************************************************************************)
(* Properties.                                                             *)
(***************************************************************************)
TypeOK ==
  /\ open \in BOOLEAN /\ readerClosed \in BOOLEAN
  /\ tid_myProxy \in Senders \cup {None}
  /\ pc \in [Senders -> InUse \cup {"idle", "timeout", "closing"}]
  /\ woken \subseteq Senders
  /\ rpc \in [Readers -> {"none", "read", "closing", "closed", "telling", "dead"}]
  /\ mainpc \in {"open", "next", "wait", "returned"} /\ s_closed \in BOOLEAN
  /\ sent \in 0..MaxCmds /\ urcs \in 0..MaxUrcs /\ opens \in 0..MaxOpens

\* The pending response belongs to the thread that waits for it, which
\* dereferences it after every wait (at_send_command_full_nolock): only two
\* senders that pass the occupancy test together, or a channel that is opened
\* again while in use, can take it away.
PendingIsOwned ==
  /\ broken => overlap \/ opens > 1
  /\ ~broken => \A s \in Senders : pc[s] \in {"wait", "expired"} =>
                   p_response # None /\ p_response.cmd = cmd[s]

\* A call that succeeds returns the modem's answer to its own command, every
\* line and in order (processLine, reverseIntermediates), if no unsolicited
\* line with the command's prefix is among them: until some command has timed
\* out, whose late answer the next command would take for its own.
OwnAnswer ==
  ~broken /\ ~expired =>
    \A s \in Senders :
      /\ pc[s] = "wait" /\ p_response # None
      /\ p_response.final # None
      /\ \A i \in DOMAIN p_response.inter : ~IsUrc(p_response.inter[i])
      => Answer \in Answers(cmd[s].kind, cmd[s].id)

\* No unsolicited line gets lost between the tty and unsolHandler, whatever
\* command is pending (the history swallowed holds those with the prefix of the
\* awaited answer and those left in a closed tty), and the handler sees them in
\* the modem's order.
UrcsKept ==
  /\ \A n \in 1..urcs :
       \/ \E i \in DOMAIN fromModem : IsUrc(fromModem[i]) /\ fromModem[i].nr = n
       \/ n \in Range(handled) \cup swallowed
  /\ \A i, j \in DOMAIN handled : i < j => handled[i] < handled[j]

\* A call of at_send_command_* returns, whatever the modem answers: every wait for
\* an answer is limited.
CommandReturns ==
  \A s \in {u \in Senders : Kinds[u] # {"handshake"}} :
    []<>(pc[s] = "idle" \/ cmd[s].kind = "handshake" \/ broken)

\* at_handshake, which waits without a limit, at least returns when the reader
\* meets the end of the input (onReaderClosed signals the waiting thread).
HandshakeEndsOnClose ==
  \A s \in {u \in Senders : "handshake" \in Kinds[u]} :
    []<>(\/ ~(pc[s] = "wait" /\ cmd[s].kind = "handshake" /\ readerClosed)
         \/ overlap \/ broken)

\* A closed channel is opened again, unless mainLoop forgot the close when it
\* reset s_closed for a channel later in the row (ril_callbacks.c:1936), or has
\* returned (1957-1971).
ClosedReopens ==
  []<>(open \/ forgot \/ mainpc = "returned" \/ broken \/ opens = MaxOpens)

\* processLine sorts the modem's lines: an answer goes to the command that asked
\* for it, an unsolicited line to its handler.
LinesSorted == TypeOK /\ OwnAnswer /\ UrcsKept

\* No caller hangs: commands return in any case, handshakes when the tty closes.
CallsReturn == CommandReturns /\ HandshakeEndsOnClose
=============================================================================
