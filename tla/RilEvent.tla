------------------------------ MODULE RilEvent ------------------------------
(***************************************************************************)
(* mtk/ril/librilmtk/ril_event.cpp and its clients in ril.cpp: the event   *)
(* loop of rild with its sorted timer list and its wakeup pipe, threads    *)
(* that ask for a timed callback (RIL_requestTimedCallback), and threads   *)
(* that report an unsolicited response: they take the wake lock and ask    *)
(* for a timer that releases it, after cancelling the one before           *)
(* (RIL_onUnsolicitedResponseSocket).                                      *)
(*                                                                         *)
(* Time is a number; a timer is a number with its record.  The descriptors *)
(* other than the pipe are in RilRequests.  A round that a signal          *)
(* interrupts is the round begun again.                                    *)
(***************************************************************************)
EXTENDS Integers, SequencesExt

CONSTANTS Threads,     \* the threads other than the loop
          Wake,        \* TIMEVAL_WAKE_TIMEOUT
          Delays,      \* the relative times of other timed callbacks
          MaxTimers,   \* bound: timers asked for, and responses that fail
          Horizon,     \* bound: the last moment
          None         \* NULL

ASSUME EventAssumption ==
  /\ Wake \in Nat /\ Delays \subseteq 0..Wake
  /\ MaxTimers \in Nat /\ Horizon \in Nat
  /\ None \notin Threads /\ "loop" \notin Threads /\ None \notin 1..MaxTimers

VARIABLES
  now,
  timer_list,    \* sequence of timers, the first to expire first
  pending_list,  \* sequence of timers, then Pipe if it has bytes
  info,          \* the UserCallbackInfo of each timer
  pipe,          \* bytes in the wakeup pipe
  lpc, until,    \* the loop: where it is, what select() waits for
  cur, param,    \* the timer whose callback runs, the userParam it was given
  s_last_wake_timeout_info, s_last_wake_mutex,
  wakelock,
  upc, mine,     \* the other threads: where they are, the timer they add
  raced,         \* history: has a callback that was cancelled too late, or not
                 \* yet, released the lock of a newer response?
  failed         \* history: responses that failed, and so released the lock

loop  == <<lpc, until, cur, param>>
wake  == <<s_last_wake_timeout_info, s_last_wake_mutex>>
vars  == <<now, timer_list, pending_list, info, pipe, loop, wake, wakelock,
           upc, mine, raced, failed>>

Timers == 1..MaxTimers
Pipe   == 0
Unused == [state |-> "none", timeout |-> 0, wakes |-> FALSE, userParam |-> 0]
Freed  == [Unused EXCEPT !.state = "freed"]
Asked  == Cardinality({i \in Timers : info[i].state # "none"})
         + Cardinality({t \in Threads : upc[t] \in {"sending", "cancelled"}})
         + failed

(***************************************************************************)
(* The loop.                                                               *)
(***************************************************************************)
\* calcNextTimeout: reads the head of the list, without listMutex.
calcNextTimeout ==
  /\ lpc = "copy"
  /\ until' = IF timer_list = <<>> THEN None ELSE info[Head(timer_list)].timeout
  /\ lpc' = "select"
  /\ UNCHANGED <<now, timer_list, pending_list, info, pipe, cur, param, wake, wakelock,
                 upc, mine, raced, failed>>

processReadReadies == IF pipe > 0 THEN <<Pipe>> ELSE <<>>

\* Faulty: the last of the expired timers is removed but does not become pending.
processTimeouts_butDrops ==
  LET n == Cardinality({k \in DOMAIN timer_list :
                          \A j \in 1..k : now > info[timer_list[j]].timeout})
  IN  /\ timer_list' = SubSeq(timer_list, n + 1, Len(timer_list))
      /\ pending_list' = SubSeq(timer_list, 1, n - 1) \o processReadReadies

\* processTimeouts: the expired timers at the head of the list become pending,
\* before the pipe.
processTimeouts ==
  LET n == Cardinality({k \in DOMAIN timer_list :
                          \A j \in 1..k : now > info[timer_list[j]].timeout})
  IN  /\ timer_list' = SubSeq(timer_list, n + 1, Len(timer_list))
      /\ pending_list' = SubSeq(timer_list, 1, n) \o processReadReadies

\* select() returns, for the pipe or for the timeout; processTimeouts and
\* processReadReadies follow.
Select ==
  /\ lpc = "select" /\ (pipe > 0 \/ (until # None /\ now >= until))
  /\ processTimeouts
  /\ lpc' = "fire" /\ until' = None
  /\ UNCHANGED <<now, info, pipe, cur, param, wake, wakelock, upc, mine, raced, failed>>

\* firePending: userTimerCallback reads userParam, ...
FireTimer ==
  /\ lpc = "fire" /\ pending_list # <<>> /\ Head(pending_list) # Pipe
  /\ cur' = Head(pending_list)
  /\ pending_list' = Tail(pending_list)
  /\ param' = info[cur'].userParam
  /\ lpc' = "callback"
  /\ UNCHANGED <<now, timer_list, info, pipe, until, wake, wakelock, upc, mine, raced, failed>>

\* ... calls wakeTimeoutCallback or another callback with it, ...
wakeTimeoutCallback ==
  /\ lpc = "callback"
  /\ LET releases == info[cur].wakes /\ param = 0 IN
     /\ wakelock' = (wakelock /\ ~releases)
     /\ raced' = (raced \/ /\ releases
                           /\ \/ info[cur].userParam = 1
                              \/ \E t \in Threads : upc[t] = "sending")
  /\ lpc' = "mutex"
  /\ UNCHANGED <<now, timer_list, pending_list, info, pipe, until, cur, param, wake,
                 upc, mine, failed>>

\* Faulty: userTimerCallback does not wait for the mutex before it frees.
userTimerCallback_butUnlocked ==
  /\ lpc = "mutex"
  /\ s_last_wake_timeout_info' = IF s_last_wake_timeout_info = cur THEN None
                                 ELSE s_last_wake_timeout_info
  /\ info' = [info EXCEPT ![cur] = Freed]
  /\ lpc' = "fire" /\ cur' = None /\ param' = 0
  /\ UNCHANGED <<now, timer_list, pending_list, pipe, until,
                 s_last_wake_mutex, wakelock, upc, mine, raced, failed>>

\* ... and frees the record, after it was taken out of s_last_wake_timeout_info.
userTimerCallback ==
  /\ lpc = "mutex" /\ s_last_wake_mutex = None
  /\ s_last_wake_timeout_info' = IF s_last_wake_timeout_info = cur THEN None
                                 ELSE s_last_wake_timeout_info
  /\ info' = [info EXCEPT ![cur] = Freed]
  /\ lpc' = "fire" /\ cur' = None /\ param' = 0
  /\ UNCHANGED <<now, timer_list, pending_list, pipe, until,
                 s_last_wake_mutex, wakelock, upc, mine, raced, failed>>

\* firePending, last: processWakeupCallback empties the pipe.  The next round.
processWakeupCallback ==
  /\ lpc = "fire" /\ pending_list \in {<<Pipe>>, <<>>}
  /\ pipe' = IF pending_list = <<Pipe>> THEN 0 ELSE pipe
  /\ pending_list' = <<>>
  /\ lpc' = "copy"
  /\ UNCHANGED <<now, timer_list, info, until, cur, param, wake, wakelock,
                 upc, mine, raced, failed>>

(***************************************************************************)
(* The other threads.                                                      *)
(***************************************************************************)
\* RIL_onUnsolicitedResponseSocket: grabPartialWakeLock.
Grab(t) ==
  /\ upc[t] = "idle" /\ Asked < MaxTimers /\ now + Wake < Horizon
  /\ wakelock' = TRUE
  /\ upc' = [upc EXCEPT ![t] = "sending"]
  /\ UNCHANGED <<now, timer_list, pending_list, info, pipe, loop, wake, mine, raced, failed>>

\* error_exit: the response function failed.
ErrorExit(t) ==
  /\ upc[t] = "sending"
  /\ wakelock' = FALSE
  /\ upc' = [upc EXCEPT ![t] = "idle"]
  /\ failed' = failed + 1
  /\ UNCHANGED <<now, timer_list, pending_list, info, pipe, loop, wake, mine, raced>>

\* Faulty: the previous timer is not cancelled.
Cancel_butForgets(t) ==
  /\ upc[t] = "sending" /\ s_last_wake_mutex = None
  /\ s_last_wake_mutex' = t
  /\ upc' = [upc EXCEPT ![t] = "cancelled"]
  /\ UNCHANGED <<now, timer_list, pending_list, info, pipe, loop, s_last_wake_timeout_info,
                 wakelock, mine, raced, failed>>

\* The previous timer is cancelled: its callback will be given userParam 1.
Cancel(t) ==
  /\ upc[t] = "sending" /\ s_last_wake_mutex = None
  /\ s_last_wake_mutex' = t
  /\ info' = [i \in Timers |-> IF i = s_last_wake_timeout_info
                               THEN [info[i] EXCEPT !.userParam = 1] ELSE info[i]]
  /\ upc' = [upc EXCEPT ![t] = "cancelled"]
  /\ UNCHANGED <<now, timer_list, pending_list, pipe, loop, s_last_wake_timeout_info,
                 wakelock, mine, raced, failed>>

\* ril_timer_add: before the first timer that does not expire earlier.
Sorted(i, timeout) ==
  LET n == Cardinality({k \in DOMAIN timer_list :
                          \A j \in 1..k : info[timer_list[j]].timeout < timeout})
  IN  InsertAt(timer_list, n + 1, i)

\* internalRequestTimedCallback up to ril_timer_add.
AddTimer(t, delay, wakes) ==
  LET i == Cardinality({j \in Timers : info[j].state # "none"}) + 1 IN
  /\ i \in Timers
  /\ info' = [info EXCEPT ![i] = [state |-> "live", timeout |-> now + delay,
                                  wakes |-> wakes, userParam |-> 0]]
  /\ timer_list' = Sorted(i, now + delay)
  /\ mine' = [mine EXCEPT ![t] = i]
  /\ UNCHANGED <<now, pending_list, pipe, loop, wake, wakelock, raced, failed>>

\* The timer of an unsolicited response.
AddWakeTimer(t) ==
  /\ upc[t] = "cancelled"
  /\ AddTimer(t, Wake, TRUE)
  /\ upc' = [upc EXCEPT ![t] = "trigger_locked"]

\* RIL_requestTimedCallback.
RequestTimedCallback(t, delay) ==
  /\ upc[t] = "idle" /\ Asked < MaxTimers /\ now + Wake < Horizon
  /\ AddTimer(t, delay, FALSE)
  /\ upc' = [upc EXCEPT ![t] = "trigger"]

\* triggerEvLoop writes to the pipe; the wake timer becomes the last one and
\* the mutex is released.
triggerEvLoop(t) ==
  /\ upc[t] \in {"trigger", "trigger_locked"}
  /\ pipe' = pipe + 1
  /\ IF upc[t] = "trigger" THEN UNCHANGED wake
     ELSE s_last_wake_timeout_info' = mine[t] /\ s_last_wake_mutex' = None
  /\ upc' = [upc EXCEPT ![t] = "idle"]
  /\ mine' = [mine EXCEPT ![t] = None]
  /\ UNCHANGED <<now, timer_list, pending_list, info, loop, wakelock, raced, failed>>

\* Time passes, never beyond the moment at which a timer that is about to be
\* added could still expire.
Tick ==
  /\ now < Horizon
  /\ (\E t \in Threads : upc[t] \in {"sending", "cancelled"}) => now + Wake + 1 < Horizon
  /\ now' = now + 1
  /\ UNCHANGED <<timer_list, pending_list, info, pipe, loop, wake, wakelock,
                 upc, mine, raced, failed>>

(***************************************************************************)
Init ==
  /\ now = 0
  /\ timer_list = <<>> /\ pending_list = <<>>
  /\ info = [i \in Timers |-> Unused]
  /\ pipe = 0
  /\ lpc = "copy" /\ until = None /\ cur = None /\ param = 0
  /\ s_last_wake_timeout_info = None /\ s_last_wake_mutex = None
  /\ wakelock = FALSE
  /\ upc = [t \in Threads |-> "idle"]
  /\ mine = [t \in Threads |-> None]
  /\ raced = FALSE /\ failed = 0

LoopStep ==
  \/ calcNextTimeout \/ Select \/ FireTimer \/ wakeTimeoutCallback
  \/ userTimerCallback \/ processWakeupCallback

ThreadStep(t) == ErrorExit(t) \/ Cancel(t) \/ AddWakeTimer(t) \/ triggerEvLoop(t)

Next ==
  \/ LoopStep \/ Tick
  \/ \E t \in Threads :
       \/ ThreadStep(t) \/ Grab(t)
       \/ \E delay \in Delays : RequestTimedCallback(t, delay)

\* Time passes, and a thread that can run does.
Spec ==
  /\ Init /\ [][Next]_vars
  /\ WF_vars(LoopStep) /\ WF_vars(Tick)
  /\ \A t \in Threads : WF_vars(ThreadStep(t))

(***************************************************************************)
(* Properties.                                                             *)
(***************************************************************************)
TypeOK ==
  /\ now \in 0..Horizon
  /\ timer_list \in Seq(Timers) /\ pending_list \in Seq(Timers \cup {Pipe})
  /\ info \in [Timers -> [state : {"none", "live", "freed"}, timeout : 0..(2 * Horizon),
                          wakes : BOOLEAN, userParam : {0, 1}]]
  /\ pipe \in Nat /\ until \in 0..(2 * Horizon) \cup {None}
  /\ cur \in Timers \cup {None} /\ param \in {0, 1}
  /\ s_last_wake_timeout_info \in Timers \cup {None}
  /\ s_last_wake_mutex \in Threads \cup {None}
  /\ wakelock \in BOOLEAN

\* The list is sorted, as calcNextTimeout and processTimeouts, which stop at the
\* first timer that has not expired, take for granted; and select() never sleeps
\* past a timer unless the pipe is about to wake it.
NeverOversleeps ==
  /\ \A j, k \in DOMAIN timer_list :
       j < k => info[timer_list[j]].timeout <= info[timer_list[k]].timeout
  /\ lpc = "select" /\ pipe = 0 /\ (\A t \in Threads : mine[t] = None) =>
       \A j \in DOMAIN timer_list : until # None /\ until <= info[timer_list[j]].timeout

\* No freed record is in a list, is called back, or is the one that the next
\* unsolicited response will write to (ril.cpp:8254).
NoUseAfterFree ==
  /\ s_last_wake_timeout_info # None => info[s_last_wake_timeout_info].state = "live"
  /\ \A i \in (Range(timer_list) \cup Range(pending_list)) \ {Pipe} : info[i].state = "live"
  /\ lpc \in {"callback", "mutex"} => info[cur].state = "live"

\* The wake lock is held while a response is being reported and until its timer
\* has called back, whatever timers of earlier responses do meanwhile.  Two ways
\* around: a response that fails gives back the lock of the ones before it, and
\* a callback that read userParam before the cancellation releases too early.
WakeHeld ==
  ~raced /\ failed = 0 =>
    /\ \A t \in Threads :
         upc[t] \in {"sending", "cancelled"} => wakelock
    /\ \A i \in Timers :
         /\ info[i].state = "live" /\ info[i].wakes /\ info[i].userParam = 0
         /\ ~(lpc = "mutex" /\ cur = i)
         => wakelock

\* The phone does not stay awake: the lock is released at last.
WakeReleased == wakelock ~> ~wakelock

\* Every timer is called back and freed.
TimersFire == \A i \in Timers : info[i].state = "live" ~> info[i].state = "freed"

\* The timer list and the records on it survive threads that add and cancel while
\* the loop reads the list without the lock and frees what has fired.
TimerListSound == TypeOK /\ NeverOversleeps /\ NoUseAfterFree

\* The loop gets to every timer, the ones that release the wake lock included.
LoopServes == TimersFire /\ WakeReleased
=============================================================================
