----------------------------- MODULE VibeDaemon -----------------------------
(***************************************************************************)
(* immvibe/daemon.c, connector.c and api.c: the vibrator daemon.  Its main *)
(* thread serves clients from an edge-triggered epoll loop, its worker     *)
(* plays the queued requests at the force the user chose, which an older   *)
(* release kept in a file that the worker moves to a property.             *)
(*                                                                         *)
(* A connection is named by its client: a descriptor is closed only while  *)
(* its own event is handled, so no event of a batch can name a reused one. *)
(* The queue is the channel that ThreadQueue implements.  A request is one *)
(* send() of at most 16 bytes on a local stream socket and arrives whole;  *)
(* a read returns everything that has arrived.  The event of EPOLL_CTL_ADD *)
(* or of an arrival stays in `ready` until epoll_wait looks at it, and is  *)
(* then reported with the state of the descriptor at that moment.          *)
(***************************************************************************)
EXTENDS Naturals, Sequences, FiniteSets, Functions

CONSTANTS Clients,       \* processes that open one connection each
          Kinds,         \* requests they make: of "vibrate", "stop", "bad"
          Forces,        \* forces the user can choose
          Default,       \* DEFAULT_FORCE
          None,          \* no legacy file
          MAXEVENTS,     \* events of one epoll_wait
          MaxInputs      \* bound: requests, changes of the preference, failures and
                         \* crashes, all together

ASSUME ForcesAssumption == Default \in Forces /\ None \notin Forces
ASSUME KindsAssumption == Kinds \subseteq {"vibrate", "stop", "bad"}
ASSUME BoundsAssumption == /\ MAXEVENTS \in Nat \ {0}
                           /\ MaxInputs \in Nat

Listener == "sfd"
ASSUME ListenerAssumption == Listener \notin Clients

VARIABLES
  shut,      \* has the client closed its end
  sent,      \* how many requests it sent
  inbox,     \* requests in the socket, not read yet
  conn,      \* "none", "backlog", "open" or "closed", as the daemon has it
  watched,   \* connections in the epoll set
  ready,     \* descriptors with an event epoll_wait has not looked at
  pc,        \* main thread: "down", "wait", "loop", "accept", "early", "add"
  batch,     \* events returned by epoll_wait and not handled yet
  cur,       \* the connection the accept loop works on
  queue,     \* work_queue
  wpc,       \* worker: "get", "access", "set", "unlink", "play", "sleep"
  force,     \* its local force
  motor,     \* what immvibe_play() wrote last
  legacy,    \* FORCE_STORE_PATH, None when it does not exist
  prop,      \* FORCE_STORE_PROP
  pref,      \* history: what the user chose last
  recent,    \* history: choices in force since the worker took its request
  early,     \* history: was a choice made while the legacy file existed
  missed,    \* history: did access() fail on a legacy file that exists
  misread,   \* history: could get_force_userspace_legacy not read it
  served,    \* history: numbers of the requests handled, by client
  broke,     \* history: was the accept loop left with an error
  fails, crashes, sets   \* counters for the bounds

clientVars == <<shut, sent>>
sockVars == <<inbox, conn, watched, ready>>
mainVars == <<pc, batch, cur, broke>>
workVars == <<wpc, force, motor>>
readVars == <<missed, misread>>
prefVars == <<legacy, prop, pref, early, sets>>
vars == <<clientVars, sockVars, mainVars, queue, served, workVars, recent, prefVars,
          readVars, fails, crashes>>

Init ==
  /\ shut = [c \in Clients |-> FALSE] /\ sent = [c \in Clients |-> 0]
  /\ inbox = [c \in Clients |-> <<>>] /\ conn = [c \in Clients |-> "none"]
  /\ watched = {} /\ ready = {}
  /\ pc = "down" /\ batch = {} /\ cur = None /\ broke = FALSE
  /\ queue = <<>> /\ served = [c \in Clients |-> <<>>]
  /\ wpc = "get" /\ force = Default /\ motor = 0
  /\ \/ legacy \in Forces /\ prop = Default /\ pref = legacy
     \/ legacy = None /\ prop = Default /\ pref = prop
  /\ recent = {} /\ early = FALSE /\ missed = FALSE /\ misread = FALSE
  /\ fails = 0 /\ crashes = 0 /\ sets = 0

\* Bound: the environment can do one more of the things that are counted.
MoreInputs == FoldFunction(+, 0, sent) + sets + fails + crashes < MaxInputs

\* The kernel notes an event of descriptor d if epoll watches it.
Ready(d) == ready' = IF d \in watched \union {Listener} THEN ready \union {d} ELSE ready

(***************************************************************************)
(* Clients (connector.c) and the settings (VibratorHW.setIntensity).       *)
(***************************************************************************)

\* immvibe_conn_open: refused while nobody listens.
immvibe_conn_open(c) ==
  /\ conn[c] = "none" /\ ~shut[c] /\ pc # "down"
  /\ conn' = [conn EXCEPT ![c] = "backlog"]
  /\ Ready(Listener)
  /\ UNCHANGED <<clientVars, inbox, watched, mainVars, queue, served, workVars,
                 recent, prefVars, readVars, fails, crashes>>

\* immvibe_conn_vibrate or immvibe_conn_stop; fails once the daemon has closed.
send_internal(c, k) ==
  /\ conn[c] \in {"backlog", "open"} /\ ~shut[c]
  /\ MoreInputs
  /\ sent' = [sent EXCEPT ![c] = @ + 1]
  /\ inbox' = [inbox EXCEPT ![c] = Append(@, [kind |-> k, n |-> sent[c] + 1])]
  /\ Ready(c)
  /\ UNCHANGED <<shut, conn, watched, mainVars, queue, served, workVars, recent,
                 prefVars, readVars, fails, crashes>>

\* The client closes its end, or ends.  (After the daemon closed it does not
\* matter any more.)
ClientCloses(c) ==
  /\ conn[c] \in {"backlog", "open"} /\ ~shut[c]
  /\ shut' = [shut EXCEPT ![c] = TRUE]
  /\ Ready(c)
  /\ UNCHANGED <<sent, inbox, conn, watched, mainVars, queue, served, workVars,
                 recent, prefVars, readVars, fails, crashes>>

\* The user chooses a force: only the property is written.
setIntensity(f) ==
  /\ MoreInputs
  /\ sets' = sets + 1
  /\ prop' = f /\ pref' = f
  /\ recent' = IF wpc = "get" THEN {} ELSE recent \union {f}
  /\ early' = (early \/ legacy # None)
  /\ UNCHANGED <<clientVars, sockVars, mainVars, queue, served, workVars, legacy, readVars,
                 fails, crashes>>

(***************************************************************************)
(* The main thread.                                                        *)
(***************************************************************************)

\* main(), up to the loop, at boot: init.project.rc has the daemon as a `oneshot`
\* service.  Between its steps nothing else can happen: the worker waits for the
\* empty queue and clients are refused.  If one fails the daemon stays down.
Start ==
  /\ pc = "down"
  /\ pc' = "wait"
  /\ UNCHANGED <<clientVars, sockVars, batch, cur, broke, queue, served, workVars,
                 recent, prefVars, readVars, fails, crashes>>

\* What epoll_wait finds when it looks at descriptor d.
Polled(d) == IF d = Listener THEN \E c \in Clients : conn[c] = "backlog"
                             ELSE inbox[d] # <<>> \/ shut[d]

\* epoll_wait: up to MAXEVENTS events, with what is true of them now.
epoll_wait ==
  /\ pc = "wait"
  /\ LET found == {d \in ready : Polled(d)} IN
     \E ds \in SUBSET found :
        /\ ds # {} /\ (Cardinality(ds) = MAXEVENTS \/ ds = found)
        /\ Cardinality(ds) <= MAXEVENTS
        /\ batch' = {[fd |-> d, hup |-> d # Listener /\ shut[d]] : d \in ds}
        /\ ready' = found \ ds
  /\ pc' = "loop"
  /\ UNCHANGED <<clientVars, inbox, conn, watched, cur, broke, queue, served,
                 workVars, recent, prefVars, readVars, fails, crashes>>

\* close(fd): the kernel removes it from the epoll set and drops what it holds.
close(c) ==
  /\ conn' = [conn EXCEPT ![c] = "closed"]
  /\ watched' = watched \ {c}
  /\ ready' = ready \ {c}

\* EPOLLHUP comes first: what the client sent before it closed is not read.
HangUp(e) ==
  /\ pc = "loop" /\ e.hup
  /\ batch' = batch \ {e}
  /\ close(e.fd)
  /\ inbox' = [inbox EXCEPT ![e.fd] = <<>>]
  /\ UNCHANGED <<clientVars, pc, cur, broke, queue, served, workVars, recent,
                 prefVars, readVars, fails, crashes>>

\* process_buf: the request at the start of what was read is queued.
process_buf(c, r) ==
  /\ queue' = IF r.kind = "bad" THEN queue ELSE Append(queue, r.kind)
  /\ served' = [served EXCEPT ![c] = Append(@, r.n)]

\* process_client: one read takes all there is; only the first request in it is
\* looked at.  With nothing to read it returns at EAGAIN or at the end.
process_client(c) ==
  /\ inbox' = [inbox EXCEPT ![c] = <<>>]
  /\ IF inbox[c] = <<>> THEN UNCHANGED <<queue, served>>
                        ELSE process_buf(c, Head(inbox[c]))

\* A connection is readable: one request, then it is closed.  (EAGAIN would
\* leave it open, but an event without EPOLLHUP means that data is there.)
Readable(e) ==
  /\ pc = "loop" /\ ~e.hup /\ e.fd # Listener
  /\ batch' = batch \ {e}
  /\ process_client(e.fd)
  /\ IF inbox[e.fd] # <<>> \/ shut[e.fd] THEN close(e.fd)
                                         ELSE UNCHANGED <<conn, watched, ready>>
  /\ UNCHANGED <<clientVars, pc, cur, broke, workVars, recent, prefVars, readVars, fails, crashes>>

\* The listening socket is readable, or the batch is done.
LoopOn ==
  /\ pc = "loop"
  /\ \/ \E e \in batch : e.fd = Listener /\ batch' = batch \ {e} /\ pc' = "accept"
     \/ batch = {} /\ batch' = {} /\ pc' = "wait"
  /\ UNCHANGED <<clientVars, sockVars, cur, broke, queue, served, workVars, recent,
                 prefVars, readVars, fails, crashes>>

Open == {c \in Clients : conn[c] = "open"}

\* accept() gives the daemon the next connection.
Accept ==
  /\ pc = "accept"
  /\ \E c \in Clients : /\ conn[c] = "backlog"
                        /\ conn' = [conn EXCEPT ![c] = "open"]
                        /\ cur' = c
  /\ pc' = "early"
  /\ UNCHANGED <<clientVars, inbox, watched, ready, batch, broke, queue, served,
                 workVars, recent, prefVars, readVars, fails, crashes>>

\* accept() fails: the backlog is empty (EAGAIN), or descriptors ran out, and
\* the connections that are waiting get no new event.
AcceptFails ==
  /\ pc = "accept"
  /\ \/ ~Polled(Listener) /\ UNCHANGED <<broke, fails>>
     \/ MoreInputs /\ fails' = fails + 1 /\ broke' = TRUE
  /\ pc' = "loop"
  /\ UNCHANGED <<clientVars, sockVars, batch, cur, queue, served, workVars, recent,
                 prefVars, readVars, crashes>>

\* Faulty: the result of the early read is thrown away.
EarlyData_butIgnores ==
  /\ pc = "early"
  /\ inbox' = [inbox EXCEPT ![cur] = <<>>] /\ UNCHANGED <<queue, served>>
  /\ pc' = "add"
  /\ UNCHANGED <<clientVars, conn, watched, ready, batch, cur, broke, workVars,
                 recent, prefVars, readVars, fails, crashes>>

\* Data that arrived before the accept is handled at once; whether the request
\* is done is not looked at, so the connection stays.
EarlyData ==
  /\ pc = "early"
  /\ process_client(cur)
  /\ pc' = "add"
  /\ UNCHANGED <<clientVars, conn, watched, ready, batch, cur, broke, workVars,
                 recent, prefVars, readVars, fails, crashes>>

\* Faulty: the accept loop is an if.
Add_butOnce ==
  /\ pc = "add"
  /\ watched' = watched \union {cur}
  /\ ready' = IF Polled(cur) THEN ready \union {cur} ELSE ready
  /\ pc' = "loop" /\ cur' = None
  /\ UNCHANGED <<clientVars, inbox, conn, batch, broke, queue, served, workVars,
                 recent, prefVars, readVars, fails, crashes>>

\* EPOLL_CTL_ADD: a descriptor that is ready by now is reported.
Add ==
  /\ pc = "add"
  /\ watched' = watched \union {cur}
  /\ ready' = IF Polled(cur) THEN ready \union {cur} ELSE ready
  /\ pc' = "accept" /\ cur' = None
  /\ UNCHANGED <<clientVars, inbox, conn, batch, broke, queue, served, workVars,
                 recent, prefVars, readVars, fails, crashes>>

\* epoll_ctl fails: the connection is dropped and the accept loop left.
AddFails ==
  /\ pc = "add" /\ MoreInputs
  /\ fails' = fails + 1
  /\ close(cur)
  /\ inbox' = [inbox EXCEPT ![cur] = <<>>]
  /\ broke' = TRUE
  /\ pc' = "loop" /\ cur' = None
  /\ UNCHANGED <<clientVars, batch, queue, served, workVars, recent, prefVars, readVars, crashes>>

\* The daemon dies; its sockets and its queue go with it.  What the driver does
\* with a running motor is not known.  Start may follow, at the next boot.
Crash ==
  /\ pc # "down" /\ MoreInputs
  /\ crashes' = crashes + 1
  /\ conn' = [c \in Clients |-> IF conn[c] = "none" THEN "none" ELSE "closed"]
  /\ inbox' = [c \in Clients |-> <<>>]
  /\ watched' = {} /\ ready' = {} /\ batch' = {} /\ cur' = None /\ pc' = "down"
  /\ queue' = <<>> /\ wpc' = "get" /\ force' = Default
  /\ motor' \in {motor, 0}
  /\ recent' = {}
  /\ UNCHANGED <<clientVars, broke, served, prefVars, readVars, fails>>

(***************************************************************************)
(* The worker.                                                             *)
(***************************************************************************)

WorkerStep == UNCHANGED <<clientVars, sockVars, mainVars, served, pref, early, sets, crashes>>

\* thread_queue_get, and a stop request.
Get ==
  /\ wpc = "get" /\ queue # <<>>
  /\ queue' = Tail(queue)
  /\ IF Head(queue) = "vibrate"
     THEN wpc' = "access" /\ UNCHANGED motor
     ELSE motor' = 0 /\ UNCHANGED wpc
  /\ recent' = IF Head(queue) = "vibrate" THEN {pref} ELSE {}
  /\ WorkerStep /\ UNCHANGED <<force, legacy, prop, readVars, fails>>

\* immvibe_api_get_force_userspace: the legacy file, if access() finds it, decides.
\* It cannot vanish before get_force_userspace_legacy opens it: only the worker
\* unlinks it.  When fopen() or fscanf() fails, DEFAULT_FORCE goes through the
\* migration as if it had been read.
Access ==
  /\ wpc = "access"
  /\ \/ legacy = None /\ force' = prop /\ wpc' = "play" /\ UNCHANGED <<readVars, fails>>
     \/ legacy # None /\ force' = legacy /\ wpc' = "set" /\ UNCHANGED <<readVars, fails>>
     \/ /\ legacy # None /\ MoreInputs /\ fails' = fails + 1
        /\ \/ force' = prop /\ wpc' = "play" /\ missed' = TRUE /\ UNCHANGED misread
           \/ force' = Default /\ wpc' = "set" /\ misread' = TRUE /\ UNCHANGED missed
  /\ WorkerStep /\ UNCHANGED <<queue, motor, recent, legacy, prop>>

\* Faulty: the legacy file is deleted although the property was not written.
Migrate_butAlways ==
  /\ wpc = "set"
  /\ \/ prop' = force /\ wpc' = "unlink" /\ UNCHANGED fails
     \/ MoreInputs /\ fails' = fails + 1 /\ wpc' = "unlink" /\ UNCHANGED prop
  /\ WorkerStep /\ UNCHANGED <<queue, motor, recent, legacy, force, readVars>>

\* migrate_force_store: the property first; if that fails the file is kept.
Migrate ==
  /\ wpc = "set"
  /\ \/ prop' = force /\ wpc' = "unlink" /\ UNCHANGED fails
     \/ MoreInputs /\ fails' = fails + 1 /\ wpc' = "play" /\ UNCHANGED prop
  /\ WorkerStep /\ UNCHANGED <<queue, motor, recent, legacy, force, readVars>>

\* ... and the file is removed when the property is written; whether unlink()
\* succeeds is not looked at.
Unlink ==
  /\ wpc = "unlink"
  /\ \/ legacy' = None /\ UNCHANGED fails
     \/ MoreInputs /\ fails' = fails + 1 /\ UNCHANGED legacy
  /\ wpc' = "play"
  /\ WorkerStep /\ UNCHANGED <<queue, motor, recent, prop, force, readVars>>

\* immvibe_play(fd, force).
Play ==
  /\ wpc = "play"
  /\ motor' = force
  /\ wpc' = "sleep"
  /\ WorkerStep /\ UNCHANGED <<queue, recent, legacy, prop, force, readVars, fails>>

\* usleep() returns and the motor is stopped.
PlayEnds ==
  /\ wpc = "sleep"
  /\ motor' = 0
  /\ wpc' = "get" /\ force' = Default /\ recent' = {}
  /\ WorkerStep /\ UNCHANGED <<queue, legacy, prop, readVars, fails>>

Handle == \E e \in batch : HangUp(e) \/ Readable(e)
Main == epoll_wait \/ Handle \/ LoopOn \/ Accept \/ AcceptFails \/ EarlyData
        \/ Add \/ AddFails
Worker == Get \/ Access \/ Migrate \/ Unlink \/ Play \/ PlayEnds
Client(c) == \/ immvibe_conn_open(c) \/ ClientCloses(c)
             \/ \E k \in Kinds : send_internal(c, k)

Next == \/ Main \/ Worker \/ Start \/ Crash
        \/ \E c \in Clients : Client(c)
        \/ \E f \in Forces : setIntensity(f)

\* Both threads keep running; whether the daemon is ever started is up to init.
Spec == Init /\ [][Next]_vars /\ WF_vars(Main) /\ WF_vars(Worker)

(***************************************************************************)
(* Properties.                                                             *)
(***************************************************************************)

\* Types; the accept loop has a connection exactly when it works on one, the
\* epoll set holds open connections only, and no event names a closed one.
TypeOK ==
  /\ shut \in [Clients -> BOOLEAN] /\ sent \in [Clients -> Nat]
  /\ \A c \in Clients : Len(inbox[c]) <= sent[c]
  /\ conn \in [Clients -> {"none", "backlog", "open", "closed"}]
  /\ watched \subseteq Open /\ ready \subseteq watched \union {Listener}
  /\ \A e \in batch : e.fd \in watched \union {Listener}
  /\ pc \in {"down", "wait", "loop", "accept", "early", "add"}
  /\ IF pc \in {"early", "add"} THEN cur \in Open \ watched ELSE cur = None
  /\ wpc \in {"get", "access", "set", "unlink", "play", "sleep"}
  /\ force \in Forces /\ motor \in Forces \union {0}
  /\ legacy \in Forces \union {None} /\ prop \in Forces
  /\ missed \in BOOLEAN /\ misread \in BOOLEAN

\* The requests of a connection that process_client handles start with the
\* first one sent, are handled once, in the order in which they were sent, and
\* are at most two: one read early, one read by the loop.
HandledInOrder ==
  \A c \in Clients : /\ Len(served[c]) <= 2
                     /\ served[c] # <<>> => served[c][1] = 1
                     /\ Len(served[c]) = 2 => served[c][2] > 1

\* A first request is lost only to a client that closed its end too soon (the
\* EPOLLHUP branch comes before the read), to a failed accept loop or to a
\* crash; a client that stays can rely on it.
FirstRequestKept ==
  \A c \in Clients :
     sent[c] > 0 /\ served[c] = <<>> /\ inbox[c] = <<>>
       => shut[c] \/ broke \/ crashes > 0

\* The migration of api.c never loses what the user chose, whether the property
\* can be written or the file removed, and wherever the daemon crashes: the store
\* that immvibe_api_get_force_userspace consults holds it.  Two cases excepted: a
\* choice made while the legacy file was there, which the migration overwrites,
\* and a legacy file that exists but cannot be read, in whose place the migration
\* stores DEFAULT_FORCE.
PreferenceKept ==
  ~early /\ ~misread => pref = IF legacy # None THEN legacy ELSE prop

\* A vibration is played with a force that was the user's choice at some time
\* after the worker took the request, unless a legacy file could not be read.
PlaysChosenForce ==
  ~early /\ ~misread /\ ~missed /\ wpc \in {"play", "sleep"} => force \in recent

\* A client that waits is served, again and again: with edge-triggered events
\* the accept loop must drain the backlog and no arrival may be missed.
PatientClientServed ==
  []<>(\A c \in Clients :
         sent[c] > 0 => served[c] # <<>> \/ shut[c] \/ broke \/ crashes > 0)

\* A connection its client has closed is closed by the daemon: none is leaked.
HungUpReleased ==
  []<>(\A c \in Clients : shut[c] => conn[c] = "closed" \/ broke)

\* The worker plays all that was queued and leaves the motor at rest.
MotorRests == []<>((queue = <<>> /\ motor = 0) \/ crashes > 0)

\* Requests are handled in their order, and no early one is lost, whenever the
\* data come relative to accept() and EPOLL_CTL_ADD.
RequestsKept == TypeOK /\ HandledInOrder /\ FirstRequestKept

\* The force the user chose survives the migration and is the one played.
ForceKept == PreferenceKept /\ PlaysChosenForce

\* The daemon serves who waits, releases who left, and stops the motor.
ClientsServed == PatientClientServed /\ HungUpReleased /\ MotorRests
=============================================================================
