----------------------------- MODULE RilRequests -----------------------------
(***************************************************************************)
(* mtk/ril/librilmtk/ril.cpp: the command socket of one SIM.  The event    *)
(* loop accepts one client at a time (listenCallback), reads its requests  *)
(* (processCommandsCallback, processCommandBuffer) and, when it is gone,   *)
(* closes the socket, listens again and cancels what is pending            *)
(* (onCommandsSocketClosed).  Proxy threads complete the requests          *)
(* (RIL_onRequestComplete), others report unsolicited responses            *)
(* (RIL_onUnsolicitedResponseSocket); both write to the descriptor that    *)
(* fdCommand names when they look.                                         *)
(*                                                                         *)
(* An item is a request or an unsolicited response.  Descriptors are       *)
(* numbers that the kernel uses again; `file' says what each one is.  A    *)
(* record on the wire is a header and a body.  The queue from the loop to  *)
(* the proxies and the cache of unsolicited responses (enqueue, cacheUrc,  *)
(* sendPendedUrcs) are in a library without source.                        *)
(***************************************************************************)
EXTENDS Naturals, Sequences

CONSTANTS Fds,         \* the descriptor numbers in play
          Strangers,   \* clients that are not the phone process
          MaxConns,    \* bound: clients that connect, one after the other
          MaxReqs,     \* bound: requests
          MaxUrcs,     \* bound: unsolicited responses
          MaxOthers    \* bound: other files that the process opens

ASSUME RequestsAssumption ==
  /\ Fds \subseteq Nat \ {0} /\ Strangers \subseteq 1..MaxConns
  /\ {MaxConns, MaxReqs, MaxUrcs, MaxOthers} \subseteq Nat

VARIABLES
  file,         \* descriptor -> the client's connection, Other or Closed
  fdCommand,    \* of s_ril_param_socket; -1 is written NoFd
  listening, watched, evfd,   \* listen_event and commands_event in watch_table
  lpc,          \* the event loop, between the statements of a callback
  writeMutex,   \* s_writeMutex: the item whose thread holds it, or NoItem
  stream, received,  \* per client: requests on their way, records it got
  client,       \* per client: "none", "backlog", "connected" or "gone"
  full,         \* clients whose socket takes no more until they read
  ipc, ifd,     \* per item: how far it is, the fdCommand its thread read
  owner,        \* per request: the client that sent it
  unsupported,  \* requests with a number that is not in s_commands
  cancelled,    \* requests with cancelled = 1
  cache,        \* unsolicited responses kept for the next client
  others,       \* counter
  late,         \* history: items no longer pending when their client was closed
  stranded,     \* history: cached after a look at fdCommand before the connect
  werr,         \* history: has a write failed, and closed the descriptor?
  debugged,     \* history: has the debug socket closed a client?
  dead,         \* select() failed and rild kills itself
  misdirected   \* a descriptor number stood for another file: undefined

sock  == <<file, fdCommand, listening, watched, evfd>>
item  == <<ipc, ifd, owner, cancelled>>
peer  == <<stream, received, client, full, unsupported>>
hist  == <<late, stranded, werr, debugged, dead, misdirected>>
vars  == <<sock, lpc, writeMutex, item, peer, cache, others, hist>>

Closed   == 0
NoFd     == 0
NoItem   == 0
Clients  == 1..MaxConns
Other    == MaxConns + 1
Requests == 1..MaxReqs
Urcs     == (MaxReqs + 1)..(MaxReqs + MaxUrcs)
Items    == Requests \cup Urcs

InFlight == {i \in Items : ipc[i] \in {"dequeued", "locking", "body"}}
Free     == {fd \in Fds : file[fd] = Closed}
Lowest(S) == CHOOSE n \in S : \A m \in S : n <= m

Fails(fd) == file[fd] = Closed \/ (file[fd] \in Clients /\ client[file[fd]] = "gone")

Part(i, p) == [item |-> i, part |-> p]

\* blockingWrite of some parts to fd.  While the client does not read, write()
\* gives EAGAIN and is tried again and again: nothing happens.  A write may leave
\* the socket full.  Any other error closes fd.
blockingWrite(fd, parts) ==
  \/ /\ file[fd] \in Clients \ full /\ ~Fails(fd)
     /\ received' = [received EXCEPT ![file[fd]] = @ \o parts]
     /\ full' \in {full, full \cup {file[fd]}}
     /\ UNCHANGED <<file, werr, misdirected>>
  \/ /\ Fails(fd)
     /\ file' = [file EXCEPT ![fd] = Closed]
     /\ werr' = TRUE
     /\ UNCHANGED <<received, full, misdirected>>
  \/ /\ file[fd] = Other
     /\ misdirected' = TRUE
     /\ UNCHANGED <<file, received, full, werr>>

\* The records of some items: header, body, header, body, ...
Records(items) ==
  [k \in 1..(2 * Len(items)) |->
     Part(items[(k + 1) \div 2], IF k % 2 = 1 THEN "header" ELSE "body")]

\* sendResponseRaw as the loop calls it: whole records, nobody else writes.
writeAll(fd, items) == writeMutex = NoItem /\ blockingWrite(fd, Records(items))

(***************************************************************************)
(* The event loop.                                                         *)
(***************************************************************************)
\* listenCallback: accept, and the check of the credentials.  A stranger is
\* closed at once, and what is pending is cancelled (onCommandsSocketClosed).
listenCallback ==
  /\ lpc = "select" /\ listening /\ Free # {}
  /\ \E c \in Clients :
       /\ client[c] = "backlog" /\ \A d \in Clients : d < c => client[d] # "backlog"
       /\ client' = [client EXCEPT ![c] = IF c \in Strangers THEN "gone" ELSE "connected"]
       /\ IF c \in Strangers
          THEN /\ cancelled' = cancelled \cup {r \in Requests : ipc[r] = "pending"}
               /\ UNCHANGED <<sock, lpc>>
          ELSE /\ fdCommand' = Lowest(Free) /\ evfd' = Lowest(Free)
               /\ file' = [file EXCEPT ![Lowest(Free)] = c]
               /\ listening' = FALSE /\ watched' = TRUE
               /\ lpc' = "connect"
               /\ UNCHANGED cancelled
  /\ UNCHANGED <<writeMutex, ipc, ifd, owner, stream, received, full, unsupported, cache, others,
                 hist>>

\* onNewCommandConnect tells the client that it is connected, sendPendedUrcs
\* sends what was cached.
onNewCommandConnect ==
  /\ lpc = "connect"
  /\ writeAll(fdCommand, cache)
  /\ cache' = <<>>
  /\ lpc' = "select"
  /\ UNCHANGED <<fdCommand, listening, watched, evfd, writeMutex, item, stream, client,
                 unsupported, others, late, stranded, debugged, dead>>

\* processCommandBuffer: the request becomes pending and goes to a proxy; an
\* unsupported one is answered by the loop itself.
processCommandBuffer ==
  /\ lpc = "select" /\ watched /\ file[evfd] \in Clients
  /\ LET c == file[evfd] IN
     /\ stream[c] # <<>>
     /\ stream' = [stream EXCEPT ![c] = Tail(@)]
     /\ LET r == Head(stream[c]) IN
        \/ /\ r \notin unsupported
           /\ ipc' = [ipc EXCEPT ![r] = "pending"]
           /\ UNCHANGED <<file, received, full, werr, misdirected>>
        \/ /\ r \in unsupported
           /\ ipc' = [ipc EXCEPT ![r] = "done"]
           /\ writeAll(fdCommand, <<r>>)
  /\ UNCHANGED <<fdCommand, listening, watched, evfd, lpc, writeMutex, ifd, owner, cancelled,
                 client, unsupported, cache, others, late, stranded, debugged, dead>>

\* processCommandsCallback: the end of the stream, or an error; close(fd), ...
EndOfStream ==
  /\ lpc = "select" /\ watched /\ file[evfd] \in Clients
  /\ client[file[evfd]] = "gone" /\ stream[file[evfd]] = <<>>
  /\ file' = [file EXCEPT ![evfd] = Closed]
  /\ lpc' = "closing"
  /\ late' = late \cup InFlight
  /\ UNCHANGED <<fdCommand, listening, watched, evfd, writeMutex, item, peer, cache,
                 others, stranded, werr, debugged, dead, misdirected>>

\* Faulty: fdCommand keeps the number of the closed descriptor.
CloseSocket_butKeepsFd ==
  /\ lpc = "closing"
  /\ watched' = FALSE /\ listening' = TRUE
  /\ lpc' = "cancel"
  /\ late' = late \cup InFlight
  /\ UNCHANGED <<file, fdCommand, evfd, writeMutex, item, peer, cache, others,
                 stranded, werr, debugged, dead, misdirected>>

\* ... fdCommand = -1, ril_event_del, listen_event added again, ...
CloseSocket ==
  /\ lpc = "closing"
  /\ fdCommand' = NoFd /\ watched' = FALSE /\ listening' = TRUE
  /\ lpc' = "cancel"
  /\ late' = late \cup InFlight
  /\ UNCHANGED <<file, evfd, writeMutex, item, peer, cache, others,
                 stranded, werr, debugged, dead, misdirected>>

\* Faulty: only the newest request is cancelled.
onCommandsSocketClosed_butFirst ==
  /\ lpc = "cancel"
  /\ cancelled' = cancelled \cup
       {r \in Requests : ipc[r] = "pending" /\ \A q \in Requests : ipc[q] = "pending" => q <= r}
  /\ lpc' = "select"
  /\ late' = late \cup InFlight
  /\ UNCHANGED <<sock, writeMutex, ipc, ifd, owner, peer, cache, others,
                 stranded, werr, debugged, dead, misdirected>>

\* ... and onCommandsSocketClosed cancels the requests that are still pending.
onCommandsSocketClosed ==
  /\ lpc = "cancel"
  /\ cancelled' = cancelled \cup {r \in Requests : ipc[r] = "pending"}
  /\ lpc' = "select"
  /\ late' = late \cup InFlight
  /\ UNCHANGED <<sock, writeMutex, ipc, ifd, owner, peer, cache, others,
                 stranded, werr, debugged, dead, misdirected>>

\* debugCallback, command 1, from the debug socket on the same loop: it closes the
\* client's descriptor and nothing else.  commands_event stays watched and
\* listen_event is not added again; what is pending is not cancelled.  (The local
\* request to switch the radio off has no answer.)
debugCallback ==
  /\ lpc = "select" /\ fdCommand # NoFd
  /\ IF file[fdCommand] = Other
     THEN misdirected' = TRUE /\ UNCHANGED file
     ELSE file' = [file EXCEPT ![fdCommand] = Closed] /\ UNCHANGED misdirected
  /\ fdCommand' = NoFd
  /\ debugged' = TRUE
  /\ late' = late \cup InFlight
  /\ UNCHANGED <<listening, watched, evfd, lpc, writeMutex, item, peer, cache, others,
                 stranded, werr, dead>>

\* select() fails with EBADF: ril_event_loop returns and eventLoop kills rild;
\* or it waits for another file, which now has the number.
SelectFails ==
  /\ lpc = "select" /\ watched
  /\ \/ file[evfd] = Closed /\ dead' = TRUE /\ UNCHANGED misdirected
     \/ file[evfd] = Other /\ misdirected' = TRUE /\ UNCHANGED dead
  /\ UNCHANGED <<sock, lpc, writeMutex, item, peer, cache, others, late, stranded,
                 werr, debugged>>

(***************************************************************************)
(* The other threads.                                                      *)
(***************************************************************************)
\* checkAndDequeueRequestInfo, under s_pendingRequestsMutex.
checkAndDequeueRequestInfo(i) ==
  /\ ipc[i] = "pending"
  /\ ipc' = [ipc EXCEPT ![i] = "dequeued"]
  /\ UNCHANGED <<sock, lpc, writeMutex, ifd, owner, cancelled, peer, cache, others, hist>>

\* RIL_onUnsolicitedResponseSocket looks for a client ...
onUnsolicitedResponse(i) ==
  /\ i \in Urcs /\ ipc[i] = "none"
  /\ ipc' = [ipc EXCEPT ![i] = IF fdCommand = NoFd THEN "caching" ELSE "dequeued"]
  /\ UNCHANGED <<sock, lpc, writeMutex, ifd, owner, cancelled, peer, cache, others, hist>>

\* ... and keeps the response for the next one if there is none.
cacheUrc(i) ==
  /\ ipc[i] = "caching"
  /\ cache' = Append(cache, i)
  /\ stranded' = (stranded \/ fdCommand # NoFd)
  /\ ipc' = [ipc EXCEPT ![i] = "done"]
  /\ UNCHANGED <<sock, lpc, writeMutex, ifd, owner, cancelled, peer, others,
                 late, werr, debugged, dead, misdirected>>

\* RIL_onRequestComplete tests cancelled, sendResponseRaw reads fdCommand.
Send(i) ==
  /\ ipc[i] = "dequeued"
  /\ LET dropped == i \in cancelled \/ fdCommand = NoFd IN
     /\ ipc' = [ipc EXCEPT ![i] = IF dropped THEN "done" ELSE "locking"]
     /\ ifd' = [ifd EXCEPT ![i] = IF dropped THEN NoFd ELSE fdCommand]
     /\ late' = IF lpc = "closing" THEN late \cup {i} ELSE late
  /\ UNCHANGED <<sock, lpc, writeMutex, owner, cancelled, peer, cache, others,
                 stranded, werr, debugged, dead, misdirected>>

\* Faulty: s_writeMutex is not taken.
Header_butUnlocked(i) ==
  /\ ipc[i] = "locking"
  /\ blockingWrite(ifd[i], <<Part(i, "header")>>)
  /\ ipc' = [ipc EXCEPT ![i] = IF Fails(ifd[i]) THEN "done" ELSE "body"]
  /\ UNCHANGED <<fdCommand, listening, watched, evfd, lpc, writeMutex, ifd, owner, cancelled,
                 stream, client, unsupported, cache, others, late, stranded, debugged, dead>>

\* Faulty: s_writeMutex is not released when the write fails.
Header_butKeepsLock(i) ==
  /\ ipc[i] = "locking" /\ writeMutex = NoItem
  /\ blockingWrite(ifd[i], <<Part(i, "header")>>)
  /\ ipc' = [ipc EXCEPT ![i] = IF Fails(ifd[i]) THEN "done" ELSE "body"]
  /\ writeMutex' = i
  /\ UNCHANGED <<fdCommand, listening, watched, evfd, lpc, ifd, owner, cancelled,
                 stream, client, unsupported, cache, others, late, stranded, debugged, dead>>

\* sendResponseRaw: s_writeMutex and the header.
Header(i) ==
  /\ ipc[i] = "locking" /\ writeMutex = NoItem
  /\ blockingWrite(ifd[i], <<Part(i, "header")>>)
  /\ ipc' = [ipc EXCEPT ![i] = IF Fails(ifd[i]) THEN "done" ELSE "body"]
  /\ writeMutex' = IF Fails(ifd[i]) THEN NoItem ELSE i
  /\ UNCHANGED <<fdCommand, listening, watched, evfd, lpc, ifd, owner, cancelled,
                 stream, client, unsupported, cache, others, late, stranded, debugged, dead>>

\* Then the body; the mutex is released and the request freed.
Body(i) ==
  /\ ipc[i] = "body"
  /\ blockingWrite(ifd[i], <<Part(i, "body")>>)
  /\ ipc' = [ipc EXCEPT ![i] = "done"]
  /\ ifd' = [ifd EXCEPT ![i] = NoFd]
  /\ writeMutex' = NoItem
  /\ UNCHANGED <<fdCommand, listening, watched, evfd, lpc, owner, cancelled,
                 stream, client, unsupported, cache, others, late, stranded, debugged, dead>>

\* Another part of rild opens a file.
OtherOpens ==
  /\ others < MaxOthers /\ Free # {}
  /\ others' = others + 1
  /\ file' = [file EXCEPT ![Lowest(Free)] = Other]
  /\ UNCHANGED <<fdCommand, listening, watched, evfd, lpc, writeMutex, item, peer, cache, hist>>

(***************************************************************************)
(* The clients.                                                            *)
(***************************************************************************)
Connect(c) ==
  /\ client[c] = "none" /\ \A d \in Clients : d < c => client[d] # "none"
  /\ client' = [client EXCEPT ![c] = "backlog"]
  /\ UNCHANGED <<sock, lpc, writeMutex, item, stream, received, full, unsupported, cache, others,
                 hist>>

Request(c, r) ==
  /\ client[c] = "connected"
  /\ owner[r] = 0 /\ \A q \in Requests : q < r => owner[q] # 0
  /\ owner' = [owner EXCEPT ![r] = c]
  /\ stream' = [stream EXCEPT ![c] = Append(@, r)]
  /\ unsupported' \in {unsupported, unsupported \cup {r}}
  /\ UNCHANGED <<sock, lpc, writeMutex, ipc, ifd, cancelled, received, client, full, cache,
                 others, hist>>

\* The client reads, and its socket takes more.
ClientReads(c) ==
  /\ c \in full
  /\ full' = full \ {c}
  /\ UNCHANGED <<sock, lpc, writeMutex, item, stream, received, client, unsupported, cache,
                 others, hist>>

\* What was not read goes with the client.
Leave(c) ==
  /\ client[c] = "connected"
  /\ client' = [client EXCEPT ![c] = "gone"]
  /\ full' = full \ {c}
  /\ UNCHANGED <<sock, lpc, writeMutex, item, stream, received, unsupported, cache, others,
                 hist>>

(***************************************************************************)
Init ==
  /\ file = [fd \in Fds |-> Closed]
  /\ fdCommand = NoFd /\ listening = TRUE /\ watched = FALSE /\ evfd = NoFd
  /\ lpc = "select" /\ writeMutex = NoItem
  /\ stream = [c \in Clients |-> <<>>] /\ received = [c \in Clients |-> <<>>]
  /\ client = [c \in Clients |-> "none"]
  /\ ipc = [i \in Items |-> "none"] /\ ifd = [i \in Items |-> NoFd]
  /\ owner = [r \in Requests |-> 0] /\ cancelled = {} /\ cache = <<>>
  /\ others = 0
  /\ full = {} /\ unsupported = {}
  /\ late = {} /\ stranded = FALSE /\ werr = FALSE /\ debugged = FALSE
  /\ dead = FALSE /\ misdirected = FALSE

Defined == ~dead /\ ~misdirected

LoopStep ==
  \/ listenCallback \/ onNewCommandConnect \/ processCommandBuffer
  \/ EndOfStream \/ CloseSocket \/ onCommandsSocketClosed \/ SelectFails

ItemStep(i) ==
  checkAndDequeueRequestInfo(i) \/ cacheUrc(i) \/ Send(i) \/ Header(i) \/ Body(i)

ClientStep(c) ==
  Connect(c) \/ Leave(c) \/ ClientReads(c) \/ \E r \in Requests : Request(c, r)

Next ==
  /\ Defined
  /\ \/ LoopStep \/ debugCallback \/ OtherOpens
     \/ \E i \in Items : ItemStep(i) \/ onUnsolicitedResponse(i)
     \/ \E c \in Clients : ClientStep(c)

\* Every thread of rild that can run does, and every request is completed by
\* its proxy.  No client is assumed to send, to read or to leave.
Spec ==
  /\ Init /\ [][Next]_vars
  /\ WF_vars(Defined /\ LoopStep)
  /\ \A i \in Items : WF_vars(Defined /\ ItemStep(i))

(***************************************************************************)
(* Properties.                                                             *)
(***************************************************************************)
TypeOK ==
  /\ file \in [Fds -> Clients \cup {Closed, Other}]
  /\ fdCommand \in Fds \cup {NoFd} /\ evfd \in Fds \cup {NoFd}
  /\ listening \in BOOLEAN /\ watched \in BOOLEAN
  /\ lpc \in {"select", "connect", "closing", "cancel"}
  /\ writeMutex \in Items \cup {NoItem}
  /\ client \in [Clients -> {"none", "backlog", "connected", "gone"}]
  /\ ipc \in [Items -> {"none", "pending", "dequeued", "caching", "locking", "body", "done"}]
  /\ ifd \in [Items -> Fds \cup {NoFd}]
  /\ owner \in [Requests -> Clients \cup {0}]
  /\ cancelled \subseteq Requests
  /\ full \subseteq Clients /\ unsupported \subseteq Requests

Parts(c) == {received[c][k].item : k \in DOMAIN received[c]}

\* No client gets the answer to a request of a client before it: requests that
\* are pending when that one closes are cancelled.  The answers that a proxy had
\* already taken out of the list get through (late).
NoForeignAnswer ==
  \A c \in Clients : \A i \in Parts(c) \cap Requests : owner[i] # c => i \in late

\* What a client reads is a sequence of whole records, one item at a time,
\* however many threads write (s_writeMutex), unless a thread writes on to the
\* number of a descriptor closed meanwhile.
WholeRecords ==
  late = {} =>
    \A c \in Clients : \A k \in DOMAIN received[c] :
      IF k % 2 = 1 THEN received[c][k].part = "header"
      ELSE received[c][k] = [item |-> received[c][k - 1].item, part |-> "body"]

\* select() never fails on the command socket, which would kill rild, unless a
\* write that failed (ril.cpp:3084) or the debug socket (ril.cpp:6006) closed the
\* descriptor under the loop.
LoopSurvives == dead => werr \/ debugged

\* No number is used for a file it no longer stands for, unless one of these two
\* closed it or the client was closed under a thread about to write.
NotMisdirected == misdirected => werr \/ debugged \/ late # {}

\* With a client connected and told so, no unsolicited response waits in the
\* cache, unless its thread looked at fdCommand before the client came.
NothingStranded ==
  fdCommand # NoFd /\ lpc = "select" /\ ~stranded => cache = <<>>

\* A client that is connected and does not read keeps writers, s_writeMutex and
\* the loop in blockingWrite.
NotRead == full # {}

\* Every request read is completed and its proxy free again, whatever happens to
\* the socket meanwhile (each of the finitely many items runs once), unless a
\* connected client stops reading for good; one that leaves lets all go on.
EveryItemEnds ==
  []<>(\/ \A i \in Items : ipc[i] \in {"none", "done"}
       \/ NotRead \/ ~Defined)

\* A client that waits is accepted once the clients before it are gone.
Reaccepts ==
  []<>(\/ \A c \in Clients :
            client[c] = "backlog" => \E d \in Clients : d < c /\ client[d] # "gone"
       \/ ~Defined \/ Free = {})

\* Responses reach the client they are for, over disconnects and reconnects.
AnswersDelivered == NoForeignAnswer /\ NothingStranded

\* Closing, reusing and watching descriptors: the loop survives and no number is
\* used for another file, but for the cases named.
DescriptorsSound == TypeOK /\ LoopSurvives /\ NotMisdirected

\* Every request ends, as long as the connected client reads, and every client is
\* accepted in its turn.
EveryoneServed == EveryItemEnds /\ Reaccepts
=============================================================================
