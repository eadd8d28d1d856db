-------------------------- MODULE RilRequestsProofs --------------------------
(***************************************************************************)
(* TLAPS proofs about RilRequests, for any set of descriptor numbers and   *)
(* any number of clients, strangers, requests, unsolicited responses and   *)
(* other files.                                                            *)
(***************************************************************************)
EXTENDS RilRequests, WellFoundedInduction, TLAPS

(***************************************************************************)
(* The inductive invariant on descriptors.                                 *)
(***************************************************************************)
PartSet == [item : Items, part : {"header", "body"}]

\* The types of what TypeOK leaves out.  Only unsolicited responses are cached.
RType ==
  /\ TypeOK
  /\ stream \in [Clients -> Seq(Requests)] /\ received \in [Clients -> Seq(PartSet)]
  /\ cache \in Seq(Urcs) /\ others \in Nat /\ late \subseteq Items
  /\ \A i \in Items : ipc[i] = "caching" => i \in Urcs
  /\ stranded \in BOOLEAN /\ werr \in BOOLEAN /\ debugged \in BOOLEAN
  /\ dead \in BOOLEAN /\ misdirected \in BOOLEAN

\* The loop watches the command socket exactly while fdCommand names it, and
\* listens otherwise.  Until a write fails the number is the client's.  Once the
\* debug socket has closed it, the loop watches a number that is no client's, and
\* never listens again.
Loop ==
  /\ listening = ~watched
  /\ watched => evfd \in Fds /\ (debugged \/ fdCommand = evfd)
  /\ debugged => watched /\ lpc = "select" /\ fdCommand = NoFd /\ file[evfd] \notin Clients
  /\ ~watched => fdCommand = NoFd
  /\ lpc \in {"connect", "closing"} => watched
  /\ lpc = "cancel" => ~watched
  /\ ~werr /\ ~debugged /\ watched /\ lpc \in {"select", "connect"} => file[evfd] \in Clients

\* s_writeMutex is held between the header and the body of a record.
Mutex ==
  /\ \A i \in Items : ipc[i] = "body" => writeMutex = i
  /\ writeMutex # NoItem => ipc[writeMutex] = "body"

\* A thread that is about to write was not told to drop its response, and writes to
\* the client that is served, unless that client was closed meanwhile.
Writers ==
  \A i \in Items : ipc[i] \in {"locking", "body"} =>
    /\ ifd[i] \in Fds /\ i \notin cancelled
    /\ i \notin late => watched /\ lpc \in {"select", "connect"} /\ ifd[i] = fdCommand

IInv == RType /\ Loop /\ Mutex /\ Writers /\ LoopSurvives /\ NotMisdirected

(***************************************************************************)
(* The strengthening for the answers.                                      *)
(***************************************************************************)

\* A request is read after it was sent.  In a stream it is the client's own, is there
\* once and is not yet read.
Sent == \A r \in Requests : owner[r] = 0 => ipc[r] = "none"
Waiting(c, r) == owner[r] = c /\ ipc[r] = "none"
Once(s) == \A k, m \in 1..Len(s) : s[k] = s[m] => k = m
Streams ==
  /\ Sent
  /\ \A c \in Clients : Once(stream[c])
  /\ \A c \in Clients : \A k \in 1..Len(stream[c]) : Waiting(c, stream[c][k])

\* Request r has been read, and its answer will go out to whoever is connected.
Live(r) ==
  /\ r \notin cancelled
  /\ ipc[r] = "pending" \/ (ipc[r] \in {"dequeued", "locking", "body"} /\ r \notin late)

\* The answers that will go out are for the client that is served.
Owners ==
  \A r \in Requests :
    Live(r) => \/ lpc \in {"closing", "cancel"}
               \/ watched /\ (file[evfd] \in Clients => owner[r] = file[evfd])

AInv == Streams /\ Owners /\ AnswersDelivered

(***************************************************************************)
(* The strengthening for the records.                                      *)
(***************************************************************************)
Whole(s) ==
  \A k \in 1..Len(s) :
    IF k % 2 = 1 THEN s[k].part = "header"
    ELSE s[k] = [item |-> s[k - 1].item, part |-> "body"]

\* A record lacks its body exactly while the thread that wrote the header has the
\* mutex, to the client that is served; or for ever, to a client that is gone.
HalfWritten ==
  writeMutex # NoItem /\ ~misdirected =>
    /\ file[fdCommand] \in Clients
    /\ LET s == received[file[fdCommand]] IN Len(s) % 2 = 1 /\ s[Len(s)].item = writeMutex
Halves ==
  late = {} =>
    /\ \A c \in Clients : Whole(received[c])
    /\ \A c \in Clients : Len(received[c]) % 2 = 1 =>
         client[c] = "gone" \/ misdirected \/ (writeMutex # NoItem /\ file[fdCommand] = c)
    /\ HalfWritten

(***************************************************************************)
(* Facts about the operators.                                              *)
(***************************************************************************)

\* accept() and open() take the lowest number that is free.
LEMMA LowestFree ==
  ASSUME NEW S, S \subseteq Nat, S # {}
  PROVE  Lowest(S) \in S
<1>1. PICK x \in S : \A y \in S : ~(<<y, x>> \in OpToRel(<, Nat))
  BY WFMin, NatLessThanWellFounded
<1>2. \A y \in S : x <= y
  <2> SUFFICES ASSUME NEW y \in S PROVE x <= y
    OBVIOUS
  <2>1. x \in Nat /\ y \in Nat /\ <<y, x>> \in Nat \X Nat
    OBVIOUS
  <2>2. ~(y < x)
    BY <1>1, <2>1 DEF OpToRel
  <2> QED  BY <2>1, <2>2
<1> QED  BY <1>2 DEF Lowest

\* The records of some items are headers and bodies in turn.
LEMMA RecordsWhole ==
  ASSUME NEW S, NEW q \in Seq(S)
  PROVE  /\ Records(q) \in Seq([item : S, part : {"header", "body"}])
         /\ Len(Records(q)) = 2 * Len(q)
         /\ Whole(Records(q))
<1>1. \A k \in 1..(2 * Len(q)) : (k + 1) \div 2 \in 1..Len(q)
  OBVIOUS
<1>2. \A k \in 1..(2 * Len(q)) : Records(q)[k] \in [item : S, part : {"header", "body"}]
  BY <1>1 DEF Records, Part
<1>3. 2 * Len(q) \in Nat
  OBVIOUS
<1>4. /\ Records(q) \in Seq([item : S, part : {"header", "body"}])
      /\ Len(Records(q)) = 2 * Len(q)
  BY <1>2, <1>3 DEF Records
<1>5. ASSUME NEW k \in 1..(2 * Len(q)), k % 2 # 1
      PROVE  k - 1 \in 1..(2 * Len(q)) /\ (k - 1) % 2 = 1 /\ (k + 1) \div 2 = ((k - 1) + 1) \div 2
  BY <1>5
<1>6. Whole(Records(q))
  BY <1>4, <1>5 DEF Whole, Records, Part
<1> QED  BY <1>4, <1>6

\* Numbers that stand for no descriptor, no client and no item.
LEMMA Constants == /\ Closed \notin Clients /\ Other \notin Clients /\ Closed # Other
                   /\ NoFd \notin Fds /\ NoItem \notin Items
                   /\ Requests \subseteq Items /\ Urcs \subseteq Items
                   /\ \A r \in Requests : r \notin Urcs
BY RequestsAssumption DEF Closed, Other, Clients, NoFd, NoItem, Items, Requests, Urcs

(***************************************************************************)
(* The invariant on descriptors.                                           *)
(***************************************************************************)

\* At start nobody is connected and every number is free.
LEMMA InitIInv == Init => IInv
<1> SUFFICES ASSUME Init PROVE IInv
  OBVIOUS
<1>1. TypeOK
  BY Constants, RequestsAssumption DEF Init, TypeOK
<1>2. RType
  <2>1. /\ stream \in [Clients -> Seq(Requests)] /\ received \in [Clients -> Seq(PartSet)]
        /\ cache \in Seq(Urcs) /\ others \in Nat /\ late \subseteq Items
    BY DEF Init
  <2>2. \A i \in Items : ipc[i] = "caching" => i \in Urcs
    BY DEF Init
  <2> QED  BY <1>1, <2>1, <2>2 DEF Init, RType
<1>3. Loop /\ Mutex /\ Writers /\ LoopSurvives /\ NotMisdirected
  BY DEF Init, Loop, Mutex, Writers, LoopSurvives, NotMisdirected, NoItem
<1> QED  BY <1>2, <1>3 DEF IInv

\* accept() gives the new client a free number, which no thread is about to use.
LEMMA ListenIInv == ASSUME IInv, Defined, listenCallback PROVE IInv'
<1> DEFINE fd == Lowest(Free)
<1>1. fd \in Free /\ fd \in Fds
  BY LowestFree, RequestsAssumption DEF listenCallback, Free
<1>2. PICK c \in Clients :
        /\ client' = [client EXCEPT ![c] = IF c \in Strangers THEN "gone" ELSE "connected"]
        /\ IF c \in Strangers
           THEN /\ cancelled' = cancelled \cup {r \in Requests : ipc[r] = "pending"}
                /\ UNCHANGED <<sock, lpc>>
           ELSE /\ fdCommand' = fd /\ evfd' = fd
                /\ file' = [file EXCEPT ![fd] = c]
                /\ listening' = FALSE /\ watched' = TRUE
                /\ lpc' = "connect"
                /\ UNCHANGED cancelled
  BY DEF listenCallback
<1>3. /\ lpc = "select" /\ listening
      /\ UNCHANGED <<writeMutex, ipc, ifd, owner, stream, received, full, unsupported, cache,
                     others, hist>>
  BY DEF listenCallback
<1> HIDE DEF fd
<1>4. CASE c \in Strangers
  BY <1>2, <1>3, <1>4 DEF IInv, RType, TypeOK, Loop, Mutex, Writers, LoopSurvives, NotMisdirected,
     sock, hist
<1>5. CASE c \notin Strangers
  <2>1. RType'
    BY <1>1, <1>2, <1>3, <1>5 DEF IInv, RType, TypeOK, hist
  <2>2. Loop'
    <3>1. ~debugged /\ ~debugged'
      BY <1>3 DEF IInv, RType, Loop, hist
    <3>2. file'[fd] = c
      BY <1>1, <1>2, <1>5 DEF IInv, RType, TypeOK
    <3> QED  BY <1>1, <1>2, <1>3, <1>5, <3>1, <3>2 DEF Loop
  <2>3. Mutex' /\ Writers' /\ LoopSurvives' /\ NotMisdirected'
    BY <1>1, <1>2, <1>3, <1>5 DEF IInv, RType, TypeOK, Loop, Mutex, Writers, LoopSurvives, NotMisdirected,
       hist
  <2> QED  BY <2>1, <2>2, <2>3 DEF IInv
<1> QED  BY <1>4, <1>5

\* The close of the client's socket makes late whoever is about to write.
LEMMA EndIInv == ASSUME IInv, Defined, EndOfStream PROVE IInv'
BY Constants DEF IInv, RType, TypeOK, Loop, Mutex, Writers, LoopSurvives, NotMisdirected,
   EndOfStream, InFlight, Defined, item, peer

\* The debug socket's close makes late whoever is about to write, too.
LEMMA DebugIInv == ASSUME IInv, Defined, debugCallback PROVE IInv'
BY Constants DEF IInv, RType, TypeOK, Loop, Mutex, Writers, LoopSurvives, NotMisdirected,
   debugCallback, InFlight, Defined, item, peer

\* From here on fdCommand names nothing, and the loop listens.
LEMMA CloseIInv == ASSUME IInv, Defined, CloseSocket PROVE IInv'
BY Constants DEF IInv, RType, TypeOK, Loop, Mutex, Writers, LoopSurvives, NotMisdirected,
   CloseSocket, InFlight, Defined, item, peer

\* Cancelling touches only requests that no proxy has taken.
LEMMA ClosedIInv == ASSUME IInv, Defined, onCommandsSocketClosed PROVE IInv'
BY Constants DEF IInv, RType, TypeOK, Loop, Mutex, Writers, LoopSurvives, NotMisdirected,
   onCommandsSocketClosed, InFlight, Defined, sock, peer

\* The watched number is the client's until a write fails.
LEMMA SelectFailsIInv == ASSUME IInv, Defined, SelectFails PROVE IInv'
BY Constants DEF IInv, RType, TypeOK, Loop, Mutex, Writers, LoopSurvives, NotMisdirected,
   SelectFails, Defined, item, peer, sock

\* open() takes a free number, never that of the client that is served.
LEMMA OtherIInv == ASSUME IInv, Defined, OtherOpens PROVE IInv'
<1> DEFINE fd == Lowest(Free)
<1>1. fd \in Fds /\ file[fd] = Closed
  BY LowestFree, RequestsAssumption DEF OtherOpens, Free
<1>2. /\ others' = others + 1 /\ file' = [file EXCEPT ![fd] = Other]
      /\ UNCHANGED <<fdCommand, listening, watched, evfd, lpc, writeMutex, item, peer, cache, hist>>
  BY DEF OtherOpens
<1> HIDE DEF fd
<1>3. RType'
  BY <1>1, <1>2 DEF IInv, RType, TypeOK, hist, item, peer
<1>4. Loop'
  BY <1>1, <1>2, Constants DEF IInv, RType, TypeOK, Loop, hist
<1>5. Mutex' /\ Writers' /\ LoopSurvives' /\ NotMisdirected'
  BY <1>2 DEF IInv, Mutex, Writers, LoopSurvives, NotMisdirected, hist, item
<1> QED  BY <1>3, <1>4, <1>5 DEF IInv

\* A thread that has taken its item has not looked at fdCommand yet.
LEMMA DequeueIInv ==
  ASSUME IInv, NEW i \in Items, checkAndDequeueRequestInfo(i) \/ onUnsolicitedResponse(i)
  PROVE  IInv'
<1>1. /\ ipc[i] \in {"none", "pending"} /\ (\E p \in {"dequeued", "caching"} :
            ipc' = [ipc EXCEPT ![i] = p] /\ (p = "caching" => i \in Urcs))
      /\ UNCHANGED <<sock, lpc, writeMutex, ifd, owner, cancelled, peer, cache, others, hist>>
  BY DEF checkAndDequeueRequestInfo, onUnsolicitedResponse
<1> QED  BY <1>1, Constants DEF IInv, RType, TypeOK, Loop, Mutex, Writers, LoopSurvives, NotMisdirected,
   hist, sock, peer

\* What a thread reads from fdCommand is the client that is served, or it is late.
LEMMA SendIInv == ASSUME IInv, Defined, NEW i \in Items, Send(i) PROVE IInv'
BY Constants DEF IInv, RType, TypeOK, Loop, Mutex, Writers, LoopSurvives, NotMisdirected,
   Send, Defined, sock, peer

\* Clients touch their streams and nothing of rild.
LEMMA ClientIInv == ASSUME IInv, NEW c \in Clients, ClientStep(c) PROVE IInv'
<1>1. /\ UNCHANGED <<sock, lpc, writeMutex, ipc, ifd, cancelled, received, cache, others, hist>>
      /\ client' \in [Clients -> {"none", "backlog", "connected", "gone"}]
      /\ owner' \in [Requests -> Clients \cup {0}] /\ stream' \in [Clients -> Seq(Requests)]
      /\ full' \subseteq Clients /\ unsupported' \subseteq Requests
  <2> USE DEF IInv, RType, TypeOK
  <2>1. CASE Connect(c)
    BY <2>1 DEF Connect, item
  <2>2. CASE Leave(c)
    BY <2>2 DEF Leave, item
  <2>3. ASSUME NEW r \in Requests, Request(c, r)
        PROVE  /\ UNCHANGED <<sock, lpc, writeMutex, ipc, ifd, cancelled, received, client,
                              full, cache, others, hist>>
               /\ unsupported' \subseteq Requests
               /\ owner' \in [Requests -> Clients \cup {0}]
               /\ stream' \in [Clients -> Seq(Requests)]
    <3>1. Append(stream[c], r) \in Seq(Requests)
      OBVIOUS
    <3> QED  BY <2>3, <3>1 DEF Request
  <2>4. CASE ClientReads(c)
    BY <2>4 DEF ClientReads, item
  <2> QED  BY <2>1, <2>2, <2>3, <2>4 DEF ClientStep
<1> QED  BY <1>1 DEF IInv, RType, TypeOK, Loop, Mutex, Writers, LoopSurvives, NotMisdirected,
   sock, hist

\* sendResponseRaw to a descriptor that is the client's or, once a write has failed,
\* any other.
LEMMA WriteType ==
  ASSUME RType, NEW fd \in Fds, NEW parts \in Seq(PartSet), blockingWrite(fd, parts)
  PROVE  /\ file' \in [Fds -> Clients \cup {Closed, Other}]
         /\ received' \in [Clients -> Seq(PartSet)]
         /\ werr' \in BOOLEAN /\ misdirected' \in BOOLEAN /\ (werr => werr')
         /\ full' \subseteq Clients
         /\ \A d \in Fds : file'[d] \in Clients => file[d] \in Clients
         /\ misdirected' => misdirected \/ file[fd] = Other
         /\ ~werr' => file' = file
<1> USE DEF RType, TypeOK
<1>1. CASE /\ file[fd] \in Clients
           /\ received' = [received EXCEPT ![file[fd]] = @ \o parts]
           /\ full' \in {full, full \cup {file[fd]}}
           /\ UNCHANGED <<file, werr, misdirected>>
  <2>1. received[file[fd]] \o parts \in Seq(PartSet)
    BY <1>1
  <2> QED  BY <1>1, <2>1
<1>2. CASE /\ file' = [file EXCEPT ![fd] = Closed] /\ werr' = TRUE
           /\ UNCHANGED <<received, full, misdirected>>
  BY <1>2, Constants
<1>3. CASE file[fd] = Other /\ misdirected' = TRUE /\ UNCHANGED <<file, received, full, werr>>
  BY <1>3
<1> QED  BY <1>1, <1>2, <1>3 DEF blockingWrite

\* The loop writes to the client it has just accepted.
LEMMA ConnectIInv == ASSUME IInv, Defined, onNewCommandConnect PROVE IInv'
<1>1. /\ lpc = "connect" /\ writeMutex = NoItem /\ blockingWrite(fdCommand, Records(cache))
      /\ cache' = <<>> /\ lpc' = "select"
      /\ UNCHANGED <<fdCommand, listening, watched, evfd, writeMutex, item, stream, client,
                     unsupported, others, late, stranded, debugged, dead>>
  BY DEF onNewCommandConnect, writeAll
<1>2. fdCommand = evfd /\ evfd \in Fds /\ watched
  BY <1>1, Constants DEF IInv, Loop
<1>3. Records(cache) \in Seq(PartSet)
  <2>1. cache \in Seq(Items)
    BY Constants DEF IInv, RType
  <2> QED  BY <2>1, RecordsWhole DEF PartSet
<1>4. /\ file' \in [Fds -> Clients \cup {Closed, Other}]
      /\ received' \in [Clients -> Seq(PartSet)]
      /\ werr' \in BOOLEAN /\ misdirected' \in BOOLEAN /\ (werr => werr')
      /\ full' \subseteq Clients /\ \A d \in Fds : file'[d] \in Clients => file[d] \in Clients
      /\ misdirected' => misdirected \/ file[fdCommand] = Other
      /\ ~werr' => file' = file
  BY <1>1, <1>2, <1>3, WriteType DEF IInv
<1> HIDE DEF Records
<1>5. RType'
  BY <1>1, <1>4 DEF IInv, RType, TypeOK, item
<1>6. Loop' /\ Mutex' /\ Writers' /\ LoopSurvives'
  BY <1>1, <1>4 DEF IInv, Loop, Mutex, Writers, LoopSurvives, item
<1>7. NotMisdirected'
  BY <1>1, <1>2, <1>4, Constants DEF IInv, Loop, NotMisdirected, Defined
<1> QED  BY <1>5, <1>6, <1>7 DEF IInv

\* A request that the loop reads was not read before.
LEMMA ProcessIInv == ASSUME IInv, Defined, Streams, processCommandBuffer PROVE IInv'
<1> DEFINE c == file[evfd]
           r == Head(stream[c])
<1>1. /\ lpc = "select" /\ watched /\ c \in Clients /\ stream[c] # <<>>
      /\ stream' = [stream EXCEPT ![c] = Tail(@)]
      /\ \/ /\ ipc' = [ipc EXCEPT ![r] = "pending"]
            /\ UNCHANGED <<file, received, full, werr, misdirected>>
         \/ /\ ipc' = [ipc EXCEPT ![r] = "done"]
            /\ blockingWrite(fdCommand, Records(<<r>>))
      /\ UNCHANGED <<fdCommand, listening, watched, evfd, lpc, writeMutex, ifd, owner, cancelled,
                     client, unsupported, cache, others, late, stranded, debugged, dead>>
  BY DEF processCommandBuffer, writeAll
<1>2. fdCommand = evfd /\ evfd \in Fds
  BY <1>1, Constants DEF IInv, Loop
<1>3. r \in Requests /\ ipc[r] = "none" /\ r \in Items
  <2>1. stream[c] \in Seq(Requests) /\ Len(stream[c]) > 0 /\ r = stream[c][1]
    BY <1>1 DEF IInv, RType
  <2> QED  BY <1>1, <2>1, Constants DEF Streams, Waiting
<1>4. Records(<<r>>) \in Seq(PartSet)
  <2>1. <<r>> \in Seq(Items)
    BY <1>3
  <2> QED  BY <2>1, RecordsWhole DEF PartSet
<1>5. /\ file' \in [Fds -> Clients \cup {Closed, Other}]
      /\ received' \in [Clients -> Seq(PartSet)]
      /\ werr' \in BOOLEAN /\ misdirected' \in BOOLEAN /\ (werr => werr')
      /\ full' \subseteq Clients /\ \A d \in Fds : file'[d] \in Clients => file[d] \in Clients
      /\ misdirected' => misdirected \/ file[fdCommand] = Other
      /\ ~werr' => file' = file
  <2>1. CASE blockingWrite(fdCommand, Records(<<r>>))
    BY <1>2, <1>4, <2>1, WriteType DEF IInv
  <2> QED  BY <1>1, <2>1 DEF IInv, RType, TypeOK
<1>6. \E p \in {"pending", "done"} : ipc' = [ipc EXCEPT ![r] = p]
  BY <1>1
<1>7. stream' \in [Clients -> Seq(Requests)]
  BY <1>1 DEF IInv, RType
<1> HIDE DEF c, r
<1>8. RType'
  BY <1>1, <1>3, <1>5, <1>6, <1>7 DEF IInv, RType, TypeOK
<1>9. Loop' /\ LoopSurvives'
  BY <1>1, <1>5 DEF IInv, Loop, LoopSurvives
<1>10. Mutex' /\ Writers'
  BY <1>1, <1>3, <1>6 DEF IInv, RType, TypeOK, Mutex, Writers
<1>11. NotMisdirected'
  BY <1>1, <1>2, <1>5, Constants DEF IInv, NotMisdirected, Defined, c
<1> QED  BY <1>8, <1>9, <1>10, <1>11 DEF IInv

\* Only unsolicited responses are cached.
LEMMA CacheIInv == ASSUME IInv, NEW i \in Items, cacheUrc(i) PROVE IInv'
<1>1. /\ ipc[i] = "caching" /\ ipc' = [ipc EXCEPT ![i] = "done"]
      /\ cache' = Append(cache, i) /\ stranded' = (stranded \/ fdCommand # NoFd)
      /\ UNCHANGED <<sock, lpc, writeMutex, ifd, owner, cancelled, peer, others,
                 late, werr, debugged, dead, misdirected>>
  BY DEF cacheUrc
<1>2. cache' \in Seq(Urcs) /\ stranded' \in BOOLEAN
  BY <1>1 DEF IInv, RType
<1> QED  BY <1>1, <1>2 DEF IInv, RType, TypeOK, Loop, Mutex, Writers, LoopSurvives, NotMisdirected,
   sock, peer

\* A header that is written takes the mutex, one that fails leaves it.
LEMMA HeaderIInv == ASSUME IInv, Defined, NEW i \in Items, Header(i) PROVE IInv'
<1>1. /\ ipc[i] = "locking" /\ writeMutex = NoItem
      /\ blockingWrite(ifd[i], <<Part(i, "header")>>)
      /\ \/ ipc' = [ipc EXCEPT ![i] = "done"] /\ writeMutex' = NoItem
         \/ ipc' = [ipc EXCEPT ![i] = "body"] /\ writeMutex' = i
      /\ UNCHANGED <<fdCommand, listening, watched, evfd, lpc, ifd, owner, cancelled,
                     stream, client, unsupported, cache, others, late, stranded, debugged, dead>>
  BY DEF Header
<1>2. ifd[i] \in Fds
  BY <1>1 DEF IInv, Writers
<1>3. <<Part(i, "header")>> \in Seq(PartSet)
  BY DEF Part, PartSet
<1>4. /\ file' \in [Fds -> Clients \cup {Closed, Other}]
      /\ received' \in [Clients -> Seq(PartSet)]
      /\ werr' \in BOOLEAN /\ misdirected' \in BOOLEAN /\ (werr => werr')
      /\ full' \subseteq Clients /\ \A d \in Fds : file'[d] \in Clients => file[d] \in Clients
      /\ misdirected' => misdirected \/ file[ifd[i]] = Other
      /\ ~werr' => file' = file
  BY <1>1, <1>2, <1>3, WriteType DEF IInv
<1>5. RType'
  BY <1>1, <1>4 DEF IInv, RType, TypeOK
<1>6. Loop' /\ LoopSurvives'
  BY <1>1, <1>4 DEF IInv, Loop, LoopSurvives
<1>7. Mutex' /\ Writers'
  BY <1>1, Constants DEF IInv, RType, TypeOK, Mutex, Writers
<1>8. NotMisdirected'
  <2>1. misdirected' /\ ~werr' /\ late' = {} => FALSE
    BY <1>1, <1>4, Constants DEF IInv, Loop, Writers, Defined
  <2> QED  BY <2>1 DEF NotMisdirected
<1> QED  BY <1>5, <1>6, <1>7, <1>8 DEF IInv

\* The body gives the mutex back.
LEMMA BodyIInv == ASSUME IInv, Defined, NEW i \in Items, Body(i) PROVE IInv'
<1>1. /\ ipc[i] = "body" /\ blockingWrite(ifd[i], <<Part(i, "body")>>)
      /\ ipc' = [ipc EXCEPT ![i] = "done"] /\ ifd' = [ifd EXCEPT ![i] = NoFd]
      /\ writeMutex' = NoItem
      /\ UNCHANGED <<fdCommand, listening, watched, evfd, lpc, owner, cancelled,
                     stream, client, unsupported, cache, others, late, stranded, debugged, dead>>
  BY DEF Body
<1>2. ifd[i] \in Fds
  BY <1>1 DEF IInv, Writers
<1>3. <<Part(i, "body")>> \in Seq(PartSet)
  BY DEF Part, PartSet
<1>4. /\ file' \in [Fds -> Clients \cup {Closed, Other}]
      /\ received' \in [Clients -> Seq(PartSet)]
      /\ werr' \in BOOLEAN /\ misdirected' \in BOOLEAN /\ (werr => werr')
      /\ full' \subseteq Clients /\ \A d \in Fds : file'[d] \in Clients => file[d] \in Clients
      /\ misdirected' => misdirected \/ file[ifd[i]] = Other
      /\ ~werr' => file' = file
  BY <1>1, <1>2, <1>3, WriteType DEF IInv
<1>5. RType'
  BY <1>1, <1>4 DEF IInv, RType, TypeOK
<1>6. Loop' /\ LoopSurvives'
  BY <1>1, <1>4 DEF IInv, Loop, LoopSurvives
<1>7. Mutex' /\ Writers'
  BY <1>1, Constants DEF IInv, RType, TypeOK, Mutex, Writers
<1>8. NotMisdirected'
  <2>1. misdirected' /\ ~werr' /\ late' = {} => FALSE
    BY <1>1, <1>4, Constants DEF IInv, Loop, Writers, Defined
  <2> QED  BY <2>1 DEF NotMisdirected
<1> QED  BY <1>5, <1>6, <1>7, <1>8 DEF IInv

(***************************************************************************)
(* The streams: who sent a request, and that it is read once.              *)
(***************************************************************************)

\* Without its head a sequence without repetitions has none, and not the head.
LEMMA TailOnce ==
  ASSUME NEW S, NEW s \in Seq(S), s # <<>>, Once(s)
  PROVE  /\ Once(Tail(s))
         /\ Len(s) > 0 /\ Head(s) = s[1] /\ Head(s) \in S
         /\ \A k \in 1..Len(Tail(s)) : \E m \in 1..Len(s) : m # 1 /\ Tail(s)[k] = s[m] /\ s[m] # s[1]
<1>1. /\ Len(s) > 0 /\ Head(s) = s[1] /\ Head(s) \in S /\ 1 \in 1..Len(s)
      /\ Len(Tail(s)) = Len(s) - 1
      /\ \A k \in 1..Len(Tail(s)) : /\ k + 1 \in 1..Len(s) /\ k + 1 # 1
                                     /\ Tail(s)[k] = s[k + 1]
  OBVIOUS
<1>2. ASSUME NEW k \in 1..Len(Tail(s)), NEW m \in 1..Len(Tail(s)), Tail(s)[k] = Tail(s)[m]
      PROVE  k = m
  <2>1. k + 1 = m + 1
    BY <1>1, <1>2 DEF Once
  <2>2. k \in Nat /\ m \in Nat
    BY <1>1
  <2> QED  BY <2>1, <2>2
<1>3. Once(Tail(s))
  BY <1>2 DEF Once
<1>4. \A k \in 1..Len(Tail(s)) : s[k + 1] # s[1]
  BY <1>1 DEF Once
<1> QED  BY <1>1, <1>3, <1>4

\* With a new element it has none either.
LEMMA AppendOnce ==
  ASSUME NEW S, NEW s \in Seq(S), NEW e \in S, Once(s), \A k \in 1..Len(s) : s[k] # e
  PROVE  /\ Once(Append(s, e))
         /\ \A k \in 1..Len(Append(s, e)) : \/ Append(s, e)[k] = e
                                           \/ \E m \in 1..Len(s) : Append(s, e)[k] = s[m]
BY DEF Once

\* A step that sends no request leaves the streams as they are, or takes off a head,
\* and touches the items that are read already or are no requests.
LEMMA NextStreams == ASSUME IInv, Streams, Defined, Next PROVE Streams'
<1> USE DEF IInv, RType, TypeOK
<1>1. CASE /\ UNCHANGED <<stream, owner>>
           /\ UNCHANGED ipc \/ \E i \in Items, p \in {"dequeued", "caching", "locking", "body", "done"} :
                 (ipc[i] # "none" \/ i \in Urcs) /\ ipc' = [ipc EXCEPT ![i] = p]
  <2>1. \A r \in Requests : ipc[r] = "none" => ipc'[r] = "none"
    BY <1>1, Constants
  <2>2. Sent'
    BY <1>1, <2>1 DEF Streams, Sent
  <2>3. \A c \in Clients : \A k \in 1..Len(stream[c]) : stream[c][k] \in Requests
    OBVIOUS
  <2>4. \A c \in Clients : \A k \in 1..Len(stream[c]) : ipc'[stream[c][k]] = "none"
    BY <2>1, <2>3 DEF Streams, Waiting
  <2> QED  BY <1>1, <2>2, <2>4 DEF Streams, Waiting, Once
<1>2. CASE processCommandBuffer
  <2> DEFINE c == file[evfd]
             r == Head(stream[c])
  <2>1. /\ c \in Clients /\ stream[c] # <<>> /\ owner' = owner
        /\ stream' = [stream EXCEPT ![c] = Tail(@)]
        /\ \E p \in {"pending", "done"} : ipc' = [ipc EXCEPT ![r] = p]
    BY <1>2 DEF processCommandBuffer
  <2> HIDE DEF c
  <2>2. Once(stream[c]) /\ stream[c] \in Seq(Requests)
    BY <2>1 DEF Streams
  <2>3. /\ Once(Tail(stream[c]))
        /\ Len(stream[c]) > 0 /\ r = stream[c][1] /\ r \in Requests
        /\ \A k \in 1..Len(Tail(stream[c])) :
             \E m \in 1..Len(stream[c]) : Tail(stream[c])[k] = stream[c][m] /\ stream[c][m] # r
    BY <2>1, <2>2, TailOnce
  <2>4. owner[r] = c /\ owner[r] # 0
    BY <2>1, <2>2, <2>3, Constants DEF Streams, Waiting, Closed
  <2> HIDE DEF r
  <2>5. ipc' \in [Items -> {"none", "pending", "done", "dequeued", "caching", "locking", "body"}]
        /\ \A q \in Items : q # r => ipc'[q] = ipc[q]
    BY <2>1
  <2>6. Sent'
    BY <2>1, <2>4, <2>5, Constants DEF Streams, Sent
  <2>7. ASSUME NEW d \in Clients
        PROVE  /\ Once(stream'[d])
               /\ \A k \in 1..Len(stream'[d]) :
                    owner'[stream'[d][k]] = d /\ ipc'[stream'[d][k]] = "none"
    <3>1. CASE d = c
      <4>1. stream'[d] = Tail(stream[c])
        BY <2>1, <3>1
      <4>2. ASSUME NEW k \in 1..Len(Tail(stream[c]))
            PROVE  owner[Tail(stream[c])[k]] = c /\ ipc'[Tail(stream[c])[k]] = "none"
        <5>1. PICK m \in 1..Len(stream[c]) : Tail(stream[c])[k] = stream[c][m] /\ stream[c][m] # r
          BY <2>3
        <5>2. Waiting(c, stream[c][m]) /\ stream[c][m] \in Requests
          BY <2>1, <2>2 DEF Streams
        <5> QED  BY <5>1, <5>2, <2>5, Constants DEF Waiting
      <4> QED  BY <2>1, <2>3, <3>1, <4>1, <4>2 DEF Waiting
    <3>2. CASE d # c
      <4>1. stream'[d] = stream[d] /\ stream[d] \in Seq(Requests)
        BY <2>1, <3>2
      <4>2. ASSUME NEW k \in 1..Len(stream[d])
            PROVE  owner[stream[d][k]] = d /\ ipc'[stream[d][k]] = "none"
        <5>1. Waiting(d, stream[d][k]) /\ stream[d][k] \in Requests
          BY <4>1 DEF Streams
        <5> QED  BY <3>2, <5>1, <2>4, <2>5, Constants DEF Waiting
      <4> QED  BY <2>1, <4>1, <4>2 DEF Streams, Waiting
    <3> QED  BY <3>1, <3>2
  <2> QED  BY <2>6, <2>7 DEF Streams, Once, Waiting
<1>3. ASSUME NEW c \in Clients, NEW r \in Requests, Request(c, r) PROVE Streams'
  <2>1. /\ owner[r] = 0 /\ owner' = [owner EXCEPT ![r] = c]
        /\ stream' = [stream EXCEPT ![c] = Append(@, r)] /\ ipc' = ipc
    BY <1>3 DEF Request
  <2>2. ipc[r] = "none" /\ c # 0
    BY <2>1, Constants DEF Streams, Sent, Closed
  <2>3. \A d \in Clients : stream[d] \in Seq(Requests) /\ \A k \in 1..Len(stream[d]) : stream[d][k] # r
    BY <2>1, Constants DEF Streams, Waiting, Closed
  <2>4. /\ Once(Append(stream[c], r))
        /\ \A k \in 1..Len(Append(stream[c], r)) :
              \/ Append(stream[c], r)[k] = r
              \/ \E m \in 1..Len(stream[c]) : Append(stream[c], r)[k] = stream[c][m]
    <3>1. Once(stream[c]) /\ stream[c] \in Seq(Requests) /\ \A k \in 1..Len(stream[c]) : stream[c][k] # r
      BY <2>3 DEF Streams
    <3> QED  BY ONLY <3>1, AppendOnce, r \in Requests
  <2>5. Sent'
    BY <2>1, <2>2 DEF Streams, Sent
  <2>6. ASSUME NEW d \in Clients
        PROVE  /\ Once(stream'[d])
               /\ \A k \in 1..Len(stream'[d]) :
                    owner'[stream'[d][k]] = d /\ ipc'[stream'[d][k]] = "none"
    <3>1. CASE d = c
      <4>1. stream'[d] = Append(stream[c], r)
        BY <2>1, <3>1
      <4>2. ASSUME NEW k \in 1..Len(Append(stream[c], r))
            PROVE  /\ owner'[Append(stream[c], r)[k]] = c
                   /\ ipc[Append(stream[c], r)[k]] = "none"
        <5>1. CASE Append(stream[c], r)[k] = r
          BY <5>1, <2>1, <2>2
        <5>2. ASSUME NEW m \in 1..Len(stream[c]), Append(stream[c], r)[k] = stream[c][m]
              PROVE  /\ owner'[Append(stream[c], r)[k]] = c
                     /\ ipc[Append(stream[c], r)[k]] = "none"
          <6>1. Waiting(c, stream[c][m]) /\ stream[c][m] \in Requests /\ stream[c][m] # r
            BY <2>3 DEF Streams
          <6> QED  BY <5>2, <6>1, <2>1 DEF Waiting
        <5> QED  BY <2>4, <5>1, <5>2
      <4> QED  BY <2>1, <2>4, <3>1, <4>1, <4>2 DEF Waiting
    <3>2. CASE d # c
      <4>1. stream'[d] = stream[d]
        BY <2>1, <3>2
      <4>2. ASSUME NEW k \in 1..Len(stream[d])
            PROVE  owner'[stream[d][k]] = d /\ ipc[stream[d][k]] = "none"
        <5>1. Waiting(d, stream[d][k]) /\ stream[d][k] \in Requests /\ stream[d][k] # r
          BY <2>3 DEF Streams
        <5> QED  BY <5>1, <2>1 DEF Waiting
      <4> QED  BY <2>1, <4>1, <4>2 DEF Streams, Waiting
    <3> QED  BY <3>1, <3>2
  <2> QED  BY <2>5, <2>6 DEF Streams, Once, Waiting
<1>4. CASE LoopStep /\ ~processCommandBuffer
  <2>1. UNCHANGED <<stream, owner, ipc>>
    BY <1>4 DEF LoopStep, listenCallback, onNewCommandConnect, EndOfStream, CloseSocket,
       onCommandsSocketClosed, SelectFails, item, peer
  <2> QED  BY <1>1, <2>1
<1>5. CASE debugCallback \/ OtherOpens \/ \E c \in Clients : Connect(c) \/ Leave(c) \/ ClientReads(c)
  <2>1. UNCHANGED <<stream, owner, ipc>>
    BY <1>5 DEF debugCallback, OtherOpens, Connect, Leave, ClientReads, item, peer
  <2> QED  BY <1>1, <2>1
<1>6. ASSUME NEW i \in Items, ItemStep(i) \/ onUnsolicitedResponse(i) PROVE Streams'
  <2>1. /\ UNCHANGED <<stream, owner>>
        /\ ipc[i] # "none" \/ i \in Urcs
        /\ \E p \in {"dequeued", "caching", "locking", "body", "done"} : ipc' = [ipc EXCEPT ![i] = p]
    BY <1>6 DEF ItemStep, checkAndDequeueRequestInfo, onUnsolicitedResponse, cacheUrc, Send,
       Header, Body, peer
  <2> QED  BY <1>1, <2>1
<1> QED  BY <1>2, <1>3, <1>4, <1>5, <1>6 DEF Next, ClientStep

\* Every step keeps the invariant on descriptors and that on streams.
LEMMA NextIInv == IInv /\ Streams /\ [Next]_vars => IInv' /\ Streams'
<1> SUFFICES ASSUME IInv, Streams, [Next]_vars PROVE IInv' /\ Streams'
  OBVIOUS
<1>1. CASE UNCHANGED vars
  <2>1. IInv'
    BY <1>1 DEF vars, sock, item, peer, hist, IInv, RType, TypeOK, Loop, Mutex, Writers,
       LoopSurvives, NotMisdirected
  <2>2. Streams'
    BY <1>1 DEF vars, item, peer, Streams, Sent, Waiting, Once
  <2> QED  BY <2>1, <2>2
<1>2. CASE Next
  <2>1. Defined
    BY <1>2 DEF Next
  <2>2. ASSUME LoopStep PROVE IInv'
    BY <2>1, <2>2, ListenIInv, ConnectIInv, ProcessIInv, EndIInv, CloseIInv, ClosedIInv,
       SelectFailsIInv DEF LoopStep
  <2>3. ASSUME NEW i \in Items, ItemStep(i) PROVE IInv'
    BY <2>1, <2>3, DequeueIInv, CacheIInv, SendIInv, HeaderIInv, BodyIInv DEF ItemStep
  <2>4. IInv'
    BY <1>2, <2>1, <2>2, <2>3, DebugIInv, OtherIInv, DequeueIInv, ClientIInv DEF Next
  <2> QED  BY <1>2, <2>1, <2>4, NextStreams
<1> QED  BY <1>1, <1>2

\* No request was sent at start.
LEMMA InitStreams == Init => Streams
<1> SUFFICES ASSUME Init PROVE Streams
  OBVIOUS
<1>1. Sent
  BY Constants DEF Init, Sent
<1>2. \A c \in Clients : stream[c] = <<>>
  BY DEF Init
<1> QED  BY <1>1, <1>2 DEF Streams, Once

\* Closing, reusing and watching descriptors (ril.cpp: onCommandsSocketClosed,
\* blockingWrite, debugCallback): select() fails on the command socket only after a
\* write that failed or the debug socket closed it, and a number is used for another
\* file only then or when the client was closed under a thread about to write.
THEOREM DescriptorsAlwaysSound == Spec => []DescriptorsSound
<1>1. IInv => DescriptorsSound
  BY DEF IInv, RType, DescriptorsSound
<1> QED  BY InitIInv, InitStreams, NextIInv, <1>1, PTL DEF Spec

(***************************************************************************)
(* The answers.                                                            *)
(***************************************************************************)
ItemsOf(s) == {s[k].item : k \in DOMAIN s}

\* The items of a stream of records that is continued.
LEMMA ItemsOfConcat ==
  ASSUME NEW s \in Seq(PartSet), NEW t \in Seq(PartSet)
  PROVE  ItemsOf(s \o t) \subseteq ItemsOf(s) \cup ItemsOf(t)
<1> SUFFICES ASSUME NEW k \in 1..Len(s \o t)
             PROVE  (s \o t)[k].item \in ItemsOf(s) \cup ItemsOf(t)
  BY DEF ItemsOf
<1>1. CASE k <= Len(s)
  BY <1>1 DEF ItemsOf
<1>2. CASE k > Len(s)
  <2>1. k - Len(s) \in DOMAIN t /\ (s \o t)[k] = t[k - Len(s)]
    BY <1>2
  <2> QED  BY <2>1 DEF ItemsOf
<1> QED  BY <1>1, <1>2

\* The items of whole records are the items they were made of.
LEMMA ItemsOfRecords == ASSUME NEW S, NEW q \in Seq(S) PROVE ItemsOf(Records(q)) \subseteq S
<1> DEFINE R == [item : S, part : {"header", "body"}]
<1>1. Records(q) \in Seq(R)
  BY RecordsWhole
<1>2. \A p \in R : p.item \in S
  OBVIOUS
<1> HIDE DEF R
<1>3. \A k \in DOMAIN Records(q) : Records(q)[k] \in R
  <2>1. \A s \in Seq(R) : \A k \in DOMAIN s : s[k] \in R
    OBVIOUS
  <2> QED  BY <1>1, <2>1
<1> QED  BY <1>2, <1>3 DEF ItemsOf

\* A write of what belongs to the client that gets it keeps NoForeignAnswer.
LEMMA WriteAnswers ==
  ASSUME RType, NoForeignAnswer, UNCHANGED <<owner, late>>,
         NEW fd \in Fds, NEW parts \in Seq(PartSet), blockingWrite(fd, parts),
         file[fd] \in Clients =>
           \A i \in ItemsOf(parts) \cap Requests : owner[i] = file[fd] \/ i \in late
  PROVE  NoForeignAnswer'
<1>1. CASE received' = received
  BY <1>1 DEF NoForeignAnswer, Parts
<1>2. CASE file[fd] \in Clients /\ received' = [received EXCEPT ![file[fd]] = @ \o parts]
  <2> SUFFICES ASSUME NEW c \in Clients, NEW i \in ItemsOf(received'[c]) \cap Requests, owner[i] # c
               PROVE  i \in late
    BY DEF NoForeignAnswer, Parts, ItemsOf
  <2>1. CASE c = file[fd]
    <3>1. received[c] \in Seq(PartSet) /\ received'[c] = received[c] \o parts
      BY <1>2, <2>1 DEF RType
    <3>2. i \in ItemsOf(received[c]) \cup ItemsOf(parts)
      BY <3>1, ItemsOfConcat
    <3> QED  BY <1>2, <2>1, <3>2 DEF NoForeignAnswer, Parts, ItemsOf
  <2>2. CASE c # file[fd]
    <3>1. received'[c] = received[c]
      BY <1>2, <2>2 DEF RType
    <3> QED  BY <3>1 DEF NoForeignAnswer, Parts, ItemsOf
  <2> QED  BY <2>1, <2>2
<1> QED  BY <1>1, <1>2 DEF blockingWrite

\* What a write does to the number that the loop watches.
LEMMA WriteFile ==
  ASSUME RType, NEW fd \in Fds, NEW parts, blockingWrite(fd, parts)
  PROVE  \A x \in Fds : file'[x] \in Clients => file'[x] = file[x]
BY Constants DEF RType, TypeOK, blockingWrite

\* The answers that will go out stay those of the client that is served: a step that
\* neither opens nor closes a connection adds none.
LEMMA OwnersKept ==
  ASSUME Owners, UNCHANGED <<owner, watched, evfd>>, lpc' = lpc \/ lpc = "connect",
         \A r \in Requests : Live(r)' => Live(r),
         watched /\ file'[evfd] \in Clients => file'[evfd] = file[evfd]
  PROVE  Owners'
BY DEF Owners

\* The loop opens a connection when no answer is left to go out, and closes one only after
\* it has cancelled or made late every answer.
LEMMA LoopAInv == ASSUME IInv, AInv, Streams, Defined, LoopStep PROVE Owners' /\ AnswersDelivered'
<1> USE DEF AInv, AnswersDelivered
<1>1. CASE listenCallback
  <2>1. /\ lpc = "select" /\ ~watched
        /\ UNCHANGED <<ipc, owner, received, cache, late, stranded>>
        /\ cancelled \subseteq cancelled'
        /\ (fdCommand' = fdCommand /\ lpc' = lpc) \/ lpc' = "connect"
    BY <1>1 DEF listenCallback, IInv, Loop, hist, sock
  <2>2. \A r \in Requests : ~Live(r)
    BY <2>1 DEF Owners
  <2>3. \A r \in Requests : ~Live(r)'
    BY <2>1, <2>2 DEF Live
  <2>4. NoForeignAnswer'
    BY <2>1 DEF NoForeignAnswer, Parts
  <2>5. NothingStranded'
    BY <2>1 DEF NothingStranded
  <2> QED  BY <2>3, <2>4, <2>5 DEF Owners
<1>2. CASE onNewCommandConnect
  <2>1. /\ lpc = "connect" /\ blockingWrite(fdCommand, Records(cache)) /\ cache' = <<>>
        /\ UNCHANGED <<watched, evfd, item, late>>
    BY <1>2 DEF onNewCommandConnect, writeAll
  <2>2. fdCommand = evfd /\ evfd \in Fds
    BY <2>1 DEF IInv, Loop
  <2>3. cache \in Seq(Urcs) /\ cache \in Seq(Items)
    BY Constants DEF IInv, RType
  <2>4. Records(cache) \in Seq(PartSet) /\ ItemsOf(Records(cache)) \subseteq Urcs
    BY <2>3, RecordsWhole, ItemsOfRecords DEF PartSet
  <2>5. UNCHANGED <<owner, late>> /\ ItemsOf(Records(cache)) \cap Requests = {}
    BY <2>1, <2>4, Constants DEF item
  <2>6. NoForeignAnswer'
    BY <2>1, <2>2, <2>4, <2>5, WriteAnswers DEF IInv
  <2>7. NothingStranded'
    BY <2>1 DEF NothingStranded
  <2>8. \A x \in Fds : file'[x] \in Clients => file'[x] = file[x]
    BY <2>1, <2>2, WriteFile DEF IInv
  <2>9. \A r \in Requests : Live(r)' => Live(r)
    BY <2>1 DEF Live, item
  <2>10. Owners'
    BY <2>1, <2>2, <2>8, <2>9, OwnersKept DEF item
  <2> QED  BY <2>6, <2>7, <2>10
<1>3. CASE processCommandBuffer
  <2> DEFINE c == file[evfd]
             r == Head(stream[c])
  <2>1. /\ lpc = "select" /\ watched /\ c \in Clients /\ stream[c] # <<>>
        /\ \/ /\ ipc' = [ipc EXCEPT ![r] = "pending"] /\ UNCHANGED <<file, received>>
           \/ /\ ipc' = [ipc EXCEPT ![r] = "done"]
              /\ blockingWrite(fdCommand, Records(<<r>>))
        /\ UNCHANGED <<fdCommand, watched, evfd, lpc, owner, cancelled, cache, late, stranded>>
    BY <1>3 DEF processCommandBuffer, writeAll
  <2>2. fdCommand = evfd /\ evfd \in Fds
    BY <2>1 DEF IInv, Loop
  <2>3. r \in Requests /\ owner[r] = c /\ r \in Items
    <3>1. stream[c] \in Seq(Requests) /\ Len(stream[c]) > 0 /\ r = stream[c][1]
      BY <2>1 DEF IInv, RType
    <3> QED  BY <2>1, <3>1, Constants DEF Streams, Waiting
  <2>4. NothingStranded'
    BY <2>1 DEF NothingStranded
  <2> HIDE DEF r
  <2>5. <<r>> \in Seq(Items) /\ <<r>> \in Seq({r})
    BY <2>3
  <2>6. Records(<<r>>) \in Seq(PartSet) /\ ItemsOf(Records(<<r>>)) \subseteq {r}
    BY <2>5, RecordsWhole, ItemsOfRecords DEF PartSet
  <2>7. CASE ipc' = [ipc EXCEPT ![r] = "pending"] /\ UNCHANGED <<file, received>>
    <3>1. NoForeignAnswer'
      BY <2>1, <2>7 DEF NoForeignAnswer, Parts
    <3>2. \A q \in Requests : q # r => (Live(q)' <=> Live(q))
      BY <2>1, <2>7, Constants DEF Live, IInv, RType, TypeOK
    <3>3. Owners'
      BY <2>1, <2>3, <2>7, <3>2 DEF Owners
    <3> QED  BY <2>4, <3>1, <3>3
  <2>8. CASE ipc' = [ipc EXCEPT ![r] = "done"] /\ blockingWrite(fdCommand, Records(<<r>>))
    <3>1. NoForeignAnswer'
      <4>1. \A i \in ItemsOf(Records(<<r>>)) \cap Requests : owner[i] = file[fdCommand]
        BY <2>2, <2>3, <2>6
      <4> QED  BY <2>1, <2>2, <2>6, <2>8, <4>1, WriteAnswers DEF IInv
    <3>2. \A q \in Requests : Live(q)' => Live(q)
      BY <2>1, <2>3, <2>8, Constants DEF Live, IInv, RType, TypeOK
    <3>3. \A x \in Fds : file'[x] \in Clients => file'[x] = file[x]
      BY <2>2, <2>8, WriteFile DEF IInv
    <3>4. Owners'
      BY <2>1, <2>2, <3>2, <3>3, OwnersKept
    <3> QED  BY <2>4, <3>1, <3>4
  <2> QED  BY <2>1, <2>7, <2>8
<1>4. CASE EndOfStream \/ CloseSocket
  <2>1. /\ lpc' \in {"closing", "cancel"} /\ late \subseteq late'
        /\ UNCHANGED <<owner, received>>
    BY <1>4 DEF EndOfStream, CloseSocket, item, peer
  <2>2. NoForeignAnswer'
    BY <2>1 DEF NoForeignAnswer, Parts
  <2> QED  BY <2>1, <2>2 DEF Owners, NothingStranded
<1>5. CASE onCommandsSocketClosed
  <2>1. /\ lpc = "cancel" /\ cancelled' = cancelled \cup {r \in Requests : ipc[r] = "pending"}
        /\ late' = late \cup InFlight /\ UNCHANGED <<ipc, owner, received, fdCommand>>
    BY <1>5 DEF onCommandsSocketClosed, peer, sock
  <2>2. \A r \in Requests : ~Live(r)'
    BY <2>1, Constants DEF Live, InFlight
  <2>3. NoForeignAnswer'
    BY <2>1 DEF NoForeignAnswer, Parts
  <2>4. NothingStranded'
    BY <2>1 DEF NothingStranded, IInv, Loop
  <2> QED  BY <2>2, <2>3, <2>4 DEF Owners
<1>6. CASE SelectFails
  <2>1. UNCHANGED <<sock, lpc, item, peer, cache, late, stranded>>
    BY <1>6 DEF SelectFails
  <2> QED  BY <2>1 DEF sock, item, peer, Owners, Live, NoForeignAnswer, Parts, NothingStranded
<1> QED  BY <1>1, <1>2, <1>3, <1>4, <1>5, <1>6 DEF LoopStep

\* A thread that writes a part of its response writes it to the client that asked.
LEMMA PartAnswers ==
  ASSUME IInv, Owners, NoForeignAnswer, UNCHANGED <<owner, late>>, NEW i \in Items,
         ipc[i] \in {"locking", "body"}, NEW p \in {"header", "body"},
         blockingWrite(ifd[i], <<Part(i, p)>>)
  PROVE  NoForeignAnswer'
<1>1. ifd[i] \in Fds /\ <<Part(i, p)>> \in Seq(PartSet) /\ ItemsOf(<<Part(i, p)>>) = {i}
  BY DEF IInv, Writers, Part, PartSet, ItemsOf
<1>2. file[ifd[i]] \in Clients /\ i \in Requests => owner[i] = file[ifd[i]] \/ i \in late
  <2> SUFFICES ASSUME file[ifd[i]] \in Clients, i \in Requests, i \notin late
               PROVE  owner[i] = file[ifd[i]]
    OBVIOUS
  <2>1. watched /\ lpc \in {"select", "connect"} /\ ifd[i] = evfd
    BY Constants DEF IInv, Writers, Loop
  <2>2. Live(i)
    BY DEF IInv, Writers, Live
  <2> QED  BY <2>1, <2>2 DEF Owners
<1> QED  BY <1>1, <1>2, WriteAnswers DEF IInv

\* A thread that completes a request leaves the other requests alone.
LEMMA ItemAInv ==
  ASSUME IInv, AInv, Defined, NEW i \in Items, ItemStep(i) \/ onUnsolicitedResponse(i)
  PROVE  Owners' /\ AnswersDelivered'
<1> USE DEF AInv, AnswersDelivered
<1>1. CASE checkAndDequeueRequestInfo(i) \/ onUnsolicitedResponse(i)
  <2>1. /\ ipc[i] = "pending" \/ i \in Urcs
        /\ \E p \in {"dequeued", "caching"} : ipc' = [ipc EXCEPT ![i] = p]
        /\ UNCHANGED <<sock, lpc, owner, cancelled, peer, cache, hist>>
    BY <1>1 DEF checkAndDequeueRequestInfo, onUnsolicitedResponse
  <2>2. \A r \in Requests : Live(r)' => Live(r)
    BY <2>1, Constants DEF Live, IInv, RType, TypeOK, hist
  <2>3. Owners'
    BY <2>1, <2>2, OwnersKept DEF sock
  <2> QED  BY <2>1, <2>3 DEF sock, peer, hist, NoForeignAnswer, Parts, NothingStranded
<1>2. CASE cacheUrc(i)
  <2>1. /\ ipc' = [ipc EXCEPT ![i] = "done"] /\ stranded' = (stranded \/ fdCommand # NoFd)
        /\ UNCHANGED <<sock, lpc, owner, cancelled, peer, late>>
    BY <1>2 DEF cacheUrc
  <2>2. \A r \in Requests : Live(r)' => Live(r)
    BY <2>1, Constants DEF Live, IInv, RType, TypeOK
  <2>3. Owners'
    BY <2>1, <2>2, OwnersKept DEF sock
  <2> QED  BY <2>1, <2>3 DEF sock, peer, NoForeignAnswer, Parts, NothingStranded
<1>3. CASE Send(i)
  <2>1. /\ ipc[i] = "dequeued" /\ \E p \in {"done", "locking"} : ipc' = [ipc EXCEPT ![i] = p]
        /\ late \subseteq late'
        /\ UNCHANGED <<sock, lpc, owner, cancelled, peer, cache, stranded>>
    BY <1>3 DEF Send
  <2>2. \A r \in Requests : Live(r)' => Live(r)
    BY <2>1, Constants DEF Live, IInv, RType, TypeOK
  <2>3. Owners'
    BY <2>1, <2>2, OwnersKept DEF sock
  <2> QED  BY <2>1, <2>3 DEF sock, peer, NoForeignAnswer, Parts, NothingStranded
<1>4. CASE Header(i) \/ Body(i)
  <2>1. /\ ipc[i] \in {"locking", "body"}
        /\ \E p \in {"header", "body"} : blockingWrite(ifd[i], <<Part(i, p)>>)
        /\ \E p \in {"done", "body"} : ipc' = [ipc EXCEPT ![i] = p]
        /\ UNCHANGED <<fdCommand, watched, evfd, lpc, owner, cancelled, cache, late, stranded>>
    BY <1>4 DEF Header, Body
  <2>2. NoForeignAnswer'
    BY <2>1, PartAnswers
  <2>3. \A r \in Requests : Live(r)' => Live(r)
    BY <2>1, Constants DEF Live, IInv, RType, TypeOK
  <2>4. \A x \in Fds : file'[x] \in Clients => file'[x] = file[x]
    <3>1. ifd[i] \in Fds
      BY <2>1 DEF IInv, Writers
    <3> QED  BY <2>1, <3>1, WriteFile DEF IInv
  <2>5. watched => evfd \in Fds
    BY DEF IInv, Loop
  <2>6. Owners'
    BY <2>1, <2>3, <2>4, <2>5, OwnersKept
  <2> QED  BY <2>1, <2>2, <2>6 DEF NothingStranded
<1> QED  BY <1>1, <1>2, <1>3, <1>4 DEF ItemStep

\* Other files and the clients' requests change no answer.
LEMMA OtherAInv ==
  ASSUME IInv, AInv, Streams, OtherOpens \/ (\E c \in Clients : ClientStep(c)) \/ UNCHANGED vars
  PROVE  Owners' /\ AnswersDelivered'
<1> USE DEF AInv, AnswersDelivered
<1>1. UNCHANGED <<fdCommand, watched, evfd, lpc, ipc, cancelled, received, cache, late, stranded>>
  BY DEF OtherOpens, ClientStep, Connect, Leave, ClientReads, Request, vars, sock, item, peer, hist
<1>2. \A r \in Requests : Live(r)' <=> Live(r)
  BY <1>1 DEF Live
<1>3. NothingStranded'
  BY <1>1 DEF NothingStranded
<1>4. CASE UNCHANGED owner
  <2>1. watched /\ file'[evfd] \in Clients => file'[evfd] = file[evfd]
    <3>1. CASE OtherOpens
      BY <3>1, Constants DEF OtherOpens, IInv, RType, TypeOK, Loop
    <3>2. CASE ~OtherOpens
      BY <3>2 DEF ClientStep, Connect, Leave, ClientReads, Request, vars, sock
    <3> QED  BY <3>1, <3>2
  <2>2. Owners'
    BY <1>1, <1>2, <1>4, <2>1, OwnersKept
  <2> QED  BY <1>1, <1>3, <1>4, <2>2 DEF NoForeignAnswer, Parts
<1>5. ASSUME NEW c \in Clients, NEW r \in Requests, Request(c, r)
      PROVE  Owners' /\ AnswersDelivered'
  <2>1. owner[r] = 0 /\ owner' = [owner EXCEPT ![r] = c] /\ UNCHANGED file
    BY <1>5 DEF Request, sock
  <2>2. ~Live(r)
    BY <2>1 DEF Streams, Sent, Live
  <2>3. Owners'
    BY <1>1, <1>2, <2>1, <2>2 DEF Owners, IInv, RType, TypeOK
  <2>4. NoForeignAnswer'
    BY <1>1, <2>1, Constants DEF NoForeignAnswer, Parts, IInv, RType, TypeOK, Closed
  <2> QED  BY <1>3, <2>3, <2>4
<1> QED  BY <1>4, <1>5 DEF OtherOpens, ClientStep, Connect, Leave, ClientReads, vars, item

\* The debug socket closes the client and cancels nothing, but nobody is served any
\* more.
LEMMA DebugAInv ==
  ASSUME IInv, AInv, Defined, debugCallback
  PROVE  Owners' /\ AnswersDelivered'
<1> USE DEF AInv, AnswersDelivered
<1>1. /\ lpc = "select" /\ fdCommand # NoFd /\ fdCommand' = NoFd /\ late' = late \cup InFlight
      /\ UNCHANGED <<watched, evfd, lpc, item, received, cache, stranded>>
      /\ file' = file \/ file' = [file EXCEPT ![fdCommand] = Closed]
      /\ file[fdCommand] = Other => file' = file
      /\ file[fdCommand] # Other => file' = [file EXCEPT ![fdCommand] = Closed]
  BY DEF debugCallback, peer
<1>2. watched /\ evfd = fdCommand /\ fdCommand \in Fds
  BY <1>1 DEF IInv, Loop
<1>3. file'[evfd] \notin Clients
  BY <1>1, <1>2, Constants DEF IInv, RType, TypeOK
<1>4. Owners'
  BY <1>1, <1>2, <1>3 DEF Owners
<1>5. NothingStranded'
  BY <1>1 DEF NothingStranded
<1>6. NoForeignAnswer'
  BY <1>1 DEF NoForeignAnswer, Parts, item
<1> QED  BY <1>4, <1>5, <1>6

\* Responses reach the client they are for (RIL_onRequestComplete,
\* onCommandsSocketClosed, sendPendedUrcs), however often clients leave and come: no
\* client gets the answer to a request of a client before it, but for the answers that
\* a proxy had taken when that client was closed, and with a client connected no
\* unsolicited response waits in the cache, unless its thread looked for a client before.
THEOREM AnswersAlwaysDelivered == Spec => []AnswersDelivered
<1>1. Init => AInv
  <2>1. Init => Owners /\ AnswersDelivered
    BY Constants DEF Init, Owners, Live, AnswersDelivered, NoForeignAnswer, NothingStranded, Parts
  <2> QED  BY <2>1, InitStreams DEF AInv
<1>2. IInv /\ AInv /\ [Next]_vars => AInv'
  <2> SUFFICES ASSUME IInv, AInv, [Next]_vars PROVE AInv'
    OBVIOUS
  <2>1. Streams /\ Streams'
    BY NextIInv DEF AInv
  <2>2. CASE Next
    <3>1. Defined
      BY <2>2 DEF Next
    <3> QED  BY <2>1, <2>2, <3>1, LoopAInv, DebugAInv, ItemAInv, OtherAInv DEF Next, AInv
  <2>3. CASE UNCHANGED vars
    BY <2>1, <2>3, OtherAInv DEF AInv
  <2> QED  BY <2>2, <2>3
<1>3. AInv => AnswersDelivered /\ Streams
  BY DEF AInv
<1> QED  BY InitIInv, NextIInv, <1>1, <1>2, <1>3, PTL DEF Spec

(***************************************************************************)
(* The records.                                                            *)
(***************************************************************************)

\* Whole records after whole records are whole records.
LEMMA WholeConcat ==
  ASSUME NEW s \in Seq(PartSet), NEW t \in Seq(PartSet), Whole(s), Whole(t), Len(s) % 2 = 0
  PROVE  Whole(s \o t) /\ Len(s \o t) % 2 = Len(t) % 2
<1>1. Len(s \o t) = Len(s) + Len(t) /\ Len(s) \in Nat /\ Len(t) \in Nat
  OBVIOUS
<1>2. ASSUME NEW k \in 1..Len(s \o t)
      PROVE  IF k % 2 = 1 THEN (s \o t)[k].part = "header"
             ELSE (s \o t)[k] = [item |-> (s \o t)[k - 1].item, part |-> "body"]
  <2>1. CASE k <= Len(s)
    <3>1. k \in 1..Len(s) /\ (s \o t)[k] = s[k]
      BY <2>1
    <3>2. k % 2 # 1 => k - 1 \in 1..Len(s) /\ (s \o t)[k - 1] = s[k - 1]
      BY <2>1
    <3> QED  BY <3>1, <3>2 DEF Whole
  <2>2. CASE k > Len(s)
    <3> DEFINE m == k - Len(s)
    <3>1. m \in 1..Len(t) /\ (s \o t)[k] = t[m] /\ m % 2 = k % 2
      BY <1>1, <2>2
    <3>2. m % 2 # 1 => m - 1 \in 1..Len(t) /\ (s \o t)[k - 1] = t[m - 1]
      BY <1>1, <2>2
    <3> HIDE DEF m
    <3> QED  BY <3>1, <3>2 DEF Whole
  <2>3. k <= Len(s) \/ k > Len(s)
    BY <1>1
  <2> QED  BY <2>1, <2>2, <2>3
<1>3. Whole(s \o t)
  BY <1>2 DEF Whole
<1>4. (Len(s) + Len(t)) % 2 = Len(t) % 2
  BY <1>1
<1> QED  BY <1>1, <1>3, <1>4

\* So is a body after its header.
LEMMA WholeBody ==
  ASSUME NEW s \in Seq(PartSet), Whole(s), Len(s) % 2 = 1, NEW i \in Items, s[Len(s)].item = i
  PROVE  Whole(s \o <<Part(i, "body")>>) /\ Len(s \o <<Part(i, "body")>>) % 2 = 0
<1> DEFINE t == s \o <<Part(i, "body")>>
<1>1. /\ Len(t) = Len(s) + 1 /\ Len(s) \in Nat /\ t[Len(t)] = [item |-> i, part |-> "body"]
      /\ \A k \in 1..Len(s) : t[k] = s[k]
  BY DEF Part
<1>2. Len(s) \in 1..Len(s) /\ Len(t) % 2 = 0 /\ Len(t) - 1 = Len(s)
  BY <1>1
<1> HIDE DEF t
<1>3. ASSUME NEW k \in 1..Len(t)
      PROVE  IF k % 2 = 1 THEN t[k].part = "header"
             ELSE t[k] = [item |-> t[k - 1].item, part |-> "body"]
  <2>1. CASE k = Len(t)
    BY <1>1, <1>2, <2>1
  <2>2. CASE k # Len(t)
    <3>1. k \in 1..Len(s) /\ (k % 2 # 1 => k - 1 \in 1..Len(s))
      BY <1>1, <2>2
    <3> QED  BY <1>1, <3>1 DEF Whole
  <2> QED  BY <2>1, <2>2
<1>4. Whole(t) /\ Len(t) % 2 = 0
  BY <1>2, <1>3 DEF Whole
<1> QED  BY <1>4 DEF t

\* While nothing is late, the thread that has the mutex writes to the client that is
\* served.
LEMMA MutexServed ==
  ASSUME IInv, late = {}, writeMutex # NoItem
  PROVE  /\ writeMutex \in InFlight /\ watched /\ lpc \in {"select", "connect"}
         /\ writeMutex \in Items /\ ifd[writeMutex] = fdCommand /\ fdCommand \in Fds
<1>1. writeMutex \in Items /\ ipc[writeMutex] = "body"
  BY DEF IInv, RType, TypeOK, Mutex
<1> QED  BY <1>1 DEF IInv, Writers, InFlight

\* A write of whole records, with the mutex free.
LEMMA WriteRecords ==
  ASSUME IInv, Halves, Defined, late = {}, UNCHANGED <<late, writeMutex, client>>,
         writeMutex = NoItem, NEW fd \in Fds, NEW q \in Seq(Items),
         blockingWrite(fd, Records(q))
  PROVE  Halves'
<1>1. /\ Records(q) \in Seq(PartSet) /\ Whole(Records(q)) /\ Len(Records(q)) % 2 = 0
  <2>1. Records(q) \in Seq(PartSet) /\ Whole(Records(q)) /\ Len(Records(q)) = 2 * Len(q)
    BY RecordsWhole DEF PartSet
  <2>2. Len(q) \in Nat
    OBVIOUS
  <2> HIDE DEF Records
  <2> QED  BY <2>1, <2>2
<1>2. HalfWritten'
  BY DEF HalfWritten
<1>3. CASE received' = received
  BY <1>2, <1>3 DEF Halves, Defined
<1>4. CASE /\ file[fd] \in Clients /\ client[file[fd]] # "gone"
           /\ received' = [received EXCEPT ![file[fd]] = @ \o Records(q)]
  <2> DEFINE s == received[file[fd]]
  <2>1. s \in Seq(PartSet) /\ Whole(s) /\ Len(s) % 2 # 1
    <3>1. s \in Seq(PartSet)
      BY <1>4 DEF IInv, RType
    <3>2. Whole(s)
      BY <1>4 DEF Halves
    <3>3. Len(s) % 2 # 1
      BY <1>4 DEF Halves, Defined
    <3> QED  BY <3>1, <3>2, <3>3
  <2>2. Len(s) % 2 = 0
    <3>1. \A n \in Nat : n % 2 # 1 => n % 2 = 0
      OBVIOUS
    <3>2. Len(s) \in Nat
      BY <2>1
    <3> QED  BY <2>1, <3>1, <3>2
  <2>3. Whole(s \o Records(q)) /\ Len(s \o Records(q)) % 2 = 0
    BY <1>1, <2>1, <2>2, WholeConcat
  <2>4. \A c \in Clients : received'[c] = IF c = file[fd] THEN s \o Records(q) ELSE received[c]
    BY <1>4 DEF IInv, RType
  <2>5. \A c \in Clients : Whole(received'[c])
    BY <2>3, <2>4 DEF Halves
  <2>6. \A c \in Clients : Len(received'[c]) % 2 = 1 => client[c] = "gone"
    <3>1. \A c \in Clients : Len(received[c]) % 2 = 1 => client[c] = "gone"
      BY DEF Halves, Defined
    <3>2. ASSUME NEW c \in Clients, Len(received'[c]) % 2 = 1 PROVE client[c] = "gone"
      <4>1. c # file[fd]
        <5>1. c = file[fd] => Len(received'[c]) % 2 = 0
          BY <2>3, <2>4
        <5>2. 0 # 1
          OBVIOUS
        <5> QED  BY <3>2, <5>1, <5>2, Zenon
      <4>2. received'[c] = received[c]
        BY <2>4, <4>1
      <4> QED  BY <3>1, <3>2, <4>2
    <3> QED  BY <3>2
  <2> QED  BY <1>2, <2>5, <2>6 DEF Halves
<1> QED  BY <1>3, <1>4 DEF blockingWrite, Fails

\* The last element of a sequence that was continued.
LEMMA LastConcat ==
  ASSUME NEW s \in Seq(PartSet), NEW e \in PartSet
  PROVE  (s \o <<e>>)[Len(s \o <<e>>)] = e
OBVIOUS

\* After a header that was written the client has half a record, from the mutex's holder.
LEMMA HeaderHalves ==
  ASSUME IInv, Halves, Defined, late = {}, NEW i \in Items, Header(i) PROVE Halves'
<1>1. /\ ipc[i] = "locking" /\ writeMutex = NoItem
      /\ blockingWrite(ifd[i], <<Part(i, "header")>>)
      /\ writeMutex' = IF Fails(ifd[i]) THEN NoItem ELSE i
      /\ UNCHANGED <<fdCommand, late, client>>
  BY DEF Header
<1>2. ifd[i] \in Fds /\ ifd[i] = fdCommand /\ i # NoItem
  BY <1>1, Constants DEF IInv, Writers
<1> DEFINE d == file[fdCommand]
           t == <<Part(i, "header")>>
<1>3. t \in Seq(PartSet) /\ Whole(t) /\ Len(t) = 1 /\ t[1].item = i
  BY DEF Part, PartSet, Whole
<1> HIDE DEF t
<1>4. \A c \in Clients : Len(received[c]) % 2 = 1 => client[c] = "gone"
  BY <1>1 DEF Halves, Defined
<1>5. \A c \in Clients : Whole(received[c])
  BY DEF Halves
<1>6. CASE received' = received /\ (writeMutex' = NoItem \/ misdirected')
  <2>1. HalfWritten'
    BY <1>6 DEF HalfWritten
  <2> QED  BY <1>1, <1>4, <1>5, <1>6, <2>1 DEF Halves
<1>7. CASE /\ d \in Clients /\ client[d] # "gone" /\ file' = file /\ writeMutex' = i
           /\ received' = [received EXCEPT ![d] = @ \o t]
  <2> DEFINE s == received[d]
  <2>1. s \in Seq(PartSet) /\ Whole(s) /\ Len(s) % 2 # 1
    <3>1. s \in Seq(PartSet)
      BY <1>7 DEF IInv, RType
    <3> QED  BY <1>4, <1>5, <1>7, <3>1
  <2>2. Len(s) % 2 = 0
    <3>1. \A n \in Nat : n % 2 # 1 => n % 2 = 0
      OBVIOUS
    <3>2. Len(s) \in Nat
      BY <2>1
    <3> QED  BY <2>1, <3>1, <3>2
  <2>3. \A c \in Clients : received'[c] = IF c = d THEN s \o t ELSE received[c]
    BY <1>7 DEF IInv, RType
  <2> HIDE DEF s
  <2>4. Whole(s \o t) /\ Len(s \o t) % 2 = 1
    <3>1. Whole(s \o t) /\ Len(s \o t) % 2 = Len(t) % 2
      BY <1>3, <2>1, <2>2, WholeConcat
    <3>2. 1 % 2 = 1
      OBVIOUS
    <3> QED  BY <1>3, <3>1, <3>2
  <2>5. (s \o t)[Len(s \o t)].item = i
    <3>1. Part(i, "header") \in PartSet /\ Part(i, "header").item = i
      BY DEF Part, PartSet
    <3> QED  BY <2>1, <3>1, LastConcat DEF t
  <2>6. \A c \in Clients : Whole(received'[c])
    BY <1>5, <2>3, <2>4
  <2>7. HalfWritten'
    BY <1>1, <1>7, <2>3, <2>4, <2>5 DEF HalfWritten
  <2>8. \A c \in Clients : Len(received'[c]) % 2 = 1 => client[c] = "gone" \/ c = d
    BY <1>4, <2>3
  <2> QED  BY <1>1, <1>2, <1>7, <2>6, <2>7, <2>8 DEF Halves
<1> QED  BY <1>1, <1>2, <1>6, <1>7 DEF blockingWrite, Fails, t

\* The body completes it; a client that does not get it is gone.
LEMMA BodyHalves ==
  ASSUME IInv, Halves, Defined, late = {}, NEW i \in Items, Body(i) PROVE Halves'
<1>1. /\ ipc[i] = "body" /\ blockingWrite(ifd[i], <<Part(i, "body")>>)
      /\ writeMutex' = NoItem /\ UNCHANGED <<fdCommand, late, client>>
  BY DEF Body
<1>2. ifd[i] \in Fds /\ ifd[i] = fdCommand /\ writeMutex = i /\ i # NoItem
  BY <1>1, Constants DEF IInv, Writers, Mutex
<1> DEFINE d == file[fdCommand]
           s == received[d]
           t == <<Part(i, "body")>>
<1>3. /\ d \in Clients /\ Len(s) % 2 = 1 /\ s[Len(s)].item = i
      /\ \A c \in Clients : Whole(received[c])
      /\ \A c \in Clients : Len(received[c]) % 2 = 1 => client[c] = "gone" \/ c = d
  BY <1>2 DEF Halves, HalfWritten, Defined
<1>4. HalfWritten'
  BY <1>1 DEF HalfWritten
<1>5. CASE received' = received /\ client[d] = "gone"
  BY <1>1, <1>3, <1>4, <1>5 DEF Halves
<1>6. CASE received' = [received EXCEPT ![d] = @ \o t]
  <2>1. s \in Seq(PartSet)
    BY <1>3 DEF IInv, RType
  <2>2. \A c \in Clients : received'[c] = IF c = d THEN s \o t ELSE received[c]
    BY <1>6 DEF IInv, RType
  <2> HIDE DEF s, d
  <2>3. Whole(s \o t) /\ Len(s \o t) % 2 = 0
    <3>1. Whole(s)
      BY <1>3 DEF s
    <3> QED  BY <1>3, <2>1, <3>1, WholeBody
  <2> HIDE DEF t
  <2>4. \A c \in Clients : Whole(received'[c])
    BY <1>3, <2>2, <2>3
  <2>5. ASSUME NEW c \in Clients, Len(received'[c]) % 2 = 1 PROVE client[c] = "gone"
    <3>1. c = d => Len(received'[c]) % 2 = 0
      BY <2>2, <2>3
    <3>2. c # d
      <4>1. 0 # 1
        OBVIOUS
      <4> QED  BY <2>5, <3>1, <4>1, Zenon
    <3>3. received'[c] = received[c]
      BY <2>2, <3>2
    <3> QED  BY <1>3, <2>5, <3>2, <3>3
  <2> QED  BY <1>1, <1>4, <2>4, <2>5 DEF Halves
<1> QED  BY <1>1, <1>2, <1>3, <1>5, <1>6, Constants DEF blockingWrite, Fails

\* A step that writes nothing: with a record half written it leaves the mutex, and the
\* descriptor that the loop watches, alone.
LEMMA QuietHalves ==
  ASSUME Halves, late = {}, UNCHANGED received,
         \A c \in Clients : client[c] = "gone" => client'[c] = "gone",
         misdirected => misdirected',
         writeMutex' = writeMutex,
         writeMutex # NoItem /\ ~misdirected => fdCommand' = fdCommand /\ file'[fdCommand] = file[fdCommand]
  PROVE  Halves'
<1>1. CASE writeMutex = NoItem
  BY <1>1 DEF Halves, HalfWritten
<1>2. CASE writeMutex # NoItem /\ misdirected
  BY <1>2 DEF Halves, HalfWritten
<1>3. CASE writeMutex # NoItem /\ ~misdirected
  <2>1. HalfWritten'
    BY <1>3 DEF Halves, HalfWritten
  <2> QED  BY <1>3, <2>1 DEF Halves
<1> QED  BY <1>1, <1>2, <1>3

\* Every step keeps the invariant on records.
LEMMA NextHalves == IInv /\ Streams /\ Halves /\ [Next]_vars => Halves'
<1> SUFFICES ASSUME IInv, Streams, Halves, [Next]_vars, late' = {} PROVE Halves'
  BY DEF Halves
<1>1. late = {}
  <2>1. late \subseteq late'
    BY DEF Next, LoopStep, listenCallback, onNewCommandConnect, processCommandBuffer, EndOfStream,
       CloseSocket, onCommandsSocketClosed, SelectFails, debugCallback, OtherOpens, ItemStep,
       checkAndDequeueRequestInfo, onUnsolicitedResponse, cacheUrc, Send, Header, Body,
       ClientStep, Connect, Leave, ClientReads, Request, hist, vars
  <2> QED  BY <2>1
<1>2. CASE UNCHANGED vars
  BY <1>1, <1>2, QuietHalves DEF vars, sock, peer, hist
<1>3. CASE Next
  <2>1. Defined
    BY <1>3 DEF Next
  <2>2. CASE LoopStep
    <3>1. CASE listenCallback
      <4>1. /\ listening /\ UNCHANGED <<writeMutex, received, misdirected>>
            /\ \E c \in Clients : client[c] = "backlog" /\ \E x : client' = [client EXCEPT ![c] = x]
        BY <3>1 DEF listenCallback, hist
      <4>2. writeMutex = NoItem
        BY <1>1, <4>1, MutexServed DEF IInv, Loop
      <4>3. \A c \in Clients : client[c] = "gone" => client'[c] = "gone"
        BY <4>1 DEF IInv, RType, TypeOK
      <4> QED  BY <1>1, <4>1, <4>2, <4>3, QuietHalves
    <3>2. CASE onNewCommandConnect
      <4>1. /\ lpc = "connect" /\ writeMutex = NoItem /\ blockingWrite(fdCommand, Records(cache))
            /\ UNCHANGED <<late, writeMutex, client>>
        BY <3>2 DEF onNewCommandConnect, writeAll
      <4>2. fdCommand \in Fds /\ cache \in Seq(Items)
        BY <4>1, Constants DEF IInv, Loop, RType
      <4> QED  BY <1>1, <2>1, <4>1, <4>2, WriteRecords
    <3>3. CASE processCommandBuffer
      <4> DEFINE c == file[evfd]
                 r == Head(stream[c])
      <4>1. /\ watched /\ c \in Clients /\ stream[c] # <<>>
            /\ \/ UNCHANGED <<file, received, misdirected>>
               \/ writeMutex = NoItem /\ blockingWrite(fdCommand, Records(<<r>>))
            /\ UNCHANGED <<fdCommand, late, writeMutex, client>>
        BY <3>3 DEF processCommandBuffer, writeAll
      <4>2. CASE UNCHANGED <<file, received, misdirected>>
        BY <1>1, <4>1, <4>2, QuietHalves
      <4>3. CASE writeMutex = NoItem /\ blockingWrite(fdCommand, Records(<<r>>))
        <5>1. fdCommand \in Fds
          BY <4>1 DEF IInv, Loop
        <5>2. r \in Requests /\ r \in Items
          <6>1. stream[c] \in Seq(Requests) /\ r = stream[c][1] /\ Len(stream[c]) > 0
            BY <4>1 DEF IInv, RType
          <6> QED  BY <6>1, Constants
        <5> HIDE DEF r
        <5>3. <<r>> \in Seq(Items)
          BY <5>2
        <5> QED  BY <1>1, <2>1, <4>1, <4>3, <5>1, <5>3, WriteRecords
      <4> QED  BY <4>1, <4>2, <4>3
    <3>4. CASE EndOfStream \/ CloseSocket
      <4>1. /\ InFlight = {} /\ UNCHANGED <<writeMutex, received, client, misdirected>>
        BY <3>4 DEF EndOfStream, CloseSocket, peer
      <4>2. writeMutex = NoItem
        BY <1>1, <4>1, MutexServed
      <4> QED  BY <1>1, <4>1, <4>2, QuietHalves
    <3>5. CASE onCommandsSocketClosed \/ SelectFails
      <4>1. /\ UNCHANGED <<file, fdCommand, writeMutex, received, client>>
            /\ misdirected => misdirected'
        BY <3>5 DEF onCommandsSocketClosed, SelectFails, sock, peer
      <4> QED  BY <1>1, <4>1, QuietHalves
    <3> QED  BY <2>2, <3>1, <3>2, <3>3, <3>4, <3>5 DEF LoopStep
  <2>3. CASE OtherOpens
    <3> DEFINE fd == Lowest(Free)
    <3>1. file[fd] = Closed
      BY <2>3, LowestFree, RequestsAssumption DEF OtherOpens, Free
    <3>2. /\ file' = [file EXCEPT ![fd] = Other]
          /\ UNCHANGED <<fdCommand, writeMutex, received, client, misdirected>>
      BY <2>3 DEF OtherOpens, peer, hist
    <3>3. writeMutex # NoItem => file'[fdCommand] = file[fdCommand]
      <4> HIDE DEF fd
      <4>1. writeMutex # NoItem => file[fdCommand] \in Clients
        BY <1>1, <2>1 DEF Halves, HalfWritten, Defined
      <4>2. writeMutex # NoItem => fd # fdCommand
        BY <3>1, <4>1, Constants
      <4> QED  BY <3>2, <4>2 DEF IInv, RType, TypeOK
    <3> QED  BY <1>1, <3>2, <3>3, QuietHalves
  <2>4. ASSUME NEW i \in Items,
               \/ checkAndDequeueRequestInfo(i) \/ onUnsolicitedResponse(i) \/ cacheUrc(i) \/ Send(i)
        PROVE  Halves'
    <3>1. UNCHANGED <<file, fdCommand, writeMutex, received, client, misdirected>>
      BY <2>4 DEF checkAndDequeueRequestInfo, onUnsolicitedResponse, cacheUrc, Send, sock, peer, hist
    <3> QED  BY <1>1, <3>1, QuietHalves
  <2>5. ASSUME NEW i \in Items, Header(i) \/ Body(i) PROVE Halves'
    BY <1>1, <2>1, <2>5, HeaderHalves, BodyHalves
  <2>6. ASSUME NEW c \in Clients, ClientStep(c) PROVE Halves'
    <3>1. /\ UNCHANGED <<file, fdCommand, writeMutex, received, misdirected>>
          /\ client' = client \/ \E x \in {"backlog", "gone"} :
               client[c] # "gone" /\ client' = [client EXCEPT ![c] = x]
      BY <2>6 DEF ClientStep, Connect, Leave, ClientReads, Request, sock, hist
    <3>2. \A d \in Clients : client[d] = "gone" => client'[d] = "gone"
      BY <3>1 DEF IInv, RType, TypeOK
    <3> QED  BY <1>1, <3>1, <3>2, QuietHalves
  <2>7. CASE debugCallback
    <3>1. /\ InFlight = {} /\ UNCHANGED <<writeMutex, received, client>>
          /\ misdirected => misdirected'
      BY <2>7 DEF debugCallback, peer
    <3>2. writeMutex = NoItem
      BY <1>1, <3>1, MutexServed
    <3> QED  BY <1>1, <3>1, <3>2, QuietHalves
  <2> QED  BY <1>3, <2>2, <2>3, <2>4, <2>5, <2>6, <2>7 DEF Next, ItemStep
<1> QED  BY <1>2, <1>3

\* What a client reads is whole records (sendResponseRaw under s_writeMutex), however
\* many threads write, and whatever fails, unless a client was closed under a thread
\* about to write.
THEOREM RecordsAlwaysWhole == Spec => []WholeRecords
<1>1. Init => Halves
  BY DEF Init, Halves, HalfWritten, Whole
<1>2. IInv /\ Halves => WholeRecords
  <2> SUFFICES ASSUME IInv, Halves, late = {}, NEW c \in Clients PROVE
          \A k \in DOMAIN received[c] :
            IF k % 2 = 1 THEN received[c][k].part = "header"
            ELSE received[c][k] = [item |-> received[c][k - 1].item, part |-> "body"]
    BY DEF WholeRecords
  <2>1. Whole(received[c]) /\ DOMAIN received[c] = 1..Len(received[c])
    BY DEF Halves, IInv, RType
  <2> QED  BY <2>1 DEF Whole
<1> QED  BY InitIInv, InitStreams, NextIInv, NextHalves, <1>1, <1>2, PTL DEF Spec
=============================================================================
