-------------------------- MODULE VibeDaemonProofs --------------------------
(***************************************************************************)
(* TLAPS proofs about VibeDaemon, for any set of clients, any forces, any  *)
(* size of an epoll batch and any bound on the inputs.                     *)
(***************************************************************************)
EXTENDS VibeDaemon, TLAPS

(***************************************************************************)
(* The force.                                                              *)
(***************************************************************************)

FType == /\ wpc \in {"get", "access", "set", "unlink", "play", "sleep"}
         /\ force \in Forces /\ motor \in Forces \cup {0}
         /\ legacy \in Forces \cup {None} /\ prop \in Forces /\ pref \in Forces
         /\ missed \in BOOLEAN /\ misread \in BOOLEAN

\* While the worker migrates, the legacy file is there and is what it has read if
\* it could be read, and before it removes the file the property has the same
\* force, unless the user chose another one meanwhile.
Migrating ==
  /\ wpc \in {"set", "unlink"} => legacy # None /\ (misread \/ force = legacy)
  /\ wpc = "unlink" /\ ~early => prop = force

\* The user's last choice counts as recent for a worker that has a request, and so
\* does the force the worker has read.
Recent ==
  /\ wpc # "get" => pref \in recent
  /\ ~early /\ ~misread /\ ~missed /\ wpc \in {"set", "unlink", "play", "sleep"}
       => force \in recent

FInv == FType /\ PreferenceKept /\ Migrating /\ Recent

fvars == <<wpc, force, motor, legacy, prop, pref, early, recent, missed, misread>>

\* The stores agree at boot.
LEMMA InitFInv == Init => FInv
BY ForcesAssumption DEF Init, FInv, FType, PreferenceKept, Migrating, Recent

\* What neither the worker nor the user does leaves the force alone; a crash
\* throws away what the worker had read.
LEMMA OtherFInv ==
  ASSUME FInv, UNCHANGED fvars \/ Crash
  PROVE  FInv'
<1>1. CASE UNCHANGED fvars
  BY <1>1 DEF fvars, FInv, FType, PreferenceKept, Migrating, Recent
<1>2. CASE Crash
  <2>1. /\ wpc' = "get" /\ force' = Default /\ motor' \in {motor, 0}
        /\ UNCHANGED <<legacy, prop, pref, early, missed, misread>>
    BY <1>2 DEF Crash, prefVars, readVars
  <2> QED  BY <2>1, ForcesAssumption DEF FInv, FType, PreferenceKept, Migrating, Recent
<1> QED  BY <1>1, <1>2

\* A step of the worker keeps the invariant on the force.
LEMMA WorkerFInv == ASSUME FInv, Worker PROVE FInv'
<1> USE DEF FInv, FType, PreferenceKept, Migrating, Recent
<1>1. CASE Get
  <2>1. /\ wpc = "get" /\ wpc' \in {"get", "access"} /\ motor' \in {motor, 0}
        /\ wpc' = "access" => recent' = {pref}
        /\ UNCHANGED <<force, legacy, prop, pref, early, missed, misread>>
    BY <1>1 DEF Get, WorkerStep, readVars
  <2> QED  BY <2>1
<1>2. CASE Access
  <2>1. /\ wpc = "access"
        /\ \/ legacy = None /\ force' = prop /\ wpc' = "play" /\ UNCHANGED <<missed, misread>>
           \/ legacy # None /\ force' = legacy /\ wpc' = "set" /\ UNCHANGED <<missed, misread>>
           \/ force' = prop /\ wpc' = "play" /\ missed' = TRUE /\ UNCHANGED misread
           \/ legacy # None /\ force' = Default /\ wpc' = "set" /\ misread' = TRUE
              /\ UNCHANGED missed
        /\ UNCHANGED <<motor, recent, legacy, prop, pref, early>>
    BY <1>2 DEF Access, WorkerStep, readVars
  <2>2. ~early /\ ~misread' /\ ~missed' => force' \in recent
    BY <2>1
  <2> QED  BY <2>1, <2>2, ForcesAssumption
<1>3. CASE Migrate
  <2>1. /\ wpc = "set"
        /\ \/ prop' = force /\ wpc' = "unlink"
           \/ wpc' = "play" /\ prop' = prop
        /\ UNCHANGED <<motor, recent, legacy, force, pref, early, missed, misread>>
    BY <1>3 DEF Migrate, WorkerStep, readVars
  <2> QED  BY <2>1
<1>4. CASE Unlink
  <2>1. /\ wpc = "unlink" /\ legacy' \in {legacy, None} /\ wpc' = "play"
        /\ UNCHANGED <<motor, recent, prop, force, pref, early, missed, misread>>
    BY <1>4 DEF Unlink, WorkerStep, readVars
  <2> QED  BY <2>1
<1>5. CASE Play
  <2>1. /\ wpc = "play" /\ motor' = force /\ wpc' = "sleep"
        /\ UNCHANGED <<recent, legacy, prop, force, pref, early, missed, misread>>
    BY <1>5 DEF Play, WorkerStep, readVars
  <2> QED  BY <2>1
<1>6. CASE PlayEnds
  <2>1. /\ motor' = 0 /\ wpc' = "get" /\ force' = Default
        /\ UNCHANGED <<legacy, prop, pref, early, missed, misread>>
    BY <1>6 DEF PlayEnds, WorkerStep, readVars
  <2> QED  BY <2>1, ForcesAssumption
<1> QED  BY <1>1, <1>2, <1>3, <1>4, <1>5, <1>6 DEF Worker

\* A choice of the user keeps it: a choice that the migration will overwrite is
\* one that was made early.
LEMMA ChoiceFInv == ASSUME FInv, NEW f \in Forces, setIntensity(f) PROVE FInv'
<1>1. /\ prop' = f /\ pref' = f /\ early' = (early \/ legacy # None)
      /\ recent' = IF wpc = "get" THEN {} ELSE recent \cup {f}
      /\ UNCHANGED <<wpc, force, motor, legacy, missed, misread>>
  BY DEF setIntensity, workVars, readVars
<1>2. FType' /\ PreferenceKept' /\ Migrating'
  BY <1>1 DEF FInv, FType, PreferenceKept, Migrating
<1>3. Recent'
  BY <1>1 DEF FInv, FType, Recent
<1> QED  BY <1>2, <1>3 DEF FInv

\* Every step keeps the invariant on the force.
LEMMA NextFInv == FInv /\ [Next]_vars => FInv'
<1> SUFFICES ASSUME FInv, [Next]_vars PROVE FInv'
  OBVIOUS
<1>1. CASE Main
  <2>1. UNCHANGED fvars
    BY <1>1 DEF Main, epoll_wait, Handle, HangUp, Readable, LoopOn, Accept, AcceptFails,
       EarlyData, Add, AddFails, fvars, workVars, prefVars, readVars
  <2> QED  BY <2>1, OtherFInv
<1>2. ASSUME NEW c \in Clients, Client(c) PROVE FInv'
  <2>1. UNCHANGED fvars
    BY <1>2 DEF Client, immvibe_conn_open, ClientCloses, send_internal, fvars, workVars,
       prefVars, readVars
  <2> QED  BY <2>1, OtherFInv
<1>3. CASE Start \/ UNCHANGED vars
  <2>1. UNCHANGED fvars
    BY <1>3 DEF Start, vars, fvars, workVars, prefVars, readVars
  <2> QED  BY <2>1, OtherFInv
<1> QED  BY <1>1, <1>2, <1>3, WorkerFInv, ChoiceFInv, OtherFInv DEF Next

\* The force that the user chose is not lost while api.c moves it from the legacy
\* file to the property, wherever the daemon crashes and whenever the property
\* cannot be written or the file not removed, and a vibration is played with a
\* choice of the user that was in force after the worker took the request; a
\* choice made before the migration and a legacy file that exists and cannot be
\* read are the exceptions.
THEOREM ForceAlwaysKept == Spec => []ForceKept
<1>1. FInv => ForceKept
  BY DEF FInv, FType, Recent, ForceKept, PlaysChosenForce
<1> QED  BY InitFInv, NextFInv, <1>1, PTL DEF Spec

(***************************************************************************)
(* The requests of one connection, as a formula over values: co is its     *)
(* state, fr whether nothing of it was read yet, se, i and s the requests  *)
(* sent, in the socket and handled, x whether a loss is excused.           *)
(***************************************************************************)
Requests == [kind : Kinds, n : Nat]

BooksOf(co, fr, se, i, s, x) ==
  /\ co = "none" => se = 0
  /\ fr \/ co \in {"none", "backlog"} => s = <<>>
  /\ Len(i) <= se
  /\ Len(s) <= IF co = "closed" THEN 2 ELSE 1
  /\ s # <<>> => se > 0 /\ s[1] = 1 /\ (i # <<>> => i[1].n > 1)
  /\ Len(s) = 2 => s[2] > 1
  /\ IF co = "closed" THEN i = <<>> /\ (se > 0 /\ s = <<>> => x)
     ELSE s = <<>> => IF i = <<>> THEN se = 0 ELSE i[1].n = 1

\* A step that does not touch the connection.
LEMMA BooksKeep ==
  ASSUME NEW co, NEW fr, NEW gr, NEW se, NEW i, NEW s, NEW x, NEW y,
         BooksOf(co, fr, se, i, s, x), gr => fr, x => y
  PROVE  BooksOf(co, gr, se, i, s, y)
BY DEF BooksOf

\* A connection comes up: first in the backlog, then accepted.
LEMMA BooksOpen ==
  ASSUME NEW co \in {"none", "backlog"}, NEW do \in {"backlog", "open"},
         NEW fr, NEW gr, NEW se, NEW i, NEW s, NEW x,
         BooksOf(co, fr, se, i, s, x)
  PROVE  BooksOf(do, gr, se, i, s, x)
BY DEF BooksOf

\* The client sends one more request.
LEMMA BooksSend ==
  ASSUME NEW co \in {"backlog", "open"}, NEW fr, NEW se \in Nat, NEW i \in Seq(Requests),
         NEW s, NEW x, BooksOf(co, fr, se, i, s, x),
         NEW r \in Requests, r.n = se + 1
  PROVE  BooksOf(co, fr, se + 1, Append(i, r), s, x)
<1>1. /\ Len(i) \in Nat /\ Len(Append(i, r)) = Len(i) + 1 /\ Append(i, r) # <<>>
      /\ Append(i, r)[1] = IF i = <<>> THEN r ELSE i[1]
  OBVIOUS
<1>2. Len(i) <= se /\ Len(i) + 1 <= se + 1
  BY <1>1 DEF BooksOf
<1>3. s # <<>> => se + 1 > 0 /\ s[1] = 1 /\ Append(i, r)[1].n > 1
  BY <1>1 DEF BooksOf
<1>4. s = <<>> => Append(i, r)[1].n = 1
  BY <1>1 DEF BooksOf
<1> QED  BY <1>1, <1>2, <1>3, <1>4 DEF BooksOf

\* process_client: the first of the requests in the socket is handled.
LEMMA BooksRead ==
  ASSUME NEW fr, NEW se \in Nat, NEW i \in Seq(Requests), NEW s \in Seq(Nat), NEW x,
         BooksOf("open", fr, se, i, s, x),
         NEW t, t = IF i = <<>> THEN s ELSE Append(s, Head(i).n),
         NEW do, do = "closed" \/ (do = "open" /\ (fr \/ i = <<>>)),
         do = "closed" => i # <<>> \/ x
  PROVE  BooksOf(do, FALSE, se, <<>>, t, x) /\ t \in Seq(Nat)
<1>1. Len(<<>>) = 0 /\ Len(s) \in Nat /\ Len(s) <= 1
  BY DEF BooksOf
<1>2. CASE i = <<>>
  BY <1>1, <1>2 DEF BooksOf
<1>3. CASE i # <<>>
  <2>1. Head(i) = i[1] /\ i[1] \in Requests /\ Len(i) \in Nat /\ Len(i) > 0
    BY <1>3
  <2>2. i[1].n \in Nat
    BY <2>1 DEF Requests
  <2>3. t = Append(s, i[1].n) /\ t # <<>>
    BY <1>3, <2>1, <2>2
  <2>4. se > 0
    BY <2>1 DEF BooksOf
  <2>5. CASE s = <<>>
    <3>1. i[1].n = 1
      BY <1>3, <2>5 DEF BooksOf
    <3>2. t = <<1>> /\ Len(t) = 1 /\ t[1] = 1
      BY <2>3, <2>5, <3>1
    <3> QED  BY <1>1, <1>3, <2>3, <2>4, <3>2 DEF BooksOf
  <2>6. CASE s # <<>>
    <3>1. Len(s) = 1 /\ s[1] = 1 /\ i[1].n > 1 /\ ~fr
      <4>1. Len(s) # 0
        BY <2>6
      <4>2. Len(s) = 1
        <5>1. \A n \in Nat : n <= 1 /\ n # 0 => n = 1
          OBVIOUS
        <5> QED  BY <1>1, <4>1, <5>1, Zenon
      <4> QED  BY <4>2, <1>3, <2>6 DEF BooksOf
    <3>2. Len(t) = 2 /\ t[1] = 1 /\ t[2] > 1
      <4>1. ASSUME NEW n \in Nat
            PROVE  /\ Len(Append(s, n)) = Len(s) + 1 /\ Append(s, n)[Len(s) + 1] = n
                   /\ Len(s) = 1 => Append(s, n)[1] = s[1]
        OBVIOUS
      <4> QED  BY <4>1, <2>2, <2>3, <3>1
    <3>3. do = "closed"
      BY <1>3, <3>1
    <3> QED  BY <1>1, <1>3, <2>3, <2>4, <3>2, <3>3, <2>2 DEF BooksOf
  <2> QED  BY <2>3, <2>2, <2>5, <2>6
<1> QED  BY <1>2, <1>3

\* The connection is dropped unread: the loss is excused.
LEMMA BooksDrop ==
  ASSUME NEW co, NEW fr, NEW se \in Nat, NEW i, NEW s \in Seq(Nat), NEW x,
         BooksOf(co, fr, se, i, s, x)
  PROVE  BooksOf("closed", FALSE, se, <<>>, s, TRUE)
<1>1. Len(<<>>) = 0 /\ Len(s) <= 2 /\ Len(s) \in Nat
  BY DEF BooksOf
<1> QED  BY <1>1 DEF BooksOf

(***************************************************************************)
(* The connections, the epoll set and the events.                          *)
(***************************************************************************)
RType ==
  /\ shut \in [Clients -> BOOLEAN] /\ sent \in [Clients -> Nat]
  /\ inbox \in [Clients -> Seq(Requests)] /\ served \in [Clients -> Seq(Nat)]
  /\ conn \in [Clients -> {"none", "backlog", "open", "closed"}]
  /\ pc \in {"down", "wait", "loop", "accept", "early", "add"}
  /\ broke \in BOOLEAN /\ crashes \in Nat

\* epoll knows every connection but the one that the accept loop works on.
Watch ==
  /\ watched \subseteq Open /\ ready \subseteq watched \cup {Listener}
  /\ IF pc \in {"early", "add"} THEN cur \in Open \ watched /\ Open = watched \cup {cur}
     ELSE cur = None /\ Open = watched

\* An event of the batch names a connection that is still there, at most one event
\* does, and a hang-up was seen only where the client has closed.
Events ==
  /\ \A e \in batch : /\ e.fd \in watched \cup {Listener}
                      /\ e.hup => e.fd # Listener /\ shut[e.fd]
  /\ \A e, f \in batch : e.fd = f.fd => e = f

Unread(c) == pc = "early" /\ cur = c
Excused(c) == shut[c] \/ broke \/ crashes > 0

Books(c) == BooksOf(conn[c], Unread(c), sent[c], inbox[c], served[c], Excused(c))

RInv == RType /\ Watch /\ Events /\ \A c \in Clients : Books(c)

rvars == <<shut, sent, inbox, conn, watched, ready, pc, batch, cur, broke, served, crashes>>

\* Nobody is connected at boot.
LEMMA InitRInv == Init => RInv
<1> SUFFICES ASSUME Init PROVE RInv
  OBVIOUS
<1>1. RType
  <2>1. broke \in BOOLEAN /\ shut \in [Clients -> BOOLEAN]
    BY DEF Init
  <2> QED  BY <2>1 DEF Init, RType
<1>2. Watch /\ Events
  BY DEF Init, Watch, Events, Open
<1>3. ASSUME NEW c \in Clients PROVE Books(c)
  <2>1. conn[c] = "none" /\ sent[c] = 0 /\ inbox[c] = <<>> /\ served[c] = <<>> /\ Len(<<>>) = 0
    BY DEF Init
  <2> QED  BY <2>1 DEF Books, BooksOf
<1> QED  BY <1>1, <1>2, <1>3 DEF RInv

\* A step that leaves a connection's own state alone keeps its books.
LEMMA BooksStay ==
  ASSUME RInv, NEW c \in Clients,
         conn'[c] = conn[c], sent'[c] = sent[c], inbox'[c] = inbox[c],
         served'[c] = served[c],
         pc' = "early" /\ cur' = c => pc = "early" /\ cur = c,
         shut[c] => shut'[c], broke => broke', crashes > 0 => crashes' > 0
  PROVE  Books(c)'
<1>1. BooksOf(conn[c], Unread(c), sent[c], inbox[c], served[c], Excused(c))
  BY DEF RInv, Books
<1>2. (Unread(c)' => Unread(c)) /\ (Excused(c) => Excused(c)')
  BY DEF Unread, Excused
<1>3. BooksOf(conn[c], Unread(c)', sent[c], inbox[c], served[c], Excused(c)')
  BY <1>1, <1>2, BooksKeep
<1> QED  BY <1>3 DEF Books

\* A client connects, sends or closes.
LEMMA ClientRInv == ASSUME RInv, NEW c \in Clients, Client(c) PROVE RInv'
<1>0. RType /\ Watch /\ Events /\ \A d \in Clients : Books(d)
  BY DEF RInv
<1>1. CASE immvibe_conn_open(c)
  <2>1. /\ conn[c] = "none" /\ conn' = [conn EXCEPT ![c] = "backlog"] /\ Ready(Listener)
        /\ UNCHANGED <<shut, sent, inbox, watched, pc, batch, cur, broke, served, crashes>>
    BY <1>1 DEF immvibe_conn_open, clientVars, mainVars
  <2>2. RType'
    BY <1>0, <2>1 DEF RType
  <2>3. Open' = Open
    BY <1>0, <2>1 DEF Open, RType
  <2>4. Watch' /\ Events'
    BY <1>0, <2>1, <2>3 DEF Watch, Events, Ready
  <2>5. ASSUME NEW d \in Clients PROVE Books(d)'
    <3>1. CASE d = c
      <4>1. BooksOf("none", Unread(c), sent[c], inbox[c], served[c], Excused(c))
        BY <1>0, <2>1 DEF Books
      <4>2. BooksOf("backlog", Unread(c), sent[c], inbox[c], served[c], Excused(c))
        BY <4>1, BooksOpen
      <4>3. conn'[c] = "backlog"
        BY <1>0, <2>1 DEF RType
      <4> QED  BY <3>1, <4>2, <4>3, <2>1 DEF Books, Unread, Excused
    <3>2. CASE d # c
      <4>1. conn'[d] = conn[d]
        BY <1>0, <2>1, <3>2 DEF RType
      <4> QED  BY <4>1, <2>1, BooksStay
    <3> QED  BY <3>1, <3>2
  <2> QED  BY <2>2, <2>4, <2>5 DEF RInv
<1>2. CASE ClientCloses(c)
  <2>1. /\ shut' = [shut EXCEPT ![c] = TRUE] /\ Ready(c)
        /\ UNCHANGED <<sent, inbox, conn, watched, pc, batch, cur, broke, served, crashes>>
    BY <1>2 DEF ClientCloses, mainVars
  <2>2. RType' /\ \A d \in Clients : shut[d] => shut'[d]
    BY <1>0, <2>1 DEF RType
  <2>3. Open' = Open
    BY <2>1 DEF Open
  <2>4. Watch'
    BY <1>0, <2>1, <2>3 DEF Watch, Ready
  <2>5. Events'
    BY <1>0, <2>1, <2>2 DEF Watch, Events, Open
  <2>6. ASSUME NEW d \in Clients PROVE Books(d)'
    BY <2>1, <2>2, BooksStay
  <2> QED  BY <2>2, <2>4, <2>5, <2>6 DEF RInv
<1>3. ASSUME NEW k \in Kinds, send_internal(c, k) PROVE RInv'
  <2> DEFINE r == [kind |-> k, n |-> sent[c] + 1]
  <2>1. /\ conn[c] \in {"backlog", "open"} /\ sent' = [sent EXCEPT ![c] = @ + 1]
        /\ inbox' = [inbox EXCEPT ![c] = Append(@, r)] /\ Ready(c)
        /\ UNCHANGED <<shut, conn, watched, pc, batch, cur, broke, served, crashes>>
    BY <1>3 DEF send_internal, mainVars
  <2>2. r \in Requests /\ r.n = sent[c] + 1 /\ sent[c] \in Nat /\ inbox[c] \in Seq(Requests)
    <3>1. sent[c] \in Nat /\ inbox[c] \in Seq(Requests)
      BY <1>0 DEF RType
    <3>2. r \in Requests
      BY <3>1 DEF Requests
    <3> QED  BY <3>1, <3>2
  <2> HIDE DEF r
  <2>3. RType'
    BY <1>0, <2>1, <2>2 DEF RType
  <2>4. Open' = Open
    BY <2>1 DEF Open
  <2>5. Watch' /\ Events'
    BY <1>0, <2>1, <2>4 DEF Watch, Events, Ready
  <2>6. ASSUME NEW d \in Clients PROVE Books(d)'
    <3>1. CASE d = c
      <4>1. BooksOf(conn[c], Unread(c), sent[c], inbox[c], served[c], Excused(c))
        BY <1>0 DEF Books
      <4>2. BooksOf(conn[c], Unread(c), sent[c] + 1, Append(inbox[c], r), served[c], Excused(c))
        BY <4>1, <2>1, <2>2, BooksSend
      <4>3. sent'[c] = sent[c] + 1 /\ inbox'[c] = Append(inbox[c], r)
        BY <1>0, <2>1 DEF RType
      <4> QED  BY <3>1, <4>2, <4>3, <2>1 DEF Books, Unread, Excused
    <3>2. CASE d # c
      <4>1. sent'[d] = sent[d] /\ inbox'[d] = inbox[d]
        BY <1>0, <2>1, <3>2 DEF RType
      <4> QED  BY <4>1, <2>1, BooksStay
    <3> QED  BY <3>1, <3>2
  <2> QED  BY <2>3, <2>5, <2>6 DEF RInv
<1> QED  BY <1>1, <1>2, <1>3 DEF Client

\* The rest of the loop that does not touch a connection.
LEMMA LoopRInv ==
  ASSUME RInv, epoll_wait \/ LoopOn \/ AcceptFails \/ Start
  PROVE  RInv'
<1>0. RType /\ Watch /\ Events
  BY DEF RInv
<1>1. /\ UNCHANGED <<shut, sent, inbox, conn, watched, cur, served, crashes>>
      /\ pc \notin {"early", "add"} /\ pc' \in {"wait", "loop", "accept"}
      /\ broke' \in BOOLEAN /\ (broke => broke')
  BY <1>0 DEF epoll_wait, LoopOn, AcceptFails, Start, clientVars, sockVars, mainVars, RType
<1>2. RType'
  BY <1>0, <1>1 DEF RType
<1>3. Open' = Open
  BY <1>1 DEF Open
<1>4. ready' \subseteq ready
  BY DEF epoll_wait, LoopOn, AcceptFails, Start, sockVars
<1>5. Watch'
  BY <1>0, <1>1, <1>3, <1>4 DEF Watch
<1>6. Events'
  <2>1. CASE epoll_wait
    <3>1. PICK ds \in SUBSET ready :
            batch' = {[fd |-> d, hup |-> d # Listener /\ shut[d]] : d \in ds}
      BY <2>1 DEF epoll_wait
    <3>2. ds \subseteq watched \cup {Listener}
      BY <1>0, <3>1 DEF Watch
    <3>3. ASSUME NEW e \in batch'
          PROVE  /\ e.fd \in watched \cup {Listener}
                 /\ e.hup => e.fd # Listener /\ shut[e.fd]
                 /\ e = [fd |-> e.fd, hup |-> e.fd # Listener /\ shut[e.fd]]
      <4>1. PICK d \in ds : e = [fd |-> d, hup |-> d # Listener /\ shut[d]]
        BY <3>1
      <4> QED  BY <3>2, <4>1
    <3>4. \A e, f \in batch' : e.fd = f.fd => e = f
      BY <3>3
    <3> QED  BY <1>1, <3>3, <3>4 DEF Events
  <2>2. CASE ~epoll_wait
    <3>1. batch' \subseteq batch
      BY <2>2 DEF LoopOn, AcceptFails, Start
    <3> QED  BY <1>0, <1>1, <3>1 DEF Events
  <2> QED  BY <2>1, <2>2
<1>7. ASSUME NEW c \in Clients PROVE Books(c)'
  BY <1>1, BooksStay
<1> QED  BY <1>2, <1>5, <1>6, <1>7 DEF RInv

\* close() of connection c, whose event is no longer in the batch.
LEMMA CloseRInv ==
  ASSUME RInv, NEW c \in Clients, close(c), pc' \notin {"early", "add"},
         cur' = None, pc \in {"early", "add"} => cur = c,
         UNCHANGED <<shut, sent>>, crashes' = crashes, RType',
         batch' \subseteq batch, \A e \in batch' : e.fd # c,
         broke => broke', Books(c)',
         \A d \in Clients \ {c} : inbox'[d] = inbox[d] /\ served'[d] = served[d]
  PROVE  RInv'
<1>0. RType /\ Watch /\ Events
  BY DEF RInv
<1>1. /\ conn' = [conn EXCEPT ![c] = "closed"] /\ watched' = watched \ {c}
      /\ ready' = ready \ {c}
  BY DEF close
<1>2. Open' = Open \ {c}
  BY <1>0, <1>1 DEF Open, RType
<1>3. Watch'
  <2>1. Open \ {c} = watched \ {c}
    BY <1>0 DEF Watch
  <2> QED  BY <1>0, <1>1, <1>2, <2>1, ListenerAssumption DEF Watch
<1>4. Events'
  BY <1>0, <1>1 DEF Events
<1>5. ASSUME NEW d \in Clients, d # c PROVE Books(d)'
  <2>1. conn'[d] = conn[d]
    BY <1>0, <1>1, <1>5 DEF RType
  <2> QED  BY <2>1, <1>5, BooksStay
<1> QED  BY <1>3, <1>4, <1>5 DEF RInv

\* What the books say of a connection that is dropped unread.
LEMMA DroppedBooks ==
  ASSUME RInv, NEW c \in Clients, conn'[c] = "closed", inbox'[c] = <<>>,
         UNCHANGED <<sent, served>>, Excused(c)', pc' \notin {"early", "add"}
  PROVE  Books(c)'
<1>1. BooksOf(conn[c], Unread(c), sent[c], inbox[c], served[c], Excused(c))
  BY DEF RInv, Books
<1>2. sent[c] \in Nat /\ served[c] \in Seq(Nat)
  BY DEF RInv, RType
<1>3. BooksOf("closed", FALSE, sent[c], <<>>, served[c], TRUE)
  BY <1>1, <1>2, BooksDrop
<1>4. Unread(c)' = FALSE /\ Excused(c)' = TRUE
  BY DEF Unread, Excused
<1> QED  BY <1>3, <1>4 DEF Books

\* EPOLLHUP: the client has closed its end.
LEMMA HangUpRInv == ASSUME RInv, NEW e \in batch, HangUp(e) PROVE RInv'
<1>0. RType /\ Watch /\ Events
  BY DEF RInv
<1>1. /\ pc = "loop" /\ e.hup /\ batch' = batch \ {e} /\ close(e.fd)
      /\ inbox' = [inbox EXCEPT ![e.fd] = <<>>]
      /\ UNCHANGED <<shut, sent, pc, cur, broke, served, crashes>>
  BY DEF HangUp, clientVars
<1>2. e.fd \in Clients /\ shut[e.fd]
  BY <1>0, <1>1 DEF Events, Watch, Open
<1>3. \A f \in batch' : f.fd # e.fd
  BY <1>0, <1>1 DEF Events
<1>4. RType'
  BY <1>0, <1>1, <1>2 DEF RType, close
<1>5. /\ conn'[e.fd] = "closed" /\ inbox'[e.fd] = <<>>
      /\ \A d \in Clients \ {e.fd} : inbox'[d] = inbox[d]
  BY <1>0, <1>1, <1>2 DEF RType, close
<1>6. Books(e.fd)'
  <2>1. ASSUME NEW c \in Clients, c = e.fd PROVE Books(c)'
    BY <1>1, <1>2, <1>5, <2>1, DroppedBooks DEF Excused
  <2> QED  BY <1>2, <2>1
<1> QED  BY <1>0, <1>1, <1>2, <1>3, <1>4, <1>5, <1>6, CloseRInv DEF Watch

\* epoll_ctl fails.
LEMMA AddFailsRInv == ASSUME RInv, AddFails PROVE RInv'
<1>0. RType /\ Watch /\ Events
  BY DEF RInv
<1>1. /\ pc = "add" /\ pc' = "loop" /\ cur' = None /\ batch' = batch /\ close(cur)
      /\ inbox' = [inbox EXCEPT ![cur] = <<>>] /\ broke' = TRUE
      /\ UNCHANGED <<shut, sent, served, crashes>>
  BY DEF AddFails, clientVars
<1>2. cur \in Clients /\ cur \notin watched
  BY <1>0, <1>1 DEF Watch, Open
<1>3. \A f \in batch' : f.fd # cur
  BY <1>0, <1>1, <1>2, ListenerAssumption DEF Events
<1>4. RType'
  BY <1>0, <1>1, <1>2 DEF RType, close
<1>5. /\ conn'[cur] = "closed" /\ inbox'[cur] = <<>>
      /\ \A d \in Clients \ {cur} : inbox'[d] = inbox[d]
  BY <1>0, <1>1, <1>2 DEF RType, close
<1>6. ASSUME NEW c \in Clients, c = cur PROVE RInv'
  <2>1. Books(c)'
    BY <1>1, <1>5, <1>6, DroppedBooks DEF Excused
  <2> QED  BY <1>1, <1>3, <1>4, <1>5, <1>6, <2>1, CloseRInv
<1> QED  BY <1>2, <1>6

\* The daemon dies and with it every connection.
LEMMA CrashRInv == ASSUME RInv, Crash PROVE RInv'
<1>0. RType
  BY DEF RInv
<1>1. /\ crashes' = crashes + 1 /\ watched' = {} /\ ready' = {} /\ batch' = {}
      /\ conn' = [c \in Clients |-> IF conn[c] = "none" THEN "none" ELSE "closed"]
      /\ inbox' = [c \in Clients |-> <<>>] /\ cur' = None /\ pc' = "down"
      /\ UNCHANGED <<shut, sent, broke, served>>
  BY DEF Crash, clientVars
<1>2. RType' /\ crashes' > 0
  BY <1>0, <1>1 DEF RType
<1>3. Watch' /\ Events'
  BY <1>1 DEF Watch, Events, Open
<1>4. ASSUME NEW c \in Clients PROVE Books(c)'
  <2>1. inbox'[c] = <<>>
    BY <1>1
  <2>2. CASE conn[c] # "none"
    <3>1. conn'[c] = "closed"
      BY <1>1, <2>2
    <3> QED  BY <1>1, <1>2, <2>1, <3>1, DroppedBooks DEF Excused
  <2>3. CASE conn[c] = "none"
    <3>1. BooksOf("none", Unread(c), sent[c], inbox[c], served[c], Excused(c))
      BY <2>3 DEF RInv, Books
    <3>2. sent[c] \in Nat /\ served[c] \in Seq(Nat) /\ inbox[c] \in Seq(Requests)
      BY <1>0 DEF RType
    <3>3. sent[c] = 0 /\ served[c] = <<>> /\ Len(<<>>) = 0
      BY <3>1 DEF BooksOf
    <3>4. conn'[c] = "none"
      BY <1>1, <2>3
    <3> QED  BY <1>1, <2>1, <3>3, <3>4 DEF Books, BooksOf
  <2> QED  BY <2>2, <2>3
<1> QED  BY <1>2, <1>3, <1>4 DEF RInv

\* What process_client does to the books of the connection it reads.
LEMMA ReadBooks ==
  ASSUME RInv, NEW c \in Clients, conn[c] = "open", process_client(c),
         UNCHANGED <<sent, shut, broke, crashes>>,
         \/ conn'[c] = "closed" /\ (inbox[c] # <<>> \/ shut[c])
         \/ conn'[c] = "open" /\ (Unread(c) \/ inbox[c] = <<>>),
         ~Unread(c)'
  PROVE  /\ Books(c)' /\ inbox' \in [Clients -> Seq(Requests)]
         /\ served' \in [Clients -> Seq(Nat)]
         /\ \A d \in Clients \ {c} : inbox'[d] = inbox[d] /\ served'[d] = served[d]
<1> DEFINE t == IF inbox[c] = <<>> THEN served[c] ELSE Append(served[c], Head(inbox[c]).n)
<1>0. RType
  BY DEF RInv
<1>1. inbox' = [inbox EXCEPT ![c] = <<>>]
  BY DEF process_client
<1>2. /\ inbox'[c] = <<>> /\ inbox' \in [Clients -> Seq(Requests)]
      /\ \A d \in Clients \ {c} : inbox'[d] = inbox[d]
  BY <1>0, <1>1 DEF RType
<1>3. /\ served'[c] = t
      /\ served' = [served EXCEPT ![c] = t]
      /\ \A d \in Clients \ {c} : served'[d] = served[d]
  <2>1. CASE inbox[c] = <<>>
    BY <2>1, <1>0 DEF process_client, RType
  <2>2. CASE inbox[c] # <<>>
    <3>1. served' = [served EXCEPT ![c] = Append(@, Head(inbox[c]).n)]
      BY <2>2 DEF process_client, process_buf
    <3> QED  BY <2>2, <3>1, <1>0 DEF RType
  <2> QED  BY <2>1, <2>2
<1> HIDE DEF t
<1>4. BooksOf("open", Unread(c), sent[c], inbox[c], served[c], Excused(c))
  BY DEF RInv, Books
<1>5. sent[c] \in Nat /\ inbox[c] \in Seq(Requests) /\ served[c] \in Seq(Nat)
  BY <1>0 DEF RType
<1>6. conn'[c] = "closed" => inbox[c] # <<>> \/ Excused(c)
  BY DEF Excused
<1>7. BooksOf(conn'[c], Unread(c)', sent[c], <<>>, t, Excused(c)) /\ t \in Seq(Nat)
  <2>1. t = IF inbox[c] = <<>> THEN served[c] ELSE Append(served[c], Head(inbox[c]).n)
    BY DEF t
  <2>2. BooksOf(conn'[c], FALSE, sent[c], <<>>, t, Excused(c)) /\ t \in Seq(Nat)
    BY <1>4, <1>5, <1>6, <2>1, BooksRead
  <2>3. Unread(c)' = FALSE
    BY DEF Unread
  <2> QED  BY <2>2, <2>3
<1>8. Excused(c)' = Excused(c) /\ sent'[c] = sent[c]
  BY DEF Excused
<1>9. Books(c)'
  BY <1>2, <1>3, <1>7, <1>8 DEF Books
<1>10. served' \in [Clients -> Seq(Nat)]
  BY <1>0, <1>3, <1>7 DEF RType
<1> QED  BY <1>2, <1>3, <1>9, <1>10

\* A readable connection: one request is handled and the connection closed.
LEMMA ReadableRInv == ASSUME RInv, NEW e \in batch, Readable(e) PROVE RInv'
<1>0. RType /\ Watch /\ Events
  BY DEF RInv
<1>1. /\ pc = "loop" /\ e.fd # Listener /\ batch' = batch \ {e} /\ process_client(e.fd)
      /\ UNCHANGED <<shut, sent, pc, cur, broke, crashes>>
  BY DEF Readable, clientVars
<1>2. e.fd \in Clients /\ conn[e.fd] = "open" /\ e.fd \in watched
  BY <1>0, <1>1 DEF Events, Watch, Open
<1>3. \A f \in batch' : f.fd # e.fd
  BY <1>0, <1>1 DEF Events
<1>4. ASSUME NEW c \in Clients, c = e.fd PROVE ~Unread(c)'
  BY <1>1 DEF Unread
<1>5. ASSUME NEW c \in Clients, c = e.fd, inbox[c] # <<>> \/ shut[c] PROVE RInv'
  <2>1. close(c)
    BY <1>5 DEF Readable
  <2>2. conn'[c] = "closed" /\ conn' \in [Clients -> {"none", "backlog", "open", "closed"}]
    BY <1>0, <2>1 DEF close, RType
  <2>3. /\ Books(c)' /\ inbox' \in [Clients -> Seq(Requests)]
        /\ served' \in [Clients -> Seq(Nat)]
        /\ \A d \in Clients \ {c} : inbox'[d] = inbox[d] /\ served'[d] = served[d]
    BY <1>1, <1>2, <1>4, <1>5, <2>2, ReadBooks
  <2>4. RType'
    BY <1>0, <1>1, <2>2, <2>3 DEF RType
  <2> QED  BY <1>0, <1>1, <1>3, <1>5, <2>1, <2>3, <2>4, CloseRInv DEF Watch
<1>6. ASSUME NEW c \in Clients, c = e.fd, ~(inbox[c] # <<>> \/ shut[c]) PROVE RInv'
  <2>1. UNCHANGED <<conn, watched, ready>>
    BY <1>6 DEF Readable
  <2>3. /\ Books(c)' /\ inbox' \in [Clients -> Seq(Requests)]
        /\ served' \in [Clients -> Seq(Nat)]
        /\ \A d \in Clients \ {c} : inbox'[d] = inbox[d] /\ served'[d] = served[d]
    BY <1>1, <1>2, <1>4, <1>6, <2>1, ReadBooks
  <2>4. RType'
    BY <1>0, <1>1, <2>1, <2>3 DEF RType
  <2>5. Open' = Open
    BY <2>1 DEF Open
  <2>6. Watch' /\ Events'
    BY <1>0, <1>1, <2>1, <2>5 DEF Watch, Events
  <2>7. ASSUME NEW d \in Clients, d # c PROVE Books(d)'
    BY <1>1, <2>1, <2>3, <2>7, BooksStay
  <2> QED  BY <2>3, <2>4, <2>6, <2>7 DEF RInv
<1> QED  BY <1>2, <1>5, <1>6

\* accept(), the read before EPOLL_CTL_ADD, and EPOLL_CTL_ADD.
LEMMA AcceptRInv == ASSUME RInv, Accept \/ EarlyData \/ Add PROVE RInv'
<1>0. RType /\ Watch /\ Events /\ \A d \in Clients : Books(d)
  BY DEF RInv
<1>1. CASE Accept
  <2>1. PICK c \in Clients : /\ conn[c] = "backlog"
                             /\ conn' = [conn EXCEPT ![c] = "open"] /\ cur' = c
    BY <1>1 DEF Accept
  <2>2. /\ pc = "accept" /\ pc' = "early"
        /\ UNCHANGED <<shut, sent, inbox, watched, ready, batch, broke, served, crashes>>
    BY <1>1 DEF Accept, clientVars
  <2>3. RType'
    BY <1>0, <2>1, <2>2 DEF RType
  <2>4. Open' = Open \cup {c} /\ c \notin Open
    BY <1>0, <2>1 DEF Open, RType
  <2>5. Watch' /\ Events'
    BY <1>0, <2>1, <2>2, <2>4 DEF Watch, Events
  <2>6. ASSUME NEW d \in Clients PROVE Books(d)'
    <3>1. CASE d = c
      <4>1. BooksOf("backlog", Unread(c), sent[c], inbox[c], served[c], Excused(c))
        BY <1>0, <2>1 DEF Books
      <4>2. BooksOf("open", Unread(c)', sent[c], inbox[c], served[c], Excused(c))
        BY <4>1, BooksOpen
      <4>3. conn'[c] = "open" /\ Excused(c)' = Excused(c)
        BY <1>0, <2>1, <2>2 DEF RType, Excused
      <4> QED  BY <3>1, <4>2, <4>3, <2>2 DEF Books
    <3>2. CASE d # c
      <4>1. conn'[d] = conn[d] /\ cur' # d
        BY <1>0, <2>1, <3>2 DEF RType
      <4> QED  BY <4>1, <2>2, BooksStay
    <3> QED  BY <3>1, <3>2
  <2> QED  BY <2>3, <2>5, <2>6 DEF RInv
<1>2. CASE EarlyData
  <2>1. /\ pc = "early" /\ pc' = "add" /\ process_client(cur)
        /\ UNCHANGED <<shut, sent, conn, watched, ready, batch, cur, broke, crashes>>
    BY <1>2 DEF EarlyData, clientVars
  <2>2. cur \in Clients /\ conn[cur] = "open"
    BY <1>0, <2>1 DEF Watch, Open
  <2>3. ASSUME NEW c \in Clients, c = cur
        PROVE  /\ Books(c)' /\ inbox' \in [Clients -> Seq(Requests)]
               /\ served' \in [Clients -> Seq(Nat)]
               /\ \A d \in Clients \ {c} : inbox'[d] = inbox[d] /\ served'[d] = served[d]
    <3>1. Unread(c) /\ ~Unread(c)' /\ conn'[c] = "open" /\ conn[c] = "open"
      BY <2>1, <2>2, <2>3 DEF Unread
    <3> QED  BY <2>1, <2>3, <3>1, ReadBooks
  <2>4. PICK c \in Clients : c = cur
    BY <2>2
  <2>5. RType'
    BY <1>0, <2>1, <2>3, <2>4 DEF RType
  <2>6. Open' = Open
    BY <2>1 DEF Open
  <2>7. Watch' /\ Events'
    BY <1>0, <2>1, <2>6 DEF Watch, Events
  <2>8. ASSUME NEW d \in Clients, d # c PROVE Books(d)'
    BY <2>1, <2>3, <2>4, <2>8, BooksStay
  <2> QED  BY <2>3, <2>4, <2>5, <2>7, <2>8 DEF RInv
<1>3. CASE Add
  <2>1. /\ pc = "add" /\ pc' = "accept" /\ cur' = None /\ watched' = watched \cup {cur}
        /\ ready' \in {ready, ready \cup {cur}}
        /\ UNCHANGED <<shut, sent, inbox, conn, batch, broke, served, crashes>>
    BY <1>3 DEF Add, clientVars
  <2>2. RType'
    BY <1>0, <2>1 DEF RType
  <2>3. Open' = Open
    BY <2>1 DEF Open
  <2>4. Watch' /\ Events'
    BY <1>0, <2>1, <2>3 DEF Watch, Events
  <2>5. ASSUME NEW d \in Clients PROVE Books(d)'
    BY <2>1, BooksStay
  <2> QED  BY <2>2, <2>4, <2>5 DEF RInv
<1> QED  BY <1>1, <1>2, <1>3

\* Every step keeps the invariant on the requests.
LEMMA NextRInv == RInv /\ [Next]_vars => RInv'
<1> SUFFICES ASSUME RInv, [Next]_vars PROVE RInv'
  OBVIOUS
<1>1. ASSUME UNCHANGED rvars PROVE RInv'
  <2>1. UNCHANGED <<shut, sent, inbox, conn, watched, ready, pc, batch, cur, broke, served,
                    crashes>>
    BY <1>1 DEF rvars
  <2>2. Open' = Open
    BY <2>1 DEF Open
  <2>3. RType' /\ Watch' /\ Events'
    BY <2>1, <2>2 DEF RInv, RType, Watch, Events
  <2>4. ASSUME NEW d \in Clients PROVE Books(d)'
    BY <2>1, BooksStay
  <2> QED  BY <2>3, <2>4 DEF RInv
<1>2. CASE Worker
  <2>1. UNCHANGED rvars
    BY <1>2 DEF Worker, Get, Access, Migrate, Unlink, Play, PlayEnds, WorkerStep, clientVars,
       sockVars, mainVars, rvars
  <2> QED  BY <2>1, <1>1
<1>3. ASSUME NEW f \in Forces, setIntensity(f) PROVE RInv'
  <2>1. UNCHANGED rvars
    BY <1>3 DEF setIntensity, clientVars, sockVars, mainVars, rvars
  <2> QED  BY <2>1, <1>1
<1>4. CASE UNCHANGED vars
  <2>1. UNCHANGED rvars
    BY <1>4 DEF vars, clientVars, sockVars, mainVars, rvars
  <2> QED  BY <2>1, <1>1
<1>5. CASE Main
  <2>1. CASE Handle
    BY <2>1, HangUpRInv, ReadableRInv DEF Handle
  <2>2. CASE epoll_wait \/ LoopOn \/ AcceptFails
    BY <2>2, LoopRInv
  <2>3. CASE Accept \/ EarlyData \/ Add
    BY <2>3, AcceptRInv
  <2> QED  BY <1>5, <2>1, <2>2, <2>3, AddFailsRInv DEF Main
<1>6. CASE Start \/ Crash
  BY <1>6, LoopRInv, CrashRInv
<1> QED  BY <1>2, <1>3, <1>4, <1>5, <1>6, ClientRInv DEF Next

\* The daemon handles the requests of a connection in the order in which they were
\* sent and never more than two of them, and it loses a first request only with a
\* client that closed too soon, an accept loop that failed or a crash, however
\* many clients there are and whenever their data come relative to accept() and
\* EPOLL_CTL_ADD.
THEOREM RequestsAlwaysKept == Spec => []RequestsKept
<1>1. RInv /\ FInv => RequestsKept
  <2> SUFFICES ASSUME RInv, FInv PROVE RequestsKept
    OBVIOUS
  <2>0. RType /\ Watch /\ Events /\ FType
    BY DEF RInv, FInv
  <2>1. ASSUME NEW c \in Clients
        PROVE  /\ Len(inbox[c]) <= sent[c] /\ Len(served[c]) <= 2
               /\ served[c] # <<>> => served[c][1] = 1
               /\ Len(served[c]) = 2 => served[c][2] > 1
               /\ sent[c] > 0 /\ served[c] = <<>> /\ inbox[c] = <<>> => Excused(c)
    <3>1. BooksOf(conn[c], Unread(c), sent[c], inbox[c], served[c], Excused(c))
      BY DEF RInv, Books
    <3>2. sent[c] \in Nat /\ Len(served[c]) \in Nat
      BY <2>0 DEF RType
    <3> QED  BY <3>1, <3>2 DEF BooksOf
  <2>2. TypeOK
    BY <2>0, <2>1 DEF RType, Watch, Events, FType, TypeOK
  <2>3. HandledInOrder /\ FirstRequestKept
    BY <2>1 DEF HandledInOrder, FirstRequestKept, Excused
  <2> QED  BY <2>2, <2>3 DEF RequestsKept
<1> QED  BY InitRInv, NextRInv, InitFInv, NextFInv, <1>1, PTL DEF Spec
=============================================================================
