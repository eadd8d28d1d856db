-------------------------- MODULE ThreadQueueProofs --------------------------
(***************************************************************************)
(* TLAPS proofs about ThreadQueue, for any set of consumers, any pool size *)
(* and any bounds.                                                         *)
(***************************************************************************)
EXTENDS ThreadQueue, TLAPS

\* Nobody is inside thread_queue_get once the queue was cleaned up.
Quiescent == ~alive => \A c \in Consumers : pc[c] = "idle"

IInv == TypeOK /\ Quiescent /\ NoLostWakeup /\ NodesAccounted /\ PoolBounded

\* The initial queue satisfies the inductive invariant.
LEMMA InitIInv == Init => IInv
BY BoundsAssumption DEF Init, IInv, TypeOK, Quiescent, NoLostWakeup,
     NodesAccounted, PoolBounded

\* The rest of a list of nodes without its first one.
LEMMA TailOfList ==
  ASSUME NEW S, NEW s \in Seq(S), s # <<>>
  PROVE  /\ Tail(s) \in Seq(S) /\ Len(s) \in Nat /\ Len(s) > 0
         /\ Len(Tail(s)) = Len(s) - 1
OBVIOUS

\* A list is empty when its length is zero.
LEMMA EmptyList == ASSUME NEW S, NEW s \in Seq(S), s = <<>> PROVE Len(s) = 0
OBVIOUS

\* What get_msglist does to the pool and to the number of nodes: with the
\* caller's node added to the queue's, the nodes stay accounted for.
LEMMA GetMsglist ==
  ASSUME IInv, alive, get_msglist
  PROVE  /\ msgpool' \in Seq(Data \cup {NULL})
         /\ msgpool_length' \in Nat /\ nodes' \in Nat
         /\ msgpool_length' = Len(msgpool')
         /\ nodes' = length + 1 + msgpool_length'
         /\ msgpool_length' <= msgpool_length
<1>1. CASE msgpool # <<>>
  <2>1. /\ msgpool' = Tail(msgpool) /\ msgpool_length' = msgpool_length - 1
        /\ nodes' = nodes
    BY <1>1 DEF get_msglist
  <2> QED  BY <2>1, <1>1, TailOfList DEF IInv, TypeOK, NodesAccounted
<1>2. CASE msgpool = <<>>
  <2>1. nodes' = nodes + 1 /\ msgpool' = msgpool /\ msgpool_length' = msgpool_length
    BY <1>2 DEF get_msglist
  <2> QED  BY <2>1 DEF IInv, TypeOK, NodesAccounted
<1> QED  BY <1>1, <1>2

\* release_msglist with the queue one shorter: the limit of PoolBounded moves
\* down by at most one node, and one node is what it trims.
LEMMA ReleaseMsglist ==
  ASSUME IInv, alive, NEW len \in Nat, length = len + 1, NEW d,
         release_msglist(d, len)
  PROVE  /\ msgpool' \in Seq(Data \cup {NULL})
         /\ msgpool_length' \in Nat /\ nodes' \in Nat
         /\ msgpool_length' = Len(msgpool')
         /\ nodes' = len + msgpool_length'
         /\ msgpool_length' <= (len \div 4) + MSGPOOL_SIZE * 10
<1> DEFINE p == Pooled(d, len)
           M == MSGPOOL_SIZE
           trim == p.n > (len \div 4) + M * 10
<1>0. /\ M \in Nat /\ msgpool \in Seq(Data \cup {NULL}) /\ msgpool_length \in Nat
      /\ nodes \in Nat /\ msgpool_length = Len(msgpool)
      /\ nodes = len + 1 + msgpool_length
      /\ msgpool_length <= ((len + 1) \div 4) + M * 10
  BY BoundsAssumption DEF IInv, TypeOK, NodesAccounted, PoolBounded
<1>1. /\ p.pool \in Seq(Data \cup {NULL}) /\ p.n \in Nat /\ p.nodes \in Nat
      /\ p.n = Len(p.pool) /\ p.nodes = len + p.n
  <2>1. CASE msgpool_length > (len \div 8) + M
    BY <1>0, <2>1 DEF Pooled
  <2>2. CASE ~(msgpool_length > (len \div 8) + M)
    <3>1. p = [pool |-> <<NULL>> \o msgpool, n |-> msgpool_length + 1, nodes |-> nodes]
      BY <2>2 DEF Pooled
    <3>2. /\ <<NULL>> \o msgpool \in Seq(Data \cup {NULL})
          /\ Len(<<NULL>> \o msgpool) = msgpool_length + 1
      BY <1>0
    <3> QED  BY <3>1, <3>2, <1>0
  <2> QED  BY <2>1, <2>2
<1>2. /\ len \div 4 \in Nat /\ len \div 8 \in Nat
      /\ len \div 8 <= len \div 4
      /\ (len + 1) \div 4 <= (len \div 4) + 1
  OBVIOUS
<1>3. p.n <= (len \div 4) + M * 10 + 1
  <2>1. CASE msgpool_length > (len \div 8) + M
    <3>1. p.n = msgpool_length
      BY <2>1 DEF Pooled
    <3> QED  BY <3>1, <1>0, <1>2
  <2>2. CASE ~(msgpool_length > (len \div 8) + M)
    <3>1. p.n = msgpool_length + 1
      BY <2>2 DEF Pooled
    <3> QED  BY <3>1, <2>2, <1>0, <1>2
  <2> QED  BY <2>1, <2>2
<1>4. /\ msgpool' = IF trim THEN Tail(p.pool) ELSE p.pool
      /\ msgpool_length' = IF trim THEN p.n - 1 ELSE p.n
      /\ nodes' = IF trim THEN p.nodes - 1 ELSE p.nodes
  BY DEF release_msglist
<1> HIDE DEF p
<1>5. CASE trim
  <2>1. p.n > 0
    BY <1>0, <1>1, <1>2, <1>5
  <2>2. p.pool # <<>>
    BY <2>1, <1>1
  <2>3. msgpool' = Tail(p.pool) /\ msgpool_length' = p.n - 1 /\ nodes' = p.nodes - 1
    BY <1>4, <1>5
  <2>4. msgpool' \in Seq(Data \cup {NULL}) /\ Len(msgpool') = Len(p.pool) - 1
    BY <2>2, <2>3, <1>1, TailOfList
  <2> QED  BY <2>1, <2>3, <2>4, <1>0, <1>1, <1>2, <1>3
<1>6. CASE ~trim
  BY <1>0, <1>1, <1>2, <1>4, <1>6
<1> QED  BY <1>5, <1>6

\* Taking a message preserves the invariant.
LEMMA TakeIInv == ASSUME IInv, alive, NEW c \in Consumers, Take(c) PROVE IInv'
<1> DEFINE len == IF Tail(queue) = <<>> THEN 0 ELSE length - 1
<1>1. /\ queue # <<>> /\ queue' = Tail(queue) /\ length' = len
      /\ got' = Append(got, Head(queue))
      /\ release_msglist(Head(queue), len)
      /\ pc' = [pc EXCEPT ![c] = "idle"]
      /\ UNCHANGED <<alive, sent, freed>>
  BY DEF Take
<1>2. /\ len \in Nat /\ length = len + 1 /\ len = Len(Tail(queue))
      /\ Tail(queue) \in Seq(Data) /\ Head(queue) \in Data
  <2>1. queue \in Seq(Data) /\ queue # <<>> /\ length = Len(queue)
    BY <1>1 DEF IInv, TypeOK, NodesAccounted
  <2>2. /\ Tail(queue) \in Seq(Data) /\ Len(queue) \in Nat /\ Len(queue) > 0
        /\ Len(Tail(queue)) = Len(queue) - 1 /\ Head(queue) \in Data
    BY <2>1, TailOfList
  <2>3. CASE Tail(queue) = <<>>
    <3>1. len = 0
      BY <2>3
    <3>2. Len(Tail(queue)) = 0
      BY <2>2, <2>3, EmptyList
    <3> HIDE DEF len
    <3> QED  BY <3>1, <3>2, <2>1, <2>2
  <2>4. CASE Tail(queue) # <<>>
    BY <2>1, <2>2, <2>4
  <2> QED  BY <2>3, <2>4
<1> HIDE DEF len
<1>3. /\ msgpool' \in Seq(Data \cup {NULL})
      /\ msgpool_length' \in Nat /\ nodes' \in Nat
      /\ msgpool_length' = Len(msgpool')
      /\ nodes' = len + msgpool_length'
      /\ msgpool_length' <= (len \div 4) + MSGPOOL_SIZE * 10
  BY <1>1, <1>2, ReleaseMsglist
<1>4. TypeOK'
  BY <1>1, <1>2, <1>3 DEF IInv, TypeOK
<1>5. NoLostWakeup'
  BY <1>1 DEF IInv, TypeOK, NoLostWakeup
<1>6. NodesAccounted' /\ PoolBounded' /\ Quiescent'
  BY <1>1, <1>2, <1>3 DEF NodesAccounted, PoolBounded, Quiescent
<1> QED  BY <1>4, <1>5, <1>6 DEF IInv

\* Going to sleep preserves the invariant: it happens on an empty queue only.
LEMMA SleepIInv == ASSUME IInv, alive, NEW c \in Consumers, Sleep(c) PROVE IInv'
BY DEF Sleep, IInv, TypeOK, Quiescent, NoLostWakeup, NodesAccounted, PoolBounded

\* Every step preserves the inductive invariant.
LEMMA NextIInv == IInv /\ [Next]_vars => IInv'
<1> SUFFICES ASSUME IInv, [Next]_vars PROVE IInv'
  OBVIOUS
<1>1. CASE thread_queue_init
  BY <1>1, BoundsAssumption DEF thread_queue_init, IInv, TypeOK, Quiescent, NoLostWakeup,
     NodesAccounted, PoolBounded
<1>2. ASSUME NEW d \in Data, thread_queue_add(d) PROVE IInv'
  <2>1. /\ alive /\ get_msglist /\ queue' = Append(queue, d)
        /\ pc' = IF length = 0 THEN Broadcast ELSE pc
        /\ length' = length + 1 /\ sent' = Append(sent, d)
        /\ UNCHANGED <<alive, got, freed>>
    BY <1>2 DEF thread_queue_add
  <2>2. /\ msgpool' \in Seq(Data \cup {NULL})
        /\ msgpool_length' \in Nat /\ nodes' \in Nat
        /\ msgpool_length' = Len(msgpool')
        /\ nodes' = length + 1 + msgpool_length'
        /\ msgpool_length' <= msgpool_length
    BY <2>1, GetMsglist
  <2>3. pc' \in [Consumers -> {"idle", "waiting", "woken", "timedout"}]
    BY <2>1 DEF IInv, TypeOK, Broadcast
  <2>4. TypeOK'
    BY <2>1, <2>2, <2>3, <1>2 DEF IInv, TypeOK
  <2>5. NoLostWakeup'
    <3>1. CASE length = 0
      BY <3>1, <2>1 DEF IInv, TypeOK, Broadcast, NoLostWakeup
    <3>2. CASE length # 0
      BY <3>2, <2>1 DEF IInv, TypeOK, NodesAccounted, NoLostWakeup
    <3> QED  BY <3>1, <3>2
  <2>6. NodesAccounted' /\ Quiescent'
    BY <2>1, <2>2 DEF IInv, TypeOK, NodesAccounted, Quiescent
  <2>7. PoolBounded'
    <3>1. (length \div 4) <= ((length + 1) \div 4) /\ length \div 4 \in Nat
          /\ (length + 1) \div 4 \in Nat
      BY DEF IInv, TypeOK
    <3> QED  BY <3>1, <2>1, <2>2, BoundsAssumption DEF IInv, TypeOK, PoolBounded
  <2> QED  BY <2>4, <2>5, <2>6, <2>7 DEF IInv
<1>3. ASSUME NEW c \in Consumers, thread_queue_get(c) \/ Resume(c) PROVE IInv'
  <2>1. alive /\ (Take(c) \/ Sleep(c))
    BY <1>3 DEF thread_queue_get, Resume, IInv, Quiescent
  <2> QED  BY <2>1, TakeIInv, SleepIInv
<1>4. ASSUME NEW c \in Consumers,
             SpuriousWakeup(c) \/ Timeout(c) \/ ReturnTimedOut(c) PROVE IInv'
  BY <1>4 DEF SpuriousWakeup, Timeout, ReturnTimedOut, IInv, TypeOK, Quiescent,
     NoLostWakeup, NodesAccounted, PoolBounded
<1>5. ASSUME NEW freedata \in BOOLEAN, thread_queue_cleanup(freedata) PROVE IInv'
  <2>0. alive' = FALSE /\ \A c \in Consumers : pc[c] = "idle"
    BY <1>5 DEF thread_queue_cleanup
  <2>1. /\ nodes' = 0 /\ sent' = got
        /\ UNCHANGED <<queue, length, msgpool, msgpool_length, pc, got>>
    BY <1>5 DEF thread_queue_cleanup, IInv, TypeOK, NodesAccounted
  <2>2. freed' \subseteq Data
    <3>1. Range(queue) \subseteq Data
      BY DEF IInv, TypeOK, Range
    <3>2. Range(msgpool) \subseteq Data \cup {NULL}
      BY DEF IInv, TypeOK, Range
    <3>3. freed \subseteq Data
      BY DEF IInv, TypeOK
    <3>4. \/ freed' = freed
          \/ freed' = freed \cup ((Range(queue) \cup Range(msgpool)) \ {NULL})
      BY <1>5 DEF thread_queue_cleanup
    <3> QED  BY <3>1, <3>2, <3>3, <3>4
  <2>3. alive' \in BOOLEAN
    BY <2>0
  <2>4. TypeOK'
    BY <2>1, <2>2, <2>3 DEF IInv, TypeOK
  <2>5. PoolBounded'
    BY <2>1 DEF IInv, PoolBounded
  <2>6. Quiescent' /\ NoLostWakeup'
    BY <2>0, <2>1 DEF Quiescent, NoLostWakeup
  <2>7. NodesAccounted'
    BY <2>0, <2>1 DEF NodesAccounted
  <2> QED  BY <2>4, <2>5, <2>6, <2>7 DEF IInv
<1>6. CASE UNCHANGED vars
  BY <1>6 DEF vars, IInv, TypeOK, Quiescent, NoLostWakeup, NodesAccounted, PoolBounded
<1> QED  BY <1>1, <1>2, <1>3, <1>4, <1>5, <1>6 DEF Next

\* The queue of threadqueue.c keeps its variables in their types.
THEOREM TypeCorrect == Spec => []TypeOK
<1>1. IInv => TypeOK
  BY DEF IInv
<1> QED  BY InitIInv, NextIInv, <1>1, PTL DEF Spec

\* No caller of thread_queue_get sleeps on the condition while a message is
\* queued, although thread_queue_add broadcasts for the first message only.
THEOREM WakeupNeverLost == Spec => []NoLostWakeup
<1>1. IInv => NoLostWakeup
  BY DEF IInv
<1> QED  BY InitIInv, NextIInv, <1>1, PTL DEF Spec

\* queue->length and queue->msgpool_length agree with the lists, and no node
\* is leaked or on both lists.
THEOREM NodesAlwaysAccounted == Spec => []NodesAccounted
<1>1. IInv => NodesAccounted
  BY DEF IInv
<1> QED  BY InitIInv, NextIInv, <1>1, PTL DEF Spec

\* The pool stays within release_msglist's own limit.
THEOREM PoolStaysBounded == Spec => []PoolBounded
<1>1. IInv => PoolBounded
  BY DEF IInv
<1> QED  BY InitIInv, NextIInv, <1>1, PTL DEF Spec

\* The counters, the lists and the pool's limit together: what thread_queue_get
\* and thread_queue_add leave behind is in order for any number of consumers,
\* any pool size and any sequence of timeouts, failures and re-initialisations.
THEOREM BooksAlwaysBalance == Spec => []BooksBalance
<1>1. IInv => BooksBalance
  BY DEF IInv, BooksBalance
<1> QED  BY InitIInv, NextIInv, <1>1, PTL DEF Spec

(***************************************************************************)
(* The contents of the queue: order, and who owns a pointer.               *)
(***************************************************************************)

\* What was added is what was handed out followed by what is queued.
InOrder == IF alive THEN sent = got \o queue ELSE sent = got

\* A pointer is in the queue or with its receiver once, never freed as well, and
\* no pooled node keeps the pointer of a message it once carried.
Owned == /\ \A i, j \in 1..Len(sent) : sent[i] = sent[j] => i = j
         /\ freed \cap Range(sent) = {}
         /\ msgpool \in Seq({NULL})

OInv == IInv /\ InOrder /\ Owned

\* The initial queue satisfies the invariant on the contents.
LEMMA InitOInv == Init => OInv
BY InitIInv DEF Init, OInv, InOrder, Owned, Range

\* Handing out the first of the queued messages leaves the history in order.
LEMMA MoveHead ==
  ASSUME NEW S, NEW g \in Seq(S), NEW q \in Seq(S), q # <<>>
  PROVE  /\ Append(g, Head(q)) \o Tail(q) = g \o q
         /\ Len(g) < Len(g \o q)
         /\ (g \o q)[Len(g) + 1] = Head(q)
<1>1. /\ Head(q) \in S /\ Tail(q) \in Seq(S) /\ q = <<Head(q)>> \o Tail(q)
      /\ Len(q) \in Nat /\ Len(q) > 0 /\ Head(q) = q[1]
  OBVIOUS
<1>2. Append(g, Head(q)) = g \o <<Head(q)>>
  BY <1>1
<1>3. (g \o <<Head(q)>>) \o Tail(q) = g \o (<<Head(q)>> \o Tail(q))
  BY <1>1
<1>4. Len(g) < Len(g \o q) /\ (g \o q)[Len(g) + 1] = q[1]
  BY <1>1
<1> QED  BY <1>1, <1>2, <1>3, <1>4

\* Appending a new element keeps the elements of a list distinct.
LEMMA AppendDistinct ==
  ASSUME NEW S, NEW s \in Seq(S), NEW d \in S, d \notin Range(s),
         \A i, j \in 1..Len(s) : s[i] = s[j] => i = j
  PROVE  /\ \A i, j \in 1..Len(Append(s, d)) :
               Append(s, d)[i] = Append(s, d)[j] => i = j
         /\ Range(Append(s, d)) = Range(s) \cup {d}
<1>1. /\ Len(s) \in Nat /\ DOMAIN s = 1..Len(s)
      /\ DOMAIN Append(s, d) = 1..(Len(s) + 1) /\ Len(Append(s, d)) = Len(s) + 1
      /\ \A i \in 1..Len(s) : Append(s, d)[i] = s[i] /\ s[i] # d
      /\ Append(s, d)[Len(s) + 1] = d
  BY DEF Range
<1>2. \A i \in 1..(Len(s) + 1) : i \in 1..Len(s) \/ i = Len(s) + 1
  BY <1>1
<1>3. \A i, j \in 1..Len(Append(s, d)) : Append(s, d)[i] = Append(s, d)[j] => i = j
  BY <1>1, <1>2
<1>4. Range(Append(s, d)) = Range(s) \cup {d}
  BY <1>1, <1>2 DEF Range
<1> QED  BY <1>3, <1>4

\* In a list without repetitions the two halves share nothing.
LEMMA HalvesDisjoint ==
  ASSUME NEW S, NEW g \in Seq(S), NEW q \in Seq(S),
         \A i, j \in 1..Len(g \o q) : (g \o q)[i] = (g \o q)[j] => i = j
  PROVE  /\ Range(g) \cap Range(q) = {}
         /\ Range(g) \subseteq Range(g \o q)
         /\ \A i, j \in 1..Len(g) : g[i] = g[j] => i = j
<1>1. /\ Len(g) \in Nat /\ Len(q) \in Nat /\ Len(g \o q) = Len(g) + Len(q)
      /\ DOMAIN g = 1..Len(g) /\ DOMAIN q = 1..Len(q)
      /\ DOMAIN (g \o q) = 1..(Len(g) + Len(q))
  OBVIOUS
<1>2. \A i \in 1..Len(g) : i \in 1..Len(g \o q) /\ (g \o q)[i] = g[i]
  BY <1>1
<1>3. \A j \in 1..Len(q) :
        /\ Len(g) + j \in 1..Len(g \o q)
        /\ (g \o q)[Len(g) + j] = q[j]
  BY <1>1
<1>4. \A i \in 1..Len(g), j \in 1..Len(q) : i # Len(g) + j
  BY <1>1
<1>5. \A i \in 1..Len(g), j \in 1..Len(q) : g[i] # q[j]
  BY <1>2, <1>3, <1>4
<1>6. Range(g) \cap Range(q) = {}
  BY <1>1, <1>5 DEF Range
<1>7. Range(g) \subseteq Range(g \o q)
  BY <1>1, <1>2 DEF Range
<1>8. \A i, j \in 1..Len(g) : g[i] = g[j] => i = j
  BY <1>2
<1> QED  BY <1>6, <1>7, <1>8

\* get_msglist and release_msglist keep only cleared nodes in the pool.
LEMMA PoolCleared ==
  ASSUME IInv, msgpool \in Seq({NULL}),
         \/ get_msglist
         \/ \E d, len : len \in Nat /\ alive /\ length = len + 1
                        /\ release_msglist(d, len)
  PROVE  msgpool' \in Seq({NULL})
<1>1. CASE get_msglist
  <2>1. CASE msgpool # <<>>
    BY <1>1, <2>1, TailOfList DEF get_msglist
  <2>2. CASE msgpool = <<>>
    BY <1>1, <2>2 DEF get_msglist
  <2> QED  BY <2>1, <2>2
<1>2. ASSUME NEW d, NEW len, len \in Nat, alive, length = len + 1, release_msglist(d, len)
      PROVE  msgpool' \in Seq({NULL})
  <2> DEFINE p == Pooled(d, len)
  <2>1. p.pool \in Seq({NULL}) /\ p.n = Len(p.pool)
    <3>1. msgpool_length = Len(msgpool)
      BY <1>2 DEF IInv, NodesAccounted
    <3>2. /\ <<NULL>> \o msgpool \in Seq({NULL})
          /\ Len(<<NULL>> \o msgpool) = Len(msgpool) + 1
      OBVIOUS
    <3> QED  BY <3>1, <3>2 DEF Pooled
  <2>2. \/ msgpool' = p.pool
        \/ msgpool' = Tail(p.pool) /\ p.n > (len \div 4) + MSGPOOL_SIZE * 10
    BY <1>2 DEF release_msglist
  <2> HIDE DEF p
  <2>3. CASE msgpool' = Tail(p.pool) /\ p.n > (len \div 4) + MSGPOOL_SIZE * 10
    <3>1. len \div 4 \in Nat /\ MSGPOOL_SIZE * 10 \in Nat
      BY <1>2, BoundsAssumption
    <3>2. p.pool # <<>>
      BY <2>1, <2>3, <3>1
    <3> QED  BY <2>1, <2>3, <3>2, TailOfList
  <2> QED  BY <2>1, <2>2, <2>3
<1> QED  BY <1>1, <1>2

\* Every step preserves the order of the messages and their ownership.
LEMMA NextOInv == OInv /\ [Next]_vars => OInv'
<1> SUFFICES ASSUME OInv, [Next]_vars PROVE OInv'
  OBVIOUS
<1>0. IInv' /\ IInv
  BY NextIInv DEF OInv
<1>a. /\ queue \in Seq(Data) /\ sent \in Seq(Data) /\ got \in Seq(Data)
      /\ InOrder /\ Owned
  BY DEF OInv, IInv, TypeOK
<1>1. CASE thread_queue_init
  BY <1>0, <1>1, <1>a DEF thread_queue_init, OInv, InOrder, Owned
<1>2. ASSUME NEW d \in Data, thread_queue_add(d) PROVE OInv'
  <2>1. /\ alive /\ alive' /\ queue' = Append(queue, d) /\ sent' = Append(sent, d)
        /\ got' = got /\ freed' = freed /\ get_msglist
        /\ d \notin freed /\ d \notin Range(sent)
    BY <1>2 DEF thread_queue_add, Fresh
  <2>2. InOrder'
    <3>1. sent = got \o queue
      BY <2>1, <1>a DEF InOrder
    <3>2. Append(got \o queue, d) = got \o Append(queue, d)
      <4>1. got \in Seq(Data) /\ queue \in Seq(Data) /\ d \in Data
        BY <1>a
      <4> QED  BY <4>1
    <3>3. alive' /\ sent' = got' \o queue'
      BY <2>1, <3>1, <3>2
    <3> QED  BY <3>3 DEF InOrder
  <2>3. msgpool' \in Seq({NULL})
    BY <2>1, <1>0, <1>a, PoolCleared DEF Owned
  <2>4. Owned'
    <3>1. /\ \A i, j \in 1..Len(Append(sent, d)) :
                Append(sent, d)[i] = Append(sent, d)[j] => i = j
          /\ Range(Append(sent, d)) = Range(sent) \cup {d}
      BY <2>1, <1>a, AppendDistinct DEF Owned
    <3>2. freed \cap Range(Append(sent, d)) = {}
      BY <2>1, <3>1, <1>a DEF Owned
    <3>3. freed' \cap Range(sent') = {}
      BY <2>1, <3>2
    <3>4. \A i, j \in 1..Len(sent') : sent'[i] = sent'[j] => i = j
      BY <2>1, <3>1
    <3> QED  BY <2>3, <3>3, <3>4 DEF Owned
  <2> QED  BY <2>2, <2>4, <1>0 DEF OInv
<1>3. ASSUME NEW c \in Consumers, alive, Take(c) PROVE OInv'
  <2> DEFINE len == IF Tail(queue) = <<>> THEN 0 ELSE length - 1
  <2>1. /\ queue # <<>> /\ queue' = Tail(queue)
        /\ got' = Append(got, Head(queue)) /\ alive' /\ sent' = sent /\ freed' = freed
        /\ release_msglist(Head(queue), len)
    BY <1>3 DEF Take
  <2>2. InOrder'
    BY <2>1, <1>3, <1>a, MoveHead DEF InOrder
  <2>3. len \in Nat /\ length = len + 1
    <3>1. length = Len(queue) /\ Len(queue) \in Nat /\ Len(queue) > 0
          /\ Len(Tail(queue)) = Len(queue) - 1 /\ Tail(queue) \in Seq(Data)
      BY <2>1, <1>0, <1>3, <1>a, TailOfList DEF IInv, NodesAccounted
    <3>2. CASE Tail(queue) = <<>>
      <4>1. Len(Tail(queue)) = 0
        BY <3>1, <3>2, EmptyList
      <4>2. len = 0
        BY <3>2
      <4> HIDE DEF len
      <4> QED  BY <4>1, <4>2, <3>1
    <3>3. CASE Tail(queue) # <<>>
      BY <3>1, <3>3
    <3> QED  BY <3>2, <3>3
  <2> HIDE DEF len
  <2>4. msgpool' \in Seq({NULL})
    BY <2>1, <2>3, <1>0, <1>3, <1>a, PoolCleared DEF Owned
  <2> QED  BY <2>1, <2>2, <2>4, <1>0, <1>a DEF OInv, Owned
<1>4. ASSUME NEW c \in Consumers, thread_queue_get(c) \/ Resume(c) PROVE OInv'
  <2>1. alive /\ (Take(c) \/ Sleep(c))
    BY <1>0, <1>4 DEF thread_queue_get, Resume, IInv, Quiescent
  <2>2. CASE Sleep(c)
    BY <2>2, <1>0, <1>a DEF Sleep, OInv, InOrder, Owned
  <2> QED  BY <2>1, <2>2, <1>3
<1>5. ASSUME NEW c \in Consumers,
             SpuriousWakeup(c) \/ Timeout(c) \/ ReturnTimedOut(c) PROVE OInv'
  <2>1. UNCHANGED <<alive, queue, msgpool, sent, got, freed>>
    BY <1>5 DEF SpuriousWakeup, Timeout, ReturnTimedOut
  <2> QED  BY <2>1, <1>0, <1>a DEF OInv, InOrder, Owned
<1>6. ASSUME NEW freedata \in BOOLEAN, thread_queue_cleanup(freedata) PROVE OInv'
  <2>1. /\ alive /\ ~alive' /\ sent' = got /\ got' = got /\ msgpool' = msgpool
        /\ \/ freed' = freed
           \/ freed' = freed \cup ((Range(queue) \cup Range(msgpool)) \ {NULL})
    BY <1>6 DEF thread_queue_cleanup
  <2>2. sent = got \o queue
    BY <2>1, <1>a DEF InOrder
  <2>3. /\ Range(got) \cap Range(queue) = {}
        /\ Range(got) \subseteq Range(sent)
        /\ \A i, j \in 1..Len(got) : got[i] = got[j] => i = j
    BY <2>2, <1>a, HalvesDisjoint DEF Owned
  <2>4. Range(msgpool) \subseteq {NULL}
    BY <1>a DEF Owned, Range
  <2>5. freed' \cap Range(got) = {}
    BY <2>1, <2>3, <2>4, <1>a DEF Owned
  <2> QED  BY <2>1, <2>3, <2>5, <1>0, <1>a DEF OInv, Owned, InOrder
<1>7. CASE UNCHANGED vars
  BY <1>7, <1>0, <1>a DEF vars, OInv, InOrder, Owned
<1> QED  BY <1>1, <1>2, <1>4, <1>5, <1>6, <1>7 DEF Next

\* thread_queue_cleanup with freedata never frees a message that a caller of
\* thread_queue_get owns: pooled nodes hold no pointer any more, and what is
\* queued was handed to nobody.
THEOREM DeliveredNeverFreed == Spec => []NoFreeOfDelivered
<1>1. OInv => NoFreeOfDelivered
  <2> SUFFICES ASSUME OInv PROVE NoFreeOfDelivered
    OBVIOUS
  <2>1. Range(got) \subseteq Range(sent)
    <3>1. CASE alive
      <4>1. sent = got \o queue /\ got \in Seq(Data) /\ queue \in Seq(Data)
        BY <3>1 DEF OInv, InOrder, IInv, TypeOK
      <4>2. \A i, j \in 1..Len(got \o queue) :
              (got \o queue)[i] = (got \o queue)[j] => i = j
        BY <4>1 DEF OInv, Owned
      <4>3. Range(got) \subseteq Range(got \o queue)
        BY <4>1, <4>2, HalvesDisjoint
      <4> QED  BY <4>1, <4>3
    <3>2. CASE ~alive
      BY <3>2 DEF OInv, InOrder
    <3> QED  BY <3>1, <3>2
  <2> QED  BY <2>1 DEF OInv, Owned, NoFreeOfDelivered
<1> QED  BY InitOInv, NextOInv, <1>1, PTL DEF Spec

\* The queue implements the abstract one: thread_queue_add is a Send, taking the
\* first node a Deliver, thread_queue_cleanup a Reset, and all that sleeping,
\* waking and timing out does is invisible to the users.
THEOREM QueueIsFifo == Spec => ImplementsFifo
<1>1. Init => Abstract!Init
  BY DEF Init, Abstract!Init
<1>2. OInv /\ [Next]_vars => [Abstract!Next]_(Abstract!avars)
  <2> SUFFICES ASSUME OInv, [Next]_vars PROVE [Abstract!Next]_(Abstract!avars)
    OBVIOUS
  <2>0. /\ queue \in Seq(Data) /\ got \in Seq(Data)
        /\ alive => sent = got \o queue
    BY DEF OInv, IInv, TypeOK, InOrder
  <2>1. CASE thread_queue_init
    BY <2>1 DEF thread_queue_init, Abstract!avars
  <2>2. ASSUME NEW d \in Data, thread_queue_add(d) PROVE Abstract!Next
    BY <2>2 DEF thread_queue_add, Abstract!Next, Abstract!Send
  <2>3. ASSUME NEW c \in Consumers, thread_queue_get(c) \/ Resume(c)
        PROVE  [Abstract!Next]_(Abstract!avars)
    <3>1. alive /\ (Take(c) \/ Sleep(c))
      BY <2>3 DEF thread_queue_get, Resume, OInv, IInv, Quiescent
    <3>2. CASE Take(c)
      <4>1. queue # <<>> /\ got' = Append(got, Head(queue)) /\ sent' = sent
        BY <3>2 DEF Take
      <4>2. Len(got) < Len(sent) /\ sent[Len(got) + 1] = Head(queue)
        BY <4>1, <3>1, <2>0, MoveHead
      <4> QED  BY <4>1, <4>2 DEF Abstract!Next, Abstract!Deliver
    <3>3. CASE Sleep(c)
      BY <3>3 DEF Sleep, Abstract!avars
    <3> QED  BY <3>1, <3>2, <3>3
  <2>4. ASSUME NEW c \in Consumers,
               SpuriousWakeup(c) \/ Timeout(c) \/ ReturnTimedOut(c)
        PROVE  UNCHANGED Abstract!avars
    BY <2>4 DEF SpuriousWakeup, Timeout, ReturnTimedOut, Abstract!avars
  <2>5. ASSUME NEW freedata \in BOOLEAN, thread_queue_cleanup(freedata)
        PROVE  Abstract!Next
    BY <2>5 DEF thread_queue_cleanup, Abstract!Next, Abstract!Reset
  <2>6. CASE UNCHANGED vars
    BY <2>6 DEF vars, Abstract!avars
  <2> QED  BY <2>1, <2>2, <2>3, <2>4, <2>5, <2>6 DEF Next
<1> QED  BY InitOInv, NextOInv, <1>1, <1>2, PTL DEF Spec, ImplementsFifo, Abstract!Spec
=============================================================================
