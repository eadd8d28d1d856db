----------------------------- MODULE ThreadQueue -----------------------------
(***************************************************************************)
(* immvibe/threadqueue.c: the waitable message queue between the socket    *)
(* loop and the worker of the vibrator daemon.                             *)
(*                                                                         *)
(* A critical section of queue->mutex that does not wait is one action.    *)
(* A caller of thread_queue_get that sleeps on queue->cond is "waiting";   *)
(* a broadcast, a spurious wakeup or the timeout moves it to "woken" or    *)
(* "timedout", where it competes for the mutex again.                      *)
(*                                                                         *)
(* Definitions named X_but... are faulty variants of X.  No specification  *)
(* uses them: PROJECT.json lists them as mutants, which show that the      *)
(* properties can fail.                                                    *)
(***************************************************************************)
EXTENDS Naturals, Sequences, Functions

CONSTANTS Data,          \* pointers the producers add
          NULL,          \* the null pointer
          Consumers,     \* threads that call thread_queue_get
          Timed,         \* the ones that pass a timeout
          MSGPOOL_SIZE,
          MaxSent,       \* bound: messages added over a behaviour
          MaxNodes       \* bound: malloc fails beyond this many list nodes

ASSUME ConsumersAssumption == Timed \subseteq Consumers
ASSUME NullAssumption == NULL \notin Data
ASSUME BoundsAssumption == /\ MSGPOOL_SIZE \in Nat
                           /\ MaxSent \in Nat
                           /\ MaxNodes \in Nat

VARIABLES
  alive,            \* between thread_queue_init and thread_queue_cleanup
  queue,            \* data of the nodes reachable from queue->first
  length,           \* queue->length
  msgpool,          \* data of the nodes reachable from queue->msgpool
  msgpool_length,   \* queue->msgpool_length
  nodes,            \* list nodes malloc'ed and not yet freed
  pc,               \* where each consumer is in thread_queue_get
  sent, got,        \* history: messages added (and not dropped), handed out
  freed             \* history: pointers passed to free() by a cleanup

vars == <<alive, queue, length, msgpool, msgpool_length, nodes, pc, sent, got,
          freed>>

(***************************************************************************)
(* The node pool.                                                          *)
(***************************************************************************)

\* get_msglist: a node of the pool, else malloc, which fails out of memory.
get_msglist ==
  \/ /\ msgpool # <<>>
     /\ msgpool' = Tail(msgpool)
     /\ msgpool_length' = msgpool_length - 1
     /\ UNCHANGED nodes
  \/ /\ msgpool = <<>>
     /\ nodes < MaxNodes
     /\ nodes' = nodes + 1
     /\ UNCHANGED <<msgpool, msgpool_length>>

\* Faulty: node->msg.data is not cleared.
Pooled_butKeepsData(d, len) ==
  IF msgpool_length > (len \div 8) + MSGPOOL_SIZE
  THEN [pool |-> msgpool, n |-> msgpool_length, nodes |-> nodes - 1]
  ELSE [pool |-> <<d>> \o msgpool, n |-> msgpool_length + 1, nodes |-> nodes]

\* The pool after the first half of release_msglist, with len the queue->length
\* it reads: the node, its data cleared, is pushed on the pool unless the pool
\* is large enough already.
Pooled(d, len) ==
  IF msgpool_length > (len \div 8) + MSGPOOL_SIZE
  THEN [pool |-> msgpool, n |-> msgpool_length, nodes |-> nodes - 1]
  ELSE [pool |-> <<NULL>> \o msgpool, n |-> msgpool_length + 1, nodes |-> nodes]

\* Faulty: the pool is never trimmed.
release_msglist_butNoTrim(d, len) ==
  LET p == Pooled(d, len)
  IN  msgpool' = p.pool /\ msgpool_length' = p.n /\ nodes' = p.nodes

\* release_msglist of the node that held d; in the end one node is trimmed off
\* a pool that has become far too large for the queue.
release_msglist(d, len) ==
  LET p == Pooled(d, len)
      trim == p.n > (len \div 4) + MSGPOOL_SIZE * 10
  IN  /\ msgpool' = IF trim THEN Tail(p.pool) ELSE p.pool
      /\ msgpool_length' = IF trim THEN p.n - 1 ELSE p.n
      /\ nodes' = IF trim THEN p.nodes - 1 ELSE p.nodes

(***************************************************************************)
(* The operations.                                                         *)
(***************************************************************************)

\* memset to zero; no thread uses the queue yet.
thread_queue_init ==
  /\ ~alive
  /\ alive' = TRUE
  /\ queue' = <<>> /\ length' = 0
  /\ msgpool' = <<>> /\ msgpool_length' = 0
  /\ UNCHANGED <<nodes, pc, sent, got, freed>>

\* Faulty: pthread_cond_signal, which wakes one thread.
Broadcast_butSignal ==
  IF \E c \in Consumers : pc[c] = "waiting"
  THEN [pc EXCEPT ![CHOOSE c \in Consumers : pc[c] = "waiting"] = "woken"]
  ELSE pc

\* pthread_cond_broadcast: every thread asleep on the condition is woken.
Broadcast == [c \in Consumers |-> IF pc[c] = "waiting" THEN "woken" ELSE pc[c]]

\* The caller owns d: it is not in use already and was not freed.
Fresh(d) == d \notin freed \cup Range(sent)

\* Faulty: the new node is linked in at the head.
thread_queue_add_butAtHead(d) ==
  /\ alive
  /\ Len(sent) < MaxSent /\ Fresh(d)
  /\ get_msglist
  /\ queue' = <<d>> \o queue
  /\ pc' = IF length = 0 THEN Broadcast ELSE pc
  /\ length' = length + 1
  /\ sent' = Append(sent, d)
  /\ UNCHANGED <<alive, got, freed>>

thread_queue_add(d) ==
  /\ alive
  /\ Len(sent) < MaxSent /\ Fresh(d)
  /\ get_msglist
  /\ queue' = Append(queue, d)
  /\ pc' = IF length = 0 THEN Broadcast ELSE pc
  /\ length' = length + 1
  /\ sent' = Append(sent, d)
  /\ UNCHANGED <<alive, got, freed>>

\* The part of thread_queue_get after its wait loop: unlink the first node.
Take(c) ==
  LET len == IF Tail(queue) = <<>> THEN 0 ELSE length - 1
  IN  /\ queue # <<>>
      /\ queue' = Tail(queue)
      /\ length' = len
      /\ got' = Append(got, Head(queue))
      /\ release_msglist(Head(queue), len)
      /\ pc' = [pc EXCEPT ![c] = "idle"]
      /\ UNCHANGED <<alive, sent, freed>>

\* The wait loop finds the queue empty: the thread sleeps on the condition.
Sleep(c) ==
  /\ queue = <<>>
  /\ pc' = [pc EXCEPT ![c] = "waiting"]
  /\ UNCHANGED <<alive, queue, length, msgpool, msgpool_length, nodes, sent,
                 got, freed>>

\* A call of thread_queue_get up to its return or its first sleep.
thread_queue_get(c) ==
  /\ alive
  /\ pc[c] = "idle"
  /\ Take(c) \/ Sleep(c)

\* Faulty: a woken thread does not leave the wait loop when there is a message.
Resume_butWaitsOn(c) ==
  /\ pc[c] = "woken"
  /\ Sleep(c)

\* A woken thread has the mutex again and re-evaluates the loop condition.
Resume(c) ==
  /\ pc[c] = "woken"
  /\ Take(c) \/ Sleep(c)

\* The comment in the loop: spurious wakeups.
SpuriousWakeup(c) ==
  /\ pc[c] = "waiting"
  /\ pc' = [pc EXCEPT ![c] = "woken"]
  /\ UNCHANGED <<alive, queue, length, msgpool, msgpool_length, nodes, sent,
                 got, freed>>

\* abstimeout passes: pthread_cond_timedwait will return ETIMEDOUT.
Timeout(c) ==
  /\ c \in Timed
  /\ pc[c] = "waiting"
  /\ pc' = [pc EXCEPT ![c] = "timedout"]
  /\ UNCHANGED <<alive, queue, length, msgpool, msgpool_length, nodes, sent,
                 got, freed>>

\* The loop ends on ETIMEDOUT whatever the queue holds by now.
ReturnTimedOut(c) ==
  /\ pc[c] = "timedout"
  /\ pc' = [pc EXCEPT ![c] = "idle"]
  /\ UNCHANGED <<alive, queue, length, msgpool, msgpool_length, nodes, sent,
                 got, freed>>

\* thread_queue_cleanup: both lists are freed and, with freedata, the data
\* pointer of every node on them too.  Nobody may be using the queue.
thread_queue_cleanup(freedata) ==
  /\ alive
  /\ \A c \in Consumers : pc[c] = "idle"
  /\ alive' = FALSE
  /\ nodes' = nodes - Len(queue) - Len(msgpool)
  /\ freed' = IF freedata
              THEN freed \cup ((Range(queue) \cup Range(msgpool)) \ {NULL})
              ELSE freed
  /\ sent' = got
  /\ UNCHANGED <<queue, length, msgpool, msgpool_length, pc, got>>

Init ==
  /\ alive = TRUE
  /\ queue = <<>> /\ length = 0
  /\ msgpool = <<>> /\ msgpool_length = 0
  /\ nodes = 0
  /\ pc = [c \in Consumers |-> "idle"]
  /\ sent = <<>> /\ got = <<>> /\ freed = {}

Next ==
  \/ thread_queue_init
  \/ \E d \in Data : thread_queue_add(d)
  \/ \E c \in Consumers :
       \/ thread_queue_get(c) \/ Resume(c)
       \/ SpuriousWakeup(c) \/ Timeout(c) \/ ReturnTimedOut(c)
  \/ \E freedata \in BOOLEAN : thread_queue_cleanup(freedata)

Spec == Init /\ [][Next]_vars

TypeOK ==
  /\ alive \in BOOLEAN
  /\ queue \in Seq(Data)
  /\ length \in Nat
  /\ msgpool \in Seq(Data \cup {NULL})
  /\ msgpool_length \in Nat
  /\ nodes \in Nat
  /\ pc \in [Consumers -> {"idle", "waiting", "woken", "timedout"}]
  /\ sent \in Seq(Data) /\ got \in Seq(Data)
  /\ freed \subseteq Data

(***************************************************************************)
(* Properties.                                                             *)
(***************************************************************************)

\* thread_queue_add broadcasts only when queue->length was 0.  No thread may
\* be left asleep on the condition while a message is in the queue.
NoLostWakeup == alive /\ queue # <<>> => \A c \in Consumers : pc[c] # "waiting"

\* The counters the pool policy and the broadcast depend on agree with the
\* lists, and every node malloc'ed is on exactly one of the two lists.
NodesAccounted ==
  IF alive THEN /\ length = Len(queue)
                /\ msgpool_length = Len(msgpool)
                /\ nodes = length + msgpool_length
           ELSE nodes = 0

\* Trimming at most one node per get keeps the pool within the limit of
\* release_msglist although the limit moves with the queue's length.
PoolBounded == msgpool_length <= (length \div 4) + MSGPOOL_SIZE * 10

\* thread_queue_cleanup with freedata walks the pool as well as the queue: it
\* never frees a pointer that a caller of thread_queue_get already owns.
NoFreeOfDelivered == freed \cap Range(got) = {}

\* The queue implements the abstract one: in order, once, nothing invented.
Abstract == INSTANCE FifoChannel
ImplementsFifo == Abstract!Spec

\* The callers of get that pass no timeout call it in a loop (the daemon's
\* worker) and are scheduled.
FairSpec ==
  /\ Spec
  /\ \A c \in Consumers \ Timed : WF_vars(thread_queue_get(c) \/ Resume(c))

\* Every message that was added is handed out, unless the queue is destroyed.
EveryMessageDelivered ==
  \A n \in 1..MaxSent : (alive /\ Len(sent) = n) ~> (Len(got) >= n \/ ~alive)

\* The counters of the queue and of the pool are what the lists hold, and the
\* pool is bounded, whatever sequence of calls, wakeups and failures led here.
BooksBalance == TypeOK /\ NodesAccounted /\ PoolBounded
=============================================================================
