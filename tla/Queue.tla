--------------------------------- MODULE Queue ---------------------------------
(***************************************************************************)
(* The blocking queue, src/src/collections/queue.c: one mutex and two        *)
(* condition variables.  What a call does with the mutex held is one step;   *)
(* the signal comes after the unlock and is another.  The list is reduced    *)
(* to its length, which is less than the count once a node could not be      *)
(* made: list_rpush takes the NULL and nobody looks.  A non-blocking call    *)
(* that is refused changes nothing; one that is not does what the blocking   *)
(* call does.                                                              *)
(***************************************************************************)
EXTENDS Integers, FiniteSets

CONSTANTS
  Producers, Consumers,  \* disjoint finite sets of threads
  Sizes,                 \* what queue_new may be given, at least 1
  NodesMayFail,          \* whether list_node_new may return NULL
  MaxSpurious            \* bound: wakeups without a signal

(* What the code takes for granted: a thread does not both put and take, and *)
(* the size is positive.                                                   *)
ASSUME QueueAssumption ==
  /\ Producers \cap Consumers = {} /\ IsFiniteSet(Producers) /\ IsFiniteSet(Consumers)
  /\ Sizes \subseteq Nat \ {0} /\ MaxSpurious \in Nat
  /\ NodesMayFail \in BOOLEAN

VARIABLES
  crew,          \* the threads that use the queue
  queueSize, itemsInQueue,
  listLen,       \* nodes in the list
  queuePc,       \* per thread: "idle", "asleep", "awake", "signal"
  spurious,      \* wakeups without a signal left
  queueFault     \* "none", or how the process was lost
queueVars == <<crew, queueSize, itemsInQueue, listLen, queuePc, spurious, queueFault>>

Users == Producers \cup Consumers
In(set, p) == {t \in set : queuePc[t] = p}
Goto(t, p) == queuePc' = [queuePc EXCEPT ![t] = p]
At(t, p) == queueFault = "none" /\ t \in crew /\ queuePc[t] = p

QueueInit ==
  /\ crew \in {c \in SUBSET Users : c \cap Producers # {} /\ c \cap Consumers # {}}
  /\ queueSize \in Sizes /\ itemsInQueue = 0 /\ listLen = 0
  /\ queuePc = [t \in Users |-> "idle"]
  /\ spurious = MaxSpurious
  /\ queueFault = "none"

(* queue_enqueue: to sleep when it is full; once awake, not asked again.     *)
Put(t) ==
  /\ itemsInQueue' = itemsInQueue + 1
  /\ \/ listLen' = listLen + 1
     \/ NodesMayFail /\ UNCHANGED listLen
  /\ Goto(t, "signal") /\ UNCHANGED queueFault
Full == itemsInQueue >= queueSize
(* Variant: room for one more than the size.                               *)
EnqueueBeyond(t) ==
  /\ t \in Producers
  /\ \/ /\ At(t, "idle") /\ itemsInQueue > queueSize /\ Goto(t, "asleep")
        /\ UNCHANGED <<itemsInQueue, listLen, queueFault>>
     \/ At(t, "idle") /\ itemsInQueue <= queueSize /\ Put(t)
     \/ At(t, "awake") /\ Put(t)
  /\ UNCHANGED <<crew, queueSize, spurious>>
Enqueue(t) ==
  /\ t \in Producers
  /\ \/ At(t, "idle") /\ Full /\ Goto(t, "asleep") /\ UNCHANGED <<itemsInQueue, listLen, queueFault>>
     \/ At(t, "idle") /\ ~Full /\ Put(t)
     \/ At(t, "awake") /\ Put(t)
  /\ UNCHANGED <<crew, queueSize, spurious>>

(* queue_remove: likewise; from an empty list it takes a NULL node.          *)
Take(t) ==
  /\ itemsInQueue' = itemsInQueue - 1
  /\ \/ listLen > 0 /\ listLen' = listLen - 1 /\ Goto(t, "signal") /\ UNCHANGED queueFault
     \/ listLen = 0 /\ queueFault' = "null_node" /\ UNCHANGED <<listLen, queuePc>>
Dequeue(t) ==
  /\ t \in Consumers
  /\ \/ At(t, "idle") /\ itemsInQueue <= 0 /\ Goto(t, "asleep") /\ UNCHANGED <<itemsInQueue, listLen, queueFault>>
     \/ At(t, "idle") /\ itemsInQueue > 0 /\ Take(t)
     \/ At(t, "awake") /\ Take(t)
  /\ UNCHANGED <<crew, queueSize, spurious>>

(* pthread_cond_signal: wakes one thread that sleeps, if there is one.       *)
Others(t) == IF t \in Producers THEN Consumers ELSE Producers
(* Variant: a consumer signals only when the queue was full.                *)
SignalIfFull(t) ==
  /\ At(t, "signal")
  /\ \/ \E s \in In(Others(t), "asleep") :
          /\ t \in Producers \/ itemsInQueue = queueSize - 1
          /\ queuePc' = [queuePc EXCEPT ![t] = "idle", ![s] = "awake"]
     \/ /\ In(Others(t), "asleep") = {} \/ (t \in Consumers /\ itemsInQueue # queueSize - 1)
        /\ Goto(t, "idle")
  /\ UNCHANGED <<crew, queueSize, itemsInQueue, listLen, spurious, queueFault>>
Signal(t) ==
  /\ At(t, "signal")
  /\ \/ \E s \in In(Others(t), "asleep") : queuePc' = [queuePc EXCEPT ![t] = "idle", ![s] = "awake"]
     \/ In(Others(t), "asleep") = {} /\ Goto(t, "idle")
  /\ UNCHANGED <<crew, queueSize, itemsInQueue, listLen, spurious, queueFault>>

(* POSIX allows a wakeup that nobody caused.                               *)
WakeUp(t) ==
  /\ At(t, "asleep") /\ spurious > 0
  /\ spurious' = spurious - 1 /\ Goto(t, "awake")
  /\ UNCHANGED <<crew, queueSize, itemsInQueue, listLen, queueFault>>

QueueNext == \E t \in Users : Enqueue(t) \/ Dequeue(t) \/ Signal(t) \/ WakeUp(t)
QueueSpec == QueueInit /\ [][QueueNext]_queueVars
-----------------------------------------------------------------------------
(* Every variable keeps its type, and no node is in the list uncounted.      *)
QueueTypeOK ==
  /\ crew \subseteq Users /\ queueSize \in Sizes /\ spurious \in 0 .. MaxSpurious
  /\ itemsInQueue \in Nat \cup {-1} /\ listLen \in Nat
  /\ listLen <= itemsInQueue \/ (listLen = 0 /\ itemsInQueue = -1)
  /\ queuePc \in [Users -> {"idle", "asleep", "awake", "signal"}]
  /\ queueFault \in {"none", "null_node"}

(* The condition is tested once and the signal comes late (queue.c:31, 38),   *)
(* so the queue may exceed its size - but only by one item less than threads *)
(* use it, and one for every spurious wakeup.                               *)
OverfillIsBounded ==
  itemsInQueue <= queueSize + (Cardinality(crew) - 1) + (MaxSpurious - spurious)

(* No signal is lost (queue.c:38, 68): while a thread sleeps, every place it  *)
(* could use is taken, or promised to a thread woken or about to be.          *)
NoneSleepsInVain ==
  queueFault = "none" =>
  /\ In(Producers, "asleep") # {} =>
       itemsInQueue + Cardinality(In(Producers, "awake") \cup In(Consumers, "signal")) >= queueSize
  /\ In(Consumers, "asleep") # {} =>
       itemsInQueue <= Cardinality(In(Consumers, "awake") \cup In(Producers, "signal"))
=============================================================================
