------------------------------ MODULE QueueProofs ------------------------------
(***************************************************************************)
(* Proofs about the blocking queue, for any numbers of producers and        *)
(* consumers, any size and any number of spurious wakeups.                 *)
(***************************************************************************)
EXTENDS Queue, FiniteSetTheorems, TLAPS

(* Who has a place promised, and who an item: one that was woken, or still  *)
(* has to wake another for what it made free or put.                       *)
Places == In(Producers, "awake") \cup In(Consumers, "signal")
Goods  == In(Consumers, "awake") \cup In(Producers, "signal")

CrewInv == \A t \in Users : queuePc[t] # "idle" => t \in crew
ItemsInv == queueFault = "none" => itemsInQueue \in Nat
(* Every promised place may still be filled.                               *)
FillInv ==
  itemsInQueue + Cardinality(Places) <=
    queueSize + (Cardinality(crew) - 1) + (MaxSpurious - spurious)

IInv == QueueTypeOK /\ CrewInv /\ ItemsInv /\ FillInv /\ NoneSleepsInVain

(* One thread more or less in a finite set.                                *)
LEMMA CountFacts ==
  ASSUME NEW S, IsFiniteSet(S), NEW x
  PROVE  /\ Cardinality(S) \in Nat
         /\ IsFiniteSet(S \cup {x}) /\ IsFiniteSet(S \ {x})
         /\ x \notin S => Cardinality(S \cup {x}) = Cardinality(S) + 1
         /\ x \in S => Cardinality(S \ {x}) = Cardinality(S) - 1
         /\ x \in S => S \cup {x} = S
         /\ x \notin S => S \ {x} = S
BY FS_CardinalityType, FS_AddElement, FS_RemoveElement

(* The promises are to threads that use the queue.                          *)
LEMMA PromiseFacts ==
  ASSUME IInv
  PROVE  /\ Places \subseteq crew /\ Goods \subseteq crew
         /\ IsFiniteSet(crew) /\ IsFiniteSet(Places) /\ IsFiniteSet(Goods)
         /\ Cardinality(crew) \in Nat /\ Cardinality(Places) \in Nat /\ Cardinality(Goods) \in Nat
         /\ queueSize \in Nat \ {0} /\ spurious \in Nat /\ MaxSpurious \in Nat
<1>1. Places \subseteq crew /\ Goods \subseteq crew
  BY DEF Places, Goods, In, Users, IInv, CrewInv
<1>2. IsFiniteSet(crew)
  BY QueueAssumption, FS_Subset, FS_Union DEF Users, IInv, QueueTypeOK
<1>3. IsFiniteSet(Places) /\ IsFiniteSet(Goods)
  BY <1>1, <1>2, FS_Subset
<1>4. Cardinality(crew) \in Nat /\ Cardinality(Places) \in Nat /\ Cardinality(Goods) \in Nat
  BY <1>2, <1>3, FS_CardinalityType
<1>5. queueSize \in Nat \ {0} /\ spurious \in Nat /\ MaxSpurious \in Nat
  BY QueueAssumption DEF IInv, QueueTypeOK
<1> QED BY <1>1, <1>2, <1>3, <1>4, <1>5

(* One thread goes on, and nothing else of the threads changes.             *)
LEMMA MoveFacts ==
  ASSUME IInv, NEW t \in crew, NEW p \in {"idle", "asleep", "awake", "signal"},
         Goto(t, p), UNCHANGED crew
  PROVE  /\ queuePc' \in [Users -> {"idle", "asleep", "awake", "signal"}] /\ CrewInv'
         /\ t \in Producers =>
              /\ Places' = IF p = "awake" THEN Places \cup {t} ELSE Places \ {t}
              /\ Goods' = IF p = "signal" THEN Goods \cup {t} ELSE Goods \ {t}
              /\ In(Producers, "asleep")' = IF p = "asleep" THEN In(Producers, "asleep") \cup {t}
                                            ELSE In(Producers, "asleep") \ {t}
              /\ In(Consumers, "asleep")' = In(Consumers, "asleep")
              /\ t \in Places <=> queuePc[t] = "awake"
              /\ t \in Goods <=> queuePc[t] = "signal"
         /\ t \in Consumers =>
              /\ Places' = IF p = "signal" THEN Places \cup {t} ELSE Places \ {t}
              /\ Goods' = IF p = "awake" THEN Goods \cup {t} ELSE Goods \ {t}
              /\ In(Consumers, "asleep")' = IF p = "asleep" THEN In(Consumers, "asleep") \cup {t}
                                            ELSE In(Consumers, "asleep") \ {t}
              /\ In(Producers, "asleep")' = In(Producers, "asleep")
              /\ t \in Places <=> queuePc[t] = "signal"
              /\ t \in Goods <=> queuePc[t] = "awake"
<1>1. /\ Users = Producers \cup Consumers /\ Producers \cap Consumers = {}
      /\ queuePc \in [Users -> {"idle", "asleep", "awake", "signal"}] /\ crew \subseteq Users
  BY QueueAssumption DEF IInv, QueueTypeOK, Users
<1>2. /\ queuePc' \in [Users -> {"idle", "asleep", "awake", "signal"}] /\ queuePc'[t] = p
      /\ \A u \in Users : u # t => queuePc'[u] = queuePc[u]
  BY <1>1 DEF Goto
<1>3. CrewInv'
  BY <1>1, <1>2 DEF CrewInv, IInv
<1>4. ASSUME t \in Producers
      PROVE  /\ Places' = IF p = "awake" THEN Places \cup {t} ELSE Places \ {t}
             /\ Goods' = IF p = "signal" THEN Goods \cup {t} ELSE Goods \ {t}
             /\ In(Producers, "asleep")' = IF p = "asleep" THEN In(Producers, "asleep") \cup {t}
                                           ELSE In(Producers, "asleep") \ {t}
             /\ In(Consumers, "asleep")' = In(Consumers, "asleep")
             /\ t \in Places <=> queuePc[t] = "awake"
             /\ t \in Goods <=> queuePc[t] = "signal"
  BY <1>1, <1>2, <1>4 DEF Places, Goods, In
<1>5. ASSUME t \in Consumers
      PROVE  /\ Places' = IF p = "signal" THEN Places \cup {t} ELSE Places \ {t}
             /\ Goods' = IF p = "awake" THEN Goods \cup {t} ELSE Goods \ {t}
             /\ In(Consumers, "asleep")' = IF p = "asleep" THEN In(Consumers, "asleep") \cup {t}
                                           ELSE In(Consumers, "asleep") \ {t}
             /\ In(Producers, "asleep")' = In(Producers, "asleep")
             /\ t \in Places <=> queuePc[t] = "signal"
             /\ t \in Goods <=> queuePc[t] = "awake"
  BY <1>1, <1>2, <1>5 DEF Places, Goods, In
<1> QED BY <1>2, <1>3, <1>4, <1>5

(* A thread signals: it is done, and one that slept is awake.               *)
LEMMA SignalFacts ==
  ASSUME IInv, NEW t \in crew, queuePc[t] = "signal", NEW s \in In(Others(t), "asleep"),
         queuePc' = [queuePc EXCEPT ![t] = "idle", ![s] = "awake"], UNCHANGED crew
  PROVE  /\ queuePc' \in [Users -> {"idle", "asleep", "awake", "signal"}] /\ CrewInv'
         /\ t \in Producers =>
              /\ Places' = Places /\ Goods' = (Goods \ {t}) \cup {s} /\ t \in Goods /\ s \notin Goods
              /\ In(Producers, "asleep")' = In(Producers, "asleep")
              /\ In(Consumers, "asleep")' = In(Consumers, "asleep") \ {s}
         /\ t \in Consumers =>
              /\ Goods' = Goods /\ Places' = (Places \ {t}) \cup {s} /\ t \in Places /\ s \notin Places
              /\ In(Consumers, "asleep")' = In(Consumers, "asleep")
              /\ In(Producers, "asleep")' = In(Producers, "asleep") \ {s}
<1>1. /\ Users = Producers \cup Consumers /\ Producers \cap Consumers = {}
      /\ queuePc \in [Users -> {"idle", "asleep", "awake", "signal"}] /\ crew \subseteq Users
  BY QueueAssumption DEF IInv, QueueTypeOK, Users
<1>2. /\ s \in Users /\ s # t /\ queuePc[s] = "asleep" /\ s \in crew
      /\ t \in Producers => s \in Consumers
      /\ t \in Consumers => s \in Producers
  BY <1>1 DEF Others, In, IInv, CrewInv
<1>3. /\ queuePc' \in [Users -> {"idle", "asleep", "awake", "signal"}] /\ queuePc'[t] = "idle" /\ queuePc'[s] = "awake"
      /\ \A u \in Users : u # t /\ u # s => queuePc'[u] = queuePc[u]
  BY <1>1, <1>2
<1>4. CrewInv'
  BY <1>1, <1>2, <1>3 DEF CrewInv, IInv
<1>5. ASSUME t \in Producers
      PROVE  /\ Places' = Places /\ Goods' = (Goods \ {t}) \cup {s} /\ t \in Goods /\ s \notin Goods
             /\ In(Producers, "asleep")' = In(Producers, "asleep")
             /\ In(Consumers, "asleep")' = In(Consumers, "asleep") \ {s}
  BY <1>1, <1>2, <1>3, <1>5 DEF Places, Goods, In
<1>6. ASSUME t \in Consumers
      PROVE  /\ Goods' = Goods /\ Places' = (Places \ {t}) \cup {s} /\ t \in Places /\ s \notin Places
             /\ In(Consumers, "asleep")' = In(Consumers, "asleep")
             /\ In(Producers, "asleep")' = In(Producers, "asleep") \ {s}
  BY <1>1, <1>2, <1>3, <1>6 DEF Places, Goods, In
<1> QED BY <1>3, <1>4, <1>5, <1>6

(* What of the invariant is about numbers.                                  *)
LEMMA Regroup ==
  ASSUME queuePc' \in [Users -> {"idle", "asleep", "awake", "signal"}], CrewInv', IInv,
         UNCHANGED <<crew, queueSize>>, spurious' \in 0 .. MaxSpurious,
         itemsInQueue' \in Nat, queueFault' \in {"none", "null_node"},
         listLen' \in Nat, listLen' <= itemsInQueue',
         FillInv',
         In(Producers, "asleep")' # {} => itemsInQueue' + Cardinality(Places') >= queueSize,
         In(Consumers, "asleep")' # {} => itemsInQueue' <= Cardinality(Goods')
  PROVE  IInv'
<1>1. QueueTypeOK' /\ ItemsInv'
  BY DEF IInv, QueueTypeOK, ItemsInv
<1>2. NoneSleepsInVain'
  BY DEF NoneSleepsInVain, Places, Goods
<1> QED BY <1>1, <1>2 DEF IInv

(* A thread that is not in a set leaves one more outside it.                 *)
LEMMA OutsideFacts ==
  ASSUME NEW S, IsFiniteSet(S), NEW T \in SUBSET S, NEW x \in S, x \notin T
  PROVE  Cardinality(T) <= Cardinality(S) - 1
<1>1. T \in SUBSET (S \ {x}) /\ IsFiniteSet(S \ {x})
  BY CountFacts
<1>2. Cardinality(T) <= Cardinality(S \ {x})
  BY <1>1, FS_Subset
<1>3. Cardinality(S \ {x}) = Cardinality(S) - 1
  BY CountFacts
<1> QED BY <1>2, <1>3

(* queue_enqueue.                                                          *)
LEMMA EnqueueStep ==
  ASSUME IInv, NEW t \in Users, Enqueue(t)
  PROVE  IInv'
<1>1. /\ t \in crew /\ t \in Producers /\ queueFault = "none" /\ itemsInQueue \in Nat
      /\ UNCHANGED <<crew, queueSize, spurious, queueFault>> /\ spurious \in 0 .. MaxSpurious
      /\ listLen \in Nat /\ listLen <= itemsInQueue
  BY DEF Enqueue, At, Put, IInv, ItemsInv, QueueTypeOK
<1>2. NoneSleepsInVain /\ FillInv
  BY DEF IInv
<1>3. CASE queuePc[t] = "idle" /\ itemsInQueue >= queueSize /\ Goto(t, "asleep") /\ UNCHANGED <<itemsInQueue, listLen>>
  <2>1. /\ queuePc' \in [Users -> {"idle", "asleep", "awake", "signal"}] /\ CrewInv'
        /\ Places' = Places /\ Goods' = Goods
        /\ In(Consumers, "asleep")' = In(Consumers, "asleep")
    BY <1>1, <1>3, MoveFacts
  <2>2. FillInv'
    BY <1>1, <1>2, <1>3, <2>1 DEF FillInv
  <2>3. itemsInQueue' + Cardinality(Places') >= queueSize
    BY <1>1, <1>3, <2>1, PromiseFacts
  <2>4. In(Consumers, "asleep")' # {} => itemsInQueue' <= Cardinality(Goods')
    BY <1>1, <1>2, <1>3, <2>1 DEF NoneSleepsInVain, Goods
  <2> QED BY <1>1, <1>3, <2>1, <2>2, <2>3, <2>4, Regroup
<1>4. CASE Put(t) /\ (queuePc[t] = "awake" \/ (queuePc[t] = "idle" /\ itemsInQueue < queueSize))
  <2>1. /\ itemsInQueue' = itemsInQueue + 1 /\ Goto(t, "signal")
        /\ listLen' \in Nat /\ listLen' <= itemsInQueue'
    BY <1>1, <1>4 DEF Put
  <2>2. /\ queuePc' \in [Users -> {"idle", "asleep", "awake", "signal"}] /\ CrewInv'
        /\ Places' = Places \ {t} /\ Goods' = Goods \cup {t}
        /\ In(Producers, "asleep")' \subseteq In(Producers, "asleep")
        /\ In(Consumers, "asleep")' = In(Consumers, "asleep")
        /\ t \in Places <=> queuePc[t] = "awake"
        /\ t \notin Goods
    BY <1>1, <1>4, <2>1, MoveFacts
  <2>3. PICK n \in Nat, m \in Nat, g \in Nat, z \in Nat :
          /\ n = Cardinality(Places) /\ m = Cardinality(Places') /\ g = Cardinality(Goods)
          /\ z = Cardinality(crew)
          /\ Cardinality(Goods') = g + 1
          /\ IF queuePc[t] = "awake" THEN m = n - 1 ELSE m = n /\ n <= z - 1
    <3>1. t \notin Places => Cardinality(Places) <= Cardinality(crew) - 1
      BY <1>1, PromiseFacts, OutsideFacts
    <3>2. Cardinality(Goods') = Cardinality(Goods) + 1
      BY <2>2, PromiseFacts, CountFacts
    <3>3. t \in Places => Cardinality(Places') = Cardinality(Places) - 1
      BY <2>2, PromiseFacts, CountFacts
    <3>4. t \notin Places => Places' = Places
      BY <2>2
    <3>5. Cardinality(Places') \in Nat
      BY <2>2, PromiseFacts, CountFacts, FS_CardinalityType
    <3>6. IF queuePc[t] = "awake" THEN Cardinality(Places') = Cardinality(Places) - 1
          ELSE /\ Cardinality(Places') = Cardinality(Places)
               /\ Cardinality(Places) <= Cardinality(crew) - 1
      BY <2>2, <3>1, <3>3, <3>4
    <3> QED BY <3>2, <3>5, <3>6, PromiseFacts
  <2>4. FillInv'
    <3>1. itemsInQueue + n <= queueSize + (z - 1) + (MaxSpurious - spurious)
      BY <1>2, <2>3 DEF FillInv
    <3>2. itemsInQueue + 1 + m <= queueSize + (z - 1) + (MaxSpurious - spurious)
      BY <1>1, <1>4, <2>3, <3>1, PromiseFacts
    <3> QED BY <1>1, <2>1, <2>3, <3>2 DEF FillInv
  <2>5. In(Producers, "asleep")' # {} => itemsInQueue' + Cardinality(Places') >= queueSize
    <3>1. In(Producers, "asleep")' # {} => itemsInQueue + n >= queueSize
      BY <1>1, <1>2, <2>2, <2>3 DEF NoneSleepsInVain, Places
    <3> QED BY <1>1, <2>1, <2>3, <3>1, PromiseFacts
  <2>6. In(Consumers, "asleep")' # {} => itemsInQueue' <= Cardinality(Goods')
    <3>1. In(Consumers, "asleep")' # {} => itemsInQueue <= g
      BY <1>1, <1>2, <2>2, <2>3 DEF NoneSleepsInVain, Goods
    <3> QED BY <1>1, <2>1, <2>3, <3>1
  <2>7. itemsInQueue' \in Nat
    BY <1>1, <2>1
  <2> QED BY <1>1, <2>1, <2>2, <2>4, <2>5, <2>6, <2>7, Regroup
<1>5. ~(itemsInQueue >= queueSize) => itemsInQueue < queueSize
  BY <1>1, PromiseFacts
<1>6. \/ queuePc[t] = "idle" /\ itemsInQueue >= queueSize /\ Goto(t, "asleep") /\ UNCHANGED <<itemsInQueue, listLen>>
      \/ Put(t) /\ (queuePc[t] = "awake" \/ (queuePc[t] = "idle" /\ itemsInQueue < queueSize))
  <2>1. \/ At(t, "idle") /\ Full /\ Goto(t, "asleep") /\ UNCHANGED <<itemsInQueue, listLen, queueFault>>
        \/ At(t, "idle") /\ ~Full /\ Put(t)
        \/ At(t, "awake") /\ Put(t)
    BY DEF Enqueue
  <2>2. CASE At(t, "idle") /\ Full /\ Goto(t, "asleep") /\ UNCHANGED <<itemsInQueue, listLen, queueFault>>
    BY <2>2 DEF At, Full
  <2>3. CASE At(t, "idle") /\ ~Full /\ Put(t)
    BY <1>5, <2>3 DEF At, Full
  <2>4. CASE At(t, "awake") /\ Put(t)
    BY <2>4 DEF At
  <2> QED BY <2>1, <2>2, <2>3, <2>4
<1> QED BY <1>3, <1>4, <1>6

(* queue_remove.                                                           *)
LEMMA DequeueStep ==
  ASSUME IInv, NEW t \in Users, Dequeue(t)
  PROVE  IInv'
<1>1. /\ t \in crew /\ t \in Consumers /\ queueFault = "none" /\ itemsInQueue \in Nat
      /\ listLen \in Nat /\ listLen <= itemsInQueue
      /\ UNCHANGED <<crew, queueSize, spurious>> /\ spurious \in 0 .. MaxSpurious
  BY DEF Dequeue, At, Take, IInv, ItemsInv, QueueTypeOK
<1>2. NoneSleepsInVain /\ FillInv
  BY DEF IInv
<1>3. CASE /\ queuePc[t] = "idle" /\ itemsInQueue <= 0 /\ Goto(t, "asleep")
           /\ UNCHANGED <<itemsInQueue, listLen, queueFault>>
  <2>1. /\ queuePc' \in [Users -> {"idle", "asleep", "awake", "signal"}] /\ CrewInv'
        /\ Places' = Places /\ Goods' = Goods
        /\ In(Producers, "asleep")' = In(Producers, "asleep")
    BY <1>1, <1>3, MoveFacts
  <2>2. FillInv'
    BY <1>1, <1>2, <1>3, <2>1 DEF FillInv
  <2>3. In(Producers, "asleep")' # {} => itemsInQueue' + Cardinality(Places') >= queueSize
    BY <1>1, <1>2, <1>3, <2>1 DEF NoneSleepsInVain, Places
  <2>4. itemsInQueue' <= Cardinality(Goods')
    BY <1>1, <1>3, <2>1, PromiseFacts
  <2> QED BY <1>1, <1>3, <2>1, <2>2, <2>3, <2>4, Regroup
<1>4. CASE /\ listLen > 0 /\ itemsInQueue' = itemsInQueue - 1 /\ Goto(t, "signal")
           /\ listLen' = listLen - 1 /\ UNCHANGED queueFault /\ queuePc[t] \in {"idle", "awake"}
  <2>1. /\ queuePc' \in [Users -> {"idle", "asleep", "awake", "signal"}] /\ CrewInv'
        /\ Places' = Places \cup {t} /\ Goods' = Goods \ {t}
        /\ In(Consumers, "asleep")' \subseteq In(Consumers, "asleep")
        /\ In(Producers, "asleep")' = In(Producers, "asleep")
        /\ t \notin Places
    BY <1>1, <1>4, MoveFacts
  <2>2. PICK n \in Nat, g \in Nat, h \in Nat :
          /\ n = Cardinality(Places) /\ g = Cardinality(Goods) /\ h = Cardinality(Goods')
          /\ Cardinality(Places') = n + 1 /\ h >= g - 1
    <3>1. Cardinality(Places') = Cardinality(Places) + 1
      BY <2>1, PromiseFacts, CountFacts
    <3>2. Cardinality(Goods') = Cardinality(Goods) - 1 \/ Goods' = Goods
      BY <2>1, PromiseFacts, CountFacts
    <3>3. Cardinality(Goods') \in Nat
      BY <2>1, PromiseFacts, CountFacts, FS_CardinalityType
    <3>4. Cardinality(Goods') >= Cardinality(Goods) - 1
      BY <3>2, PromiseFacts
    <3> QED BY <3>1, <3>3, <3>4, PromiseFacts
  <2>3. FillInv'
    BY <1>1, <1>2, <1>4, <2>2, PromiseFacts DEF FillInv
  <2>4. In(Producers, "asleep")' # {} => itemsInQueue' + Cardinality(Places') >= queueSize
    <3>1. In(Producers, "asleep")' # {} => itemsInQueue + n >= queueSize
      BY <1>1, <1>2, <2>1, <2>2 DEF NoneSleepsInVain, Places
    <3> QED BY <1>1, <1>4, <2>2, <3>1, PromiseFacts
  <2>5. In(Consumers, "asleep")' # {} => itemsInQueue' <= Cardinality(Goods')
    <3>1. In(Consumers, "asleep")' # {} => itemsInQueue <= g
      BY <1>1, <1>2, <2>1, <2>2 DEF NoneSleepsInVain, Goods
    <3> QED BY <1>1, <1>4, <2>2, <3>1
  <2>6. itemsInQueue' \in Nat /\ listLen' \in Nat /\ listLen' <= itemsInQueue'
    BY <1>1, <1>4
  <2> QED BY <1>1, <1>4, <2>1, <2>3, <2>4, <2>5, <2>6, Regroup
<1>5. CASE listLen = 0 /\ itemsInQueue' = itemsInQueue - 1 /\ queueFault' = "null_node" /\ UNCHANGED <<listLen, queuePc>>
  <2>1. /\ itemsInQueue' \in Nat \cup {-1} /\ listLen' \in Nat /\ itemsInQueue' <= itemsInQueue
        /\ listLen' <= itemsInQueue' \/ (listLen' = 0 /\ itemsInQueue' = -1)
    BY <1>1, <1>5
  <2>2. QueueTypeOK' /\ CrewInv' /\ ItemsInv'
    BY <1>1, <1>5, <2>1 DEF IInv, QueueTypeOK, CrewInv, ItemsInv
  <2>3. Places' = Places
    BY <1>5 DEF Places, In
  <2>4. FillInv'
    BY <1>1, <1>2, <1>5, <2>1, <2>3, PromiseFacts DEF FillInv
  <2>5. NoneSleepsInVain'
    BY <1>5 DEF NoneSleepsInVain
  <2> QED BY <2>2, <2>4, <2>5 DEF IInv
<1> QED BY <1>1, <1>3, <1>4, <1>5 DEF Dequeue, At, Take

(* pthread_cond_signal.                                                    *)
LEMMA SignalStep ==
  ASSUME IInv, NEW t \in Users, Signal(t)
  PROVE  IInv'
<1>1. /\ t \in crew /\ queuePc[t] = "signal" /\ queueFault = "none" /\ itemsInQueue \in Nat
      /\ UNCHANGED <<crew, queueSize, itemsInQueue, listLen, spurious, queueFault>>
      /\ listLen' \in Nat /\ listLen' <= itemsInQueue'
      /\ spurious \in 0 .. MaxSpurious /\ queueFault \in {"none", "null_node"}
      /\ t \in Producers \/ t \in Consumers
  BY DEF Signal, At, IInv, ItemsInv, QueueTypeOK, Users
<1>2. NoneSleepsInVain /\ FillInv
  BY DEF IInv
<1>3. ASSUME NEW s \in In(Others(t), "asleep"), queuePc' = [queuePc EXCEPT ![t] = "idle", ![s] = "awake"]
      PROVE  IInv'
  <2>1. /\ queuePc' \in [Users -> {"idle", "asleep", "awake", "signal"}] /\ CrewInv'
        /\ t \in Producers =>
             /\ Places' = Places /\ Goods' = (Goods \ {t}) \cup {s} /\ t \in Goods /\ s \notin Goods
        /\ t \in Consumers =>
             /\ Goods' = Goods /\ Places' = (Places \ {t}) \cup {s} /\ t \in Places /\ s \notin Places
        /\ In(Producers, "asleep")' \subseteq In(Producers, "asleep")
        /\ In(Consumers, "asleep")' \subseteq In(Consumers, "asleep")
    BY <1>1, <1>3, SignalFacts
  <2>2. Cardinality(Places') = Cardinality(Places) /\ Cardinality(Goods') = Cardinality(Goods)
    <3>1. ASSUME NEW S, IsFiniteSet(S), t \in S, s \notin S
          PROVE  Cardinality((S \ {t}) \cup {s}) = Cardinality(S)
      <4>1. IsFiniteSet(S \ {t}) /\ Cardinality(S \ {t}) = Cardinality(S) - 1 /\ Cardinality(S) \in Nat
        BY <3>1, CountFacts
      <4>2. Cardinality((S \ {t}) \cup {s}) = Cardinality(S \ {t}) + 1
        BY <3>1, <4>1, CountFacts
      <4> QED BY <4>1, <4>2
    <3> QED BY <1>1, <2>1, <3>1, PromiseFacts
  <2>3. FillInv'
    BY <1>1, <1>2, <2>2 DEF FillInv
  <2>4. In(Producers, "asleep")' # {} => itemsInQueue' + Cardinality(Places') >= queueSize
    BY <1>1, <1>2, <2>1, <2>2 DEF NoneSleepsInVain, Places
  <2>5. In(Consumers, "asleep")' # {} => itemsInQueue' <= Cardinality(Goods')
    BY <1>1, <1>2, <2>1, <2>2 DEF NoneSleepsInVain, Goods
  <2> QED BY <1>1, <2>1, <2>3, <2>4, <2>5, Regroup
<1>4. CASE In(Others(t), "asleep") = {} /\ Goto(t, "idle")
  <2>1. queuePc' \in [Users -> {"idle", "asleep", "awake", "signal"}] /\ CrewInv'
    BY <1>1, <1>4, MoveFacts
  <2>2. CASE t \in Producers
    <3>1. /\ Places' = Places /\ In(Producers, "asleep")' = In(Producers, "asleep")
          /\ In(Consumers, "asleep")' = {}
      <4>1. In(Consumers, "asleep") = {}
        BY <1>4, <2>2 DEF Others
      <4>2. /\ Places' = Places \ {t}
            /\ In(Producers, "asleep")' = In(Producers, "asleep") \ {t}
            /\ In(Consumers, "asleep")' = In(Consumers, "asleep")
            /\ t \in Places <=> queuePc[t] = "awake"
        BY <1>1, <1>4, <2>2, MoveFacts
      <4>3. t \notin Places /\ t \notin In(Producers, "asleep")
        BY <1>1, <4>2 DEF In
      <4> QED BY <4>1, <4>2, <4>3
    <3>2. FillInv'
      BY <1>1, <1>2, <3>1 DEF FillInv
    <3>3. In(Producers, "asleep")' # {} => itemsInQueue' + Cardinality(Places') >= queueSize
      BY <1>1, <1>2, <3>1 DEF NoneSleepsInVain, Places
    <3> QED BY <1>1, <2>1, <3>1, <3>2, <3>3, Regroup
  <2>3. CASE t \in Consumers
    <3>1. /\ Goods' = Goods /\ Places' = Places \ {t}
          /\ In(Consumers, "asleep")' = In(Consumers, "asleep")
          /\ In(Producers, "asleep")' = {}
      <4>1. In(Producers, "asleep") = {}
        BY <1>4, <2>3, QueueAssumption DEF Others
      <4>2. /\ Places' = Places \ {t} /\ Goods' = Goods \ {t}
            /\ In(Consumers, "asleep")' = In(Consumers, "asleep") \ {t}
            /\ In(Producers, "asleep")' = In(Producers, "asleep")
            /\ t \in Goods <=> queuePc[t] = "awake"
        BY <1>1, <1>4, <2>3, MoveFacts
      <4>3. t \notin Goods /\ t \notin In(Consumers, "asleep")
        BY <1>1, <4>2 DEF In
      <4> QED BY <4>1, <4>2, <4>3
    <3>2. FillInv'
      <4>1. Cardinality(Places') \in Nat /\ Cardinality(Places') <= Cardinality(Places)
        <5>1. Cardinality(Places') \in Nat
          BY <3>1, PromiseFacts, CountFacts, FS_CardinalityType
        <5>2. Places' \subseteq Places
          BY <3>1
        <5> QED BY <5>1, <5>2, PromiseFacts, FS_Subset
      <4> QED BY <1>1, <1>2, <4>1, PromiseFacts DEF FillInv
    <3>3. In(Consumers, "asleep")' # {} => itemsInQueue' <= Cardinality(Goods')
      BY <1>1, <1>2, <3>1 DEF NoneSleepsInVain, Goods
    <3> QED BY <1>1, <2>1, <3>1, <3>2, <3>3, Regroup
  <2> QED BY <1>1, <2>2, <2>3
<1> QED BY <1>3, <1>4 DEF Signal

(* A wakeup that nobody caused.                                            *)
LEMMA WakeUpStep ==
  ASSUME IInv, NEW t \in Users, WakeUp(t)
  PROVE  IInv'
<1>1. /\ t \in crew /\ queuePc[t] = "asleep" /\ queueFault = "none" /\ itemsInQueue \in Nat
      /\ spurious > 0 /\ spurious' = spurious - 1 /\ Goto(t, "awake")
      /\ UNCHANGED <<crew, queueSize, itemsInQueue, listLen, queueFault>>
      /\ listLen' \in Nat /\ listLen' <= itemsInQueue'
      /\ t \in Producers \/ t \in Consumers
  BY DEF WakeUp, At, IInv, ItemsInv, QueueTypeOK, Users
<1>2. NoneSleepsInVain /\ FillInv
  BY DEF IInv
<1>3. spurious' \in 0 .. MaxSpurious
  BY <1>1, PromiseFacts DEF IInv, QueueTypeOK
<1>4. /\ queuePc' \in [Users -> {"idle", "asleep", "awake", "signal"}] /\ CrewInv'
      /\ Places' = IF t \in Producers THEN Places \cup {t} ELSE Places
      /\ Goods' = IF t \in Producers THEN Goods ELSE Goods \cup {t}
      /\ t \notin Places /\ t \notin Goods
      /\ In(Producers, "asleep")' \subseteq In(Producers, "asleep")
      /\ In(Consumers, "asleep")' \subseteq In(Consumers, "asleep")
  BY <1>1, MoveFacts
<1>5. PICK n \in Nat, m \in Nat, g \in Nat, h \in Nat :
        /\ n = Cardinality(Places) /\ m = Cardinality(Places') /\ g = Cardinality(Goods)
        /\ h = Cardinality(Goods') /\ n <= m /\ m <= n + 1 /\ g <= h
  <2>1. CASE t \in Producers
    <3>1. Places' = Places \cup {t} /\ Goods' = Goods
      BY <1>4, <2>1
    <3>2. Cardinality(Places') = Cardinality(Places) + 1
      BY <1>4, <3>1, PromiseFacts, CountFacts
    <3> QED BY <3>1, <3>2, PromiseFacts
  <2>2. CASE t \notin Producers
    <3>1. Places' = Places /\ Goods' = Goods \cup {t}
      BY <1>4, <2>2
    <3>2. Cardinality(Goods') = Cardinality(Goods) + 1
      BY <1>4, <3>1, PromiseFacts, CountFacts
    <3> QED BY <3>1, <3>2, PromiseFacts
  <2> QED BY <2>1, <2>2
<1>6. FillInv'
  BY <1>1, <1>2, <1>5, PromiseFacts DEF FillInv
<1>7. In(Producers, "asleep")' # {} => itemsInQueue' + Cardinality(Places') >= queueSize
  <2>1. In(Producers, "asleep")' # {} => itemsInQueue + n >= queueSize
    BY <1>1, <1>2, <1>4, <1>5 DEF NoneSleepsInVain, Places
  <2> QED BY <1>1, <1>5, <2>1, PromiseFacts
<1>8. In(Consumers, "asleep")' # {} => itemsInQueue' <= Cardinality(Goods')
  <2>1. In(Consumers, "asleep")' # {} => itemsInQueue <= g
    BY <1>1, <1>2, <1>4, <1>5 DEF NoneSleepsInVain, Goods
  <2> QED BY <1>1, <1>5, <2>1
<1> QED BY <1>1, <1>3, <1>4, <1>6, <1>7, <1>8, Regroup

-----------------------------------------------------------------------------
(* The inductive invariant.                                                *)
THEOREM Inductive == QueueSpec => []IInv
<1>1. QueueInit => IInv
  <2> SUFFICES ASSUME QueueInit PROVE IInv
    OBVIOUS
  <2>1. /\ Places = {} /\ Goods = {} /\ In(Producers, "asleep") = {} /\ In(Consumers, "asleep") = {}
        /\ crew # {} /\ IsFiniteSet(crew) /\ crew \subseteq Users
        /\ itemsInQueue = 0 /\ queueSize \in Nat /\ spurious = MaxSpurious /\ MaxSpurious \in Nat
    BY QueueAssumption, FS_Subset, FS_Union DEF QueueInit, Places, Goods, In, Users
  <2>2. Cardinality(crew) \in Nat /\ Cardinality(crew) # 0 /\ Cardinality(Places) = 0
    BY <2>1, FS_CardinalityType, FS_EmptySet
  <2>3. FillInv
    BY <2>1, <2>2 DEF FillInv
  <2>4. QueueTypeOK /\ CrewInv /\ ItemsInv
    BY <2>1 DEF QueueInit, QueueTypeOK, CrewInv, ItemsInv
  <2>5. NoneSleepsInVain
    BY <2>1 DEF NoneSleepsInVain
  <2> QED BY <2>3, <2>4, <2>5 DEF IInv
<1>2. IInv /\ [QueueNext]_queueVars => IInv'
  <2> SUFFICES ASSUME IInv, [QueueNext]_queueVars PROVE IInv'
    OBVIOUS
  <2>1. CASE UNCHANGED queueVars
    BY <2>1 DEF queueVars, IInv, QueueTypeOK, CrewInv, ItemsInv, FillInv, NoneSleepsInVain, Places, In
  <2>2. CASE QueueNext
    BY <2>2, EnqueueStep, DequeueStep, SignalStep, WakeUpStep DEF QueueNext
  <2> QED BY <2>1, <2>2
<1> QED BY <1>1, <1>2, PTL DEF QueueSpec

(* The queue exceeds its size by no more items than threads use it but one, *)
(* and one for every spurious wakeup: with any number of threads.          *)
THEOREM OverfillBound == QueueSpec => []OverfillIsBounded
<1>1. IInv => OverfillIsBounded
  <2> SUFFICES ASSUME IInv PROVE OverfillIsBounded
    OBVIOUS
  <2>1. itemsInQueue \in Int
    BY DEF IInv, QueueTypeOK
  <2> QED BY <2>1, PromiseFacts DEF IInv, FillInv, OverfillIsBounded
<1> QED BY <1>1, Inductive, PTL

(* No signal is lost: a thread sleeps only while all it could use is taken,  *)
(* or promised to one that is awake or about to be woken.                   *)
THEOREM NoSignalLost == QueueSpec => []NoneSleepsInVain
<1>1. IInv => NoneSleepsInVain
  BY DEF IInv
<1> QED BY <1>1, Inductive, PTL
==============================================================================
