----------------------------- MODULE ForeachProofs -----------------------------
(***************************************************************************)
(* Proofs about the parallel foreach, for any workers, any length of the    *)
(* list and any items that the consumer refuses.                           *)
(***************************************************************************)
EXTENDS Foreach, TLAPS

(* An item the supplier has handed out, and one a worker holds unconsumed.  *)
Given(i)   == next = 0 \/ i < next
Holds(w, i) == workerPc[w] = "consume" /\ tmp[w] = i

(* The mutex is held by the one worker in the supplier, and while it is, the *)
(* iterator stays where that worker read it.                               *)
SupplierInv ==
  /\ mtx = {w \in team : workerPc[w] = "supplier"}
  /\ \A v, w \in mtx : v = w
  /\ \A w \in mtx : tmp[w] = next

(* Every item handed out is in one place: with one worker, or consumed.     *)
ItemsInv ==
  /\ \A w \in team : workerPc[w] = "consume" => tmp[w] \in Items
  /\ \A i \in Items : consumed[i] \in {0, 1}
  /\ \A i \in Items : consumed[i] = 1 => Given(i)
  /\ \A i \in Items, w \in team : Holds(w, i) => consumed[i] = 0 /\ Given(i)
  /\ \A i \in Items, v, w \in team : Holds(v, i) /\ Holds(w, i) => v = w
  /\ \A i \in Items : Given(i) => consumed[i] = 1 \/ \E w \in team : Holds(w, i)

(* Nobody stops without a reason.                                          *)
Finished == next = 0 \/ status = "failed"
StopInv ==
  /\ team # {}
  /\ status = "failed" <=> \E i \in refused : consumed[i] = 1
  /\ mustStop => Finished
  /\ \A w \in team : workerPc[w] \in {"stop", "done"} => Finished

IInv == ForeachTypeOK /\ SupplierInv /\ ItemsInv /\ StopInv

(* The invariant gives the property.                                       *)
LEMMA Verdict ==
  ASSUME IInv
  PROVE  VerdictIsTrue
<1>1. \A i \in Items : consumed[i] \in {0, 1} /\ consumed[i] <= 1
  BY DEF IInv, ItemsInv
<1>2. ASSUME \A w \in team : workerPc[w] = "done"
      PROVE  /\ status = "failed" <=> \E i \in refused : consumed[i] = 1
             /\ status = "ok" => \A i \in Items : consumed[i] = 1
             /\ \A i \in Items : consumed[i] = 0 => next # 0 /\ next <= i
  <2>1. status = "failed" <=> \E i \in refused : consumed[i] = 1
    BY DEF IInv, StopInv
  <2>2. \A i \in Items : Given(i) => consumed[i] = 1
    BY <1>2 DEF IInv, ItemsInv, Holds
  <2>3. status = "ok" => next = 0
    BY <1>2 DEF IInv, StopInv, Finished
  <2>4. status = "ok" => \A i \in Items : consumed[i] = 1
    BY <2>2, <2>3 DEF Given
  <2>5. ASSUME NEW i \in Items, consumed[i] = 0 PROVE next # 0 /\ next <= i
    <3>1. ~Given(i)
      BY <2>2, <2>5
    <3>2. i \in Nat /\ next \in Nat
      BY DEF Items, IInv, ForeachTypeOK
    <3> QED BY <3>1, <3>2 DEF Given
  <2> QED BY <2>1, <2>4, <2>5
<1> QED BY <1>1, <1>2 DEF VerdictIsTrue

(* A worker goes on from one place to another.                              *)
LEMMA MoveFacts ==
  ASSUME ForeachTypeOK, NEW w \in team, NEW p \in {"ask", "supplier", "consume", "test", "stop", "done"},
         Move(w, p)
  PROVE  /\ workerPc' \in [Workers -> {"ask", "supplier", "consume", "test", "stop", "done"}]
         /\ workerPc'[w] = p
         /\ \A v \in team : v # w => workerPc'[v] = workerPc[v]
BY DEF ForeachTypeOK, Move

(* The steps that touch neither the items nor the supplier.                  *)
LEMMA QuietStep ==
  ASSUME IInv, NEW w \in team, NEW p \in {"ask", "stop", "done"}, Move(w, p),
         workerPc[w] \in {"test", "stop"}, p \in {"stop", "done"} => Finished,
         UNCHANGED <<team, refused, next, mtx, tmp, consumed, status>>,
         mustStop' \in BOOLEAN, mustStop' => Finished
  PROVE  IInv'
<1>1. /\ workerPc' \in [Workers -> {"ask", "supplier", "consume", "test", "stop", "done"}]
      /\ workerPc'[w] = p /\ \A v \in team : v # w => workerPc'[v] = workerPc[v]
  BY MoveFacts DEF IInv
<1>2. ForeachTypeOK'
  BY <1>1 DEF IInv, ForeachTypeOK, Items
<1>3. SupplierInv'
  BY <1>1 DEF IInv, SupplierInv
<1>4. ItemsInv'
  <2>1. \A v \in team, i \in Items : Holds(v, i)' <=> Holds(v, i)
    BY <1>1 DEF Holds
  <2>2. \A i \in Items : Given(i)' <=> Given(i)
    BY DEF Given
  <2>3. \A v \in team : workerPc'[v] = "consume" => workerPc[v] = "consume"
    BY <1>1
  <2> QED BY <2>1, <2>2, <2>3 DEF IInv, ItemsInv, Items
<1>5. StopInv'
  BY <1>1 DEF IInv, StopInv, Finished
<1> QED BY <1>2, <1>3, <1>4, <1>5 DEF IInv

(* A worker enters the supplier, and reads the iterator.                    *)
LEMMA AskStep ==
  ASSUME IInv, NEW w \in team, Ask(w)
  PROVE  IInv'
<1>1. /\ Move(w, "supplier") /\ mtx = {} /\ mtx' = {w} /\ tmp' = [tmp EXCEPT ![w] = next]
      /\ UNCHANGED <<team, refused, next, consumed, status, mustStop>> /\ workerPc[w] = "ask"
      /\ team \subseteq Workers
  BY DEF Ask, IInv, ForeachTypeOK
<1>2. /\ workerPc' \in [Workers -> {"ask", "supplier", "consume", "test", "stop", "done"}]
      /\ workerPc'[w] = "supplier" /\ \A v \in team : v # w => workerPc'[v] = workerPc[v]
  BY <1>1, MoveFacts DEF IInv
<1>3. /\ tmp' \in [Workers -> 0 .. Length] /\ tmp'[w] = next
      /\ \A v \in team : v # w => tmp'[v] = tmp[v]
  BY <1>1 DEF IInv, ForeachTypeOK
<1>4. ForeachTypeOK'
  BY <1>1, <1>2, <1>3 DEF IInv, ForeachTypeOK, Items
<1>5. SupplierInv'
  BY <1>1, <1>2, <1>3 DEF IInv, SupplierInv
<1>6. ItemsInv'
  <2>1. \A v \in team, i \in Items : Holds(v, i)' <=> Holds(v, i)
    BY <1>1, <1>2, <1>3 DEF Holds
  <2>2. \A i \in Items : Given(i)' <=> Given(i)
    BY <1>1 DEF Given
  <2>3. \A v \in team : workerPc'[v] = "consume" => workerPc[v] = "consume" /\ tmp'[v] = tmp[v]
    BY <1>2, <1>3
  <2> QED BY <1>1, <2>1, <2>2, <2>3 DEF IInv, ItemsInv, Items
<1>7. StopInv'
  BY <1>1, <1>2 DEF IInv, StopInv, Finished
<1> QED BY <1>4, <1>5, <1>6, <1>7 DEF IInv

(* It advances the iterator, and leaves with the item it read.               *)
LEMMA SuppliedStep ==
  ASSUME IInv, NEW w \in team, Supplied(w)
  PROVE  IInv'
<1>1. /\ workerPc[w] = "supplier" /\ mtx' = mtx \ {w} /\ team \subseteq Workers
      /\ next' = IF tmp[w] \in Items \ {Length} THEN tmp[w] + 1 ELSE 0
      /\ Move(w, IF tmp[w] = 0 THEN "stop" ELSE "consume")
      /\ UNCHANGED <<team, refused, tmp, consumed, status, mustStop>>
  BY DEF Supplied, IInv, ForeachTypeOK
<1>2. /\ workerPc' \in [Workers -> {"ask", "supplier", "consume", "test", "stop", "done"}]
      /\ workerPc'[w] = IF tmp[w] = 0 THEN "stop" ELSE "consume"
      /\ \A v \in team : v # w => workerPc'[v] = workerPc[v]
  BY <1>1, MoveFacts DEF IInv
<1>3. /\ mtx = {w} /\ mtx' = {} /\ tmp[w] = next
      /\ \A v \in team : workerPc[v] = "supplier" => v = w
  BY <1>1 DEF IInv, SupplierInv
<1>4. next \in 0 .. Length /\ next' \in 0 .. Length
  BY <1>1, <1>3, LengthAssumption DEF IInv, ForeachTypeOK, Items
<1>5. /\ next = 0 => next' = 0
      /\ next \in Items /\ next = Length => next' = 0
      /\ next \in Items /\ next # Length => next' = next + 1
      /\ next # 0 => next \in Items
  BY <1>1, <1>3, <1>4 DEF Items
<1>6. ForeachTypeOK'
  BY <1>1, <1>2, <1>3, <1>4 DEF IInv, ForeachTypeOK, Items
<1>7. SupplierInv'
  <2>1. ASSUME NEW v \in team PROVE workerPc'[v] # "supplier"
    BY <1>2, <1>3
  <2> QED BY <1>1, <1>3, <2>1 DEF SupplierInv
<1>8. \A i \in Items : Given(i)' <=> Given(i) \/ i = next
  BY <1>4, <1>5 DEF Given, Items
<1>9. \A i \in Items : i = next => ~Given(i)
  BY <1>4 DEF Given, Items
<1>10. /\ \A v \in team, i \in Items : v # w => (Holds(v, i)' <=> Holds(v, i))
       /\ \A i \in Items : Holds(w, i)' <=> i = next
       /\ \A i \in Items : ~Holds(w, i)
  BY <1>1, <1>2, <1>3 DEF Holds, Items
<1>11. ItemsInv'
  <2>1. \A v \in team : workerPc'[v] = "consume" => tmp'[v] \in Items'
    BY <1>1, <1>2, <1>3, <1>5 DEF IInv, ItemsInv, Items
  <2>2. \A i \in Items : consumed[i] \in {0, 1} /\ (i = next => consumed[i] = 0)
    BY <1>9 DEF IInv, ItemsInv
  <2>3. \A i \in Items : consumed[i] = 1 => Given(i)'
    BY <1>8 DEF IInv, ItemsInv
  <2>4. \A i \in Items, v \in team : Holds(v, i)' => consumed[i] = 0 /\ Given(i)'
    BY <1>8, <1>10, <2>2 DEF IInv, ItemsInv
  <2>5. \A i \in Items, u, v \in team : Holds(u, i)' /\ Holds(v, i)' => u = v
    BY <1>9, <1>10 DEF IInv, ItemsInv
  <2>6. \A i \in Items : Given(i)' => consumed[i] = 1 \/ \E v \in team : Holds(v, i)'
    BY <1>8, <1>10 DEF IInv, ItemsInv
  <2> QED BY <1>1, <2>1, <2>2, <2>3, <2>4, <2>5, <2>6 DEF ItemsInv, Items
<1>12. StopInv'
  BY <1>1, <1>2, <1>3, <1>5 DEF IInv, StopInv, Finished
<1> QED BY <1>6, <1>7, <1>11, <1>12 DEF IInv

(* The consumer answers for the item.                                      *)
LEMMA ConsumeStep ==
  ASSUME IInv, NEW w \in team, Consume(w)
  PROVE  IInv'
<1> DEFINE k == tmp[w]
<1>1. /\ workerPc[w] = "consume" /\ k \in Items /\ consumed \in [Items -> Nat] /\ team \subseteq Workers
      /\ consumed[k] = 0 /\ Given(k) /\ Holds(w, k)
  BY DEF Consume, IInv, ItemsInv, Holds, ForeachTypeOK
<1>2. /\ consumed' = [consumed EXCEPT ![k] = @ + 1]
      /\ status' = IF k \in refused THEN "failed" ELSE status
      /\ Move(w, IF k \in refused THEN "stop" ELSE "test")
      /\ UNCHANGED <<team, refused, next, mtx, tmp, mustStop>>
  BY DEF Consume
<1>3. /\ workerPc' \in [Workers -> {"ask", "supplier", "consume", "test", "stop", "done"}]
      /\ workerPc'[w] = IF k \in refused THEN "stop" ELSE "test"
      /\ \A v \in team : v # w => workerPc'[v] = workerPc[v]
  BY <1>2, MoveFacts DEF IInv
<1>4. /\ consumed' \in [Items -> Nat] /\ consumed'[k] = 1
      /\ \A i \in Items : i # k => consumed'[i] = consumed[i]
  BY <1>1, <1>2
<1>5. ForeachTypeOK'
  BY <1>2, <1>3, <1>4 DEF IInv, ForeachTypeOK, Items
<1>6. SupplierInv'
  BY <1>1, <1>2, <1>3 DEF IInv, SupplierInv
<1>7. \A i \in Items : Given(i)' <=> Given(i)
  BY <1>2 DEF Given
<1>8. \A v \in team, i \in Items : Holds(v, i)' <=> v # w /\ Holds(v, i)
  BY <1>2, <1>3 DEF Holds
<1>9. \A i \in Items : Holds(w, i) => i = k
  BY DEF Holds
<1>10. ItemsInv'
  <2>1. \A v \in team : workerPc'[v] = "consume" => tmp'[v] \in Items'
    BY <1>2, <1>3 DEF IInv, ItemsInv, Items
  <2>2. \A i \in Items : consumed'[i] \in {0, 1}
    BY <1>4 DEF IInv, ItemsInv
  <2>3. \A i \in Items : consumed'[i] = 1 => Given(i)'
    BY <1>1, <1>4, <1>7 DEF IInv, ItemsInv
  <2>4. \A i \in Items, v \in team : Holds(v, i)' => consumed'[i] = 0 /\ Given(i)'
    BY <1>1, <1>4, <1>7, <1>8 DEF IInv, ItemsInv
  <2>5. \A i \in Items, u, v \in team : Holds(u, i)' /\ Holds(v, i)' => u = v
    BY <1>8 DEF IInv, ItemsInv
  <2>6. \A i \in Items : Given(i)' => consumed'[i] = 1 \/ \E v \in team : Holds(v, i)'
    BY <1>4, <1>7, <1>8, <1>9 DEF IInv, ItemsInv
  <2> QED BY <1>2, <2>1, <2>2, <2>3, <2>4, <2>5, <2>6 DEF ItemsInv, Items
<1>11. StopInv'
  <2>1. team' # {} /\ refused \subseteq Items
    BY <1>2 DEF IInv, StopInv, ForeachTypeOK
  <2>2. Finished => Finished'
    BY <1>2 DEF Finished
  <2>3. status' = "failed" <=> \E i \in refused' : consumed'[i] = 1
    BY <1>1, <1>2, <1>4, <2>1 DEF IInv, StopInv
  <2>4. mustStop' => Finished'
    BY <1>2, <2>2 DEF IInv, StopInv
  <2>5. \A v \in team' : workerPc'[v] \in {"stop", "done"} => Finished'
    BY <1>2, <1>3, <2>2 DEF IInv, StopInv, Finished
  <2> QED BY <2>1, <2>3, <2>4, <2>5 DEF StopInv
<1> QED BY <1>5, <1>6, <1>10, <1>11 DEF IInv

-----------------------------------------------------------------------------
(* The inductive invariant: the workers share the supplier one at a time,    *)
(* and every item it gave is held by one of them or consumed once.          *)
THEOREM Inductive == ForeachSpec => []IInv
<1>1. ForeachInit => IInv
  <2> SUFFICES ASSUME ForeachInit PROVE IInv
    OBVIOUS
  <2>1. ForeachTypeOK
    <3>1. workerPc \in [Workers -> {"ask", "supplier", "consume", "test", "stop", "done"}]
      BY DEF ForeachInit
    <3>2. next \in 0 .. Length /\ tmp \in [Workers -> 0 .. Length] /\ consumed \in [Items -> Nat]
      BY LengthAssumption DEF ForeachInit
    <3>3. team \subseteq Workers /\ mtx \subseteq team /\ refused \subseteq Items
      BY DEF ForeachInit
    <3> QED BY <3>1, <3>2, <3>3 DEF ForeachInit, ForeachTypeOK
  <2>2. /\ team # {} /\ mtx = {} /\ status = "ok" /\ ~mustStop
        /\ \A w \in team : workerPc[w] = "ask"
        /\ \A i \in Items : consumed[i] = 0 /\ ~Given(i)
        /\ refused \subseteq Items
    BY DEF ForeachInit, Given, Items
  <2>3. SupplierInv /\ ItemsInv /\ StopInv
    BY <2>2 DEF SupplierInv, ItemsInv, StopInv, Holds
  <2> QED BY <2>1, <2>3 DEF IInv
<1>2. IInv /\ [ForeachNext]_foreachVars => IInv'
  <2> SUFFICES ASSUME IInv, [ForeachNext]_foreachVars PROVE IInv'
    OBVIOUS
  <2>1. CASE UNCHANGED foreachVars
    BY <2>1 DEF foreachVars, IInv, ForeachTypeOK, SupplierInv, ItemsInv, StopInv, Finished, Holds, Given, Items
  <2>2. ASSUME NEW w \in team, TestStop(w) PROVE IInv'
    <3>1. /\ workerPc[w] = "test" /\ Move(w, IF mustStop THEN "stop" ELSE "ask")
          /\ UNCHANGED <<team, refused, next, mtx, tmp, consumed, status, mustStop>>
      BY <2>2 DEF TestStop
    <3>2. mustStop \in BOOLEAN /\ (mustStop => Finished)
      BY DEF IInv, ForeachTypeOK, StopInv
    <3>3. CASE mustStop
      BY <3>1, <3>2, <3>3, QuietStep
    <3>4. CASE ~mustStop
      BY <3>1, <3>2, <3>4, QuietStep
    <3> QED BY <3>3, <3>4
  <2>3. ASSUME NEW w \in team, Stop(w) PROVE IInv'
    <3>1. /\ workerPc[w] = "stop" /\ Move(w, "done") /\ mustStop' = TRUE
          /\ UNCHANGED <<team, refused, next, mtx, tmp, consumed, status>>
      BY <2>3 DEF Stop
    <3>2. Finished
      BY <3>1 DEF IInv, StopInv
    <3> QED BY <3>1, <3>2, QuietStep
  <2>4. CASE ForeachNext
    BY <2>2, <2>3, <2>4, AskStep, SuppliedStep, ConsumeStep DEF ForeachNext
  <2> QED BY <2>1, <2>4
<1> QED BY <1>1, <1>2, PTL DEF ForeachSpec

(* No item is consumed twice, none is lost, and the status that foreach      *)
(* returns when all workers are done says what happened: with any number of *)
(* workers, and for a list of any length.                                  *)
THEOREM VerdictHolds == ForeachSpec => []VerdictIsTrue
<1>1. IInv => VerdictIsTrue
  BY Verdict
<1> QED BY <1>1, Inductive, PTL
==============================================================================
