-------------------------------- MODULE Foreach --------------------------------
(***************************************************************************)
(* src/src/util/functional/foreach.c: workers that share a supplier, under a *)
(* mutex, and a flag that stops them.  foreach_do, and the functions over    *)
(* lists that call it, behave like one worker.                              *)
(*                                                                         *)
(* The supplier is an iterator over a list: items are numbered in its order, *)
(* 0 is the NULL after the last.  Reading the iterator and advancing it are  *)
(* two steps.                                                              *)
(***************************************************************************)
EXTENDS Integers, FiniteSets

CONSTANTS
  Workers,    \* threads that may be started, at least one
  Length      \* of the list

ASSUME LengthAssumption == Length \in Nat

VARIABLES
  team,       \* the threads of this call
  refused,    \* external: the items the consumer answers false for
  next,       \* the item the iterator is at
  mtx,        \* the workers in the supplier
  workerPc, tmp,    \* per worker: where it is, the item it has
  consumed,   \* per item: the calls of the consumer
  status,     \* foreachStatus
  mustStop
foreachVars == <<team, refused, next, mtx, workerPc, tmp, consumed, status, mustStop>>

Items == 1 .. Length
ForeachInit ==
  /\ team \in (SUBSET Workers) \ {{}}
  /\ refused \in SUBSET Items
  /\ next = IF Length = 0 THEN 0 ELSE 1
  /\ mtx = {}
  /\ workerPc = [w \in Workers |-> IF w \in team THEN "ask" ELSE "done"]
  /\ tmp = [w \in Workers |-> 0]
  /\ consumed = [i \in Items |-> 0]
  /\ status = "ok" /\ mustStop = FALSE

Move(w, p) == workerPc' = [workerPc EXCEPT ![w] = p]

(* safeSupplier.                                                           *)
(* Variant: without the mutex.                                             *)
AskUnlocked(w) ==
  /\ workerPc[w] = "ask"
  /\ mtx' = mtx \cup {w} /\ tmp' = [tmp EXCEPT ![w] = next]
  /\ Move(w, "supplier") /\ UNCHANGED <<team, refused, next, consumed, status, mustStop>>
Ask(w) ==
  /\ workerPc[w] = "ask" /\ mtx = {}
  /\ mtx' = {w} /\ tmp' = [tmp EXCEPT ![w] = next]
  /\ Move(w, "supplier")
  /\ UNCHANGED <<team, refused, next, consumed, status, mustStop>>
Supplied(w) ==
  /\ workerPc[w] = "supplier"
  /\ next' = IF tmp[w] \in Items \ {Length} THEN tmp[w] + 1 ELSE 0
  /\ mtx' = mtx \ {w}
  /\ Move(w, IF tmp[w] = 0 THEN "stop" ELSE "consume")
  /\ UNCHANGED <<team, refused, tmp, consumed, status, mustStop>>

(* The consumer's answer, and the test of the flag after it.                *)
Consume(w) ==
  /\ workerPc[w] = "consume"
  /\ consumed' = [consumed EXCEPT ![tmp[w]] = @ + 1]
  /\ IF tmp[w] \in refused THEN status' = "failed" /\ Move(w, "stop")
                           ELSE UNCHANGED status /\ Move(w, "test")
  /\ UNCHANGED <<team, refused, next, mtx, tmp, mustStop>>
TestStop(w) ==
  /\ workerPc[w] = "test"
  /\ Move(w, IF mustStop THEN "stop" ELSE "ask")
  /\ UNCHANGED <<team, refused, next, mtx, tmp, consumed, status, mustStop>>
Stop(w) ==
  /\ workerPc[w] = "stop"
  /\ mustStop' = TRUE /\ Move(w, "done")
  /\ UNCHANGED <<team, refused, next, mtx, tmp, consumed, status>>

ForeachNext == \E w \in team : Ask(w) \/ Supplied(w) \/ Consume(w) \/ TestStop(w) \/ Stop(w)
ForeachSpec == ForeachInit /\ [][ForeachNext]_foreachVars
-----------------------------------------------------------------------------
(* Every variable keeps its type.                                          *)
ForeachTypeOK ==
  /\ team \subseteq Workers /\ mtx \subseteq team /\ refused \subseteq Items
  /\ next \in 0 .. Length
  /\ workerPc \in [Workers -> {"ask", "supplier", "consume", "test", "stop", "done"}]
  /\ tmp \in [Workers -> 0 .. Length] /\ consumed \in [Items -> Nat]
  /\ status \in {"ok", "failed"} /\ mustStop \in BOOLEAN

(* No item is consumed twice, and when the last worker has been joined the   *)
(* status is true: FOREACH_OK after every item was consumed and accepted,    *)
(* FOREACH_FAILED after one was refused.  Workers stop early only then       *)
(* (foreach.c:39), and nothing the supplier gave is lost.                   *)
VerdictIsTrue ==
  /\ \A i \in Items : consumed[i] <= 1
  /\ (\A w \in team : workerPc[w] = "done") =>
       /\ status = "failed" <=> \E i \in refused : consumed[i] = 1
       /\ status = "ok" => \A i \in Items : consumed[i] = 1
       /\ \A i \in Items : consumed[i] = 0 => next # 0 /\ next <= i
=============================================================================
