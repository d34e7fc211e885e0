---------------------------- MODULE LuaCoroutine ----------------------------
(***************************************************************************)
(* What the coroutine runtime promises, without fibers, contexts or locks: *)
(* asymmetric coroutines, as the words RUNNING, SUSPENDED and DEAD of      *)
(* src/src/fiber.h and the messages of coroutine_resume mean them.  Every  *)
(* thread has a chain of nested coroutines and executes the last one;      *)
(* resuming lengthens the chain, yielding and ending shorten it, and each  *)
(* of these is one indivisible step.                                       *)
(***************************************************************************)
EXTENDS Naturals, Sequences

CONSTANTS Threads, Coroutines

VARIABLES
  chain,    \* thread -> its native flow followed by the coroutines inside it
  status    \* coroutine -> "none", "suspended", "running" or "dead"

vars == <<chain, status>>

Init == /\ chain  = [t \in Threads |-> <<t>>]
        /\ status = [c \in Coroutines |-> "none"]

Move(c, from, to) == /\ status[c] = from
                     /\ status' = [status EXCEPT ![c] = to]

Leave(t) == chain' = [chain EXCEPT ![t] = SubSeq(@, 1, Len(@) - 1)]

New(c) == Move(c, "none", "suspended") /\ UNCHANGED chain

Resume(t, c) == /\ Move(c, "suspended", "running")
                /\ chain' = [chain EXCEPT ![t] = Append(@, c)]

Inner(t) == chain[t][Len(chain[t])]

Yield(t) == /\ Len(chain[t]) > 1
            /\ Move(Inner(t), "running", "suspended")
            /\ Leave(t)

End(t) == /\ Len(chain[t]) > 1
          /\ Move(Inner(t), "running", "dead")
          /\ Leave(t)

Discard(c) == /\ status[c] \in {"suspended", "dead"}
              /\ status' = [status EXCEPT ![c] = "none"]
              /\ UNCHANGED chain

Next == \/ \E c \in Coroutines : New(c) \/ Discard(c)
        \/ \E t \in Threads : Yield(t) \/ End(t)
        \/ \E t \in Threads, c \in Coroutines : Resume(t, c)

Spec == Init /\ [][Next]_vars
=============================================================================
