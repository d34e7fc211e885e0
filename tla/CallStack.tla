------------------------------ MODULE CallStack ------------------------------
(***************************************************************************)
(* The call stack of one coroutine: coroutine_function_prolog and _epilog  *)
(* and coroutine_iterate_call_stack of src/src/coroutine.c, and the        *)
(* protected calls of src/src/interpreter.c (interpreter_xpcall,           *)
(* interpreter_error), which unwind it.                                    *)
(*                                                                         *)
(* Two stacks run in parallel.  callStack is the data structure other      *)
(* threads may look at; activations is the C stack of the thread that      *)
(* executes the coroutine: one entry per function whose interpreter_exec   *)
(* has not returned and per interpreter_xpcall in progress.  longjmp cuts  *)
(* the second and leaves the first as it is, until the unwinding of        *)
(* interpreter_xpcall catches up under callStackLock.                      *)
(*                                                                         *)
(* This is the "run" position of module Coroutine: what one body does      *)
(* between its resumes and yields, which leave both stacks alone.  The     *)
(* executor iterating over its own call stack is left out.                 *)
(***************************************************************************)
EXTENDS Integers, SequencesExt

CONSTANTS
  Frames,          \* call states (the name of a popped one is reused)
  NULL,
  Executor,        \* the thread that executes the coroutine
  Observers,       \* threads that iterate over its call stack
  MaxFrames,       \* FLUFFYVM_CALL_STACK_SIZE
  MaxProtected,    \* bound: interpreter_xpcalls in progress at once
  CallWhenFull,    \* TRUE: a body may call at depth MaxFrames
  LateAllocFails   \* TRUE: the prolog may run out of memory after its push

ASSUME ThreadsAssumption ==
  Executor \notin Observers /\ NULL \notin Frames \cup Observers \cup {Executor}
ASSUME BoundsAssumption ==
  MaxFrames \in Nat /\ MaxFrames >= 1 /\ MaxProtected \in Nat
ASSUME EnvironmentAssumption ==
  CallWhenFull \in BOOLEAN /\ LateAllocFails \in BOOLEAN

VARIABLES
  callStack,         \* co->callStack, the oldest frame first
  ready,             \* frames whose closure has been set
  currentCallState,  \* co->currentCallState
  callStackLock,     \* the thread that holds co->callStackLock, or NULL
  activations,       \* C stack: [kind, frame, prev]
  errorHandler,      \* co->errorHandler: an index of activations, 0 for NULL
  pc,                \* where the executor is
  callee,            \* the prolog's callState, or NULL
  usage, seen,       \* per observer: local usage, frames already visited
  backward,          \* per observer: parameter of the iteration
  fault              \* "none", or how the process was lost

stackVars == <<callStack, ready, currentCallState>>
cVars     == <<activations, errorHandler, pc, callee>>
viewVars  == <<usage, seen, backward>>
vars == <<stackVars, callStackLock, cVars, viewVars, fault>>

(* Kinds of activation.  "native": what a thread itself runs; "task": the   *)
(* block of coroutine_new; "call": a called function; "xpcall": a protected *)
(* call; "handler": one whose error handler runs or has run.               *)
(* frame is the activation's own frame, for the last two callerState; prev  *)
(* is prevErrorHandler.                                                     *)
Functions == {"native", "task", "call"}
Activation == [kind : Functions \cup {"xpcall", "handler"},
               frame : Frames, prev : Nat]

Init ==
  /\ \E f \in Frames, kind \in {"native", "task"} :
       /\ callStack = <<f>> /\ ready = {f} /\ currentCallState = f
       /\ activations = <<[kind |-> kind, frame |-> f, prev |-> 0]>>
       /\ errorHandler = IF kind = "task" THEN 1 ELSE 0
  /\ callStackLock = NULL
  /\ pc = "run" /\ callee = NULL
  /\ usage    = [o \in Observers |-> 0]
  /\ seen     = [o \in Observers |-> 0]
  /\ backward = [o \in Observers |-> FALSE]
  /\ fault = "none"

At(p) == fault = "none" /\ pc = p

Lose(how) == fault' = how /\ UNCHANGED <<stackVars, callStackLock, cVars, viewVars>>

Innermost == Last(activations)

(* What a call state can be allocated as: the collector gives no live one.  *)
Free == Frames \ (ToSet(callStack) \cup {a.frame : a \in ToSet(activations)})

(* internal_function_epilog.                                               *)
PopFrame ==
  /\ callStack' = Front(callStack)
  /\ ready' = ready \ {Last(callStack)}
  /\ currentCallState' = IF Len(callStack) = 1 THEN NULL
                                               ELSE callStack[Len(callStack) - 1]

-----------------------------------------------------------------------------
(* Variant: the prolog does not look at the size of the stack.             *)
CallUnchecked(f) ==
  /\ At("run")
  /\ f \in Free
  /\ callStackLock = NULL
  /\ callStack' = Append(callStack, f)
  /\ callee' = f
  /\ pc' = "fill"
  /\ UNCHANGED <<ready, currentCallState, callStackLock, activations,
                 errorHandler, viewVars, fault>>

(* coroutine_function_prolog up to the unlock.  With a full stack the new   *)
(* call state is given up, yet a frame -- the caller's -- is popped, and    *)
(* the lock is kept.                                                        *)
Call(f) ==
  /\ At("run")
  /\ f \in Free
  /\ CallWhenFull \/ Len(callStack) < MaxFrames
  /\ callStackLock = NULL
  /\ IF Len(callStack) < MaxFrames
     THEN /\ callStack' = Append(callStack, f)
          /\ callee' = f
          /\ pc' = "fill"
          /\ UNCHANGED <<ready, currentCallState, callStackLock>>
     ELSE /\ PopFrame
          /\ callStackLock' = Executor
          /\ pc' = "throw"
          /\ UNCHANGED callee
  /\ UNCHANGED <<activations, errorHandler, viewVars, fault>>

(* ... whose first allocation may fail, before anything is changed.        *)
CallUnallocated ==
  /\ At("run")
  /\ pc' = "throw"
  /\ UNCHANGED <<stackVars, callStackLock, activations, errorHandler, callee,
                 viewVars, fault>>

(* ... callState->closure = func, with the frame already in the stack ...  *)
CallFill ==
  /\ At("fill")
  /\ ready' = ready \cup {callee}
  /\ pc' = "alloc"
  /\ UNCHANGED <<callStack, currentCallState, callStackLock, activations,
                 errorHandler, callee, viewVars, fault>>

(* ... the registers and the value stack.  When memory runs out the frame   *)
(* is popped without the lock.                                             *)
CallEnter ==
  /\ At("alloc")
  /\ \E ok \in IF LateAllocFails THEN BOOLEAN ELSE {TRUE} :
       IF ok
       THEN /\ currentCallState' = callee
            /\ activations' = Append(activations,
                 [kind |-> "call", frame |-> callee, prev |-> 0])
            /\ pc' = "run"
            /\ UNCHANGED <<callStack, ready>>
       ELSE PopFrame /\ pc' = "throw" /\ UNCHANGED activations
  /\ callee' = NULL
  /\ UNCHANGED <<callStackLock, errorHandler, viewVars, fault>>

(* Variant: the epilog leaves currentCallState to its caller.              *)
ReturnStale ==
  /\ At("run")
  /\ Innermost.kind = "call"
  /\ callStackLock = NULL
  /\ callStack' = Front(callStack)
  /\ ready' = ready \ {Last(callStack)}
  /\ activations' = Front(activations)
  /\ UNCHANGED <<currentCallState, callStackLock, errorHandler, pc, callee,
                 viewVars, fault>>

(* interpreter_exec of a called function returned: coroutine_function_epilog*)
Return ==
  /\ At("run")
  /\ Innermost.kind = "call"
  /\ callStackLock = NULL
  /\ PopFrame
  /\ activations' = Front(activations)
  /\ UNCHANGED <<callStackLock, errorHandler, pc, callee, viewVars, fault>>

(* ... of the coroutine's own function.                                    *)
End ==
  /\ At("run")
  /\ Innermost.kind = "task"
  /\ callStackLock = NULL
  /\ PopFrame
  /\ activations' = <<>>
  /\ errorHandler' = 0
  /\ pc' = "dead"
  /\ UNCHANGED <<callStackLock, callee, viewVars, fault>>
-----------------------------------------------------------------------------
(* interpreter_xpcall up to thingToExecute().                              *)
Protect ==
  /\ At("run")
  /\ Cardinality({i \in DOMAIN activations : activations[i].kind \notin Functions})
       < MaxProtected
  /\ activations' = Append(activations,
       [kind |-> "xpcall", frame |-> currentCallState, prev |-> errorHandler])
  /\ errorHandler' = Len(activations')
  /\ UNCHANGED <<stackVars, callStackLock, pc, callee, viewVars, fault>>

(* Variant: errorHandler is restored after an error only.                  *)
UnprotectForgotten ==
  /\ At("run")
  /\ Innermost.kind = "xpcall"
  /\ activations' = Front(activations)
  /\ UNCHANGED <<stackVars, callStackLock, errorHandler, pc, callee, viewVars,
                 fault>>

(* thingToExecute() returned.                                              *)
Unprotect ==
  /\ At("run")
  /\ Innermost.kind = "xpcall"
  /\ errorHandler' = Innermost.prev
  /\ activations' = Front(activations)
  /\ UNCHANGED <<stackVars, callStackLock, pc, callee, viewVars, fault>>

(* interpreter_error: longjmp to the jump buffer errorHandler names, that   *)
(* of the coroutine's block or of an interpreter_xpcall.  The latter calls  *)
(* its handler, if it has one, with errorHandler as it is.                  *)
Throw ==
  /\ At("run") \/ At("throw")
  /\ IF errorHandler = 0 THEN Lose("unhandled")
     ELSE /\ IF activations[errorHandler].kind = "task"
             THEN /\ activations' = <<>> /\ errorHandler' = 0
                  /\ pc' = "dead"
             ELSE /\ activations' = Append(SubSeq(activations, 1, errorHandler - 1),
                       [activations[errorHandler] EXCEPT !.kind = "handler"])
                  /\ pc' \in {"run", "unwind"}
                  /\ UNCHANGED errorHandler
          /\ UNCHANGED <<stackVars, callStackLock, callee, viewVars, fault>>

(* The handler returned.                                                   *)
HandlerDone ==
  /\ At("run")
  /\ Innermost.kind = "handler"
  /\ pc' = "unwind"
  /\ UNCHANGED <<stackVars, callStackLock, activations, errorHandler, callee,
                 viewVars, fault>>

Unprotected == /\ errorHandler' = Innermost.prev
               /\ activations' = Front(activations)
               /\ pc' = "run"

(* The frames up to f.                                                     *)
UpTo(f) == SubSeq(callStack, 1, CHOOSE i \in DOMAIN callStack : callStack[i] = f)

(* Variants: one frame is popped rather than all above the caller's; the    *)
(* lock is not taken.                                                       *)
UnwindOne ==
  /\ At("unwind")
  /\ callStackLock = NULL
  /\ IF currentCallState = Innermost.frame THEN UNCHANGED stackVars ELSE PopFrame
  /\ Unprotected
  /\ UNCHANGED <<callStackLock, callee, viewVars, fault>>
UnwindUnlocked ==
  /\ At("unwind")
  /\ callStack' = UpTo(Innermost.frame)
  /\ ready' = ready \cap ToSet(callStack')
  /\ currentCallState' = Innermost.frame
  /\ Unprotected
  /\ UNCHANGED <<callStackLock, callee, viewVars, fault>>

(* Frames are popped under the lock while currentCallState is not           *)
(* callerState; popping the last one is a failed assertion.                 *)
Unwind ==
  /\ At("unwind")
  /\ callStackLock = NULL
  /\ IF Innermost.frame \notin ToSet(callStack) THEN Lose("underflow")
     ELSE /\ callStack' = UpTo(Innermost.frame)
          /\ ready' = ready \cap ToSet(callStack')
          /\ currentCallState' = Innermost.frame
          /\ Unprotected
          /\ UNCHANGED <<callStackLock, callee, viewVars, fault>>
-----------------------------------------------------------------------------
(* coroutine_iterate_call_stack by an observer: the lock and the usage ...  *)
IterateBegin(o, b) ==
  /\ fault = "none"
  /\ callStackLock = NULL
  /\ callStackLock' = o
  /\ usage'    = [usage EXCEPT ![o] = Len(callStack)]
  /\ seen'     = [seen EXCEPT ![o] = 0]
  /\ backward' = [backward EXCEPT ![o] = b]
  /\ UNCHANGED <<stackVars, cVars, fault>>

(* ... a frame given to the consumer ...                                   *)
Visit(o) ==
  LET i == IF backward[o] THEN usage[o] - seen[o] ELSE seen[o] + 1 IN
  /\ fault = "none"
  /\ callStackLock = o
  /\ seen[o] < usage[o]
  /\ IF i > Len(callStack) THEN Lose("null_frame")
     ELSE IF callStack[i] \notin ready THEN Lose("unset_closure")
     ELSE /\ seen' = [seen EXCEPT ![o] = @ + 1]
          /\ UNCHANGED <<stackVars, callStackLock, cVars, usage, backward, fault>>

(* ... until none is left, or the consumer says so.                        *)
IterateEnd(o) ==
  /\ fault = "none"
  /\ callStackLock = o
  /\ seen[o] = usage[o] \/ seen[o] > 0
  /\ callStackLock' = NULL
  /\ usage' = [usage EXCEPT ![o] = 0]
  /\ seen'  = [seen EXCEPT ![o] = 0]
  /\ backward' = [backward EXCEPT ![o] = FALSE]
  /\ UNCHANGED <<stackVars, cVars, fault>>

Next ==
  \/ \E f \in Frames : Call(f)
  \/ CallUnallocated \/ CallFill \/ CallEnter \/ Return \/ End
  \/ Protect \/ Unprotect \/ Throw \/ HandlerDone \/ Unwind
  \/ \E o \in Observers, b \in BOOLEAN : IterateBegin(o, b)
  \/ \E o \in Observers : Visit(o) \/ IterateEnd(o)

Spec == Init /\ [][Next]_vars
-----------------------------------------------------------------------------
TypeOK ==
  /\ callStack \in Seq(Frames) /\ Len(callStack) <= MaxFrames
  /\ ready \subseteq Frames
  /\ currentCallState \in Frames \cup {NULL}
  /\ callStackLock \in Observers \cup {Executor, NULL}
  /\ activations \in Seq(Activation)
  /\ errorHandler \in 0 .. Len(activations)
  /\ pc \in {"run", "fill", "alloc", "throw", "unwind", "dead"}
  /\ callee \in Frames \cup {NULL}
  /\ usage \in [Observers -> 0 .. MaxFrames]
  /\ seen \in [Observers -> 0 .. MaxFrames]
  /\ backward \in [Observers -> BOOLEAN]
  /\ fault \in {"none", "unhandled", "underflow", "null_frame", "unset_closure"}

(* An error jumps to the innermost protected call that is still running,    *)
(* or to the block of the coroutine: errorHandler never names an older one, *)
(* nor a jump buffer whose function has returned.                           *)
JumpsToInnermost ==
  /\ errorHandler # 0 =>
       /\ errorHandler \in DOMAIN activations
       /\ activations[errorHandler].kind \notin {"call", "native"}
  /\ \A i \in DOMAIN activations :
       i > errorHandler => activations[i].kind \in {"call", "native"}

(* Where the frame of an activation is in callStack, and how far above that  *)
(* of the activation before it.                                            *)
PosIn(s, f) == CHOOSE i \in DOMAIN s : s[i] = f
Height == [i \in DOMAIN activations |-> PosIn(callStack, activations[i].frame)]
Step   == [i \in DOMAIN activations |-> IF activations[i].kind = "call" THEN 1 ELSE 0]

(* The frames others see are those of the functions in progress in their    *)
(* order, from the bottom of the stack to its top, none of them twice; only *)
(* above a protected call whose error is being handled are the frames that  *)
(* the error abandoned.                                                    *)
TraceIsTrue ==
  pc = "run" =>
    /\ \A h, k \in DOMAIN callStack : callStack[h] = callStack[k] => h = k
    /\ \A i \in DOMAIN activations : activations[i].frame \in ToSet(callStack)
    /\ Height[1] = 1
    /\ \A i \in DOMAIN activations \ {1} :
         /\ Height[i] >= Height[i - 1] + Step[i]
         /\ activations[i - 1].kind # "handler" => Height[i] = Height[i - 1] + Step[i]
    /\ Innermost.kind # "handler" => Height[Len(activations)] = Len(callStack)

(* Code runs with its own function's frame as currentCallState, the top of  *)
(* the stack; after an error a handler runs with the frame that failed.     *)
CurrentIsTop ==
  pc \in {"run", "fill", "alloc"} =>
    /\ currentCallState # NULL
    /\ \/ callStack # <<>> /\ Last(callStack) = currentCallState
       \/ callee # NULL /\ callStack = Append(Front(callStack), callee)
          /\ Last(Front(callStack)) = currentCallState

(* interpreter_xpcall returns in the frame it was called in.               *)
XpcallReturnsToCaller ==
  [][(pc' = "run" /\ activations' = Front(activations)
        /\ Innermost.kind \in {"xpcall", "handler"}) =>
      (/\ currentCallState' = Innermost.frame
       /\ Last(callStack') = Innermost.frame)]_vars

(* While an observer iterates, the stack it iterates over stays as it is,   *)
(* but for one frame that only a lack of memory takes away: the prolog that *)
(* cannot finish gives up its own frame, the top, without the lock          *)
(* (181-182).  Nothing else changes before the lock is given back, so that  *)
(* the iteration looks at most one place beyond the stack.                  *)
IterationIsStable ==
  [][(callStackLock \in Observers /\ callStackLock' = callStackLock) =>
       LET gone == usage[callStackLock] - Len(callStack') IN
       \/ callStack' = callStack /\ gone \in (IF LateAllocFails THEN {0, 1} ELSE {0})
       \/ /\ LateAllocFails /\ pc = "alloc" /\ pc' = "throw" /\ gone = 1
          /\ callStack' = Front(callStack) /\ Last(callStack) = callee]_vars

(* The unwinding of a protected call finds the lock of the call stack free, *)
(* or held by a thread that will give it back.                              *)
UnwindingProceeds == pc = "unwind" => callStackLock # Executor
=============================================================================
