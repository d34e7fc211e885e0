------------------------------ MODULE Coroutine ------------------------------
(***************************************************************************)
(* The coroutine runtime of FluffyVM: src/src/fiber.c, src/src/coroutine.c *)
(* and the per-thread stack of nested coroutines of src/src/fluffyvm.c.    *)
(*                                                                         *)
(* A *flow* is a C stack with the code running on it: one per OS thread    *)
(* (its "native" coroutine, which lateInit creates) and one per coroutine. *)
(* A thread t executes the flow on[t]; swapcontext moves it to another     *)
(* one.  Every step below is what one thread does between two points at    *)
(* which another thread can see or change what it works on, so the         *)
(* compare-and-swap that publishes a fiber's new state and the swapcontext *)
(* that makes that state true are two steps, as they are in the code.      *)
(*                                                                         *)
(* What a coroutine's body computes is left out: in the "run" position a   *)
(* flow may make any call of the coroutine API, return, or throw.          *)
(***************************************************************************)
EXTENDS Integers

CONSTANTS
  Threads,         \* managed OS threads; also their native flows
  Coroutines,      \* coroutine objects (a collected object's name is reused)
  NULL,            \* no flow
  MaxNest,         \* FLUFFYVM_MAX_COROUTINE_NEST: depth of a coroutinesStack
  Shared,          \* TRUE: threads resume each other's coroutines unasked
  CreateWhenFull   \* TRUE: coroutine_new may be called at nesting MaxNest

ASSUME FlowsAssumption ==
  /\ Threads \cap Coroutines = {}
  /\ NULL \notin Threads \cup Coroutines
ASSUME MaxNestAssumption == MaxNest \in Nat /\ MaxNest >= 1
ASSUME EnvironmentAssumption == Shared \in BOOLEAN /\ CreateWhenFull \in BOOLEAN

Flows == Threads \cup Coroutines

VARIABLES
  fstate,      \* fiber->state of a flow; "NEW": no such object at the moment
  resumeCtx,   \* flow saved in fiber->resumeContext; NULL: already consumed
  suspendCtx,  \* flow saved in fiber->suspendContext
  cstack,      \* fiber's C stack: "none", "live", "dangling" (freed), "null"
  frames,      \* callStack->sp of a flow: its call frames
  hasError,    \* coroutine->hasError
  yieldable,   \* coroutine->isYieldable (of a native thread's it is not used)
  nest,        \* coroutinesStack of a thread: its slots ...
  sp,          \* ... and its stack pointer
  on,          \* the flow a thread executes
  pc,          \* where a flow is
  arg,         \* the coroutine of the call the flow is in, or NULL
  prev,        \* local prevState of coroutine_resume ("NEW": out of scope)
  ret,         \* what the flow's last coroutine call returned, or "none"
  holder,      \* the thread the application lets resume a coroutine
  fault        \* "none", or how the process was lost

fiberVars  == <<fstate, resumeCtx, suspendCtx, cstack>>
objectVars == <<frames, hasError, yieldable>>
nestVars   == <<nest, sp>>
localVars  == <<arg, prev, ret>>
vars == <<fiberVars, objectVars, nestVars, on, pc, localVars, holder, fault>>

FiberStates == {"NEW", "RUNNING", "SUSPENDED", "DEAD"}

(***************************************************************************)
(* Positions of a flow.  "run": its own code.  "read" .. "switch":         *)
(* fiber_resume before swapcontext; "wait": inside that swapcontext;       *)
(* "back" .. "clear": after it.  "yswitch", "ywait": fiber_yield.          *)
(* "exit", "xswitch", "done": the end of entryPoint.  "entry": not started.*)
(***************************************************************************)
Resuming == {"read", "cas", "switch", "back", "free", "clear"}
Positions == Resuming \cup
  {"entry", "run", "wait", "yswitch", "ywait", "exit", "xswitch", "done"}

Results == {"none", "ok", "overflow", "running", "dead", "thrown",
            "outside", "toplevel", "disabled", "refused"}
Faults == {"none", "abort", "stale_context", "use_after_free",
           "stack_in_use", "double_free", "nest_lost"}

Slots == 1 .. MaxNest

(* fluffyvm_get_executing_coroutine: the top of the thread's own stack.    *)
Executing(t) == IF sp[t] = 0 THEN NULL ELSE nest[t][sp[t]]

(* A thread may pass c to the API: c exists, and the application gave c to *)
(* this thread (or does not care, when Shared).  Native flows are visible  *)
(* to everybody.                                                           *)
MayUse(t, c) ==
  /\ fstate[c] # "NEW"
  /\ c \in Coroutines => Shared \/ holder[c] = t

-----------------------------------------------------------------------------
(* The state after lateInit made every thread's native coroutine, pushed   *)
(* it and set its fiber RUNNING.                                           *)
Init ==
  /\ fstate     = [f \in Flows |-> IF f \in Threads THEN "RUNNING" ELSE "NEW"]
  /\ resumeCtx  = [f \in Flows |-> NULL]
  /\ suspendCtx = [f \in Flows |-> NULL]
  /\ cstack     = [f \in Flows |-> IF f \in Threads THEN "live" ELSE "none"]
  /\ frames     = [f \in Flows |-> IF f \in Threads THEN 1 ELSE 0]
  /\ hasError   = [f \in Flows |-> FALSE]
  /\ yieldable  = [c \in Coroutines |-> FALSE]
  /\ nest       = [t \in Threads |-> [i \in Slots |-> IF i = 1 THEN t ELSE NULL]]
  /\ sp         = [t \in Threads |-> 1]
  /\ on         = [t \in Threads |-> t]
  /\ pc         = [f \in Flows |-> IF f \in Threads THEN "run" ELSE "entry"]
  /\ arg        = [f \in Flows |-> NULL]
  /\ prev       = [f \in Flows |-> "NEW"]
  /\ ret        = [f \in Flows |-> "none"]
  /\ holder     = [c \in Coroutines |-> NULL]
  /\ fault      = "none"

(* Thread t is at position p of the flow it executes, in a live process.   *)
At(t, p) == fault = "none" /\ pc[on[t]] = p

Goto(f, p) == pc' = [pc EXCEPT ![f] = p]

(* stack_push and stack_pop of the thread's coroutinesStack; pop clears    *)
(* the slot it leaves.                                                     *)
Push(t, c) ==
  /\ nest' = [nest EXCEPT ![t][sp[t] + 1] = c]
  /\ sp'   = [sp EXCEPT ![t] = @ + 1]
Pop(t) ==
  /\ nest' = [nest EXCEPT ![t][sp[t]] = NULL]
  /\ sp'   = [sp EXCEPT ![t] = @ - 1]

Lose(how) == /\ fault' = how
             /\ UNCHANGED <<fiberVars, objectVars, nestVars, on, pc,
                            localVars, holder>>

-----------------------------------------------------------------------------
(* coroutine_new.  The new coroutine is pushed on the thread's stack, so   *)
(* that coroutine_function_prolog adds the first frame to *its* call       *)
(* stack, and popped again.  The result of the push is not looked at: with *)
(* a full stack the frame goes to the caller's own call stack and the pop  *)
(* removes the caller.                                                     *)
Create(t, c) ==
  LET room  == sp[t] < MaxNest
      owner == IF room THEN c ELSE Executing(t)
  IN
  /\ At(t, "run")
  /\ fstate[c] = "NEW"
  /\ CreateWhenFull \/ room
  /\ fstate'    = [fstate EXCEPT ![c] = "SUSPENDED"]
  /\ resumeCtx' = [resumeCtx EXCEPT ![c] = c]
  /\ cstack'    = [cstack EXCEPT ![c] = "live"]
  /\ frames'    = [frames EXCEPT ![owner] = @ + 1]
  /\ hasError'  = [hasError EXCEPT ![c] = FALSE]
  /\ yieldable' = [yieldable EXCEPT ![c] = TRUE]
  /\ holder'    = [holder EXCEPT ![c] = t]
  /\ Goto(c, "entry")
  /\ IF room THEN UNCHANGED <<nestVars, fault>>
             ELSE Pop(t) /\ fault' = "nest_lost"
  /\ UNCHANGED <<suspendCtx, on, localVars>>

(* Variant: the push does not look at the size of the stack.               *)
ResumePushUnchecked(t, c) ==
  LET f == on[t] IN
  /\ At(t, "run")
  /\ MayUse(t, c)
  /\ Push(t, c)
  /\ arg' = [arg EXCEPT ![f] = c]
  /\ ret' = [ret EXCEPT ![f] = "none"]
  /\ Goto(f, "read")
  /\ UNCHANGED <<fiberVars, objectVars, on, prev, holder, fault>>

(* coroutine_resume up to the push of the target on the thread's stack.    *)
ResumePush(t, c) ==
  LET f == on[t] IN
  /\ At(t, "run")
  /\ MayUse(t, c)
  /\ sp[t] < MaxNest
  /\ Push(t, c)
  /\ arg' = [arg EXCEPT ![f] = c]
  /\ ret' = [ret EXCEPT ![f] = "none"]
  /\ Goto(f, "read")
  /\ UNCHANGED <<fiberVars, objectVars, on, prev, holder, fault>>

(* ... which fails when the coroutines are nested too deep.                *)
ResumeOverflow(t, c) ==
  LET f == on[t] IN
  /\ At(t, "run")
  /\ MayUse(t, c)
  /\ sp[t] >= MaxNest
  /\ ret' = [ret EXCEPT ![f] = "overflow"]
  /\ UNCHANGED <<fiberVars, objectVars, nestVars, on, pc, arg, prev, holder,
                 fault>>

(* fiber_resume: *prevState = fiber->state, before the compare-and-swap.   *)
ResumeRead(t) ==
  LET f == on[t] IN
  /\ At(t, "read")
  /\ prev' = [prev EXCEPT ![f] = fstate[arg[f]]]
  /\ Goto(f, "cas")
  /\ UNCHANGED <<fiberVars, objectVars, nestVars, on, arg, ret, holder, fault>>

(* fiber_resume: the compare-and-swap SUSPENDED -> RUNNING succeeds.       *)
ResumeCas(t) ==
  LET f == on[t] IN
  /\ At(t, "cas")
  /\ fstate[arg[f]] = "SUSPENDED"
  /\ fstate' = [fstate EXCEPT ![arg[f]] = "RUNNING"]
  /\ prev' = [prev EXCEPT ![f] = "NEW"]
  /\ Goto(f, "switch")
  /\ UNCHANGED <<resumeCtx, suspendCtx, cstack, objectVars, nestVars, on,
                 arg, ret, holder, fault>>

(* Variants: a refused resume leaves its target on the thread's stack;     *)
(* tells "dead" and "running" apart the wrong way round.                   *)
ResumeRefusedUnpopped(t) ==
  LET f == on[t] IN
  /\ At(t, "cas")
  /\ fstate[arg[f]] # "SUSPENDED"
  /\ arg'  = [arg EXCEPT ![f] = NULL]
  /\ prev' = [prev EXCEPT ![f] = "NEW"]
  /\ Goto(f, "run")
  /\ UNCHANGED <<fiberVars, objectVars, nestVars, on, ret, holder, fault>>
ResumeRefusedSwapped(t) ==
  LET f == on[t] IN
  /\ At(t, "cas")
  /\ fstate[arg[f]] # "SUSPENDED"
  /\ ret' = [ret EXCEPT ![f] = IF prev[f] = "DEAD" THEN "running" ELSE "dead"]
  /\ Pop(t)
  /\ arg'  = [arg EXCEPT ![f] = NULL]
  /\ prev' = [prev EXCEPT ![f] = "NEW"]
  /\ Goto(f, "run")
  /\ UNCHANGED <<fiberVars, objectVars, on, holder, fault>>

(* ... or fails: coroutine_resume reports the state read before it, pops   *)
(* the target and returns false.  A state read as SUSPENDED is an abort.   *)
ResumeRefused(t) ==
  LET f == on[t] IN
  /\ At(t, "cas")
  /\ fstate[arg[f]] # "SUSPENDED"
  /\ IF prev[f] = "SUSPENDED"
     THEN Lose("abort")
     ELSE /\ ret' = [ret EXCEPT ![f] = IF prev[f] = "DEAD" THEN "dead"
                                                           ELSE "running"]
          /\ Pop(t)
          /\ arg'  = [arg EXCEPT ![f] = NULL]
          /\ prev' = [prev EXCEPT ![f] = "NEW"]
          /\ Goto(f, "run")
          /\ UNCHANGED <<fiberVars, objectVars, on, holder, fault>>

(* Variant: only the first resume of a coroutine saves the resumer.        *)
SwitchInSavedOnce(t) ==
  LET f == on[t]
      c == arg[f]
      g == resumeCtx[c]
  IN
  /\ At(t, "switch")
  /\ suspendCtx' = [suspendCtx EXCEPT ![c] = IF @ = NULL THEN f ELSE @]
  /\ resumeCtx'  = [resumeCtx EXCEPT ![c] = NULL]
  /\ on'  = [on EXCEPT ![t] = g]
  /\ pc'  = [pc EXCEPT ![f] = "wait", ![g] = "run"]
  /\ ret' = [ret EXCEPT ![g] = IF pc[g] = "ywait" THEN "ok" ELSE "none"]
  /\ UNCHANGED <<fstate, cstack, objectVars, nestVars, arg, prev, holder, fault>>

(* swapcontext(&suspendContext, &resumeContext) in fiber_resume: the       *)
(* resumer is saved, the thread goes on where resumeContext was saved.     *)
(* An entered context is not saved again before the next swapcontext that  *)
(* leaves it: entering it twice puts two threads on one C stack.           *)
SwitchIn(t) ==
  LET f == on[t]
      c == arg[f]
      g == resumeCtx[c]
  IN
  /\ At(t, "switch")
  /\ IF cstack[c] # "live" THEN Lose("use_after_free")
     ELSE IF g = NULL THEN Lose("stale_context")
     ELSE /\ suspendCtx' = [suspendCtx EXCEPT ![c] = f]
          /\ resumeCtx'  = [resumeCtx EXCEPT ![c] = NULL]
          /\ on'  = [on EXCEPT ![t] = g]
          /\ pc'  = [pc EXCEPT ![f] = "wait", ![g] = "run"]
          /\ ret' = [ret EXCEPT ![g] = IF pc[g] = "ywait" THEN "ok" ELSE "none"]
          /\ UNCHANGED <<fstate, cstack, objectVars, nestVars, arg, prev,
                         holder, fault>>
-----------------------------------------------------------------------------
(* coroutine_yield up to and with the compare-and-swap RUNNING ->          *)
(* SUSPENDED of fiber_yield.  Other threads see the fiber SUSPENDED from   *)
(* here on, while this one still runs on its C stack.                      *)
Yield(t) ==
  LET f  == on[t]
      co == Executing(t)
  IN
  /\ At(t, "run")
  /\ co \in Coroutines /\ yieldable[co]
  /\ IF fstate[co] = "DEAD" THEN Lose("abort")
     ELSE /\ IF fstate[co] = "RUNNING"
             THEN /\ fstate' = [fstate EXCEPT ![co] = "SUSPENDED"]
                  /\ arg'    = [arg EXCEPT ![f] = co]
                  /\ ret'    = [ret EXCEPT ![f] = "none"]
                  /\ Goto(f, "yswitch")
             ELSE /\ ret' = [ret EXCEPT ![f] = "refused"]
                  /\ UNCHANGED <<fstate, pc, arg>>
          /\ UNCHANGED <<resumeCtx, suspendCtx, cstack, objectVars, nestVars,
                         on, prev, holder, fault>>

(* coroutine_yield outside a coroutine, of a native thread's own coroutine,*)
(* or of one that a C function made unyieldable: an error message, false.  *)
YieldRefused(t) ==
  LET f  == on[t]
      co == Executing(t)
  IN
  /\ At(t, "run")
  /\ co \in Coroutines => ~yieldable[co]
  /\ ret' = [ret EXCEPT ![f] = CASE co = NULL      -> "outside"
                                 [] co \in Threads -> "toplevel"
                                 [] OTHER          -> "disabled"]
  /\ UNCHANGED <<fiberVars, objectVars, nestVars, on, pc, arg, prev, holder,
                 fault>>

(* Variant: a yield goes all the way down to the thread's own flow.        *)
YieldSwitchToThread(t) ==
  LET f == on[t] IN
  /\ At(t, "yswitch")
  /\ resumeCtx' = [resumeCtx EXCEPT ![arg[f]] = f]
  /\ on'  = [on EXCEPT ![t] = t]
  /\ pc'  = [pc EXCEPT ![f] = "ywait", ![t] = "back"]
  /\ arg' = [arg EXCEPT ![f] = NULL]
  /\ UNCHANGED <<fstate, suspendCtx, cstack, objectVars, nestVars, prev, ret,
                 holder, fault>>

(* swapcontext(&resumeContext, &suspendContext) in fiber_yield: back to    *)
(* the flow that resumed the coroutine last.                               *)
YieldSwitch(t) ==
  LET f == on[t]
      g == suspendCtx[arg[f]]
  IN
  /\ At(t, "yswitch")
  /\ resumeCtx' = [resumeCtx EXCEPT ![arg[f]] = f]
  /\ on'  = [on EXCEPT ![t] = g]
  /\ pc'  = [pc EXCEPT ![f] = "ywait", ![g] = "back"]
  /\ arg' = [arg EXCEPT ![f] = NULL]
  /\ UNCHANGED <<fstate, suspendCtx, cstack, objectVars, nestVars, prev, ret,
                 holder, fault>>

(* coroutine_disallow_yield and coroutine_allow_yield.                     *)
SetYieldable(t, b) ==
  /\ At(t, "run")
  /\ Executing(t) \in Coroutines
  /\ yieldable[Executing(t)] # b
  /\ yieldable' = [yieldable EXCEPT ![Executing(t)] = b]
  /\ UNCHANGED <<fiberVars, frames, hasError, nestVars, on, pc, localVars,
                 holder, fault>>

(* The task block of coroutine_new ends.  Its body returned: the first     *)
(* frame is popped.  It threw: hasError is set and the frames stay.        *)
Return(t) ==
  LET f == on[t] IN
  /\ At(t, "run")
  /\ f \in Coroutines
  /\ IF frames[Executing(t)] = 0
     THEN Lose("abort")
     ELSE /\ frames' = [frames EXCEPT ![Executing(t)] = @ - 1]
          /\ Goto(f, "exit")
          /\ UNCHANGED <<fiberVars, hasError, yieldable, nestVars, on,
                         localVars, holder, fault>>

Throw(t) ==
  LET f == on[t] IN
  /\ At(t, "run")
  /\ f \in Coroutines
  /\ hasError' = [hasError EXCEPT ![f] = TRUE]
  /\ Goto(f, "exit")
  /\ UNCHANGED <<fiberVars, frames, yieldable, nestVars, on, localVars,
                 holder, fault>>

(* Variant: a body that ends leaves its fiber resumable.                   *)
MarkSuspended(t) ==
  LET f == on[t] IN
  /\ At(t, "exit")
  /\ fstate' = [fstate EXCEPT ![f] = "SUSPENDED"]
  /\ Goto(f, "xswitch")
  /\ UNCHANGED <<resumeCtx, suspendCtx, cstack, objectVars, nestVars, on,
                 localVars, holder, fault>>

(* entryPoint: fiber->state = FIBER_DEAD ...                               *)
MarkDead(t) ==
  LET f == on[t] IN
  /\ At(t, "exit")
  /\ fstate' = [fstate EXCEPT ![f] = "DEAD"]
  /\ Goto(f, "xswitch")
  /\ UNCHANGED <<resumeCtx, suspendCtx, cstack, objectVars, nestVars, on,
                 localVars, holder, fault>>

(* ... and the swapcontext that leaves the C stack for good.               *)
ExitSwitch(t) ==
  LET f == on[t]
      g == suspendCtx[f]
  IN
  /\ At(t, "xswitch")
  /\ resumeCtx' = [resumeCtx EXCEPT ![f] = f]
  /\ on' = [on EXCEPT ![t] = g]
  /\ pc' = [pc EXCEPT ![f] = "done", ![g] = "back"]
  /\ UNCHANGED <<fstate, suspendCtx, cstack, objectVars, nestVars, localVars,
                 holder, fault>>
-----------------------------------------------------------------------------
(* coroutine_resume after fiber_resume returned true.                      *)
Finish(t, f) ==
  /\ Pop(t)
  /\ ret' = [ret EXCEPT ![f] = IF hasError[arg[f]] THEN "thrown" ELSE "ok"]
  /\ arg' = [arg EXCEPT ![f] = NULL]
  /\ Goto(f, "run")

(* Variant: the C stack of a body that threw is not given back.            *)
ResumeBackUnlessThrown(t) ==
  LET f == on[t] IN
  /\ At(t, "back")
  /\ IF fstate[arg[f]] = "DEAD" /\ ~hasError[arg[f]]
     THEN Goto(f, "free") /\ UNCHANGED <<nestVars, arg, ret>>
     ELSE Finish(t, f)
  /\ UNCHANGED <<fiberVars, objectVars, on, prev, holder, fault>>

(* fiber_resume after swapcontext: if (fiber->state == FIBER_DEAD) ...     *)
ResumeBack(t) ==
  LET f == on[t] IN
  /\ At(t, "back")
  /\ IF fstate[arg[f]] = "DEAD"
     THEN Goto(f, "free") /\ UNCHANGED <<nestVars, arg, ret>>
     ELSE Finish(t, f)
  /\ UNCHANGED <<fiberVars, objectVars, on, prev, holder, fault>>

(* free(fiber->resumeContext.uc_stack.ss_sp); free(NULL) does nothing.     *)
FreeStack(t) ==
  LET f == on[t]
      c == arg[f]
  IN
  /\ At(t, "free")
  /\ IF cstack[c] = "dangling" THEN Lose("double_free")
     ELSE IF cstack[c] = "live" /\ \E u \in Threads : on[u] = c
     THEN Lose("stack_in_use")
     ELSE /\ cstack' = [cstack EXCEPT ![c] = IF @ = "live" THEN "dangling" ELSE @]
          /\ Goto(f, "clear")
          /\ UNCHANGED <<fstate, resumeCtx, suspendCtx, objectVars, nestVars,
                         on, localVars, holder, fault>>

(* Variant: the pointer to the freed C stack is kept.                      *)
ClearStackForgotten(t) ==
  LET f == on[t] IN
  /\ At(t, "clear")
  /\ Finish(t, f)
  /\ UNCHANGED <<fiberVars, objectVars, on, prev, holder, fault>>

(* fiber->resumeContext.uc_stack.ss_sp = NULL, and coroutine_resume ends.  *)
ClearStack(t) ==
  LET f == on[t] IN
  /\ At(t, "clear")
  /\ cstack' = [cstack EXCEPT ![arg[f]] = "null"]
  /\ Finish(t, f)
  /\ UNCHANGED <<fstate, resumeCtx, suspendCtx, objectVars, on, prev, holder,
                 fault>>
-----------------------------------------------------------------------------
(* c is on no thread's coroutinesStack, which is a root of the collector.  *)
OffNest(c) == \A t \in Threads : \A i \in Slots : i <= sp[t] => nest[t][i] # c

(* The application passes a coroutine it is not resuming to another thread,*)
(* with the synchronisation that takes.                                    *)
Handover(t, u, c) ==
  /\ At(t, "run")
  /\ ~Shared
  /\ t # u
  /\ holder[c] = t
  /\ OffNest(c)
  /\ holder' = [holder EXCEPT ![c] = u]
  /\ UNCHANGED <<fiberVars, objectVars, nestVars, on, pc, localVars, fault>>

(* The application dropped its last reference and the collector ran the    *)
(* finalizer of coroutine_new: fiber_free.                                 *)
Collect(t, c) ==
  /\ At(t, "run")
  /\ holder[c] = t
  /\ OffNest(c)
  /\ IF cstack[c] = "dangling" THEN Lose("double_free")
     ELSE /\ fstate'     = [fstate EXCEPT ![c] = "NEW"]
          /\ resumeCtx'  = [resumeCtx EXCEPT ![c] = NULL]
          /\ suspendCtx' = [suspendCtx EXCEPT ![c] = NULL]
          /\ cstack'     = [cstack EXCEPT ![c] = "none"]
          /\ frames'     = [frames EXCEPT ![c] = 0]
          /\ hasError'   = [hasError EXCEPT ![c] = FALSE]
          /\ yieldable'  = [yieldable EXCEPT ![c] = FALSE]
          /\ arg'        = [arg EXCEPT ![c] = NULL]
          /\ prev'       = [prev EXCEPT ![c] = "NEW"]
          /\ ret'        = [ret EXCEPT ![c] = "none"]
          /\ holder'     = [holder EXCEPT ![c] = NULL]
          /\ Goto(c, "entry")
          /\ UNCHANGED <<nestVars, on, fault>>

(* What thread t does on its own, without the code of a body deciding it.  *)
Runtime(t) ==
  \/ ResumeRead(t) \/ ResumeCas(t) \/ ResumeRefused(t) \/ SwitchIn(t)
  \/ YieldSwitch(t) \/ MarkDead(t) \/ ExitSwitch(t)
  \/ ResumeBack(t) \/ FreeStack(t) \/ ClearStack(t)

(* What the code of a body, or the application around it, decides to do.   *)
Program(t) ==
  \/ \E c \in Coroutines : Create(t, c)
  \/ \E c \in Flows : ResumePush(t, c)
  \/ \E c \in Flows : ResumeOverflow(t, c)
  \/ Yield(t) \/ YieldRefused(t)
  \/ \E b \in BOOLEAN : SetYieldable(t, b)
  \/ Return(t) \/ Throw(t)
  \/ \E u \in Threads, c \in Coroutines : Handover(t, u, c)
  \/ \E c \in Coroutines : Collect(t, c)

Next == \E t \in Threads : Runtime(t) \/ Program(t)

Spec == Init /\ [][Next]_vars
-----------------------------------------------------------------------------
TypeOK ==
  /\ fstate \in [Flows -> FiberStates]
  /\ resumeCtx \in [Flows -> Flows \cup {NULL}]
  /\ suspendCtx \in [Flows -> Flows \cup {NULL}]
  /\ cstack \in [Flows -> {"none", "live", "dangling", "null"}]
  /\ frames \in [Flows -> Nat]
  /\ hasError \in [Flows -> BOOLEAN]
  /\ yieldable \in [Coroutines -> BOOLEAN]
  /\ nest \in [Threads -> [Slots -> Flows \cup {NULL}]]
  /\ sp \in [Threads -> 0 .. MaxNest]
  /\ on \in [Threads -> Flows]
  /\ pc \in [Flows -> Positions]
  /\ arg \in [Flows -> Flows \cup {NULL}]
  /\ prev \in [Flows -> FiberStates]
  /\ ret \in [Flows -> Results]
  /\ holder \in [Coroutines -> Threads \cup {NULL}]
  /\ fault \in Faults

(* No schedule of threads that hand coroutines over properly makes         *)
(* coroutine_resume or fiber_yield abort, enters a context twice, runs on  *)
(* a freed C stack or frees one twice.                                     *)
NoFault == fault = "none"

(* The top of a thread's coroutinesStack, which every API call takes for   *)
(* the executing coroutine, is the flow whose code the thread executes.    *)
ExecutingIsRunning ==
  \A t \in Threads : pc[on[t]] = "run" => Executing(t) = on[t]

(* No flow is executed by two threads, nor nested under two of them.       *)
OneThreadPerFlow ==
  \A t, u \in Threads : t # u =>
    /\ on[t] # on[u]
    /\ \A i, j \in Slots :
         (i <= sp[t] /\ j <= sp[u] /\ nest[t][i] \in Coroutines) =>
            nest[t][i] # nest[u][j]

(* The C stack of a dead coroutine is given back by the resume it ended    *)
(* in, and that of any other coroutine is there.                           *)
StacksReclaimed ==
  \A c \in Coroutines :
    /\ cstack[c] \in {"dangling", "null"} => pc[c] = "done"
    /\ pc[c] = "done" /\ OffNest(c) => cstack[c] = "null"

(* fiber_resume gives a C stack back only once nobody runs on it.          *)
StackIsUnused ==
  \A t, u \in Threads : pc[on[t]] = "free" => on[u] # arg[on[t]]

(* coroutine_resume blames a coroutine for being dead or running only if   *)
(* it is, at the moment of the refusal.                                    *)
VerdictsAreTrue ==
  [][\A f \in Flows : ret[f] = "none" =>
       /\ ret'[f] = "dead" => fstate[arg[f]] = "DEAD" /\ pc[arg[f]] = "done"
       /\ ret'[f] = "running" =>
            \E u \in Threads : \E i \in Slots : i <= sp[u]
               /\ nest[u][i] = arg[f] /\ pc[arg[f]] \in Resuming \cup {"wait", "run"}]_vars

(* Control leaves a flow only to the coroutine it is resuming, or back to  *)
(* the flow under it on the same thread, which then has resumed it.        *)
ControlIsNested ==
  [][\A t \in Threads : on'[t] # on[t] =>
       \/ on'[t] = arg[on[t]] /\ on'[t] = nest[t][sp[t]]
       \/ sp[t] > 1 /\ on'[t] = nest[t][sp[t] - 1] /\ arg[on'[t]] = on[t]]_vars

(* The promise: seen at its swapcontext steps, the runtime implements      *)
(* nested coroutines.  A push that is not a nesting yet does not count.    *)
Depth(t) == IF pc[on[t]] \in Resuming THEN sp[t] - 1 ELSE sp[t]

Nested(c) == \E t \in Threads : \E i \in 1 .. Depth(t) : nest[t][i] = c

Abs == INSTANCE LuaCoroutine WITH
  chain  <- [t \in Threads |-> [i \in 1 .. Depth(t) |-> nest[t][i]]],
  status <- [c \in Coroutines |->
               CASE fstate[c] = "NEW" -> "none"
                 [] Nested(c)         -> "running"
                 [] pc[c] = "done"    -> "dead"
                 [] OTHER             -> "suspended"]

Implements == Abs!Spec
=============================================================================
