--------------------------- MODULE CoroutineProofs ---------------------------
(***************************************************************************)
(* Proofs about the coroutine runtime for any number of threads, of        *)
(* coroutines and any nesting limit, when the application hands coroutines *)
(* over before another thread uses them and creates none at the limit.     *)
(***************************************************************************)
EXTENDS Coroutine, SequenceTheorems, TLAPS

Active == Resuming \cup {"run", "wait", "yswitch", "exit", "xswitch"}

(* The flows nested in thread t: its own, then coroutines it holds, each   *)
(* resumed by the one below it, which waits for it.                        *)
ChainInv(t) ==
  /\ Depth(t) >= 1
  /\ nest[t][1] = t
  /\ nest[t][Depth(t)] = on[t]
  /\ \A i \in 2 .. Depth(t) : nest[t][i] \in Coroutines /\ holder[nest[t][i]] = t
  /\ \A i \in 1 .. (Depth(t) - 1) :
       /\ pc[nest[t][i]] = "wait"
       /\ arg[nest[t][i]] = nest[t][i+1]
       /\ suspendCtx[nest[t][i+1]] = nest[t][i]
  /\ \A i, j \in 1 .. Depth(t) : nest[t][i] = nest[t][j] => i = j

(* The flow thread t executes, and the coroutine it is resuming.           *)
ResumeInv(t) ==
  LET f == on[t]
      c == arg[on[t]]
  IN
  /\ pc[f] \in Active \ {"wait"}
  /\ pc[f] = "yswitch" => c = f
  /\ pc[f] \in Resuming =>
       /\ c = nest[t][sp[t]]
       /\ c \in Flows
       /\ c \in Coroutines => holder[c] = t
  /\ pc[f] = "cas" => prev[f] = fstate[c]
  /\ pc[f] = "switch" => /\ c \in Coroutines
                         /\ pc[c] \in {"entry", "ywait"}
                         /\ fstate[c] = "RUNNING"
  /\ pc[f] = "back" => /\ c \in Coroutines
                       /\ pc[c] = "ywait" \/ (pc[c] = "done" /\ cstack[c] = "live")
                       /\ fstate[c] # "RUNNING"
  /\ pc[f] = "free" => c \in Coroutines /\ pc[c] = "done" /\ cstack[c] = "live"
  /\ pc[f] = "clear" => c \in Coroutines /\ pc[c] = "done" /\ cstack[c] = "dangling"

(* A coroutine's fiber state, contexts, C stack and frames agree with      *)
(* where its flow is; a flow that is somewhere is nested in a thread; a C  *)
(* stack that is due to be given back is being given back.                 *)
FlowInv(c) ==
  /\ pc[c] = "entry" => fstate[c] \in {"NEW", "SUSPENDED", "RUNNING"}
  /\ pc[c] = "ywait" => fstate[c] \in {"SUSPENDED", "RUNNING"}
  /\ pc[c] = "yswitch" => fstate[c] = "SUSPENDED"
  /\ pc[c] \in {"xswitch", "done"} => fstate[c] = "DEAD"
  /\ pc[c] \in Active \ {"yswitch", "xswitch"} => fstate[c] = "RUNNING"
  /\ fstate[c] = "NEW" => holder[c] = NULL /\ cstack[c] = "none"
  /\ fstate[c] # "NEW" /\ pc[c] # "done" => cstack[c] = "live"
  /\ fstate[c] # "NEW" /\ pc[c] \in {"entry", "ywait"} => resumeCtx[c] = c
  /\ fstate[c] # "NEW" /\ pc[c] \notin {"exit", "xswitch", "done"} =>
       frames[c] >= 1
  /\ pc[c] \in Active =>
       \E t \in Threads : \E i \in 1 .. Depth(t) : nest[t][i] = c
  /\ pc[c] = "done" /\ cstack[c] # "null" =>
       \E t \in Threads : pc[on[t]] \in {"back", "free", "clear"} /\ arg[on[t]] = c

NativeInv(t) ==
  /\ fstate[t] = "RUNNING"
  /\ pc[t] \in Resuming \cup {"run", "wait"}

IInv ==
  /\ TypeOK
  /\ fault = "none"
  /\ \A t \in Threads : ChainInv(t) /\ ResumeInv(t) /\ NativeInv(t)
  /\ \A c \in Coroutines : FlowInv(c)

Discipline == ~Shared /\ ~CreateWhenFull

-----------------------------------------------------------------------------
(* Two places in the nestings of the threads hold different flows.         *)
LEMMA Apart ==
  ASSUME IInv, NEW t \in Threads, NEW u \in Threads,
         NEW i \in 1 .. Depth(t), NEW j \in 1 .. Depth(u),
         nest[t][i] = nest[u][j]
  PROVE  t = u /\ i = j
<1> USE FlowsAssumption, MaxNestAssumption
<1>1. Depth(t) \in Int /\ Depth(u) \in Int
  BY DEF IInv, TypeOK, Depth
<1>2. t = u
  <2>1. CASE i = 1
    BY <2>1, <1>1 DEF IInv, ChainInv
  <2>2. CASE j = 1
    BY <2>2, <1>1 DEF IInv, ChainInv
  <2>3. CASE i # 1 /\ j # 1
    BY <2>3, <1>1 DEF IInv, ChainInv
  <2> QED BY <2>1, <2>2, <2>3
<1> QED BY <1>1, <1>2 DEF IInv, ChainInv

(* What the invariant says of a thread and of the flow it executes.        *)
LEMMA ThreadFacts ==
  ASSUME IInv, NEW t \in Threads
  PROVE  /\ Depth(t) \in 1 .. MaxNest /\ sp[t] \in 1 .. MaxNest
         /\ on[t] \in Flows /\ on[t] = nest[t][Depth(t)]
         /\ on[t] \in Coroutines => holder[on[t]] = t /\ Depth(t) >= 2
         /\ on[t] \in Threads => on[t] = t /\ Depth(t) = 1
         /\ pc[on[t]] \in Active \ {"wait"}
         /\ pc[on[t]] \in Resuming =>
              /\ sp[t] = Depth(t) + 1
              /\ arg[on[t]] \in Flows /\ nest[t][sp[t]] = arg[on[t]]
         /\ pc[on[t]] \notin Resuming =>
              sp[t] = Depth(t) /\ Executing(t) = on[t]
         /\ \A u \in Threads : u # t => on[u] # on[t]
<1> USE FlowsAssumption, MaxNestAssumption
<1>1. Depth(t) \in 1 .. MaxNest /\ sp[t] \in 1 .. MaxNest
  BY DEF IInv, TypeOK, Depth, ChainInv
<1>2. \A u \in Threads : u # t => on[u] # on[t]
  <2> SUFFICES ASSUME NEW u \in Threads, u # t, on[u] = on[t] PROVE FALSE
    OBVIOUS
  <2>1. Depth(u) \in 1 .. Depth(u) /\ Depth(t) \in 1 .. Depth(t)
    BY DEF IInv, TypeOK, Depth, ChainInv
  <2> QED BY <2>1, Apart DEF IInv, ChainInv
<1>3. pc[on[t]] \in Resuming => sp[t] = Depth(t) + 1
  BY <1>1 DEF Depth
<1>4. pc[on[t]] \notin Resuming => sp[t] = Depth(t) /\ Executing(t) = on[t]
  BY <1>1 DEF Depth, Executing, IInv, ChainInv
<1>5. /\ on[t] \in Coroutines => holder[on[t]] = t /\ Depth(t) >= 2
      /\ on[t] \in Threads => on[t] = t /\ Depth(t) = 1
  BY <1>1 DEF IInv, ChainInv, Flows
<1> QED BY <1>1, <1>2, <1>3, <1>4, <1>5 DEF IInv, TypeOK, ChainInv, ResumeInv

(* The flows that thread u works on: its own, and those on its stack.      *)
Own(u) == {u} \cup {x \in Coroutines : \E i \in 1 .. sp[u] : nest[u][i] = x}

(* A step that leaves thread u's own flows and stack alone preserves what  *)
(* the invariant says of u.                                                *)
LEMMA Frame ==
  ASSUME IInv, NEW u \in Threads,
         on'[u] = on[u], nest'[u] = nest[u], sp'[u] = sp[u],
         \A x \in Own(u) : /\ pc'[x] = pc[x] /\ arg'[x] = arg[x]
                           /\ prev'[x] = prev[x]
                           /\ x \in Coroutines => holder'[x] = holder[x]
                           /\ fstate'[x] = fstate[x] /\ cstack'[x] = cstack[x]
                           /\ suspendCtx'[x] = suspendCtx[x],
         \A x \in Threads : fstate'[x] = fstate[x]
  PROVE  /\ Depth(u)' = Depth(u)
         /\ ChainInv(u)' /\ ResumeInv(u)'
         /\ NativeInv(u)'
<1> USE FlowsAssumption, MaxNestAssumption
<1>1. on[u] \in Own(u) /\ u \in Own(u)
  BY ThreadFacts DEF Own, Flows
<1>2. Depth(u)' = Depth(u)
  BY <1>1 DEF Depth
<1>3. \A i \in 1 .. Depth(u) : nest[u][i] \in Own(u)
  BY ThreadFacts DEF IInv, ChainInv, Own
<1>4. ChainInv(u)'
  <2>1. \A i \in 1 .. (Depth(u) - 1) : i \in 1 .. Depth(u) /\ i + 1 \in 1 .. Depth(u)
    BY ThreadFacts
  <2> QED BY <1>1, <1>2, <1>3, <2>1 DEF IInv, ChainInv
<1>5. arg[on[u]] \in Coroutines /\ pc[on[u]] \in Resuming => arg[on[u]] \in Own(u)
  BY ThreadFacts DEF IInv, ResumeInv, Own
<1>6. ResumeInv(u)'
  BY <1>1, <1>5 DEF IInv, ResumeInv, Resuming, Flows, Active
<1>7. NativeInv(u)'
  BY <1>1 DEF IInv, NativeInv
<1> QED BY <1>2, <1>4, <1>6, <1>7

(* A thread's own flows are not another thread's.                          *)
LEMMA OwnApart ==
  ASSUME IInv, NEW t \in Threads, NEW u \in Threads, u # t, NEW x \in Own(u)
  PROVE  /\ x \in Flows /\ x # on[t] /\ x # t
         /\ x \in Coroutines => holder[x] = u
<1> USE FlowsAssumption, MaxNestAssumption
<1>1. CASE x = u
  BY <1>1, ThreadFacts DEF Flows
<1>2. CASE x \in Coroutines
  <2>1. PICK i \in 1 .. sp[u] : nest[u][i] = x
    BY <1>2 DEF Own, Flows
  <2>2. holder[x] = u
    <3>1. CASE i \in 2 .. Depth(u)
      BY <2>1, <3>1 DEF IInv, ChainInv
    <3>2. CASE i = 1
      BY <1>2, <2>1, <3>2 DEF IInv, ChainInv, Flows
    <3>3. CASE i \notin 1 .. Depth(u)
      BY <1>2, <2>1, <3>3, ThreadFacts DEF IInv, ResumeInv
    <3> QED BY <3>1, <3>2, <3>3, ThreadFacts
  <2> QED BY <1>2, <2>2, ThreadFacts DEF Flows
<1> QED BY <1>1, <1>2 DEF Own

(* A step that leaves a coroutine alone, and every chain at least as long  *)
(* as it was, preserves what the invariant says of the coroutine.          *)
LEMMA FlowFrame ==
  ASSUME IInv, NEW x \in Coroutines,
         pc'[x] = pc[x], fstate'[x] = fstate[x], cstack'[x] = cstack[x],
         resumeCtx'[x] = resumeCtx[x], frames'[x] = frames[x], holder'[x] = holder[x],
         \A u \in Threads : \A i \in 1 .. Depth(u) :
            nest[u][i] = x => i \in 1 .. Depth(u)' /\ nest'[u][i] = x,
         \A u \in Threads :
            pc[on[u]] \in {"back", "free", "clear"} /\ arg[on[u]] = x =>
            pc'[on'[u]] \in {"back", "free", "clear"} /\ arg'[on'[u]] = x
  PROVE  FlowInv(x)'
<1>1. pc[x] \in Active =>
        \E u \in Threads : \E i \in 1 .. Depth(u)' : nest'[u][i] = x
  <2> SUFFICES ASSUME pc[x] \in Active
               PROVE  \E u \in Threads : \E i \in 1 .. Depth(u)' : nest'[u][i] = x
    OBVIOUS
  <2>1. PICK u \in Threads : \E i \in 1 .. Depth(u) : nest[u][i] = x
    BY DEF IInv, FlowInv
  <2> QED BY <2>1
<1>2. pc[x] = "done" /\ cstack[x] # "null" =>
        \E u \in Threads : /\ pc'[on'[u]] \in {"back", "free", "clear"}
                           /\ arg'[on'[u]] = x
  BY DEF IInv, FlowInv
<1> QED BY <1>1, <1>2 DEF IInv, FlowInv

(* fiber_resume reading the state preserves the invariant.                 *)
LEMMA ReadStep ==
  ASSUME IInv, NEW t \in Threads, ResumeRead(t)
  PROVE  IInv'
<1> DEFINE f == on[t]
           c == arg[f]
<1> USE FlowsAssumption, MaxNestAssumption DEF Resuming
<1>1. /\ pc[f] = "read" /\ fault = "none"
      /\ prev' = [prev EXCEPT ![f] = fstate[c]]
      /\ pc' = [pc EXCEPT ![f] = "cas"]
      /\ UNCHANGED <<fstate, resumeCtx, suspendCtx, cstack, frames, hasError,
                     yieldable, nest, sp, on, arg, ret, holder, fault>>
  BY ThreadFacts DEF ResumeRead, At, Goto, fiberVars, objectVars, nestVars, localVars
<1>2. f \in Flows /\ c \in Flows
  BY <1>1, ThreadFacts DEF IInv, ResumeInv, Flows
<1>3. TypeOK'
  BY <1>1, <1>2, ThreadFacts DEF IInv, TypeOK, Positions, FiberStates, Results
<1>4. ASSUME NEW u \in Threads, u # t
      PROVE  Depth(u)' = Depth(u) /\ ChainInv(u)' /\ ResumeInv(u)' /\ NativeInv(u)'
  <2>1. on'[u] = on[u] /\ nest'[u] = nest[u] /\ sp'[u] = sp[u]
    BY <1>1, <1>2, <1>4 DEF IInv, TypeOK
  <2>2. ASSUME NEW x \in Own(u)
        PROVE  /\ pc'[x] = pc[x] /\ arg'[x] = arg[x]
               /\ prev'[x] = prev[x]
               /\ x \in Coroutines => holder'[x] = holder[x]
               /\ fstate'[x] = fstate[x] /\ cstack'[x] = cstack[x]
               /\ suspendCtx'[x] = suspendCtx[x]
    BY <1>1, <1>2, <1>4, OwnApart DEF IInv, TypeOK
  <2>3. \A x \in Threads : fstate'[x] = fstate[x]
    BY <1>1, <1>2, FlowsAssumption DEF IInv, TypeOK, Flows
  <2> QED BY <2>1, <2>2, <2>3, Frame
<1>5. Depth(t)' = Depth(t)
  BY <1>1, <1>2 DEF IInv, TypeOK, Depth
<1>6. ChainInv(t)'
  BY <1>1, <1>2, <1>5, ThreadFacts DEF IInv, TypeOK, ChainInv
<1>7. ResumeInv(t)'
  BY <1>1, <1>2, ThreadFacts DEF IInv, TypeOK, ResumeInv, Active
<1>8. NativeInv(t)'
  BY <1>1, <1>2, ThreadFacts DEF IInv, TypeOK, NativeInv, Flows
<1>9. \E u \in Threads : \E i \in 1 .. Depth(u)' : nest'[u][i] = on'[t]
  <2>1. Depth(t)' \in 1 .. Depth(t)'
    BY <1>2, <1>5, ThreadFacts
  <2>2. nest'[t][Depth(t)'] = on'[t]
    BY <1>6 DEF ChainInv
  <2> QED BY <2>1, <2>2
<1>10. ASSUME NEW x \in Coroutines PROVE FlowInv(x)'
  <2>1. CASE x = f
    <3>1. \E u \in Threads : \E i \in 1 .. Depth(u)' : nest'[u][i] = x
      BY <1>1, <1>2, <1>9, <2>1 DEF IInv, TypeOK
    <3> QED BY <1>1, <1>2, <2>1, <3>1, ThreadFacts DEF IInv, TypeOK, FlowInv, Active, Flows
  <2>2. CASE ~(x = f)
    <3>1. \A u \in Threads : \A i \in 1 .. Depth(u) :
             nest[u][i] = x => i \in 1 .. Depth(u)' /\ nest'[u][i] = x
      BY <1>1, <1>2, <1>4, <1>5, <2>2, ThreadFacts DEF IInv, TypeOK
    <3>2. \A u \in Threads :
             pc[on[u]] \in {"back", "free", "clear"} /\ arg[on[u]] = x =>
             pc'[on'[u]] \in {"back", "free", "clear"} /\ arg'[on'[u]] = x
      BY <1>1, <1>2, <2>2, ThreadFacts DEF IInv, TypeOK, Active
    <3> QED BY <1>1, <1>2, <2>2, <3>1, <3>2, FlowFrame DEF IInv, TypeOK, Flows
  <2> QED BY <2>1, <2>2
<1> QED BY <1>1, <1>2, <1>3, <1>4, <1>6, <1>7, <1>8, <1>10 DEF IInv

(* A successful compare-and-swap of fiber_resume preserves it: the target  *)
(* was SUSPENDED, so it is nested nowhere, and its holder is this thread.  *)
LEMMA CasStep ==
  ASSUME IInv, NEW t \in Threads, ResumeCas(t)
  PROVE  IInv'
<1> DEFINE f == on[t]
           c == arg[f]
<1> USE FlowsAssumption, MaxNestAssumption DEF Resuming
<1>1. /\ pc[f] = "cas" /\ fault = "none"
      /\ fstate[c] = "SUSPENDED"
      /\ fstate' = [fstate EXCEPT ![c] = "RUNNING"]
      /\ prev' = [prev EXCEPT ![f] = "NEW"]
      /\ pc' = [pc EXCEPT ![f] = "switch"]
      /\ UNCHANGED <<resumeCtx, suspendCtx, cstack, frames, hasError,
                     yieldable, nest, sp, on, arg, ret, holder, fault>>
  BY ThreadFacts DEF ResumeCas, At, Goto, fiberVars, objectVars, nestVars, localVars
<1>2. /\ f \in Flows /\ c \in Coroutines /\ c # f
      /\ holder[c] = t /\ pc[c] \in {"entry", "ywait"}
  <2>1. f \in Flows /\ c \in Flows
    BY <1>1, ThreadFacts
  <2>2. c \in Coroutines /\ holder[c] = t
    BY <1>1, <2>1 DEF IInv, NativeInv, ResumeInv, Flows
  <2>3. pc[c] \in {"entry", "ywait", "yswitch"}
    BY <1>1, <2>2 DEF IInv, TypeOK, FlowInv, Active, Positions
  <2>4. ASSUME pc[c] = "yswitch" PROVE FALSE
    <3>1. PICK u \in Threads : \E i \in 1 .. Depth(u) : nest[u][i] = c
      BY <2>2, <2>4 DEF IInv, FlowInv, Active
    <3>2. u = t
      BY <2>2, <3>1 DEF IInv, ChainInv
    <3>3. c = f
      BY <2>4, <3>1, <3>2, ThreadFacts DEF IInv, ChainInv
    <3> QED BY <1>1, <2>4, <3>3
  <2> QED BY <1>1, <2>1, <2>2, <2>3, <2>4
<1>3. TypeOK'
  BY <1>1, <1>2, ThreadFacts DEF IInv, TypeOK, Positions, FiberStates, Results
<1>4. ASSUME NEW u \in Threads, u # t
      PROVE  Depth(u)' = Depth(u) /\ ChainInv(u)' /\ ResumeInv(u)' /\ NativeInv(u)'
  <2>1. on'[u] = on[u] /\ nest'[u] = nest[u] /\ sp'[u] = sp[u]
    BY <1>1, <1>2, <1>4 DEF IInv, TypeOK
  <2>2. ASSUME NEW x \in Own(u)
        PROVE  /\ pc'[x] = pc[x] /\ arg'[x] = arg[x]
               /\ prev'[x] = prev[x]
               /\ x \in Coroutines => holder'[x] = holder[x]
               /\ fstate'[x] = fstate[x] /\ cstack'[x] = cstack[x]
               /\ suspendCtx'[x] = suspendCtx[x]
    BY <1>1, <1>2, <1>4, OwnApart DEF IInv, TypeOK
  <2>3. \A x \in Threads : fstate'[x] = fstate[x]
    BY <1>1, <1>2, FlowsAssumption DEF IInv, TypeOK, Flows
  <2> QED BY <2>1, <2>2, <2>3, Frame
<1>5. Depth(t)' = Depth(t)
  BY <1>1, <1>2 DEF IInv, TypeOK, Depth
<1>6. ChainInv(t)'
  BY <1>1, <1>2, <1>5, ThreadFacts DEF IInv, TypeOK, ChainInv
<1>7. ResumeInv(t)'
  BY <1>1, <1>2, ThreadFacts DEF IInv, TypeOK, ResumeInv, Active
<1>8. NativeInv(t)'
  BY <1>1, <1>2, ThreadFacts DEF IInv, TypeOK, NativeInv, Flows
<1>9. \E u \in Threads : \E i \in 1 .. Depth(u)' : nest'[u][i] = on'[t]
  <2>1. Depth(t)' \in 1 .. Depth(t)'
    BY <1>2, <1>5, ThreadFacts
  <2>2. nest'[t][Depth(t)'] = on'[t]
    BY <1>6 DEF ChainInv
  <2> QED BY <2>1, <2>2
<1>10. ASSUME NEW x \in Coroutines PROVE FlowInv(x)'
  <2>1. CASE x = f
    <3>1. \E u \in Threads : \E i \in 1 .. Depth(u)' : nest'[u][i] = x
      BY <1>1, <1>2, <1>9, <2>1 DEF IInv, TypeOK
    <3> QED BY <1>1, <1>2, <2>1, <3>1, ThreadFacts DEF IInv, TypeOK, FlowInv, Active, Flows
  <2>2. CASE x = c
    BY <1>1, <1>2, <2>2, ThreadFacts DEF IInv, TypeOK, FlowInv, Active, Flows
  <2>3. CASE ~(x = f) /\ ~(x = c)
    <3>1. \A u \in Threads : \A i \in 1 .. Depth(u) :
             nest[u][i] = x => i \in 1 .. Depth(u)' /\ nest'[u][i] = x
      BY <1>1, <1>2, <1>4, <1>5, <2>3, ThreadFacts DEF IInv, TypeOK
    <3>2. \A u \in Threads :
             pc[on[u]] \in {"back", "free", "clear"} /\ arg[on[u]] = x =>
             pc'[on'[u]] \in {"back", "free", "clear"} /\ arg'[on'[u]] = x
      BY <1>1, <1>2, <2>3, ThreadFacts DEF IInv, TypeOK, Active
    <3> QED BY <1>1, <1>2, <2>3, <3>1, <3>2, FlowFrame DEF IInv, TypeOK, Flows
  <2> QED BY <2>1, <2>2, <2>3
<1> QED BY <1>1, <1>2, <1>3, <1>4, <1>6, <1>7, <1>8, <1>10 DEF IInv

(* A refused resume preserves it, and never aborts: between the read and   *)
(* the compare-and-swap only the holder could have changed the state.      *)
LEMMA RefusedStep ==
  ASSUME IInv, NEW t \in Threads, ResumeRefused(t)
  PROVE  IInv'
<1> DEFINE f == on[t]
           c == arg[f]
<1> USE FlowsAssumption, MaxNestAssumption DEF Resuming
<1>1. /\ pc[f] = "cas" /\ fault = "none"
      /\ ret' \in [Flows -> Results]
      /\ nest' = [nest EXCEPT ![t][sp[t]] = NULL]
      /\ sp' = [sp EXCEPT ![t] = @ - 1]
      /\ arg' = [arg EXCEPT ![f] = NULL]
      /\ prev' = [prev EXCEPT ![f] = "NEW"]
      /\ pc' = [pc EXCEPT ![f] = "run"]
      /\ UNCHANGED <<fstate, resumeCtx, suspendCtx, cstack, frames, hasError,
                     yieldable, on, holder, fault>>
  
  <2>1. pc[f] = "cas" /\ fault = "none" /\ f \in Flows /\ fstate[c] # "SUSPENDED"
    BY ThreadFacts DEF ResumeRefused, At
  <2>2. prev[f] # "SUSPENDED"
    BY <2>1 DEF IInv, ResumeInv
  <2>3. ret' = [ret EXCEPT ![f] = IF prev[f] = "DEAD" THEN "dead" ELSE "running"]
    BY <2>2 DEF ResumeRefused
  <2>4. ret' \in [Flows -> Results]
    BY <2>3 DEF IInv, TypeOK, Results
  <2> QED BY <2>1, <2>2, <2>4 DEF ResumeRefused, Pop, Goto, fiberVars, objectVars
<1>2. /\ f \in Flows /\ Depth(t) = sp[t] - 1 /\ Depth(t) >= 1
      /\ \A u \in Threads : u # t => nest'[u] = nest[u] /\ sp'[u] = sp[u]
      /\ \A i \in 1 .. Depth(t) : nest'[t][i] = nest[t][i]
  BY <1>1, ThreadFacts DEF IInv, TypeOK, Slots
<1>3. TypeOK'
  
  <2>1. sp' \in [Threads -> 0 .. MaxNest]
    BY <1>1, ThreadFacts DEF IInv, TypeOK
  <2>2. nest' \in [Threads -> [Slots -> Flows \cup {NULL}]]
    BY <1>1 DEF IInv, TypeOK
  <2> QED BY <1>1, <1>2, <2>1, <2>2 DEF IInv, TypeOK, Positions, FiberStates
<1>4. ASSUME NEW u \in Threads, u # t
      PROVE  Depth(u)' = Depth(u) /\ ChainInv(u)' /\ ResumeInv(u)' /\ NativeInv(u)'
  <2>1. on'[u] = on[u] /\ nest'[u] = nest[u] /\ sp'[u] = sp[u]
    BY <1>1, <1>2, <1>4 DEF IInv, TypeOK
  <2>2. ASSUME NEW x \in Own(u)
        PROVE  /\ pc'[x] = pc[x] /\ arg'[x] = arg[x]
               /\ prev'[x] = prev[x]
               /\ x \in Coroutines => holder'[x] = holder[x]
               /\ fstate'[x] = fstate[x] /\ cstack'[x] = cstack[x]
               /\ suspendCtx'[x] = suspendCtx[x]
    BY <1>1, <1>2, <1>4, OwnApart DEF IInv, TypeOK
  <2>3. \A x \in Threads : fstate'[x] = fstate[x]
    BY <1>1, <1>2, FlowsAssumption DEF IInv, TypeOK, Flows
  <2> QED BY <2>1, <2>2, <2>3, Frame
<1>5. Depth(t)' = Depth(t)
  BY <1>1, <1>2 DEF IInv, TypeOK, Depth
<1>6. ChainInv(t)'
  BY <1>1, <1>2, <1>5, ThreadFacts DEF IInv, TypeOK, ChainInv
<1>7. ResumeInv(t)'
  BY <1>1, <1>2, ThreadFacts DEF IInv, TypeOK, ResumeInv, Active
<1>8. NativeInv(t)'
  BY <1>1, <1>2, ThreadFacts DEF IInv, TypeOK, NativeInv, Flows
<1>9. \E u \in Threads : \E i \in 1 .. Depth(u)' : nest'[u][i] = on'[t]
  <2>1. Depth(t)' \in 1 .. Depth(t)'
    BY <1>2, <1>5, ThreadFacts
  <2>2. nest'[t][Depth(t)'] = on'[t]
    BY <1>6 DEF ChainInv
  <2> QED BY <2>1, <2>2
<1>10. ASSUME NEW x \in Coroutines PROVE FlowInv(x)'
  <2>1. CASE x = f
    <3>1. \E u \in Threads : \E i \in 1 .. Depth(u)' : nest'[u][i] = x
      BY <1>1, <1>2, <1>9, <2>1 DEF IInv, TypeOK
    <3> QED BY <1>1, <1>2, <2>1, <3>1, ThreadFacts DEF IInv, TypeOK, FlowInv, Active, Flows
  <2>2. CASE ~(x = f)
    <3>1. \A u \in Threads : \A i \in 1 .. Depth(u) :
             nest[u][i] = x => i \in 1 .. Depth(u)' /\ nest'[u][i] = x
      BY <1>1, <1>2, <1>4, <1>5, <2>2, ThreadFacts DEF IInv, TypeOK
    <3>2. \A u \in Threads :
             pc[on[u]] \in {"back", "free", "clear"} /\ arg[on[u]] = x =>
             pc'[on'[u]] \in {"back", "free", "clear"} /\ arg'[on'[u]] = x
      BY <1>1, <1>2, <2>2, ThreadFacts DEF IInv, TypeOK, Active
    <3> QED BY <1>1, <1>2, <2>2, <3>1, <3>2, FlowFrame DEF IInv, TypeOK, Flows
  <2> QED BY <2>1, <2>2
<1> QED BY <1>1, <1>2, <1>3, <1>4, <1>6, <1>7, <1>8, <1>10 DEF IInv

(* Entering the target preserves it: its context is saved and its C stack  *)
(* live, and the nesting grows by the target.                              *)
LEMMA SwitchInStep ==
  ASSUME IInv, NEW t \in Threads, SwitchIn(t)
  PROVE  IInv'
<1> DEFINE f == on[t]
           c == arg[f]
<1> USE FlowsAssumption, MaxNestAssumption DEF Resuming
<1>1. /\ pc[f] = "switch" /\ f \in Flows /\ c \in Coroutines /\ c # f /\ c \in Flows
      /\ holder[c] = t /\ pc[c] \in {"entry", "ywait"} /\ fstate[c] = "RUNNING"
      /\ resumeCtx[c] = c /\ cstack[c] = "live"
  
  <2>1. pc[f] = "switch" /\ f \in Flows
    <3>1. At(t, "switch")
      BY DEF SwitchIn
    <3> QED BY <3>1, ThreadFacts DEF At
  <2>2. /\ c \in Coroutines /\ holder[c] = t
        /\ pc[c] \in {"entry", "ywait"} /\ fstate[c] = "RUNNING"
    BY <2>1 DEF IInv, ResumeInv
  <2>3. resumeCtx[c] = c /\ cstack[c] = "live"
    BY <2>2 DEF IInv, FlowInv
  <2> QED BY <2>1, <2>2, <2>3 DEF Flows
<1>2. /\ ret' \in [Flows -> Results]
      /\ suspendCtx' = [suspendCtx EXCEPT ![c] = f]
      /\ resumeCtx' = [resumeCtx EXCEPT ![c] = NULL]
      /\ on' = [on EXCEPT ![t] = c]
      /\ pc' = [pc EXCEPT ![f] = "wait", ![c] = "run"]
      /\ fault = "none"
      /\ UNCHANGED <<fstate, cstack, frames, hasError, yieldable, nest, sp, arg,
                     prev, holder, fault>>
  <2>1. /\ fault = "none"
        /\ ret' = [ret EXCEPT ![c] = IF pc[c] = "ywait" THEN "ok" ELSE "none"]
        /\ suspendCtx' = [suspendCtx EXCEPT ![c] = f]
        /\ resumeCtx' = [resumeCtx EXCEPT ![c] = NULL]
        /\ on' = [on EXCEPT ![t] = c]
        /\ pc' = [pc EXCEPT ![f] = "wait", ![c] = "run"]
        /\ UNCHANGED <<fstate, cstack, frames, hasError, yieldable, nest, sp,
                       arg, prev, holder, fault>>
    BY <1>1, FlowsAssumption DEF SwitchIn, Lose, At, objectVars, nestVars
  <2> QED BY <1>1, <2>1 DEF IInv, TypeOK, Results
<1>3. TypeOK'
  BY <1>1, <1>2, ThreadFacts DEF IInv, TypeOK, Positions, FiberStates, Results
<1>4. ASSUME NEW u \in Threads, u # t
      PROVE  Depth(u)' = Depth(u) /\ ChainInv(u)' /\ ResumeInv(u)' /\ NativeInv(u)'
  <2>1. on'[u] = on[u] /\ nest'[u] = nest[u] /\ sp'[u] = sp[u]
    BY <1>1, <1>2, <1>4 DEF IInv, TypeOK
  <2>2. ASSUME NEW x \in Own(u)
        PROVE  /\ pc'[x] = pc[x] /\ arg'[x] = arg[x]
               /\ prev'[x] = prev[x]
               /\ x \in Coroutines => holder'[x] = holder[x]
               /\ fstate'[x] = fstate[x] /\ cstack'[x] = cstack[x]
               /\ suspendCtx'[x] = suspendCtx[x]
    BY <1>1, <1>2, <1>4, OwnApart DEF IInv, TypeOK
  <2>3. \A x \in Threads : fstate'[x] = fstate[x]
    BY <1>1, <1>2, FlowsAssumption DEF IInv, TypeOK, Flows
  <2> QED BY <2>1, <2>2, <2>3, Frame
<1>5. Depth(t)' = Depth(t) + 1
  BY <1>1, <1>2, ThreadFacts DEF IInv, TypeOK, Depth, Flows
<1>6. ChainInv(t)'
  <2>1. nest'[t] = nest[t] /\ Depth(t) + 1 \in Slots /\ nest[t][Depth(t) + 1] = c
    BY <1>1, <1>2, <1>5, ThreadFacts DEF Slots
  <2>2. \A i \in 1 .. Depth(t) : nest[t][i] # c
    BY <1>1, ThreadFacts DEF IInv, ChainInv, TypeOK
  <2>3. /\ Depth(t)' >= 1 /\ nest'[t][1] = t /\ nest'[t][Depth(t)'] = on'[t]
    BY <1>1, <1>2, <1>5, <2>1, ThreadFacts DEF IInv, TypeOK, ChainInv
  <2>5. ASSUME NEW i \in 2 .. Depth(t)'
        PROVE  nest'[t][i] \in Coroutines /\ holder'[nest'[t][i]] = t
    <3>1. CASE i = Depth(t) + 1
      BY <1>1, <1>2, <2>1, <3>1
    <3>2. CASE i \in 2 .. Depth(t)
      BY <1>2, <2>1, <3>2 DEF IInv, ChainInv
    <3> QED BY <1>5, <3>1, <3>2, ThreadFacts
  <2>6. ASSUME NEW i \in 1 .. Depth(t)', NEW j \in 1 .. Depth(t)',
               nest'[t][i] = nest'[t][j]
        PROVE  i = j
    <3>1. CASE i \in 1 .. Depth(t) /\ j \in 1 .. Depth(t)
      BY <2>1, <2>6, <3>1 DEF IInv, ChainInv
    <3> QED BY <1>5, <2>1, <2>2, <2>6, <3>1, ThreadFacts
  <2>4. ASSUME NEW i \in 1 .. (Depth(t)' - 1)
        PROVE  /\ pc'[nest'[t][i]] = "wait"
               /\ arg'[nest'[t][i]] = nest'[t][i+1]
               /\ suspendCtx'[nest'[t][i+1]] = nest'[t][i]
    <3>1. CASE i = Depth(t)
      BY <1>1, <1>2, <1>5, <2>1, <3>1, ThreadFacts DEF IInv, TypeOK
    <3>2. CASE i \in 1 .. (Depth(t) - 1)
      <4>1. /\ pc[nest[t][i]] = "wait" /\ arg[nest[t][i]] = nest[t][i+1]
            /\ suspendCtx[nest[t][i+1]] = nest[t][i]
        BY <3>2 DEF IInv, ChainInv
      <4>2. nest[t][i] \in Flows /\ nest[t][i] # c /\ nest[t][i+1] # c
        BY <2>1, <2>2, <3>2, ThreadFacts DEF IInv, ChainInv, Flows
      <4>3. nest[t][i] # f
        BY <1>1, <4>1
      <4> QED BY <1>1, <1>2, <2>1, <4>1, <4>2, <4>3 DEF IInv, TypeOK
    <3> QED BY <1>5, <3>1, <3>2, ThreadFacts
  <2> QED BY <2>3, <2>4, <2>5, <2>6 DEF ChainInv
<1>7. ResumeInv(t)'
  BY <1>1, <1>2, ThreadFacts DEF IInv, TypeOK, ResumeInv, Active
<1>8. NativeInv(t)'
  BY <1>1, <1>2, ThreadFacts DEF IInv, TypeOK, NativeInv, Flows
<1>9. \E u \in Threads : \E i \in 1 .. Depth(u)' : nest'[u][i] = on'[t]
  <2>1. Depth(t)' \in 1 .. Depth(t)'
    BY <1>2, <1>5, ThreadFacts
  <2>2. nest'[t][Depth(t)'] = on'[t]
    BY <1>6 DEF ChainInv
  <2> QED BY <2>1, <2>2
<1>10. ASSUME NEW x \in Coroutines PROVE FlowInv(x)'
  <2>1. CASE x = f
    <3>1. \E u \in Threads : \E i \in 1 .. Depth(u)' : nest'[u][i] = x
      BY <1>1, <1>2, <1>5, <2>1, ThreadFacts DEF IInv, TypeOK
    <3> QED BY <1>1, <1>2, <2>1, <3>1, ThreadFacts DEF IInv, TypeOK, FlowInv, Active, Flows
  <2>2. CASE x = c
    <3>1. \E u \in Threads : \E i \in 1 .. Depth(u)' : nest'[u][i] = x
      BY <1>1, <1>2, <1>9, <2>2 DEF IInv, TypeOK
    <3> QED BY <1>1, <1>2, <2>2, <3>1, ThreadFacts DEF IInv, TypeOK, FlowInv, Active, Flows
  <2>3. CASE ~(x = f) /\ ~(x = c)
    <3>1. \A u \in Threads : \A i \in 1 .. Depth(u) :
             nest[u][i] = x => i \in 1 .. Depth(u)' /\ nest'[u][i] = x
      BY <1>1, <1>2, <1>4, <1>5, <2>3, ThreadFacts DEF IInv, TypeOK
    <3>2. \A u \in Threads :
             pc[on[u]] \in {"back", "free", "clear"} /\ arg[on[u]] = x =>
             pc'[on'[u]] \in {"back", "free", "clear"} /\ arg'[on'[u]] = x
      BY <1>1, <1>2, <2>3, ThreadFacts DEF IInv, TypeOK, Active
    <3> QED BY <1>1, <1>2, <2>3, <3>1, <3>2, FlowFrame DEF IInv, TypeOK, Flows
  <2> QED BY <2>1, <2>2, <2>3
<1> QED BY <1>1, <1>2, <1>3, <1>4, <1>6, <1>7, <1>8, <1>10 DEF IInv

(* The compare-and-swap of fiber_yield preserves it.                       *)
LEMMA YieldStep ==
  ASSUME IInv, NEW t \in Threads, Yield(t)
  PROVE  IInv'
<1> DEFINE f == on[t]
<1> USE FlowsAssumption, MaxNestAssumption DEF Resuming
<1>1. /\ pc[f] = "run" /\ fault = "none" /\ f \in Coroutines
      /\ fstate' = [fstate EXCEPT ![f] = "SUSPENDED"]
      /\ arg' = [arg EXCEPT ![f] = f]
      /\ ret' \in [Flows -> Results]
      /\ pc' = [pc EXCEPT ![f] = "yswitch"]
      /\ UNCHANGED <<resumeCtx, suspendCtx, cstack, frames, hasError, yieldable, nest, sp,
                     on, prev, holder, fault>>
  
  <2>1. pc[f] = "run" /\ fault = "none" /\ f \in Coroutines /\ Executing(t) = f
    <3>1. At(t, "run") /\ Executing(t) \in Coroutines
      BY DEF Yield
    <3> QED BY <3>1, ThreadFacts DEF At
  <2>2. fstate[f] = "RUNNING"
    BY <2>1 DEF IInv, FlowInv, Active
  <2>3. ret' = [ret EXCEPT ![f] = "none"]
    BY <2>1, <2>2 DEF Yield
  <2>4. ret' \in [Flows -> Results]
    BY <2>3 DEF IInv, TypeOK, Results
  <2> QED BY <2>1, <2>2, <2>4 DEF Yield, Goto, objectVars, nestVars
<1>2. f \in Flows
  BY <1>1 DEF Flows
<1>3. TypeOK'
  BY <1>1, <1>2, ThreadFacts DEF IInv, TypeOK, Positions, FiberStates, Results
<1>4. ASSUME NEW u \in Threads, u # t
      PROVE  Depth(u)' = Depth(u) /\ ChainInv(u)' /\ ResumeInv(u)' /\ NativeInv(u)'
  <2>1. on'[u] = on[u] /\ nest'[u] = nest[u] /\ sp'[u] = sp[u]
    BY <1>1, <1>2, <1>4 DEF IInv, TypeOK
  <2>2. ASSUME NEW x \in Own(u)
        PROVE  /\ pc'[x] = pc[x] /\ arg'[x] = arg[x]
               /\ prev'[x] = prev[x]
               /\ x \in Coroutines => holder'[x] = holder[x]
               /\ fstate'[x] = fstate[x] /\ cstack'[x] = cstack[x]
               /\ suspendCtx'[x] = suspendCtx[x]
    BY <1>1, <1>2, <1>4, OwnApart DEF IInv, TypeOK
  <2>3. \A x \in Threads : fstate'[x] = fstate[x]
    BY <1>1, <1>2, FlowsAssumption DEF IInv, TypeOK, Flows
  <2> QED BY <2>1, <2>2, <2>3, Frame
<1>5. Depth(t)' = Depth(t)
  BY <1>1, <1>2 DEF IInv, TypeOK, Depth
<1>6. ChainInv(t)'
  BY <1>1, <1>2, <1>5, ThreadFacts DEF IInv, TypeOK, ChainInv
<1>7. ResumeInv(t)'
  BY <1>1, <1>2, ThreadFacts DEF IInv, TypeOK, ResumeInv, Active
<1>8. NativeInv(t)'
  BY <1>1, <1>2, ThreadFacts DEF IInv, TypeOK, NativeInv, Flows
<1>9. \E u \in Threads : \E i \in 1 .. Depth(u)' : nest'[u][i] = on'[t]
  <2>1. Depth(t)' \in 1 .. Depth(t)'
    BY <1>2, <1>5, ThreadFacts
  <2>2. nest'[t][Depth(t)'] = on'[t]
    BY <1>6 DEF ChainInv
  <2> QED BY <2>1, <2>2
<1>10. ASSUME NEW x \in Coroutines PROVE FlowInv(x)'
  <2>1. CASE x = f
    <3>1. \E u \in Threads : \E i \in 1 .. Depth(u)' : nest'[u][i] = x
      BY <1>1, <1>2, <1>9, <2>1 DEF IInv, TypeOK
    <3> QED BY <1>1, <1>2, <2>1, <3>1, ThreadFacts DEF IInv, TypeOK, FlowInv, Active, Flows
  <2>2. CASE ~(x = f)
    <3>1. \A u \in Threads : \A i \in 1 .. Depth(u) :
             nest[u][i] = x => i \in 1 .. Depth(u)' /\ nest'[u][i] = x
      BY <1>1, <1>2, <1>4, <1>5, <2>2, ThreadFacts DEF IInv, TypeOK
    <3>2. \A u \in Threads :
             pc[on[u]] \in {"back", "free", "clear"} /\ arg[on[u]] = x =>
             pc'[on'[u]] \in {"back", "free", "clear"} /\ arg'[on'[u]] = x
      BY <1>1, <1>2, <2>2, ThreadFacts DEF IInv, TypeOK, Active
    <3> QED BY <1>1, <1>2, <2>2, <3>1, <3>2, FlowFrame DEF IInv, TypeOK, Flows
  <2> QED BY <2>1, <2>2
<1> QED BY <1>1, <1>2, <1>3, <1>4, <1>6, <1>7, <1>8, <1>10 DEF IInv

(* A body that returns preserves it: there is a frame to pop.              *)
LEMMA ReturnStep ==
  ASSUME IInv, NEW t \in Threads, Return(t)
  PROVE  IInv'
<1> DEFINE f == on[t]
<1> USE FlowsAssumption, MaxNestAssumption DEF Resuming
<1>1. /\ pc[f] = "run" /\ fault = "none" /\ f \in Coroutines
      /\ frames' = [frames EXCEPT ![f] = @ - 1]
      /\ frames[f] >= 1
      /\ pc' = [pc EXCEPT ![f] = "exit"]
      /\ UNCHANGED <<fstate, resumeCtx, suspendCtx, cstack, hasError, yieldable, nest, sp,
                     on, arg, prev, ret, holder, fault>>
  
  <2>1. pc[f] = "run" /\ fault = "none" /\ f \in Coroutines /\ Executing(t) = f
    <3>1. At(t, "run") /\ f \in Coroutines
      BY DEF Return
    <3> QED BY <3>1, ThreadFacts DEF At
  <2>2. frames[f] >= 1
    BY <2>1 DEF IInv, FlowInv, Active
  <2> QED BY <2>1, <2>2 DEF Return, Goto, fiberVars, nestVars, localVars
<1>2. f \in Flows
  BY <1>1 DEF Flows
<1>3. TypeOK'
  BY <1>1, <1>2, ThreadFacts DEF IInv, TypeOK, Positions, FiberStates, Results
<1>4. ASSUME NEW u \in Threads, u # t
      PROVE  Depth(u)' = Depth(u) /\ ChainInv(u)' /\ ResumeInv(u)' /\ NativeInv(u)'
  <2>1. on'[u] = on[u] /\ nest'[u] = nest[u] /\ sp'[u] = sp[u]
    BY <1>1, <1>2, <1>4 DEF IInv, TypeOK
  <2>2. ASSUME NEW x \in Own(u)
        PROVE  /\ pc'[x] = pc[x] /\ arg'[x] = arg[x]
               /\ prev'[x] = prev[x]
               /\ x \in Coroutines => holder'[x] = holder[x]
               /\ fstate'[x] = fstate[x] /\ cstack'[x] = cstack[x]
               /\ suspendCtx'[x] = suspendCtx[x]
    BY <1>1, <1>2, <1>4, OwnApart DEF IInv, TypeOK
  <2>3. \A x \in Threads : fstate'[x] = fstate[x]
    BY <1>1, <1>2, FlowsAssumption DEF IInv, TypeOK, Flows
  <2> QED BY <2>1, <2>2, <2>3, Frame
<1>5. Depth(t)' = Depth(t)
  BY <1>1, <1>2 DEF IInv, TypeOK, Depth
<1>6. ChainInv(t)'
  BY <1>1, <1>2, <1>5, ThreadFacts DEF IInv, TypeOK, ChainInv
<1>7. ResumeInv(t)'
  BY <1>1, <1>2, ThreadFacts DEF IInv, TypeOK, ResumeInv, Active
<1>8. NativeInv(t)'
  BY <1>1, <1>2, ThreadFacts DEF IInv, TypeOK, NativeInv, Flows
<1>9. \E u \in Threads : \E i \in 1 .. Depth(u)' : nest'[u][i] = on'[t]
  <2>1. Depth(t)' \in 1 .. Depth(t)'
    BY <1>2, <1>5, ThreadFacts
  <2>2. nest'[t][Depth(t)'] = on'[t]
    BY <1>6 DEF ChainInv
  <2> QED BY <2>1, <2>2
<1>10. ASSUME NEW x \in Coroutines PROVE FlowInv(x)'
  <2>1. CASE x = f
    <3>1. \E u \in Threads : \E i \in 1 .. Depth(u)' : nest'[u][i] = x
      BY <1>1, <1>2, <1>9, <2>1 DEF IInv, TypeOK
    <3> QED BY <1>1, <1>2, <2>1, <3>1, ThreadFacts DEF IInv, TypeOK, FlowInv, Active, Flows
  <2>2. CASE ~(x = f)
    <3>1. \A u \in Threads : \A i \in 1 .. Depth(u) :
             nest[u][i] = x => i \in 1 .. Depth(u)' /\ nest'[u][i] = x
      BY <1>1, <1>2, <1>4, <1>5, <2>2, ThreadFacts DEF IInv, TypeOK
    <3>2. \A u \in Threads :
             pc[on[u]] \in {"back", "free", "clear"} /\ arg[on[u]] = x =>
             pc'[on'[u]] \in {"back", "free", "clear"} /\ arg'[on'[u]] = x
      BY <1>1, <1>2, <2>2, ThreadFacts DEF IInv, TypeOK, Active
    <3> QED BY <1>1, <1>2, <2>2, <3>1, <3>2, FlowFrame DEF IInv, TypeOK, Flows
  <2> QED BY <2>1, <2>2
<1> QED BY <1>1, <1>2, <1>3, <1>4, <1>6, <1>7, <1>8, <1>10 DEF IInv

(* A body that throws preserves it.                                        *)
LEMMA ThrowStep ==
  ASSUME IInv, NEW t \in Threads, Throw(t)
  PROVE  IInv'
<1> DEFINE f == on[t]
<1> USE FlowsAssumption, MaxNestAssumption DEF Resuming
<1>1. /\ pc[f] = "run" /\ fault = "none" /\ f \in Coroutines
      /\ hasError' = [hasError EXCEPT ![f] = TRUE]
      /\ pc' = [pc EXCEPT ![f] = "exit"]
      /\ UNCHANGED <<fstate, resumeCtx, suspendCtx, cstack, frames, yieldable, nest, sp,
                     on, arg, prev, ret, holder, fault>>
  BY ThreadFacts DEF Throw, At, Goto, fiberVars, nestVars, localVars
<1>2. f \in Flows
  BY <1>1 DEF Flows
<1>3. TypeOK'
  BY <1>1, <1>2, ThreadFacts DEF IInv, TypeOK, Positions, FiberStates, Results
<1>4. ASSUME NEW u \in Threads, u # t
      PROVE  Depth(u)' = Depth(u) /\ ChainInv(u)' /\ ResumeInv(u)' /\ NativeInv(u)'
  <2>1. on'[u] = on[u] /\ nest'[u] = nest[u] /\ sp'[u] = sp[u]
    BY <1>1, <1>2, <1>4 DEF IInv, TypeOK
  <2>2. ASSUME NEW x \in Own(u)
        PROVE  /\ pc'[x] = pc[x] /\ arg'[x] = arg[x]
               /\ prev'[x] = prev[x]
               /\ x \in Coroutines => holder'[x] = holder[x]
               /\ fstate'[x] = fstate[x] /\ cstack'[x] = cstack[x]
               /\ suspendCtx'[x] = suspendCtx[x]
    BY <1>1, <1>2, <1>4, OwnApart DEF IInv, TypeOK
  <2>3. \A x \in Threads : fstate'[x] = fstate[x]
    BY <1>1, <1>2, FlowsAssumption DEF IInv, TypeOK, Flows
  <2> QED BY <2>1, <2>2, <2>3, Frame
<1>5. Depth(t)' = Depth(t)
  BY <1>1, <1>2 DEF IInv, TypeOK, Depth
<1>6. ChainInv(t)'
  BY <1>1, <1>2, <1>5, ThreadFacts DEF IInv, TypeOK, ChainInv
<1>7. ResumeInv(t)'
  BY <1>1, <1>2, ThreadFacts DEF IInv, TypeOK, ResumeInv, Active
<1>8. NativeInv(t)'
  BY <1>1, <1>2, ThreadFacts DEF IInv, TypeOK, NativeInv, Flows
<1>9. \E u \in Threads : \E i \in 1 .. Depth(u)' : nest'[u][i] = on'[t]
  <2>1. Depth(t)' \in 1 .. Depth(t)'
    BY <1>2, <1>5, ThreadFacts
  <2>2. nest'[t][Depth(t)'] = on'[t]
    BY <1>6 DEF ChainInv
  <2> QED BY <2>1, <2>2
<1>10. ASSUME NEW x \in Coroutines PROVE FlowInv(x)'
  <2>1. CASE x = f
    <3>1. \E u \in Threads : \E i \in 1 .. Depth(u)' : nest'[u][i] = x
      BY <1>1, <1>2, <1>9, <2>1 DEF IInv, TypeOK
    <3> QED BY <1>1, <1>2, <2>1, <3>1, ThreadFacts DEF IInv, TypeOK, FlowInv, Active, Flows
  <2>2. CASE ~(x = f)
    <3>1. \A u \in Threads : \A i \in 1 .. Depth(u) :
             nest[u][i] = x => i \in 1 .. Depth(u)' /\ nest'[u][i] = x
      BY <1>1, <1>2, <1>4, <1>5, <2>2, ThreadFacts DEF IInv, TypeOK
    <3>2. \A u \in Threads :
             pc[on[u]] \in {"back", "free", "clear"} /\ arg[on[u]] = x =>
             pc'[on'[u]] \in {"back", "free", "clear"} /\ arg'[on'[u]] = x
      BY <1>1, <1>2, <2>2, ThreadFacts DEF IInv, TypeOK, Active
    <3> QED BY <1>1, <1>2, <2>2, <3>1, <3>2, FlowFrame DEF IInv, TypeOK, Flows
  <2> QED BY <2>1, <2>2
<1> QED BY <1>1, <1>2, <1>3, <1>4, <1>6, <1>7, <1>8, <1>10 DEF IInv

(* Publishing FIBER_DEAD preserves it.                                     *)
LEMMA MarkDeadStep ==
  ASSUME IInv, NEW t \in Threads, MarkDead(t)
  PROVE  IInv'
<1> DEFINE f == on[t]
<1> USE FlowsAssumption, MaxNestAssumption DEF Resuming
<1>1. /\ pc[f] = "exit" /\ fault = "none" /\ f \in Coroutines
      /\ fstate' = [fstate EXCEPT ![f] = "DEAD"]
      /\ pc' = [pc EXCEPT ![f] = "xswitch"]
      /\ UNCHANGED <<resumeCtx, suspendCtx, cstack, frames, hasError, yieldable, nest, sp,
                     on, arg, prev, ret, holder, fault>>
  
  <2>1. pc[f] = "exit" /\ fault = "none"
    BY DEF MarkDead, At
  <2>2. f \in Coroutines
    BY <2>1, ThreadFacts DEF IInv, NativeInv, Flows
  <2> QED BY <2>1, <2>2 DEF MarkDead, Goto, objectVars, nestVars, localVars
<1>2. f \in Flows
  BY <1>1 DEF Flows
<1>3. TypeOK'
  BY <1>1, <1>2, ThreadFacts DEF IInv, TypeOK, Positions, FiberStates, Results
<1>4. ASSUME NEW u \in Threads, u # t
      PROVE  Depth(u)' = Depth(u) /\ ChainInv(u)' /\ ResumeInv(u)' /\ NativeInv(u)'
  <2>1. on'[u] = on[u] /\ nest'[u] = nest[u] /\ sp'[u] = sp[u]
    BY <1>1, <1>2, <1>4 DEF IInv, TypeOK
  <2>2. ASSUME NEW x \in Own(u)
        PROVE  /\ pc'[x] = pc[x] /\ arg'[x] = arg[x]
               /\ prev'[x] = prev[x]
               /\ x \in Coroutines => holder'[x] = holder[x]
               /\ fstate'[x] = fstate[x] /\ cstack'[x] = cstack[x]
               /\ suspendCtx'[x] = suspendCtx[x]
    BY <1>1, <1>2, <1>4, OwnApart DEF IInv, TypeOK
  <2>3. \A x \in Threads : fstate'[x] = fstate[x]
    BY <1>1, <1>2, FlowsAssumption DEF IInv, TypeOK, Flows
  <2> QED BY <2>1, <2>2, <2>3, Frame
<1>5. Depth(t)' = Depth(t)
  BY <1>1, <1>2 DEF IInv, TypeOK, Depth
<1>6. ChainInv(t)'
  BY <1>1, <1>2, <1>5, ThreadFacts DEF IInv, TypeOK, ChainInv
<1>7. ResumeInv(t)'
  BY <1>1, <1>2, ThreadFacts DEF IInv, TypeOK, ResumeInv, Active
<1>8. NativeInv(t)'
  BY <1>1, <1>2, ThreadFacts DEF IInv, TypeOK, NativeInv, Flows
<1>9. \E u \in Threads : \E i \in 1 .. Depth(u)' : nest'[u][i] = on'[t]
  <2>1. Depth(t)' \in 1 .. Depth(t)'
    BY <1>2, <1>5, ThreadFacts
  <2>2. nest'[t][Depth(t)'] = on'[t]
    BY <1>6 DEF ChainInv
  <2> QED BY <2>1, <2>2
<1>10. ASSUME NEW x \in Coroutines PROVE FlowInv(x)'
  <2>1. CASE x = f
    <3>1. \E u \in Threads : \E i \in 1 .. Depth(u)' : nest'[u][i] = x
      BY <1>1, <1>2, <1>9, <2>1 DEF IInv, TypeOK
    <3> QED BY <1>1, <1>2, <2>1, <3>1, ThreadFacts DEF IInv, TypeOK, FlowInv, Active, Flows
  <2>2. CASE ~(x = f)
    <3>1. \A u \in Threads : \A i \in 1 .. Depth(u) :
             nest[u][i] = x => i \in 1 .. Depth(u)' /\ nest'[u][i] = x
      BY <1>1, <1>2, <1>4, <1>5, <2>2, ThreadFacts DEF IInv, TypeOK
    <3>2. \A u \in Threads :
             pc[on[u]] \in {"back", "free", "clear"} /\ arg[on[u]] = x =>
             pc'[on'[u]] \in {"back", "free", "clear"} /\ arg'[on'[u]] = x
      BY <1>1, <1>2, <2>2, ThreadFacts DEF IInv, TypeOK, Active
    <3> QED BY <1>1, <1>2, <2>2, <3>1, <3>2, FlowFrame DEF IInv, TypeOK, Flows
  <2> QED BY <2>1, <2>2
<1> QED BY <1>1, <1>2, <1>3, <1>4, <1>6, <1>7, <1>8, <1>10 DEF IInv

(* Leaving a yielding flow preserves it: suspendCtx names the flow below.  *)
LEMMA YieldSwitchStep ==
  ASSUME IInv, NEW t \in Threads, YieldSwitch(t)
  PROVE  IInv'
<1> DEFINE f == on[t]
           g == suspendCtx[f]
<1> USE FlowsAssumption, MaxNestAssumption DEF Resuming
<1>1. /\ pc[f] = "yswitch" /\ fault = "none" /\ f \in Coroutines
      /\ resumeCtx' = [resumeCtx EXCEPT ![f] = f]
      /\ on' = [on EXCEPT ![t] = g]
      /\ pc' = [pc EXCEPT ![f] = "ywait", ![g] = "back"]
      /\ arg' = [arg EXCEPT ![f] = NULL]
      /\ UNCHANGED <<fstate, suspendCtx, cstack, frames, hasError, yieldable, nest, sp,
                     prev, ret, holder, fault>>
  
  <2>1. pc[f] = "yswitch" /\ fault = "none"
    BY DEF YieldSwitch, At
  <2>2. f \in Coroutines /\ arg[f] = f
    BY <2>1, ThreadFacts DEF IInv, NativeInv, ResumeInv, Flows
  <2> QED BY <2>1, <2>2 DEF YieldSwitch, objectVars, nestVars
<1>2. /\ f \in Flows /\ g \in Flows /\ g # f /\ Depth(t) >= 2 /\ sp[t] = Depth(t)
      /\ Depth(t) \in Int
      /\ g = nest[t][Depth(t) - 1] /\ f = nest[t][Depth(t)]
      /\ pc[g] = "wait" /\ arg[g] = f
      /\ g \in Coroutines => holder[g] = t
      /\ g \in Threads => g = t
      /\ \A u \in Threads : u # t => f \notin Own(u) /\ g \notin Own(u)
  <2>1. Depth(t) \in 2 .. MaxNest /\ f = nest[t][Depth(t)] /\ sp[t] = Depth(t)
    BY <1>1, ThreadFacts
  <2>2. Depth(t) - 1 \in 1 .. Depth(t) /\ Depth(t) - 1 \in 1 .. (Depth(t) - 1)
    BY <2>1
  <2>3. /\ suspendCtx[f] = nest[t][Depth(t) - 1] /\ pc[nest[t][Depth(t) - 1]] = "wait"
        /\ arg[nest[t][Depth(t) - 1]] = f
    BY <2>1, <2>2 DEF IInv, ChainInv
  <2>4. /\ g \in Coroutines => holder[g] = t
        /\ g \in Threads => g = t
        /\ g \in Flows
    <3>1. CASE Depth(t) - 1 = 1
      BY <2>3, <3>1 DEF IInv, ChainInv, Flows
    <3>2. CASE Depth(t) - 1 \in 2 .. Depth(t)
      BY <2>3, <3>2 DEF IInv, ChainInv, Flows
    <3> QED BY <2>1, <3>1, <3>2
  <2>5. \A u \in Threads : u # t => f \notin Own(u) /\ g \notin Own(u)
    BY <2>4, OwnApart DEF Flows
  <2> QED BY <1>1, <2>1, <2>2, <2>3, <2>4, <2>5 DEF Flows
<1>3. TypeOK'
  BY <1>1, <1>2, ThreadFacts DEF IInv, TypeOK, Positions, FiberStates, Results
<1>4. ASSUME NEW u \in Threads, u # t
      PROVE  Depth(u)' = Depth(u) /\ ChainInv(u)' /\ ResumeInv(u)' /\ NativeInv(u)'
  <2>1. on'[u] = on[u] /\ nest'[u] = nest[u] /\ sp'[u] = sp[u]
    BY <1>1, <1>2, <1>4 DEF IInv, TypeOK
  <2>2. ASSUME NEW x \in Own(u)
        PROVE  /\ pc'[x] = pc[x] /\ arg'[x] = arg[x]
               /\ prev'[x] = prev[x]
               /\ x \in Coroutines => holder'[x] = holder[x]
               /\ fstate'[x] = fstate[x] /\ cstack'[x] = cstack[x]
               /\ suspendCtx'[x] = suspendCtx[x]
    BY <1>1, <1>2, <1>4, OwnApart DEF IInv, TypeOK
  <2>3. \A x \in Threads : fstate'[x] = fstate[x]
    BY <1>1, <1>2, FlowsAssumption DEF IInv, TypeOK, Flows
  <2> QED BY <2>1, <2>2, <2>3, Frame
<1>5. Depth(t)' = Depth(t) - 1
  BY <1>1, <1>2 DEF IInv, TypeOK, Depth
<1>6. ChainInv(t)'
  <2>1. Depth(t) - 1 \in 1 .. Depth(t) /\ \A i \in 1 .. (Depth(t) - 2) :
          i \in 1 .. (Depth(t) - 1) /\ i + 1 \in 1 .. Depth(t)
    BY <1>2
  <2>2. /\ Depth(t)' >= 1 /\ nest'[t][1] = t /\ nest'[t][Depth(t)'] = on'[t]
        /\ \A i \in 2 .. Depth(t)' :
             nest'[t][i] \in Coroutines /\ holder'[nest'[t][i]] = t
        /\ \A i, j \in 1 .. Depth(t)' : nest'[t][i] = nest'[t][j] => i = j
    BY <1>1, <1>2, <1>5 DEF IInv, TypeOK, ChainInv
  <2>3. ASSUME NEW i \in 1 .. (Depth(t)' - 1)
        PROVE  /\ pc'[nest'[t][i]] = "wait"
               /\ arg'[nest'[t][i]] = nest'[t][i+1]
               /\ suspendCtx'[nest'[t][i+1]] = nest'[t][i]
    <3>1. /\ i \in 1 .. (Depth(t) - 1) /\ i \in 1 .. Depth(t)
          /\ i + 1 \in 1 .. Depth(t) /\ i # Depth(t) - 1 /\ i # Depth(t)
      BY <1>2, <1>5
    <3>2. /\ pc[nest[t][i]] = "wait" /\ arg[nest[t][i]] = nest[t][i+1]
          /\ suspendCtx[nest[t][i+1]] = nest[t][i]
      BY <3>1 DEF IInv, ChainInv
    <3>3. nest[t][i] # f /\ nest[t][i] # g
      BY <1>1, <1>2, <2>1, <3>1 DEF IInv, ChainInv
    <3>4. nest[t][i] \in Flows
      BY <1>2, <3>1, ThreadFacts DEF IInv, ChainInv, Flows
    <3> QED BY <1>1, <3>2, <3>3, <3>4 DEF IInv, TypeOK
  <2> QED BY <2>2, <2>3 DEF ChainInv
<1>7. ResumeInv(t)'
  <2>1. /\ on'[t] = g /\ pc'[g] = "back" /\ arg'[g] = f /\ nest'[t][sp'[t]] = f
        /\ holder'[f] = t /\ pc'[f] = "ywait" /\ fstate'[f] # "RUNNING"
    BY <1>1, <1>2, ThreadFacts DEF IInv, TypeOK, FlowInv
  <2> QED BY <1>1, <1>2, <2>1 DEF ResumeInv, Active
<1>8. NativeInv(t)'
  BY <1>1, <1>2, ThreadFacts DEF IInv, TypeOK, NativeInv, Flows
<1>9. \E u \in Threads : \E i \in 1 .. Depth(u)' : nest'[u][i] = on'[t]
  <2>1. Depth(t)' \in 1 .. Depth(t)'
    BY <1>2, <1>5, ThreadFacts
  <2>2. nest'[t][Depth(t)'] = on'[t]
    BY <1>6 DEF ChainInv
  <2> QED BY <2>1, <2>2
<1>10. ASSUME NEW x \in Coroutines PROVE FlowInv(x)'
  <2>1. CASE x = f
    BY <1>1, <1>2, <2>1, ThreadFacts DEF IInv, TypeOK, FlowInv, Active, Flows
  <2>2. CASE x = g
    <3>1. \E u \in Threads : \E i \in 1 .. Depth(u)' : nest'[u][i] = x
      BY <1>1, <1>2, <1>9, <2>2 DEF IInv, TypeOK
    <3> QED BY <1>1, <1>2, <2>2, <3>1, ThreadFacts DEF IInv, TypeOK, FlowInv, Active, Flows
  <2>3. CASE ~(x = f) /\ ~(x = g)
    <3>1. \A u \in Threads : \A i \in 1 .. Depth(u) :
             nest[u][i] = x => i \in 1 .. Depth(u)' /\ nest'[u][i] = x
      <4>1. ASSUME NEW u \in Threads, NEW i \in 1 .. Depth(u), nest[u][i] = x
            PROVE  i \in 1 .. Depth(u)'
        <5>1. CASE u = t
          BY <1>2, <1>5, <2>3, <4>1, <5>1
        <5>2. CASE u # t
          BY <1>4, <4>1, <5>2
        <5> QED BY <5>1, <5>2
      <4> QED BY <1>1, <4>1
    <3>2. \A u \in Threads :
             pc[on[u]] \in {"back", "free", "clear"} /\ arg[on[u]] = x =>
             pc'[on'[u]] \in {"back", "free", "clear"} /\ arg'[on'[u]] = x
      BY <1>1, <1>2, <2>3, ThreadFacts DEF IInv, TypeOK, Active
    <3> QED BY <1>1, <1>2, <2>3, <3>1, <3>2, FlowFrame DEF IInv, TypeOK, Flows
  <2> QED BY <2>1, <2>2, <2>3
<1> QED BY <1>1, <1>2, <1>3, <1>4, <1>6, <1>7, <1>8, <1>10 DEF IInv

(* Leaving a dead flow preserves it: suspendCtx names the flow below.      *)
LEMMA ExitSwitchStep ==
  ASSUME IInv, NEW t \in Threads, ExitSwitch(t)
  PROVE  IInv'
<1> DEFINE f == on[t]
           g == suspendCtx[f]
<1> USE FlowsAssumption, MaxNestAssumption DEF Resuming
<1>1. /\ pc[f] = "xswitch" /\ fault = "none" /\ f \in Coroutines
      /\ resumeCtx' = [resumeCtx EXCEPT ![f] = f]
      /\ on' = [on EXCEPT ![t] = g]
      /\ pc' = [pc EXCEPT ![f] = "done", ![g] = "back"]
      /\ UNCHANGED <<fstate, suspendCtx, cstack, frames, hasError, yieldable, nest, sp,
                     arg, prev, ret, holder, fault>>
  
  <2>1. pc[f] = "xswitch" /\ fault = "none"
    BY DEF ExitSwitch, At
  <2>2. f \in Coroutines
    BY <2>1, ThreadFacts DEF IInv, NativeInv, Flows
  <2> QED BY <2>1, <2>2 DEF ExitSwitch, objectVars, nestVars, localVars
<1>2. /\ f \in Flows /\ g \in Flows /\ g # f /\ Depth(t) >= 2 /\ sp[t] = Depth(t)
      /\ Depth(t) \in Int
      /\ g = nest[t][Depth(t) - 1] /\ f = nest[t][Depth(t)]
      /\ pc[g] = "wait" /\ arg[g] = f
      /\ g \in Coroutines => holder[g] = t
      /\ g \in Threads => g = t
      /\ \A u \in Threads : u # t => f \notin Own(u) /\ g \notin Own(u)
  <2>1. Depth(t) \in 2 .. MaxNest /\ f = nest[t][Depth(t)] /\ sp[t] = Depth(t)
    BY <1>1, ThreadFacts
  <2>2. Depth(t) - 1 \in 1 .. Depth(t) /\ Depth(t) - 1 \in 1 .. (Depth(t) - 1)
    BY <2>1
  <2>3. /\ suspendCtx[f] = nest[t][Depth(t) - 1] /\ pc[nest[t][Depth(t) - 1]] = "wait"
        /\ arg[nest[t][Depth(t) - 1]] = f
    BY <2>1, <2>2 DEF IInv, ChainInv
  <2>4. /\ g \in Coroutines => holder[g] = t
        /\ g \in Threads => g = t
        /\ g \in Flows
    <3>1. CASE Depth(t) - 1 = 1
      BY <2>3, <3>1 DEF IInv, ChainInv, Flows
    <3>2. CASE Depth(t) - 1 \in 2 .. Depth(t)
      BY <2>3, <3>2 DEF IInv, ChainInv, Flows
    <3> QED BY <2>1, <3>1, <3>2
  <2>5. \A u \in Threads : u # t => f \notin Own(u) /\ g \notin Own(u)
    BY <2>4, OwnApart DEF Flows
  <2> QED BY <1>1, <2>1, <2>2, <2>3, <2>4, <2>5 DEF Flows
<1>3. TypeOK'
  BY <1>1, <1>2, ThreadFacts DEF IInv, TypeOK, Positions, FiberStates, Results
<1>4. ASSUME NEW u \in Threads, u # t
      PROVE  Depth(u)' = Depth(u) /\ ChainInv(u)' /\ ResumeInv(u)' /\ NativeInv(u)'
  <2>1. on'[u] = on[u] /\ nest'[u] = nest[u] /\ sp'[u] = sp[u]
    BY <1>1, <1>2, <1>4 DEF IInv, TypeOK
  <2>2. ASSUME NEW x \in Own(u)
        PROVE  /\ pc'[x] = pc[x] /\ arg'[x] = arg[x]
               /\ prev'[x] = prev[x]
               /\ x \in Coroutines => holder'[x] = holder[x]
               /\ fstate'[x] = fstate[x] /\ cstack'[x] = cstack[x]
               /\ suspendCtx'[x] = suspendCtx[x]
    BY <1>1, <1>2, <1>4, OwnApart DEF IInv, TypeOK
  <2>3. \A x \in Threads : fstate'[x] = fstate[x]
    BY <1>1, <1>2, FlowsAssumption DEF IInv, TypeOK, Flows
  <2> QED BY <2>1, <2>2, <2>3, Frame
<1>5. Depth(t)' = Depth(t) - 1
  BY <1>1, <1>2 DEF IInv, TypeOK, Depth
<1>6. ChainInv(t)'
  <2>1. Depth(t) - 1 \in 1 .. Depth(t) /\ \A i \in 1 .. (Depth(t) - 2) :
          i \in 1 .. (Depth(t) - 1) /\ i + 1 \in 1 .. Depth(t)
    BY <1>2
  <2>2. /\ Depth(t)' >= 1 /\ nest'[t][1] = t /\ nest'[t][Depth(t)'] = on'[t]
        /\ \A i \in 2 .. Depth(t)' :
             nest'[t][i] \in Coroutines /\ holder'[nest'[t][i]] = t
        /\ \A i, j \in 1 .. Depth(t)' : nest'[t][i] = nest'[t][j] => i = j
    BY <1>1, <1>2, <1>5 DEF IInv, TypeOK, ChainInv
  <2>3. ASSUME NEW i \in 1 .. (Depth(t)' - 1)
        PROVE  /\ pc'[nest'[t][i]] = "wait"
               /\ arg'[nest'[t][i]] = nest'[t][i+1]
               /\ suspendCtx'[nest'[t][i+1]] = nest'[t][i]
    <3>1. /\ i \in 1 .. (Depth(t) - 1) /\ i \in 1 .. Depth(t)
          /\ i + 1 \in 1 .. Depth(t) /\ i # Depth(t) - 1 /\ i # Depth(t)
      BY <1>2, <1>5
    <3>2. /\ pc[nest[t][i]] = "wait" /\ arg[nest[t][i]] = nest[t][i+1]
          /\ suspendCtx[nest[t][i+1]] = nest[t][i]
      BY <3>1 DEF IInv, ChainInv
    <3>3. nest[t][i] # f /\ nest[t][i] # g
      BY <1>1, <1>2, <2>1, <3>1 DEF IInv, ChainInv
    <3>4. nest[t][i] \in Flows
      BY <1>2, <3>1, ThreadFacts DEF IInv, ChainInv, Flows
    <3> QED BY <1>1, <3>2, <3>3, <3>4 DEF IInv, TypeOK
  <2> QED BY <2>2, <2>3 DEF ChainInv
<1>7. ResumeInv(t)'
  <2>1. /\ on'[t] = g /\ pc'[g] = "back" /\ arg'[g] = f /\ nest'[t][sp'[t]] = f
        /\ holder'[f] = t /\ pc'[f] = "done" /\ cstack'[f] = "live" /\ fstate'[f] # "RUNNING"
    BY <1>1, <1>2, ThreadFacts DEF IInv, TypeOK, FlowInv
  <2> QED BY <1>1, <1>2, <2>1 DEF ResumeInv, Active
<1>8. NativeInv(t)'
  BY <1>1, <1>2, ThreadFacts DEF IInv, TypeOK, NativeInv, Flows
<1>9. \E u \in Threads : \E i \in 1 .. Depth(u)' : nest'[u][i] = on'[t]
  <2>1. Depth(t)' \in 1 .. Depth(t)'
    BY <1>2, <1>5, ThreadFacts
  <2>2. nest'[t][Depth(t)'] = on'[t]
    BY <1>6 DEF ChainInv
  <2> QED BY <2>1, <2>2
<1>10. ASSUME NEW x \in Coroutines PROVE FlowInv(x)'
  <2>1. CASE x = f
    BY <1>1, <1>2, <2>1, ThreadFacts DEF IInv, TypeOK, FlowInv, Active, Flows
  <2>2. CASE x = g
    <3>1. \E u \in Threads : \E i \in 1 .. Depth(u)' : nest'[u][i] = x
      BY <1>1, <1>2, <1>9, <2>2 DEF IInv, TypeOK
    <3> QED BY <1>1, <1>2, <2>2, <3>1, ThreadFacts DEF IInv, TypeOK, FlowInv, Active, Flows
  <2>3. CASE ~(x = f) /\ ~(x = g)
    <3>1. \A u \in Threads : \A i \in 1 .. Depth(u) :
             nest[u][i] = x => i \in 1 .. Depth(u)' /\ nest'[u][i] = x
      <4>1. ASSUME NEW u \in Threads, NEW i \in 1 .. Depth(u), nest[u][i] = x
            PROVE  i \in 1 .. Depth(u)'
        <5>1. CASE u = t
          BY <1>2, <1>5, <2>3, <4>1, <5>1
        <5>2. CASE u # t
          BY <1>4, <4>1, <5>2
        <5> QED BY <5>1, <5>2
      <4> QED BY <1>1, <4>1
    <3>2. \A u \in Threads :
             pc[on[u]] \in {"back", "free", "clear"} /\ arg[on[u]] = x =>
             pc'[on'[u]] \in {"back", "free", "clear"} /\ arg'[on'[u]] = x
      BY <1>1, <1>2, <2>3, ThreadFacts DEF IInv, TypeOK, Active
    <3> QED BY <1>1, <1>2, <2>3, <3>1, <3>2, FlowFrame DEF IInv, TypeOK, Flows
  <2> QED BY <2>1, <2>2, <2>3
<1> QED BY <1>1, <1>2, <1>3, <1>4, <1>6, <1>7, <1>8, <1>10 DEF IInv

(* Finding the target dead after swapcontext preserves it.                 *)
LEMMA BackDeadStep ==
  ASSUME IInv, NEW t \in Threads, ResumeBack(t), fstate[arg[on[t]]] = "DEAD"
  PROVE  IInv'
<1> DEFINE f == on[t]
           c == arg[f]
<1> USE FlowsAssumption, MaxNestAssumption DEF Resuming
<1>1. /\ pc[f] = "back" /\ fault = "none" /\ fstate[c] = "DEAD"
      /\ pc' = [pc EXCEPT ![f] = "free"]
      /\ UNCHANGED <<fstate, resumeCtx, suspendCtx, cstack, frames, hasError, yieldable, nest,
                     sp, on, arg, prev, ret, holder, fault>>
  BY DEF ResumeBack, At, Goto, fiberVars, objectVars, nestVars
<1>2. f \in Flows /\ c \in Coroutines /\ c # f /\ pc[c] = "done" /\ cstack[c] = "live"
  BY <1>1, ThreadFacts DEF IInv, ResumeInv, FlowInv
<1>3. TypeOK'
  BY <1>1, <1>2, ThreadFacts DEF IInv, TypeOK, Positions, FiberStates, Results
<1>4. ASSUME NEW u \in Threads, u # t
      PROVE  Depth(u)' = Depth(u) /\ ChainInv(u)' /\ ResumeInv(u)' /\ NativeInv(u)'
  <2>1. on'[u] = on[u] /\ nest'[u] = nest[u] /\ sp'[u] = sp[u]
    BY <1>1, <1>2, <1>4 DEF IInv, TypeOK
  <2>2. ASSUME NEW x \in Own(u)
        PROVE  /\ pc'[x] = pc[x] /\ arg'[x] = arg[x]
               /\ prev'[x] = prev[x]
               /\ x \in Coroutines => holder'[x] = holder[x]
               /\ fstate'[x] = fstate[x] /\ cstack'[x] = cstack[x]
               /\ suspendCtx'[x] = suspendCtx[x]
    BY <1>1, <1>2, <1>4, OwnApart DEF IInv, TypeOK
  <2>3. \A x \in Threads : fstate'[x] = fstate[x]
    BY <1>1, <1>2, FlowsAssumption DEF IInv, TypeOK, Flows
  <2> QED BY <2>1, <2>2, <2>3, Frame
<1>5. Depth(t)' = Depth(t)
  BY <1>1, <1>2 DEF IInv, TypeOK, Depth
<1>6. ChainInv(t)'
  BY <1>1, <1>2, <1>5, ThreadFacts DEF IInv, TypeOK, ChainInv
<1>7. ResumeInv(t)'
  BY <1>1, <1>2, ThreadFacts DEF IInv, TypeOK, ResumeInv, Active
<1>8. NativeInv(t)'
  BY <1>1, <1>2, ThreadFacts DEF IInv, TypeOK, NativeInv, Flows
<1>9. \E u \in Threads : \E i \in 1 .. Depth(u)' : nest'[u][i] = on'[t]
  <2>1. Depth(t)' \in 1 .. Depth(t)'
    BY <1>2, <1>5, ThreadFacts
  <2>2. nest'[t][Depth(t)'] = on'[t]
    BY <1>6 DEF ChainInv
  <2> QED BY <2>1, <2>2
<1>10. ASSUME NEW x \in Coroutines PROVE FlowInv(x)'
  <2>1. CASE x = f
    <3>1. \E u \in Threads : \E i \in 1 .. Depth(u)' : nest'[u][i] = x
      BY <1>1, <1>2, <1>9, <2>1 DEF IInv, TypeOK
    <3> QED BY <1>1, <1>2, <2>1, <3>1, ThreadFacts DEF IInv, TypeOK, FlowInv, Active, Flows
  <2>2. CASE ~(x = f)
    <3>1. \A u \in Threads : \A i \in 1 .. Depth(u) :
             nest[u][i] = x => i \in 1 .. Depth(u)' /\ nest'[u][i] = x
      BY <1>1, <1>2, <1>4, <1>5, <2>2, ThreadFacts DEF IInv, TypeOK
    <3>2. \A u \in Threads :
             pc[on[u]] \in {"back", "free", "clear"} /\ arg[on[u]] = x =>
             pc'[on'[u]] \in {"back", "free", "clear"} /\ arg'[on'[u]] = x
      BY <1>1, <1>2, <2>2, ThreadFacts DEF IInv, TypeOK, Active
    <3> QED BY <1>1, <1>2, <2>2, <3>1, <3>2, FlowFrame DEF IInv, TypeOK, Flows
  <2> QED BY <2>1, <2>2
<1> QED BY <1>1, <1>2, <1>3, <1>4, <1>6, <1>7, <1>8, <1>10 DEF IInv

(* Finding the target suspended after swapcontext preserves it.            *)
LEMMA BackStep ==
  ASSUME IInv, NEW t \in Threads, ResumeBack(t), fstate[arg[on[t]]] # "DEAD"
  PROVE  IInv'
<1> DEFINE f == on[t]
           c == arg[f]
<1> USE FlowsAssumption, MaxNestAssumption DEF Resuming
<1>1. /\ pc[f] = "back" /\ fault = "none" /\ fstate[c] # "DEAD" /\ c \in Coroutines
      /\ ret' \in [Flows -> Results]
      /\ nest' = [nest EXCEPT ![t][sp[t]] = NULL]
      /\ sp' = [sp EXCEPT ![t] = @ - 1]
      /\ arg' = [arg EXCEPT ![f] = NULL]
      /\ pc' = [pc EXCEPT ![f] = "run"]
      /\ UNCHANGED <<fstate, resumeCtx, suspendCtx, cstack, frames, hasError, yieldable, on,
                     prev, holder, fault>>
  
  <2>1. pc[f] = "back" /\ fault = "none" /\ fstate[c] # "DEAD" /\ c \in Coroutines
    <3>1. At(t, "back")
      BY DEF ResumeBack
    <3> QED BY <3>1 DEF At, IInv, ResumeInv
  <2>2. ret' = [ret EXCEPT ![f] = IF hasError[c] THEN "thrown" ELSE "ok"]
    BY <2>1 DEF ResumeBack, Finish
  <2>3. ret' \in [Flows -> Results]
    BY <2>2 DEF IInv, TypeOK, Results
  <2> QED BY <2>1, <2>3 DEF ResumeBack, Finish, Pop, Goto, fiberVars, objectVars
<1>2. /\ f \in Flows /\ Depth(t) = sp[t] - 1 /\ Depth(t) >= 1
      /\ \A u \in Threads : u # t => nest'[u] = nest[u] /\ sp'[u] = sp[u]
      /\ \A i \in 1 .. Depth(t) : nest'[t][i] = nest[t][i]
      /\ c # f /\ pc[c] = "ywait"
  BY <1>1, ThreadFacts DEF IInv, TypeOK, Slots, ResumeInv, FlowInv
<1>3. TypeOK'
  
  <2>1. sp' \in [Threads -> 0 .. MaxNest]
    BY <1>1, ThreadFacts DEF IInv, TypeOK
  <2>2. nest' \in [Threads -> [Slots -> Flows \cup {NULL}]]
    BY <1>1 DEF IInv, TypeOK
  <2> QED BY <1>1, <1>2, <2>1, <2>2 DEF IInv, TypeOK, Positions, FiberStates
<1>4. ASSUME NEW u \in Threads, u # t
      PROVE  Depth(u)' = Depth(u) /\ ChainInv(u)' /\ ResumeInv(u)' /\ NativeInv(u)'
  <2>1. on'[u] = on[u] /\ nest'[u] = nest[u] /\ sp'[u] = sp[u]
    BY <1>1, <1>2, <1>4 DEF IInv, TypeOK
  <2>2. ASSUME NEW x \in Own(u)
        PROVE  /\ pc'[x] = pc[x] /\ arg'[x] = arg[x]
               /\ prev'[x] = prev[x]
               /\ x \in Coroutines => holder'[x] = holder[x]
               /\ fstate'[x] = fstate[x] /\ cstack'[x] = cstack[x]
               /\ suspendCtx'[x] = suspendCtx[x]
    BY <1>1, <1>2, <1>4, OwnApart DEF IInv, TypeOK
  <2>3. \A x \in Threads : fstate'[x] = fstate[x]
    BY <1>1, <1>2, FlowsAssumption DEF IInv, TypeOK, Flows
  <2> QED BY <2>1, <2>2, <2>3, Frame
<1>5. Depth(t)' = Depth(t)
  BY <1>1, <1>2 DEF IInv, TypeOK, Depth
<1>6. ChainInv(t)'
  BY <1>1, <1>2, <1>5, ThreadFacts DEF IInv, TypeOK, ChainInv
<1>7. ResumeInv(t)'
  BY <1>1, <1>2, ThreadFacts DEF IInv, TypeOK, ResumeInv, Active
<1>8. NativeInv(t)'
  BY <1>1, <1>2, ThreadFacts DEF IInv, TypeOK, NativeInv, Flows
<1>9. \E u \in Threads : \E i \in 1 .. Depth(u)' : nest'[u][i] = on'[t]
  <2>1. Depth(t)' \in 1 .. Depth(t)'
    BY <1>2, <1>5, ThreadFacts
  <2>2. nest'[t][Depth(t)'] = on'[t]
    BY <1>6 DEF ChainInv
  <2> QED BY <2>1, <2>2
<1>10. ASSUME NEW x \in Coroutines PROVE FlowInv(x)'
  <2>1. CASE x = f
    <3>1. \E u \in Threads : \E i \in 1 .. Depth(u)' : nest'[u][i] = x
      BY <1>1, <1>2, <1>9, <2>1 DEF IInv, TypeOK
    <3> QED BY <1>1, <1>2, <2>1, <3>1, ThreadFacts DEF IInv, TypeOK, FlowInv, Active, Flows
  <2>2. CASE x = c
    BY <1>1, <1>2, <2>2, ThreadFacts DEF IInv, TypeOK, FlowInv, Active, Flows
  <2>3. CASE ~(x = f) /\ ~(x = c)
    <3>1. \A u \in Threads : \A i \in 1 .. Depth(u) :
             nest[u][i] = x => i \in 1 .. Depth(u)' /\ nest'[u][i] = x
      BY <1>1, <1>2, <1>4, <1>5, <2>3, ThreadFacts DEF IInv, TypeOK
    <3>2. \A u \in Threads :
             pc[on[u]] \in {"back", "free", "clear"} /\ arg[on[u]] = x =>
             pc'[on'[u]] \in {"back", "free", "clear"} /\ arg'[on'[u]] = x
      BY <1>1, <1>2, <2>3, ThreadFacts DEF IInv, TypeOK, Active
    <3> QED BY <1>1, <1>2, <2>3, <3>1, <3>2, FlowFrame DEF IInv, TypeOK, Flows
  <2> QED BY <2>1, <2>2, <2>3
<1> QED BY <1>1, <1>2, <1>3, <1>4, <1>6, <1>7, <1>8, <1>10 DEF IInv

(* Freeing the C stack preserves it: no thread executes the dead flow.     *)
LEMMA FreeStep ==
  ASSUME IInv, NEW t \in Threads, FreeStack(t)
  PROVE  IInv'
<1> DEFINE f == on[t]
           c == arg[f]
<1> USE FlowsAssumption, MaxNestAssumption DEF Resuming
<1>1. /\ pc[f] = "free" /\ fault = "none"
      /\ c \in Coroutines /\ pc[c] = "done" /\ cstack[c] = "live"
      /\ cstack' = [cstack EXCEPT ![c] = "dangling"]
      /\ pc' = [pc EXCEPT ![f] = "clear"]
      /\ UNCHANGED <<fstate, resumeCtx, suspendCtx, frames, hasError, yieldable, nest, sp,
                     on, arg, prev, ret, holder, fault>>
  
  <2>1. pc[f] = "free" /\ fault = "none"
    BY DEF FreeStack, At
  <2>2. c \in Coroutines /\ pc[c] = "done" /\ cstack[c] = "live"
    BY <2>1 DEF IInv, ResumeInv
  <2>3. \A u \in Threads : on[u] # c
    BY <2>2, ThreadFacts DEF Active
  <2> QED BY <2>1, <2>2, <2>3 DEF FreeStack, Goto, objectVars, nestVars, localVars
<1>2. f \in Flows /\ c \in Flows /\ c # f /\ holder[c] = t /\ fstate[c] = "DEAD"
  BY <1>1, ThreadFacts DEF IInv, ResumeInv, FlowInv, Flows
<1>3. TypeOK'
  BY <1>1, <1>2, ThreadFacts DEF IInv, TypeOK, Positions, FiberStates, Results
<1>4. ASSUME NEW u \in Threads, u # t
      PROVE  Depth(u)' = Depth(u) /\ ChainInv(u)' /\ ResumeInv(u)' /\ NativeInv(u)'
  <2>1. on'[u] = on[u] /\ nest'[u] = nest[u] /\ sp'[u] = sp[u]
    BY <1>1, <1>2, <1>4 DEF IInv, TypeOK
  <2>2. ASSUME NEW x \in Own(u)
        PROVE  /\ pc'[x] = pc[x] /\ arg'[x] = arg[x]
               /\ prev'[x] = prev[x]
               /\ x \in Coroutines => holder'[x] = holder[x]
               /\ fstate'[x] = fstate[x] /\ cstack'[x] = cstack[x]
               /\ suspendCtx'[x] = suspendCtx[x]
    BY <1>1, <1>2, <1>4, OwnApart DEF IInv, TypeOK
  <2>3. \A x \in Threads : fstate'[x] = fstate[x]
    BY <1>1, <1>2, FlowsAssumption DEF IInv, TypeOK, Flows
  <2> QED BY <2>1, <2>2, <2>3, Frame
<1>5. Depth(t)' = Depth(t)
  BY <1>1, <1>2 DEF IInv, TypeOK, Depth
<1>6. ChainInv(t)'
  BY <1>1, <1>2, <1>5, ThreadFacts DEF IInv, TypeOK, ChainInv
<1>7. ResumeInv(t)'
  BY <1>1, <1>2, ThreadFacts DEF IInv, TypeOK, ResumeInv, Active
<1>8. NativeInv(t)'
  BY <1>1, <1>2, ThreadFacts DEF IInv, TypeOK, NativeInv, Flows
<1>9. \E u \in Threads : \E i \in 1 .. Depth(u)' : nest'[u][i] = on'[t]
  <2>1. Depth(t)' \in 1 .. Depth(t)'
    BY <1>2, <1>5, ThreadFacts
  <2>2. nest'[t][Depth(t)'] = on'[t]
    BY <1>6 DEF ChainInv
  <2> QED BY <2>1, <2>2
<1>10. ASSUME NEW x \in Coroutines PROVE FlowInv(x)'
  <2>1. CASE x = f
    <3>1. \E u \in Threads : \E i \in 1 .. Depth(u)' : nest'[u][i] = x
      BY <1>1, <1>2, <1>9, <2>1 DEF IInv, TypeOK
    <3> QED BY <1>1, <1>2, <2>1, <3>1, ThreadFacts DEF IInv, TypeOK, FlowInv, Active, Flows
  <2>2. CASE x = c
    BY <1>1, <1>2, <2>2, ThreadFacts DEF IInv, TypeOK, FlowInv, Active, Flows
  <2>3. CASE ~(x = f) /\ ~(x = c)
    <3>1. \A u \in Threads : \A i \in 1 .. Depth(u) :
             nest[u][i] = x => i \in 1 .. Depth(u)' /\ nest'[u][i] = x
      BY <1>1, <1>2, <1>4, <1>5, <2>3, ThreadFacts DEF IInv, TypeOK
    <3>2. \A u \in Threads :
             pc[on[u]] \in {"back", "free", "clear"} /\ arg[on[u]] = x =>
             pc'[on'[u]] \in {"back", "free", "clear"} /\ arg'[on'[u]] = x
      BY <1>1, <1>2, <2>3, ThreadFacts DEF IInv, TypeOK, Active
    <3> QED BY <1>1, <1>2, <2>3, <3>1, <3>2, FlowFrame DEF IInv, TypeOK, Flows
  <2> QED BY <2>1, <2>2, <2>3
<1> QED BY <1>1, <1>2, <1>3, <1>4, <1>6, <1>7, <1>8, <1>10 DEF IInv

(* Clearing the pointer to the C stack preserves it.                       *)
LEMMA ClearStep ==
  ASSUME IInv, NEW t \in Threads, ClearStack(t)
  PROVE  IInv'
<1> DEFINE f == on[t]
           c == arg[f]
<1> USE FlowsAssumption, MaxNestAssumption DEF Resuming
<1>1. /\ pc[f] = "clear" /\ fault = "none"
      /\ c \in Coroutines /\ pc[c] = "done"
      /\ cstack' = [cstack EXCEPT ![c] = "null"]
      /\ ret' \in [Flows -> Results]
      /\ nest' = [nest EXCEPT ![t][sp[t]] = NULL]
      /\ sp' = [sp EXCEPT ![t] = @ - 1]
      /\ arg' = [arg EXCEPT ![f] = NULL]
      /\ pc' = [pc EXCEPT ![f] = "run"]
      /\ UNCHANGED <<fstate, resumeCtx, suspendCtx, frames, hasError, yieldable, on, prev,
                     holder, fault>>
  
  <2>1. pc[f] = "clear" /\ fault = "none" /\ c \in Coroutines /\ pc[c] = "done"
    <3>1. At(t, "clear")
      BY DEF ClearStack
    <3> QED BY <3>1 DEF At, IInv, ResumeInv
  <2>2. ret' = [ret EXCEPT ![f] = IF hasError[c] THEN "thrown" ELSE "ok"]
    BY <2>1 DEF ClearStack, Finish
  <2>3. ret' \in [Flows -> Results]
    BY <2>2 DEF IInv, TypeOK, Results
  <2> QED BY <2>1, <2>3 DEF ClearStack, Finish, Pop, Goto, objectVars
<1>2. /\ f \in Flows /\ Depth(t) = sp[t] - 1 /\ Depth(t) >= 1
      /\ \A u \in Threads : u # t => nest'[u] = nest[u] /\ sp'[u] = sp[u]
      /\ \A i \in 1 .. Depth(t) : nest'[t][i] = nest[t][i]
      /\ c # f /\ c \in Flows /\ holder[c] = t /\ fstate[c] = "DEAD"
  <2>1. /\ f \in Flows /\ Depth(t) = sp[t] - 1 /\ Depth(t) >= 1
        /\ \A u \in Threads : u # t => nest'[u] = nest[u] /\ sp'[u] = sp[u]
        /\ \A i \in 1 .. Depth(t) : nest'[t][i] = nest[t][i]
    BY <1>1, ThreadFacts DEF IInv, TypeOK, Slots
  <2>2. holder[c] = t /\ fstate[c] = "DEAD"
    BY <1>1 DEF IInv, ResumeInv, FlowInv
  <2> QED BY <1>1, <2>1, <2>2, ThreadFacts DEF Flows
<1>3. TypeOK'
  
  <2>1. sp' \in [Threads -> 0 .. MaxNest]
    BY <1>1, ThreadFacts DEF IInv, TypeOK
  <2>2. nest' \in [Threads -> [Slots -> Flows \cup {NULL}]]
    BY <1>1 DEF IInv, TypeOK
  <2> QED BY <1>1, <1>2, <2>1, <2>2 DEF IInv, TypeOK, Positions, FiberStates
<1>4. ASSUME NEW u \in Threads, u # t
      PROVE  Depth(u)' = Depth(u) /\ ChainInv(u)' /\ ResumeInv(u)' /\ NativeInv(u)'
  <2>1. on'[u] = on[u] /\ nest'[u] = nest[u] /\ sp'[u] = sp[u]
    BY <1>1, <1>2, <1>4 DEF IInv, TypeOK
  <2>2. ASSUME NEW x \in Own(u)
        PROVE  /\ pc'[x] = pc[x] /\ arg'[x] = arg[x]
               /\ prev'[x] = prev[x]
               /\ x \in Coroutines => holder'[x] = holder[x]
               /\ fstate'[x] = fstate[x] /\ cstack'[x] = cstack[x]
               /\ suspendCtx'[x] = suspendCtx[x]
    BY <1>1, <1>2, <1>4, OwnApart DEF IInv, TypeOK
  <2>3. \A x \in Threads : fstate'[x] = fstate[x]
    BY <1>1, <1>2, FlowsAssumption DEF IInv, TypeOK, Flows
  <2> QED BY <2>1, <2>2, <2>3, Frame
<1>5. Depth(t)' = Depth(t)
  BY <1>1, <1>2 DEF IInv, TypeOK, Depth
<1>6. ChainInv(t)'
  BY <1>1, <1>2, <1>5, ThreadFacts DEF IInv, TypeOK, ChainInv
<1>7. ResumeInv(t)'
  BY <1>1, <1>2, ThreadFacts DEF IInv, TypeOK, ResumeInv, Active
<1>8. NativeInv(t)'
  BY <1>1, <1>2, ThreadFacts DEF IInv, TypeOK, NativeInv, Flows
<1>9. \E u \in Threads : \E i \in 1 .. Depth(u)' : nest'[u][i] = on'[t]
  <2>1. Depth(t)' \in 1 .. Depth(t)'
    BY <1>2, <1>5, ThreadFacts
  <2>2. nest'[t][Depth(t)'] = on'[t]
    BY <1>6 DEF ChainInv
  <2> QED BY <2>1, <2>2
<1>10. ASSUME NEW x \in Coroutines PROVE FlowInv(x)'
  <2>1. CASE x = f
    <3>1. \E u \in Threads : \E i \in 1 .. Depth(u)' : nest'[u][i] = x
      BY <1>1, <1>2, <1>9, <2>1 DEF IInv, TypeOK
    <3> QED BY <1>1, <1>2, <2>1, <3>1, ThreadFacts DEF IInv, TypeOK, FlowInv, Active, Flows
  <2>2. CASE x = c
    BY <1>1, <1>2, <2>2, ThreadFacts DEF IInv, TypeOK, FlowInv, Active, Flows
  <2>3. CASE ~(x = f) /\ ~(x = c)
    <3>1. \A u \in Threads : \A i \in 1 .. Depth(u) :
             nest[u][i] = x => i \in 1 .. Depth(u)' /\ nest'[u][i] = x
      BY <1>1, <1>2, <1>4, <1>5, <2>3, ThreadFacts DEF IInv, TypeOK
    <3>2. \A u \in Threads :
             pc[on[u]] \in {"back", "free", "clear"} /\ arg[on[u]] = x =>
             pc'[on'[u]] \in {"back", "free", "clear"} /\ arg'[on'[u]] = x
      BY <1>1, <1>2, <2>3, ThreadFacts DEF IInv, TypeOK, Active
    <3> QED BY <1>1, <1>2, <2>3, <3>1, <3>2, FlowFrame DEF IInv, TypeOK, Flows
  <2> QED BY <2>1, <2>2, <2>3
<1> QED BY <1>1, <1>2, <1>3, <1>4, <1>6, <1>7, <1>8, <1>10 DEF IInv

(* The push of a resume preserves it: the nesting proper is unchanged.     *)
LEMMA PushStep ==
  ASSUME Discipline, IInv, NEW t \in Threads, NEW c \in Flows, ResumePush(t, c)
  PROVE  IInv'
<1> DEFINE f == on[t]
<1> USE FlowsAssumption, MaxNestAssumption DEF Resuming
<1>1. /\ pc[f] = "run" /\ fault = "none" /\ sp[t] < MaxNest
      /\ c \in Coroutines => holder[c] = t
      /\ ret' \in [Flows -> Results]
      /\ nest' = [nest EXCEPT ![t][sp[t] + 1] = c]
      /\ sp' = [sp EXCEPT ![t] = @ + 1]
      /\ arg' = [arg EXCEPT ![f] = c]
      /\ pc' = [pc EXCEPT ![f] = "read"]
      /\ UNCHANGED <<fstate, resumeCtx, suspendCtx, cstack, frames, hasError, yieldable, on,
                     prev, holder, fault>>
  
  <2>1. ret' = [ret EXCEPT ![f] = "none"]
    BY DEF ResumePush
  <2>2. ret' \in [Flows -> Results]
    BY <2>1 DEF IInv, TypeOK, Results
  <2>3. c \in Coroutines => holder[c] = t
    BY DEF ResumePush, MayUse, Discipline
  <2> QED BY <2>2, <2>3 DEF ResumePush, At, Push, Goto, fiberVars, objectVars
<1>2. /\ f \in Flows /\ Depth(t) = sp[t] /\ Depth(t) >= 1 /\ sp[t] + 1 \in Slots
      /\ \A u \in Threads : u # t => nest'[u] = nest[u] /\ sp'[u] = sp[u]
      /\ \A i \in 1 .. Depth(t) : nest'[t][i] = nest[t][i]
      /\ nest'[t][sp[t] + 1] = c
  <2>1. f \in Flows /\ Depth(t) = sp[t] /\ Depth(t) >= 1 /\ sp[t] + 1 \in Slots
    BY <1>1, ThreadFacts DEF Slots
  <2>2. \A u \in Threads : u # t => nest'[u] = nest[u] /\ sp'[u] = sp[u]
    BY <1>1 DEF IInv, TypeOK
  <2>3. /\ \A i \in 1 .. Depth(t) : nest'[t][i] = nest[t][i]
        /\ nest'[t][sp[t] + 1] = c
    BY <1>1, <2>1 DEF IInv, TypeOK, Slots
  <2> QED BY <2>1, <2>2, <2>3
<1>3. TypeOK'
  
  <2>1. sp' \in [Threads -> 0 .. MaxNest]
    BY <1>1, ThreadFacts DEF IInv, TypeOK
  <2>2. nest' \in [Threads -> [Slots -> Flows \cup {NULL}]]
    BY <1>1, <1>2 DEF IInv, TypeOK
  <2> QED BY <1>1, <1>2, <2>1, <2>2 DEF IInv, TypeOK, Positions, FiberStates
<1>4. ASSUME NEW u \in Threads, u # t
      PROVE  Depth(u)' = Depth(u) /\ ChainInv(u)' /\ ResumeInv(u)' /\ NativeInv(u)'
  <2>1. on'[u] = on[u] /\ nest'[u] = nest[u] /\ sp'[u] = sp[u]
    BY <1>1, <1>2, <1>4 DEF IInv, TypeOK
  <2>2. ASSUME NEW x \in Own(u)
        PROVE  /\ pc'[x] = pc[x] /\ arg'[x] = arg[x]
               /\ prev'[x] = prev[x]
               /\ x \in Coroutines => holder'[x] = holder[x]
               /\ fstate'[x] = fstate[x] /\ cstack'[x] = cstack[x]
               /\ suspendCtx'[x] = suspendCtx[x]
    BY <1>1, <1>2, <1>4, OwnApart DEF IInv, TypeOK
  <2>3. \A x \in Threads : fstate'[x] = fstate[x]
    BY <1>1, <1>2, FlowsAssumption DEF IInv, TypeOK, Flows
  <2> QED BY <2>1, <2>2, <2>3, Frame
<1>5. Depth(t)' = Depth(t)
  BY <1>1, <1>2 DEF IInv, TypeOK, Depth
<1>6. ChainInv(t)'
  BY <1>1, <1>2, <1>5, ThreadFacts DEF IInv, TypeOK, ChainInv
<1>7. ResumeInv(t)'
  BY <1>1, <1>2, ThreadFacts DEF IInv, TypeOK, ResumeInv, Active
<1>8. NativeInv(t)'
  BY <1>1, <1>2, ThreadFacts DEF IInv, TypeOK, NativeInv, Flows
<1>9. \E u \in Threads : \E i \in 1 .. Depth(u)' : nest'[u][i] = on'[t]
  <2>1. Depth(t)' \in 1 .. Depth(t)'
    BY <1>2, <1>5, ThreadFacts
  <2>2. nest'[t][Depth(t)'] = on'[t]
    BY <1>6 DEF ChainInv
  <2> QED BY <2>1, <2>2
<1>10. ASSUME NEW x \in Coroutines PROVE FlowInv(x)'
  <2>1. CASE x = f
    <3>1. \E u \in Threads : \E i \in 1 .. Depth(u)' : nest'[u][i] = x
      BY <1>1, <1>2, <1>9, <2>1 DEF IInv, TypeOK
    <3> QED BY <1>1, <1>2, <2>1, <3>1, ThreadFacts DEF IInv, TypeOK, FlowInv, Active, Flows
  <2>2. CASE ~(x = f)
    <3>1. \A u \in Threads : \A i \in 1 .. Depth(u) :
             nest[u][i] = x => i \in 1 .. Depth(u)' /\ nest'[u][i] = x
      BY <1>1, <1>2, <1>4, <1>5, <2>2, ThreadFacts DEF IInv, TypeOK
    <3>2. \A u \in Threads :
             pc[on[u]] \in {"back", "free", "clear"} /\ arg[on[u]] = x =>
             pc'[on'[u]] \in {"back", "free", "clear"} /\ arg'[on'[u]] = x
      BY <1>1, <1>2, <2>2, ThreadFacts DEF IInv, TypeOK, Active
    <3> QED BY <1>1, <1>2, <2>2, <3>1, <3>2, FlowFrame DEF IInv, TypeOK, Flows
  <2> QED BY <2>1, <2>2
<1> QED BY <1>1, <1>2, <1>3, <1>4, <1>6, <1>7, <1>8, <1>10 DEF IInv

(* A coroutine that is on no thread's stack is no thread's own, and its    *)
(* flow is nowhere.                                                        *)
LEMMA OffNestFacts ==
  ASSUME IInv, NEW c \in Coroutines, OffNest(c)
  PROVE  /\ c \in Flows /\ c \notin Threads
         /\ \A u \in Threads : c \notin Own(u) /\ on[u] # c
         /\ \A u \in Threads : pc[on[u]] \in Resuming => arg[on[u]] # c
         /\ pc[c] \notin Active
         /\ cstack[c] # "dangling"
<1> USE FlowsAssumption, MaxNestAssumption
<1>1. c \in Flows /\ c \notin Threads
  BY DEF Flows
<1>2. \A u \in Threads : \A i \in 1 .. sp[u] : nest[u][i] # c
  BY ThreadFacts DEF OffNest, Slots
<1>3. ASSUME NEW u \in Threads PROVE c \notin Own(u) /\ on[u] # c
  <2>1. Depth(u) \in 1 .. sp[u] /\ on[u] = nest[u][Depth(u)]
    BY ThreadFacts
  <2> QED BY <1>1, <1>2, <2>1 DEF Own
<1>4. \A u \in Threads : pc[on[u]] \in Resuming => arg[on[u]] # c
  BY <1>2, ThreadFacts
<1>5. pc[c] \notin Active
  <2> SUFFICES ASSUME pc[c] \in Active PROVE FALSE
    OBVIOUS
  <2>1. PICK u \in Threads : \E i \in 1 .. Depth(u) : nest[u][i] = c
    BY DEF IInv, FlowInv
  <2> QED BY <1>2, <2>1, ThreadFacts
<1>6. cstack[c] # "dangling"
  <2> SUFFICES ASSUME cstack[c] = "dangling" PROVE FALSE
    OBVIOUS
  <2>1. pc[c] = "done"
    BY DEF IInv, FlowInv
  <2>2. PICK u \in Threads : pc[on[u]] \in {"back", "free", "clear"} /\ arg[on[u]] = c
    BY <2>1 DEF IInv, FlowInv
  <2> QED BY <1>4, <2>2 DEF Resuming
<1> QED BY <1>1, <1>3, <1>4, <1>5, <1>6

(* coroutine_new below the nesting limit preserves it.                     *)
LEMMA CreateStep ==
  ASSUME Discipline, IInv, NEW t \in Threads, NEW c \in Coroutines, Create(t, c)
  PROVE  IInv'
<1> DEFINE f == on[t]
<1> USE FlowsAssumption, MaxNestAssumption DEF Resuming
<1>1. /\ fstate[c] = "NEW" /\ fault = "none"
      /\ fstate' = [fstate EXCEPT ![c] = "SUSPENDED"]
      /\ resumeCtx' = [resumeCtx EXCEPT ![c] = c]
      /\ cstack' = [cstack EXCEPT ![c] = "live"]
      /\ frames' = [frames EXCEPT ![c] = @ + 1]
      /\ hasError' = [hasError EXCEPT ![c] = FALSE]
      /\ yieldable' = [yieldable EXCEPT ![c] = TRUE]
      /\ holder' = [holder EXCEPT ![c] = t]
      /\ pc' = [pc EXCEPT ![c] = "entry"]
      /\ UNCHANGED <<suspendCtx, nest, sp, on, arg, prev, ret, fault>>
  <2>1. sp[t] < MaxNest
    BY DEF Create, Discipline
  <2> QED BY <2>1 DEF Create, At, Goto, nestVars, localVars
<1>2. /\ c \in Flows /\ c \notin Threads /\ pc[c] \notin Active
      /\ \A u \in Threads : c \notin Own(u) /\ on[u] # c
  <2>1. holder[c] = NULL
    BY <1>1 DEF IInv, FlowInv
  <2>2. OffNest(c)
    <3> SUFFICES ASSUME NEW u \in Threads, NEW i \in Slots, i <= sp[u], nest[u][i] = c
                 PROVE  FALSE
      BY DEF OffNest
    <3>1. i \in 2 .. Depth(u) \/ i = 1 \/ (i = sp[u] /\ pc[on[u]] \in Resuming)
      BY ThreadFacts DEF Slots
    <3> QED BY <2>1, <3>1, ThreadFacts DEF IInv, ChainInv, ResumeInv
  <2> QED BY <2>2, OffNestFacts
<1>3. TypeOK'
  BY <1>1, <1>2 DEF IInv, TypeOK, Positions, FiberStates, Results
<1>4. ASSUME NEW u \in Threads
      PROVE  Depth(u)' = Depth(u) /\ ChainInv(u)' /\ ResumeInv(u)' /\ NativeInv(u)'
  <2>1. on'[u] = on[u] /\ nest'[u] = nest[u] /\ sp'[u] = sp[u]
    BY <1>1
  <2>2. ASSUME NEW x \in Own(u)
        PROVE  /\ pc'[x] = pc[x] /\ arg'[x] = arg[x]
               /\ prev'[x] = prev[x]
               /\ x \in Coroutines => holder'[x] = holder[x]
               /\ fstate'[x] = fstate[x] /\ cstack'[x] = cstack[x]
               /\ suspendCtx'[x] = suspendCtx[x]
    <3>1. x \in Flows /\ x # c
      BY <1>2 DEF Own, Flows
    <3> QED BY <1>1, <3>1 DEF IInv, TypeOK
  <2>3. \A x \in Threads : fstate'[x] = fstate[x]
    BY <1>1, <1>2 DEF IInv, TypeOK, Flows
  <2> QED BY <2>1, <2>2, <2>3, Frame
<1>5. ASSUME NEW x \in Coroutines PROVE FlowInv(x)'
  <2>1. CASE x = c
    BY <1>1, <1>2, <2>1 DEF IInv, TypeOK, FlowInv, Active, Positions, Flows
  <2>2. CASE x # c
    <3>1. \A u \in Threads : \A i \in 1 .. Depth(u) :
             nest[u][i] = x => i \in 1 .. Depth(u)' /\ nest'[u][i] = x
      BY <1>1, <1>4
    <3>2. \A u \in Threads :
             pc[on[u]] \in {"back", "free", "clear"} /\ arg[on[u]] = x =>
             pc'[on'[u]] \in {"back", "free", "clear"} /\ arg'[on'[u]] = x
      BY <1>1, <1>2, ThreadFacts DEF IInv, TypeOK
    <3> QED BY <1>1, <2>2, <3>1, <3>2, FlowFrame DEF IInv, TypeOK, Flows
  <2> QED BY <2>1, <2>2
<1> QED BY <1>1, <1>3, <1>4, <1>5 DEF IInv

(* Collecting a coroutine that is nested nowhere preserves it.             *)
LEMMA CollectStep ==
  ASSUME IInv, NEW t \in Threads, NEW c \in Coroutines, Collect(t, c)
  PROVE  IInv'
<1> DEFINE f == on[t]
<1> USE FlowsAssumption, MaxNestAssumption DEF Resuming
<1>1. /\ fault = "none"
      /\ fstate' = [fstate EXCEPT ![c] = "NEW"]
      /\ resumeCtx' = [resumeCtx EXCEPT ![c] = NULL]
      /\ suspendCtx' = [suspendCtx EXCEPT ![c] = NULL]
      /\ cstack' = [cstack EXCEPT ![c] = "none"]
      /\ frames' = [frames EXCEPT ![c] = 0]
      /\ hasError' = [hasError EXCEPT ![c] = FALSE]
      /\ yieldable' = [yieldable EXCEPT ![c] = FALSE]
      /\ arg' = [arg EXCEPT ![c] = NULL]
      /\ prev' = [prev EXCEPT ![c] = "NEW"]
      /\ ret' = [ret EXCEPT ![c] = "none"]
      /\ holder' = [holder EXCEPT ![c] = NULL]
      /\ pc' = [pc EXCEPT ![c] = "entry"]
      /\ UNCHANGED <<nest, sp, on, fault>>
  <2>1. OffNest(c)
    BY DEF Collect
  <2>2. cstack[c] # "dangling"
    BY <2>1, OffNestFacts
  <2> QED BY <2>2 DEF Collect, At, Goto, nestVars
<1>2. /\ c \in Flows /\ c \notin Threads /\ pc[c] \notin Active
      /\ \A u \in Threads : c \notin Own(u) /\ on[u] # c
  BY OffNestFacts DEF Collect
<1>3. TypeOK'
  BY <1>1, <1>2 DEF IInv, TypeOK, Positions, FiberStates, Results
<1>4. ASSUME NEW u \in Threads
      PROVE  Depth(u)' = Depth(u) /\ ChainInv(u)' /\ ResumeInv(u)' /\ NativeInv(u)'
  <2>1. on'[u] = on[u] /\ nest'[u] = nest[u] /\ sp'[u] = sp[u]
    BY <1>1
  <2>2. ASSUME NEW x \in Own(u)
        PROVE  /\ pc'[x] = pc[x] /\ arg'[x] = arg[x]
               /\ prev'[x] = prev[x]
               /\ x \in Coroutines => holder'[x] = holder[x]
               /\ fstate'[x] = fstate[x] /\ cstack'[x] = cstack[x]
               /\ suspendCtx'[x] = suspendCtx[x]
    <3>1. x \in Flows /\ x # c
      BY <1>2 DEF Own, Flows
    <3> QED BY <1>1, <3>1 DEF IInv, TypeOK
  <2>3. \A x \in Threads : fstate'[x] = fstate[x]
    BY <1>1, <1>2 DEF IInv, TypeOK, Flows
  <2> QED BY <2>1, <2>2, <2>3, Frame
<1>5. ASSUME NEW x \in Coroutines PROVE FlowInv(x)'
  <2>1. CASE x = c
    BY <1>1, <1>2, <2>1 DEF IInv, TypeOK, FlowInv, Active, Positions, Flows
  <2>2. CASE x # c
    <3>1. \A u \in Threads : \A i \in 1 .. Depth(u) :
             nest[u][i] = x => i \in 1 .. Depth(u)' /\ nest'[u][i] = x
      BY <1>1, <1>4
    <3>2. \A u \in Threads :
             pc[on[u]] \in {"back", "free", "clear"} /\ arg[on[u]] = x =>
             pc'[on'[u]] \in {"back", "free", "clear"} /\ arg'[on'[u]] = x
      BY <1>1, <1>2, ThreadFacts DEF IInv, TypeOK
    <3> QED BY <1>1, <2>2, <3>1, <3>2, FlowFrame DEF IInv, TypeOK, Flows
  <2> QED BY <2>1, <2>2
<1> QED BY <1>1, <1>3, <1>4, <1>5 DEF IInv

(* Handing over a coroutine that is nested nowhere preserves it.           *)
LEMMA HandoverStep ==
  ASSUME IInv, NEW t \in Threads, NEW w \in Threads, NEW c \in Coroutines,
         Handover(t, w, c)
  PROVE  IInv'
<1> DEFINE f == on[t]
<1> USE FlowsAssumption, MaxNestAssumption DEF Resuming
<1>1. /\ fault = "none" /\ holder[c] = t
      /\ holder' = [holder EXCEPT ![c] = w]
      /\ UNCHANGED <<fstate, resumeCtx, suspendCtx, cstack, frames, hasError,
                     yieldable, nest, sp, on, pc, arg, prev, ret, fault>>
  BY DEF Handover, At, fiberVars, objectVars, nestVars, localVars
<1>2. /\ c \in Flows /\ c \notin Threads /\ pc[c] \notin Active
      /\ \A u \in Threads : c \notin Own(u) /\ on[u] # c
      /\ fstate[c] # "NEW" /\ FlowInv(c)
      /\ \A u \in Threads : pc[on[u]] \in Resuming => arg[on[u]] # c
  BY <1>1, OffNestFacts DEF Handover, IInv, FlowInv
<1>3. TypeOK'
  BY <1>1, <1>2 DEF IInv, TypeOK, Positions, FiberStates, Results
<1>4. ASSUME NEW u \in Threads
      PROVE  Depth(u)' = Depth(u) /\ ChainInv(u)' /\ ResumeInv(u)' /\ NativeInv(u)'
  <2>1. on'[u] = on[u] /\ nest'[u] = nest[u] /\ sp'[u] = sp[u]
    BY <1>1
  <2>2. ASSUME NEW x \in Own(u)
        PROVE  /\ pc'[x] = pc[x] /\ arg'[x] = arg[x]
               /\ prev'[x] = prev[x]
               /\ x \in Coroutines => holder'[x] = holder[x]
               /\ fstate'[x] = fstate[x] /\ cstack'[x] = cstack[x]
               /\ suspendCtx'[x] = suspendCtx[x]
    <3>1. x \in Flows /\ x # c
      BY <1>2 DEF Own, Flows
    <3> QED BY <1>1, <3>1 DEF IInv, TypeOK
  <2>3. \A x \in Threads : fstate'[x] = fstate[x]
    BY <1>1, <1>2 DEF IInv, TypeOK, Flows
  <2> QED BY <2>1, <2>2, <2>3, Frame
<1>5. ASSUME NEW x \in Coroutines PROVE FlowInv(x)'
  <2>1. CASE x = c
    BY <1>1, <1>2, <2>1 DEF IInv, TypeOK, FlowInv, Active, Positions, Flows
  <2>2. CASE x # c
    <3>1. \A u \in Threads : \A i \in 1 .. Depth(u) :
             nest[u][i] = x => i \in 1 .. Depth(u)' /\ nest'[u][i] = x
      BY <1>1, <1>4
    <3>2. \A u \in Threads :
             pc[on[u]] \in {"back", "free", "clear"} /\ arg[on[u]] = x =>
             pc'[on'[u]] \in {"back", "free", "clear"} /\ arg'[on'[u]] = x
      BY <1>1, <1>2, ThreadFacts DEF IInv, TypeOK
    <3> QED BY <1>1, <2>2, <3>1, <3>2, FlowFrame DEF IInv, TypeOK, Flows
  <2> QED BY <2>1, <2>2
<1> QED BY <1>1, <1>3, <1>4, <1>5 DEF IInv

(* A step that changes at most what the flows' calls returned or whether   *)
(* a coroutine may yield.                                                  *)
LEMMA QuietStep ==
  ASSUME IInv,
         ret' \in [Flows -> Results], yieldable' \in [Coroutines -> BOOLEAN],
         UNCHANGED <<fstate, resumeCtx, suspendCtx, cstack, frames, hasError,
                     nest, sp, on, pc, arg, prev, holder, fault>>
  PROVE  IInv'
<1>1. TypeOK'
  BY DEF IInv, TypeOK
<1>2. ASSUME NEW u \in Threads
      PROVE  ChainInv(u)' /\ ResumeInv(u)' /\ NativeInv(u)'
  <2>1. ChainInv(u) /\ ResumeInv(u) /\ NativeInv(u) /\ Depth(u)' = Depth(u)
    BY DEF IInv, Depth
  <2> QED BY <2>1 DEF ChainInv, ResumeInv, NativeInv
<1>3. ASSUME NEW x \in Coroutines PROVE FlowInv(x)'
  <2>1. \A u \in Threads : Depth(u)' = Depth(u)
    BY DEF Depth
  <2> QED BY <2>1, FlowFrame
<1> QED BY <1>1, <1>2, <1>3 DEF IInv

(* The API calls that only set a result or a flag preserve it.             *)
LEMMA QuietSteps ==
  ASSUME IInv, NEW t \in Threads,
         \/ \E c \in Flows : ResumeOverflow(t, c)
         \/ YieldRefused(t)
         \/ \E b \in BOOLEAN : SetYieldable(t, b)
  PROVE  IInv'
<1>1. CASE \E c \in Flows : ResumeOverflow(t, c)
  <2>1. ret' = [ret EXCEPT ![on[t]] = "overflow"]
    BY <1>1 DEF ResumeOverflow
  <2>2. ret' \in [Flows -> Results]
    BY <2>1 DEF IInv, TypeOK, Results
  <2> QED BY <1>1, <2>2, QuietStep DEF ResumeOverflow, IInv, TypeOK,
             fiberVars, objectVars, nestVars
<1>2. CASE YieldRefused(t)
  <2>1. ret' = [ret EXCEPT ![on[t]] =
                  CASE Executing(t) = NULL      -> "outside"
                    [] Executing(t) \in Threads -> "toplevel"
                    [] OTHER                    -> "disabled"]
    BY <1>2 DEF YieldRefused
  <2>2. ret' \in [Flows -> Results]
    BY <2>1 DEF IInv, TypeOK, Results
  <2> QED BY <1>2, <2>2, QuietStep DEF YieldRefused, IInv, TypeOK,
             fiberVars, objectVars, nestVars
<1>3. CASE \E b \in BOOLEAN : SetYieldable(t, b)
  <2>1. PICK b \in BOOLEAN : SetYieldable(t, b)
    BY <1>3
  <2>2. yieldable' \in [Coroutines -> BOOLEAN]
    BY <2>1 DEF SetYieldable, IInv, TypeOK
  <2> QED BY <2>1, <2>2, QuietStep DEF SetYieldable, IInv, TypeOK,
             fiberVars, nestVars, localVars
<1> QED BY <1>1, <1>2, <1>3

-----------------------------------------------------------------------------
(* A fresh virtual machine, every thread in its native coroutine.          *)
LEMMA InitInv == ASSUME Init PROVE IInv
<1> USE FlowsAssumption, MaxNestAssumption
<1>1. TypeOK
  BY DEF Init, TypeOK, Flows, FiberStates, Positions, Results, Faults, Slots
<1>2. ASSUME NEW t \in Threads PROVE ChainInv(t) /\ ResumeInv(t) /\ NativeInv(t)
  <2>1. pc[t] = "run" /\ on[t] = t /\ sp[t] = 1 /\ nest[t][1] = t /\ fstate[t] = "RUNNING"
    BY DEF Init, Flows, Slots
  <2>2. Depth(t) = 1
    BY <2>1 DEF Depth, Resuming
  <2> QED BY <2>1, <2>2 DEF ChainInv, ResumeInv, NativeInv, Active, Resuming
<1>3. ASSUME NEW x \in Coroutines PROVE FlowInv(x)
  <2>1. pc[x] = "entry" /\ fstate[x] = "NEW" /\ holder[x] = NULL /\ cstack[x] = "none"
    BY DEF Init, Flows
  <2> QED BY <2>1 DEF FlowInv, Active, Resuming
<1>4. fault = "none"
  BY DEF Init
<1> QED BY <1>1, <1>2, <1>3, <1>4 DEF IInv

(* Every step preserves the invariant: one lemma per action.               *)
LEMMA StepInv == ASSUME Discipline, IInv, [Next]_vars PROVE IInv'
<1>1. CASE UNCHANGED vars
  BY <1>1, QuietStep DEF vars, fiberVars, objectVars, nestVars, localVars,
                         IInv, TypeOK
<1>2. CASE Next
  <2>1. PICK t \in Threads : Runtime(t) \/ Program(t)
    BY <1>2 DEF Next
  <2>2. CASE Runtime(t)
    <3>1. CASE ResumeBack(t)
      BY <3>1, BackDeadStep, BackStep
    <3> QED BY <2>2, <3>1, ReadStep, CasStep, RefusedStep, SwitchInStep,
               YieldSwitchStep, MarkDeadStep, ExitSwitchStep, FreeStep,
               ClearStep DEF Runtime
  <2>3. CASE Program(t)
    <3>1. CASE \/ \E c \in Flows : ResumeOverflow(t, c)
               \/ YieldRefused(t)
               \/ \E b \in BOOLEAN : SetYieldable(t, b)
      BY <3>1, QuietSteps
    <3>2. CASE \/ \E c \in Coroutines : Create(t, c)
               \/ \E c \in Coroutines : Collect(t, c)
      BY <3>2, CreateStep, CollectStep
    <3>3. CASE \E u \in Threads, c \in Coroutines : Handover(t, u, c)
      BY <3>3, HandoverStep
    <3>4. CASE \E c \in Flows : ResumePush(t, c)
      BY <3>4, PushStep
    <3>5. CASE Yield(t) \/ Return(t) \/ Throw(t)
      BY <3>5, YieldStep, ReturnStep, ThrowStep
    <3> QED BY <2>3, <3>1, <3>2, <3>3, <3>4, <3>5 DEF Program
  <2> QED BY <2>1, <2>2, <2>3
<1> QED BY <1>1, <1>2

(* The inductive invariant holds for any number of threads and coroutines  *)
(* and any nesting limit: each thread's coroutinesStack is a chain of flows*)
(* resumed by one another that ends in the flow it executes, and each      *)
(* fiber's state, contexts and C stack agree with where its flow is.       *)
THEOREM Inductive == ASSUME Discipline PROVE Spec => []IInv
<1>1. Init => IInv
  BY InitInv
<1>2. IInv /\ [Next]_vars => IInv'
  BY StepInv
<1> QED BY <1>1, <1>2, PTL DEF Spec

(* Every variable of the coroutine runtime keeps to its type.              *)
THEOREM TypeCorrect == ASSUME Discipline PROVE Spec => []TypeOK
<1>1. IInv => TypeOK
  BY DEF IInv
<1> QED BY <1>1, Inductive, PTL

(* coroutine_resume and fiber_yield never abort, enter a context that is   *)
(* consumed, or free a C stack twice, a freed one or one that is run on.   *)
THEOREM NoFaults == ASSUME Discipline PROVE Spec => []NoFault
<1>1. IInv => NoFault
  BY DEF IInv, NoFault
<1> QED BY <1>1, Inductive, PTL

(* The flow that coroutine_new, coroutine_resume and coroutine_yield take  *)
(* from the top of the coroutinesStack is the one that calls them.         *)
THEOREM ExecutingRuns == ASSUME Discipline PROVE Spec => []ExecutingIsRunning
<1>1. IInv => ExecutingIsRunning
  BY ThreadFacts DEF ExecutingIsRunning, Resuming
<1> QED BY <1>1, Inductive, PTL

(* No coroutine is executed by two threads, or waits for two of them.      *)
THEOREM FlowsAreApart == ASSUME Discipline PROVE Spec => []OneThreadPerFlow
<1>1. IInv => OneThreadPerFlow
  <2> SUFFICES ASSUME IInv, NEW t \in Threads, NEW u \in Threads, t # u
               PROVE  /\ on[t] # on[u]
                      /\ \A i, j \in Slots :
                           (i <= sp[t] /\ j <= sp[u] /\ nest[t][i] \in Coroutines)
                             => nest[t][i] # nest[u][j]
    BY DEF OneThreadPerFlow
  <2>1. on[t] # on[u]
    BY ThreadFacts
  <2>2. ASSUME NEW i \in Slots, NEW j \in Slots, i <= sp[t], j <= sp[u],
               nest[t][i] \in Coroutines, nest[t][i] = nest[u][j]
        PROVE  FALSE
    <3>1. nest[t][i] \in Own(t) /\ nest[t][i] \in Own(u)
      BY <2>2 DEF Own, Slots
    <3> QED BY <2>2, <3>1, OwnApart
  <2> QED BY <2>1, <2>2
<1> QED BY <1>1, Inductive, PTL

(* The C stack of a coroutine that ended is freed by the resume it ended   *)
(* in, exactly once, and its pointer cleared; no other coroutine's is.     *)
THEOREM StacksAreReclaimed == ASSUME Discipline PROVE Spec => []StacksReclaimed
<1>1. IInv => StacksReclaimed
  <2> SUFFICES ASSUME IInv, NEW c \in Coroutines
               PROVE  /\ cstack[c] \in {"dangling", "null"} => pc[c] = "done"
                      /\ pc[c] = "done" /\ OffNest(c) => cstack[c] = "null"
    BY DEF StacksReclaimed
  <2>1. cstack[c] \in {"dangling", "null"} => pc[c] = "done"
    BY DEF IInv, FlowInv
  <2>2. ASSUME pc[c] = "done", OffNest(c), cstack[c] # "null" PROVE FALSE
    <3>1. PICK u \in Threads : pc[on[u]] \in {"back", "free", "clear"} /\ arg[on[u]] = c
      BY <2>2 DEF IInv, FlowInv
    <3> QED BY <2>2, <3>1, OffNestFacts DEF Resuming
  <2> QED BY <2>1, <2>2
<1> QED BY <1>1, Inductive, PTL
-----------------------------------------------------------------------------
(***************************************************************************)
(* The action properties of the coroutine runtime, and the proof that it   *)
(* implements the nested coroutines of LuaCoroutine.  Everything rests on  *)
(* the inductive invariant above.                                          *)
(***************************************************************************)

(* The abstract state: what Abs substitutes for chain and status.          *)
AbsChain == [t \in Threads |-> [i \in 1 .. Depth(t) |-> nest[t][i]]]
AbsStatus == [c \in Coroutines |->
                CASE fstate[c] = "NEW" -> "none"
                  [] Nested(c)         -> "running"
                  [] pc[c] = "done"    -> "dead"
                  [] OTHER             -> "suspended"]

(* A coroutine is nested exactly while its flow is somewhere.              *)
ActiveIsNested == \A c \in Coroutines : Nested(c) <=> pc[c] \in Active

(* The abstract status, read off the flow's position alone.                *)
StatusByPosition ==
  \A c \in Coroutines :
    AbsStatus[c] = IF fstate[c] = "NEW" THEN "none"
                   ELSE IF pc[c] \in Active THEN "running"
                   ELSE IF pc[c] = "done" THEN "dead" ELSE "suspended"

(* What the invariant says of the abstract state.                          *)
LEMMA AbstractFacts == IInv => ActiveIsNested /\ StatusByPosition
<1> SUFFICES ASSUME IInv, NEW c \in Coroutines
             PROVE  /\ Nested(c) <=> pc[c] \in Active
                    /\ AbsStatus[c] = IF fstate[c] = "NEW" THEN "none"
                                      ELSE IF pc[c] \in Active THEN "running"
                                      ELSE IF pc[c] = "done" THEN "dead" ELSE "suspended"
  BY DEF ActiveIsNested, StatusByPosition
<1> USE FlowsAssumption, MaxNestAssumption
<1>1. pc[c] \in Active => Nested(c)
  BY DEF IInv, FlowInv, Nested
<1>2. Nested(c) => pc[c] \in Active
  <2> SUFFICES ASSUME NEW t \in Threads, NEW i \in 1 .. Depth(t), nest[t][i] = c
               PROVE  pc[c] \in Active
    BY DEF Nested
  <2>1. CASE i = Depth(t)
    BY <2>1, ThreadFacts
  <2>2. CASE i \in 1 .. (Depth(t) - 1)
    BY <2>2 DEF IInv, ChainInv, Active
  <2> QED BY <2>1, <2>2, ThreadFacts
<1>3. /\ fstate[c] = "NEW" => pc[c] \notin Active /\ pc[c] # "done"
      /\ pc[c] \in Active => pc[c] # "done"
  BY DEF IInv, FlowInv, Active, Resuming
<1> QED BY <1>1, <1>2, <1>3 DEF AbsStatus

(* The same facts of the state after a step.                               *)
LEMMA AbstractFactsNext == IInv' => ActiveIsNested' /\ StatusByPosition'
  BY AbstractFacts, PTL

(* A step that keeps every chain, and every coroutine's existence and      *)
(* place, is a step the promise does not see.                              *)
LEMMA Unseen ==
  ASSUME IInv, IInv',
         \A u \in Threads : /\ Depth(u)' = Depth(u)
                            /\ \A i \in 1 .. Depth(u) : nest'[u][i] = nest[u][i],
         \A x \in Coroutines : /\ fstate'[x] = "NEW" <=> fstate[x] = "NEW"
                               /\ pc'[x] \in Active <=> pc[x] \in Active
                               /\ pc'[x] = "done" <=> pc[x] = "done"
  PROVE  AbsChain' = AbsChain /\ AbsStatus' = AbsStatus
<1>1. AbsChain' = AbsChain
  BY DEF AbsChain
<1>2. \A x \in Coroutines : AbsStatus'[x] = AbsStatus[x]
  BY AbstractFacts, AbstractFactsNext DEF StatusByPosition
<1>3. AbsStatus = [x \in Coroutines |-> AbsStatus[x]]
      /\ AbsStatus' = [x \in Coroutines |-> AbsStatus'[x]]
  BY DEF AbsStatus
<1> QED BY <1>1, <1>2, <1>3

(* A thread that only moves its own flow, within fiber_resume or within a  *)
(* body, and leaves its coroutinesStack alone, is not seen.                *)
LEMMA LocalMove ==
  ASSUME IInv, IInv', NEW t \in Threads, NEW p,
         pc' = [pc EXCEPT ![on[t]] = p], on' = on, nest' = nest, sp' = sp,
         p \in Resuming <=> pc[on[t]] \in Resuming, p \in Active,
         \A x \in Coroutines : fstate'[x] = "NEW" <=> fstate[x] = "NEW"
  PROVE  AbsChain' = AbsChain /\ AbsStatus' = AbsStatus
<1> USE FlowsAssumption, MaxNestAssumption
<1>1. on[t] \in Flows /\ pc[on[t]] \in Active
  BY ThreadFacts
<1>2. \A u \in Threads : Depth(u)' = Depth(u)
  BY <1>1, ThreadFacts DEF IInv, TypeOK, Depth
<1>3. \A x \in Coroutines : /\ pc'[x] \in Active <=> pc[x] \in Active
                            /\ pc'[x] = "done" <=> pc[x] = "done"
  BY <1>1 DEF IInv, TypeOK, Flows, Active, Resuming
<1> QED BY <1>2, <1>3, Unseen
(* The resume's read and compare-and-swap, what fiber_resume and           *)
(* fiber_yield do before and after their swapcontext, and the end of a     *)
(* body up to its swapcontext: none is seen.                               *)
LEMMA LocalSteps ==
  ASSUME IInv, IInv', NEW t \in Threads,
         \/ ResumeRead(t) \/ ResumeCas(t) \/ MarkDead(t) \/ FreeStack(t)
         \/ ResumeBack(t) /\ fstate[arg[on[t]]] = "DEAD"
         \/ Return(t) \/ Throw(t)
  PROVE  AbsChain' = AbsChain /\ AbsStatus' = AbsStatus
<1> USE FlowsAssumption, MaxNestAssumption DEF Resuming, Active, At, Goto,
        fiberVars, objectVars, nestVars, localVars
<1>1. CASE ResumeRead(t)
  BY <1>1, LocalMove DEF ResumeRead
<1>2. CASE ResumeCas(t)
  <2>1. \A x \in Coroutines : fstate'[x] = "NEW" <=> fstate[x] = "NEW"
    BY <1>2 DEF ResumeCas, IInv, TypeOK
  <2> QED BY <1>2, <2>1, LocalMove DEF ResumeCas
<1>3. CASE MarkDead(t)
  <2>1. on[t] \in Flows /\ fstate[on[t]] # "NEW"
    BY <1>3, ThreadFacts DEF MarkDead, IInv, NativeInv, FlowInv, Flows
  <2>2. \A x \in Coroutines : fstate'[x] = "NEW" <=> fstate[x] = "NEW"
    BY <1>3, <2>1 DEF MarkDead, IInv, TypeOK
  <2> QED BY <1>3, <2>2, LocalMove DEF MarkDead
<1>4. CASE FreeStack(t)
  <2>1. fault' = "none"
    BY DEF IInv
  <2>2. /\ pc[on[t]] = "free" /\ pc' = [pc EXCEPT ![on[t]] = "clear"]
        /\ UNCHANGED <<fstate, nest, sp, on>>
    BY <1>4, <2>1 DEF FreeStack, Lose
  <2> QED BY <2>2, LocalMove
<1>5. CASE ResumeBack(t) /\ fstate[arg[on[t]]] = "DEAD"
  <2>1. /\ pc[on[t]] = "back" /\ pc' = [pc EXCEPT ![on[t]] = "free"]
        /\ UNCHANGED <<fstate, nest, sp, on>>
    BY <1>5 DEF ResumeBack
  <2> QED BY <2>1, LocalMove
<1>6. CASE Return(t)
  <2>1. fault' = "none"
    BY DEF IInv
  <2>2. /\ pc[on[t]] = "run" /\ pc' = [pc EXCEPT ![on[t]] = "exit"]
        /\ UNCHANGED <<fstate, nest, sp, on>>
    BY <1>6, <2>1 DEF Return, Lose
  <2> QED BY <2>2, LocalMove
<1>7. CASE Throw(t)
  BY <1>7, LocalMove DEF Throw
<1> QED BY <1>1, <1>2, <1>3, <1>4, <1>5, <1>6, <1>7

(* A thread that pushes a target it has not entered, or pops one it left   *)
(* or never entered, is not seen either.                                   *)
LEMMA SlotMove ==
  ASSUME IInv, IInv', NEW t \in Threads, NEW p, NEW i \in Slots, NEW v,
         pc' = [pc EXCEPT ![on[t]] = p], on' = on, fstate' = fstate,
         nest' = [nest EXCEPT ![t][i] = v], i = Depth(t) + 1,
         sp' = [sp EXCEPT ![t] = IF p \in Resuming THEN Depth(t) + 1 ELSE Depth(t)],
         p \in Active
  PROVE  AbsChain' = AbsChain /\ AbsStatus' = AbsStatus
<1> USE FlowsAssumption, MaxNestAssumption
<1>1. on[t] \in Flows /\ pc[on[t]] \in Active /\ Depth(t) \in 1 .. MaxNest
  BY ThreadFacts
<1>2. ASSUME NEW u \in Threads
      PROVE  Depth(u)' = Depth(u) /\ \A j \in 1 .. Depth(u) : nest'[u][j] = nest[u][j]
  <2>1. CASE u = t
    <3>1. pc'[on'[t]] = p /\ sp'[t] = IF p \in Resuming THEN Depth(t) + 1 ELSE Depth(t)
      BY <1>1 DEF IInv, TypeOK
    <3>2. Depth(t)' = Depth(t)
      BY <1>1, <3>1 DEF Depth
    <3>3. \A j \in 1 .. Depth(t) : nest'[t][j] = nest[t][j]
      BY <1>1 DEF IInv, TypeOK, Slots
    <3> QED BY <2>1, <3>2, <3>3
  <2>2. CASE u # t
    <3>1. on[u] # on[t] /\ sp'[u] = sp[u] /\ nest'[u] = nest[u]
      BY <2>2, ThreadFacts DEF IInv, TypeOK
    <3>2. pc'[on'[u]] = pc[on[u]]
      BY <1>1, <3>1, ThreadFacts DEF IInv, TypeOK
    <3> QED BY <3>1, <3>2 DEF Depth
  <2> QED BY <2>1, <2>2
<1>3. \A x \in Coroutines : /\ pc'[x] \in Active <=> pc[x] \in Active
                            /\ pc'[x] = "done" <=> pc[x] = "done"
  BY <1>1 DEF IInv, TypeOK, Flows, Active, Resuming
<1> QED BY <1>2, <1>3, Unseen

(* Writing a slot of the nesting stack or leaving it is not seen either.    *)
LEMMA SlotSteps ==
  ASSUME IInv, IInv', NEW t \in Threads,
         \/ \E c \in Flows : ResumePush(t, c)
         \/ ResumeRefused(t) \/ ClearStack(t)
         \/ ResumeBack(t) /\ fstate[arg[on[t]]] # "DEAD"
  PROVE  AbsChain' = AbsChain /\ AbsStatus' = AbsStatus
<1> USE FlowsAssumption, MaxNestAssumption DEF Resuming, Active, At, Goto,
        fiberVars, objectVars, nestVars, localVars, Slots
<1>1. CASE \E c \in Flows : ResumePush(t, c)
  <2>1. PICK c \in Flows : ResumePush(t, c)
    BY <1>1
  <2>2. /\ pc[on[t]] = "run" /\ sp[t] < MaxNest
        /\ pc' = [pc EXCEPT ![on[t]] = "read"]
        /\ nest' = [nest EXCEPT ![t][sp[t] + 1] = c]
        /\ sp' = [sp EXCEPT ![t] = sp[t] + 1]
        /\ on' = on /\ fstate' = fstate
    BY <2>1 DEF ResumePush, Push
  <2>3. sp[t] = Depth(t) /\ sp[t] + 1 \in Slots
    BY <2>2, ThreadFacts
  <2> QED BY <2>2, <2>3, SlotMove
<1>2. CASE ~ \E c \in Flows : ResumePush(t, c)
  <2>1. fault' = "none"
    BY DEF IInv
  <2>2. /\ pc[on[t]] \in {"cas", "back", "clear"}
        /\ pc' = [pc EXCEPT ![on[t]] = "run"]
        /\ nest' = [nest EXCEPT ![t][sp[t]] = NULL]
        /\ sp' = [sp EXCEPT ![t] = sp[t] - 1]
        /\ on' = on /\ fstate' = fstate
    BY <1>2, <2>1 DEF ResumeRefused, ResumeBack, ClearStack, Finish, Pop, Lose
  <2>3. sp[t] = Depth(t) + 1 /\ sp[t] \in Slots /\ sp[t] - 1 = Depth(t)
    BY <2>2, ThreadFacts
  <2> QED BY <2>2, <2>3, SlotMove
<1> QED BY <1>1, <1>2

(* The calls that set a result or a flag, and the handing over of a        *)
(* coroutine, are not seen; nor is the compare-and-swap of fiber_yield.    *)
LEMMA QuietCalls ==
  ASSUME IInv, IInv', NEW t \in Threads,
         \/ \E c \in Flows : ResumeOverflow(t, c)
         \/ Yield(t) \/ YieldRefused(t)
         \/ \E b \in BOOLEAN : SetYieldable(t, b)
         \/ \E u \in Threads, c \in Coroutines : Handover(t, u, c)
  PROVE  AbsChain' = AbsChain /\ AbsStatus' = AbsStatus
<1> USE FlowsAssumption, MaxNestAssumption DEF At, Goto,
        fiberVars, objectVars, nestVars, localVars
<1>1. CASE Yield(t) /\ fstate[Executing(t)] = "RUNNING"
  <2>1. /\ pc[on[t]] = "run" /\ pc' = [pc EXCEPT ![on[t]] = "yswitch"]
        /\ fstate' = [fstate EXCEPT ![Executing(t)] = "SUSPENDED"]
        /\ nest' = nest /\ sp' = sp /\ on' = on
    BY <1>1 DEF Yield
  <2>2. \A x \in Coroutines : fstate'[x] = "NEW" <=> fstate[x] = "NEW"
    BY <1>1, <2>1 DEF IInv, TypeOK
  <2> QED BY <2>1, <2>2, LocalMove DEF Resuming, Active
<1>2. CASE ~(Yield(t) /\ fstate[Executing(t)] = "RUNNING")
  <2>1. fault' = "none"
    BY DEF IInv
  <2>2. UNCHANGED <<fstate, pc, nest, sp, on>>
    BY <1>2, <2>1 DEF ResumeOverflow, Yield, YieldRefused, SetYieldable,
                      Handover, Lose
  <2>3. \A u \in Threads : Depth(u)' = Depth(u)
    BY <2>2 DEF Depth
  <2> QED BY <2>2, <2>3, Unseen
<1> QED BY <1>1, <1>2
-----------------------------------------------------------------------------
(* The abstract chains are sequences of flows as long as the nestings.     *)
ChainsAreNestings ==
  \A t \in Threads : /\ AbsChain[t] \in Seq(Flows)
                     /\ Len(AbsChain[t]) = Depth(t) /\ Depth(t) \in Nat \ {0}
                     /\ \A i \in 1 .. Depth(t) : AbsChain[t][i] = nest[t][i]

(* Each thread's chain of the promise is its nesting.                       *)
LEMMA ChainFacts == IInv => ChainsAreNestings
<1> SUFFICES ASSUME IInv, NEW t \in Threads
             PROVE  /\ AbsChain[t] \in Seq(Flows)
                    /\ Len(AbsChain[t]) = Depth(t) /\ Depth(t) \in Nat \ {0}
                    /\ \A i \in 1 .. Depth(t) : AbsChain[t][i] = nest[t][i]
  BY DEF ChainsAreNestings
<1> USE FlowsAssumption, MaxNestAssumption
<1>1. Depth(t) \in Nat \ {0} /\ Depth(t) <= MaxNest
  BY ThreadFacts
<1>2. AbsChain[t] = [i \in 1 .. Depth(t) |-> nest[t][i]]
  BY DEF AbsChain
<1>3. \A i \in 1 .. Depth(t) : nest[t][i] \in Flows
  BY DEF IInv, ChainInv, Flows
<1>4. AbsChain[t] \in [1 .. Depth(t) -> Flows]
  BY <1>2, <1>3
<1> QED BY <1>1, <1>2, <1>4

(* The same after a step.                                                   *)
LEMMA ChainFactsNext == IInv' => ChainsAreNestings'
  BY ChainFacts, PTL

(* A coroutine's status is the only one a step changes.                    *)
LEMMA StatusMove ==
  ASSUME IInv, IInv', NEW c \in Coroutines,
         \A x \in Coroutines \ {c} : /\ fstate'[x] = "NEW" <=> fstate[x] = "NEW"
                                     /\ pc'[x] \in Active <=> pc[x] \in Active
                                     /\ pc'[x] = "done" <=> pc[x] = "done"
  PROVE  AbsStatus' = [AbsStatus EXCEPT ![c] = AbsStatus'[c]]
<1>1. \A x \in Coroutines \ {c} : AbsStatus'[x] = AbsStatus[x]
  BY AbstractFacts, AbstractFactsNext DEF StatusByPosition
<1>2. AbsStatus = [x \in Coroutines |-> AbsStatus[x]]
      /\ AbsStatus' = [x \in Coroutines |-> AbsStatus'[x]]
  BY DEF AbsStatus
<1> QED BY <1>1, <1>2

(* A thread's chain is the only one a step changes.                        *)
LEMMA ChainMove ==
  ASSUME IInv, IInv', NEW t \in Threads, NEW s, AbsChain'[t] = s,
         \A u \in Threads \ {t} : /\ Depth(u)' = Depth(u)
                                  /\ \A i \in 1 .. Depth(u) : nest'[u][i] = nest[u][i]
  PROVE  AbsChain' = [AbsChain EXCEPT ![t] = s]
<1>1. \A u \in Threads \ {t} : AbsChain'[u] = AbsChain[u]
  BY DEF AbsChain
<1>2. AbsChain = [u \in Threads |-> AbsChain[u]]
      /\ AbsChain' = [u \in Threads |-> AbsChain'[u]]
  BY DEF AbsChain
<1> QED BY <1>1, <1>2

(* coroutine_new is the promise's New.                                     *)
LEMMA CreateIsNew ==
  ASSUME Discipline, IInv, IInv', NEW t \in Threads, NEW c \in Coroutines,
         Create(t, c)
  PROVE  Abs!New(c)
<1> USE FlowsAssumption, MaxNestAssumption
<1>1. /\ sp[t] < MaxNest /\ fstate[c] = "NEW"
      /\ fstate' = [fstate EXCEPT ![c] = "SUSPENDED"]
      /\ pc' = [pc EXCEPT ![c] = "entry"]
      /\ nest' = nest /\ sp' = sp /\ on' = on
  BY DEF Create, Discipline, Goto, nestVars
<1>2. c \in Flows /\ pc[c] \notin Active /\ \A u \in Threads : on[u] # c
  <2>1. c \in Flows /\ pc[c] \notin Active
    BY <1>1 DEF IInv, FlowInv, Flows, Active, Resuming
  <2> QED BY <2>1, ThreadFacts DEF Active
<1>3. \A u \in Threads : Depth(u)' = Depth(u)
  BY <1>1, <1>2, ThreadFacts DEF IInv, TypeOK, Depth
<1>4. AbsChain' = AbsChain
  BY <1>1, <1>3 DEF AbsChain
<1>5. AbsStatus[c] = "none" /\ AbsStatus'[c] = "suspended"
  <2>1. fstate'[c] = "SUSPENDED" /\ pc'[c] = "entry"
    BY <1>1, <1>2 DEF IInv, TypeOK
  <2> QED BY <1>1, <2>1, AbstractFacts, AbstractFactsNext
          DEF StatusByPosition, Active, Resuming
<1>6. AbsStatus' = [AbsStatus EXCEPT ![c] = "suspended"]
  BY <1>1, <1>2, <1>5, StatusMove DEF IInv, TypeOK, Flows
<1> QED BY <1>4, <1>5, <1>6 DEF Abs!New, Abs!Move, AbsChain, AbsStatus
(* The collector's finalizer is the promise's Discard.                     *)
LEMMA CollectIsDiscard ==
  ASSUME IInv, IInv', NEW t \in Threads, NEW c \in Coroutines, Collect(t, c)
  PROVE  Abs!Discard(c)
<1> USE FlowsAssumption, MaxNestAssumption
<1>1. /\ holder[c] = t /\ OffNest(c)
      /\ fstate' = [fstate EXCEPT ![c] = "NEW"]
      /\ pc' = [pc EXCEPT ![c] = "entry"]
      /\ nest' = nest /\ sp' = sp /\ on' = on
  <2>1. fault' = "none"
    BY DEF IInv
  <2> QED BY <2>1 DEF Collect, Lose, Goto, nestVars
<1>2. /\ c \in Flows /\ pc[c] \notin Active /\ fstate[c] # "NEW"
      /\ \A u \in Threads : on[u] # c
  BY <1>1, OffNestFacts DEF IInv, FlowInv
<1>3. \A u \in Threads : Depth(u)' = Depth(u)
  BY <1>1, <1>2, ThreadFacts DEF IInv, TypeOK, Depth
<1>4. AbsChain' = AbsChain
  BY <1>1, <1>3 DEF AbsChain
<1>5. AbsStatus[c] \in {"suspended", "dead"} /\ AbsStatus'[c] = "none"
  <2>1. fstate'[c] = "NEW"
    BY <1>1, <1>2 DEF IInv, TypeOK
  <2> QED BY <1>2, <2>1, AbstractFacts, AbstractFactsNext DEF StatusByPosition
<1>6. \A x \in Coroutines \ {c} : fstate'[x] = fstate[x] /\ pc'[x] = pc[x]
  BY <1>1, <1>2 DEF IInv, TypeOK, Flows
<1>7. AbsStatus' = [AbsStatus EXCEPT ![c] = AbsStatus'[c]]
  BY <1>6, StatusMove
<1>8. AbsStatus' = [AbsStatus EXCEPT ![c] = "none"]
  BY <1>5, <1>7
<1> QED BY <1>4, <1>5, <1>8 DEF Abs!Discard, AbsChain, AbsStatus

(* The swapcontext of fiber_resume is the promise's Resume.                *)
LEMMA SwitchInIsResume ==
  ASSUME IInv, IInv', NEW t \in Threads, SwitchIn(t),
         NEW c \in Coroutines, arg[on[t]] = c
  PROVE  Abs!Resume(t, c)
<1> DEFINE f == on[t]
<1> USE FlowsAssumption, MaxNestAssumption
<1>1. /\ pc[f] = "switch" /\ f \in Flows /\ c \in Coroutines /\ c # f /\ c \in Flows
      /\ pc[c] \in {"entry", "ywait"} /\ fstate[c] = "RUNNING" /\ resumeCtx[c] = c
  <2>1. pc[f] = "switch" /\ f \in Flows
    BY ThreadFacts DEF SwitchIn, At
  <2>2. c \in Coroutines /\ pc[c] \in {"entry", "ywait"} /\ fstate[c] = "RUNNING"
    BY <2>1 DEF IInv, ResumeInv
  <2>3. resumeCtx[c] = c
    BY <2>2 DEF IInv, FlowInv
  <2> QED BY <2>1, <2>2, <2>3 DEF Flows
<1>2. /\ on' = [on EXCEPT ![t] = c]
      /\ pc' = [pc EXCEPT ![f] = "wait", ![c] = "run"]
      /\ UNCHANGED <<fstate, nest, sp>>
  <2>1. fault' = "none"
    BY DEF IInv
  <2> QED BY <1>1, <2>1 DEF SwitchIn, Lose, nestVars
<1>3. /\ sp[t] = Depth(t) + 1 /\ nest[t][sp[t]] = c /\ Depth(t)' = Depth(t) + 1
      /\ Depth(t) \in Nat \ {0}
  BY <1>1, <1>2, ThreadFacts DEF IInv, TypeOK, Depth, Resuming, Flows
<1>4. \A u \in Threads \ {t} : /\ Depth(u)' = Depth(u)
                               /\ \A i \in 1 .. Depth(u) : nest'[u][i] = nest[u][i]
  <2> SUFFICES ASSUME NEW u \in Threads, u # t PROVE Depth(u)' = Depth(u)
    BY <1>2
  <2>1. on'[u] = on[u]
    BY <1>2 DEF IInv, TypeOK
  <2>2. on[u] \in Flows /\ on[u] # f /\ pc[on[u]] \in Active
    BY ThreadFacts
  <2>3. on[u] # c
    BY <1>1, <2>2 DEF Active, Resuming
  <2> QED BY <1>1, <1>2, <2>1, <2>2, <2>3 DEF IInv, TypeOK, Depth
<1>5. AbsChain'[t] = Append(AbsChain[t], c)
  <2>1. /\ AbsChain[t] \in Seq(Flows) /\ Len(AbsChain[t]) = Depth(t)
        /\ \A i \in 1 .. Depth(t) : AbsChain[t][i] = nest[t][i]
    BY ChainFacts DEF ChainsAreNestings
  <2>2. /\ AbsChain'[t] \in Seq(Flows) /\ Len(AbsChain'[t]) = Depth(t) + 1
        /\ \A i \in 1 .. (Depth(t) + 1) : AbsChain'[t][i] = nest[t][i]
    BY <1>2, <1>3, ChainFactsNext DEF ChainsAreNestings
  <2>3. /\ Append(AbsChain[t], c) \in Seq(Flows)
        /\ Len(Append(AbsChain[t], c)) = Depth(t) + 1
        /\ \A i \in 1 .. Depth(t) : Append(AbsChain[t], c)[i] = nest[t][i]
        /\ Append(AbsChain[t], c)[Depth(t) + 1] = c
    BY <1>1, <1>3, <2>1, AppendProperties
  <2>4. \A i \in 1 .. (Depth(t) + 1) : AbsChain'[t][i] = Append(AbsChain[t], c)[i]
    BY <1>3, <2>2, <2>3
  <2> QED BY <2>2, <2>3, <2>4, SeqEqual
<1>6. AbsChain' = [AbsChain EXCEPT ![t] = Append(@, c)]
  BY <1>4, <1>5, ChainMove
<1>7. AbsStatus[c] = "suspended" /\ AbsStatus'[c] = "running"
  <2>1. pc'[c] = "run" /\ fstate'[c] = "RUNNING"
    BY <1>1, <1>2 DEF IInv, TypeOK
  <2> QED BY <1>1, <2>1, AbstractFacts, AbstractFactsNext
          DEF StatusByPosition, Active, Resuming
<1>8. AbsStatus' = [AbsStatus EXCEPT ![c] = "running"]
  <2>1. pc' = [pc EXCEPT ![f] = "wait", ![c] = "run"] /\ pc \in [Flows -> Positions]
    BY <1>2 DEF IInv, TypeOK
  <2>2. \A x \in Coroutines \ {c} : /\ fstate'[x] = "NEW" <=> fstate[x] = "NEW"
                                    /\ pc'[x] \in Active <=> pc[x] \in Active
                                    /\ pc'[x] = "done" <=> pc[x] = "done"
    BY <1>1, <1>2, <2>1 DEF Flows, Active, Resuming
  <2>3. c \in Coroutines
    BY <1>1
  <2>4. AbsStatus' = [AbsStatus EXCEPT ![c] = AbsStatus'[c]]
    BY <2>2, <2>3, StatusMove
  <2> QED BY <1>7, <2>4
<1> QED BY <1>6, <1>7, <1>8 DEF Abs!Resume, Abs!Move, AbsChain, AbsStatus

(* The flow under the one that leaves: it resumed it and waits for it.     *)
LEMMA UnderFacts ==
  ASSUME IInv, NEW t \in Threads, pc[on[t]] \in {"yswitch", "xswitch"}
  PROVE  /\ on[t] \in Coroutines /\ on[t] \in Flows /\ fstate[on[t]] # "NEW"
         /\ Depth(t) \in 2 .. MaxNest /\ on[t] = nest[t][Depth(t)] /\ sp[t] = Depth(t)
         /\ suspendCtx[on[t]] = nest[t][Depth(t) - 1]
         /\ suspendCtx[on[t]] \in Flows /\ suspendCtx[on[t]] # on[t]
         /\ pc[suspendCtx[on[t]]] = "wait" /\ arg[suspendCtx[on[t]]] = on[t]
<1> DEFINE f == on[t]
           g == suspendCtx[f]
           d == Depth(t)
<1> USE FlowsAssumption, MaxNestAssumption
<1>1. /\ f \in Coroutines /\ f \in Flows /\ fstate[f] # "NEW"
      /\ d \in 2 .. MaxNest /\ f = nest[t][d] /\ sp[t] = d
  <2>1. f \in Coroutines /\ fstate[f] # "NEW"
    BY ThreadFacts DEF IInv, NativeInv, FlowInv, Flows, Resuming
  <2> QED BY <2>1, ThreadFacts DEF Flows, Resuming
<1>2. d - 1 \in 1 .. (d - 1)
  BY <1>1
<1>3. g = nest[t][d - 1] /\ pc[g] = "wait" /\ arg[g] = f
  BY <1>1, <1>2 DEF IInv, ChainInv
<1>4. CASE d - 1 = 1
  BY <1>1, <1>3, <1>4 DEF IInv, ChainInv, Flows
<1>5. CASE d - 1 \in 2 .. d
  BY <1>1, <1>3, <1>5 DEF IInv, ChainInv, Flows
<1> QED BY <1>1, <1>2, <1>3, <1>4, <1>5

(* A swapcontext that leaves a coroutine goes back to the flow under it    *)
(* and shortens the chain by the coroutine.                                *)
LEMMA Leaving ==
  ASSUME IInv, IInv', NEW t \in Threads, NEW p \in {"ywait", "done"},
         pc[on[t]] \in {"yswitch", "xswitch"},
         fstate' = fstate, nest' = nest, sp' = sp,
         on' = [on EXCEPT ![t] = suspendCtx[on[t]]],
         pc' = [pc EXCEPT ![on[t]] = p, ![suspendCtx[on[t]]] = "back"]
  PROVE  /\ on[t] \in Coroutines
         /\ Len(AbsChain[t]) > 1 /\ AbsChain[t][Len(AbsChain[t])] = on[t]
         /\ AbsChain' = [AbsChain EXCEPT ![t] = SubSeq(@, 1, Len(@) - 1)]
         /\ AbsStatus[on[t]] = "running"
         /\ AbsStatus' = [AbsStatus EXCEPT ![on[t]] = IF p = "done" THEN "dead"
                                                                    ELSE "suspended"]
<1> DEFINE f == on[t]
           g == suspendCtx[f]
           d == Depth(t)
<1> USE FlowsAssumption, MaxNestAssumption
<1>1. /\ f \in Coroutines /\ f \in Flows /\ fstate[f] # "NEW"
      /\ d \in 2 .. MaxNest /\ f = nest[t][d] /\ sp[t] = d
  BY UnderFacts
<1>2. g = nest[t][d - 1] /\ pc[g] = "wait" /\ g \in Flows /\ g # f
  BY UnderFacts
<1>3. on'[t] = g /\ pc'[g] = "back" /\ pc'[f] = p /\ sp'[t] = d
  BY <1>1, <1>2 DEF IInv, TypeOK
<1>4. Depth(t)' = d - 1
  BY <1>3 DEF Depth, Resuming
<1>5. \A u \in Threads \ {t} : /\ Depth(u)' = Depth(u)
                               /\ \A i \in 1 .. Depth(u) : nest'[u][i] = nest[u][i]
  <2> SUFFICES ASSUME NEW u \in Threads, u # t PROVE Depth(u)' = Depth(u)
    OBVIOUS
  <2>1. on'[u] = on[u]
    BY DEF IInv, TypeOK
  <2>2. on[u] \in Flows /\ on[u] # f /\ pc[on[u]] \in Active \ {"wait"}
    BY ThreadFacts
  <2>3. on[u] # g
    BY <1>2, <2>2
  <2> QED BY <1>1, <1>2, <2>1, <2>2, <2>3 DEF IInv, TypeOK, Depth
<1>6. /\ AbsChain[t] \in Seq(Flows) /\ Len(AbsChain[t]) = d
      /\ \A i \in 1 .. d : AbsChain[t][i] = nest[t][i]
  BY ChainFacts DEF ChainsAreNestings
<1>7. AbsChain'[t] = SubSeq(AbsChain[t], 1, d - 1)
  <2>1. /\ AbsChain'[t] \in Seq(Flows) /\ Len(AbsChain'[t]) = d - 1
        /\ \A i \in 1 .. (d - 1) : AbsChain'[t][i] = nest[t][i]
    BY <1>4, ChainFactsNext DEF ChainsAreNestings
  <2>2. /\ SubSeq(AbsChain[t], 1, d - 1) \in Seq(Flows)
        /\ Len(SubSeq(AbsChain[t], 1, d - 1)) = d - 1
        /\ \A i \in 1 .. (d - 1) : SubSeq(AbsChain[t], 1, d - 1)[i] = nest[t][i]
    BY <1>1, <1>6, SubSeqProperties
  <2>3. \A i \in 1 .. (d - 1) : AbsChain'[t][i] = SubSeq(AbsChain[t], 1, d - 1)[i]
    BY <2>1, <2>2
  <2> QED BY <2>1, <2>2, <2>3, SeqEqual
<1>8. AbsChain' = [AbsChain EXCEPT ![t] = SubSeq(AbsChain[t], 1, d - 1)]
  BY <1>5, <1>7, ChainMove
<1>9. /\ AbsStatus[f] = "running"
      /\ AbsStatus'[f] = IF p = "done" THEN "dead" ELSE "suspended"
  BY <1>1, <1>3, AbstractFacts, AbstractFactsNext
     DEF StatusByPosition, Active, Resuming
<1>10. AbsStatus' = [AbsStatus EXCEPT ![f] = AbsStatus'[f]]
  <2>1. pc \in [Flows -> Positions]
    BY DEF IInv, TypeOK
  <2>2. \A x \in Coroutines \ {f} : /\ fstate'[x] = "NEW" <=> fstate[x] = "NEW"
                                    /\ pc'[x] \in Active <=> pc[x] \in Active
                                    /\ pc'[x] = "done" <=> pc[x] = "done"
    BY <1>1, <1>2, <2>1 DEF Flows, Active, Resuming
  <2> QED BY <1>1, <2>2, StatusMove
<1> QED BY <1>1, <1>6, <1>8, <1>9, <1>10

(* The swapcontexts of fiber_yield and of entryPoint are the promise's     *)
(* Yield and End.                                                          *)
LEMMA LeavingSteps ==
  ASSUME IInv, IInv', NEW t \in Threads
  PROVE  /\ YieldSwitch(t) => Abs!Yield(t)
         /\ ExitSwitch(t) => Abs!End(t)
<1> USE FlowsAssumption, MaxNestAssumption
<1>1. ASSUME YieldSwitch(t) PROVE Abs!Yield(t)
  <2>1. pc[on[t]] = "yswitch" /\ arg[on[t]] = on[t]
    BY <1>1 DEF YieldSwitch, At, IInv, ResumeInv
  <2>2. /\ fstate' = fstate /\ nest' = nest /\ sp' = sp
        /\ on' = [on EXCEPT ![t] = suspendCtx[on[t]]]
        /\ pc' = [pc EXCEPT ![on[t]] = "ywait", ![suspendCtx[on[t]]] = "back"]
    BY <1>1, <2>1 DEF YieldSwitch, nestVars
  <2>3. /\ Len(AbsChain[t]) > 1 /\ AbsChain[t][Len(AbsChain[t])] = on[t]
        /\ AbsChain' = [AbsChain EXCEPT ![t] = SubSeq(@, 1, Len(@) - 1)]
        /\ AbsStatus[on[t]] = "running"
        /\ AbsStatus' = [AbsStatus EXCEPT ![on[t]] = "suspended"]
    BY <2>1, <2>2, Leaving
  <2>4. /\ AbsStatus[AbsChain[t][Len(AbsChain[t])]] = "running"
        /\ AbsStatus' = [AbsStatus EXCEPT ![AbsChain[t][Len(AbsChain[t])]] = "suspended"]
    BY <2>3
  <2> QED BY <2>3, <2>4 DEF Abs!Yield, Abs!Move, Abs!Leave, Abs!Inner,
                            AbsChain, AbsStatus
<1>2. ASSUME ExitSwitch(t) PROVE Abs!End(t)
  <2>1. pc[on[t]] = "xswitch"
    BY <1>2 DEF ExitSwitch, At
  <2>2. /\ fstate' = fstate /\ nest' = nest /\ sp' = sp
        /\ on' = [on EXCEPT ![t] = suspendCtx[on[t]]]
        /\ pc' = [pc EXCEPT ![on[t]] = "done", ![suspendCtx[on[t]]] = "back"]
    BY <1>2 DEF ExitSwitch, nestVars
  <2>3. /\ Len(AbsChain[t]) > 1 /\ AbsChain[t][Len(AbsChain[t])] = on[t]
        /\ AbsChain' = [AbsChain EXCEPT ![t] = SubSeq(@, 1, Len(@) - 1)]
        /\ AbsStatus[on[t]] = "running"
        /\ AbsStatus' = [AbsStatus EXCEPT ![on[t]] = "dead"]
    BY <2>1, <2>2, Leaving
  <2>4. /\ AbsStatus[AbsChain[t][Len(AbsChain[t])]] = "running"
        /\ AbsStatus' = [AbsStatus EXCEPT ![AbsChain[t][Len(AbsChain[t])]] = "dead"]
    BY <2>3
  <2> QED BY <2>3, <2>4 DEF Abs!End, Abs!Move, Abs!Leave, Abs!Inner,
                            AbsChain, AbsStatus
<1> QED BY <1>1, <1>2

-----------------------------------------------------------------------------
(* A fresh virtual machine is the promise's: no thread nests anything.     *)
LEMMA InitMaps == ASSUME Init PROVE Abs!Init
<1> USE FlowsAssumption, MaxNestAssumption
<1>1. IInv
  BY InitInv
<1>2. ASSUME NEW t \in Threads PROVE Depth(t) = 1 /\ nest[t][1] = t
  <2>1. pc[t] = "run" /\ on[t] = t /\ sp[t] = 1 /\ nest[t][1] = t
    BY DEF Init, Flows, Slots
  <2> QED BY <2>1 DEF Depth, Resuming
<1>3. AbsChain = [t \in Threads |-> <<t>>]
  <2>1. ASSUME NEW t \in Threads PROVE AbsChain[t] = <<t>>
    <3>1. AbsChain[t] = [i \in 1 .. 1 |-> nest[t][i]]
      BY <1>2 DEF AbsChain
    <3>2. AbsChain[t] \in Seq(Flows) /\ Len(AbsChain[t]) = 1 /\ AbsChain[t][1] = t
      BY <1>1, <1>2, <3>1, ChainFacts DEF ChainsAreNestings
    <3>3. <<t>> \in Seq(Flows) /\ Len(<<t>>) = 1 /\ <<t>>[1] = t
      BY DEF Flows
    <3> QED BY <3>2, <3>3, SeqEqual
  <2> QED BY <2>1 DEF AbsChain
<1>4. AbsStatus = [c \in Coroutines |-> "none"]
  <2>1. \A c \in Coroutines : AbsStatus[c] = "none"
    BY <1>1, AbstractFacts DEF StatusByPosition, Init, Flows
  <2> QED BY <2>1 DEF AbsStatus
<1> QED BY <1>3, <1>4 DEF Abs!Init, AbsChain, AbsStatus

(* Every step is a step of the promise or is not seen.                     *)
LEMMA StepMaps == ASSUME Discipline, IInv, [Next]_vars PROVE [Abs!Next]_(Abs!vars)
<1>1. IInv'
  BY StepInv
<1>2. SUFFICES (AbsChain' = AbsChain /\ AbsStatus' = AbsStatus) \/ Abs!Next
  BY DEF Abs!vars, AbsChain, AbsStatus
<1>3. CASE UNCHANGED vars
  <2>1. \A u \in Threads : Depth(u)' = Depth(u)
    BY <1>3 DEF Depth, vars, nestVars
  <2> QED BY <1>1, <1>3, <2>1, Unseen DEF vars, fiberVars, nestVars
<1>4. CASE Next
  <2>1. PICK t \in Threads : Runtime(t) \/ Program(t)
    BY <1>4 DEF Next
  <2>2. CASE Runtime(t)
    <3>1. CASE ResumeRead(t) \/ ResumeCas(t) \/ MarkDead(t) \/ FreeStack(t)
      BY <1>1, <3>1, LocalSteps
    <3>2. CASE ResumeBack(t)
      BY <1>1, <3>2, LocalSteps, SlotSteps
    <3>3. CASE ResumeRefused(t) \/ ClearStack(t)
      BY <1>1, <3>3, SlotSteps
    <3>4. CASE SwitchIn(t)
      <4>1. PICK c \in Coroutines : arg[on[t]] = c
        BY <3>4 DEF SwitchIn, At, IInv, ResumeInv
      <4>2. Abs!Resume(t, c)
        BY <1>1, <3>4, <4>1, SwitchInIsResume
      <4> QED BY <4>2 DEF Abs!Next
    <3>5. CASE YieldSwitch(t) \/ ExitSwitch(t)
      BY <1>1, <3>5, LeavingSteps DEF Abs!Next
    <3> QED BY <2>2, <3>1, <3>2, <3>3, <3>4, <3>5 DEF Runtime
  <2>3. CASE Program(t)
    <3>1. CASE \/ \E c \in Coroutines : Create(t, c)
               \/ \E c \in Coroutines : Collect(t, c)
      BY <1>1, <3>1, CreateIsNew, CollectIsDiscard DEF Abs!Next
    <3>2. CASE \E c \in Flows : ResumePush(t, c)
      BY <1>1, <3>2, SlotSteps
    <3>3. CASE Return(t) \/ Throw(t)
      BY <1>1, <3>3, LocalSteps
    <3>4. CASE \/ \E c \in Flows : ResumeOverflow(t, c)
               \/ Yield(t) \/ YieldRefused(t)
               \/ \E b \in BOOLEAN : SetYieldable(t, b)
               \/ \E u \in Threads, c \in Coroutines : Handover(t, u, c)
      BY <1>1, <3>4, QuietCalls
    <3> QED BY <2>3, <3>1, <3>2, <3>3, <3>4 DEF Program
  <2> QED BY <2>1, <2>2, <2>3
<1> QED BY <1>3, <1>4

(* The coroutine runtime keeps its promise: seen at its swapcontext steps, *)
(* fibers, contexts and the compare-and-swap of fiber_resume implement     *)
(* asymmetric coroutines nested in threads, whatever the threads' schedule.*)
THEOREM Refinement == ASSUME Discipline PROVE Spec => Implements
<1>1. Init => Abs!Init
  BY InitMaps
<1>2. IInv /\ [Next]_vars => [Abs!Next]_(Abs!vars)
  BY StepMaps
<1> QED BY <1>1, <1>2, Inductive, PTL DEF Spec, Implements, Abs!Spec

-----------------------------------------------------------------------------
(* Control leaves a flow only at a swapcontext, which enters the coroutine *)
(* on top of the thread's coroutinesStack or returns to the flow under it. *)
THEOREM ControlNests == ASSUME Discipline PROVE Spec => ControlIsNested
<1> DEFINE Nests ==
      \A t \in Threads : on'[t] # on[t] =>
        \/ on'[t] = arg[on[t]] /\ on'[t] = nest[t][sp[t]]
        \/ sp[t] > 1 /\ on'[t] = nest[t][sp[t] - 1] /\ arg[on'[t]] = on[t]
<1>1. IInv /\ [Next]_vars => [Nests]_vars
  <2> SUFFICES ASSUME IInv, Next, NEW t \in Threads, on'[t] # on[t]
               PROVE  \/ on'[t] = arg[on[t]] /\ on'[t] = nest[t][sp[t]]
                      \/ sp[t] > 1 /\ on'[t] = nest[t][sp[t] - 1] /\ arg[on'[t]] = on[t]
    OBVIOUS
  <2>0. IInv'
    BY StepInv
  <2>1. PICK u \in Threads : SwitchIn(u) \/ YieldSwitch(u) \/ ExitSwitch(u)
    <3>1. on' # on
      OBVIOUS
    <3> QED BY <3>1 DEF Next, Runtime, Program, ResumeRead, ResumeCas, ResumeRefused,
               MarkDead, ResumeBack, FreeStack, ClearStack, Create, ResumePush,
               ResumeOverflow, Yield, YieldRefused, SetYieldable, Return, Throw,
               Handover, Collect, Lose
  <2>2. u = t
    BY <2>1 DEF IInv, TypeOK, SwitchIn, YieldSwitch, ExitSwitch, Lose
  <2>3. CASE SwitchIn(t)
    <3>1. pc[on[t]] = "switch" /\ arg[on[t]] \in Coroutines
      BY <2>3 DEF SwitchIn, At, IInv, ResumeInv
    <3>2. resumeCtx[arg[on[t]]] = arg[on[t]]
      BY <3>1 DEF IInv, FlowInv, ResumeInv
    <3>3. on'[t] = arg[on[t]]
      BY <2>0, <2>3, <3>2 DEF SwitchIn, Lose, IInv, TypeOK
    <3>4. nest[t][sp[t]] = arg[on[t]]
      BY <3>1, ThreadFacts DEF Resuming
    <3> QED BY <3>3, <3>4
  <2>4. CASE YieldSwitch(t) \/ ExitSwitch(t)
    <3>1. /\ pc[on[t]] \in {"yswitch", "xswitch"}
          /\ on' = [on EXCEPT ![t] = suspendCtx[on[t]]]
      BY <2>4 DEF YieldSwitch, ExitSwitch, At, IInv, ResumeInv
    <3>2. on'[t] = suspendCtx[on[t]]
      BY <3>1 DEF IInv, TypeOK
    <3> QED BY <3>1, <3>2, UnderFacts, MaxNestAssumption
  <2> QED BY <2>1, <2>2, <2>3, <2>4
<1> QED BY <1>1, Inductive, PTL DEF Spec, ControlIsNested

-----------------------------------------------------------------------------
(* A fiber that is RUNNING although its coroutine has not been entered is  *)
(* being entered: a thread is between its compare-and-swap and swapcontext.*)
EnteredSoon(c) ==
  fstate[c] = "RUNNING" /\ pc[c] \in {"entry", "ywait"} =>
     \E u \in Threads : pc[on[u]] = "switch" /\ arg[on[u]] = c

SwitchInv == \A c \in Coroutines : EnteredSoon(c)

(* A step of a thread that is not at its swapcontext, and does not make a  *)
(* fiber RUNNING, preserves this.                                          *)
LEMMA SwitchFrame ==
  ASSUME IInv, SwitchInv, NEW t \in Threads, pc[on[t]] # "switch",
         \A u \in Threads \ {t} : on'[u] = on[u],
         \A x \in Flows \ {on[t]} : pc[x] = "switch" => pc'[x] = pc[x] /\ arg'[x] = arg[x],
         \A x \in Coroutines : fstate'[x] = "RUNNING" /\ pc'[x] \in {"entry", "ywait"} =>
                               fstate[x] = "RUNNING" /\ pc[x] \in {"entry", "ywait"}
  PROVE  SwitchInv'
<1> SUFFICES ASSUME NEW c \in Coroutines,
                    fstate'[c] = "RUNNING", pc'[c] \in {"entry", "ywait"}
             PROVE  \E u \in Threads : pc'[on'[u]] = "switch" /\ arg'[on'[u]] = c
  BY DEF SwitchInv, EnteredSoon
<1>1. PICK u \in Threads : pc[on[u]] = "switch" /\ arg[on[u]] = c
  BY DEF SwitchInv, EnteredSoon
<1>2. u # t /\ on[u] \in Flows \ {on[t]}
  BY <1>1, ThreadFacts
<1> QED BY <1>1, <1>2

(* Every step keeps a thread at the swapcontext of each such fiber.          *)
LEMMA SwitchInvStep ==
  ASSUME Discipline, IInv, IInv', SwitchInv, [Next]_vars PROVE SwitchInv'
<1> USE FlowsAssumption, MaxNestAssumption
<1>0. CASE UNCHANGED vars
  BY <1>0 DEF SwitchInv, EnteredSoon, vars, fiberVars, localVars
<1>. SUFFICES ASSUME NEW t \in Threads, Runtime(t) \/ Program(t) PROVE SwitchInv'
  BY <1>0 DEF Next
<1> DEFINE f == on[t]
<1>t. /\ f \in Flows /\ on \in [Threads -> Flows] /\ pc \in [Flows -> Positions]
      /\ fstate \in [Flows -> FiberStates] /\ arg \in [Flows -> Flows \cup {NULL}]
  BY DEF IInv, TypeOK
<1>n. fault' = "none"
  BY DEF IInv
(* Steps that move only the thread's own flow and change no fiber's state. *)
<1>1. CASE \/ ResumeRead(t) \/ ResumeRefused(t) \/ ResumeBack(t)
           \/ FreeStack(t) \/ ClearStack(t) \/ Return(t) \/ Throw(t)
           \/ \E c \in Flows : ResumePush(t, c)
  <2>1. /\ pc[f] \notin {"switch", "entry", "ywait"}
        /\ \E p \in Positions \ {"entry", "ywait"} : pc' = [pc EXCEPT ![f] = p]
        /\ arg' = arg \/ \E a : arg' = [arg EXCEPT ![f] = a]
        /\ on' = on /\ fstate' = fstate
    BY <1>1, <1>n DEF ResumeRead, ResumeRefused, ResumeBack, FreeStack, ClearStack,
       Return, Throw, ResumePush, Finish, Lose, At, Goto, Positions, Resuming,
       fiberVars, localVars
  <2>2. \A x \in Flows \ {f} : pc'[x] = pc[x] /\ arg'[x] = arg[x]
    BY <2>1, <1>t
  <2>3. pc'[f] \notin {"entry", "ywait"}
    BY <2>1, <1>t
  <2> QED BY <2>1, <2>2, <2>3, SwitchFrame DEF Flows
(* Steps that move no flow.                                                *)
<1>2. CASE \/ \E c \in Flows : ResumeOverflow(t, c)
           \/ YieldRefused(t)
           \/ \E b \in BOOLEAN : SetYieldable(t, b)
           \/ \E u \in Threads, c \in Coroutines : Handover(t, u, c)
  <2>1. pc[f] = "run" /\ on' = on /\ fstate' = fstate /\ pc' = pc /\ arg' = arg
    BY <1>2 DEF ResumeOverflow, YieldRefused, SetYieldable, Handover, At,
                fiberVars, localVars
  <2> QED BY <2>1, SwitchFrame
(* The compare-and-swap: the thread itself is the one that enters it.      *)
<1>3. CASE ResumeCas(t)
  <2>1. /\ pc[f] = "cas" /\ pc' = [pc EXCEPT ![f] = "switch"]
        /\ on' = on /\ arg' = arg /\ fstate' = [fstate EXCEPT ![arg[f]] = "RUNNING"]
    BY <1>3 DEF ResumeCas, At, Goto
  <2>2. pc'[on'[t]] = "switch" /\ arg'[on'[t]] = arg[f]
    BY <2>1, <1>t
  <2> SUFFICES ASSUME NEW c \in Coroutines, c # arg[f],
                      fstate'[c] = "RUNNING", pc'[c] \in {"entry", "ywait"}
               PROVE  \E u \in Threads : pc'[on'[u]] = "switch" /\ arg'[on'[u]] = c
    BY <2>2 DEF SwitchInv, EnteredSoon
  <2>3. fstate[c] = "RUNNING" /\ pc[c] \in {"entry", "ywait"}
    BY <2>1, <1>t DEF Flows
  <2>4. PICK u \in Threads : pc[on[u]] = "switch" /\ arg[on[u]] = c
    BY <2>3 DEF SwitchInv, EnteredSoon
  <2> QED BY <2>1, <2>4, <1>t
(* The swapcontext: the entered coroutine runs.                            *)
<1>4. CASE SwitchIn(t)
  <2>1. PICK c \in Coroutines : /\ arg[f] = c /\ pc[f] = "switch"
                                /\ pc[c] \in {"entry", "ywait"} /\ fstate[c] = "RUNNING"
    BY <1>4 DEF SwitchIn, At, IInv, ResumeInv
  <2>2. resumeCtx[c] = c
    BY <2>1 DEF IInv, FlowInv
  <2>3. /\ on' = [on EXCEPT ![t] = c] /\ pc' = [pc EXCEPT ![f] = "wait", ![c] = "run"]
        /\ fstate' = fstate /\ arg' = arg
    BY <1>4, <1>n, <2>1, <2>2 DEF SwitchIn, Lose
  <2> SUFFICES ASSUME NEW x \in Coroutines,
                      fstate'[x] = "RUNNING", pc'[x] \in {"entry", "ywait"}
               PROVE  \E u \in Threads : pc'[on'[u]] = "switch" /\ arg'[on'[u]] = x
    BY DEF SwitchInv, EnteredSoon
  <2>4. x # c /\ fstate[x] = "RUNNING" /\ pc[x] \in {"entry", "ywait"}
    BY <2>3, <1>t DEF Flows
  <2>5. PICK u \in Threads : pc[on[u]] = "switch" /\ arg[on[u]] = x
    BY <2>4 DEF SwitchInv, EnteredSoon
  <2>6. u # t /\ on[u] # f /\ on[u] # c /\ on[u] \in Flows /\ on'[u] = on[u]
    BY <2>1, <2>3, <2>4, <2>5, <1>t, ThreadFacts
  <2>7. pc'[on'[u]] = "switch" /\ arg'[on'[u]] = x
    BY <2>3, <2>5, <2>6, <1>t
  <2> QED BY <2>7
(* fiber_yield and entryPoint: the coroutine left is not RUNNING.          *)
<1>5. CASE YieldSwitch(t) \/ ExitSwitch(t)
  <2>1. PICK g \in Flows : g = suspendCtx[f] /\ pc[g] = "wait" /\ g # f
    BY <1>5, UnderFacts DEF YieldSwitch, ExitSwitch, At
  <2>2. /\ pc[f] \in {"yswitch", "xswitch"} /\ f \in Coroutines /\ fstate[f] # "RUNNING"
        /\ pc[f] = "yswitch" => arg[f] = f
    BY <1>5, UnderFacts
       DEF YieldSwitch, ExitSwitch, At, IInv, FlowInv, ResumeInv
  <2>3. /\ on' = [on EXCEPT ![t] = g] /\ fstate' = fstate
        /\ \E p \in {"ywait", "done"} : pc' = [pc EXCEPT ![f] = p, ![g] = "back"]
        /\ arg' = arg \/ arg' = [arg EXCEPT ![f] = NULL]
    BY <1>5, <2>1, <2>2 DEF YieldSwitch, ExitSwitch, At, localVars
  <2>4. \A u \in Threads \ {t} : on'[u] = on[u]
    BY <2>3, <1>t
  <2>5. \A x \in Flows \ {f} : pc[x] = "switch" => pc'[x] = pc[x] /\ arg'[x] = arg[x]
    BY <2>1, <2>3, <1>t
  <2>6. \A x \in Coroutines : fstate'[x] = "RUNNING" /\ pc'[x] \in {"entry", "ywait"} =>
                              fstate[x] = "RUNNING" /\ pc[x] \in {"entry", "ywait"}
    BY <2>1, <2>2, <2>3, <1>t DEF Flows
  <2> QED BY <2>2, <2>4, <2>5, <2>6, SwitchFrame
(* fiber_yield's compare-and-swap, entryPoint's FIBER_DEAD.                *)
<1>6. CASE Yield(t) \/ MarkDead(t)
  <2>1. /\ pc[f] \in {"run", "exit"} /\ on' = on
        /\ pc' = pc \/ \E p \in {"yswitch", "xswitch"} : pc' = [pc EXCEPT ![f] = p]
        /\ arg' = arg \/ \E a : arg' = [arg EXCEPT ![f] = a]
        /\ fstate' = fstate \/ \E x, s : s # "RUNNING" /\ fstate' = [fstate EXCEPT ![x] = s]
    BY <1>6, <1>n DEF Yield, MarkDead, At, Goto, Lose, fiberVars, localVars
  <2>2. \A x \in Flows \ {f} : pc'[x] = pc[x] /\ arg'[x] = arg[x]
    BY <2>1, <1>t
  <2>3. \A x \in Flows : fstate'[x] = "RUNNING" => fstate[x] = "RUNNING"
    BY <2>1, <1>t
  <2>4. pc'[f] \notin {"entry", "ywait"}
    BY <2>1, <1>t
  <2> QED BY <2>1, <2>2, <2>3, <2>4, SwitchFrame DEF Flows
(* coroutine_new and the finalizer: the coroutine's fiber is not RUNNING.  *)
<1>7. CASE \/ \E c \in Coroutines : Create(t, c)
           \/ \E c \in Coroutines : Collect(t, c)
  <2>1. PICK c \in Coroutines : Create(t, c) \/ Collect(t, c)
    BY <1>7
  <2>2. /\ pc[f] = "run" /\ on' = on /\ pc' = [pc EXCEPT ![c] = "entry"]
        /\ arg' = arg \/ arg' = [arg EXCEPT ![c] = NULL]
        /\ \E s \in {"SUSPENDED", "NEW"} : fstate' = [fstate EXCEPT ![c] = s]
    BY <2>1, <1>n DEF Create, Collect, At, Goto, Lose, localVars
  <2>3. pc[c] \notin Active
    BY <2>1, OffNestFacts DEF Create, Collect, IInv, FlowInv, Active, Resuming
  <2>4. \A x \in Flows \ {c} : pc'[x] = pc[x] /\ arg'[x] = arg[x] /\ fstate'[x] = fstate[x]
    BY <2>2, <1>t
  <2>5. fstate'[c] # "RUNNING" /\ pc[c] # "switch"
    BY <2>2, <2>3, <1>t DEF Flows, Active, Resuming
  <2>6. \A x \in Flows \ {f} : pc[x] = "switch" => pc'[x] = pc[x] /\ arg'[x] = arg[x]
    BY <2>4, <2>5
  <2>7. \A x \in Coroutines : fstate'[x] = "RUNNING" /\ pc'[x] \in {"entry", "ywait"} =>
                              fstate[x] = "RUNNING" /\ pc[x] \in {"entry", "ywait"}
    BY <2>4, <2>5 DEF Flows
  <2> QED BY <2>2, <2>6, <2>7, SwitchFrame
<1> QED BY <1>1, <1>2, <1>3, <1>4, <1>5, <1>6, <1>7 DEF Runtime, Program

(* Both invariants hold in every reachable state.                          *)
LEMMA SwitchInductive == ASSUME Discipline PROVE Spec => [](IInv /\ SwitchInv)
<1>1. Init => IInv /\ SwitchInv
  <2>1. Init => \A c \in Coroutines : fstate[c] = "NEW"
    BY FlowsAssumption DEF Init, Flows
  <2> QED BY <2>1, InitInv DEF SwitchInv, EnteredSoon
<1>2. (IInv /\ SwitchInv) /\ [Next]_vars => (IInv /\ SwitchInv)'
  BY StepInv, SwitchInvStep
<1> QED BY <1>1, <1>2, PTL DEF Spec

(* Only a refused resume reports "dead" or "running".                      *)
LEMMA OtherResults ==
  ASSUME IInv, IInv', NEW t \in Threads, Runtime(t) \/ Program(t),
         ~ResumeRefused(t), NEW f \in Flows
  PROVE  ret'[f] = ret[f] \/ ret'[f] \notin {"dead", "running"}
<1>1. ret \in [Flows -> Results] /\ fault' = "none"
  BY DEF IInv, TypeOK
<1>2. CASE ResumeRead(t) \/ ResumeCas(t) \/ YieldSwitch(t) \/ MarkDead(t)
           \/ ExitSwitch(t) \/ FreeStack(t) \/ Return(t) \/ Throw(t)
           \/ (\E b \in BOOLEAN : SetYieldable(t, b))
           \/ (\E u \in Threads, c \in Coroutines : Handover(t, u, c))
           \/ (\E c \in Coroutines : Create(t, c))
  BY <1>1, <1>2 DEF ResumeRead, ResumeCas, YieldSwitch, MarkDead, ExitSwitch,
     FreeStack, Return, Throw, SetYieldable, Handover, Create, Lose, localVars
<1>3. ASSUME NEW x, NEW v, ret' = [ret EXCEPT ![x] = v], v \notin {"dead", "running"}
      PROVE  ret'[f] = ret[f] \/ ret'[f] \notin {"dead", "running"}
  BY <1>1, <1>3
<1>4. CASE SwitchIn(t)
  <2>1. ret' = [ret EXCEPT ![resumeCtx[arg[on[t]]]] =
                  IF pc[resumeCtx[arg[on[t]]]] = "ywait" THEN "ok" ELSE "none"]
    BY <1>1, <1>4 DEF SwitchIn, Lose
  <2> QED BY <2>1, <1>3
<1>5. CASE Yield(t)
  <2>1. \/ ret' = [ret EXCEPT ![on[t]] = "none"]
        \/ ret' = [ret EXCEPT ![on[t]] = "refused"]
    BY <1>1, <1>5 DEF Yield, Lose
  <2> QED BY <2>1, <1>3
<1>6. CASE ResumeBack(t) \/ ClearStack(t)
  <2>1. \/ ret' = ret
        \/ ret' = [ret EXCEPT ![on[t]] = IF hasError[arg[on[t]]] THEN "thrown" ELSE "ok"]
    BY <1>6 DEF ResumeBack, ClearStack, Finish
  <2> QED BY <2>1, <1>3
<1>7. CASE \/ \E c \in Flows : ResumePush(t, c)
           \/ \E c \in Flows : ResumeOverflow(t, c)
  <2>1. \/ ret' = [ret EXCEPT ![on[t]] = "none"]
        \/ ret' = [ret EXCEPT ![on[t]] = "overflow"]
    BY <1>7 DEF ResumePush, ResumeOverflow
  <2> QED BY <2>1, <1>3
<1>8. CASE \E c \in Coroutines : Collect(t, c)
  <2>1. PICK c \in Coroutines : Collect(t, c)
    BY <1>8
  <2>2. ret' = [ret EXCEPT ![c] = "none"]
    BY <1>1, <2>1 DEF Collect, Lose
  <2> QED BY <2>2, <1>3
<1>9. CASE YieldRefused(t)
  <2> DEFINE v == CASE Executing(t) = NULL      -> "outside"
                    [] Executing(t) \in Threads -> "toplevel"
                    [] OTHER                    -> "disabled"
  <2>1. ret' = [ret EXCEPT ![on[t]] = v]
    BY <1>9 DEF YieldRefused
  <2>2. v = "outside" \/ v = "toplevel" \/ v = "disabled"
    OBVIOUS
  <2> HIDE DEF v
  <2> QED BY <2>1, <2>2, <1>3
<1> QED BY <1>2, <1>4, <1>5, <1>6, <1>7, <1>8, <1>9 DEF Runtime, Program

(* What a refused resume says of its target is true when it says it: the   *)
(* state read before the compare-and-swap cannot have changed, since the   *)
(* target was given to the resuming thread.                                *)
LEMMA RefusalIsTrue ==
  ASSUME IInv, IInv', SwitchInv, NEW t \in Threads, ResumeRefused(t), NEW f \in Flows,
         ret[f] = "none"
  PROVE  /\ ret'[f] = "dead" => fstate[arg[f]] = "DEAD" /\ pc[arg[f]] = "done"
         /\ ret'[f] = "running" =>
              \E u \in Threads : \E i \in Slots : i <= sp[u]
                 /\ nest[u][i] = arg[f]
                 /\ pc[arg[f]] \in Resuming \cup {"wait", "run"}
<1> USE FlowsAssumption, MaxNestAssumption
<1>1. ret \in [Flows -> Results] /\ fault' = "none"
  BY DEF IInv, TypeOK
<1>2. /\ pc[on[t]] = "cas" /\ prev[on[t]] = fstate[arg[on[t]]]
      /\ fstate[arg[on[t]]] # "SUSPENDED"
      /\ ret' = [ret EXCEPT ![on[t]] = IF prev[on[t]] = "DEAD" THEN "dead"
                                                               ELSE "running"]
  BY <1>1 DEF ResumeRefused, Lose, At, IInv, ResumeInv
<1> SUFFICES ASSUME f = on[t]
             PROVE  /\ fstate[arg[f]] = "DEAD" => pc[arg[f]] = "done"
                    /\ fstate[arg[f]] # "DEAD" =>
                         \E u \in Threads : \E i \in Slots : i <= sp[u]
                            /\ nest[u][i] = arg[f]
                            /\ pc[arg[f]] \in Resuming \cup {"wait", "run"}
  BY <1>1, <1>2
<1> DEFINE c == arg[f]
<1>3. /\ c \in Flows /\ (c \in Coroutines => holder[c] = t)
      /\ fstate[c] \in {"NEW", "RUNNING", "DEAD"} /\ fstate[c] # "SUSPENDED"
  BY <1>2 DEF IInv, TypeOK, ResumeInv, FiberStates, Resuming
<1>4. ASSUME c \in Threads
      PROVE  /\ fstate[c] # "DEAD"
             /\ \E u \in Threads : \E i \in Slots : i <= sp[u] /\ nest[u][i] = c
             /\ pc[c] \in Resuming \cup {"wait", "run"}
  <2>1. fstate[c] = "RUNNING" /\ pc[c] \in Resuming \cup {"wait", "run"}
    BY <1>4 DEF IInv, NativeInv
  <2>2. 1 \in Slots /\ 1 <= sp[c] /\ nest[c][1] = c
    BY <1>4, ThreadFacts DEF IInv, ChainInv, Slots
  <2> QED BY <1>4, <2>1, <2>2
<1>5. ASSUME c \in Coroutines, pc[c] \in Active
      PROVE  /\ pc[c] \in Resuming \cup {"wait"} /\ fstate[c] # "DEAD"
             /\ \E u \in Threads : \E i \in Slots : i <= sp[u] /\ nest[u][i] = c
  <2>0. PICK u \in Threads : \E i \in 1 .. Depth(u) : nest[u][i] = c
    BY <1>5 DEF IInv, FlowInv
  <2>1. PICK i \in 1 .. Depth(u) : nest[u][i] = c
    BY <2>0
  <2>2. u = t /\ i \in Slots /\ i <= sp[u] /\ i \in 2 .. Depth(u)
    BY <1>3, <1>5, <2>1, ThreadFacts DEF IInv, ChainInv, Slots, Flows
  <2>3. CASE i = Depth(t)
    BY <1>2, <1>5, <2>1, <2>2, <2>3, ThreadFacts DEF IInv, FlowInv, Active, Resuming
  <2>4. CASE i \in 1 .. (Depth(t) - 1)
    <3>1. pc[c] = "wait"
      BY <2>1, <2>2, <2>4 DEF IInv, ChainInv
    <3> QED BY <1>5, <2>1, <2>2, <3>1 DEF IInv, FlowInv, Active, Resuming
  <2> QED BY <2>2, <2>3, <2>4, ThreadFacts
<1>6. ASSUME c \in Coroutines, pc[c] \notin Active, fstate[c] # "DEAD" PROVE FALSE
  <2>1. fstate[c] # "NEW"
    BY <1>3, <1>6 DEF IInv, FlowInv
  <2>2. fstate[c] = "RUNNING" /\ pc[c] \in {"entry", "ywait"}
    BY <1>3, <1>6, <2>1 DEF IInv, TypeOK, FlowInv, Positions, Active, Resuming
  <2>3. PICK u \in Threads : pc[on[u]] = "switch" /\ arg[on[u]] = c
    BY <1>6, <2>2 DEF SwitchInv, EnteredSoon
  <2>4. u = t
    BY <1>3, <1>6, <2>3 DEF IInv, ResumeInv, Resuming
  <2> QED BY <1>2, <2>3, <2>4
<1>7. ASSUME c \in Coroutines, pc[c] \notin Active, fstate[c] = "DEAD" PROVE pc[c] = "done"
  BY <1>3, <1>7 DEF IInv, TypeOK, FlowInv, Positions, Active, Resuming
<1> QED BY <1>3, <1>4, <1>5, <1>6, <1>7 DEF Flows

(* coroutine_resume calls a coroutine dead or running only if it is.       *)
THEOREM VerdictsHold == ASSUME Discipline PROVE Spec => VerdictsAreTrue
<1> DEFINE True(f) ==
      ret[f] = "none" =>
        /\ ret'[f] = "dead" => fstate[arg[f]] = "DEAD" /\ pc[arg[f]] = "done"
        /\ ret'[f] = "running" =>
             \E u \in Threads : \E i \in Slots : i <= sp[u]
                /\ nest[u][i] = arg[f] /\ pc[arg[f]] \in Resuming \cup {"wait", "run"}
<1>1. (IInv /\ SwitchInv) /\ [Next]_vars => [\A f \in Flows : True(f)]_vars
  <2> SUFFICES ASSUME IInv, SwitchInv, Next, NEW f \in Flows, ret[f] = "none"
               PROVE  True(f)
    BY DEF vars
  <2>1. PICK t \in Threads : Runtime(t) \/ Program(t)
    BY DEF Next
  <2>2. IInv'
    BY StepInv
  <2>3. CASE ResumeRefused(t)
    BY <2>2, <2>3, RefusalIsTrue
  <2>4. CASE ~ResumeRefused(t)
    BY <2>1, <2>2, <2>4, OtherResults
  <2> QED BY <2>3, <2>4
<1> QED BY <1>1, SwitchInductive, PTL DEF Spec, VerdictsAreTrue

(* With the discipline of handing coroutines over, which the run           *)
(* coroutine_shared drops, fiber_resume frees no C stack that is run on.   *)
THEOREM FreedStackIsUnused == ASSUME Discipline PROVE Spec => []StackIsUnused
<1>1. IInv => StackIsUnused
  <2> SUFFICES ASSUME IInv, NEW t \in Threads, NEW u \in Threads, pc[on[t]] = "free",
                      on[u] = arg[on[t]]
               PROVE  FALSE
    BY DEF StackIsUnused
  <2>1. pc[on[u]] = "done"
    BY DEF IInv, ResumeInv
  <2> QED BY <2>1, ThreadFacts DEF Active, Resuming
<1> QED BY <1>1, Inductive, PTL
==============================================================================
