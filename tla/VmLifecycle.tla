----------------------------- MODULE VmLifecycle -----------------------------
(***************************************************************************)
(* The life of a virtual machine and of its managed threads:               *)
(* src/src/fluffyvm.c.  The main thread makes the VM component by          *)
(* component -- the last one starts the string cache's poller thread --    *)
(* and takes it down in the reverse order; managed threads start further   *)
(* ones with fluffyvm_start_thread, which waits on a condition variable    *)
(* for the new thread to report how its initialisation went.               *)
(*                                                                         *)
(* A step is what one thread does up to the next point another thread can  *)
(* notice.  What a thread's routine computes is left out, as are the keys, *)
(* roots and static data that only the thread itself sees.                 *)
(***************************************************************************)
EXTENDS Integers

CONSTANTS
  Main,             \* the thread that calls fluffyvm_new and fluffyvm_free
  Poller,           \* the string cache poller
  Workers,          \* threads the application starts
  NULL,
  NumComponents,    \* length of COMPONENTS; the last is cache_poller
  LateInitFails     \* TRUE: a new thread may run out of memory in lateInit

ASSUME ThreadsAssumption ==
  /\ Main # Poller /\ Main \notin Workers /\ Poller \notin Workers
  /\ NULL \notin Workers \cup {Main, Poller}
ASSUME ComponentsAssumption == NumComponents \in Nat /\ NumComponents >= 1
ASSUME OutcomesAssumption == LateInitFails \in BOOLEAN

Children == Workers \cup {Poller}
Starters == Workers \cup {Main}
Threads  == Children \cup {Main}

VARIABLES
  vm,             \* the memory of struct fluffyvm is allocated
  components,     \* initCounts, then the components still to be cleaned up
  managed,        \* numberOfManagedThreads
  shuttingDown,   \* this->shuttingDown
  pollerStarted,  \* this->hasCachePollerStarted
  pc,             \* where a thread is
  target,         \* the thread a starter is starting
  starter,        \* the thread whose initCompletionSignal a child signals
  signalled,      \* the starter's pthread_cond_wait was signalled
  args,           \* thread_args of a child: "none", "live" or "freed"
  status,         \* args->status of a child
  fault           \* "none", or how the process was lost

vmVars    == <<vm, components, managed, shuttingDown, pollerStarted>>
startVars == <<target, starter, signalled, args, status>>
vars == <<vmVars, pc, startVars, fault>>

(* "created" .. "free": threadStub.  "prewait" .. "woken": start_thread     *)
(* after pthread_create.  "init", "last": fluffyvm_new; "cleanup":          *)
(* commonCleanup.  "run": the thread's own routine.                         *)
StubPositions == {"created", "late", "signal", "test", "run", "exit"}
Positions == StubPositions \cup
  {"none", "free", "prewait", "waiting", "woken", "init", "last", "cleanup"}

Init ==
  /\ vm = FALSE /\ components = 0 /\ managed = 0
  /\ shuttingDown = FALSE /\ pollerStarted = FALSE
  /\ pc        = [t \in Threads |-> "none"]
  /\ target    = [t \in Starters |-> NULL]
  /\ starter   = [t \in Children |-> NULL]
  /\ signalled = [t \in Starters |-> FALSE]
  /\ args      = [t \in Children |-> "none"]
  /\ status    = [t \in Children |-> TRUE]
  /\ fault = "none"

At(t, p) == fault = "none" /\ pc[t] = p

Goto(t, p) == pc' = [pc EXCEPT ![t] = p]

Lose(how) == fault' = how /\ UNCHANGED <<vmVars, pc, startVars>>

-----------------------------------------------------------------------------
(* fluffyvm_new up to COMPONENTS.  Without a root or a coroutinesStack for  *)
(* the main thread, commonCleanup deletes a staticDataRoot nobody made.  A  *)
(* thread that is still to enter the last VM is lost whatever a new one     *)
(* does: no new one is made before.                                         *)
NewVm(ok) ==
  /\ At(Main, "none")
  /\ \A n \in Children : pc[n] \in {"none", "free"}
  /\ IF ~ok THEN Lose("wild_root")
     ELSE /\ vm' = TRUE /\ components' = 0 /\ managed' = 1
          /\ shuttingDown' = FALSE /\ pollerStarted' = FALSE
          /\ Goto(Main, "init")
          /\ UNCHANGED <<startVars, fault>>

(* X(name): initCounts++, and the next component's init, but the last's.    *)
InitComponent(ok) ==
  /\ At(Main, "init")
  /\ components < NumComponents - 1
  /\ components' = components + 1
  /\ IF ok THEN UNCHANGED <<pc, shuttingDown>>
           ELSE Goto(Main, "cleanup") /\ shuttingDown' = TRUE
  /\ UNCHANGED <<vm, managed, pollerStarted, startVars, fault>>

(* lateInit of the main thread; its result is not looked at.                *)
NewVmDone ==
  /\ At(Main, "last")
  /\ Goto(Main, "run")
  /\ UNCHANGED <<vmVars, startVars, fault>>

-----------------------------------------------------------------------------
(* The place from which s may call fluffyvm_start_thread for n: a routine,  *)
(* or cache_poller_init.                                                    *)
MayStart(s, n) ==
  /\ fault = "none"
  /\ pc[n] = "none" /\ args[n] # "live" /\ \A u \in Starters : target[u] # n
  /\ IF n = Poller
     THEN s = Main /\ pc[s] = "init" /\ components = NumComponents - 1
     ELSE s # n /\ pc[s] = "run"

(* fluffyvm_start_thread up to pthread_create.                              *)
StartCreate(s, n) ==
  /\ MayStart(s, n)
  /\ components' = IF n = Poller THEN NumComponents ELSE components
  /\ target'    = [target EXCEPT ![s] = n]
  /\ starter'   = [starter EXCEPT ![n] = s]
  /\ signalled' = [signalled EXCEPT ![s] = FALSE]
  /\ args'      = [args EXCEPT ![n] = "live"]
  /\ status'    = [status EXCEPT ![n] = TRUE]
  /\ pc'        = [pc EXCEPT ![s] = "prewait", ![n] = "created"]
  /\ UNCHANGED <<vm, managed, shuttingDown, pollerStarted, fault>>

(* ... which returns false when memory or threads run out.                  *)
StartRefused(s, n) ==
  /\ MayStart(s, n)
  /\ components' = IF n = Poller THEN NumComponents ELSE components
  /\ IF n = Poller THEN Goto(s, "cleanup") /\ shuttingDown' = TRUE
                   ELSE UNCHANGED <<pc, shuttingDown>>
  /\ UNCHANGED <<vm, managed, pollerStarted, startVars, fault>>

(* pthread_cond_wait: from here on a signal is noticed.                     *)
StartWait(s) ==
  /\ At(s, "prewait")
  /\ Goto(s, "waiting")
  /\ UNCHANGED <<vmVars, startVars, fault>>

Wake(s) ==
  /\ At(s, "waiting")
  /\ Goto(s, "woken")
  /\ UNCHANGED <<vmVars, startVars, fault>>

StartWake(s) == signalled[s] /\ Wake(s)

(* The wait is in no loop and tests nothing: pthread_cond_wait may return   *)
(* without a signal.                                                        *)
SpuriousWake(s) == ~signalled[s] /\ Wake(s)

(* if (!data->status): the new thread may have freed data by now.  When it  *)
(* failed, its root, thread id and data are freed here and by threadStub.   *)
StartReturn(s) ==
  LET n == target[s] IN
  /\ At(s, "woken")
  /\ IF args[n] # "live" THEN Lose("use_after_free")
     ELSE IF ~status[n] /\ pc[n] = "free" THEN Lose("double_free")
     ELSE /\ args'   = [args EXCEPT ![n] = IF status[n] THEN @ ELSE "freed"]
          /\ target' = [target EXCEPT ![s] = NULL]
          /\ Goto(s, IF n # Poller THEN "run"
                     ELSE IF status[n] THEN "last" ELSE "cleanup")
          /\ pollerStarted' = (pollerStarted \/ (n = Poller /\ status[n]))
          /\ shuttingDown'  = (shuttingDown \/ (n = Poller /\ ~status[n]))
          /\ UNCHANGED <<vm, components, managed, starter, signalled, status,
                         fault>>
-----------------------------------------------------------------------------
(* Variant: initThread does not count the thread.                           *)
InitThreadUncounted(n) ==
  /\ At(n, "created")
  /\ IF ~vm THEN Lose("use_after_free")
     ELSE Goto(n, "late") /\ UNCHANGED <<vmVars, startVars, fault>>

(* threadStub: initThread, in a VM that is gone when the starter did not    *)
(* wait for this thread ...                                                 *)
InitThread(n) ==
  /\ At(n, "created")
  /\ IF ~vm THEN Lose("use_after_free")
     ELSE /\ managed' = managed + 1
          /\ Goto(n, "late")
          /\ UNCHANGED <<vm, components, shuttingDown, pollerStarted, startVars,
                         fault>>

(* ... args->status = lateInit ...                                          *)
LateInit(n) ==
  /\ At(n, "late")
  /\ IF ~vm THEN Lose("use_after_free")
     ELSE /\ \E ok \in IF LateInitFails THEN BOOLEAN ELSE {TRUE} :
               status' = [status EXCEPT ![n] = ok]
          /\ Goto(n, "signal")
          /\ UNCHANGED <<vmVars, target, starter, signalled, args, fault>>

(* ... pthread_cond_signal, which only a waiting starter notices; the       *)
(* condition variable is a local of start_thread ...                        *)
Signal(n) ==
  LET s == starter[n] IN
  /\ At(n, "signal")
  /\ IF target[s] # n THEN Lose("use_after_free")
     ELSE /\ signalled' = [signalled EXCEPT ![s] = @ \/ pc[s] = "waiting"]
          /\ Goto(n, "test")
          /\ UNCHANGED <<vmVars, target, starter, args, status, fault>>

(* ... if (!args->status) ...                                               *)
TestStatus(n) ==
  /\ At(n, "test")
  /\ IF args[n] # "live" THEN Lose("use_after_free")
     ELSE Goto(n, IF status[n] THEN "run" ELSE "exit")
          /\ UNCHANGED <<vmVars, startVars, fault>>

(* The routine ends: the poller's once the VM shuts down, an application's  *)
(* when it likes.                                                           *)
EndRoutine(n) ==
  /\ At(n, "run")
  /\ n = Poller => shuttingDown
  /\ Goto(n, "exit")
  /\ UNCHANGED <<vmVars, startVars, fault>>

(* cleanThread.                                                             *)
CleanThread(n) ==
  /\ At(n, "exit")
  /\ managed' = managed - 1
  /\ Goto(n, "free")
  /\ UNCHANGED <<vm, components, shuttingDown, pollerStarted, startVars, fault>>

(* free(args), and the thread is over.                                      *)
FreeArgs(n) ==
  /\ At(n, "free")
  /\ IF args[n] # "live" THEN Lose("double_free")
     ELSE /\ args' = [args EXCEPT ![n] = "freed"]
          /\ Goto(n, "none")
          /\ UNCHANGED <<vmVars, target, starter, signalled, status, fault>>
-----------------------------------------------------------------------------
(* Variants: fluffyvm_free lets one thread too many run; cleans up before   *)
(* it tells the poller to stop.                                             *)
FreeVmOffByOne ==
  /\ At(Main, "run")
  /\ IF managed > 3 THEN Lose("abort")
     ELSE /\ shuttingDown' = TRUE
          /\ Goto(Main, "cleanup")
          /\ UNCHANGED <<vm, components, managed, pollerStarted, startVars,
                         fault>>
FreeVmUntold ==
  /\ At(Main, "run")
  /\ IF managed > 2 THEN Lose("abort")
     ELSE Goto(Main, "cleanup") /\ UNCHANGED <<vmVars, startVars, fault>>

(* fluffyvm_free: the main thread and the poller do not count.              *)
FreeVm ==
  /\ At(Main, "run")
  /\ IF managed > 2 THEN Lose("abort")
     ELSE /\ shuttingDown' = TRUE
          /\ Goto(Main, "cleanup")
          /\ UNCHANGED <<vm, components, managed, pollerStarted, startVars,
                         fault>>

(* Variant: the poller is not joined.                                       *)
CleanComponentUnjoined ==
  /\ At(Main, "cleanup")
  /\ components > 0
  /\ components' = components - 1
  /\ UNCHANGED <<vm, managed, shuttingDown, pollerStarted, pc, startVars, fault>>

(* commonCleanup: the next component's cleanup; cache_poller's joins.       *)
CleanComponent ==
  /\ At(Main, "cleanup")
  /\ components > 0
  /\ components = NumComponents /\ pollerStarted => pc[Poller] = "none"
  /\ components' = components - 1
  /\ UNCHANGED <<vm, managed, shuttingDown, pollerStarted, pc, startVars, fault>>

(* ... and the main thread's cleanThread, the keys, the VM itself.          *)
CleanVm ==
  /\ At(Main, "cleanup")
  /\ components = 0
  /\ vm' = FALSE /\ managed' = managed - 1
  /\ Goto(Main, "none")
  /\ UNCHANGED <<components, shuttingDown, pollerStarted, startVars, fault>>

(* What a thread does without its routine deciding it.                      *)
Runtime(t) ==
  \/ t = Main /\ (\E ok \in BOOLEAN : InitComponent(ok))
  \/ t = Main /\ NewVmDone
  \/ t = Main /\ StartCreate(Main, Poller)
  \/ t = Main /\ StartRefused(Main, Poller)
  \/ t = Main /\ CleanComponent
  \/ t = Main /\ CleanVm
  \/ t \in Starters /\ (StartWait(t) \/ StartWake(t) \/ StartReturn(t))
  \/ t \in Children /\ (InitThread(t) \/ LateInit(t) \/ Signal(t) \/ TestStatus(t))
  \/ t = Poller /\ EndRoutine(t)
  \/ t \in Children /\ (CleanThread(t) \/ FreeArgs(t))

(* What an application's thread decides.                                    *)
Program ==
  \/ \E ok \in BOOLEAN : NewVm(ok)
  \/ \E s \in Starters, n \in Workers : StartCreate(s, n)
  \/ \E s \in Starters, n \in Workers : StartRefused(s, n)
  \/ \E n \in Workers : EndRoutine(n)
  \/ FreeVm

Next ==
  \/ Program
  \/ \E s \in Starters : SpuriousWake(s)
  \/ \E t \in Threads : Runtime(t)

Spec == Init /\ [][Next]_vars

FairSpec == Spec /\ \A t \in Threads : WF_vars(Runtime(t))
-----------------------------------------------------------------------------
TypeOK ==
  /\ vm \in BOOLEAN
  /\ components \in 0 .. NumComponents
  /\ managed \in Nat
  /\ shuttingDown \in BOOLEAN /\ pollerStarted \in BOOLEAN
  /\ pc \in [Threads -> Positions]
  /\ target \in [Starters -> Children \cup {NULL}]
  /\ starter \in [Children -> Starters \cup {NULL}]
  /\ signalled \in [Starters -> BOOLEAN]
  /\ args \in [Children -> {"none", "live", "freed"}]
  /\ status \in [Children -> BOOLEAN]
  /\ fault \in {"none", "abort", "wild_root", "use_after_free", "double_free"}

(* n's starter was woken for no reason and has gone on before n signalled:  *)
(* n's pthread_cond_signal will be of a condition variable that is gone ... *)
Deserted(n) ==
  /\ pc[n] \in {"created", "late", "signal"}
  /\ target[starter[n]] # n

(* ... and numberOfManagedThreads does not count it yet.                    *)
Uncounted(n) == Deserted(n) /\ pc[n] = "created"

(* A thread in threadStub or in fluffyvm_start_thread finds the VM and all  *)
(* of its components there: it is joined, or keeps fluffyvm_free from going *)
(* on, until its last use -- but for a thread whose starter went on before  *)
(* it signalled, which the wait without a loop lets happen.                 *)
VmOutlivesThreads ==
  \A n \in Children :
    pc[n] \in StubPositions \cup {"prewait", "waiting", "woken"} /\ ~Deserted(n) =>
      vm /\ components = NumComponents

(* fluffyvm_free goes on only when no application thread is left but one    *)
(* whose own start returned before it was counted -- or when it is the      *)
(* poller that is not counted yet, whose place an application's thread then *)
(* takes in the count.                                                      *)
ShutdownIsAlone ==
  [][shuttingDown' /\ ~shuttingDown /\ pc[Main] = "run" /\ ~Uncounted(Poller) =>
       \A w \in Workers : pc[w] \in {"none", "free"} \/ Uncounted(w)]_vars

(* A shutdown ends: the poller notices it and the join returns.             *)
ShutdownEnds ==
  (pc[Main] = "cleanup") ~> (pc[Main] = "none" \/ fault # "none")

(* fluffyvm_start_thread returns.                                           *)
StartReturns ==
  \A s \in Starters : (pc[s] = "prewait") ~>
                         (pc[s] \notin {"prewait", "waiting"} \/ fault # "none")
=============================================================================
