--------------------------- MODULE VmLifecycleProofs ---------------------------
(***************************************************************************)
(* Proofs about the life of a virtual machine for any number of threads    *)
(* and of components, when no new thread runs out of memory in lateInit    *)
(* (the run vm_late_init shows what happens when one does).                *)
(***************************************************************************)
EXTENDS VmLifecycle, FiniteSetTheorems, TLAPS

Starting == {"prewait", "waiting", "woken"}
Alive    == {"late", "signal", "test", "run", "exit"} \cup Starting
Gone     == {"none", "free"}

(* The threads that numberOfManagedThreads counts: the main thread while   *)
(* there is a VM, a child from its initThread to its cleanThread.          *)
Managed == {n \in Children : pc[n] \in Alive} \cup
           {t \in {Main} : pc[t] # "none"}

Spawned  == {"created", "late", "signal"}

(* No application thread is there, but those whose starter did not wait.   *)
Idle == \A w \in Workers : pc[w] \in Gone \/ Deserted(w)

AllGone == \A w \in Workers : pc[w] \in Gone

(* Where a thread can be, and that it waits for one child exactly while it *)
(* is in fluffyvm_start_thread.  Only the main thread starts the poller.   *)
PlaceInv ==
  /\ pc[Poller] \in StubPositions \cup Gone
  /\ \A w \in Workers : /\ pc[w] \in StubPositions \cup Gone \cup Starting
                        /\ target[w] # Poller
  /\ pc[Main] \in {"none", "init", "last", "run", "cleanup"} \cup Starting
  /\ \A s \in Starters : target[s] # NULL <=> pc[s] \in Starting

(* Who started a thread that has not signalled yet.                        *)
SpawnInv(n) ==
  pc[n] \in Spawned =>
    /\ starter[n] \in Starters
    /\ n = Poller => starter[n] = Main

(* What is there in each phase of the main thread: making the VM, starting *)
(* the poller, running, taking the VM down.  While the poller has not      *)
(* signalled, the shutdown does not get past the join.                     *)
PhaseInv ==
  /\ pc[Main] = "none" => components = 0 /\ Idle /\ pc[Poller] = "none"
  /\ pc[Main] # "none" => vm
  /\ pc[Main] = "init" =>
       /\ components < NumComponents /\ ~pollerStarted /\ ~shuttingDown
       /\ AllGone /\ pc[Poller] = "none"
  /\ pc[Main] \in {"last", "run"} \cup Starting =>
       components = NumComponents /\ ~shuttingDown
  /\ pc[Main] \in Starting /\ target[Main] = Poller =>
       /\ AllGone /\ ~pollerStarted
       /\ pc[Poller] \in Spawned \cup {"test", "run"}
  /\ pc[Main] = "last" => AllGone
  /\ pc[Main] \in {"last", "run"} \/ (pc[Main] \in Starting /\ target[Main] # Poller) =>
       pollerStarted /\ pc[Poller] \in Spawned \cup {"test", "run"}
  /\ pc[Main] = "cleanup" =>
       /\ shuttingDown
       /\ Idle \/ pc[Poller] \in Spawned
       /\ components < NumComponents \/ ~pollerStarted => pc[Poller] = "none"

CountInv == IsFiniteSet(Managed) /\ managed = Cardinality(Managed)

IInv ==
  /\ TypeOK
  /\ \A n \in Children : status[n] /\ SpawnInv(n)
  /\ PlaceInv
  /\ PhaseInv
  /\ CountInv

-----------------------------------------------------------------------------
(* How many threads a step makes managed or not, when it moves one thread. *)
Counted(t, p) == IF t = Main THEN p # "none" ELSE p \in Alive

(* A thread that moves is counted as its new place says.                    *)
LEMMA ManagedMove ==
  ASSUME TypeOK, NEW t \in Threads, NEW p, pc' = [pc EXCEPT ![t] = p]
  PROVE  /\ Managed' = IF Counted(t, p) THEN Managed \cup {t} ELSE Managed \ {t}
         /\ t \in Managed <=> Counted(t, pc[t])
<1> USE ThreadsAssumption
<1>1. \A u \in Threads : u \in Managed <=> Counted(u, pc[u])
  BY DEF Managed, Counted, Threads, Children
<1>2. \A u \in Threads : u \in Managed' <=> Counted(u, pc'[u])
  BY DEF Managed, Counted, Threads, Children
<1>3. Managed \subseteq Threads /\ Managed' \subseteq Threads
  BY DEF Managed, Threads
<1>4. pc'[t] = p /\ \A u \in Threads \ {t} : pc'[u] = pc[u]
  BY DEF TypeOK
<1> QED BY <1>1, <1>2, <1>3, <1>4

(* The counter follows: up,                                                 *)
LEMMA CountUp ==
  ASSUME TypeOK, CountInv, NEW t \in Threads, NEW p, pc' = [pc EXCEPT ![t] = p],
         ~Counted(t, pc[t]), Counted(t, p), managed' = managed + 1
  PROVE  CountInv'
<1>1. Managed' = IF Counted(t, p) THEN Managed \cup {t} ELSE Managed \ {t}
  BY ManagedMove
<1>2. t \in Managed <=> Counted(t, pc[t])
  BY ManagedMove
<1>3. Managed' = Managed \cup {t} /\ t \notin Managed
  BY <1>1, <1>2
<1> QED BY <1>3, FS_AddElement DEF CountInv

(* down,                                                                    *)
LEMMA CountDown ==
  ASSUME TypeOK, CountInv, NEW t \in Threads, NEW p, pc' = [pc EXCEPT ![t] = p],
         Counted(t, pc[t]), ~Counted(t, p), managed' = managed - 1
  PROVE  CountInv'
<1>1. Managed' = IF Counted(t, p) THEN Managed \cup {t} ELSE Managed \ {t}
  BY ManagedMove
<1>2. t \in Managed <=> Counted(t, pc[t])
  BY ManagedMove
<1>3. Managed' = Managed \ {t} /\ t \in Managed
  BY <1>1, <1>2
<1> QED BY <1>3, FS_RemoveElement DEF CountInv

(* or not at all.                                                           *)
LEMMA CountSame ==
  ASSUME TypeOK, CountInv, NEW t \in Threads, NEW p, pc' = [pc EXCEPT ![t] = p],
         Counted(t, pc[t]) <=> Counted(t, p), managed' = managed
  PROVE  CountInv'
<1>1. Managed' = IF Counted(t, p) THEN Managed \cup {t} ELSE Managed \ {t}
  BY ManagedMove
<1>2. t \in Managed <=> Counted(t, p)
  BY ManagedMove
<1>3. Managed' = Managed
  BY <1>1, <1>2
<1> QED BY <1>3 DEF CountInv

(* It is a number.                                                          *)
LEMMA CountType == ASSUME CountInv PROVE managed \in Nat
  BY FS_CardinalityType DEF CountInv

(* A step that moves no thread counts none.                                *)
LEMMA CountStill ==
  ASSUME CountInv, pc' = pc, managed' = managed PROVE CountInv'
  BY DEF CountInv, Managed

(* A thread that runs, or starts another one, tells the main thread's      *)
(* phase; the poller is started by the main thread.                        *)
LEMMA PhaseFacts ==
  ASSUME IInv
  PROVE  /\ AllGone => Idle
         /\ ~Idle =>
              \/ /\ pc[Main] \in {"run"} \cup Starting
                 /\ pc[Main] \in Starting => target[Main] # Poller
                 /\ pollerStarted /\ pc[Poller] \in Spawned \cup {"test", "run"}
              \/ pc[Main] = "cleanup" /\ pc[Poller] \in Spawned
         /\ \A n \in Children :
              pc[n] \in StubPositions \cup Starting /\ ~Deserted(n) =>
                /\ pc[Main] \notin {"none", "init"}
                /\ pc[Main] = "cleanup" => n = Poller \/ pc[Poller] \in Spawned
<1> USE ThreadsAssumption DEF Starting
<1>1. AllGone => Idle
  BY DEF AllGone, Idle
<1>2. ~Idle =>
        \/ /\ pc[Main] \in {"run"} \cup Starting
           /\ pc[Main] \in Starting => target[Main] # Poller
           /\ pollerStarted /\ pc[Poller] \in Spawned \cup {"test", "run"}
        \/ pc[Main] = "cleanup" /\ pc[Poller] \in Spawned
  BY <1>1 DEF IInv, PhaseInv, PlaceInv
<1>3. ASSUME NEW n \in Children, pc[n] \in StubPositions \cup Starting, ~Deserted(n)
      PROVE  /\ pc[Main] \notin {"none", "init"}
             /\ pc[Main] = "cleanup" => n = Poller \/ pc[Poller] \in Spawned
  <2>1. pc[n] \notin Gone
    BY <1>3 DEF Gone, StubPositions
  <2> QED BY <1>3, <2>1, <1>1 DEF IInv, PhaseInv, Idle, AllGone, Children, Gone
<1> QED BY <1>1, <1>2, <1>3

(* What the invariant says of the parts that a step of the main thread     *)
(* alone leaves as they are.                                               *)
LEMMA MainFrame ==
  ASSUME IInv, NEW p \in {"none", "init", "last", "run", "cleanup"},
         pc[Main] \notin Starting,
         pc' = [pc EXCEPT ![Main] = p] \/ (p = pc[Main] /\ pc' = pc),
         UNCHANGED <<target, starter, signalled, args, status>>
  PROVE  /\ pc' \in [Threads -> Positions] /\ pc'[Main] = p
         /\ \A n \in Children : pc'[n] = pc[n]
         /\ \A n \in Children : status'[n] /\ SpawnInv(n)'
         /\ PlaceInv' /\ Idle' = Idle /\ AllGone' = AllGone
<1> USE ThreadsAssumption
<1>1. /\ pc' \in [Threads -> Positions] /\ pc'[Main] = p
      /\ \A n \in Children : pc'[n] = pc[n]
  BY DEF IInv, TypeOK, Threads, Children, Positions, StubPositions
<1>2. \A n \in Children : status'[n] /\ SpawnInv(n)'
  BY <1>1 DEF IInv, SpawnInv
<1>3. PlaceInv'
  BY <1>1 DEF IInv, PlaceInv, Starting, Starters, Children
<1>4. Idle' = Idle /\ AllGone' = AllGone
  BY <1>1 DEF Idle, AllGone, Deserted, Children
<1> QED BY <1>1, <1>2, <1>3, <1>4

(* fluffyvm_new makes the VM.                                              *)
LEMMA NewVmStep ==
  ASSUME IInv, NEW ok \in BOOLEAN, NewVm(ok), fault' = "none"
  PROVE  IInv'
<1> USE ThreadsAssumption, ComponentsAssumption
<1>1. /\ pc[Main] = "none" /\ pc' = [pc EXCEPT ![Main] = "init"]
      /\ \A n \in Children : pc[n] \in {"none", "free"}
      /\ vm' = TRUE /\ components' = 0 /\ managed' = 1
      /\ shuttingDown' = FALSE /\ pollerStarted' = FALSE
      /\ UNCHANGED <<target, starter, signalled, args, status>>
  BY DEF NewVm, At, Goto, Lose, startVars
<1>2. /\ pc' \in [Threads -> Positions] /\ pc'[Main] = "init"
      /\ \A n \in Children : pc'[n] = pc[n]
      /\ \A n \in Children : status'[n] /\ SpawnInv(n)'
      /\ PlaceInv' /\ Idle' = Idle /\ AllGone' = AllGone
  BY <1>1, MainFrame DEF Starting
<1>3. TypeOK'
  <2>1. components' \in 0 .. NumComponents /\ managed' \in Nat
    BY <1>1
  <2> QED BY <1>1, <1>2, <2>1 DEF IInv, TypeOK
<1>4. PhaseInv'
  <2>1. AllGone
    BY <1>1 DEF AllGone, Gone, Children
  <2> QED BY <1>1, <1>2, <2>1 DEF IInv, PhaseInv, Starting, Children
<1>5. CountInv'
  <2>1. Managed = {}
    BY <1>1 DEF Managed, Alive, Starting
  <2>2. managed = 0
    BY <2>1, FS_EmptySet DEF IInv, CountInv
  <2>3. managed' = managed + 1 /\ ~Counted(Main, pc[Main]) /\ Counted(Main, "init")
    BY <1>1, <2>2 DEF Counted
  <2> QED BY <1>1, <2>3, CountUp DEF IInv, Threads
<1> QED BY <1>2, <1>3, <1>4, <1>5 DEF IInv

(* ... its components one by one, the first that fails ends it ...         *)
LEMMA InitComponentStep ==
  ASSUME IInv, NEW ok \in BOOLEAN, InitComponent(ok)
  PROVE  IInv'
<1> USE ThreadsAssumption, ComponentsAssumption
<1> DEFINE p == IF ok THEN "init" ELSE "cleanup"
<1>1. /\ pc[Main] = "init" /\ p \in {"init", "cleanup"}
      /\ pc' = [pc EXCEPT ![Main] = p] \/ (p = pc[Main] /\ pc' = pc)
      /\ components < NumComponents - 1 /\ components' = components + 1
      /\ p = "cleanup" => shuttingDown' = TRUE
      /\ p = "init" => shuttingDown' = shuttingDown
      /\ UNCHANGED <<vm, managed, pollerStarted, target, starter, signalled, args,
                     status, fault>>
  BY DEF InitComponent, At, Goto, startVars
<1> HIDE DEF p
<1>2. /\ pc' \in [Threads -> Positions] /\ pc'[Main] = p
      /\ \A n \in Children : pc'[n] = pc[n]
      /\ \A n \in Children : status'[n] /\ SpawnInv(n)'
      /\ PlaceInv' /\ Idle' = Idle /\ AllGone' = AllGone
  BY <1>1, MainFrame DEF Starting
<1>3. TypeOK'
  <2>1. components' \in 0 .. NumComponents
    BY <1>1 DEF IInv, TypeOK
  <2>2. shuttingDown' \in BOOLEAN
    BY <1>1 DEF IInv, TypeOK
  <2> QED BY <1>1, <1>2, <2>1, <2>2 DEF IInv, TypeOK
<1>4. PhaseInv'
  BY <1>1, <1>2, PhaseFacts DEF IInv, PhaseInv, TypeOK, Starting, Children, Gone
<1>5. CountInv'
  <2>1. Counted(Main, p) /\ Counted(Main, pc[Main])
    BY <1>1 DEF Counted
  <2>2. CASE pc' = pc
    BY <1>1, <2>2, CountStill DEF IInv
  <2>3. CASE pc' = [pc EXCEPT ![Main] = p]
    BY <1>1, <2>1, <2>3, CountSame DEF IInv, Threads
  <2> QED BY <1>1, <2>2, <2>3
<1> QED BY <1>2, <1>3, <1>4, <1>5 DEF IInv

(* ... and returns.                                                        *)
LEMMA NewVmDoneStep ==
  ASSUME IInv, NewVmDone
  PROVE  IInv'
<1> USE ThreadsAssumption, ComponentsAssumption
<1>1. /\ pc[Main] = "last" /\ pc' = [pc EXCEPT ![Main] = "run"]
      /\ UNCHANGED <<vm, components, managed, shuttingDown, pollerStarted,
                     target, starter, signalled, args, status, fault>>
  BY DEF NewVmDone, At, Goto, vmVars, startVars
<1>2. /\ pc' \in [Threads -> Positions] /\ pc'[Main] = "run"
      /\ \A n \in Children : pc'[n] = pc[n]
      /\ \A n \in Children : status'[n] /\ SpawnInv(n)'
      /\ PlaceInv' /\ Idle' = Idle /\ AllGone' = AllGone
  BY <1>1, MainFrame DEF Starting
<1>3. TypeOK'
  BY <1>1, <1>2 DEF IInv, TypeOK
<1>4. PhaseInv'
  BY <1>1, <1>2 DEF IInv, PhaseInv, Starting, Children
<1>5. CountInv'
  <2>1. Counted(Main, "run") /\ Counted(Main, pc[Main])
    BY <1>1 DEF Counted
  <2> QED BY <1>1, <2>1, CountSame DEF IInv, Threads
<1> QED BY <1>2, <1>3, <1>4, <1>5 DEF IInv

-----------------------------------------------------------------------------
(* What a step of threadStub, which moves one child on, preserves.         *)
(* The rest of the invariant is not touched by such a step.                 *)
LEMMA ChildFrame ==
  ASSUME IInv, NEW n \in Children, NEW p \in StubPositions \cup Gone,
         pc' = [pc EXCEPT ![n] = p], pc[n] \in StubPositions \cup {"free"},
         UNCHANGED <<vm, components, shuttingDown, pollerStarted, target, starter>>,
         p = "test" => target[starter[n]] = n,
         p \in Spawned => pc[n] \in Spawned,
         pc[n] \in Gone => p \in Gone,
         pc[n] = "test" => p = "run",
         pc[n] \in Spawned => p \in {"late", "signal", "test"},
         n = Poller /\ p \notin Spawned \cup {"test", "run"} =>
            shuttingDown /\ p \in Gone \cup {"exit"}
  PROVE  /\ pc' \in [Threads -> Positions]
         /\ \A m \in Children : SpawnInv(m)'
         /\ PlaceInv' /\ PhaseInv'
<1> USE ThreadsAssumption
<1>1. /\ pc' \in [Threads -> Positions] /\ pc'[n] = p /\ pc'[Main] = pc[Main]
      /\ \A m \in Threads \ {n} : pc'[m] = pc[m]
  BY DEF IInv, TypeOK, Threads, Children, Positions, Gone
<1>3. \A m \in Children : SpawnInv(m)'
  <2>1. \A m \in Children : pc'[m] \in Spawned => pc[m] \in Spawned
    BY <1>1 DEF Threads
  <2> QED BY <2>1 DEF IInv, SpawnInv
<1>4. PlaceInv'
  <2>1. p \notin Starting /\ pc[n] \notin Starting
    BY DEF Starting, StubPositions, Gone
  <2>2. \A s \in Starters : target'[s] # NULL <=> pc'[s] \in Starting
    BY <1>1, <2>1 DEF IInv, PlaceInv, Starters, Threads, Children
  <2> QED BY <1>1, <2>2 DEF IInv, PlaceInv, Threads, Children
<1>5. CASE n \in Workers
  <2>1. pc'[Poller] = pc[Poller]
    BY <1>1, <1>5 DEF Threads, Children
  <2>2. Idle => Idle'
    <3> SUFFICES ASSUME Idle, NEW w \in Workers
                 PROVE  pc'[w] \in Gone \/ Deserted(w)'
      BY DEF Idle
    <3>1. CASE w # n
      BY <1>1, <3>1 DEF Idle, Deserted, Threads, Children
    <3>2. CASE w = n /\ pc[n] \in Gone
      BY <1>1, <3>2
    <3>3. CASE w = n /\ Deserted(n)
      <4>1. p # "test" /\ pc[n] \in Spawned
        BY <3>3 DEF Deserted, Spawned
      <4> QED BY <1>1, <3>3, <4>1 DEF Deserted, Spawned
    <3> QED BY <3>1, <3>2, <3>3 DEF Idle
  <2>3. AllGone => AllGone'
    BY <1>1, <1>5 DEF AllGone, Threads, Children
  <2>4. PhaseInv'
    BY <1>1, <2>1, <2>2, <2>3 DEF IInv, PhaseInv
  <2> QED BY <1>1, <1>3, <1>4, <2>4
<1>6. CASE n = Poller
  <2>1. Idle' = Idle /\ AllGone' = AllGone /\ pc'[Poller] = p
    BY <1>1, <1>6 DEF Idle, AllGone, Deserted, Threads, Children
  <2>2. pc[Main] \notin {"none", "init"}
    BY <1>6 DEF IInv, PhaseInv, StubPositions
  <2>3. CASE pc[Main] = "cleanup"
    <3>1. ~(components < NumComponents \/ ~pollerStarted) /\ shuttingDown
      BY <1>6, <2>3 DEF IInv, PhaseInv, StubPositions
    <3>2. Idle \/ p \in Spawned
      <4>1. CASE pc[Poller] \in Spawned
        <5>1. target[Main] = NULL /\ starter[Poller] = Main
          BY <2>3, <4>1 DEF IInv, PlaceInv, SpawnInv, Starting, Starters, Children
        <5>2. p # "test"
          BY <1>6, <5>1
        <5> QED BY <1>6, <4>1, <5>2 DEF Spawned
      <4> QED BY <2>3, <4>1 DEF IInv, PhaseInv
    <3> QED BY <1>1, <1>3, <1>4, <2>1, <2>3, <3>1, <3>2 DEF IInv, PhaseInv, Starting
  <2>4. CASE pc[Main] # "cleanup"
    <3>1. ~shuttingDown
      BY <2>2, <2>4 DEF IInv, PhaseInv, PlaceInv
    <3>2. p \in Spawned \cup {"test", "run"}
      BY <1>6, <3>1
    <3> QED BY <1>1, <1>3, <1>4, <2>1, <2>2, <2>4, <3>2 DEF IInv, PhaseInv, PlaceInv, Starting
  <2> QED BY <2>3, <2>4
<1> QED BY <1>5, <1>6 DEF Children

(* A process that is lost stays as it is.                                  *)
LEMMA LostStep ==
  ASSUME IInv, UNCHANGED <<vmVars, pc, startVars>>, fault' \in
           {"none", "abort", "wild_root", "use_after_free", "double_free"}
  PROVE  IInv'
<1>1. TypeOK'
  BY DEF IInv, TypeOK, vmVars, startVars
<1>2. \A n \in Children : status'[n] /\ SpawnInv(n)'
  BY DEF IInv, SpawnInv, startVars
<1>3. PlaceInv'
  BY DEF IInv, PlaceInv, startVars
<1>4. PhaseInv'
  BY DEF IInv, PhaseInv, Idle, AllGone, Deserted, vmVars, startVars
<1>5. CountInv'
  BY CountStill DEF IInv, vmVars
<1> QED BY <1>1, <1>2, <1>3, <1>4, <1>5 DEF IInv

(* threadStub up to the call of the routine, and after it.                 *)
LEMMA ChildStep ==
  ASSUME ~LateInitFails, IInv, NEW n \in Children,
         \/ InitThread(n) \/ LateInit(n) \/ Signal(n) \/ TestStatus(n)
         \/ EndRoutine(n) \/ CleanThread(n) \/ FreeArgs(n),
         fault' = "none"
  PROVE  IInv'
<1> USE ThreadsAssumption
<1>1. PICK p \in {"late", "signal", "test", "run", "exit", "free", "none"} :
        /\ pc' = [pc EXCEPT ![n] = p]
        /\ p = "late" => pc[n] = "created" /\ managed' = managed + 1
        /\ p = "signal" => pc[n] = "late" /\ managed' = managed
        /\ p = "test" => pc[n] = "signal" /\ managed' = managed
        /\ p = "run" => pc[n] = "test" /\ managed' = managed
        /\ p = "exit" => /\ pc[n] = "run" /\ managed' = managed
                         /\ n = Poller => shuttingDown
        /\ p = "free" => pc[n] = "exit" /\ managed' = managed - 1
        /\ p = "none" => pc[n] = "free" /\ managed' = managed
        /\ UNCHANGED <<vm, components, shuttingDown, pollerStarted, target, starter>>
        /\ status' = status \/ status' = [status EXCEPT ![n] = TRUE]
        /\ args' = args \/ args' = [args EXCEPT ![n] = "freed"]
        /\ p = "test" => target[starter[n]] = n
        /\ \/ signalled' = signalled
           \/ \E b \in BOOLEAN : signalled' = [signalled EXCEPT ![starter[n]] = b]
  <2> USE DEF At, Goto, Lose, vmVars, startVars
  <2>1. CASE InitThread(n)
    BY <2>1 DEF InitThread
  <2>2. CASE LateInit(n)
    BY <2>2 DEF LateInit
  <2>3. CASE Signal(n)
    <3>1. (signalled[starter[n]] \/ pc[starter[n]] = "waiting") \in BOOLEAN
      OBVIOUS
    <3> QED BY <2>3, <3>1 DEF Signal, IInv
  <2>4. CASE TestStatus(n)
    BY <2>4 DEF TestStatus, IInv
  <2>5. CASE EndRoutine(n)
    BY <2>5 DEF EndRoutine
  <2>6. CASE CleanThread(n)
    BY <2>6 DEF CleanThread
  <2>7. CASE FreeArgs(n)
    BY <2>7 DEF FreeArgs
  <2> QED BY <2>1, <2>2, <2>3, <2>4, <2>5, <2>6, <2>7
<1>2. /\ pc' \in [Threads -> Positions]
      /\ \A m \in Children : SpawnInv(m)'
      /\ PlaceInv' /\ PhaseInv'
  <2>1. /\ p \in StubPositions \cup Gone /\ pc[n] \in StubPositions \cup {"free"}
        /\ p \in Spawned => pc[n] \in Spawned
        /\ pc[n] \in Gone => p \in Gone
        /\ pc[n] = "test" => p = "run"
        /\ pc[n] \in Spawned => p \in {"late", "signal", "test"}
    BY <1>1 DEF StubPositions, Gone, Spawned
  <2>2. n = Poller /\ p \notin Spawned \cup {"test", "run"} =>
          shuttingDown /\ p \in Gone \cup {"exit"}
    <3> SUFFICES ASSUME n = Poller, p \in {"exit", "free", "none"} PROVE shuttingDown
      BY <1>1 DEF Spawned, Gone
    <3>1. pc[Poller] \in {"run", "exit", "free"}
      BY <1>1
    <3>2. CASE pc[Poller] = "run"
      BY <1>1, <3>2
    <3>3. CASE pc[Poller] \in {"exit", "free"}
      BY <3>3 DEF IInv, PhaseInv, PlaceInv, Spawned
    <3> QED BY <3>1, <3>2, <3>3
  <2> QED BY <1>1, <2>1, <2>2, ChildFrame
<1>3. TypeOK' /\ CountInv'
  <2>1. CountInv'
    <3>1. n \in Threads /\ n # Main /\ TypeOK /\ CountInv
      BY DEF IInv, Threads, Children
    <3>2. Counted(n, p) <=> p \in {"late", "signal", "test", "run", "exit"}
      BY <1>1, <3>1 DEF Counted, Alive, Starting
    <3>3. Counted(n, pc[n]) <=> pc[n] \in {"late", "signal", "test", "run", "exit"}
      BY <1>1, <3>1 DEF Counted, Alive, Starting
    <3>4. CASE p = "late"
      BY <1>1, <3>1, <3>2, <3>3, <3>4, CountUp
    <3>5. CASE p = "free"
      BY <1>1, <3>1, <3>2, <3>3, <3>5, CountDown
    <3>6. CASE p \notin {"late", "free"}
      BY <1>1, <3>1, <3>2, <3>3, <3>6, CountSame
    <3> QED BY <3>4, <3>5, <3>6
  <2>2. managed' \in Nat
    BY <2>1, FS_CardinalityType DEF CountInv
  <2>3. signalled' \in [Starters -> BOOLEAN]
    BY <1>1 DEF IInv, TypeOK
  <2> QED BY <1>1, <1>2, <2>1, <2>2, <2>3 DEF IInv, TypeOK
<1>4. \A m \in Children : status'[m]
  BY <1>1 DEF IInv, TypeOK
<1> QED BY <1>2, <1>3, <1>4 DEF IInv

-----------------------------------------------------------------------------
(* fluffyvm_start_thread up to pthread_create.                             *)
LEMMA StartCreateStep ==
  ASSUME IInv, NEW s \in Starters, NEW n \in Children, StartCreate(s, n)
  PROVE  IInv'
<1> USE ThreadsAssumption, ComponentsAssumption
<1>1. /\ pc[n] = "none" /\ s # n /\ \A u \in Starters : target[u] # n
      /\ IF n = Poller THEN s = Main /\ pc[s] = "init" ELSE pc[s] = "run"
      /\ components' = IF n = Poller THEN NumComponents ELSE components
      /\ target' = [target EXCEPT ![s] = n]
      /\ starter' = [starter EXCEPT ![n] = s]
      /\ signalled' = [signalled EXCEPT ![s] = FALSE]
      /\ args' = [args EXCEPT ![n] = "live"]
      /\ status' = [status EXCEPT ![n] = TRUE]
      /\ pc' = [pc EXCEPT ![s] = "prewait", ![n] = "created"]
      /\ UNCHANGED <<vm, managed, shuttingDown, pollerStarted, fault>>
  BY DEF StartCreate, MayStart, Children
<1>2. /\ pc' \in [Threads -> Positions] /\ pc'[s] = "prewait" /\ pc'[n] = "created"
      /\ \A t \in Threads \ {s, n} : pc'[t] = pc[t]
      /\ target'[s] = n /\ \A u \in Starters \ {s} : target'[u] = target[u]
      /\ target[s] = NULL /\ n \in Threads /\ s \in Threads
  <2>1. n \in Threads /\ s \in Threads /\ pc[s] \in {"init", "run"}
    BY <1>1 DEF Threads, Starters, Children
  <2>2. target[s] = NULL
    BY <2>1 DEF IInv, PlaceInv, Starting
  <2> QED BY <1>1, <2>1, <2>2
          DEF IInv, TypeOK, Positions, StubPositions
<1>3. TypeOK'
  <2>1. components' \in 0 .. NumComponents
    BY <1>1 DEF IInv, TypeOK
  <2> QED BY <1>1, <1>2, <2>1 DEF IInv, TypeOK
<1>4. ASSUME NEW m \in Children PROVE status'[m] /\ SpawnInv(m)'
  <2>1. status'[m]
    BY <1>1 DEF IInv, TypeOK
  <2>2. CASE m = n
    <3>1. starter'[n] = s
      BY <1>1 DEF IInv, TypeOK
    <3> QED BY <1>1, <2>1, <2>2, <3>1 DEF SpawnInv
  <2>3. CASE m # n
    <3>1. starter'[m] = starter[m] /\ (pc'[m] \in Spawned => pc[m] \in Spawned)
      BY <1>1, <1>2, <2>3 DEF IInv, TypeOK, Spawned, Threads
    <3> QED BY <2>1, <3>1 DEF IInv, SpawnInv
  <2> QED BY <2>2, <2>3
<1>5. PlaceInv'
  <2>1. \A u \in Starters : target'[u] # NULL <=> pc'[u] \in Starting
    <3> SUFFICES ASSUME NEW u \in Starters
                 PROVE  target'[u] # NULL <=> pc'[u] \in Starting
      OBVIOUS
    <3>1. CASE u = s
      BY <1>2, <3>1 DEF Starting, Children
    <3>2. CASE u = n
      <4>1. target[n] = NULL
        BY <1>1, <3>2 DEF IInv, PlaceInv, Starting
      <4> QED BY <1>1, <1>2, <3>2, <4>1 DEF Starting
    <3>3. CASE u # s /\ u # n
      BY <1>2, <3>3 DEF IInv, PlaceInv, Threads, Starters, Children
    <3> QED BY <3>1, <3>2, <3>3
  <2>2. \A w \in Workers : /\ pc'[w] \in StubPositions \cup Gone \cup Starting
                           /\ target'[w] # Poller
    BY <1>1, <1>2 DEF IInv, PlaceInv, Starting, StubPositions, Threads, Starters, Children
  <2>3. /\ pc'[Poller] \in StubPositions \cup Gone
        /\ pc'[Main] \in {"none", "init", "last", "run", "cleanup"} \cup Starting
    BY <1>1, <1>2 DEF IInv, PlaceInv, Starting, StubPositions, Threads, Starters, Children
  <2> QED BY <2>1, <2>2, <2>3 DEF PlaceInv
<1>6. PhaseInv'
  <2>1. CASE n = Poller
    <3>1. AllGone'
      BY <1>1, <1>2, <2>1 DEF IInv, PhaseInv, AllGone, Threads, Children
    <3> QED BY <1>1, <1>2, <2>1, <3>1 DEF IInv, PhaseInv, Starting, Spawned
  <2>2. CASE n # Poller /\ s = Main
    <3>1. pc'[Poller] = pc[Poller]
      BY <1>2, <2>2 DEF Threads, Children
    <3> QED BY <1>1, <1>2, <2>2, <3>1 DEF IInv, PhaseInv, Starting
  <2>3. CASE n # Poller /\ s # Main
    <3>1. pc'[Poller] = pc[Poller] /\ pc'[Main] = pc[Main] /\ target'[Main] = target[Main]
      BY <1>2, <2>3 DEF Threads, Starters, Children
    <3>2. ~Idle
      BY <1>1, <2>3 DEF Idle, Gone, Deserted, Starters
    <3> QED BY <1>1, <2>3, <3>1, <3>2, PhaseFacts DEF IInv, PhaseInv, Starting
  <2> QED BY <2>1, <2>2, <2>3
<1>7. CountInv'
  <2>1. Managed' = Managed
    <3>1. \A m \in Children : pc'[m] \in Alive <=> pc[m] \in Alive
      <4> SUFFICES ASSUME NEW m \in Children
                   PROVE  pc'[m] \in Alive <=> pc[m] \in Alive
        OBVIOUS
      <4>1. CASE m = n
        BY <1>1, <1>2, <4>1 DEF Alive, Starting
      <4>2. CASE m = s
        BY <1>1, <1>2, <4>2 DEF Alive, Starting, Children
      <4> QED BY <1>2, <4>1, <4>2 DEF Threads
    <3>2. pc'[Main] # "none" <=> pc[Main] # "none"
      BY <1>1, <1>2 DEF Threads, Children
    <3> QED BY <3>1, <3>2 DEF Managed
  <2> QED BY <1>1, <2>1 DEF IInv, CountInv
<1> QED BY <1>3, <1>4, <1>5, <1>6, <1>7 DEF IInv

(* A thread that cannot be made: no step, or the end of fluffyvm_new.      *)
LEMMA StartRefusedStep ==
  ASSUME IInv, NEW s \in Starters, NEW n \in Children, StartRefused(s, n)
  PROVE  IInv'
<1> USE ThreadsAssumption, ComponentsAssumption
<1>1. CASE n # Poller
  BY <1>1, LostStep DEF StartRefused, MayStart, vmVars, IInv, TypeOK
<1>2. CASE n = Poller
  <2>1. /\ pc[Main] = "init" /\ pc' = [pc EXCEPT ![Main] = "cleanup"]
        /\ components' = NumComponents /\ shuttingDown' = TRUE
        /\ UNCHANGED <<vm, managed, pollerStarted, target, starter, signalled,
                       args, status, fault>>
    BY <1>2 DEF StartRefused, MayStart, Goto, startVars
  <2>2. /\ pc' \in [Threads -> Positions] /\ pc'[Main] = "cleanup"
        /\ \A m \in Children : pc'[m] = pc[m]
        /\ \A m \in Children : status'[m] /\ SpawnInv(m)'
        /\ PlaceInv' /\ Idle' = Idle /\ AllGone' = AllGone
    BY <2>1, MainFrame DEF Starting
  <2>3. TypeOK'
    BY <2>1, <2>2 DEF IInv, TypeOK
  <2>4. PhaseInv'
    BY <2>1, <2>2, PhaseFacts DEF IInv, PhaseInv, Starting, Children, Gone
  <2>5. CountInv'
    <3>1. Counted(Main, "cleanup") /\ Counted(Main, pc[Main])
      BY <2>1 DEF Counted
    <3> QED BY <2>1, <3>1, CountSame DEF IInv, Threads
  <2> QED BY <2>2, <2>3, <2>4, <2>5 DEF IInv
<1> QED BY <1>1, <1>2

(* The starter waits, is woken by a signal or for no reason, and returns.  *)
LEMMA StarterStep ==
  ASSUME IInv, NEW s \in Starters,
         StartWait(s) \/ Wake(s) \/ StartReturn(s), fault' = "none"
  PROVE  IInv'
<1> USE ThreadsAssumption, ComponentsAssumption
<1>1. target[s] \in Children /\ status[target[s]]
  <2>1. pc[s] \in Starting
    BY DEF StartWait, Wake, StartReturn, At, Starting
  <2> QED BY <2>1 DEF IInv, TypeOK, PlaceInv
<1>2. PICK p \in {"waiting", "woken", "run", "last"} :
        /\ pc' = [pc EXCEPT ![s] = p]
        /\ p = "waiting" => pc[s] = "prewait" /\ target' = target
        /\ p = "woken" => pc[s] = "waiting" /\ target' = target
        /\ p \in {"run", "last"} => /\ pc[s] = "woken"
                                    /\ target' = [target EXCEPT ![s] = NULL]
        /\ p = "run" => target[s] # Poller /\ pollerStarted' = pollerStarted
        /\ p = "last" => target[s] = Poller /\ pollerStarted' = TRUE
        /\ p \in {"waiting", "woken"} => pollerStarted' = pollerStarted
        /\ UNCHANGED <<vm, components, managed, shuttingDown, starter, signalled,
                       args, status, fault>>
  <2> USE DEF At, Goto, Lose, vmVars, startVars
  <2>1. CASE StartWait(s)
    BY <2>1 DEF StartWait
  <2>2. CASE Wake(s)
    BY <2>2 DEF Wake
  <2>3. CASE StartReturn(s)
    <3>1. /\ pc[s] = "woken" /\ target' = [target EXCEPT ![s] = NULL]
          /\ target[s] # Poller => pc' = [pc EXCEPT ![s] = "run"]
          /\ target[s] = Poller => pc' = [pc EXCEPT ![s] = "last"]
          /\ pollerStarted' = (pollerStarted \/ target[s] = Poller)
          /\ shuttingDown' = shuttingDown /\ args' = args
          /\ UNCHANGED <<vm, components, managed, starter, signalled, status, fault>>
      <4> DEFINE n == target[s]
      <4>0. n \in Children /\ status[n]
        BY <1>1
      <4> HIDE DEF n
      <4>1. /\ pc[s] = "woken"
            /\ args'   = [args EXCEPT ![n] = IF status[n] THEN @ ELSE "freed"]
            /\ target' = [target EXCEPT ![s] = NULL]
            /\ pc' = [pc EXCEPT ![s] = IF n # Poller THEN "run"
                                       ELSE IF status[n] THEN "last" ELSE "cleanup"]
            /\ pollerStarted' = (pollerStarted \/ (n = Poller /\ status[n]))
            /\ shuttingDown'  = (shuttingDown \/ (n = Poller /\ ~status[n]))
            /\ UNCHANGED <<vm, components, managed, starter, signalled, status, fault>>
        BY <2>3 DEF StartReturn, n
      <4>2. status[n] = TRUE
        BY <4>0 DEF IInv, TypeOK
      <4>3. shuttingDown' = shuttingDown
        BY <4>1, <4>2 DEF IInv, TypeOK
      <4>4. args' = args
        BY <4>0, <4>1, <4>2 DEF IInv, TypeOK
      <4>5. /\ n # Poller => pc' = [pc EXCEPT ![s] = "run"]
            /\ n = Poller => pc' = [pc EXCEPT ![s] = "last"]
        BY <4>1, <4>2
      <4>6. pollerStarted' = (pollerStarted \/ n = Poller)
        BY <4>1, <4>2
      <4> QED BY <4>1, <4>3, <4>4, <4>5, <4>6 DEF n
    <3>2. CASE target[s] # Poller
      BY <3>1, <3>2 DEF IInv, TypeOK
    <3>3. CASE target[s] = Poller
      BY <3>1, <3>3
    <3> QED BY <3>2, <3>3
  <2> QED BY <2>1, <2>2, <2>3
<1>3. /\ pc' \in [Threads -> Positions] /\ pc'[s] = p /\ pc[s] \in Starting
      /\ \A t \in Threads \ {s} : pc'[t] = pc[t]
      /\ target' \in [Starters -> Children \cup {NULL}]
      /\ \A u \in Starters \ {s} : target'[u] = target[u]
      /\ target'[s] = IF p \in Starting THEN target[s] ELSE NULL
      /\ s \in Threads /\ pollerStarted' \in BOOLEAN
  BY <1>2 DEF IInv, TypeOK, Positions, StubPositions, Threads, Starters, Children, Starting
<1>4. TypeOK'
  BY <1>2, <1>3 DEF IInv, TypeOK
<1>6. ASSUME NEW m \in Children PROVE status'[m] /\ SpawnInv(m)'
  <2>1. pc'[m] \in Spawned => pc[m] \in Spawned
    BY <1>2, <1>3 DEF Spawned, Threads
  <2> QED BY <1>2, <2>1 DEF IInv, SpawnInv
<1>7. PlaceInv'
  <2>1. \A u \in Starters : target'[u] # NULL <=> pc'[u] \in Starting
    BY <1>1, <1>2, <1>3 DEF IInv, PlaceInv, Threads, Starters, Children, Starting
  <2>2. \A w \in Workers : /\ pc'[w] \in StubPositions \cup Gone \cup Starting
                           /\ target'[w] # Poller
    <3> SUFFICES ASSUME NEW w \in Workers
                 PROVE  /\ pc'[w] \in StubPositions \cup Gone \cup Starting
                        /\ target'[w] # Poller
      OBVIOUS
    <3>1. CASE w = s
      BY <1>2, <1>3, <3>1 DEF IInv, PlaceInv, Starting, StubPositions
    <3>2. CASE w # s
      BY <1>3, <3>2 DEF IInv, PlaceInv, Threads, Starters, Children
    <3> QED BY <3>1, <3>2
  <2>3. pc'[Poller] \in StubPositions \cup Gone
    BY <1>3 DEF IInv, PlaceInv, Threads, Starters, Children
  <2>4. pc'[Main] \in {"none", "init", "last", "run", "cleanup"} \cup Starting
    BY <1>2, <1>3 DEF IInv, PlaceInv, Threads, Starters, Children, Starting
  <2> QED BY <2>1, <2>2, <2>3, <2>4 DEF PlaceInv
<1>8. PhaseInv'
  <2>1. pc'[Poller] = pc[Poller]
    BY <1>3 DEF Threads, Starters, Children
  <2>4. /\ Idle => Idle'
        /\ AllGone => AllGone'
    <3>1. ASSUME NEW w \in Workers, pc[w] \in Gone PROVE pc'[w] = pc[w]
      BY <1>3, <3>1 DEF Gone, Starting, Threads, Children
    <3>2. ASSUME NEW w \in Workers, Deserted(w) PROVE Deserted(w)'
      <4>1. pc'[w] = pc[w] /\ starter'[w] = starter[w] /\ starter[w] \in Starters
        BY <1>2, <1>3, <3>2 DEF Deserted, IInv, SpawnInv, Spawned, Starting, Threads, Children
      <4>2. target'[starter[w]] # w
        BY <1>3, <3>2, <4>1, ThreadsAssumption DEF Deserted
      <4> QED BY <3>2, <4>1, <4>2 DEF Deserted
    <3> QED BY <3>1, <3>2 DEF Idle, AllGone
  <2>2. CASE s = Main
    <3>2. target[Main] = Poller /\ p \in {"run", "last"} =>
            pc[Poller] \in Spawned \cup {"test", "run"} /\ AllGone
      BY <1>3, <2>2 DEF IInv, PhaseInv
    <3> QED BY <1>2, <1>3, <2>1, <2>2, <2>4, <3>2 DEF IInv, PhaseInv, Starting
  <2>3. CASE s # Main
    <3>1. pc'[Main] = pc[Main] /\ target'[Main] = target[Main] /\ p # "last"
      BY <1>2, <1>3, <2>3 DEF Threads, Starters, IInv, PlaceInv
    <3>2. ~Idle
      BY <1>3, <2>3 DEF Idle, Gone, Deserted, Starters, Starting
    <3>3. pollerStarted' = pollerStarted
      BY <1>2, <3>1
    <3> QED BY <1>2, <2>1, <3>1, <3>2, <3>3, PhaseFacts DEF IInv, PhaseInv, Starting
  <2> QED BY <2>2, <2>3
<1>9. CountInv'
  <2>1. Counted(s, pc[s]) /\ Counted(s, p)
    BY <1>2, <1>3 DEF Counted, Alive, Starting, IInv, PlaceInv, Starters
  <2> QED BY <1>2, <1>3, <2>1, CountSame DEF IInv
<1> QED BY <1>4, <1>6, <1>7, <1>8, <1>9 DEF IInv

-----------------------------------------------------------------------------
(* fluffyvm_free goes on: the main thread and the poller are all there is, *)
(* and the threads that are not counted yet.                               *)
LEMMA Alone ==
  ASSUME IInv, pc[Main] = "run", managed <= 2, ~Uncounted(Poller)
  PROVE  \A w \in Workers : pc[w] \in Gone \/ Uncounted(w)
<1> USE ThreadsAssumption
<1>1. Main \in Managed /\ Poller \in Managed
  <2>1. target[Main] = NULL
    BY DEF IInv, PlaceInv, Starters, Starting
  <2>2. pc[Poller] # "created"
    BY <2>1 DEF IInv, SpawnInv, Spawned, Children, Uncounted, Deserted
  <2> QED BY <2>2 DEF IInv, PhaseInv, Managed, Children, Alive, Spawned
<1>2. ASSUME NEW w \in Workers, pc[w] \in Alive PROVE FALSE
  <2>1. {Main, Poller, w} \subseteq Managed
    BY <1>1, <1>2 DEF Managed, Children
  <2>2. /\ IsFiniteSet({Main}) /\ Cardinality({Main}) = 1
        /\ Poller \notin {Main} /\ w \notin {Main} \cup {Poller}
    BY FS_Singleton
  <2>3. /\ IsFiniteSet({Main} \cup {Poller})
        /\ Cardinality({Main} \cup {Poller}) = Cardinality({Main}) + 1
    BY <2>2, FS_AddElement
  <2>6. /\ IsFiniteSet({Main} \cup {Poller} \cup {w})
        /\ Cardinality({Main} \cup {Poller} \cup {w})
             = Cardinality({Main} \cup {Poller}) + 1
    BY <2>2, <2>3, FS_AddElement
  <2>4. {Main} \cup {Poller} \cup {w} = {Main, Poller, w}
    OBVIOUS
  <2>5. Cardinality({Main, Poller, w}) <= managed
    BY <2>1, FS_Subset DEF IInv, CountInv
  <2> QED BY <2>2, <2>3, <2>4, <2>5, <2>6 DEF IInv, TypeOK
<1>3. ASSUME NEW w \in Workers, pc[w] = "created" PROVE Uncounted(w)
  <2> SUFFICES ASSUME ~Deserted(w) PROVE FALSE
    BY <1>3 DEF Uncounted
  <2>1. starter[w] \in Starters /\ target[starter[w]] = w
    BY <1>3 DEF IInv, SpawnInv, Spawned, Children, Deserted
  <2>2. pc[starter[w]] \in Starting
    BY <2>1 DEF IInv, PlaceInv
  <2>3. starter[w] \in Workers /\ pc[starter[w]] \in Alive
    BY <2>1, <2>2 DEF Starters, Alive, Starting
  <2> QED BY <2>3, <1>2
<1> QED BY <1>2, <1>3 DEF IInv, PlaceInv, Alive, Starting, StubPositions, Gone

(* Main asks for the end of the VM and waits for the others.                *)
LEMMA FreeVmStep ==
  ASSUME IInv, FreeVm, fault' = "none"
  PROVE  IInv'
<1> USE ThreadsAssumption, ComponentsAssumption
<1>1. /\ pc[Main] = "run" /\ managed <= 2 /\ pc' = [pc EXCEPT ![Main] = "cleanup"]
      /\ shuttingDown' = TRUE
      /\ UNCHANGED <<vm, components, managed, pollerStarted, target, starter,
                     signalled, args, status, fault>>
  BY DEF FreeVm, At, Goto, Lose, startVars, IInv, TypeOK
<1>2. /\ pc' \in [Threads -> Positions] /\ pc'[Main] = "cleanup"
      /\ \A n \in Children : pc'[n] = pc[n]
      /\ \A n \in Children : status'[n] /\ SpawnInv(n)'
      /\ PlaceInv' /\ Idle' = Idle /\ AllGone' = AllGone
  BY <1>1, MainFrame DEF Starting
<1>3. TypeOK'
  BY <1>1, <1>2 DEF IInv, TypeOK
<1>4. PhaseInv'
  <2>1. Idle \/ pc[Poller] \in Spawned
    BY <1>1, Alone DEF Idle, Uncounted, Spawned
  <2> QED BY <1>1, <1>2, <2>1 DEF IInv, PhaseInv, Starting, Children
<1>5. CountInv'
  <2>1. Counted(Main, "cleanup") /\ Counted(Main, pc[Main])
    BY <1>1 DEF Counted
  <2> QED BY <1>1, <2>1, CountSame DEF IInv, Threads
<1> QED BY <1>2, <1>3, <1>4, <1>5 DEF IInv

(* commonCleanup takes one component down, the poller's after joining it.  *)
LEMMA CleanComponentStep ==
  ASSUME IInv, CleanComponent
  PROVE  IInv'
<1> USE ThreadsAssumption, ComponentsAssumption
<1>1. /\ pc[Main] = "cleanup" /\ components > 0 /\ components' = components - 1
      /\ components = NumComponents /\ pollerStarted => pc[Poller] = "none"
      /\ UNCHANGED <<vm, managed, shuttingDown, pollerStarted, pc, target, starter,
                     signalled, args, status, fault>>
  BY DEF CleanComponent, At, startVars
<1>2. components' \in 0 .. NumComponents
  BY <1>1 DEF IInv, TypeOK
<1>3. TypeOK'
  BY <1>1, <1>2 DEF IInv, TypeOK
<1>4. \A n \in Children : status'[n] /\ SpawnInv(n)'
  BY <1>1 DEF IInv, SpawnInv
<1>5. PlaceInv' /\ CountInv'
  BY <1>1, CountStill DEF IInv, PlaceInv
<1>6. PhaseInv'
  <2>1. Idle' = Idle /\ AllGone' = AllGone
    BY <1>1 DEF Idle, AllGone, Deserted
  <2>2. pc[Poller] = "none"
    BY <1>1 DEF IInv, PhaseInv, TypeOK
  <2> QED BY <1>1, <2>1, <2>2 DEF IInv, PhaseInv, Starting, Gone
<1> QED BY <1>3, <1>4, <1>5, <1>6 DEF IInv

(* ... and last the main thread and the VM.                                *)
LEMMA CleanVmStep ==
  ASSUME IInv, CleanVm
  PROVE  IInv'
<1> USE ThreadsAssumption, ComponentsAssumption
<1>1. /\ pc[Main] = "cleanup" /\ components = 0 /\ vm' = FALSE
      /\ managed' = managed - 1 /\ pc' = [pc EXCEPT ![Main] = "none"]
      /\ UNCHANGED <<components, shuttingDown, pollerStarted, target, starter,
                     signalled, args, status, fault>>
  BY DEF CleanVm, At, Goto, startVars
<1>2. /\ pc' \in [Threads -> Positions] /\ pc'[Main] = "none"
      /\ \A n \in Children : pc'[n] = pc[n]
      /\ \A n \in Children : status'[n] /\ SpawnInv(n)'
      /\ PlaceInv' /\ Idle' = Idle /\ AllGone' = AllGone
  BY <1>1, MainFrame DEF Starting
<1>3. CountInv'
  <2>1. ~Counted(Main, "none") /\ Counted(Main, pc[Main])
    BY <1>1 DEF Counted
  <2> QED BY <1>1, <2>1, CountDown DEF IInv, Threads
<1>4. TypeOK'
  <2>1. managed' \in Nat
    BY <1>3, FS_CardinalityType DEF CountInv
  <2> QED BY <1>1, <1>2, <2>1 DEF IInv, TypeOK
<1>5. PhaseInv'
  <2>1. pc[Poller] = "none"
    BY <1>1, ComponentsAssumption DEF IInv, PhaseInv
  <2> QED BY <1>1, <1>2, <2>1 DEF IInv, PhaseInv, Starting, Children, Spawned
<1> QED BY <1>2, <1>3, <1>4, <1>5 DEF IInv

-----------------------------------------------------------------------------
(* The invariant holds of a process that has made no VM yet ...            *)
LEMMA InitInv == ASSUME Init PROVE IInv
<1> USE ThreadsAssumption, ComponentsAssumption
<1>1. TypeOK
  <2>1. 0 \in 0 .. NumComponents /\ 0 \in Nat
    OBVIOUS
  <2>2. pc \in [Threads -> Positions]
    BY DEF Init, Positions
  <2> QED BY <2>1, <2>2 DEF Init, TypeOK
<1>2. \A n \in Children : pc[n] = "none" /\ status[n]
  BY DEF Init, Threads
<1>3. \A n \in Children : status[n] /\ SpawnInv(n)
  BY <1>2 DEF SpawnInv, Spawned
<1>4. pc[Main] = "none" /\ \A s \in Starters : pc[s] = "none" /\ target[s] = NULL
  BY DEF Init, Threads, Starters, Children
<1>5. PlaceInv
  BY <1>2, <1>4 DEF PlaceInv, Starting, Gone, Starters, Children
<1>6. PhaseInv
  BY <1>2, <1>4 DEF Init, PhaseInv, Idle, AllGone, Gone, Starting, Children
<1>7. CountInv
  <2>1. Managed = {}
    BY <1>2, <1>4 DEF Managed, Alive, Starting
  <2> QED BY <2>1, FS_EmptySet DEF CountInv, Init
<1> QED BY <1>1, <1>3, <1>5, <1>6, <1>7 DEF IInv

(* ... and every step of any thread preserves it.                          *)
LEMMA StepInv ==
  ASSUME ~LateInitFails, IInv, [Next]_vars
  PROVE  IInv'
<1>1. CASE UNCHANGED vars
  BY <1>1, LostStep DEF vars, IInv, TypeOK
<1>2. ASSUME NEW how, Lose(how),
             how \in {"abort", "wild_root", "use_after_free", "double_free"}
      PROVE  IInv'
  BY <1>2, LostStep DEF Lose
<1>3. ASSUME NEW ok \in BOOLEAN, NewVm(ok) PROVE IInv'
  <2>1. CASE ok
    <3>1. fault' = "none"
      BY <1>3, <2>1 DEF NewVm, At
    <3> QED BY <1>3, <3>1, NewVmStep
  <2>2. CASE ~ok
    BY <1>2, <1>3, <2>2 DEF NewVm
  <2> QED BY <2>1, <2>2
<1>4. ASSUME FreeVm PROVE IInv'
  <2>1. CASE managed > 2
    BY <1>2, <1>4, <2>1 DEF FreeVm
  <2>2. CASE ~(managed > 2)
    <3>1. fault' = "none"
      BY <1>4, <2>2 DEF FreeVm, At
    <3> QED BY <1>4, <3>1, FreeVmStep
  <2> QED BY <2>1, <2>2
<1>5. ASSUME NEW s \in Starters, StartWait(s) \/ Wake(s) \/ StartReturn(s)
      PROVE  IInv'
  <2>1. fault' = "none" \/ Lose("use_after_free") \/ Lose("double_free")
    BY <1>5 DEF StartWait, Wake, StartReturn, At
  <2> QED BY <1>2, <1>5, <2>1, StarterStep
<1>6. ASSUME NEW n \in Children,
             \/ InitThread(n) \/ LateInit(n) \/ Signal(n) \/ TestStatus(n)
             \/ EndRoutine(n) \/ CleanThread(n) \/ FreeArgs(n)
      PROVE  IInv'
  <2>1. fault' = "none" \/ Lose("use_after_free") \/ Lose("double_free")
    BY <1>6 DEF InitThread, LateInit, Signal, TestStatus, EndRoutine, CleanThread,
                FreeArgs, At
  <2> QED BY <1>2, <1>6, <2>1, ChildStep
<1>7. CASE Program
  <2>1. Workers \subseteq Children
    BY DEF Children
  <2> QED BY <1>3, <1>4, <1>6, <1>7, <2>1, StartCreateStep, StartRefusedStep
          DEF Program
<1>8. ASSUME NEW t \in Threads, Runtime(t) PROVE IInv'
  <2>1. Main \in Starters /\ Poller \in Children
    BY DEF Starters, Children
  <2>2. CASE t = Main /\ \/ \E ok \in BOOLEAN : InitComponent(ok)
                         \/ NewVmDone \/ CleanComponent \/ CleanVm
    BY <2>2, InitComponentStep, NewVmDoneStep, CleanComponentStep, CleanVmStep
  <2>3. CASE StartCreate(Main, Poller) \/ StartRefused(Main, Poller)
    BY <2>1, <2>3, StartCreateStep, StartRefusedStep
  <2>4. CASE t \in Starters /\ (StartWait(t) \/ StartWake(t) \/ StartReturn(t))
    BY <2>4, <1>5 DEF StartWake
  <2>5. CASE t \in Children /\ (InitThread(t) \/ LateInit(t) \/ Signal(t) \/ TestStatus(t))
    BY <2>5, <1>6
  <2>6. CASE t = Poller /\ EndRoutine(t)
    BY <2>1, <2>6, <1>6
  <2>7. CASE t \in Children /\ (CleanThread(t) \/ FreeArgs(t))
    BY <2>7, <1>6
  <2> QED BY <1>8, <2>2, <2>3, <2>4, <2>5, <2>6, <2>7 DEF Runtime
<1>9. ASSUME NEW s \in Starters, SpuriousWake(s) PROVE IInv'
  BY <1>5, <1>9 DEF SpuriousWake
<1> QED BY <1>1, <1>7, <1>8, <1>9 DEF Next

(* The threads of a VM are accounted for as long as no lateInit fails,     *)
(* whether a start waited for its thread or was woken before: the          *)
(* invariant holds of every reachable state.                               *)
THEOREM Inductive == ASSUME ~LateInitFails PROVE Spec => []IInv
<1>1. Init => IInv
  BY InitInv
<1>2. IInv /\ [Next]_vars => IInv'
  BY StepInv
<1> QED BY <1>1, <1>2, PTL DEF Spec

(* Every variable keeps its type; numberOfManagedThreads is never negative.*)
THEOREM TypeCorrect == ASSUME ~LateInitFails PROVE Spec => []TypeOK
<1>1. IInv => TypeOK
  BY DEF IInv
<1> QED BY <1>1, Inductive, PTL

(* A thread in threadStub or fluffyvm_start_thread finds the VM and all of *)
(* its components, however many threads there are and in whatever order    *)
(* they come and go, spurious wakeups included: only the thread whose own  *)
(* starter went on before it signalled may not.                            *)
THEOREM VmOutlives == ASSUME ~LateInitFails PROVE Spec => []VmOutlivesThreads
<1>1. IInv => VmOutlivesThreads
  <2> SUFFICES ASSUME IInv, NEW n \in Children, pc[n] \in StubPositions \cup Starting,
                      ~Deserted(n)
               PROVE  vm /\ components = NumComponents
    BY DEF VmOutlivesThreads, Starting
  <2> USE ThreadsAssumption, ComponentsAssumption
  <2>1. /\ pc[Main] \notin {"none", "init"}
        /\ pc[Main] = "cleanup" => n = Poller \/ pc[Poller] \in Spawned
    BY PhaseFacts
  <2>2. vm
    BY <2>1 DEF IInv, PhaseInv
  <2>3. CASE pc[Main] = "cleanup"
    <3>1. pc[Poller] # "none"
      BY <2>1, <2>3 DEF StubPositions, Starting, Spawned
    <3> QED BY <2>2, <2>3, <3>1 DEF IInv, PhaseInv, TypeOK
  <2>4. CASE pc[Main] # "cleanup"
    BY <2>1, <2>2, <2>4 DEF IInv, PhaseInv, PlaceInv
  <2> QED BY <2>3, <2>4
<1> QED BY <1>1, Inductive, PTL

(* fluffyvm_free gets past its check of numberOfManagedThreads only when   *)
(* every thread the application started is gone, frees the last of what it *)
(* holds, or is not counted yet because its starter did not wait: "more    *)
(* than two" is the right bound for any number of threads that are counted.*)
THEOREM FreeWaits == ASSUME ~LateInitFails PROVE Spec => ShutdownIsAlone
<1>1. IInv /\ [Next]_vars =>
        [shuttingDown' /\ ~shuttingDown /\ pc[Main] = "run" /\ ~Uncounted(Poller) =>
           \A w \in Workers : pc[w] \in {"none", "free"} \/ Uncounted(w)]_vars
  <2> SUFFICES ASSUME IInv, Next, shuttingDown', ~shuttingDown, pc[Main] = "run",
                      ~Uncounted(Poller)
               PROVE  \A w \in Workers : pc[w] \in Gone \/ Uncounted(w)
    BY DEF Gone
  <2> USE ThreadsAssumption
  <2>1. CASE FreeVm
    <3>1. managed \in Nat /\ ~(managed > 2)
      BY <2>1 DEF FreeVm, Lose, vmVars, IInv, TypeOK
    <3> QED BY <3>1, Alone
  <2>2. CASE Program /\ ~FreeVm
    BY <2>2 DEF Program, NewVm, StartCreate, StartRefused, EndRoutine, MayStart, At,
                Lose, vmVars
  <2>3. ASSUME NEW t \in Threads, Runtime(t) PROVE FALSE
    <3>1. CASE t \in Starters /\ StartReturn(t)
      <4>1. target[t] # Poller
        BY <3>1 DEF StartReturn, At, IInv, PhaseInv, PlaceInv, Starting, Starters
      <4> QED BY <3>1, <4>1 DEF StartReturn, Lose, vmVars
    <3> QED BY <2>3, <3>1
            DEF Runtime, InitComponent, NewVmDone, StartCreate, StartRefused, MayStart,
                CleanComponent, CleanVm, StartWait, StartWake, Wake, InitThread, LateInit,
                Signal, TestStatus, EndRoutine, CleanThread, FreeArgs, At, Lose, vmVars
  <2>4. ~ \E s \in Starters : SpuriousWake(s)
    BY DEF SpuriousWake, Wake, vmVars
  <2> QED BY <2>1, <2>2, <2>3, <2>4 DEF Next
<1> QED BY <1>1, Inductive, PTL DEF Spec, ShutdownIsAlone
==============================================================================
