# FluffyVM: specifications and proofs

FluffyVM is a register-based virtual machine for Lua-like bytecode, written in C
with Clang blocks and POSIX threads, on top of the FoxGC collector (a submodule
whose directory is empty in this repository). This directory models coroutines on
`ucontext` fibers, threads that come and go with the VM, call stacks that errors unwind
while other threads look at them, the hash table under its lock, values and their
arithmetic, the bytecode interpreter with the Lua C API on top of it, the bytecode
loader, the blocking queue and the parallel foreach. The modules are checked by TLC, and their safety properties are
proved with TLAPS for any number of threads, coroutines, programs, frames, keys,
documents and workers. Six of the twelve runs pass; the other six show
where the code departs from what it says of itself, with the findings in
`PROJECT.json`.

## 1. Inventory of the system

| Component (source) | State | Operations | Interacts with | Hard behaviour | Correct when |
|---|---|---|---|---|---|
| Fibers (`fiber.c`) | `state`, two saved contexts, a malloc'd C stack | `fiber_new`, `fiber_resume`, `fiber_yield`, `fiber_free`, `entryPoint` | coroutines | the atomic state and the context switch it announces are two steps; the C stack is freed by whoever finds the fiber dead | no context is entered twice, no C stack is used after free, control is nested |
| Coroutines (`coroutine.c`) | fiber, call stack, flags | new, resume, yield, allow/disallow yield, iterate | fibers, nesting, interpreter | refused resumes, full stacks, errors thrown across frames | verdicts are true, the executing coroutine is the running one |
| Coroutine nesting (`fluffyvm.c`, `stack.c`) | a stack per thread | push, pop, peek | coroutines, every API call (it finds "the" coroutine here) | overflow at `FLUFFYVM_MAX_COROUTINE_NEST` | its top is the flow that runs |
| Call stack and protected calls (`coroutine.c`, `interpreter.c`) | frames, `currentCallState`, `errorHandler`, `callStackLock` | prolog, epilog, xpcall, error, iterate | interpreter, observers in other threads | `longjmp` past frames, unwinding, error paths that hold the lock | frames agree with the functions in progress, errors go to the innermost handler, iteration sees one stack |
| VM lifecycle and threads (`fluffyvm.c`) | component count, thread count, shutdown flag, thread arguments | new, free, start_thread, threadStub | every component, poller | start-up handshake on a condition variable, partial initialisation, shutdown with threads alive | threads never outlive the VM, shutdown ends, starting returns |
| Error slot, global table (`fluffyvm.c`) | per-thread value; value under an rwlock | set, get, clear | all | GC roots kept in step with the slot | the slot keeps its value alive |
| Interpreter (`interpreter.c`) | value stack, registers, flags, pc of a frame | exec, call, push, pop | call stack, values | argument and result windows, condition flags, skipped instructions | a call leaves its caller's stack as the calling convention says |
| Hash table (`hashtable.c`) | buckets of chains, usage, a rwlock | set, get, get2, remove, next, resize | values, collector | resize in the middle of a set, values freed while used, chains that are never made | behaves as a finite map (`get2` does not, and two keys of a bucket lose the process), iterations are complete |
| Values, closures (`value.c`, `closure.c`) | immutable after construction | conversions, arithmetic, hashing, equality, order | all | doubles ordered by their bits, four routes to "is a number" | questions agree with conversions, comparisons with numbers |
| Bytecode objects, JSON loader (`bytecode.c`, `loader/bytecode/json.c`) | the global `cjson_lock`, objects and roots | load | collector, error slot | any allocation may fail, at any nesting depth; the collector runs in between | locks, memory and roots are given back, failures explained |
| Blocking queue (`collections/queue.c`) | items, two condition variables | enqueue, remove | (no caller) | waits without a loop, signals after unlock | bounded but for late and spurious wakeups, no signal lost |
| Parallel foreach (`util/functional/foreach.c`) | iterator under a mutex, a stop flag | `foreach_parallel_do` | (no caller) | workers race for items, one refusal stops all | every item at most once, a true verdict |
| Reference counter (`ref_counter.c`) | a counter | inc, dec | string cache (calls commented out) | - | not modelled: never changes |
| String cache (`string_cache.c`) | (disabled: allocator pass-through, a poll that sleeps) | create, poll | poller thread | - | - |
| Lua API (`api_layer/lua54.c`) | none of its own | `lua_resume`, `lua_xmove`, `lua_call`, `lua_rotate`, ... | coroutines, interpreter, values, tables | ignores results of lower layers, works on other coroutines' stacks | results mean what Lua says, sound programs do not lose the process |
| Bootloader, driver programs, most utilities, vendored parsers, assembler, FoxGC | - | - | - | - | not modelled: generated, demonstration, third-party or absent code |

`PROJECT.json` lists every component with what is modelled of it and why the rest
is not, and under `hazards` every place known to be hard to test, with the
properties that guard it.

## 2. Modules

### `Coroutine` (fibers, coroutines, nesting)

A *flow* is a C stack with the code on it: one per OS thread (its native
coroutine) and one per coroutine. `on[t]` is the flow thread `t` executes, and
`pc[f]` where flow `f` is.

| Variables | Code |
|---|---|
| `fstate`, `resumeCtx`, `suspendCtx`, `cstack` | `fiber->state`, the two `ucontext_t` (whose flow they hold), `uc_stack.ss_sp` |
| `frames`, `hasError`, `yieldable` | `callStack->sp`, `hasError`, `isYieldable` |
| `nest`, `sp` | the thread's `coroutinesStack` |
| `arg`, `prev`, `ret` | locals and result of `coroutine_resume`, `fiber_resume`, `coroutine_yield` |
| `holder` | external: the thread the application lets resume a coroutine |
| `fault` | how the process was lost (an abort of the runtime, undefined behaviour) |

`coroutine_resume` is `ResumePush`/`ResumeOverflow`, `ResumeRead`, `ResumeCas` or
`ResumeRefused`, `SwitchIn`, and back in the resumer `ResumeBack`, `FreeStack`,
`ClearStack` (with `Finish`). `coroutine_yield` is `Yield` or `YieldRefused`, then
`YieldSwitch`. The end of a body is `Return` or `Throw`, then `MarkDead` and
`ExitSwitch` of `entryPoint`. `Create`, `SetYieldable` and `Collect` are one step
each. A step ends wherever another thread can see or change what it works on: the
read of the state, the compare-and-swap and the `swapcontext` are three steps.
What a body computes is left out; in position `run` it may make any call of the
API, return or throw.

Undefined behaviour is an explicit outcome (`fault`) and ends the behaviour.

Two constants describe the application. `Shared = FALSE`: a coroutine is used by
the thread that created it until it is handed over (`Handover`, with the
synchronisation that takes); `TRUE`: any thread resumes any coroutine.
`CreateWhenFull`: whether `coroutine_new` is called at the nesting limit.

### `LuaCoroutine` (what the runtime promises)

Chains of nested coroutines without fibers, contexts or locks: resume lengthens a
thread's chain, yield and end shorten it, each in one step. `Coroutine` implements
it (`Implements`) under the mapping that counts a resume when control switches,
not when the target is pushed: `Depth` leaves out the push of a resume in
progress, and a coroutine is "running" exactly while it is nested. A yield takes
effect at `YieldSwitch`, an end at `ExitSwitch`, although the fiber's state says so
earlier - that gap is where the hazards are.

### `CallStack` (frames, protected calls, observers)

The "run" position of `Coroutine` in detail, for one coroutine. `callStack` is what
other threads see; `activations` is the C stack: one entry per running
`interpreter_exec` and per `interpreter_xpcall`; `errorHandler` is an index into it.
`Call`, `CallFill`, `CallEnter` and `CallUnallocated` are
`coroutine_function_prolog` (split where the frame is visible before it is
complete); `Return` and `End` the epilog; `Protect`, `Unprotect`, `HandlerDone`
and `Unwind` are `interpreter_xpcall`; `Throw` is `interpreter_error`: `longjmp` cuts
`activations` and leaves `callStack` alone. `IterateBegin`, `Visit` and `IterateEnd`
are `coroutine_iterate_call_stack`. A critical section that no other thread can
look into is one step; `Visit` is a step of its own because it calls a consumer.
`CallWhenFull` and `LateAllocFails` choose whether a body calls at the depth limit
and whether the prolog's later allocations may fail. When they do
(`CallUnallocated`), the prolog pops its frame without the lock (181-182), perhaps
under an observer that iterates: `IterationIsStable` admits the loss of that one
frame, by that step, and no other change.

### `VmLifecycle` (VM and managed threads)

`NewVm`, `InitComponent`, `NewVmDone` are `fluffyvm_new`; `StartCreate` ...
`StartReturn` are `fluffyvm_start_thread`. `StartWait` and `Wake` are the two sides of
`pthread_cond_wait`, which remembers no signal sent before it and stands in no loop
(483-485): the starter goes on after a signal (`StartWake`) or for no reason
(`SpuriousWake`), in the second case perhaps before the new thread was counted. Such a
thread is `Deserted` until it signals, and `Uncounted` until `initThread`; what it does
in a VM that is gone is fault `use_after_free`. The two invariants except exactly it.
`InitThread` ... `FreeArgs` are `threadStub`; `FreeVm`, `CleanComponent`, `CleanVm` are
`fluffyvm_free` and `commonCleanup`. The components before the poller only succeed
or fail; the poller is the last of `COMPONENTS` and starts a thread.

### `Values` (value.c)

Values are pairs `<<type, data>>`; construction, hashing, equality, conversions,
type names, arithmetic (`Math`, longs wrap at `LongMax`) and the order that CMP
uses are operators. An operation that may fail has an outcome: `Ok`, `Fail` with a
message, or `Crash`. Text is a format and its argument, since the code compares and
concatenates formatted strings and no property looks inside them. `Hash`, `Strtod`
and `DoubleArith` are constants: the hash function, strtod and floating point. A double is a
sign and the bits of its magnitude, so that `Bits` and `IsLess` give the code's answer for
two negative numbers and for negative zero. `Magnitude` says what number the bits mean and
`Nearest` which bits are nearest to a number (`DoubleAssumption`): `ToDouble` casts a long to
the nearest double (value.c:551), which keeps it up to `MaxExact` (2^53) and may round it beyond.

### `Hashtable` and `Dictionary` (hashtable.c)

`hashtable_set` takes the write lock (`SetBegin`), doubles the capacity (`Resize`),
moves the pairs (`WriteTable`) and stores the new one (`Insert`), each a step,
because the collector (`Collect`) runs between them; the lock keeps everybody else
out. `ReadBegin` takes the read lock for `Get`, `Get2` and `NextKey`. `RemoveKey` is one
critical section in which nothing is allocated. `answer` and `rooted` are what a call
returned and whether it made a root for it; `freed` is what the collector took.
Memory that runs out in `set_entry` goes unnoticed (line 264): `InsertLost`.

`pair_write_next` (88) follows the pair it was given instead of the one it writes,
so a second key in a bucket loses the process, always (`null_pair`). Keys with the
same bytes, such as long 0 and double 0.0, have the same hash and so meet at any
capacity; positive and negative zero are equal keys with different hashes.

`Dictionary` is what a table is for: a finite map with calls that are answered in one step;
nothing in it ends the process. Memory that runs out may refuse a set, or lose a new key.
`Dictionary` has two specifications: in `Spec`, a lookup by characters (`get2`) answers as
`get` does; in `SpecButGet2` it may answer anything. `Hashtable` implements `SpecButGet2`
(`Implements`) as long as the process lasts: the map is read off the pairs at every moment,
so resizing must be invisible. It does not implement `Spec` (`IsLikeLuas`, run
`hashtable_get2`), as the comparison of `hashtable_get2` is true when characters differ (351).
That the process lasts only while no two keys share a bucket is `LostOnlyToCollision`.

### `Interpreter` and `LuaApi` (interpreter.c, lua54.c)

One native thread with coroutines nested in each other (`nest`, `status`, `thrown`:
what `Coroutine` shows to be right is used here in one step each). `frames[c]` is the
call stack of coroutine `c`: value stack, registers, flags, pc, and in `call` how the
results go back. Each instruction is an action named after it; `Skip` is one whose
condition does not hold, `Unreadable` one that names a register that was never
written or does not exist. `Enter`, `CallAt` and `Results` are the windows of
`interpreter_exec`, `interpreter_call` and the CALL instruction.

A native function is any sequence of API calls that its program allows, then a
return. What a function does to one stack is an operator (`Pushed`, `Rotated`,
`Stringified`, ...) which its action applies to the stack of a coroutine; errors end
the executing coroutine, whosever stack it was (`lua_pop` has emptied it by then: `Pop`).
`lua_type` and the `lua_is...` take most indices that are none for LUA_TNONE, the
`lua_to...` fail (`Asked`). `NewThread`, `Resume`, `Trampoline`,
`Yield` and `XMove` are the coroutine functions: `lua_resume` pushes two values before it
knows whether it is refused (they stay), and the trampoline takes them off again.
A program marked `sound` has code that keeps to `SoundCode` (`SoundAssumption`, which TLC
evaluates for the programs of the run): every instruction names registers and nested
prototypes there are and none divides, and the first instruction of a prototype has no
condition. Its natives work on their own stacks (`~remote`); that they give true counts
and leave finished coroutines alone is a guard of `NativeCall`, `Resume` and `XMove`. Jumps,
constants, CALL operands, indices and sizes are not restricted: the code checks them.

A table is a function here, as `Dictionary` promises, but a step that writes one may
also lose the process (fault `collision`): `MayCollide` lets any two keys share a bucket, the
one that is written and another, or two that a resize moves. Two more ends have
no guard in the code: `lua_newthread` without memory pushes a null coroutine
(value.c:311-317 never reports it; fault `out_of_memory`), and at the nesting limit it takes its caller off
`coroutinesStack` (fault `caller_popped`; `Coroutine` tells what follows).

Found while translating, and modelled as it is: `lua_xmove` to a coroutine that
runs or resumes another always raises; a returned coroutine has a null
`currentCallState`; a table of length 0 cannot be made; `lua_pushcfunction` and
`lua_pushglobaltable` on a new thread's stack abort, since the trampoline has no
environment; failures of TABLE_SET are ignored; all results of a call are as many
as the callee's stack is high; of the reserved registers only 0xFF00 takes writes.

### `Loader` (json.c, bytecode.c)

A load goes from one allocation to the next (`load.task`), in the order that the
document determines: `AfterPart` (JSON to the ProtoBuf message, under `cjson_lock`) and
`AfterObject` (the message to collected objects). A document is the list of its
constants and the set of the paths of its nested prototypes. `Translate` and
`Construct` do the current allocation, `TranslateFails`, `PackFails` and `ConstructFails`
are its own error path; `built`, `linked` and `rooted` are the objects, those that a
field refers to and those with a root. `Chain(o)` is what leads to object `o`. `Validate` refuses the four kinds of documents
that the checks distinguish, and any document for which the parser has no memory: cJSON
returns NULL for both, and the code reports "Error parsing" (json.c:213-216).
`CallsCleanUp` names the two exits that do not clean up: a document that was not
parsed keeps the lock (json.c:382), and a nested prototype that cannot be allocated
leaks its ancestors (165). `FailureIsExplained` says which message a failure leaves: a
refused document is blamed, and a good one only in the three places that take a lack
of memory for a fault of the data (the parser, protobuf's unpack, a string constant).
Two allocations crash the process when they fail (a
constant, 304; a prototype's source name, bytecode.c:138).

### `Queue` and `Foreach`

`Enqueue` and `Dequeue` are critical sections, `Signal` the signal after the unlock. A
thread that was woken does not test the condition again, so a late or spurious
wakeup overfills the queue or takes a NULL node (`null_node`; one producer and one
consumer suffice). `list_node_new` may return NULL (`NodesMayFail`), which is counted all
the same (queue.c:34-35): `listLen`, the nodes in the list, falls behind
`itemsInQueue`. `Foreach`: `Ask` and `Supplied` are `safeSupplier` around its mutex;
`Consume`, `TestStop` and `Stop` the worker's loop. Neither has a caller in the
repository that runs; the specifications are of the functions as they stand.

### Modules that TLC runs

`MCCoroutine`, `MCCallStack` and `MCVmLifecycle` (the first two add the symmetry sets);
`MCHashtable` gives keys, values and a hash; `MCLuaApi` gives the programs;
`MCSupport` extends `Loader`, `Queue` and `Foreach`, which share nothing, and runs them
one at a time (`part`).

### Modules of proofs

`CoroutineProofs`, `CallStackProofs`, `VmLifecycleProofs`, `HashtableProofs`,
`LuaApiProofs`, `LoaderProofs`, `QueueProofs` and `ForeachProofs` hold the theorems:
section 4.

### Operators that end in a bug's name

Definitions under a comment that begins with "Variant" are mutated forms of the
definition that follows. They are no part of any specification: replacing the
definition by its variant must make the property named in `PROJECT.json`
`mutants` fail, which shows that the property depends on that piece of code.

## 3. Runs

| Run | Bounds | What it shows |
|---|---|---|
| `coroutine_confined` | 2 threads, 2 coroutines, nesting 3, symmetry | 708,672 states. No schedule ends in a fault; the top of `coroutinesStack` is the flow that runs; no flow is executed or nested twice; C stacks are freed once, by the resume the coroutine ended in; a refusal tells the truth; control moves one level at a time; `LuaCoroutine` is implemented |
| `coroutine_shared` (violation) | `Shared = TRUE` | a thread that comes back from its resume finds the fiber dead, by the end of another thread's resume, and frees the C stack on which that thread still is |
| `coroutine_create_at_limit` (violation) | `CreateWhenFull = TRUE`, nesting 2 | `coroutine_new` ignores that its push failed and pops the caller |
| `call_stack` | 6 frames, depth 5, 3 protected calls, 2 observers; memory may run out in a prolog | 165,846 states. Errors reach the innermost protected call in progress and never a dead jump buffer; it returns in its caller's frame; observers see the frames of the functions in progress, unchanged during an iteration but for the one frame a prolog out of memory gives up |
| `call_stack_overflow` (violation) | `CallWhenFull = TRUE` | the prolog keeps `callStackLock` on overflow, and the unwinding waits for its own thread |
| `vm_lifecycle` | 2 workers, 3 components, spurious wakeups, fairness | 68,680 states. Threads find the VM whole and a shutdown begins alone, but for a thread whose starter was woken spuriously; a shutdown ends |
| `hashtable` | 2 threads; keys long 1, long 4, double 4, a string; capacities 0, 1, 3, 4; 3 sets; memory may run out | 165,404 states. Each call but `get2` answers as if it had a map for itself; a table is lost only to keys that share a bucket; used values are alive; iterations between writes are complete; the length is never too small |
| `hashtable_get2` (violation) | as `hashtable` | a lookup by the characters of a key that is there finds nothing |
| `lua_machine` | about 12,300 programs; stack 5, 2 registers, depth 3, nesting 3, 3 coroutines, longs of 4 bits, doubles of 2 significant bits | 676,891 states. Calls return what the code's windows say into the right place; a coroutine's function gets its arguments; flags, questions and conversions agree with the values, longs rounded where a double cannot hold them; moves keep order; the dead know why; sound programs end only by errors, for want of memory, by a collision or at the nesting limit |
| `support` | 2 loading threads, 6 documents; queues of 1 and 2, up to 2 + 2 threads, 1 spurious wakeup, nodes may fail; up to 3 workers on 3 items, any set refused | 65,896 states. Loads clean up but for two exits, hold what they build and leave the message their failure explains; a queue is overfilled by no more than its late threads, and no signal is lost; foreach's verdict is true |
| `vm_start_hangs` (violation) | fairness | the new thread's signal can come before the starter waits, and is lost |
| `vm_late_init_failure` (violation) | `LateInitFails = TRUE` | a failed poller start frees the VM under the poller |

**Why these bounds.** Two threads are needed for every race found, and a step
of the coroutine runtime involves at most a resumer, its target and a competing
thread. With two coroutines and nesting three, a coroutine resumes another, itself
or its resumer, and overflows are reached; names of collected coroutines are
reused, so lifetimes repeat. What passes in this run, and in those of the call
stack, the VM, the table and the supporting parts, is moreover proved for all
values (section 4), liveness excepted. In `CallStack`, three nested protected calls allow an error in a
handler inside a protected call inside another; depth five leaves frames between
each of them. In `VmLifecycle` workers start workers, and their names are reused.

The keys of `hashtable` are chosen for what they share: long 4 and double 4 have the
same bytes and one hash, so they meet at every capacity; the other keys only at small
ones. Three sets double a table up to three times (load 3/4), so that keys move
and iterations restart. `lua_machine` starts in every program of five families: all
straight-line codes of two instructions (and of three that affect control) over the pairs
of operands (among them a long that no double holds); a caller with every CALL operand 0 to 3 and five kinds of callees, found as a
prototype or in the table; native functions that make up to three calls with seven
values and six indices; natives on coroutines with up to seven calls, enough for
create, fill, move, resume, yield and resume again; and coroutines nested up to the limit.
Doubles are 0, 1, 2, 3, 4, 6, 8 and 12 with a sign, so that 5 and 7 are rounded, to 4 and 8,
and `MaxExact` is 4. A stack of five is the least in
which `lua_resume`, which here wants room for two, can be refused or succeed; with
`ResumeRoom` and `StackSize` scaled together the same comparisons decide as in the
code. The documents of `support` nest prototypes twice and put two side by side.

**Symmetry** is used for safety properties only.

**Fairness.** `FairSpec` of `VmLifecycle` assumes weak fairness of each thread's
`Runtime` steps, not of spurious wakeups: the code between two decisions of the application
has no unbounded loop, so all it needs is an operating system that runs every
thread. Nothing is assumed of bodies and routines, which may run for ever. The
exception is the poller, whose routine is the VM's own and tests `shuttingDown`
every half second. No fairness is assumed of mutexes.

**Deadlock** is checked in the coroutine runs that pass. `VmLifecycle` may end
(an abort, or the VM that could not be made), and so may `CallStack` (a fault), so
their configurations switch the check off. So do the last three: a table or a machine
may be lost, programs and workers end, and the threads of a queue may all sleep.

**Disagreements with the documentation** that a passing run shows are findings too, as the
properties say what the code does: a second key in a bucket loses the process
(`LostOnlyToCollision`), and a call that wants all results gets as many as the callee's
stack is high, not as many as were returned (`CallReturns`; `opcodes.txt` 57, 64).

The faults `use_after_free` and `double_free` of `VmLifecycle` (a short routine
frees its arguments before the starter reads them; a deserted thread enters a VM that is
gone; a failed thread frees its arguments twice) and `unset_closure` of `CallStack` (an observer meets a frame whose closure
is not set yet) are reachable in the models as they are in the code; they are
listed as hazards, and the invariants of these runs are about the other states.

## 4. What is proved

The theorems hold for every value of the constants that satisfies the named
assumptions of the modules: any number of threads, coroutines, frames, keys,
documents, workers; the runs of section 3 check the same properties on small
instances. A hypothesis in the statement of a theorem (`ASSUME ... PROVE`) is what
the application, or the environment, must keep to; the run named with it shows
what happens otherwise. Each module of proofs has an inductive invariant `IInv` and
a theorem `Inductive` (`Spec => []IInv`), with one lemma per action; TLC checked
each `IInv` on the runs' instances before it was proved (that of
`LuaApi` on samples of each family of the run's programs).

| Module | Hypothesis | Theorems and the properties they state |
|---|---|---|
| `CoroutineProofs` | `Discipline`: coroutines are handed over before another thread uses them (else `coroutine_shared`), and none is created at the nesting limit (else `coroutine_create_at_limit`) | `TypeCorrect` (`TypeOK`), `NoFaults` (`NoFault`), `ExecutingRuns` (`ExecutingIsRunning`), `FlowsAreApart` (`OneThreadPerFlow`), `StacksAreReclaimed` (`StacksReclaimed`), `Refinement` (`Implements`), `ControlNests` (`ControlIsNested`), `VerdictsHold` (`VerdictsAreTrue`), `FreedStackIsUnused` (what `coroutine_shared` finds violated) |
| `CallStackProofs` | `Discipline`: no call at the depth limit (else `call_stack_overflow`) | `TypeCorrect`, `ErrorsJumpRight` (`JumpsToInnermost`), `TraceHolds` (`TraceIsTrue`), `RunsOnTop` (`CurrentIsTop`), `XpcallReturns` (`XpcallReturnsToCaller`), `ObserversSeeOneStack` (`IterationIsStable`), `TraceNamesCalls` |
| `VmLifecycleProofs` | `~LateInitFails` (else `vm_late_init_failure`) | `TypeCorrect`, `VmOutlives` (`VmOutlivesThreads`), `FreeWaits` (`ShutdownIsAlone`) |
| `HashtableProofs` | none | `TypeCorrect`, `ValuesLive` (`UsedValuesAreAlive`), `LossNeedsCollision` (`LostOnlyToCollision`), `LengthBounds` (`LengthIsUpperBound`), `IterationCompletes` (`IterationIsComplete`), `Refinement` (`Implements`) |
| `LuaApiProofs` | none | `TypeCorrect` (`TypeOK`), `EndsAreTold` (`DeadKnowsWhy`), `CallsReturnRight` (`CallReturns`), `MainStartsRight` (`MainGetsArguments`), `MovesKeep` (`MovesKeepOrder`), `QuestionsAgree` (`QueriesAgree`), `SoundSurvives` (`SoundProgramsSurvive`), `ComparisonsHold` (`ComparisonsAreTrue`) |
| `LoaderProofs` | none | `TypeCorrect`, `CleansUp` (`CallsCleanUp`), `NothingIsLoose` (`BuiltIsHeld`), `Explanation` (`FailureIsExplained`) |
| `QueueProofs` | none | `OverfillBound` (`OverfillIsBounded`), `NoSignalLost` (`NoneSleepsInVain`) |
| `ForeachProofs` | none | `VerdictHolds` (`VerdictIsTrue`) |

None of the properties is inductive alone. What the invariants add, and along
which argument they are kept:

**Coroutines.** That a resume never enters a stale context depends on where the
flow was left, that on who may resume it, and that on what is nested where. `IInv`
has three conjuncts besides the types. `ChainInv(t)`: a thread's nesting is its own
flow followed by coroutines it holds, each resumed by the one below, which waits
for it (`suspendCtx` and `arg` agree with the nesting), without repetition, and the
last is what it executes. `ResumeInv(t)`: what the flow in a resume knows of its
target at each position. `FlowInv(c)`: state, contexts, C stack and frames of a
coroutine agree with its position, and an active flow is nested somewhere. Since a
coroutine is nested only under its holder (`Apart`), a step of a thread touches only
its `Own` flows, and `Frame`, `OwnApart` and `FlowFrame` carry the invariant over for
all others.

**The refinement of `LuaCoroutine`** rests on the same invariant: `AbstractFacts` reads
the abstract chain and status off the flows' positions. `ResumePush`, the reads and
refusals are stutters (`Unseen`); `SwitchIn` is the abstract resume, `YieldSwitch` the
yield, `ExitSwitch` the end, `Create` and `Collect` their namesakes.

**Call stack.** `activations` and `callStack` are two stacks that `longjmp` pulls apart.
`ChainInv`: `errorHandler` and every saved `prevErrorHandler` name the next protected
call below, so that cutting the C stack at one leaves a chain. `HeightInv`: the
position of each activation's frame (`Height`) grows by one per call and not
otherwise, but for an activation above one that handles an error, where the frames
are that the error abandoned. `NamedInv` says that below the first handler there are
no others, and `ViewInv` that only an observer holds the lock between two steps. A prolog
that ran out of memory pops its own frame and throws; an observer that was iterating then
has one place more to visit than there are frames, and the lock keeps it at one: before
the next call or return can change the stack it must be given back.
`TraceIsTrue` says by positions that the stack is the sequence of the functions'
frames, as an equation of sequences would need induction to be reasoned about.

**VM.** `CountInv`: `numberOfManagedThreads` is the cardinality of `Managed`, the main
thread and the children between `initThread` and `cleanThread`. `SpawnInv`: a new
thread's starter waits until it was signalled, so a starter's place in the count
covers its child; or the starter has gone on without it, and the thread is `Deserted`.
`PhaseInv`: what exists in each phase of the main thread.
Hence when the count is down to one nobody else is between entry and exit; a thread that
is not counted yet is deserted, or covered by its starter. No new VM is made while such a
thread is on its way, so that it cannot meet the wrong one.

**Hash table.** `pair_write_next` loses the process at the second key of a bucket, so
in every state that goes on a chain holds one pair (`BucketInv`); during a resize the
keys are in their old buckets and apart in the new array (`Apart`). With `SeenInv` (an
undisturbed iteration has met the keys of the buckets up to its own: `UpTo`) and
`CountInv` the properties follow. `Refinement` maps a table to the function `DictOf` its
pairs are; resizing keeps it, and a step that loses the process leaves it as it was.
`hashtable_get2` answers the value of another string with the same hash code, or nothing,
so the theorem is about `SpecButGet2`.

**Interpreter and Lua API.** These theorems are about all programs that
`ProgramsAssumption` admits: any number of prototypes, each a sequence of any decoded
instructions with any operands (out of range, too); constants and values of the native
functions that are present and no heap objects, globals that are such values or the
native function 4; any indices and counts, also negative ones. Arithmetic on doubles
(`DoubleArith`) and the bits a `JMP` reads without initialization (`Junk`) are any.
What a call gives back cannot be shown from the top of the stack alone: between call
and return the callee runs anything. So each frame carries as a ghost the part of its
caller's stack that lies below the function (`call.below`), and `FramesInv` keeps it
`Linked`, equal to the beginning of the caller's stack as it is now: only the innermost
call of a coroutine changes its stack, also when another coroutine reaches into it.
`HeapInv`: environments, table entries and therefore all values refer to closures that
have their prototype (`Callees`) and to tables that exist; it only grows (`HeapStep`).
`FlowInv`: the nesting has no repetition and consists of the running coroutines, and
what a coroutine keeps tells how it ended. `PendingInv`: a trampoline that has not
called yet belongs to the coroutine that executes, with the count that `lua_resume`
pushed on top; without it `MainGetsArguments` is not inductive. `StepsRight` collects
the action properties of one step; a step that neither calls nor returns and changes
one stack keeps them (`QuietKeeps`), which leaves `Deliver`, `Trampoline` and `XMove`.
Sequences are treated as functions on `1..n` (`IsSeq`), as values have no set of their own.

`SoundSurvives` adds `SurvivalInv` for programs marked `sound`. That no instruction
jumps out of the code depends on `TopsSettled`: only a call that stands at its first
instruction, which has no condition, does not know yet how far a skip advances, so
`Junk` is never read; this must hold again for whatever frame a return or a resume makes
the top one. `AllTold` says of every running coroutine whose trampoline has not called
yet that its stack is a function, the arguments and their true number, which only
`Resume` establishes and no step of others disturbs; without it the trampoline may
call what is no function. The rest is that every value an instruction reads is present
(`IInv`), and that every error has a message (`MessagesPresent`). TLC checked this
invariant on the whole run. Five outcomes remain, and the run reaches each: the process goes on, an
error is raised outside any coroutine, memory runs out where the code asserts or assumes
it does not, two keys of a table share a bucket, or a coroutine at the nesting limit makes another.

`ComparisonsHold` has no hypothesis: an operand that is a long counts as the double it is
converted to when the other is a double, as `CMP` converts it. `QueriesAgree` promises of
`lua_tonumberx` no more than that an integer up to `MaxExact` is kept.

**Loader.** `Own`: who holds `cjson_lock` in each place. `Why`: memory and message are
settled when a call fails. `Obj`: what was built is what is linked or rooted, the
chain of holders of each object was built, the `Bytecode` is rooted (`Whole`), what the
current allocation will be linked to exists (`Ready`), and no root is left but those of
the prototypes in progress (`Open`). `NextAllocation` and `NextPart` carry this from one
allocation to its successor in the document, at any depth of nesting.

Memory that runs out in the parser ends a load before anything was made of the document;
`Why` tells it from a refusal by what failed.

**Queue.** `FillInv`: items and promised places together exceed the size by at most
the other threads and the spurious wakeups; a place is promised to a producer that
was woken or will be by a consumer on its way to signal. **Foreach.** Every item the
supplier gave is with one worker or consumed once (`ItemsInv`), and nobody stops
without a reason (`StopInv`).

**Only model-checked.** `ShutdownEnds` is liveness under fairness, whose
`ENABLED` the prover cannot express. `MCSupport`'s `TypeOK` is a conjunction of the
types of three modules that share nothing; each is part of its module's `IInv`.
Induction over data is out of the prover's reach; no theorem above needs it.

## 5. What is abstracted or left out

- FoxGC: an object is collected when nothing refers to it (`Collect`, `Free`). That
  `coroutine_new` overwrites the GC field of the call stack when it stores a
  thrown error (`coroutine.c:227`) is outside the model.
- Memory failure inside `coroutine_new` and `fiber_new`.
- Values: NaN, infinity and fractions; the module identifiers; `value_equals_cstring`. A
  collectable userdata hashes bytes that the code never initializes, so it is no key.
- `Interpreter`: failures of the allocations of registers and value stack
  (`coroutine.c:152`, `164`); protected calls, which are `CallStack`'s; instruction
  decoding (an instruction is a record); `interpreter_call` with nargs -1, which no
  caller passes.
- `LuaApi`: the result count that `lua_resume` writes through its pointer; what
  `lua_pushthread` returns; roots of values other than through tables and closures.
- Global table: `fluffyvm_set_global` from other threads, which nothing in the
  repository does; `fluffyvm_get_global` returns it without a root (`fluffyvm.c:328`).
- `Loader`: the text of messages, and the copying of data between the three forms.
- `Queue`: the items themselves (the order is that of a linked list under a mutex), and
  `queue_timed_*`, which are declared and not defined.
- The reference counter: its only user, the string cache, has the calls commented out.
- In `VmLifecycle`: the pthread keys,
  `mainThread` (overwritten by every thread), a failed `lateInit` of the main
  thread (ignored by the code, `fluffyvm.c:292`).
- In `CallStack`: debug information of frames, the consumer's own use of the API,
  the executor iterating over its own stack.

## 6. Plan

| Order | Module | Contents | Properties and runs |
|---|---|---|---|
| done | `Coroutine`, `LuaCoroutine`, `CoroutineProofs` | coroutine runtime | section 3 and 4 |
| done | `VmLifecycle` | VM and threads | section 3 |
| done | `CallStack` | frames, protected calls, observers | section 3 |
| done | `Values`, `Hashtable`, `Dictionary` | values; the table under its lock, against a finite map | run `hashtable` |
| done | `Interpreter`, `LuaApi` | bytecode, calls, coroutines through the Lua API | run `lua_machine` |
| done | `Loader`, `Queue`, `Foreach` | loading, blocking queue, parallel foreach | run `support` |
| done | `CallStackProofs`, `VmLifecycleProofs`, `HashtableProofs`, `LuaApiProofs`, `LoaderProofs`, `QueueProofs`, `ForeachProofs` | the theorems of these modules' properties | section 4 |

Nothing of the plan is open. What the models leave out is in section 5; the next step
would be the global table under concurrent `fluffyvm_set_global`, once the repository has a caller
for it.
