------------------------------ MODULE Interpreter ------------------------------
(***************************************************************************)
(* Bytecode, calls and errors: src/src/interpreter.c, with what the frames  *)
(* of src/src/coroutine.c and the closures of src/src/closure.c keep.       *)
(*                                                                         *)
(* One native thread runs coroutines nested in each other; the last frame   *)
(* of the innermost one executes.  One instruction is one step, a function  *)
(* that returned (rets) and the copy of its results to its caller another.  *)
(* A value stack is a sequence; sp is its length.  A table is a function    *)
(* from its keys, as Dictionary promises, and which keys share a bucket is  *)
(* module Hashtable's: any two may.  A protected call                       *)
(* (interpreter_xpcall) is module CallStack's subject and left out: an      *)
(* error here ends the coroutine that raised it.                           *)
(***************************************************************************)
EXTENDS Values, SequencesExt

CONSTANTS
  Coroutines,      \* coroutines, that of the native thread among them
  Host,            \* the coroutine of the native thread (isNativeThread)
  Programs,        \* what may run: records [protos, constants, ...]
  StackSize,       \* FLUFFYVM_GENERAL_STACK_SIZE
  RegistersNum,    \* FLUFFYVM_REGISTERS_NUM
  MaxDepth,        \* FLUFFYVM_CALL_STACK_SIZE
  MaxClosures,     \* bound: closures ever made
  Junk             \* what the stack slot of incrementCount may hold at first

(* The reserved registers, of which only the first is a silent sink.        *)
ReservedStart == 65280      \* 0xFF00
CurrentReg    == 65533      \* 0xFFFD
EnvReg        == 65534
NilReg        == 65535

ASSUME InterpreterAssumption ==
  /\ Host \in Coroutines
  /\ StackSize \in Nat /\ MaxDepth \in Nat \ {0} /\ MaxClosures \in Nat
  /\ RegistersNum \in Nat /\ RegistersNum <= ReservedStart /\ Junk \subseteq Int

VARIABLES
  program,    \* the program that runs, one of Programs
  frames,     \* coroutine -> its call states, the oldest first
  nest,       \* coroutinesStack of the thread
  status,     \* coroutine -> "none", "suspended", "running" or "dead"
  thrown,     \* coroutine -> thrownedError, or Absent
  closures,   \* every closure made: [kind, proto, env]
  tables,     \* every table made, a function from keys to values
  errmsg,     \* the thread's error message slot
  answer,     \* what the last lua_resume returned
  fault       \* "none", or how the process was lost

heap   == <<closures, tables>>
flow   == <<nest, status, thrown, answer>>
vars   == <<program, frames, flow, heap, errmsg, fault>>

Co  == Last(nest)
Top == Last(frames[Co])
All == -1           \* LUA_MULTRET; B = 1 of the CALL instruction

NewFrame(fn, args, call) ==
  [fn |-> fn, stack |-> args, regs |-> [r \in 0..RegistersNum-1 |-> Absent],
   flags |-> {}, pc |-> 0, known |-> FALSE, rets |-> -1, call |-> call]

(* How results go back: the caller keeps `keeps` values while they are      *)
(* pushed and `base` in the end; below is a ghost, the first base of them.  *)
Body == [by |-> "body", base |-> 0, keeps |-> 0, wanted |-> 0, below |-> <<>>]

Lose(how) == fault' = how /\ UNCHANGED <<program, frames, flow>>

SetTop(f) == /\ frames' = [frames EXCEPT ![Co][Len(frames[Co])] = f]
             /\ UNCHANGED <<program, flow, fault>>

(* The innermost coroutine is left; its resumer's lua_resume returns.       *)
Leave(how, err) ==
  /\ nest' = Front(nest)
  /\ status' = [status EXCEPT ![Co] = how]
  /\ thrown' = [thrown EXCEPT ![Co] = err]
  /\ answer' = IF err = Absent THEN "LUA_OK" ELSE "LUA_ERRRUN"
  /\ UNCHANGED <<program, fault>>

(* Variant: the message stays in the slot and is not kept by the coroutine. *)
RaiseUnkept(m) ==
  /\ errmsg' = m
  /\ IF Co = Host THEN Lose("unhandled") ELSE Leave("dead", Absent) /\ UNCHANGED frames

(* interpreter_error: the coroutine's setjmp takes the message, and         *)
(* value_get_object_ptr aborts when there is none; a native thread has no   *)
(* handler.  left is what the operation made of the frames before it failed.*)
RaiseLeaving(left, m) ==
  /\ errmsg' = m
  /\ IF Co = Host THEN Lose("unhandled")
     ELSE IF m = Absent THEN Lose("absent_error")
     ELSE Leave("dead", m) /\ frames' = left
Raise(m) == RaiseLeaving(frames, m)
-----------------------------------------------------------------------------
(* Registers.                                                              *)
Registers == 0..RegistersNum-1
Readable  == Registers \cup {CurrentReg, EnvReg, NilReg}

Register(f, r) ==
  CASE r = EnvReg -> closures[f.fn].env
    [] r = CurrentReg -> Closure(f.fn)
    [] r \in Registers /\ f.regs[r] # Absent -> f.regs[r]
    [] OTHER -> Nil

Next1(f) == [f EXCEPT !.pc = @ + 1, !.known = TRUE]

SetRegister(f, r, v) ==
  IF r = ReservedStart THEN SetTop(Next1(f))
  ELSE IF r \in Registers /\ v # Absent
  THEN SetTop(Next1([f EXCEPT !.regs[r] = v]))
  ELSE Lose("assert")
-----------------------------------------------------------------------------
Proto(f) == program.protos[closures[f.fn].proto]
Ins      == Proto(Top).code[Top.pc + 1]

Running == fault = "none" /\ Top.rets = -1
Bytecode == Running /\ closures[Top.fn].kind = "bytecode"
InCode == Bytecode /\ Top.pc < Len(Proto(Top).code)

(* `condFlags & 0xF0 >> 4` is the low nibble: an instruction is skipped when *)
(* it names flags and none of them is set.                                 *)
Skips == Ins.cond # {} /\ Ins.cond \cap Top.flags = {}

(* The registers an instruction reads before it does anything.              *)
Inputs == CASE Ins.op = "mov" -> {Ins.B}
            [] Ins.op \in {"math", "table_get"} -> {Ins.B, Ins.C}
            [] Ins.op = "cmp" -> {Ins.A, Ins.B}
            [] Ins.op = "table_set" -> {Ins.A, Ins.B, Ins.C}
            [] Ins.op = "push" -> {Ins.A}
            [] OTHER -> {}

At(op) == InCode /\ ~Skips /\ Ins.op = op /\ Inputs \subseteq Readable

(* A skip adds the incrementCount of the instruction before it.             *)
Skip ==
  /\ InCode /\ Skips
  /\ \E n \in IF Top.known THEN {1} ELSE Junk :
       IF Top.pc + n < 0 THEN Lose("wild_pc")
       ELSE SetTop([Top EXCEPT !.pc = @ + n])
  /\ UNCHANGED <<heap, errmsg>>

Unreadable == /\ InCode /\ ~Skips /\ ~(Inputs \subseteq Readable)
              /\ Lose("assert") /\ UNCHANGED <<heap, errmsg>>

Mov == /\ At("mov")
       /\ SetRegister(Top, Ins.A, Register(Top, Ins.B))
       /\ UNCHANGED <<heap, errmsg>>

Arithmetic ==
  /\ At("math") /\ UNCHANGED heap
  /\ LET out == Math(Ins.math, Register(Top, Ins.B), Register(Top, Ins.C))
     IN  CASE out.status = "ok" -> SetRegister(Top, Ins.A, out.val) /\ UNCHANGED errmsg
           [] out.status = "error" -> Raise(out.msg)
           [] OTHER -> Lose("sigfpe") /\ UNCHANGED errmsg

Jump(target, legal) ==
  IF legal THEN SetTop([Next1(Top) EXCEPT !.pc = target]) /\ UNCHANGED errmsg
  ELSE Raise(Message("jump"))

JmpForward ==
  /\ At("jmp_forward") /\ UNCHANGED heap
  /\ Jump(Top.pc + Ins.A + 1, Top.pc + Ins.A < Len(Proto(Top).code))

JmpBackward ==
  /\ At("jmp_backward") /\ UNCHANGED heap
  /\ Jump(Top.pc - Ins.A + 1, Top.pc - Ins.A >= 0)

Flag(name, on) == IF on THEN {name} ELSE {}

(* Variant: flags are set and never cleared.                               *)
CmpSticky ==
  /\ At("cmp")
  /\ LET a == Register(Top, Ins.A)
         b == Register(Top, Ins.B)
     IN  SetTop([Next1(Top) EXCEPT !.flags = @ \cup
                      Flag("equal", Equals(a, b)) \cup Flag("less", IsLess(a, b).val = Bool(TRUE))])
  /\ UNCHANGED <<heap, errmsg>>

(* An operation without order leaves its message and clears the flag.       *)
Cmp ==
  /\ At("cmp")
  /\ LET a == Register(Top, Ins.A)
         b == Register(Top, Ins.B)
         less == IsLess(a, b)
     IN  /\ SetTop([Next1(Top) EXCEPT !.flags =
                      Flag("equal", Equals(a, b)) \cup Flag("less", less.val = Bool(TRUE))])
         /\ errmsg' = IF less.status = "error" THEN less.msg ELSE errmsg
  /\ UNCHANGED heap

GetConstant ==
  /\ At("get_constant") /\ UNCHANGED heap
  /\ IF Ins.B + 1 \in DOMAIN program.constants
     THEN SetRegister(Top, Ins.A, program.constants[Ins.B + 1]) /\ UNCHANGED errmsg
     ELSE Raise(Message("illegal instruction"))

NewClosure(kind, proto, env) == [kind |-> kind, proto |-> proto, env |-> env]

(* Neither the index nor what closure_new returns is looked at.             *)
LoadPrototype ==
  /\ At("load_prototype") /\ UNCHANGED errmsg
  /\ \/ /\ Ins.B \notin DOMAIN Proto(Top).protos
        /\ Lose("wild_prototype") /\ UNCHANGED heap
     \/ /\ MayRunOut /\ Ins.B \in DOMAIN Proto(Top).protos
        /\ Lose("out_of_memory") /\ UNCHANGED heap
     \/ /\ Ins.B \in DOMAIN Proto(Top).protos
        /\ Len(closures) < MaxClosures
        /\ closures' = Append(closures, NewClosure("bytecode",
                          Proto(Top).protos[Ins.B], closures[Top.fn].env))
        /\ SetRegister(Top, Ins.A, Closure(Len(closures) + 1))
        /\ UNCHANGED tables

GetTop == /\ At("gettop")
          /\ SetRegister(Top, Ins.A, Long(Len(Top.stack) - 1))
          /\ UNCHANGED <<heap, errmsg>>

StackPop ==
  /\ At("pop") /\ UNCHANGED heap
  /\ IF Top.stack = <<>> THEN Raise(Message("stack underflow"))
     ELSE /\ SetRegister([Top EXCEPT !.stack = Front(@)], Ins.A, Last(Top.stack))
          /\ UNCHANGED errmsg

StackPush ==
  /\ At("push") /\ UNCHANGED heap
  /\ IF Len(Top.stack) >= StackSize THEN Raise(Message("stack overflow"))
     ELSE SetTop([Next1(Top) EXCEPT !.stack = Append(@, Register(Top, Ins.A))])
          /\ UNCHANGED errmsg
-----------------------------------------------------------------------------
Same(t, k)   == {x \in DOMAIN t : Equals(x, k)}
Lookup(t, k) == IF Same(t, k) = {} THEN Nil ELSE t[CHOOSE x \in Same(t, k) : TRUE]
Store(t, k, v) ==
  LET at == IF Same(t, k) = {} THEN k ELSE CHOOSE x \in Same(t, k) : TRUE
  IN  [x \in DOMAIN t \cup {at} |-> IF x = at THEN v ELSE t[x]]
NotIndexable(v) == Message(<<"attempt to index", TypeName(v)>>)

(* A second key of a bucket is written through a null pair: a new one, or   *)
(* one that a resize moves there.                                          *)
MayCollide(t, k) ==
  IF Same(t, k) = {} THEN DOMAIN t # {} ELSE \E x, y \in DOMAIN t : x # y

TableGet ==
  /\ At("table_get") /\ UNCHANGED heap
  /\ LET t == Register(Top, Ins.B)
     IN  IF ~IsIndexable(t) THEN Raise(NotIndexable(t))
         ELSE /\ SetRegister(Top, Ins.A, Lookup(tables[DataOf(t)], Register(Top, Ins.C)))
              /\ errmsg' = Absent

(* No result is looked at: on what is no table, or without memory, the      *)
(* instruction does nothing and leaves a message.                          *)
TableSet ==
  /\ At("table_set") /\ UNCHANGED closures
  /\ LET t == Register(Top, Ins.A)
         k == Register(Top, Ins.B)
         v == Register(Top, Ins.C)
     IN  \/ /\ IsIndexable(t) /\ SetTop(Next1(Top))
            /\ tables' = [tables EXCEPT ![DataOf(t)] = Store(@, k, v)]
            /\ UNCHANGED errmsg
         \/ /\ ~IsIndexable(t) \/ MayRunOut
            /\ SetTop(Next1(Top))
            /\ errmsg' = IF IsIndexable(t) THEN OutOfMemory ELSE NotIndexable(t)
            /\ UNCHANGED tables
         \/ /\ IsIndexable(t) /\ MayCollide(tables[DataOf(t)], k)
            /\ Lose("collision") /\ UNCHANGED <<tables, errmsg>>

Nop == At("nop") /\ SetTop(Next1(Top)) /\ UNCHANGED <<heap, errmsg>>

Illegal == /\ At("illegal") /\ UNCHANGED heap
           /\ Raise(Message("illegal instruction"))
-----------------------------------------------------------------------------
(* Calls.  caller is what the calling frame becomes.                        *)
Enter(caller, fn, args, call) ==
  \/ /\ Len(frames[Co]) < MaxDepth
     /\ frames' = [frames EXCEPT ![Co] =
                     Append(Front(@), caller) \o <<NewFrame(fn, args, call)>>]
     /\ UNCHANGED <<program, flow, errmsg, fault>>
  \/ /\ Len(frames[Co]) = MaxDepth
     /\ Raise(Message("stack overflow"))
  \/ MayRunOut /\ Raise(OutOfMemory)

(* The CALL instruction: C - 1 arguments (1: all, 0: none), B - 1 results   *)
(* (1: all).  The arguments stay on the caller's stack during the call.     *)
Call ==
  /\ At("call") /\ UNCHANGED heap
  /\ LET n    == Len(Top.stack)
         base == CASE Ins.C = 0 -> n [] Ins.C = 1 -> 0 [] OTHER -> n - (Ins.C - 1)
         f    == Register(Top, Ins.A)
     IN  IF base < 0 THEN Raise(Message("stack underflow"))
         ELSE IF Ins.A \notin Readable THEN Lose("assert") /\ UNCHANGED errmsg
         ELSE IF ~IsCallable(f) THEN Raise(Message(<<"attempt to call", TypeName(f)>>))
         ELSE Enter(Top, DataOf(f), SubSeq(Top.stack, base + 1, n),
                    [by |-> "bytecode", base |-> base, keeps |-> base,
                     wanted |-> CASE Ins.B = 0 -> 0 [] Ins.B = 1 -> All [] OTHER -> Ins.B - 1,
                     below |-> SubSeq(Top.stack, 1, base)])

(* Calls f.stack[at] with what lies above it, up to last.                   *)
CallAt(f, at, last, wanted) ==
  IF at < 1 THEN Raise(Message("stack underflow"))
  ELSE IF ~IsCallable(f.stack[at]) THEN Lose("wild_call") /\ UNCHANGED errmsg
  ELSE Enter([f EXCEPT !.stack = SubSeq(@, 1, at)], DataOf(f.stack[at]),
             SubSeq(f.stack, at + 1, last),
             [by |-> "native", base |-> at - 1, keeps |-> at, wanted |-> wanted,
              below |-> SubSeq(f.stack, 1, at - 1)])

(* Variant: the function is sought one too high.                           *)
LuaCallTooHigh(f, nargs, wanted) ==
  IF nargs <= 0 THEN Lose("wild_call") /\ UNCHANGED errmsg
  ELSE CallAt(f, Len(f.stack) - nargs + 1, Len(f.stack), wanted)

(* Variant: the argument window ends one too early.                        *)
LuaCallDropsLast(f, nargs, wanted) ==
  IF nargs < 0 THEN Raise(Message("invalid count"))
  ELSE CallAt(f, Len(f.stack) - nargs, Len(f.stack) - 1, wanted)

(* lua_call and interpreter_call: the function lies under its arguments,    *)
(* which are removed before the call, and is itself removed after it.       *)
(* What is called is not looked at.                                        *)
LuaCall(f, nargs, wanted) ==
  IF wanted < All \/ nargs < 0 THEN Raise(Message("invalid count"))
  ELSE CallAt(f, Len(f.stack) - nargs, Len(f.stack), wanted)

(* RETURN pushes what it returns and does not see that there was no room.   *)
Return ==
  /\ At("ret") /\ UNCHANGED heap
  /\ IF ~(Ins.A .. Ins.A + Ins.B - 1 \subseteq Readable) THEN Lose("assert") /\ UNCHANGED errmsg
     ELSE LET vs == [i \in 1..Ins.B |-> Register(Top, Ins.A + i - 1)]
              all == Top.stack \o vs
          IN  /\ SetTop([Top EXCEPT !.rets = Ins.B, !.stack =
                           SubSeq(all, 1, IF Len(all) < StackSize THEN Len(all) ELSE StackSize)])
              /\ errmsg' = IF Len(all) > StackSize THEN Message("stack overflow") ELSE errmsg

FallOff ==
  /\ Bytecode /\ Top.pc >= Len(Proto(Top).code)
  /\ SetTop([Top EXCEPT !.rets = 0]) /\ UNCHANGED <<heap, errmsg>>

(* Variant: results are taken from the bottom of the callee's stack.       *)
ResultsFromBottom(f) ==
  LET count == IF f.call.wanted = All THEN Len(f.stack) ELSE f.call.wanted
  IN  [i \in 1..count |-> IF i <= Len(f.stack) THEN f.stack[i] ELSE Nil]

(* What the caller gets: from startPos, nil behind the end of the stack.    *)
Results(f) ==
  LET start == IF f.rets > Len(f.stack) THEN 0 ELSE Len(f.stack) - f.rets
      count == IF f.call.wanted = All THEN Len(f.stack) ELSE f.call.wanted
  IN  [i \in 1..count |-> IF start + i <= Len(f.stack) THEN f.stack[start + i] ELSE Nil]

Returned == fault = "none" /\ Top.rets # -1

Deliver ==
  /\ Returned /\ Len(frames[Co]) > 1 /\ UNCHANGED heap
  /\ LET call   == Top.call
         caller == frames[Co][Len(frames[Co]) - 1]
     IN  IF call.keeps + Len(Results(Top)) > StackSize THEN Raise(Message("stack overflow"))
         ELSE /\ frames' = [frames EXCEPT ![Co] = Append(SubSeq(@, 1, Len(@) - 2),
                   [Next1(caller) EXCEPT !.stack = SubSeq(@, 1, call.base) \o Results(Top)])]
              /\ UNCHANGED <<program, flow, errmsg, fault>>

(* The first frame of a coroutine returned: its results are gone with it.   *)
Finish ==
  /\ Returned /\ Len(frames[Co]) = 1 /\ Co # Host
  /\ frames' = [frames EXCEPT ![Co] = <<>>]
  /\ Leave("dead", Absent) /\ UNCHANGED <<heap, errmsg>>

Interpret ==
  \/ Skip \/ Unreadable \/ Mov \/ Arithmetic \/ JmpForward \/ JmpBackward \/ Cmp
  \/ GetConstant \/ LoadPrototype \/ GetTop \/ StackPop \/ StackPush
  \/ TableGet \/ TableSet \/ Nop \/ Illegal
  \/ Call \/ Return \/ FallOff \/ Deliver \/ Finish
================================================================================
