-------------------------------- MODULE LuaApi --------------------------------
(***************************************************************************)
(* Lua's C API over the interpreter: src/src/api_layer/lua54.c.  A native   *)
(* function is an arbitrary sequence of API calls (pc counts them) followed *)
(* by a return; one call is one step.  Which calls and which arguments is   *)
(* the program's: api, values, indices, counts.                            *)
(*                                                                         *)
(* An operation on one value stack is an operator from stacks to outcomes   *)
(* (Ok, Fail, Crash of Values, with a stack as the value), applied to the   *)
(* stack of some coroutine L; its errors end the executing coroutine,       *)
(* whichever L is.  The number of results that the trampoline writes        *)
(* through the light userdata is not kept.                                 *)
(***************************************************************************)
EXTENDS Interpreter

CONSTANTS
  ResumeRoom,      \* the 8 of lua_resume
  MaxNest,         \* FLUFFYVM_MAX_COROUTINE_NEST
  MaxTables,       \* bound: tables ever made
  Lengths          \* lengths of the strings

ASSUME ApiAssumption ==
  /\ ResumeRoom \in Nat /\ MaxNest \in Nat /\ MaxTables \in Nat /\ Lengths \subseteq 0..LongMax
  /\ StackSize <= LongMax /\ StackSize <= MaxExact + 3

(* What bytecode and the native functions of a program are made of: no value *)
(* in them is "not present", and closure 4 is the only object among them.    *)
Literal(v) ==
  /\ v = <<TypeOf(v), DataOf(v)>>
  /\ TypeOf(v) \in {"nil", "bool", "long", "double", "string"} \cup UserdataTypes
  /\ TypeOf(v) = "long" => DataOf(v) \in Longs
  /\ TypeOf(v) = "double" => DataOf(v) \in Doubles
Instruction ==
  {ins \in [op : STRING, cond : SUBSET {"equal", "less"}, math : STRING, A : Nat, B : Nat, C : Nat] :
     ins.op = "math" => ins.math \in {"+", "-", "*", "/", "%", "^"}}
ASSUME ProgramsAssumption ==
  /\ 0 \notin Coroutines
  /\ \A p \in Programs :
       /\ p.protos \in Seq([code : Seq(Instruction), protos : Seq(1..Len(p.protos))])
       /\ \A i \in DOMAIN p.constants : Literal(p.constants[i])
       /\ \A v \in p.values : Literal(v)
       /\ \A k \in DOMAIN p.globals : Literal(p.globals[k]) \/ p.globals[k] = Closure(4)
       /\ p.indices \subseteq Int /\ p.counts \subseteq Longs /\ p.rets \subseteq Nat

(* What the bytecode of a sound program keeps to: the registers it reads    *)
(* and writes are there, it does not divide, its nested prototypes exist,   *)
(* and its first instruction has no condition, since a skip adds up what    *)
(* the instruction before it left in incrementCount.                       *)
Operands(ins) ==
  CASE ins.op = "mov" -> {ins.B}
    [] ins.op \in {"math", "table_get"} -> {ins.B, ins.C}
    [] ins.op = "cmp" -> {ins.A, ins.B}
    [] ins.op = "table_set" -> {ins.A, ins.B, ins.C}
    [] ins.op \in {"push", "call"} -> {ins.A}
    [] ins.op = "ret" -> ins.A .. ins.A + ins.B - 1
    [] OTHER -> {}
Writing == {"mov", "math", "get_constant", "load_prototype", "gettop", "pop", "table_get"}
SoundInstruction(ins, proto) ==
  /\ Operands(ins) \subseteq Readable
  /\ ins.op \in Writing => ins.A \in Registers \cup {ReservedStart}
  /\ ins.op = "math" => ins.math \notin {"/", "%"}
  /\ ins.op = "load_prototype" => ins.B \in DOMAIN proto.protos
SoundCode(proto) ==
  /\ \A i \in DOMAIN proto.code : SoundInstruction(proto.code[i], proto)
  /\ proto.code # <<>> => proto.code[1].cond = {}
ASSUME SoundAssumption ==
  \A p \in Programs : p.sound =>
    ~p.remote /\ \A i \in DOMAIN p.protos : SoundCode(p.protos[i])

Stack(L) == Last(frames[L]).stack
Native  == /\ Running /\ closures[Top.fn].kind = "native"
           /\ Top.pc < IF Co = Host THEN program.calls ELSE program.inner
May(op) == Native /\ op \in program.api

(* The stacks a native function works on: its own, and with `remote` that   *)
(* of a coroutine which has frames.                                        *)
Others == {c \in Coroutines \ {Co} : status[c] # "none"}
Reach  == {Co} \cup IF program.remote THEN {c \in Others : frames[c] # <<>>} ELSE {}

WithStack(fs, L, s) == [fs EXCEPT ![L][Len(fs[L])].stack = s]
Counted == [frames EXCEPT ![Co][Len(frames[Co])].pc = @ + 1]

Apply(L, out) ==
  CASE out.status = "ok" -> /\ frames' = WithStack(Counted, L, out.val)
                            /\ UNCHANGED <<program, flow, errmsg, fault>>
    [] out.status = "error" -> Raise(out.msg)
    [] OTHER -> Lose("out_of_memory") /\ UNCHANGED errmsg

Overflow  == Message("stack overflow")
Underflow == Message("stack underflow")
-----------------------------------------------------------------------------
(* Operations on one stack.                                                *)
Fits(s, n) == Len(s) + n <= StackSize
IsIndex(s, i) == i # 0 /\ -Len(s) <= i /\ i <= Len(s)
Absolute(s, i) == IF i < 0 THEN Len(s) + i + 1 ELSE i
ValueAt(s, i)  == s[Absolute(s, i)]
IfIndex(s, i, out) == IF IsIndex(s, i) THEN out ELSE Fail(Message("invalid stack index"))

(* Variant: room for one more than there is.                               *)
PushedBeyond(s, v) == IF Len(s) <= StackSize THEN Ok(Append(s, v)) ELSE Fail(Overflow)

Pushed(s, v) == IF Fits(s, 1) THEN Ok(Append(s, v)) ELSE Fail(Overflow)

(* A string or userdata that cannot be made is pushed all the same: an      *)
(* assertion, or a null pointer.                                           *)
PushedNew(s, v) ==
  {Pushed(s, v)} \cup IF MayRunOut /\ Fits(s, 1) THEN {Crash} ELSE {}

Copied(s, from, to) ==
  IfIndex(s, to, IfIndex(s, from, Ok([s EXCEPT ![Absolute(s, to)] = ValueAt(s, from)])))

PushedCopy(s, i) ==
  IF Fits(s, 1) THEN IfIndex(s, i, Pushed(s, ValueAt(s, i))) ELSE Fail(Overflow)

(* With too few values lua_pop takes them all and then fails (action Pop).  *)
Popped(s, n) ==
  IF n < 0 THEN Fail(Message("expected positive count"))
  ELSE IF n > Len(s) THEN Fail(Underflow)
  ELSE Ok(SubSeq(s, 1, Len(s) - n))

(* n places towards the top, for a negative n towards the index.            *)
Rotated(s, i, n) ==
  LET p == Absolute(s, i)
      m == Len(s) - p + 1
  IN  IfIndex(s, i, Ok(SubSeq(s, 1, p - 1) \o [j \in 1..m |-> s[p + ((j - 1 - n) % m)]]))

Removed(s, i) == IfIndex(s, i, Popped(Rotated(s, i, -1).val, 1))
Replaced(s, i) == IF Copied(s, -1, i).status = "ok" THEN Popped(Copied(s, -1, i).val, 1)
                  ELSE Copied(s, -1, i)

(* lua_tolstring turns a number on the stack into its text.                 *)
Stringified(s, i) ==
  IF ~IsIndex(s, i) THEN {IfIndex(s, i, Ok(s))}
  ELSE LET v == ValueAt(s, i)
       IN  CASE TypeOf(v) = "string" -> {Ok(s)}
             [] IsNumeric(v) -> {IF out.status # "ok" THEN out
                                 ELSE Ok([s EXCEPT ![Absolute(s, i)] = out.val]) : out \in TextOf(v)}
             [] OTHER -> {Fail(Message("expect long or number"))}

(* lua_len pushes nothing for a value that has no length.                   *)
LengthPushed(s, i) ==
  IF ~Fits(s, 1) THEN {Fail(Overflow)}
  ELSE IF ~IsIndex(s, i) THEN {IfIndex(s, i, Ok(s))}
  ELSE LET v == ValueAt(s, i)
       IN  CASE TypeOf(v) = "string" -> {Pushed(s, Long(n)) : n \in Lengths}
             [] IsIndexable(v) -> {Pushed(s, Long(n)) :
                  n \in {m \in Lengths : m >= Cardinality(DOMAIN tables[DataOf(v)])}}
             [] OTHER -> {Ok(s)}
-----------------------------------------------------------------------------
(* Questions, which leave the stack alone.                                  *)
LuaType(v) ==
  CASE IsNumeric(v) -> "LUA_TNUMBER"
    [] TypeOf(v) = "full" -> "LUA_TUSERDATA"
    [] TypeOf(v) \in {"light", "collectable"} -> "LUA_TLIGHTUSERDATA"
    [] TypeOf(v) = "closure" -> "LUA_TFUNCTION"
    [] TypeOf(v) = "bool" -> "LUA_TBOOLEAN"
    [] TypeOf(v) = "coroutine" -> "LUA_TTHREAD"
    [] TypeOf(v) = "string" -> "LUA_TSTRING"
    [] TypeOf(v) = "table" -> "LUA_TTABLE"
    [] OTHER -> "LUA_TNIL"
TypeAt(s, i) == IF i = 0 \/ i > Len(s) \/ Len(s) + i + 1 < 0 THEN Ok("LUA_TNONE")
                ELSE IfIndex(s, i, Ok(LuaType(ValueAt(s, i))))
LuaTypename(type) ==
  CASE type \in {"LUA_TUSERDATA", "LUA_TLIGHTUSERDATA"} -> "userdata"
    [] type = "LUA_TFUNCTION" -> "function"
    [] type = "LUA_TBOOLEAN" -> "boolean"
    [] type = "LUA_TNUMBER" -> "number"
    [] type = "LUA_TTHREAD" -> "thread"
    [] type = "LUA_TSTRING" -> "string"
    [] type = "LUA_TTABLE" -> "table"
    [] type = "LUA_TNIL" -> "nil"
    [] OTHER -> "abort"

(* Variant: a string counts as a number without a look at its text.         *)
IsNumberUnread(v) == LuaType(v) \in {"LUA_TNUMBER", "LUA_TSTRING"}
IsNumber(v) == IsNumeric(v) \/ (TypeOf(v) = "string" /\ ToDouble(v).status = "ok")
IsLuaString(v) == LuaType(v) \in {"LUA_TSTRING", "LUA_TNUMBER"}
IsInteger(v) == LuaType(v) = "LUA_TNUMBER" /\ TypeOf(v) = "long"
IsCFunction(v) == IsCallable(v) /\ closures[DataOf(v)].kind = "native"
IsUserdata(v) == LuaType(v) \in {"LUA_TUSERDATA", "LUA_TLIGHTUSERDATA"}
IsYieldable(c) == c # Host
ToNumberX(v) == IF ToDouble(v).status = "ok"
                   THEN [isnum |-> TRUE, num |-> Number(DataOf(ToDouble(v).val))]
                   ELSE [isnum |-> FALSE, num |-> 0]
ToUserdata(v) == IF TypeOf(v) \in {"full", "light"} THEN DataOf(v).ptr ELSE 0
ToThread(v) == IF TypeOf(v) = "coroutine" THEN DataOf(v) ELSE 0
ToBoolean(v) == v # Nil /\ v # Bool(FALSE)
ToCFunction(v) == IF IsCFunction(v) THEN DataOf(v) ELSE 0

-----------------------------------------------------------------------------
PushPlain  == /\ May("push") /\ UNCHANGED heap
              /\ \E L \in Reach, v \in program.values : ~HasObject(v) /\ Apply(L, Pushed(Stack(L), v))
PushObject == /\ May("push") /\ UNCHANGED heap
              /\ \E L \in Reach, v \in program.values :
                   /\ TypeOf(v) \in {"string", "light"}
                   /\ \E out \in PushedNew(Stack(L), v) : Apply(L, out)
PushCopy   == /\ May("pushvalue") /\ UNCHANGED heap
              /\ \E L \in Reach, i \in program.indices : Apply(L, PushedCopy(Stack(L), i))
PushThread == /\ May("pushthread") /\ UNCHANGED heap
              /\ \E L \in Reach : Apply(L, Pushed(Stack(L), Coroutine(L)))

(* The environment of L's own frame, which a trampoline does not have.      *)
PushGlobals ==
  /\ May("pushglobaltable") /\ UNCHANGED heap
  /\ \E L \in Reach : LET env == closures[Last(frames[L]).fn].env
       IN  IF env = Absent /\ Fits(Stack(L), 1) THEN Lose("assert") /\ UNCHANGED errmsg
           ELSE Apply(L, Pushed(Stack(L), env))

Pop     == /\ May("pop") /\ UNCHANGED heap
           /\ \E L \in Reach, n \in program.counts :
                IF n > Len(Stack(L)) THEN RaiseLeaving(WithStack(frames, L, <<>>), Underflow)
                ELSE Apply(L, Popped(Stack(L), n))
Copy    == /\ May("copy") /\ UNCHANGED heap
           /\ \E L \in Reach, i, j \in program.indices : Apply(L, Copied(Stack(L), i, j))
LuaRemove == /\ May("remove") /\ UNCHANGED heap
            /\ \E L \in Reach, i \in program.indices : Apply(L, Removed(Stack(L), i))
Replace == /\ May("replace") /\ UNCHANGED heap
           /\ \E L \in Reach, i \in program.indices : Apply(L, Replaced(Stack(L), i))
Rotate  == /\ May("rotate") /\ UNCHANGED heap
           /\ \E L \in Reach, i \in program.indices, n \in program.counts :
                Apply(L, Rotated(Stack(L), i, n))
ToLString == /\ May("tolstring") /\ UNCHANGED heap
             /\ \E L \in Reach, i \in program.indices :
                  \E out \in Stringified(Stack(L), i) : Apply(L, out)
PushLength == /\ May("len") /\ UNCHANGED heap
              /\ \E L \in Reach, i \in program.indices :
                   \E out \in LengthPushed(Stack(L), i) : Apply(L, out)

(* Every lua_to... is an error where the index is none; lua_type and every  *)
(* lua_is... take most of those for LUA_TNONE.                             *)
Asked(s, i) == {IfIndex(s, i, Ok(s)), IF TypeAt(s, i) = Ok("LUA_TNONE") THEN Ok(s) ELSE IfIndex(s, i, Ok(s))}
Query == /\ May("query") /\ UNCHANGED heap
         /\ \E L \in Reach, i \in program.indices : \E out \in Asked(Stack(L), i) : Apply(L, out)

Error == /\ May("error") /\ UNCHANGED heap
         /\ Raise(IF Stack(Co) = <<>> THEN Underflow ELSE Last(Stack(Co)))
-----------------------------------------------------------------------------
(* Operations on the heap.  hashtable_new takes powers of two only, and the *)
(* message becomes "out of memory": lua_newtable, with 0, never succeeds.   *)
Sizes == {1, 2, 4, 8, 16}

CreateTable ==
  /\ May("createtable") /\ UNCHANGED closures
  /\ \E L \in Reach, nrec \in program.counts :
       \/ /\ ~Fits(Stack(L), 1) /\ Raise(Overflow) /\ UNCHANGED tables
       \/ /\ Fits(Stack(L), 1) /\ (nrec \notin Sizes \/ MayRunOut)
          /\ Raise(OutOfMemory) /\ UNCHANGED tables
       \/ /\ Fits(Stack(L), 1) /\ nrec \in Sizes /\ Len(tables) < MaxTables
          /\ tables' = Append(tables, <<>>)
          /\ Apply(L, Pushed(Stack(L), Table(Len(tables) + 1)))

(* The new closure takes the environment of L's own frame: a trampoline has  *)
(* none, and closure_new_common aborts.                                    *)
PushCFunction ==
  /\ May("pushcfunction") /\ UNCHANGED tables
  /\ \E L \in Reach : LET env == closures[Last(frames[L]).fn].env
       IN  \/ /\ ~Fits(Stack(L), 1) /\ Raise(Overflow) /\ UNCHANGED closures
           \/ /\ Fits(Stack(L), 1) /\ MayRunOut /\ Raise(OutOfMemory) /\ UNCHANGED closures
           \/ Fits(Stack(L), 1) /\ env = Absent /\ Lose("assert") /\ UNCHANGED <<closures, errmsg>>
           \/ /\ Fits(Stack(L), 1) /\ env # Absent /\ Len(closures) < MaxClosures
              /\ closures' = Append(closures, NewClosure("native", 0, env))
              /\ Apply(L, Pushed(Stack(L), Closure(Len(closures) + 1)))

(* The value on top goes into the table and is popped.  Without memory it   *)
(* is lost and nothing says so, as value_table_set answers true; a bucket   *)
(* that two keys share loses the process.                                  *)
StoreTop(L, t, k) ==
  \/ MayRunOut /\ Raise(OutOfMemory) /\ UNCHANGED tables
  \/ ~IsIndexable(t) /\ Raise(NotIndexable(t)) /\ UNCHANGED tables
  \/ /\ IsIndexable(t) /\ Apply(L, Popped(Stack(L), 1))
     /\ \/ tables' = [tables EXCEPT ![DataOf(t)] = Store(@, k, Last(Stack(L)))]
        \/ MayRunOut /\ UNCHANGED tables
  \/ /\ IsIndexable(t) /\ MayCollide(tables[DataOf(t)], k)
     /\ Lose("collision") /\ UNCHANGED <<tables, errmsg>>

SetField ==
  /\ May("setfield") /\ UNCHANGED closures
  /\ \E L \in Reach, i \in program.indices, k \in program.names :
       IF IsIndex(Stack(L), i) THEN StoreTop(L, ValueAt(Stack(L), i), k)
       ELSE Raise(Message("invalid stack index")) /\ UNCHANGED tables

SetGlobal ==
  /\ May("setglobal") /\ UNCHANGED closures
  /\ \E L \in Reach, k \in program.names :
       IF Stack(L) # <<>> THEN StoreTop(L, Table(1), k)
       ELSE Raise(Message("invalid stack index")) /\ UNCHANGED tables
-----------------------------------------------------------------------------
(* Calls and coroutines.  A sound program gives true counts, and leaves a   *)
(* coroutine alone that returned: no static condition, so a guard.          *)
TrueCount(s, n) == 0 <= n /\ n < Len(s) /\ IsCallable(s[Len(s) - n])

NativeCall == /\ May("call") /\ UNCHANGED heap
              /\ \E nargs, wanted \in program.counts :
                   /\ program.sound => TrueCount(Stack(Co), nargs)
                   /\ LuaCall(Top, nargs, wanted)

NativeReturn == /\ Running /\ closures[Top.fn].kind = "native"
                /\ Co # Host \/ Len(frames[Co]) > 1
                /\ \E n \in program.rets : SetTop([Top EXCEPT !.rets = n])
                /\ UNCHANGED <<heap, errmsg>>

(* The first frame of a coroutine: it takes what lua_resume pushed off and  *)
(* calls what lies under nargs values; it looks at index 1.                 *)
Trampoline ==
  /\ Running /\ closures[Top.fn].kind = "trampoline" /\ UNCHANGED heap
  /\ LET s == Top.stack
         f == [Top EXCEPT !.stack = SubSeq(s, 1, Len(s) - 2)]
     IN  IF Top.pc > 0 THEN SetTop([Top EXCEPT !.rets = 0]) /\ UNCHANGED errmsg
         ELSE IF f.stack = <<>> \/ ~IsCallable(Head(s))
         THEN Raise(Message("main function is not present"))
         ELSE LuaCall(f, ToNumberX(Last(s)).num, All)

(* value_new_coroutine does not see that coroutine_new failed, and a null   *)
(* coroutine is pushed.  At the nesting limit coroutine_new takes its caller *)
(* off coroutinesStack: module Coroutine tells what follows.               *)
NewThread ==
  /\ May("newthread") /\ UNCHANGED heap
  /\ \E L \in Reach :
       \/ ~Fits(Stack(L), 1) /\ Raise(Overflow)
       \/ Fits(Stack(L), 1) /\ MayRunOut /\ Lose("out_of_memory") /\ UNCHANGED errmsg
       \/ Fits(Stack(L), 1) /\ Len(nest) = MaxNest /\ Lose("caller_popped") /\ UNCHANGED errmsg
       \/ /\ Fits(Stack(L), 1) /\ Len(nest) < MaxNest
          /\ \E c \in Coroutines :
               /\ status[c] = "none"
               /\ status' = [status EXCEPT ![c] = "suspended"]
               /\ frames' = [WithStack(Counted, L, Append(Stack(L), Coroutine(c)))
                               EXCEPT ![c] = <<NewFrame(1, <<>>, Body)>>]
          /\ UNCHANGED <<program, nest, thrown, answer, errmsg, fault>>

(* coroutine_resume, with the two values already pushed.                    *)
Resumed(pushed, c) ==
  \/ /\ status[c] = "suspended" /\ Len(nest) < MaxNest
     /\ frames' = pushed
     /\ nest' = Append(nest, c)
     /\ status' = [status EXCEPT ![c] = "running"]
     /\ UNCHANGED <<program, thrown, answer, errmsg, fault>>
  \/ /\ status[c] # "suspended" \/ Len(nest) = MaxNest
     /\ frames' = pushed
     /\ answer' = IF thrown[c] = Absent THEN "LUA_OK" ELSE "LUA_ERRRUN"
     /\ errmsg' = Message("cannot resume")
     /\ UNCHANGED <<program, nest, status, thrown, fault>>

Resume ==
  /\ May("resume") /\ UNCHANGED heap
  /\ \E c \in Others \cup {Co}, nargs \in program.counts, out \in NewLight(0, 0) :
       /\ program.sound =>
            /\ frames[c] # <<>>
            /\ Last(frames[c]).fn = 1 => Len(Stack(c)) = nargs + 1 /\ TrueCount(Stack(c), nargs)
       /\ IF ResumeRoom + nargs < 0 \/ ~Fits(Stack(Co), ResumeRoom + nargs) THEN Raise(Overflow)
          ELSE IF frames[c] = <<>> THEN Lose("null_frame") /\ UNCHANGED errmsg
          ELSE IF ~Fits(Stack(c), 2) THEN Raise(Overflow)
          ELSE IF out.status # "ok" THEN Lose("out_of_memory") /\ UNCHANGED errmsg
          ELSE Resumed(WithStack(Counted, c, Stack(c) \o <<out.val, Long(nargs)>>), c)

Yield ==
  /\ May("yield") /\ UNCHANGED heap
  /\ IF IsYieldable(Co)
     THEN Leave("suspended", Absent) /\ frames' = Counted /\ UNCHANGED errmsg
     ELSE /\ errmsg' = Message("cannot suspend top level coroutine")
          /\ frames' = Counted /\ UNCHANGED <<program, flow, fault>>

(* Variant: values are moved from the top one by one, as by lua_pop.        *)
XMoveReversed ==
  /\ May("xmove") /\ UNCHANGED heap
  /\ \E L \in Others \cup {Co}, to \in Others, n \in program.counts :
       /\ n > 0 /\ status[to] = "suspended" /\ frames[L] # <<>> /\ n <= Len(Stack(L))
       /\ Fits(Stack(to), n) /\ L # to
       /\ frames' = WithStack(WithStack(Counted, to,
                      Stack(to) \o Reverse(SubSeq(Stack(L), Len(Stack(L)) - n + 1, Len(Stack(L))))),
                      L, SubSeq(Stack(L), 1, Len(Stack(L)) - n))
       /\ UNCHANGED <<program, flow, errmsg, fault>>

(* The check is for room for one value; what does not fit is dropped.       *)
XMove ==
  /\ May("xmove") /\ UNCHANGED heap
  /\ \E L \in Others \cup {Co}, to \in Others, n \in program.counts :
       IF n < 0 THEN Raise(Message("expected positive n"))
       ELSE IF status[to] # "suspended" THEN Raise(Message("xmove on running or dead coroutine"))
       ELSE IF n = 0 THEN Apply(Co, Ok(Stack(Co)))
       ELSE IF ~Fits(Stack(to), 1) THEN Raise(Overflow)
       ELSE IF frames[L] = <<>> THEN ~program.sound /\ Lose("null_frame") /\ UNCHANGED errmsg
       ELSE IF n > Len(Stack(L)) THEN Raise(Underflow)
       ELSE LET moved == SubSeq(Stack(L), Len(Stack(L)) - n + 1, Len(Stack(L)))
                all   == Stack(to) \o moved
                after == WithStack(Counted, to,
                           SubSeq(all, 1, IF Len(all) < StackSize THEN Len(all) ELSE StackSize))
                left  == Last(after[L]).stack
            IN  /\ frames' = WithStack(after, L, SubSeq(left, 1, Len(left) - n))
                /\ errmsg' = IF Len(all) > StackSize THEN Overflow ELSE errmsg
                /\ UNCHANGED <<program, flow, fault>>

(* Any other call on a coroutine whose first frame is gone reads its null   *)
(* currentCallState.                                                       *)
UseFinished == /\ Native /\ program.remote /\ UNCHANGED <<heap, errmsg>>
               /\ \E L \in Others : frames[L] = <<>>
               /\ Lose("null_frame")
-----------------------------------------------------------------------------
(* Closures 1 to 4: the trampoline, the native thread's dummy, a program's  *)
(* first prototype, a native function.                                     *)
Init ==
  /\ program \in Programs
  /\ closures = <<NewClosure("trampoline", 0, Absent), NewClosure("native", 0, Table(1)),
                  NewClosure("bytecode", 1, Table(1)), NewClosure("native", 0, Table(1))>>
  /\ tables = <<program.globals>>
  /\ \E c \in Coroutines \ {Host} :
       LET main(co) == IF co = Host THEN <<NewFrame(2, <<>>, Body)>>
                       ELSE IF co = c /\ program.protos # <<>> THEN <<NewFrame(3, <<>>, Body)>>
                       ELSE <<>>
       IN  /\ frames = [co \in Coroutines |-> main(co)]
           /\ nest = IF program.protos = <<>> THEN <<Host>> ELSE <<Host, c>>
           /\ status = [co \in Coroutines |-> IF main(co) = <<>> THEN "none" ELSE "running"]
  /\ thrown = [co \in Coroutines |-> Absent]
  /\ answer = "none" /\ errmsg = Absent /\ fault = "none"

Next ==
  \/ Interpret
  \/ PushPlain \/ PushObject \/ PushCopy \/ PushThread \/ PushGlobals \/ Pop \/ Copy
  \/ LuaRemove \/ Replace \/ Rotate \/ ToLString \/ PushLength \/ Query \/ Error
  \/ CreateTable \/ PushCFunction \/ SetField \/ SetGlobal
  \/ NativeCall \/ NativeReturn \/ Trampoline
  \/ NewThread \/ Resume \/ Yield \/ XMove \/ UseFinished

Spec == Init /\ [][Next]_vars
-----------------------------------------------------------------------------
(* Properties.                                                             *)

(* A coroutine is running exactly while it is nested; stacks keep within    *)
(* their arrays and hold values only, never "not present"; the program      *)
(* counter is never negative.                                              *)
TypeOK ==
  /\ Head(nest) = Host
  /\ \A i, j \in DOMAIN nest : nest[i] = nest[j] => i = j
  /\ \A c \in Coroutines :
       /\ status[c] = "running" <=> \E i \in DOMAIN nest : nest[i] = c
       /\ Len(frames[c]) <= MaxDepth
       /\ \A i \in DOMAIN frames[c] : LET f == frames[c][i] IN
            /\ Len(f.stack) <= StackSize /\ f.pc >= 0
            /\ \A j \in DOMAIN f.stack : f.stack[j] # Absent

(* A coroutine that ended by an error keeps a present error value and its   *)
(* frames, one that returned neither; no other coroutine has an error.      *)
(* About the setjmp block of coroutine_new and interpreter_error.          *)
DeadKnowsWhy ==
  \A c \in Coroutines :
    /\ thrown[c] # Absent => status[c] = "dead"
    /\ status[c] = "dead" => (thrown[c] # Absent <=> frames[c] # <<>>)

Given(f) == SubSeq(f.stack, 1 + (IF f.rets < Len(f.stack) THEN Len(f.stack) - f.rets ELSE 0),
                   Len(f.stack))
Adjusted(vs, n) == [i \in 1..n |-> IF i <= Len(vs) THEN vs[i] ELSE Nil]

(* When a call returns, the caller's stack is what lay below the function   *)
(* and the arguments when the call began, then the last values of the       *)
(* callee in their order, cut or filled with nil to the number wanted.      *)
(* With all results wanted that number is the height of the callee's stack, *)
(* not the number it returned: about interpreter.c:506-523 and 179-195.    *)
CallReturns ==
  [][\A c \in Coroutines :
       LET n == Len(frames[c]) IN
         (n > 1 /\ Len(frames'[c]) = n - 1) =>
           LET f == frames[c][n] IN
             frames'[c][n - 1].stack = f.call.below \o
               Adjusted(Given(f), IF f.call.wanted = All THEN Len(f.stack) ELSE f.call.wanted)]_vars

(* If lua_resume is told the true number of arguments, the function that    *)
(* was put first on the new coroutine is called with all that was put after *)
(* it, in that order.  About lua_resume, trampoline and lua_call together. *)
MainGetsArguments ==
  [][\A c \in Coroutines :
       (Len(frames[c]) = 1 /\ Len(frames'[c]) = 2 /\ closures[frames[c][1].fn].kind = "trampoline") =>
         LET s == frames[c][1].stack
             n == Len(s)
         IN  s[n] = Long(n - 3) =>
               /\ Closure(frames'[c][2].fn) = s[1]
               /\ frames'[c][2].stack = SubSeq(s, 2, n - 2)]_vars

NumberOf(v) == Number(DataOf(v))
Negative(v) == IF TypeOf(v) = "double" THEN DataOf(v).neg ELSE DataOf(v) < 0

AsDouble(v) == ToDouble(v).val

(* After CMP the flags say whether the operands are one value of one type,  *)
(* and whether the first is the smaller number, except that, unless both    *)
(* are longs, a long counts as the double it is rounded to, two negative    *)
(* numbers are ordered the other way round, and a negative zero is below    *)
(* zero: about value_is_less, which compares the bits of doubles.           *)
ComparisonsAreTrue ==
  [][(At("cmp") /\ fault' = "none") =>
       LET a == Register(Top, Ins.A)
           b == Register(Top, Ins.B)
           flags == Last(frames'[Co]).flags
       IN  /\ "equal" \in flags <=> (TypeOf(a) = TypeOf(b) /\ Equals(a, b))
           /\ (IsNumeric(a) /\ IsNumeric(b)) =>
                ("less" \in flags <=>
                   IF TypeOf(a) = "long" /\ TypeOf(b) = "long" THEN DataOf(a) < DataOf(b)
                   ELSE LET x == NumberOf(AsDouble(a))
                            y == NumberOf(AsDouble(b))
                        IN  IF Negative(a) /\ Negative(b) THEN y < x
                            ELSE x < y \/ (Negative(a) /\ ~Negative(b)))
           /\ (~IsNumeric(a) \/ ~IsNumeric(b)) => "less" \notin flags]_vars

(* The questions agree with the conversions: what lua_isnumber accepts      *)
(* lua_tonumberx converts and nothing else, lua_tolstring refuses exactly   *)
(* what is no lua_isstring, an integer that a double can hold survives the  *)
(* conversion (a larger one is rounded), every type has a name, and only a  *)
(* function or a thread is turned into one.                                *)
QueriesAgree ==
  \A c \in Coroutines : \A i \in DOMAIN frames[c] : \A j \in DOMAIN frames[c][i].stack :
    LET v == frames[c][i].stack[j]
    IN  /\ IsNumber(v) <=> ToNumberX(v).isnum
        /\ IsLuaString(v) <=> \E out \in Stringified(<<v>>, 1) : out.status = "ok"
        /\ (IsInteger(v) /\ Abs(DataOf(v)) <= MaxExact) => ToNumberX(v).num = DataOf(v)
        /\ TypeAt(<<v>>, -1) = Ok(LuaType(v)) /\ LuaTypename(LuaType(v)) # "abort"
        /\ ToCFunction(v) # 0 => LuaType(v) = "LUA_TFUNCTION"
        /\ (ToThread(v) # 0 <=> LuaType(v) = "LUA_TTHREAD")
        /\ (ToUserdata(v) # 0 => IsUserdata(v)) /\ (~ToBoolean(v) <=> v \in {Nil, Bool(FALSE)})

(* A step that changes the stacks of two coroutines moves values from the   *)
(* top of one to the other in their order, and drops some only when the     *)
(* target's stack is then full.  About lua_xmove.                          *)
MovesKeepOrder ==
  [][\A L, to \in Coroutines :
       (L # to /\ nest' = nest /\ \A c \in {L, to} :
          /\ frames[c] # <<>> /\ Len(frames'[c]) = Len(frames[c])
          /\ Last(frames'[c]).stack # Stack(c))
       => \E from \in {L, to} :
            LET dest == IF from = L THEN to ELSE L
                all  == Stack(dest) \o SubSeq(Stack(from), Len(Last(frames'[from]).stack) + 1,
                                             Len(Stack(from)))
                got  == Last(frames'[dest]).stack
            IN  IsPrefix(Last(frames'[from]).stack, Stack(from))
                /\ IsPrefix(got, all) /\ (got = all \/ Len(got) = StackSize)]_vars

(* A program that names registers and prototypes it has, does not divide,   *)
(* works on its own stacks, uses no finished coroutine and gives true       *)
(* counts (SoundCode, and what `sound` guards) is lost only by an error     *)
(* nobody handles, for want of memory, to two keys of one bucket            *)
(* (hashtable.c:88,167), or by a lua_newthread at the nesting limit         *)
(* (coroutine.c:211): no assertion fails, no error is absent, no index,     *)
(* prototype, call or frame is read that is not there.                     *)
SoundProgramsSurvive ==
  program.sound => fault \in {"none", "unhandled", "out_of_memory", "collision", "caller_popped"}
===============================================================================
