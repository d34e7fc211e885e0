------------------------------- MODULE MCLuaApi -------------------------------
(* Programs for module LuaApi: short pieces of bytecode, native functions   *)
(* that work on one stack, and native functions that work with coroutines.  *)
EXTENDS LuaApi

MCHash(bytes) == 0
(* Doubles of two significant bits; 5 and 7 are rounded to the even bits.    *)
MCMagnitude(bits) == <<0, 1, 2, 3, 4, 6, 8, 12>>[bits + 1]
MCNearest(n) ==
  LET off(b) == Abs(MCMagnitude(b) - n)
  IN  CHOOSE b \in 0..LongMax : \A c \in 0..LongMax \ {b} :
        off(b) < off(c) \/ (off(b) = off(c) /\ b % 2 = 0)
MCStrtod(text) == IF text = <<"%s", "2">> THEN 2 ELSE -1
MCDoubleArith(op, x, y) ==
  LET n == IF op = "+" THEN Number(x) + Number(y) ELSE Number(x) - Number(y)
  IN  [neg |-> n < 0, mag |-> MCNearest(Abs(n))]
MCJunk == {-1, 0, 1, 9}

Two  == Message("2")
Word == Message("x")
Light == Userdata("light", 1, 0)

(* Instructions.                                                           *)
I(op, A, B, C)   == [op |-> op, cond |-> {}, math |-> "none", A |-> A, B |-> B, C |-> C]
If(flag, ins)    == [ins EXCEPT !.cond = {flag}]
M(math, A, B, C) == [I("math", A, B, C) EXCEPT !.math = math]
Proto1(code)     == [code |-> code, protos |-> <<>>]

Nothing == [protos |-> <<>>, constants |-> <<>>, globals |-> <<>>, api |-> {}, values |-> {},
            indices |-> {}, counts |-> {}, names |-> {}, rets |-> {0}, calls |-> 0, inner |-> 2,
            remote |-> FALSE, sound |-> TRUE]

(* Two constants in two registers, then two or three instructions.          *)
Load2 == <<I("get_constant", 0, 0, 0), I("get_constant", 1, 1, 0)>>
Sound1 == {I("cmp", 0, 1, 0), I("cmp", 1, 0, 0), M("+", 0, 0, 1), If("equal", I("mov", 0, CurrentReg, 0)),
           I("mov", ReservedStart, 0, 0), I("jmp_forward", 1, 0, 0), If("less", I("jmp_backward", 1, 0, 0)),
           I("jmp_forward", 9, 0, 0), I("jmp_backward", 9, 0, 0), I("get_constant", 0, 9, 0),
           I("push", 0, 0, 0), I("pop", 1, 0, 0), I("gettop", 1, 0, 0), I("nop", 0, 0, 0),
           I("table_set", EnvReg, 0, 1), I("table_get", 1, EnvReg, 0), I("table_get", 1, 0, 0),
           I("table_set", 1, 0, 0), I("illegal", 0, 0, 0), I("ret", 0, 2, 0), I("call", 0, 1, 1)}
Wild1 == {M("/", 0, 0, 1), M("%", 1, 0, 1), M("*", 0, 0, 1), M("^", 0, 0, 1), M("-", 1, 0, 1),
          I("mov", 5, 0, 0), I("push", 7, 0, 0), I("load_prototype", 0, 3, 0), I("ret", 1, 2, 0)}
Control1 == {I("cmp", 0, 1, 0), I("jmp_forward", 1, 0, 0), If("less", I("jmp_backward", 1, 0, 0)),
             I("push", 0, 0, 0), I("pop", 1, 0, 0), I("ret", 0, 2, 0), If("equal", I("nop", 0, 0, 0))}
Pairs == {<<Long(1), Long(0)>>, <<Double(TRUE, 1), Double(TRUE, 2)>>, <<Long(2), Double(FALSE, 2)>>,
          <<Long(7), Double(FALSE, 6)>>, <<Double(TRUE, 0), Double(FALSE, 0)>>, <<Word, Long(1)>>}

Code(suffixes, pairs, sound) ==
  {[Nothing EXCEPT !.protos = <<Proto1(Load2 \o x)>>, !.constants = k, !.sound = sound,
                   !.globals = (Word :> Closure(4))] :
     x \in suffixes, k \in pairs}
Straight == Code([1..2 -> Sound1], Pairs, TRUE)
            \cup Code({<<x, y>> : x \in Sound1, y \in Wild1}, Pairs, FALSE)
            \cup Code([1..3 -> Control1], Pairs, TRUE)
SkipFirst == {[Nothing EXCEPT !.protos = <<Proto1(<<If("less", I("nop", 0, 0, 0)), I("nop", 0, 0, 0)>>)>>,
                              !.sound = FALSE]}

(* Calls: two arguments are pushed and a child, itself, or a native         *)
(* function out of the global table is called.                             *)
Children == {<<I("ret", 0, 0, 0)>>, <<I("pop", 0, 0, 0), I("ret", 0, 1, 0)>>,
             <<I("pop", 0, 0, 0), I("pop", 1, 0, 0), I("ret", 0, 2, 0)>>,
             <<I("push", EnvReg, 0, 0), I("ret", EnvReg, 2, 0)>>,
             <<I("push", 0, 0, 0), I("call", CurrentReg, 1, 1)>>}
Find == {I("load_prototype", 0, 1, 0), I("table_get", 0, EnvReg, 1)}
Calls1 ==
  {[Nothing EXCEPT
      !.protos = <<[code |-> Load2 \o <<I("push", CurrentReg, 0, 0), I("push", 1, 0, 0), find,
                                        I("call", 0, b, c), last>>,
                    protos |-> <<2>>], Proto1(child)>>,
      !.constants = <<Long(2), Word>>, !.globals = (Word :> Closure(4)),
      !.api = {"push", "call", "error"}, !.values = {Long(1)}, !.counts = {0, 1},
      !.rets = {0, 1, 3}] :
     find \in Find, b \in 0..3, c \in 0..3, child \in Children,
     last \in {I("ret", 0, 1, 0), I("call", 0, 1, 1)}}

(* One native function and its own stack.                                  *)
StackOps == {"push", "pushvalue", "pushthread", "pushglobaltable", "pop", "copy", "remove", "replace",
             "rotate", "tolstring", "len", "query", "error", "createtable", "pushcfunction", "setfield", "setglobal",
             "yield"}
Natives == {[Nothing EXCEPT
      !.api = StackOps, !.values = {Nil, Long(5), Double(TRUE, 1), Two, Word, Bool(FALSE), Light},
      !.indices = {-5, -2, -1, 0, 1, 3}, !.counts = {-1, 0, 1, 2}, !.names = {Word, Two},
      !.globals = (Word :> Closure(4)), !.calls = 3]}

(* Native functions and coroutines: with true counts only their own stack,  *)
(* otherwise also the stacks of others; and three of them, nested.          *)
CoOps == {"pushcfunction", "push", "newthread", "resume", "xmove", "yield", "error"}
Thread(counts, calls, sound) ==
  [Nothing EXCEPT !.api = CoOps, !.values = {Long(1), Nil}, !.counts = counts,
                  !.calls = calls, !.rets = {0, 1}, !.sound = sound]
Threads == {Thread({1, 2}, 7, TRUE), Thread({0, 1}, 5, FALSE), Thread({-1, 2}, 5, FALSE)}
Remotes == {[Nothing EXCEPT !.api = {"newthread", "pushcfunction", "pushglobaltable", "resume", "push"},
               !.values = {Long(1)}, !.counts = {0}, !.calls = 4, !.remote = TRUE, !.sound = FALSE],
            [Nothing EXCEPT !.api = {"newthread", "pushcfunction", "xmove", "resume"}, !.inner = 0,
               !.counts = {0, 1}, !.calls = 5, !.remote = TRUE, !.sound = FALSE]}
Nested == {[Nothing EXCEPT !.api = {"newthread", "pushcfunction", "pushvalue", "xmove", "resume"},
              !.indices = {-1}, !.counts = {0, 1}, !.calls = 7, !.inner = 1]}

MCPrograms == Straight \cup SkipFirst \cup Calls1 \cup Natives \cup Threads \cup Nested \cup Remotes
===============================================================================
