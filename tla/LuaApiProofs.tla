------------------------------ MODULE LuaApiProofs ------------------------------
(***************************************************************************)
(* Proofs about the interpreter and the Lua API, for any programs of the    *)
(* form ProgramsAssumption gives, any sizes of stacks and call stacks, any  *)
(* number of coroutines: what is on the stacks, how coroutines end, what a  *)
(* call leaves to its caller, that sound programs meet no undefined         *)
(* behaviour.                                                              *)
(***************************************************************************)
EXTENDS LuaApi, SequenceTheorems, TLAPS

(* The closures that may be called: a bytecode one has its prototype.       *)
Callees == {k \in DOMAIN closures \ {1} : closures[k].kind = "bytecode" =>
              closures[k].proto \in DOMAIN program.protos}

(* A value that is present, when K are the closures that may be called and  *)
(* T the tables.                                                           *)
Good(v, K, T) ==
  /\ v = <<TypeOf(v), DataOf(v)>> /\ TypeOf(v) # "absent"
  /\ TypeOf(v) = "closure" => DataOf(v) \in K
  /\ TypeOf(v) = "table" => DataOf(v) \in T
  /\ TypeOf(v) = "long" => DataOf(v) \in Longs
  /\ TypeOf(v) = "double" => DataOf(v) \in Doubles
  /\ TypeOf(v) = "coroutine" => DataOf(v) \in Coroutines

(* A sequence, and one of present values: the stack of a call.               *)
IsSeq(s) == Len(s) \in Nat /\ s = [i \in 1..Len(s) |-> s[i]]
IsStack(s, K, T) == IsSeq(s) /\ \A i \in 1..Len(s) : Good(s[i], K, T)

(* The ghost of a call: the stack it was made from had `keeps` values, and   *)
(* `base` of them stay below its function and arguments.                     *)
IsCall(call) ==
  /\ call.base \in Nat /\ call.keeps \in Nat /\ call.base <= call.keeps
  /\ call.wanted \in Int /\ call.wanted >= All

(* A struct fluffyvm_call_state: its function, its stack within StackSize,   *)
(* its registers, its next instruction, the results it answered with.        *)
IsFrame(f, K, T) ==
  /\ f = [fn |-> f.fn, stack |-> f.stack, regs |-> f.regs, flags |-> f.flags, pc |-> f.pc,
          known |-> f.known, rets |-> f.rets, call |-> f.call]
  /\ f.fn \in K \cup {1}
  /\ IsStack(f.stack, K, T) /\ Len(f.stack) <= StackSize
  /\ f.regs = [r \in Registers |-> f.regs[r]]
  /\ \A r \in Registers : f.regs[r] = Absent \/ Good(f.regs[r], K, T)
  /\ f.pc \in Nat
  /\ f.rets \in Int /\ f.rets >= -1
  /\ IsCall(f.call)

(* The ghost of a call is what its caller's stack begins with.              *)
Linked(fs) ==
  \A i \in 2..Len(fs) : /\ fs[i].call.base <= Len(fs[i-1].stack)
                        /\ fs[i].call.below = SubSeq(fs[i-1].stack, 1, fs[i].call.base)

(* The call stack of a coroutine: within MaxDepth, a trampoline only below   *)
(* everything else, each call linked to the one that made it.                *)
IsCallStack(fs, K, T) ==
  /\ IsSeq(fs) /\ Len(fs) <= MaxDepth
  /\ \A i \in 1..Len(fs) : IsFrame(fs[i], K, T)
  /\ \A i \in 2..Len(fs) : fs[i].fn # 1
  /\ Linked(fs)

(* Closure 1 is the trampoline and no other is; environments and table       *)
(* entries hold present values only, and no closure in them is the           *)
(* trampoline.                                                               *)
HeapInv ==
  /\ IsSeq(closures) /\ IsSeq(tables)
  /\ 1 \in DOMAIN closures /\ 1 \in DOMAIN tables
  /\ closures[1].kind = "trampoline" /\ closures[1].env = Absent
  /\ \A k \in DOMAIN closures \ {1} : /\ closures[k].kind # "trampoline"
                                    /\ Good(closures[k].env, Callees, DOMAIN tables)
  /\ \A t \in DOMAIN tables : \A k \in DOMAIN tables[t] :
       Good(tables[t][k], Callees, DOMAIN tables)

(* The coroutines that resumed each other: the host first, none twice,       *)
(* exactly the running ones; what a coroutine keeps says whether it was      *)
(* started, lives, returned or threw.                                        *)
FlowInv ==
  /\ nest \in Seq(Coroutines) /\ nest # <<>> /\ nest[1] = Host
  /\ \A i, j \in DOMAIN nest : nest[i] = nest[j] => i = j
  /\ status \in [Coroutines -> {"none", "suspended", "running", "dead"}]
  /\ thrown = [c \in Coroutines |-> thrown[c]]
  /\ \A c \in Coroutines :
       /\ status[c] = "running" <=> \E i \in DOMAIN nest : nest[i] = c
       /\ status[c] \in {"running", "suspended"} => frames[c] # <<>>
       /\ status[c] = "none" => frames[c] = <<>>
       /\ thrown[c] # Absent => status[c] = "dead"
       /\ status[c] = "dead" => (thrown[c] # Absent <=> frames[c] # <<>>)

(* A trampoline that has not called its function yet.                       *)
Pending(c) == frames[c] # <<>> /\ Last(frames[c]).fn = 1 /\ Last(frames[c]).pc = 0

(* Only the executing coroutine can be in a trampoline that has not called   *)
(* yet, and lua_resume left the number of the arguments on top of its stack. *)
PendingInv ==
  \A c \in Coroutines :
    (status[c] = "running" /\ Pending(c)) =>
      c = Co /\ Len(Stack(c)) >= 2 /\ TypeOf(Last(Stack(c))) = "long"

(* Every coroutine has a call stack.                                         *)
FramesInv ==
  /\ frames = [c \in Coroutines |-> frames[c]]
  /\ \A c \in Coroutines : IsCallStack(frames[c], Callees, DOMAIN tables)

(* The inductive invariant.                                                  *)
IInv == program \in Programs /\ HeapInv /\ FlowInv /\ PendingInv /\ FramesInv

-----------------------------------------------------------------------------
(* Sequences whose elements have no set of their own.                       *)
LEMMA SeqFacts ==
  ASSUME NEW s, IsSeq(s)
  PROVE  /\ s \in Seq({s[i] : i \in 1..Len(s)})
         /\ Len(s) \in Nat /\ DOMAIN s = 1..Len(s)
         /\ s = <<>> <=> Len(s) = 0
<1>1. s \in Seq({s[i] : i \in 1..Len(s)}) /\ Len(s) \in Nat /\ DOMAIN s = 1..Len(s)
  BY DEF IsSeq
<1>2. s = <<>> <=> Len(s) = 0
  BY <1>1, EmptySeq
<1> QED BY <1>1, <1>2

(* A sequence over a set is one.                                            *)
LEMMA SeqIs ==
  ASSUME NEW S, NEW s \in Seq(S)
  PROVE  IsSeq(s)
<1>1. Len(s) \in Nat /\ s \in [1..Len(s) -> S]
  BY LenProperties
<1> QED BY <1>1 DEF IsSeq

(* A function on 1..n is one.                                               *)
LEMMA FunctionIsSeq ==
  ASSUME NEW n \in Nat, NEW s, s = [i \in 1..n |-> s[i]]
  PROVE  IsSeq(s) /\ Len(s) = n
<1>1. DOMAIN s = 1..n
  OBVIOUS
<1>2. s \in Seq({s[i] : i \in 1..n}) /\ Len(s) = n
  BY <1>1
<1> QED BY <1>2 DEF IsSeq

(* Append, concatenation and part of such sequences.                        *)
LEMMA SeqAppend ==
  ASSUME NEW s, IsSeq(s), NEW e
  PROVE  /\ IsSeq(Append(s, e)) /\ Len(Append(s, e)) = Len(s) + 1 /\ Append(s, e) # <<>>
         /\ \A i \in 1..Len(s) : Append(s, e)[i] = s[i]
         /\ Append(s, e)[Len(s) + 1] = e
<1> DEFINE S == {s[i] : i \in 1..Len(s)} \cup {e}
<1>1. s \in Seq({s[i] : i \in 1..Len(s)})
  BY SeqFacts
<1>2. s \in Seq(S) /\ e \in S
  BY <1>1, SeqMonotonic
<1> HIDE DEF S
<1>3. /\ Append(s, e) \in Seq(S) /\ Append(s, e) # <<>> /\ Len(Append(s, e)) = Len(s) + 1
      /\ \A i \in 1..Len(s) : Append(s, e)[i] = s[i]
      /\ Append(s, e)[Len(s) + 1] = e
  BY <1>2, AppendProperties
<1>4. IsSeq(Append(s, e))
  BY <1>3, SeqIs
<1> QED BY <1>3, <1>4

(* The two parts of a concatenation.                                         *)
LEMMA SeqConcat ==
  ASSUME NEW s, IsSeq(s), NEW u, IsSeq(u)
  PROVE  /\ IsSeq(s \o u) /\ Len(s \o u) = Len(s) + Len(u)
         /\ \A i \in 1..Len(s) : (s \o u)[i] = s[i]
         /\ \A i \in 1..Len(u) : (s \o u)[Len(s) + i] = u[i]
<1> DEFINE S == {s[i] : i \in 1..Len(s)} \cup {u[i] : i \in 1..Len(u)}
<1>1. s \in Seq({s[i] : i \in 1..Len(s)}) /\ u \in Seq({u[i] : i \in 1..Len(u)})
  BY SeqFacts
<1>2. s \in Seq(S) /\ u \in Seq(S) /\ Len(s) \in Nat /\ Len(u) \in Nat
  BY <1>1, SeqMonotonic, SeqFacts
<1> HIDE DEF S
<1>3. /\ s \o u \in Seq(S) /\ Len(s \o u) = Len(s) + Len(u)
      /\ \A i \in 1 .. Len(s) + Len(u) : (s \o u)[i] = IF i <= Len(s) THEN s[i] ELSE u[i - Len(s)]
  BY <1>2, ConcatProperties
<1>4. IsSeq(s \o u)
  BY <1>3, SeqIs
<1>5. \A i \in 1..Len(s) : i \in 1 .. Len(s) + Len(u) /\ i <= Len(s)
  BY <1>2
<1>6. \A i \in 1..Len(u) : /\ Len(s) + i \in 1 .. Len(s) + Len(u) /\ ~(Len(s) + i <= Len(s))
                           /\ (Len(s) + i) - Len(s) = i
  BY <1>2
<1> QED BY <1>3, <1>4, <1>5, <1>6

(* A part of a sequence, which may be empty.                                 *)
LEMMA SeqPart ==
  ASSUME NEW s, IsSeq(s), NEW m \in Int, NEW n \in Int, m >= 1, n <= Len(s)
  PROVE  /\ IsSeq(SubSeq(s, m, n))
         /\ Len(SubSeq(s, m, n)) = IF m <= n THEN n - m + 1 ELSE 0
         /\ \A i \in 1 .. n - m + 1 : SubSeq(s, m, n)[i] = s[m + i - 1]
<1> DEFINE S == {s[i] : i \in 1..Len(s)}
<1>1. Len(s) \in Nat
  BY SeqFacts
<1>2. \A i \in m .. n : i \in 1..Len(s)
  BY <1>1
<1>3. \A i \in m .. n : s[i] \in S
  BY <1>2
<1> HIDE DEF S
<1>4. /\ SubSeq(s,m,n) \in Seq(S)
      /\ Len(SubSeq(s,m,n)) = IF m<=n THEN n-m+1 ELSE 0
      /\ \A i \in 1 .. n-m+1 : SubSeq(s,m,n)[i] = s[m+i-1]
  BY <1>3, SubSeqProperties
<1> QED BY <1>4, SeqIs

(* A part from the first element on.                                         *)
LEMMA SeqPrefix ==
  ASSUME NEW s, IsSeq(s), NEW n \in Nat, n <= Len(s)
  PROVE  /\ IsSeq(SubSeq(s, 1, n)) /\ Len(SubSeq(s, 1, n)) = n
         /\ \A i \in 1 .. n : SubSeq(s, 1, n)[i] = s[i]
<1>1. /\ IsSeq(SubSeq(s, 1, n))
      /\ Len(SubSeq(s, 1, n)) = IF 1 <= n THEN n - 1 + 1 ELSE 0
      /\ \A i \in 1 .. n - 1 + 1 : SubSeq(s, 1, n)[i] = s[1 + i - 1]
  BY SeqPart
<1> QED BY <1>1

(* Two of the same length and elements are the same.                        *)
LEMMA SeqSame ==
  ASSUME NEW s, IsSeq(s), NEW u, IsSeq(u), Len(s) = Len(u), \A i \in 1..Len(s) : s[i] = u[i]
  PROVE  s = u
BY DEF IsSeq

(* The empty sequence.                                                       *)
LEMMA SeqEmpty == IsSeq(<<>>) /\ Len(<<>>) = 0
BY DEF IsSeq

(* What Last and Front of one are.                                          *)
LEMMA SeqEnds ==
  ASSUME NEW s, IsSeq(s), s # <<>>
  PROVE  /\ Len(s) \in Nat \ {0} /\ Len(s) \in 1..Len(s) /\ Last(s) = s[Len(s)]
         /\ IsSeq(Front(s)) /\ Len(Front(s)) = Len(s) - 1
         /\ \A i \in 1..(Len(s) - 1) : Front(s)[i] = s[i]
<1>1. Len(s) \in Nat \ {0}
  BY SeqFacts
<1>2. Front(s) = SubSeq(s, 1, Len(s) - 1) /\ Last(s) = s[Len(s)]
  BY DEF Front, Last
<1> DEFINE n == Len(s) - 1
<1>3. n \in Nat /\ n <= Len(s)
  BY <1>1
<1>4. /\ IsSeq(SubSeq(s, 1, n)) /\ Len(SubSeq(s, 1, n)) = n
      /\ \A i \in 1 .. n : SubSeq(s, 1, n)[i] = s[i]
  BY <1>3, SeqPrefix
<1> QED BY <1>1, <1>2, <1>4

-----------------------------------------------------------------------------
(* Values.  What is good stays so while closures and tables are added.      *)
LEMMA GoodKept ==
  ASSUME NEW K, NEW T, NEW J, NEW U, K \subseteq J, T \subseteq U
  PROVE  /\ \A v : Good(v, K, T) => Good(v, J, U)
         /\ \A s : IsStack(s, K, T) => IsStack(s, J, U)
         /\ \A f : IsFrame(f, K, T) => IsFrame(f, J, U)
         /\ \A fs : IsCallStack(fs, K, T) => IsCallStack(fs, J, U)
<1>1. \A v : Good(v, K, T) => Good(v, J, U)
  BY DEF Good
<1>2. \A s : IsStack(s, K, T) => IsStack(s, J, U)
  BY <1>1 DEF IsStack
<1>3. \A f : IsFrame(f, K, T) => IsFrame(f, J, U)
  BY <1>1, <1>2 DEF IsFrame
<1>4. \A fs : IsCallStack(fs, K, T) => IsCallStack(fs, J, U)
  BY <1>3 DEF IsCallStack
<1> QED BY <1>1, <1>2, <1>3, <1>4

(* Values made of nothing that is kept elsewhere.                           *)
LEMMA GoodMade ==
  ASSUME NEW K, NEW T
  PROVE  /\ Good(Nil, K, T) /\ Nil # Absent
         /\ \A n \in Longs : Good(Long(n), K, T)
         /\ \A b : Good(Bool(b), K, T)
         /\ \A x : Good(String(x), K, T)
         /\ \A x : Good(Message(x), K, T)
         /\ \A x \in Doubles : Good(<<"double", x>>, K, T)
         /\ \A k \in K : Good(Closure(k), K, T)
         /\ \A t \in T : Good(Table(t), K, T)
         /\ \A c \in Coroutines : Good(Coroutine(c), K, T)
         /\ \A p, o : Good(Userdata("light", p, o), K, T)
         /\ \A v : Literal(v) => Good(v, K, T)
         /\ \A v : Good(v, K, T) => v # Absent
         /\ Message("x") # Absent /\ \A x : Message(x) # Absent
BY DEF Good, Nil, Absent, Long, Bool, String, Message, Closure, Table, Coroutine, Userdata,
       Literal, TypeOf, DataOf, UserdataTypes

(* What a fluffyvm_integer may be.                                          *)
LEMMA LongsFacts ==
  /\ Longs \subseteq Int /\ LongMax \in Nat
  /\ \A n \in Int : n \in Longs <=> -(LongMax + 1) <= n /\ n <= LongMax
  /\ \A n \in Longs : Abs(n) \in 0..LongMax + 1
BY WidthAssumption DEF Longs, Abs

-----------------------------------------------------------------------------
(* Stacks: what each operation on one makes.                                *)
LEMMA StackFacts ==
  ASSUME NEW s, NEW K, NEW T, IsStack(s, K, T)
  PROVE  /\ IsSeq(s) /\ Len(s) \in Nat /\ DOMAIN s = 1..Len(s)
         /\ s = <<>> <=> Len(s) = 0
         /\ \A i \in 1..Len(s) : Good(s[i], K, T)
BY SeqFacts DEF IsStack

(* A value is pushed.                                                        *)
LEMMA StackAppend ==
  ASSUME NEW s, NEW K, NEW T, IsStack(s, K, T), NEW v, Good(v, K, T)
  PROVE  IsStack(Append(s, v), K, T) /\ Len(Append(s, v)) = Len(s) + 1
<1>1. IsSeq(s) /\ Len(s) \in Nat /\ \A i \in 1..Len(s) : Good(s[i], K, T)
  BY StackFacts
<1> DEFINE u == Append(s, v)
<1>2. /\ IsSeq(u) /\ Len(u) = Len(s) + 1 /\ u[Len(s) + 1] = v
      /\ \A i \in 1..Len(s) : u[i] = s[i]
  BY <1>1, SeqAppend
<1> HIDE DEF u
<1>3. \A i \in 1..Len(u) : i \in 1..Len(s) \/ i = Len(s) + 1
  BY <1>1, <1>2
<1>4. \A i \in 1..Len(u) : Good(u[i], K, T)
  BY <1>1, <1>2, <1>3
<1>5. IsStack(u, K, T)
  BY <1>2, <1>4 DEF IsStack
<1> QED BY <1>2, <1>5 DEF u

(* Values are pushed.                                                        *)
LEMMA StackConcat ==
  ASSUME NEW s, NEW u, NEW K, NEW T, IsStack(s, K, T), IsStack(u, K, T)
  PROVE  IsStack(s \o u, K, T) /\ Len(s \o u) = Len(s) + Len(u)
<1>1. /\ IsSeq(s) /\ Len(s) \in Nat /\ \A i \in 1..Len(s) : Good(s[i], K, T)
      /\ IsSeq(u) /\ Len(u) \in Nat /\ \A i \in 1..Len(u) : Good(u[i], K, T)
  BY StackFacts
<1> DEFINE w == s \o u
<1>2. /\ IsSeq(w) /\ Len(w) = Len(s) + Len(u)
      /\ \A i \in 1..Len(s) : w[i] = s[i]
      /\ \A i \in 1..Len(u) : w[Len(s) + i] = u[i]
  BY <1>1, SeqConcat
<1> HIDE DEF w
<1>3. ASSUME NEW i \in 1..Len(w) PROVE Good(w[i], K, T)
  <2>1. CASE i <= Len(s)
    BY <1>1, <1>2, <2>1
  <2>2. CASE ~(i <= Len(s))
    <3>1. i - Len(s) \in 1..Len(u) /\ Len(s) + (i - Len(s)) = i
      BY <1>1, <1>2, <2>2
    <3>2. PICK j \in 1..Len(u) : Len(s) + j = i
      BY <3>1
    <3> QED BY <1>1, <1>2, <3>2
  <2> QED BY <2>1, <2>2
<1>4. IsStack(w, K, T)
  BY <1>2, <1>3 DEF IsStack
<1> QED BY <1>2, <1>4 DEF w

(* Some of the values of a stack.                                            *)
LEMMA StackPart ==
  ASSUME NEW s, NEW K, NEW T, IsStack(s, K, T), NEW m \in Int, NEW n \in Int, m >= 1, n <= Len(s)
  PROVE  /\ IsStack(SubSeq(s, m, n), K, T)
         /\ Len(SubSeq(s, m, n)) = IF m <= n THEN n - m + 1 ELSE 0
<1>1. IsSeq(s) /\ Len(s) \in Nat /\ \A i \in 1..Len(s) : Good(s[i], K, T)
  BY StackFacts
<1> DEFINE u == SubSeq(s, m, n)
<1>2. /\ IsSeq(u) /\ Len(u) = IF m <= n THEN n - m + 1 ELSE 0
      /\ \A i \in 1 .. n - m + 1 : u[i] = s[m + i - 1]
  BY <1>1, SeqPart
<1> HIDE DEF u
<1>3. \A i \in 1..Len(u) : i \in 1 .. n - m + 1 /\ m + i - 1 \in 1..Len(s)
  BY <1>1, <1>2
<1>4. IsStack(u, K, T)
  BY <1>1, <1>2, <1>3 DEF IsStack
<1> QED BY <1>2, <1>4 DEF u

(* The values below a new top.                                               *)
LEMMA StackPrefix ==
  ASSUME NEW s, NEW K, NEW T, IsStack(s, K, T), NEW n \in Nat, n <= Len(s)
  PROVE  IsStack(SubSeq(s, 1, n), K, T) /\ Len(SubSeq(s, 1, n)) = n
<1>1. /\ IsStack(SubSeq(s, 1, n), K, T)
      /\ Len(SubSeq(s, 1, n)) = IF 1 <= n THEN n - 1 + 1 ELSE 0
  BY StackPart
<1> QED BY <1>1

(* What does not fit is cut off.                                            *)
LEMMA StackCut ==
  ASSUME NEW s, NEW K, NEW T, IsStack(s, K, T),
         NEW u, u = SubSeq(s, 1, IF Len(s) < StackSize THEN Len(s) ELSE StackSize)
  PROVE  IsStack(u, K, T) /\ Len(u) <= StackSize
<1>1. Len(s) \in Nat /\ StackSize \in Nat
  BY StackFacts, InterpreterAssumption
<1>2. PICK n : n = IF Len(s) < StackSize THEN Len(s) ELSE StackSize
  OBVIOUS
<1>3. n \in Nat /\ n <= Len(s) /\ n <= StackSize
  BY <1>1, <1>2
<1> QED BY <1>2, <1>3, StackPrefix

(* A value is replaced.                                                      *)
Put(s, k, v) == [s EXCEPT ![k] = v]

(* A stack stays one when a present value replaces another.                  *)
LEMMA StackExcept ==
  ASSUME NEW s, NEW K, NEW T, IsStack(s, K, T), NEW k \in 1..Len(s), NEW v, Good(v, K, T),
         NEW u, u = Put(s, k, v)
  PROVE  IsStack(u, K, T) /\ Len(u) = Len(s)
<1>1. IsSeq(s) /\ Len(s) \in Nat /\ \A i \in 1..Len(s) : Good(s[i], K, T)
  BY StackFacts
<1>2. /\ IsSeq(u) /\ Len(u) = Len(s) /\ u[k] = v
      /\ \A i \in 1..Len(s) : i # k => u[i] = s[i]
  <2>1. s = [i \in 1..Len(s) |-> s[i]]
    BY <1>1 DEF IsSeq
  <2>2. u = [i \in 1..Len(s) |-> u[i]] /\ u[k] = v /\ \A i \in 1..Len(s) : i # k => u[i] = s[i]
    BY <2>1 DEF Put
  <2> QED BY <1>1, <2>2, FunctionIsSeq
<1>3. \A i \in 1..Len(u) : Good(u[i], K, T)
  BY <1>1, <1>2
<1> QED BY <1>2, <1>3 DEF IsStack

(* A function on 1..n with good values.                                     *)
LEMMA StackMade ==
  ASSUME NEW K, NEW T, NEW n \in Nat, NEW s, s = [i \in 1..n |-> s[i]],
         \A i \in 1..n : Good(s[i], K, T)
  PROVE  IsStack(s, K, T) /\ Len(s) = n
<1>1. IsSeq(s) /\ Len(s) = n
  BY FunctionIsSeq
<1> QED BY <1>1 DEF IsStack

(* Nothing is a stack.                                                       *)
LEMMA StackEmpty == \A K, T : IsStack(<<>>, K, T)
BY SeqEmpty DEF IsStack

(* The top of a stack, and what is below it.                                 *)
LEMMA StackEnds ==
  ASSUME NEW s, NEW K, NEW T, IsStack(s, K, T), s # <<>>
  PROVE  /\ Len(s) \in Nat \ {0} /\ Last(s) = s[Len(s)] /\ Good(Last(s), K, T)
         /\ IsStack(Front(s), K, T) /\ Len(Front(s)) = Len(s) - 1
<1>1. IsSeq(s) /\ \A i \in 1..Len(s) : Good(s[i], K, T)
  BY StackFacts
<1>2. /\ Len(s) \in Nat \ {0} /\ Len(s) \in 1..Len(s) /\ Last(s) = s[Len(s)]
      /\ IsSeq(Front(s)) /\ Len(Front(s)) = Len(s) - 1
      /\ \A i \in 1..(Len(s) - 1) : Front(s)[i] = s[i]
  BY <1>1, SeqEnds
<1>3. \A i \in 1..Len(Front(s)) : i \in 1..(Len(s) - 1) /\ i \in 1..Len(s)
  BY <1>2
<1>4. IsStack(Front(s), K, T)
  BY <1>1, <1>2, <1>3 DEF IsStack
<1> QED BY <1>1, <1>2, <1>4

-----------------------------------------------------------------------------
(* Frames and call stacks.                                                  *)
LEMMA FrameFacts ==
  ASSUME NEW f, NEW K, NEW T, IsFrame(f, K, T)
  PROVE  /\ f.fn \in K \cup {1} /\ IsStack(f.stack, K, T) /\ Len(f.stack) <= StackSize /\ f.pc \in Nat
         /\ f.rets \in Int /\ f.rets >= -1 /\ IsCall(f.call)
BY DEF IsFrame

(* Changes of one component of a frame.                                     *)
LEMMA FrameStack ==
  ASSUME NEW f, NEW K, NEW T, IsFrame(f, K, T), NEW s, IsStack(s, K, T), Len(s) <= StackSize,
         NEW g, g = [f EXCEPT !.stack = s]
  PROVE  /\ IsFrame(g, K, T) /\ g.stack = s /\ g.call = f.call /\ g.fn = f.fn /\ g.rets = f.rets
         /\ g.pc = f.pc /\ g.flags = f.flags
<1>1. g = [fn |-> f.fn, stack |-> s, regs |-> f.regs, flags |-> f.flags, pc |-> f.pc,
           known |-> f.known, rets |-> f.rets, call |-> f.call]
  BY DEF IsFrame
<1> QED BY <1>1 DEF IsFrame

(* A call goes on at p, knowing k of its next instruction.                   *)
LEMMA FramePc ==
  ASSUME NEW f, NEW K, NEW T, IsFrame(f, K, T), NEW p \in Nat, NEW k,
         NEW g, g = [f EXCEPT !.pc = p, !.known = k]
  PROVE  /\ IsFrame(g, K, T) /\ g.stack = f.stack /\ g.call = f.call /\ g.fn = f.fn
         /\ g.rets = f.rets /\ g.pc = p /\ g.flags = f.flags
<1>1. g = [fn |-> f.fn, stack |-> f.stack, regs |-> f.regs, flags |-> f.flags, pc |-> p,
           known |-> k, rets |-> f.rets, call |-> f.call]
  BY DEF IsFrame
<1> QED BY <1>1 DEF IsFrame

(* A call goes on at p.                                                      *)
LEMMA FramePcOnly ==
  ASSUME NEW f, NEW K, NEW T, IsFrame(f, K, T), NEW p \in Nat,
         NEW g, g = [f EXCEPT !.pc = p]
  PROVE  /\ IsFrame(g, K, T) /\ g.stack = f.stack /\ g.call = f.call /\ g.fn = f.fn
         /\ g.rets = f.rets /\ g.pc = p /\ g.flags = f.flags
<1>1. g = [fn |-> f.fn, stack |-> f.stack, regs |-> f.regs, flags |-> f.flags, pc |-> p,
           known |-> f.known, rets |-> f.rets, call |-> f.call]
  BY DEF IsFrame
<1> QED BY <1>1 DEF IsFrame

(* A call goes on at the next instruction.                                   *)
LEMMA FrameNext ==
  ASSUME NEW f, NEW K, NEW T, IsFrame(f, K, T), NEW g, g = Next1(f)
  PROVE  /\ IsFrame(g, K, T) /\ g.stack = f.stack /\ g.call = f.call /\ g.fn = f.fn
         /\ g.rets = f.rets /\ g.flags = f.flags
<1>1. f.pc + 1 \in Nat
  BY DEF IsFrame
<1>2. g = [fn |-> f.fn, stack |-> f.stack, regs |-> f.regs, flags |-> f.flags, pc |-> f.pc + 1,
           known |-> TRUE, rets |-> f.rets, call |-> f.call]
  BY DEF Next1, IsFrame
<1>3. PICK k : k = TRUE
  OBVIOUS
<1>4. g = [fn |-> f.fn, stack |-> f.stack, regs |-> f.regs, flags |-> f.flags, pc |-> f.pc + 1,
           known |-> k, rets |-> f.rets, call |-> f.call]
  BY <1>2, <1>3
<1> QED BY <1>1, <1>4 DEF IsFrame

(* A call keeps the outcome of a comparison.                                 *)
LEMMA FrameFlags ==
  ASSUME NEW f, NEW K, NEW T, IsFrame(f, K, T), NEW x, NEW g, g = [f EXCEPT !.flags = x]
  PROVE  /\ IsFrame(g, K, T) /\ g.stack = f.stack /\ g.call = f.call /\ g.fn = f.fn /\ g.flags = x
<1>1. g = [fn |-> f.fn, stack |-> f.stack, regs |-> f.regs, flags |-> x, pc |-> f.pc,
           known |-> f.known, rets |-> f.rets, call |-> f.call]
  BY DEF IsFrame
<1> QED BY <1>1 DEF IsFrame

(* A call answers with n results and the stack s.                            *)
Answered(f, n, s) == [f EXCEPT !.rets = n, !.stack = s]

(* Its frame is one.                                                         *)
LEMMA FrameRets ==
  ASSUME NEW f, NEW K, NEW T, IsFrame(f, K, T), NEW n \in Nat, NEW s, IsStack(s, K, T),
         Len(s) <= StackSize, NEW g, g = Answered(f, n, s)
  PROVE  IsFrame(g, K, T) /\ g.stack = s /\ g.call = f.call /\ g.fn = f.fn
<1>1. g = [fn |-> f.fn, stack |-> s, regs |-> f.regs, flags |-> f.flags, pc |-> f.pc,
           known |-> f.known, rets |-> n, call |-> f.call]
  BY DEF IsFrame, Answered
<1>2. n \in Int /\ n >= -1
  OBVIOUS
<1>3. /\ f.fn \in K \cup {1} /\ f.pc \in Nat /\ IsCall(f.call)
      /\ f.regs = [r \in Registers |-> f.regs[r]]
      /\ \A r \in Registers : f.regs[r] = Absent \/ Good(f.regs[r], K, T)
  BY DEF IsFrame
<1>4. /\ g.fn = f.fn /\ g.stack = s /\ g.regs = f.regs /\ g.flags = f.flags /\ g.pc = f.pc
      /\ g.known = f.known /\ g.rets = n /\ g.call = f.call
  BY <1>1
<1> QED BY <1>1, <1>2, <1>3, <1>4 DEF IsFrame

(* A call answers with n results of the stack it has.                        *)
LEMMA FrameRetsOnly ==
  ASSUME NEW f, NEW K, NEW T, IsFrame(f, K, T), NEW n \in Nat, NEW g, g = [f EXCEPT !.rets = n]
  PROVE  IsFrame(g, K, T) /\ g.stack = f.stack /\ g.call = f.call /\ g.fn = f.fn
<1>1. g = [fn |-> f.fn, stack |-> f.stack, regs |-> f.regs, flags |-> f.flags, pc |-> f.pc,
           known |-> f.known, rets |-> n, call |-> f.call]
  BY DEF IsFrame
<1> QED BY <1>1 DEF IsFrame

(* A register is set.                                                        *)
LEMMA FrameRegister ==
  ASSUME NEW f, NEW K, NEW T, IsFrame(f, K, T), NEW r \in Registers, NEW v, Good(v, K, T),
         NEW g, g = [f EXCEPT !.regs[r] = v]
  PROVE  IsFrame(g, K, T) /\ g.stack = f.stack /\ g.call = f.call /\ g.fn = f.fn
<1> DEFINE regs == [f.regs EXCEPT ![r] = v]
<1>1. g = [fn |-> f.fn, stack |-> f.stack, regs |-> regs, flags |-> f.flags, pc |-> f.pc,
           known |-> f.known, rets |-> f.rets, call |-> f.call]
  BY DEF IsFrame
<1>2. f.regs = [q \in Registers |-> f.regs[q]]
      /\ \A q \in Registers : f.regs[q] = Absent \/ Good(f.regs[q], K, T)
  BY DEF IsFrame
<1>3. regs = [q \in Registers |-> regs[q]] /\ \A q \in Registers : regs[q] = IF q = r THEN v ELSE f.regs[q]
  BY <1>2
<1> HIDE DEF regs
<1>4. \A q \in Registers : regs[q] = Absent \/ Good(regs[q], K, T)
  BY <1>2, <1>3
<1> QED BY <1>1, <1>3, <1>4 DEF IsFrame

(* The frame of a new call.                                                  *)
LEMMA FrameMade ==
  ASSUME NEW K, NEW T, NEW fn \in K \cup {1}, NEW s, IsStack(s, K, T), Len(s) <= StackSize,
         NEW call, IsCall(call), NEW g, g = NewFrame(fn, s, call)
  PROVE  IsFrame(g, K, T) /\ g.stack = s /\ g.call = call /\ g.fn = fn
<1> DEFINE regs == [r \in 0..RegistersNum-1 |-> Absent]
<1>1. g = [fn |-> fn, stack |-> s, regs |-> regs, flags |-> {}, pc |-> 0, known |-> FALSE,
           rets |-> -1, call |-> call]
  BY DEF NewFrame
<1>2. regs = [r \in Registers |-> regs[r]] /\ \A r \in Registers : regs[r] = Absent
  BY DEF Registers
<1> HIDE DEF regs
<1> QED BY <1>1, <1>2 DEF IsFrame

(* The limits.                                                             *)
LEMMA LimitFacts == StackSize \in Nat /\ MaxDepth \in Nat /\ MaxDepth >= 1
<1>1. StackSize \in Nat
  BY InterpreterAssumption
<1>2. MaxDepth \in Nat \ {0}
  BY InterpreterAssumption
<1>3. MaxDepth \in Nat /\ MaxDepth >= 1
  BY <1>2
<1> QED BY <1>1, <1>3

(* The calls in progress of a coroutine: the last frame changes, is pushed, *)
(* or goes.                                                                *)
LEMMA CallStackFacts ==
  ASSUME NEW fs, NEW K, NEW T, IsCallStack(fs, K, T), fs # <<>>
  PROVE  /\ IsSeq(fs) /\ Len(fs) \in Nat \ {0} /\ Len(fs) \in 1..Len(fs) /\ Len(fs) <= MaxDepth
         /\ DOMAIN fs = 1..Len(fs)
         /\ Last(fs) = fs[Len(fs)] /\ IsFrame(Last(fs), K, T)
         /\ \A i \in 1..Len(fs) : IsFrame(fs[i], K, T)
         /\ Linked(fs)
BY SeqEnds, SeqFacts DEF IsCallStack

(* The innermost call changes, and stays the call that it was.               *)
TopIs(fs, g) == [fs EXCEPT ![Len(fs)] = g]

(* The call stack stays one when its innermost call changes.                 *)
LEMMA CallStackTop ==
  ASSUME NEW fs, NEW K, NEW T, IsCallStack(fs, K, T), fs # <<>>,
         NEW g, IsFrame(g, K, T), g.call = Last(fs).call, g.fn = Last(fs).fn,
         NEW u, u = TopIs(fs, g)
  PROVE  /\ IsCallStack(u, K, T) /\ u # <<>> /\ Len(u) = Len(fs) /\ Last(u) = g
         /\ \A i \in 1..(Len(fs) - 1) : u[i] = fs[i]
<1>1. /\ IsSeq(fs) /\ Len(fs) \in Nat \ {0} /\ Len(fs) \in 1..Len(fs) /\ Len(fs) <= MaxDepth
      /\ Last(fs) = fs[Len(fs)] /\ \A i \in 1..Len(fs) : IsFrame(fs[i], K, T)
  BY CallStackFacts
<1>2. /\ IsSeq(u) /\ Len(u) = Len(fs) /\ u[Len(fs)] = g
      /\ \A i \in 1..Len(fs) : i # Len(fs) => u[i] = fs[i]
  <2>1. PICK k \in 1..Len(fs) : k = Len(fs)
    BY <1>1
  <2>2. u = [fs EXCEPT ![k] = g]
    BY <2>1 DEF TopIs
  <2>3. /\ IsSeq(u) /\ Len(u) = Len(fs) /\ u[k] = g
        /\ \A i \in 1..Len(fs) : i # k => u[i] = fs[i]
    <3>1. fs = [i \in 1..Len(fs) |-> fs[i]]
      BY <1>1 DEF IsSeq
    <3>2. /\ u = [i \in 1..Len(fs) |-> u[i]] /\ u[k] = g
          /\ \A i \in 1..Len(fs) : i # k => u[i] = fs[i]
      BY <2>2, <3>1
    <3> QED BY <1>1, <3>2, FunctionIsSeq
  <2> QED BY <2>1, <2>3
<1>3. u # <<>> /\ Last(u) = g
  <2>1. u # <<>>
    BY <1>1, <1>2, SeqFacts
  <2> QED BY <1>2, <2>1, SeqEnds
<1>4. \A i \in 1..(Len(fs) - 1) : u[i] = fs[i]
  BY <1>1, <1>2
<1>5. \A i \in 1..Len(u) : IsFrame(u[i], K, T)
  BY <1>1, <1>2
<1>6. ASSUME NEW i \in 2..Len(u)
      PROVE  /\ u[i].call.base <= Len(u[i-1].stack)
             /\ u[i].call.below = SubSeq(u[i-1].stack, 1, u[i].call.base)
  <2>1. i \in 2..Len(fs) /\ i - 1 \in 1..Len(fs) /\ i - 1 # Len(fs) /\ i \in 1..Len(fs)
    BY <1>1, <1>2
  <2>2. u[i-1] = fs[i-1] /\ u[i].call = fs[i].call
    BY <1>1, <1>2, <2>1
  <2>3. /\ fs[i].call.base <= Len(fs[i-1].stack)
        /\ fs[i].call.below = SubSeq(fs[i-1].stack, 1, fs[i].call.base)
    BY <2>1 DEF IsCallStack, Linked
  <2> QED BY <2>2, <2>3
<1>7. \A i \in 2..Len(u) : u[i].fn # 1
  <2>1. \A i \in 2..Len(fs) : fs[i].fn # 1 /\ i \in 1..Len(fs)
    BY <1>1 DEF IsCallStack
  <2> QED BY <1>1, <1>2, <2>1
<1> QED BY <1>1, <1>2, <1>3, <1>4, <1>5, <1>6, <1>7 DEF IsCallStack, Linked

(* A call is entered: its caller changes, the callee is new                  *)
(* (coroutine_function_prolog).                                              *)
Entered(fs, caller, callee) == Append(Front(fs), caller) \o <<callee>>

(* It stays one, and deeper by one, when the callee's ghost is what its      *)
(* caller's stack begins with.                                               *)
LEMMA CallStackPush ==
  ASSUME NEW fs, NEW K, NEW T, IsCallStack(fs, K, T), fs # <<>>, Len(fs) < MaxDepth,
         NEW caller, IsFrame(caller, K, T), caller.call = Last(fs).call, caller.fn = Last(fs).fn,
         NEW callee, IsFrame(callee, K, T), callee.fn # 1,
         callee.call.base <= Len(caller.stack),
         callee.call.below = SubSeq(caller.stack, 1, callee.call.base),
         NEW u, u = Entered(fs, caller, callee)
  PROVE  /\ IsCallStack(u, K, T) /\ u # <<>> /\ Len(u) = Len(fs) + 1
         /\ u[Len(fs)] = caller /\ u[Len(fs) + 1] = callee
<1> DEFINE n == Len(fs)
           v == Append(Front(fs), caller)
<1>1. /\ IsSeq(fs) /\ n \in Nat \ {0} /\ n \in 1..n /\ Last(fs) = fs[n]
      /\ \A i \in 1..n : IsFrame(fs[i], K, T)
  BY CallStackFacts
<1>2. /\ IsSeq(Front(fs)) /\ Len(Front(fs)) = n - 1 /\ \A i \in 1..(n - 1) : Front(fs)[i] = fs[i]
  BY <1>1, SeqEnds
<1>3. /\ IsSeq(v) /\ Len(v) = (n - 1) + 1 /\ v[(n - 1) + 1] = caller
      /\ \A i \in 1..(n - 1) : v[i] = Front(fs)[i]
  BY <1>2, SeqAppend
<1>4. IsSeq(v) /\ Len(v) = n /\ v[n] = caller /\ \A i \in 1..(n - 1) : v[i] = fs[i]
  BY <1>1, <1>2, <1>3
<1> HIDE DEF v
<1>5. PICK w : w = <<callee>> /\ u = v \o w /\ IsSeq(w) /\ Len(w) = 1 /\ w[1] = callee
  <2>1. IsSeq(<<callee>>) /\ Len(<<callee>>) = 1 /\ <<callee>>[1] = callee
    BY DEF IsSeq
  <2>2. u = v \o <<callee>>
    BY DEF v, Entered
  <2> QED BY <2>1, <2>2
<1>6. /\ IsSeq(u) /\ Len(u) = n + 1 /\ \A i \in 1..n : u[i] = v[i]
      /\ \A i \in 1..1 : u[n + i] = w[i]
  <2>0. IsSeq(v) /\ IsSeq(w)
    BY <1>4, <1>5
  <2>1. /\ IsSeq(v \o w) /\ Len(v \o w) = Len(v) + Len(w)
        /\ \A i \in 1..Len(v) : (v \o w)[i] = v[i]
        /\ \A i \in 1..Len(w) : (v \o w)[Len(v) + i] = w[i]
    BY <2>0, SeqConcat
  <2> QED BY <1>4, <1>5, <2>1
<1>7. IsSeq(u) /\ Len(u) = n + 1 /\ u[n] = caller /\ u[n + 1] = callee
      /\ \A i \in 1..(n - 1) : u[i] = fs[i]
  BY <1>1, <1>4, <1>5, <1>6
<1>8. u # <<>>
  BY <1>1, <1>7, SeqFacts
<1>9. \A i \in 1..Len(u) : IsFrame(u[i], K, T)
  BY <1>1, <1>7
<1>10. ASSUME NEW i \in 2..Len(u)
       PROVE  /\ u[i].call.base <= Len(u[i-1].stack)
              /\ u[i].call.below = SubSeq(u[i-1].stack, 1, u[i].call.base)
  <2>1. CASE i = n + 1
    <3>1. u[i] = callee /\ u[i-1] = caller
      BY <1>1, <1>7, <2>1
    <3> QED BY <3>1
  <2>2. CASE i # n + 1
    <3>1. i \in 2..n /\ i - 1 \in 1..(n - 1) /\ (i = n \/ i \in 1..(n - 1))
      BY <1>1, <1>7, <2>2
    <3>2. u[i-1] = fs[i-1] /\ u[i].call = fs[i].call
      BY <1>1, <1>7, <3>1
    <3>3. /\ fs[i].call.base <= Len(fs[i-1].stack)
          /\ fs[i].call.below = SubSeq(fs[i-1].stack, 1, fs[i].call.base)
      BY <3>1 DEF IsCallStack, Linked
    <3> QED BY <3>2, <3>3
  <2> QED BY <2>1, <2>2
<1>11. Len(u) <= MaxDepth
  <2>1. Len(fs) + 1 <= MaxDepth
    BY <1>1, LimitFacts
  <2> QED BY <1>7, <2>1
<1>12. \A i \in 2..Len(u) : u[i].fn # 1
  <2>1. \A i \in 2..n : fs[i].fn # 1
    BY DEF IsCallStack
  <2>2. \A i \in 2..Len(u) : i = n + 1 \/ (i = n /\ n \in 2..n) \/ (i \in 1..(n - 1) /\ i \in 2..n)
    BY <1>1, <1>7
  <2> QED BY <1>1, <1>7, <2>1, <2>2
<1> QED BY <1>7, <1>8, <1>9, <1>10, <1>11, <1>12 DEF IsCallStack, Linked

(* A call is left: its caller becomes the innermost call                     *)
(* (coroutine_function_epilog).                                              *)
BackIn(fs, g) == Append(SubSeq(fs, 1, Len(fs) - 2), g)

(* It stays one, and one less deep.                                          *)
LEMMA CallStackPop ==
  ASSUME NEW fs, NEW K, NEW T, IsCallStack(fs, K, T), Len(fs) > 1,
         NEW g, IsFrame(g, K, T), g.call = fs[Len(fs) - 1].call, g.fn = fs[Len(fs) - 1].fn,
         NEW u, u = BackIn(fs, g)
  PROVE  IsCallStack(u, K, T) /\ u # <<>> /\ Len(u) = Len(fs) - 1 /\ u[Len(fs) - 1] = g
<1> DEFINE n == Len(fs)
           v == SubSeq(fs, 1, n - 2)
<1>1. IsSeq(fs) /\ n \in Nat /\ \A i \in 1..n : IsFrame(fs[i], K, T)
  BY SeqFacts DEF IsCallStack
<1>2. n - 2 \in Nat /\ n - 2 <= n
  BY <1>1
<1>3. IsSeq(v) /\ Len(v) = n - 2 /\ \A i \in 1..(n - 2) : v[i] = fs[i]
  BY <1>1, <1>2, SeqPrefix
<1>10. u = Append(v, g)
  BY DEF BackIn
<1> HIDE DEF v
<1>4. /\ IsSeq(u) /\ Len(u) = (n - 2) + 1 /\ u # <<>> /\ \A i \in 1..(n - 2) : u[i] = v[i]
      /\ u[(n - 2) + 1] = g
  <2>1. /\ IsSeq(Append(v, g)) /\ Len(Append(v, g)) = Len(v) + 1 /\ Append(v, g) # <<>>
        /\ \A i \in 1..Len(v) : Append(v, g)[i] = v[i]
        /\ Append(v, g)[Len(v) + 1] = g
    BY <1>3, SeqAppend
  <2> QED BY <1>3, <1>10, <2>1
<1>5. IsSeq(u) /\ Len(u) = n - 1 /\ u # <<>> /\ u[n - 1] = g /\ \A i \in 1..(n - 2) : u[i] = fs[i]
  BY <1>1, <1>3, <1>4
<1>6. \A i \in 1..Len(u) : IsFrame(u[i], K, T)
  BY <1>1, <1>5
<1>7. ASSUME NEW i \in 2..Len(u)
      PROVE  /\ u[i].call.base <= Len(u[i-1].stack)
             /\ u[i].call.below = SubSeq(u[i-1].stack, 1, u[i].call.base)
  <2>1. i \in 2..n /\ i - 1 \in 1..(n - 2) /\ (i = n - 1 \/ i \in 1..(n - 2))
    BY <1>1, <1>5
  <2>2. u[i-1] = fs[i-1] /\ u[i].call = fs[i].call
    BY <1>1, <1>5, <2>1
  <2>3. /\ fs[i].call.base <= Len(fs[i-1].stack)
        /\ fs[i].call.below = SubSeq(fs[i-1].stack, 1, fs[i].call.base)
    BY <2>1 DEF IsCallStack, Linked
  <2> QED BY <2>2, <2>3
<1>8. Len(u) <= MaxDepth
  <2>1. n <= MaxDepth
    BY DEF IsCallStack
  <2>2. n - 1 <= MaxDepth
    BY <1>1, <2>1, LimitFacts
  <2> QED BY <1>5, <2>2
<1>9. \A i \in 2..Len(u) : u[i].fn # 1
  <2>1. \A i \in 2..n : fs[i].fn # 1
    BY DEF IsCallStack
  <2>2. \A i \in 2..Len(u) : i \in 2..n /\ (i = n - 1 \/ i \in 1..(n - 2))
    BY <1>1, <1>5
  <2> QED BY <1>1, <1>5, <2>1, <2>2
<1> QED BY <1>5, <1>6, <1>7, <1>8, <1>9 DEF IsCallStack, Linked

(* A coroutine that is not started, and one that has just been.              *)
LEMMA CallStackFirst ==
  ASSUME NEW K, NEW T
  PROVE  /\ IsCallStack(<<>>, K, T)
         /\ \A f : IsFrame(f, K, T) => IsCallStack(<<f>>, K, T) /\ <<f>> # <<>>
<1>1. IsCallStack(<<>>, K, T)
  BY SeqEmpty, LimitFacts DEF IsCallStack, Linked
<1>2. ASSUME NEW f, IsFrame(f, K, T) PROVE IsCallStack(<<f>>, K, T) /\ <<f>> # <<>>
  <2>1. IsSeq(<<f>>) /\ Len(<<f>>) = 1 /\ <<f>>[1] = f
    BY DEF IsSeq
  <2>2. 1 <= MaxDepth
    BY LimitFacts
  <2>3. IsCallStack(<<f>>, K, T)
    BY <1>2, <2>1, <2>2 DEF IsCallStack, Linked
  <2> QED BY <2>3
<1> QED BY <1>1, <1>2

-----------------------------------------------------------------------------
(* Steps.  The frames of all coroutines, and when two states of them have   *)
(* the same calls in progress.                                              *)
AllStacks(fs, K, T) ==
  fs = [c \in Coroutines |-> fs[c]] /\ \A c \in Coroutines : IsCallStack(fs[c], K, T)

(* Two states of the frames with the same calls in progress.                 *)
Alike(fs, gs) ==
  \A c \in Coroutines :
    /\ gs[c] = <<>> <=> fs[c] = <<>>
    /\ Len(gs[c]) = Len(fs[c])
    /\ fs[c] # <<>> =>
         /\ Last(gs[c]).fn = Last(fs[c]).fn
         /\ (Last(gs[c]).fn = 1 /\ Last(gs[c]).pc = 0) => Last(fs[c]).pc = 0

(* The heap grew, if it changed.                                            *)
HeapStep ==
  program' = program =>
    HeapInv' /\ Callees \subseteq Callees' /\ DOMAIN tables \subseteq (DOMAIN tables)'

(* A step that neither calls nor returns, and one that changes the values   *)
(* of at most one stack.                                                    *)
SameDepth ==
  \A c \in Coroutines :
    frames[c] # <<>> => \/ Len(frames'[c]) = Len(frames[c])
                        \/ Len(frames[c]) = 1 /\ frames'[c] = <<>>

(* All innermost calls but one coroutine's have the stacks they had.         *)
OneStack ==
  \E L \in Coroutines : \A c \in Coroutines :
    (c # L /\ frames[c] # <<>>) => frames'[c] # <<>> /\ Last(frames'[c]).stack = Last(frames[c]).stack

(* The three action properties, of one step.                                *)
ReturnsRight ==
  \A c \in Coroutines :
    LET n == Len(frames[c]) IN
      (n > 1 /\ Len(frames'[c]) = n - 1) =>
        LET f == frames[c][n] IN
          frames'[c][n - 1].stack = f.call.below \o
            Adjusted(Given(f), IF f.call.wanted = All THEN Len(f.stack) ELSE f.call.wanted)

(* MainGetsArguments, of one step.                                           *)
StartsRight ==
  \A c \in Coroutines :
    (Len(frames[c]) = 1 /\ Len(frames'[c]) = 2 /\ closures[frames[c][1].fn].kind = "trampoline") =>
      LET s == frames[c][1].stack
          n == Len(s)
      IN  s[n] = Long(n - 3) =>
            /\ Closure(frames'[c][2].fn) = s[1]
            /\ frames'[c][2].stack = SubSeq(s, 2, n - 2)

(* MovesKeepOrder, of one step.                                              *)
MovesRight ==
  \A L, to \in Coroutines :
    (L # to /\ nest' = nest /\ \A c \in {L, to} :
       /\ frames[c] # <<>> /\ Len(frames'[c]) = Len(frames[c])
       /\ Last(frames'[c]).stack # Stack(c))
    => \E from \in {L, to} :
         LET dest == IF from = L THEN to ELSE L
             all  == Stack(dest) \o SubSeq(Stack(from), Len(Last(frames'[from]).stack) + 1,
                                          Len(Stack(from)))
             got  == Last(frames'[dest]).stack
         IN  IsPrefix(Last(frames'[from]).stack, Stack(from))
             /\ IsPrefix(got, all) /\ (got = all \/ Len(got) = StackSize)

(* All three.                                                                *)
StepsRight == ReturnsRight /\ StartsRight /\ MovesRight

(* The coroutine that executes.                                             *)
LEMMA CoFacts ==
  ASSUME IInv
  PROVE  /\ Len(nest) \in Nat \ {0} /\ Co = nest[Len(nest)]
         /\ Co \in Coroutines /\ status[Co] = "running" /\ frames[Co] # <<>>
         /\ IsCallStack(frames[Co], Callees, DOMAIN tables)
         /\ Len(frames[Co]) \in Nat \ {0} /\ Top = frames[Co][Len(frames[Co])]
         /\ IsFrame(Top, Callees, DOMAIN tables)
<1>1. nest \in Seq(Coroutines) /\ nest # <<>>
  BY DEF IInv, FlowInv
<1>2. Len(nest) \in Nat \ {0} /\ Co = nest[Len(nest)]
  <2>1. IsSeq(nest)
    BY <1>1, SeqIs
  <2> QED BY <1>1, <2>1, SeqEnds DEF Co
<1>3. Len(nest) \in DOMAIN nest /\ Co \in Coroutines
  BY <1>1, <1>2
<1>4. status[Co] = "running" /\ frames[Co] # <<>>
  BY <1>2, <1>3 DEF IInv, FlowInv
<1>5. IsCallStack(frames[Co], Callees, DOMAIN tables)
  BY <1>3 DEF IInv, FramesInv
<1>6. /\ Len(frames[Co]) \in Nat \ {0} /\ Last(frames[Co]) = frames[Co][Len(frames[Co])]
      /\ IsFrame(Last(frames[Co]), Callees, DOMAIN tables)
  BY <1>4, <1>5, CallStackFacts
<1> QED BY <1>2, <1>3, <1>4, <1>5, <1>6 DEF Top

(* The stack of a coroutine with frames.                                    *)
LEMMA StackOf ==
  ASSUME IInv, NEW L \in Coroutines, frames[L] # <<>>
  PROVE  /\ IsFrame(Last(frames[L]), Callees, DOMAIN tables)
         /\ IsStack(Stack(L), Callees, DOMAIN tables) /\ Len(Stack(L)) <= StackSize
         /\ Len(Stack(L)) \in Nat
<1>1. IsCallStack(frames[L], Callees, DOMAIN tables)
  BY DEF IInv, FramesInv
<1>2. IsFrame(Last(frames[L]), Callees, DOMAIN tables)
  BY <1>1, CallStackFacts
<1>3. IsStack(Stack(L), Callees, DOMAIN tables) /\ Len(Stack(L)) <= StackSize
  BY <1>2, FrameFacts DEF Stack
<1> QED BY <1>2, <1>3, StackFacts

(* A step that leaves the heap alone.                                       *)
LEMMA HeapSame ==
  ASSUME IInv, UNCHANGED heap
  PROVE  HeapStep
<1> SUFFICES ASSUME program' = program
             PROVE  HeapInv' /\ Callees \subseteq Callees' /\ DOMAIN tables \subseteq (DOMAIN tables)'
  BY DEF HeapStep
<1>1. closures' = closures /\ tables' = tables
  BY DEF heap
<1>2. Callees' = Callees
  BY <1>1 DEF Callees
<1> QED BY <1>1, <1>2 DEF IInv, HeapInv

(* Frames stay what they are when the heap grows.                           *)
LEMMA FramesKept ==
  ASSUME IInv, HeapStep, program' = program
  PROVE  AllStacks(frames, Callees', (DOMAIN tables)')
<1>1. AllStacks(frames, Callees, DOMAIN tables)
  BY DEF IInv, FramesInv, AllStacks
<1> QED BY <1>1, GoodKept DEF AllStacks, HeapStep

(* A step that leaves who runs alone and keeps every call in progress, made *)
(* by other than a trampoline that is to call its function.                 *)
LEMMA StillFlow ==
  ASSUME IInv, HeapStep, program' = program, UNCHANGED <<nest, status, thrown>>,
         AllStacks(frames', Callees', (DOMAIN tables)'), Alike(frames, frames'), ~Pending(Co)
  PROVE  IInv' /\ SameDepth
<1>1. program' \in Programs /\ HeapInv'
  BY DEF IInv, HeapStep
<1>2. nest' = nest /\ status' = status /\ thrown' = thrown /\ Co' = Co
  BY DEF Co
<1>3. FlowInv'
  BY <1>2 DEF IInv, FlowInv, Alike
<1>4. FramesInv'
  BY DEF FramesInv, AllStacks
<1>5. PendingInv'
  <2> SUFFICES ASSUME NEW c \in Coroutines, status[c] = "running", Pending(c)'
               PROVE  FALSE
    BY <1>2 DEF PendingInv
  <2>1. Pending(c)
    BY DEF Pending, Alike
  <2> QED BY <2>1 DEF IInv, PendingInv
<1>6. SameDepth
  BY DEF SameDepth, Alike
<1> QED BY <1>1, <1>3, <1>4, <1>5, <1>6 DEF IInv

(* Front(nest).                                                            *)
LEMMA NestFront ==
  ASSUME IInv, Co # Host, nest' = Front(nest)
  PROVE  /\ nest' \in Seq(Coroutines) /\ nest' # <<>> /\ nest'[1] = Host
         /\ \A i, j \in DOMAIN nest' : nest'[i] = nest'[j] => i = j
         /\ \A c \in Coroutines : (\E i \in DOMAIN nest' : nest'[i] = c) <=>
                                  (c # Co /\ \E i \in DOMAIN nest : nest[i] = c)
         /\ Co' # Co
<1> DEFINE n == Len(nest)
<1>1. /\ nest \in Seq(Coroutines) /\ nest # <<>> /\ nest[1] = Host
      /\ \A i, j \in DOMAIN nest : nest[i] = nest[j] => i = j
  BY DEF IInv, FlowInv
<1>2. n \in Nat \ {0} /\ Co = nest[n] /\ n # 1
  BY <1>1, CoFacts
<1>3. IsSeq(nest)
  BY <1>1, SeqIs
<1>4. /\ IsSeq(nest') /\ Len(nest') = n - 1 /\ \A i \in 1..(n - 1) : nest'[i] = nest[i]
  BY <1>1, <1>3, SeqEnds
<1>5. nest' \in Seq(Coroutines)
  <2>1. \A i \in 1..(n - 1) : nest[i] \in Coroutines
    BY <1>1, <1>2
  <2> QED BY <1>4, <2>1 DEF IsSeq
<1>6. nest' # <<>> /\ nest'[1] = Host /\ DOMAIN nest' = 1..(n - 1) /\ DOMAIN nest = 1..n
  BY <1>1, <1>2, <1>4, <1>5
<1>7. \A i, j \in DOMAIN nest' : nest'[i] = nest'[j] => i = j
  BY <1>1, <1>2, <1>4, <1>6
<1>8. ASSUME NEW c \in Coroutines
      PROVE  (\E i \in DOMAIN nest' : nest'[i] = c) <=> (c # Co /\ \E i \in DOMAIN nest : nest[i] = c)
  <2>1. \A i \in 1..n : i = n \/ i \in 1..(n - 1)
    BY <1>2
  <2>2. \A i \in 1..(n - 1) : i \in 1..n /\ i # n /\ n \in 1..n
    BY <1>2
  <2> QED BY <1>1, <1>2, <1>4, <1>6, <2>1, <2>2
<1>9. Co' # Co
  <2>1. Co' = nest'[n - 1] /\ n - 1 \in 1..(n - 1)
    <3>1. Last(nest') = nest'[Len(nest')]
      BY <1>4, <1>6, SeqEnds
    <3> QED BY <1>2, <1>4, <3>1 DEF Co
  <2>2. nest'[n - 1] = nest[n - 1] /\ n - 1 \in DOMAIN nest /\ n \in DOMAIN nest /\ n - 1 # n
    BY <1>2, <1>4, <1>6, <2>1
  <2> QED BY <1>1, <1>2, <2>1, <2>2
<1> QED BY <1>1, <1>5, <1>6, <1>7, <1>8, <1>9

(* The executing coroutine is left: by an error it keeps with its frames,   *)
(* by the return of its first function, or by a yield.                      *)
LEMMA LeaveFlow ==
  ASSUME IInv, HeapStep, Co # Host, NEW how, NEW err, Leave(how, err),
         AllStacks(frames', Callees', (DOMAIN tables)'),
         how \in {"suspended", "dead"},
         err # Absent => how = "dead",
         how = "suspended" => frames'[Co] # <<>>,
         how = "dead" => (err # Absent <=> frames'[Co] # <<>>),
         \A c \in Coroutines : c # Co =>
           /\ frames'[c] = <<>> <=> frames[c] = <<>>
           /\ frames'[c] # <<>> =>
                /\ Last(frames'[c]).fn = Last(frames[c]).fn
                /\ (Last(frames'[c]).fn = 1 /\ Last(frames'[c]).pc = 0) => Last(frames[c]).pc = 0
  PROVE  IInv'
<1>0. /\ program' = program /\ nest' = Front(nest)
      /\ status' = [status EXCEPT ![Co] = how] /\ thrown' = [thrown EXCEPT ![Co] = err]
  BY DEF Leave
<1>1. program' \in Programs /\ HeapInv'
  BY <1>0 DEF IInv, HeapStep
<1>2. /\ Co \in Coroutines /\ status[Co] = "running"
  BY CoFacts
<1>3. /\ nest' \in Seq(Coroutines) /\ nest' # <<>> /\ nest'[1] = Host
      /\ \A i, j \in DOMAIN nest' : nest'[i] = nest'[j] => i = j
      /\ \A c \in Coroutines : (\E i \in DOMAIN nest' : nest'[i] = c) <=>
                               (c # Co /\ \E i \in DOMAIN nest : nest[i] = c)
      /\ Co' # Co
  BY <1>0, NestFront
<1>4. /\ status \in [Coroutines -> {"none", "suspended", "running", "dead"}]
      /\ thrown = [c \in Coroutines |-> thrown[c]]
  BY DEF IInv, FlowInv
<1>5. /\ status' \in [Coroutines -> {"none", "suspended", "running", "dead"}]
      /\ thrown' = [c \in Coroutines |-> thrown'[c]]
      /\ status'[Co] = how /\ thrown'[Co] = err
      /\ \A c \in Coroutines : c # Co => status'[c] = status[c] /\ thrown'[c] = thrown[c]
  BY <1>0, <1>2, <1>4
<1>6. ASSUME NEW c \in Coroutines
      PROVE  /\ status'[c] = "running" <=> \E i \in DOMAIN nest' : nest'[i] = c
             /\ status'[c] \in {"running", "suspended"} => frames'[c] # <<>>
             /\ status'[c] = "none" => frames'[c] = <<>>
             /\ thrown'[c] # Absent => status'[c] = "dead"
             /\ status'[c] = "dead" => (thrown'[c] # Absent <=> frames'[c] # <<>>)
  <2>1. /\ status[c] = "running" <=> \E i \in DOMAIN nest : nest[i] = c
        /\ status[c] \in {"running", "suspended"} => frames[c] # <<>>
        /\ status[c] = "none" => frames[c] = <<>>
        /\ thrown[c] # Absent => status[c] = "dead"
        /\ status[c] = "dead" => (thrown[c] # Absent <=> frames[c] # <<>>)
    BY DEF IInv, FlowInv
  <2>2. CASE c = Co
    BY <1>3, <1>5, <2>2
  <2>3. CASE c # Co
    <3>1. frames'[c] = <<>> <=> frames[c] = <<>>
      BY <2>3
    <3>2. status'[c] = status[c] /\ thrown'[c] = thrown[c]
      BY <1>5, <2>3
    <3>3. (\E i \in DOMAIN nest' : nest'[i] = c) <=> (\E i \in DOMAIN nest : nest[i] = c)
      BY <1>3, <2>3
    <3> QED BY ONLY <2>1, <3>1, <3>2, <3>3
  <2> QED BY <2>2, <2>3
<1>7. FlowInv'
  BY <1>3, <1>5, <1>6 DEF FlowInv
<1>8. FramesInv'
  BY DEF FramesInv, AllStacks
<1>9. PendingInv'
  <2> SUFFICES ASSUME NEW c \in Coroutines, status'[c] = "running", Pending(c)'
               PROVE  FALSE
    BY DEF PendingInv
  <2>1. c # Co /\ status[c] = "running"
    BY <1>5
  <2>2. Pending(c)
    <3>1. frames'[c] # <<>> /\ Last(frames'[c]).fn = 1 /\ Last(frames'[c]).pc = 0
      BY DEF Pending
    <3>2. /\ frames'[c] = <<>> <=> frames[c] = <<>>
          /\ frames'[c] # <<>> =>
               /\ Last(frames'[c]).fn = Last(frames[c]).fn
               /\ (Last(frames'[c]).fn = 1 /\ Last(frames'[c]).pc = 0) => Last(frames[c]).pc = 0
      BY <2>1
    <3>3. frames[c] # <<>> /\ Last(frames[c]).fn = 1 /\ Last(frames[c]).pc = 0
      BY ONLY <3>1, <3>2, Zenon
    <3> QED BY <3>3 DEF Pending
  <2> QED BY <2>1, <2>2 DEF IInv, PendingInv
<1> QED BY <1>1, <1>7, <1>8, <1>9 DEF IInv

(* The same, where no other coroutine is touched.                           *)
LEMMA LeaveAlone ==
  ASSUME IInv, HeapStep, Co # Host, NEW how, NEW err, Leave(how, err),
         AllStacks(frames', Callees', (DOMAIN tables)'),
         how \in {"suspended", "dead"},
         err # Absent => how = "dead",
         how = "suspended" => frames'[Co] # <<>>,
         how = "dead" => (err # Absent <=> frames'[Co] # <<>>),
         \A c \in Coroutines : c # Co => frames'[c] = frames[c]
  PROVE  IInv'
<1>1. \A c \in Coroutines : c # Co =>
           /\ frames'[c] = <<>> <=> frames[c] = <<>>
           /\ frames'[c] # <<>> =>
                /\ Last(frames'[c]).fn = Last(frames[c]).fn
                /\ (Last(frames'[c]).fn = 1 /\ Last(frames'[c]).pc = 0) => Last(frames[c]).pc = 0
  OBVIOUS
<1> QED BY <1>1, LeaveFlow

(* What a step keeps that neither calls nor returns, and a quiet one.       *)
LEMMA DepthKeeps ==
  ASSUME IInv, SameDepth
  PROVE  ReturnsRight /\ StartsRight
<1>1. ASSUME NEW c \in Coroutines
      PROVE  /\ Len(frames[c]) \in Nat /\ frames[c] = <<>> <=> Len(frames[c]) = 0
             /\ Len(<<>>) = 0
  BY SeqFacts, SeqEmpty DEF IInv, FramesInv, IsCallStack
<1>2. ReturnsRight
  BY <1>1 DEF ReturnsRight, SameDepth
<1>3. StartsRight
  BY <1>1 DEF StartsRight, SameDepth
<1> QED BY <1>2, <1>3

(* A step that neither calls nor returns, and one stack of which changes,    *)
(* breaks none of the three.                                                 *)
LEMMA QuietKeeps ==
  ASSUME IInv, SameDepth, OneStack
  PROVE  StepsRight
<1>1. MovesRight
  BY DEF MovesRight, OneStack, Stack
<1> QED BY <1>1, DepthKeeps DEF StepsRight

(* A step that leaves the frames alone.                                     *)
LEMMA FramesSame ==
  ASSUME IInv, UNCHANGED frames
  PROVE  SameDepth /\ OneStack /\ Alike(frames, frames')
<1>1. Co \in Coroutines
  BY CoFacts
<1> QED BY <1>1 DEF SameDepth, OneStack, Alike

(* The process is lost, or an error is raised.                              *)
LEMMA LoseStep ==
  ASSUME IInv, HeapStep, NEW how, Lose(how)
  PROVE  IInv' /\ StepsRight
<1>1. program' = program /\ frames' = frames /\ UNCHANGED flow
  BY DEF Lose
<1>2. SameDepth /\ OneStack
  BY <1>1, FramesSame
<1>3. program' \in Programs /\ HeapInv'
  BY <1>1 DEF IInv, HeapStep
<1>4. FlowInv'
  BY <1>1 DEF IInv, FlowInv, flow
<1>5. AllStacks(frames, Callees', (DOMAIN tables)')
  BY <1>1, FramesKept
<1>6. FramesInv'
  BY <1>1, <1>5 DEF FramesInv, AllStacks
<1>7. PendingInv'
  BY <1>1 DEF IInv, PendingInv, Pending, flow, Stack, Co
<1> QED BY <1>2, <1>3, <1>4, <1>6, <1>7, QuietKeeps DEF IInv

(* interpreter_error: the coroutine that executes dies with the message, its *)
(* frames stay; without a setjmp block, or a message, the process is lost.   *)
LEMMA RaiseLeavingStep ==
  ASSUME IInv, HeapStep, NEW m, NEW left, RaiseLeaving(left, m),
         program' = program => AllStacks(left, Callees', (DOMAIN tables)'),
         Alike(frames, left), NEW L \in Coroutines,
         \A c \in Coroutines : (c # L /\ frames[c] # <<>>) =>
           left[c] # <<>> /\ Last(left[c]).stack = Last(frames[c]).stack
  PROVE  IInv' /\ StepsRight
<1>1. CASE \E how : Lose(how)
  BY <1>1, LoseStep
<1>2. CASE Co # Host /\ m # Absent /\ Leave("dead", m) /\ frames' = left
  <2>1. SameDepth /\ OneStack
    BY <1>2 DEF SameDepth, OneStack, Alike
  <2>2. program' = program
    BY <1>2 DEF Leave
  <2>3. AllStacks(frames', Callees', (DOMAIN tables)')
    BY <1>2, <2>2
  <2>4. frames'[Co] # <<>>
    BY <1>2, CoFacts DEF Alike
  <2>5. \A c \in Coroutines : c # Co =>
           /\ frames'[c] = <<>> <=> frames[c] = <<>>
           /\ frames'[c] # <<>> =>
                /\ Last(frames'[c]).fn = Last(frames[c]).fn
                /\ (Last(frames'[c]).fn = 1 /\ Last(frames'[c]).pc = 0) => Last(frames[c]).pc = 0
    BY <1>2 DEF Alike
  <2>6. IInv'
    BY <1>2, <2>3, <2>4, <2>5, LeaveFlow
  <2> QED BY <2>1, <2>6, QuietKeeps
<1> QED BY <1>1, <1>2 DEF RaiseLeaving

(* The same for an operation that failed before it changed anything.        *)
LEMMA RaiseStep ==
  ASSUME IInv, HeapStep, NEW m, Raise(m)
  PROVE  IInv' /\ StepsRight
<1>1. Alike(frames, frames) /\ Co \in Coroutines
  BY CoFacts DEF Alike
<1>2. program' = program => AllStacks(frames, Callees', (DOMAIN tables)')
  BY FramesKept
<1>3. \A c \in Coroutines : (c # Co /\ frames[c] # <<>>) =>
        frames[c] # <<>> /\ Last(frames[c]).stack = Last(frames[c]).stack
  OBVIOUS
<1> QED BY <1>1, <1>2, <1>3, RaiseLeavingStep DEF Raise

(* The last call of one coroutine changes.                                  *)
ThatTopIs(fs, L, g) == [fs EXCEPT ![L][Len(fs[L])] = g]

(* The innermost call of one coroutine changes.                              *)
LEMMA TopChanged ==
  ASSUME NEW fs, NEW K, NEW T, AllStacks(fs, K, T), NEW L \in Coroutines, fs[L] # <<>>,
         NEW g, IsFrame(g, K, T), g.call = Last(fs[L]).call, g.fn = Last(fs[L]).fn,
         (g.fn = 1 /\ g.pc = 0) => Last(fs[L]).pc = 0,
         NEW gs, gs = ThatTopIs(fs, L, g)
  PROVE  /\ AllStacks(gs, K, T) /\ Alike(fs, gs) /\ gs[L] # <<>> /\ Last(gs[L]) = g
         /\ \A c \in Coroutines : c # L => gs[c] = fs[c]
<1>1. PICK u : u = TopIs(fs[L], g)
  OBVIOUS
<1>2. gs = [fs EXCEPT ![L] = u]
  BY <1>1 DEF ThatTopIs, TopIs
<1>3. fs = [c \in Coroutines |-> fs[c]] /\ \A c \in Coroutines : IsCallStack(fs[c], K, T)
  BY DEF AllStacks
<1>4. /\ gs = [c \in Coroutines |-> gs[c]] /\ gs[L] = u
      /\ \A c \in Coroutines : c # L => gs[c] = fs[c]
  BY <1>2, <1>3
<1>5. IsCallStack(u, K, T) /\ u # <<>> /\ Len(u) = Len(fs[L]) /\ Last(u) = g
  BY <1>1, <1>3, CallStackTop
<1>6. AllStacks(gs, K, T)
  BY <1>3, <1>4, <1>5 DEF AllStacks
<1>7. Alike(fs, gs)
  <2> SUFFICES ASSUME NEW c \in Coroutines
               PROVE  /\ gs[c] = <<>> <=> fs[c] = <<>>
                      /\ Len(gs[c]) = Len(fs[c])
                      /\ fs[c] # <<>> =>
                           /\ Last(gs[c]).fn = Last(fs[c]).fn
                           /\ (Last(gs[c]).fn = 1 /\ Last(gs[c]).pc = 0) => Last(fs[c]).pc = 0
    BY DEF Alike
  <2>1. CASE c = L
    BY <1>4, <1>5, <2>1
  <2>2. CASE c # L
    BY <1>4, <2>2
  <2> QED BY <2>1, <2>2
<1> QED BY <1>4, <1>5, <1>6, <1>7

(* Two changes that keep the calls in progress keep them together.           *)
LEMMA AlikeTwice ==
  ASSUME NEW fs, NEW gs, NEW hs, Alike(fs, gs), Alike(gs, hs)
  PROVE  Alike(fs, hs)
BY DEF Alike

(* SetTop: the executing call changes.                                      *)
LEMMA SetTopStep ==
  ASSUME IInv, HeapStep, ~Pending(Co), NEW f, SetTop(f),
         program' = program => IsFrame(f, Callees', (DOMAIN tables)'),
         f.call = Top.call, f.fn = Top.fn, Top.fn = 1 => f.pc > 0
  PROVE  IInv' /\ StepsRight
<1>1. /\ frames' = ThatTopIs(frames, Co, f)
      /\ program' = program /\ UNCHANGED flow
  BY DEF SetTop, ThatTopIs
<1>2. Co \in Coroutines /\ frames[Co] # <<>> /\ Top = Last(frames[Co])
  BY CoFacts DEF Top
<1>3. AllStacks(frames, Callees', (DOMAIN tables)')
  BY <1>1, FramesKept
<1>4. IsFrame(f, Callees', (DOMAIN tables)')
  BY <1>1
<1>5. /\ AllStacks(frames', Callees', (DOMAIN tables)') /\ Alike(frames, frames')
      /\ \A c \in Coroutines : c # Co => frames'[c] = frames[c]
  <2>1. (f.fn = 1 /\ f.pc = 0) => Last(frames[Co]).pc = 0
    BY <1>2
  <2> QED BY <1>1, <1>2, <1>3, <1>4, <2>1, TopChanged
<1>6. IInv' /\ SameDepth
  BY <1>1, <1>5, StillFlow DEF flow
<1>7. OneStack
  BY <1>2, <1>5 DEF OneStack
<1> QED BY <1>6, <1>7, QuietKeeps

(* WithStack, and the count of API calls.                                   *)
LEMMA WithStackFacts ==
  ASSUME NEW fs, NEW K, NEW T, AllStacks(fs, K, T), NEW L \in Coroutines, fs[L] # <<>>,
         NEW s, IsStack(s, K, T), Len(s) <= StackSize, NEW gs, gs = WithStack(fs, L, s)
  PROVE  /\ AllStacks(gs, K, T) /\ Alike(fs, gs) /\ gs[L] # <<>> /\ Last(gs[L]).stack = s
         /\ Last(gs[L]).pc = Last(fs[L]).pc
         /\ \A c \in Coroutines : c # L => gs[c] = fs[c]
<1>1. fs = [c \in Coroutines |-> fs[c]] /\ IsCallStack(fs[L], K, T)
  BY DEF AllStacks
<1>2. /\ Len(fs[L]) \in 1..Len(fs[L]) /\ DOMAIN fs[L] = 1..Len(fs[L])
      /\ Last(fs[L]) = fs[L][Len(fs[L])] /\ IsFrame(Last(fs[L]), K, T)
  BY <1>1, CallStackFacts
<1>3. PICK g : g = [Last(fs[L]) EXCEPT !.stack = s]
  OBVIOUS
<1>4. /\ IsFrame(g, K, T) /\ g.stack = s /\ g.call = Last(fs[L]).call /\ g.fn = Last(fs[L]).fn
      /\ g.pc = Last(fs[L]).pc
  BY <1>2, <1>3, FrameStack
<1>5. gs = ThatTopIs(fs, L, g)
  BY <1>1, <1>2, <1>3 DEF WithStack, ThatTopIs
<1>6. /\ AllStacks(gs, K, T) /\ Alike(fs, gs) /\ gs[L] # <<>> /\ Last(gs[L]) = g
      /\ \A c \in Coroutines : c # L => gs[c] = fs[c]
  BY <1>4, <1>5, TopChanged
<1> QED BY <1>4, <1>6

(* A call into the API advances the counter of its native function, and      *)
(* changes nothing else.                                                     *)
LEMMA CountedFacts ==
  ASSUME IInv, NEW K, NEW T, AllStacks(frames, K, T)
  PROVE  /\ AllStacks(Counted, K, T) /\ Alike(frames, Counted)
         /\ \A c \in Coroutines : c # Co => Counted[c] = frames[c]
         /\ \A c \in Coroutines : frames[c] # <<>> => /\ Counted[c] # <<>>
                                                      /\ Last(Counted[c]).stack = Last(frames[c]).stack
<1>1. frames = [c \in Coroutines |-> frames[c]] /\ Co \in Coroutines /\ frames[Co] # <<>>
      /\ IsCallStack(frames[Co], K, T)
  BY CoFacts DEF AllStacks
<1>2. /\ Len(frames[Co]) \in 1..Len(frames[Co]) /\ DOMAIN frames[Co] = 1..Len(frames[Co])
      /\ Last(frames[Co]) = frames[Co][Len(frames[Co])] /\ IsFrame(Last(frames[Co]), K, T)
  BY <1>1, CallStackFacts
<1>3. PICK p : p = Last(frames[Co]).pc + 1
  OBVIOUS
<1>4. p \in Nat /\ p # 0
  <2>1. Last(frames[Co]).pc \in Nat
    BY <1>2, FrameFacts
  <2> QED BY <1>3, <2>1
<1>5. PICK g : g = [Last(frames[Co]) EXCEPT !.pc = p]
  OBVIOUS
<1>6. /\ IsFrame(g, K, T) /\ g.stack = Last(frames[Co]).stack /\ g.call = Last(frames[Co]).call
      /\ g.fn = Last(frames[Co]).fn /\ g.pc # 0
  BY <1>2, <1>4, <1>5, FramePcOnly
<1>7. Counted = ThatTopIs(frames, Co, g)
  BY <1>1, <1>2, <1>3, <1>5 DEF Counted, ThatTopIs
<1>8. /\ AllStacks(Counted, K, T) /\ Alike(frames, Counted) /\ Counted[Co] # <<>>
      /\ Last(Counted[Co]) = g /\ \A c \in Coroutines : c # Co => Counted[c] = frames[c]
  BY <1>1, <1>6, <1>7, TopChanged
<1>9. ASSUME NEW c \in Coroutines, frames[c] # <<>>
      PROVE  Counted[c] # <<>> /\ Last(Counted[c]).stack = Last(frames[c]).stack
  BY <1>6, <1>8, <1>9
<1> QED BY <1>8, <1>9

(* A native function executes, so no trampoline.                            *)
LEMMA NativeFacts ==
  ASSUME IInv, Native
  PROVE  Top.fn # 1 /\ ~Pending(Co)
<1>1. Top.fn # 1
  BY DEF Native, IInv, HeapInv
<1> QED BY <1>1 DEF Pending, Top

(* An operation on the stack of L, which its outcome tells.                 *)
LEMMA ApplyStep ==
  ASSUME IInv, HeapStep, Native, NEW L \in Coroutines, frames[L] # <<>>, NEW out, Apply(L, out),
         (program' = program /\ out.status = "ok") =>
            IsStack(out.val, Callees', (DOMAIN tables)') /\ Len(out.val) <= StackSize
  PROVE  IInv' /\ StepsRight
<1>1. CASE out.status = "ok"
  <2>1. frames' = WithStack(Counted, L, out.val) /\ program' = program /\ UNCHANGED flow
    BY <1>1 DEF Apply
  <2>2. IsStack(out.val, Callees', (DOMAIN tables)') /\ Len(out.val) <= StackSize
    BY <1>1, <2>1
  <2>3. AllStacks(frames, Callees', (DOMAIN tables)')
    BY <2>1, FramesKept
  <2>4. /\ AllStacks(Counted, Callees', (DOMAIN tables)') /\ Alike(frames, Counted)
        /\ \A c \in Coroutines : frames[c] # <<>> => /\ Counted[c] # <<>>
                                                     /\ Last(Counted[c]).stack = Last(frames[c]).stack
    BY <2>3, CountedFacts
  <2>5. /\ AllStacks(frames', Callees', (DOMAIN tables)') /\ Alike(Counted, frames')
        /\ \A c \in Coroutines : c # L => frames'[c] = Counted[c]
    BY <2>1, <2>2, <2>4, WithStackFacts
  <2>6. Alike(frames, frames')
    BY <2>4, <2>5, AlikeTwice
  <2>7. IInv' /\ SameDepth
    BY <2>1, <2>5, <2>6, NativeFacts, StillFlow DEF flow
  <2>8. OneStack
    BY <2>4, <2>5 DEF OneStack
  <2> QED BY <2>7, <2>8, QuietKeeps
<1>2. CASE out.status = "error"
  BY <1>2, RaiseStep DEF Apply
<1>3. CASE out.status # "ok" /\ out.status # "error"
  BY <1>3, LoseStep DEF Apply
<1> QED BY <1>1, <1>2, <1>3

-----------------------------------------------------------------------------
(* Values that are read and made.                                           *)
LEMMA ProgramFacts ==
  ASSUME IInv
  PROVE  /\ program.protos \in Seq([code : Seq(Instruction), protos : Seq(1..Len(program.protos))])
         /\ \A i \in DOMAIN program.constants : Literal(program.constants[i])
         /\ \A v \in program.values : Literal(v)
         /\ program.indices \subseteq Int /\ program.counts \subseteq Longs
         /\ program.counts \subseteq Int /\ program.rets \subseteq Nat
BY ProgramsAssumption, LongsFacts DEF IInv

(* Bytecode executes: the prototype is there, and its environment.          *)
LEMMA BytecodeFacts ==
  ASSUME IInv, Bytecode
  PROVE  /\ Top.fn \in Callees /\ Top.fn # 1 /\ ~Pending(Co)
         /\ Good(closures[Top.fn].env, Callees, DOMAIN tables)
         /\ Proto(Top) \in [code : Seq(Instruction), protos : Seq(1..Len(program.protos))]
<1>1. Top.fn \in Callees \cup {1}
  BY CoFacts, FrameFacts
<1>2. Top.fn # 1
  BY DEF Bytecode, IInv, HeapInv
<1>3. ~Pending(Co)
  BY <1>2 DEF Pending, Top
<1>4. Good(closures[Top.fn].env, Callees, DOMAIN tables)
  BY <1>1, <1>2 DEF IInv, HeapInv, Callees
<1>5. closures[Top.fn].proto \in DOMAIN program.protos
  BY <1>1, <1>2 DEF Bytecode, Callees
<1>6. Proto(Top) \in [code : Seq(Instruction), protos : Seq(1..Len(program.protos))]
  <2>1. PICK P : P = [code : Seq(Instruction), protos : Seq(1..Len(program.protos))]
    OBVIOUS
  <2>2. program.protos \in Seq(P)
    BY <2>1, ProgramFacts
  <2>3. PICK k : k = closures[Top.fn].proto /\ k \in DOMAIN program.protos
    BY <1>5
  <2>4. program.protos[k] \in P
    BY <2>2, <2>3
  <2> QED BY <2>1, <2>3, <2>4 DEF Proto
<1> QED BY <1>1, <1>2, <1>3, <1>4, <1>6

(* The next instruction is one.                                              *)
LEMMA InsFacts ==
  ASSUME IInv, InCode
  PROVE  Ins \in Instruction /\ Ins.A \in Nat /\ Ins.B \in Nat /\ Ins.C \in Nat
<1>1. Proto(Top).code \in Seq(Instruction) /\ Top.pc \in Nat /\ Top.pc < Len(Proto(Top).code)
  BY BytecodeFacts, CoFacts, FrameFacts DEF InCode
<1>2. Top.pc + 1 \in 1..Len(Proto(Top).code)
  BY <1>1
<1>3. Ins \in Instruction
  BY <1>1, <1>2 DEF Ins
<1> QED BY <1>3 DEF Instruction

(* A register is read: a value that is present.                             *)
LEMMA RegisterGood ==
  ASSUME IInv, Bytecode
  PROVE  \A r : Good(Register(Top, r), Callees, DOMAIN tables)
<1>1. Top.fn \in Callees /\ Good(closures[Top.fn].env, Callees, DOMAIN tables)
  BY BytecodeFacts
<1>2. \A r \in Registers : Top.regs[r] = Absent \/ Good(Top.regs[r], Callees, DOMAIN tables)
  BY CoFacts DEF IsFrame
<1>3. Good(Nil, Callees, DOMAIN tables) /\ Good(Closure(Top.fn), Callees, DOMAIN tables)
  BY <1>1, GoodMade
<1> SUFFICES ASSUME NEW r PROVE Good(Register(Top, r), Callees, DOMAIN tables)
  OBVIOUS
<1>4. CASE r = EnvReg
  <2>1. r # CurrentReg /\ r \notin Registers
    BY <1>4, InterpreterAssumption, SMT DEF EnvReg, CurrentReg, ReservedStart, Registers
  <2> QED BY <1>1, <1>4, <2>1 DEF Register
<1>5. CASE r = CurrentReg
  <2>1. r # EnvReg /\ r \notin Registers
    BY <1>5, InterpreterAssumption, SMT DEF EnvReg, CurrentReg, ReservedStart, Registers
  <2> QED BY <1>3, <1>5, <2>1 DEF Register
<1>6. CASE r # EnvReg /\ r # CurrentReg /\ r \in Registers /\ Top.regs[r] # Absent
  BY <1>2, <1>6 DEF Register
<1>7. CASE r # EnvReg /\ r # CurrentReg /\ ~(r \in Registers /\ Top.regs[r] # Absent)
  BY <1>3, <1>7 DEF Register
<1> QED BY <1>4, <1>5, <1>6, <1>7

(* Division of magnitudes: the quotient, and what remains.                  *)
LEMMA DivFacts ==
  ASSUME NEW n \in Nat, NEW d \in Nat, d >= 1
  PROVE  /\ n \div d \in Nat /\ n \div d <= n /\ (d >= 2 => 2 * (n \div d) <= n)
         /\ d * (n \div d) \in Nat /\ d * (n \div d) <= n
<1>1. PICK q : q = n \div d
  OBVIOUS
<1>2. q \in Nat /\ d * q <= n /\ d * q \in Nat
  BY <1>1, SMTT(30)
<1>3. d * q >= q
  <2>1. PICK e \in Nat : d = e + 1
    <3>1. d - 1 \in Nat /\ d = (d - 1) + 1
      OBVIOUS
    <3> QED BY <3>1
  <2>2. e * q \in Nat /\ (e + 1) * q = e * q + q
    BY ONLY <1>2, SMTT(30)
  <2> QED BY <1>2, <2>1, <2>2
<1>4. d >= 2 => d * q >= 2 * q
  <2> SUFFICES ASSUME d >= 2 PROVE d * q >= 2 * q
    OBVIOUS
  <2>1. PICK e \in Nat : d = e + 2
    <3>1. d - 2 \in Nat /\ d = (d - 2) + 2
      OBVIOUS
    <3> QED BY <3>1
  <2>2. e * q \in Nat /\ (e + 2) * q = e * q + 2 * q
    BY ONLY <1>2, SMTT(30)
  <2> QED BY <1>2, <2>1, <2>2
<1>5. q <= n
  BY <1>2, <1>3
<1>6. d >= 2 => 2 * q <= n
  BY <1>2, <1>4
<1> QED BY <1>1, <1>2, <1>5, <1>6

(* Arithmetic on longs makes a long.                                        *)
LEMMA LongMade ==
  /\ \A a \in Int : Wrap(a) \in Longs
  /\ \A a, b \in Longs : ~Traps(a, b) =>
       Quotient(a, b) \in Longs /\ a - b * Quotient(a, b) \in Longs
<1>0. PICK m \in Nat : m = LongMax + 1 /\ m >= 1
  BY WidthAssumption
<1>L. \A n \in Int : n \in Longs <=> -m <= n /\ n < m
  BY <1>0, LongsFacts
<1>1. ASSUME NEW a \in Int PROVE Wrap(a) \in Longs
  <2>1. PICK w \in Nat : w = 2 * m /\ w > 0
    BY <1>0
  <2>2. (a + m) % w \in 0..w - 1
    BY <2>1
  <2>3. Wrap(a) = ((a + m) % w) - m
    BY <1>0, <2>1, WidthAssumption DEF Wrap
  <2>4. -m <= Wrap(a) /\ Wrap(a) < m /\ Wrap(a) \in Int
    BY <1>0, <2>1, <2>2, <2>3
  <2> QED BY <1>L, <2>4
<1>2. ASSUME NEW a \in Longs, NEW b \in Longs, ~Traps(a, b)
      PROVE  Quotient(a, b) \in Longs /\ a - b * Quotient(a, b) \in Longs
  <2>1. a \in Int /\ b \in Int /\ -m <= a /\ a < m /\ b # 0 /\ (b = -1 => a # -m)
    <3>1. -(LongMax + 1) = -m
      BY <1>0
    <3> QED BY <1>2, <1>L, <3>1, LongsFacts DEF Traps
  <2>2. PICK n \in Nat, d \in Nat : n = Abs(a) /\ d = Abs(b)
    BY <2>1 DEF Abs
  <2>3. d >= 1 /\ n <= m /\ a = (IF a < 0 THEN -n ELSE n) /\ b = (IF b < 0 THEN -d ELSE d)
    BY <2>1, <2>2 DEF Abs
  <2>4. PICK q \in Nat : q = n \div d /\ q <= n /\ (d >= 2 => 2 * q <= n)
    BY <2>3, DivFacts
  <2>5. PICK p \in Nat : p = d * q /\ p <= n
    BY <2>3, <2>4, DivFacts
  <2>6. Quotient(a, b) = IF (a < 0) = (b < 0) THEN q ELSE -q
    BY <2>2, <2>4 DEF Quotient
  <2>7. ASSUME (a < 0) = (b < 0) PROVE q < m
    <3>1. CASE d >= 2
      BY <1>0, <2>3, <2>4, <3>1
    <3>2. CASE d = 1 /\ b < 0
      <4>1. b = -1 /\ a < 0
        BY <2>1, <2>3, <2>7, <3>2
      <4>2. n < m
        BY <1>0, <2>1, <2>3, <4>1
      <4> QED BY <1>0, <2>4, <4>2
    <3>3. CASE d = 1 /\ ~(b < 0)
      <4>1. ~(a < 0)
        BY <2>7, <3>3
      <4>2. n < m
        BY <1>0, <2>1, <2>3, <4>1
      <4> QED BY <1>0, <2>4, <4>2
    <3> QED BY <2>3, <3>1, <3>2, <3>3
  <2>8. Quotient(a, b) \in Int /\ -m <= Quotient(a, b) /\ Quotient(a, b) < m
    <3>1. CASE (a < 0) = (b < 0)
      BY <1>0, <2>6, <2>7, <3>1
    <3>2. CASE ~((a < 0) = (b < 0))
      <4>1. Quotient(a, b) = -q
        BY <2>6, <3>2
      <4> QED BY <1>0, <2>3, <2>4, <4>1
    <3> QED BY <3>1, <3>2
  <2>9. b * Quotient(a, b) = IF a < 0 THEN -p ELSE p
    <3>1. CASE a < 0 /\ b < 0
      <4>1. Quotient(a, b) = q /\ b = -d
        BY <2>3, <2>6, <3>1
      <4>2. (-d) * q = -(d * q)
        OBVIOUS
      <4> QED BY <2>5, <3>1, <4>1, <4>2
    <3>2. CASE a < 0 /\ ~(b < 0)
      <4>1. Quotient(a, b) = -q /\ b = d
        BY <2>3, <2>6, <3>2
      <4>2. d * (-q) = -(d * q)
        OBVIOUS
      <4> QED BY <2>5, <3>2, <4>1, <4>2
    <3>3. CASE ~(a < 0) /\ b < 0
      <4>1. Quotient(a, b) = -q /\ b = -d
        BY <2>3, <2>6, <3>3
      <4>2. (-d) * (-q) = d * q
        OBVIOUS
      <4> QED BY <2>5, <3>3, <4>1, <4>2
    <3>4. CASE ~(a < 0) /\ ~(b < 0)
      <4>1. Quotient(a, b) = q /\ b = d
        BY <2>3, <2>6, <3>4
      <4> QED BY <2>5, <3>4, <4>1
    <3> QED BY <3>1, <3>2, <3>3, <3>4
  <2>10. PICK r : r = b * Quotient(a, b)
    OBVIOUS
  <2>11. a - r \in Int /\ -m <= a - r /\ a - r < m
    <3>1. CASE a < 0
      <4>1. a = -n /\ r = -p
        BY <2>3, <2>9, <2>10, <3>1
      <4> QED BY <1>0, <2>1, <2>3, <2>5, <4>1
    <3>2. CASE ~(a < 0)
      <4>1. a = n /\ r = p
        BY <2>3, <2>9, <2>10, <3>2
      <4> QED BY <1>0, <2>1, <2>3, <2>5, <4>1
    <3> QED BY <3>1, <3>2
  <2> QED BY <1>L, <2>8, <2>10, <2>11
<1> QED BY <1>1, <1>2

(* A number as a double.                                                    *)
LEMMA AsDoubleGood ==
  ASSUME NEW K, NEW T, NEW v, Good(v, K, T), IsNumeric(v)
  PROVE  /\ ToDouble(v).status = "ok" /\ TypeOf(AsDouble(v)) = "double"
         /\ DataOf(AsDouble(v)) \in Doubles
<1>1. CASE TypeOf(v) = "double"
  <2>1. AsDouble(v) = v /\ ToDouble(v).status = "ok"
    BY <1>1 DEF ToDouble, AsDouble, Ok
  <2> QED BY <1>1, <2>1 DEF Good
<1>2. CASE TypeOf(v) = "long"
  <2>1. PICK neg, mag : neg = (DataOf(v) < 0) /\ mag = Nearest(Abs(DataOf(v)))
    OBVIOUS
  <2>2. DataOf(v) \in Longs
    BY <1>2 DEF Good
  <2>3. neg \in BOOLEAN /\ mag \in 0..LongMax
    <3>1. (DataOf(v) < 0) \in BOOLEAN
      OBVIOUS
    <3>2. Abs(DataOf(v)) \in 0..LongMax + 1
      BY <2>2, LongsFacts
    <3> QED BY <2>1, <3>1, <3>2, DoubleAssumption
  <2>4. ToDouble(v) = Ok(Double(neg, mag))
    BY <1>2, <2>1 DEF ToDouble
  <2>5. ToDouble(v).status = "ok" /\ AsDouble(v) = <<"double", [neg |-> neg, mag |-> mag]>>
    BY <2>4 DEF Ok, Double, AsDouble
  <2> QED BY <2>3, <2>5 DEF TypeOf, DataOf, Doubles
<1> QED BY <1>1, <1>2 DEF IsNumeric, NumericTypes

(* The result of an arithmetic instruction is a present value.               *)
LEMMA MathGood ==
  ASSUME NEW K, NEW T, NEW op \in {"+", "-", "*", "/", "%", "^"},
         NEW a, Good(a, K, T), NEW b, Good(b, K, T), Math(op, a, b).status = "ok"
  PROVE  Good(Math(op, a, b).val, K, T)
<1>1. IsNumeric(a) /\ IsNumeric(b)
  BY DEF Math, Fail
<1>2. CASE TypeOf(a) = "double" \/ TypeOf(b) = "double"
  <2>1. PICK d \in Doubles : d = DoubleArith(op, DataOf(Coerce(a, b)[1]), DataOf(Coerce(a, b)[2]))
    <3>1. CASE TypeOf(a) = TypeOf(b)
      <4>1. Coerce(a, b)[1] = a /\ Coerce(a, b)[2] = b
        BY <3>1 DEF Coerce
      <4>2. DataOf(a) \in Doubles /\ DataOf(b) \in Doubles
        BY <1>2, <3>1 DEF Good
      <4> QED BY <4>1, <4>2, DoubleAssumption
    <3>2. CASE TypeOf(a) # TypeOf(b)
      <4>1. Coerce(a, b)[1] = AsDouble(a) /\ Coerce(a, b)[2] = AsDouble(b)
        BY <3>2 DEF Coerce, AsDouble
      <4>2. DataOf(AsDouble(a)) \in Doubles /\ DataOf(AsDouble(b)) \in Doubles
        BY <1>1, AsDoubleGood
      <4> QED BY <4>1, <4>2, DoubleAssumption
    <3> QED BY <3>1, <3>2
  <2>2. Math(op, a, b) = Ok(<<"double", d>>)
    BY <1>1, <1>2, <2>1 DEF Math
  <2>3. Math(op, a, b).val = <<"double", d>>
    BY <2>2 DEF Ok
  <2>4. Good(<<"double", d>>, K, T)
    BY GoodMade
  <2> QED BY <2>3, <2>4
<1>3. CASE ~(TypeOf(a) = "double" \/ TypeOf(b) = "double")
  <2>1. TypeOf(a) = "long" /\ TypeOf(b) = "long"
    BY <1>1, <1>3 DEF IsNumeric, NumericTypes
  <2>2. PICK x \in Longs, y \in Longs : x = DataOf(a) /\ y = DataOf(b)
    BY <2>1 DEF Good
  <2>3. DataOf(Coerce(a, b)[1]) = x /\ DataOf(Coerce(a, b)[2]) = y
    BY <2>1, <2>2 DEF Coerce
  <2>4. Math(op, a, b) = CASE op = "+" -> Ok(Long(Wrap(x + y)))
             [] op = "-" -> Ok(Long(Wrap(x - y)))
             [] op = "*" -> Ok(Long(Wrap(x * y)))
             [] op = "^" -> Ok(<<"double", DoubleArith(op, ToDouble(a).val[2], ToDouble(b).val[2])>>)
             [] op \in {"/", "%"} ->
                  IF Traps(x, y) THEN Crash
                  ELSE Ok(Long(IF op = "/" THEN Quotient(x, y)
                                           ELSE x - y * Quotient(x, y)))
    BY <1>1, <1>3, <2>3 DEF Math
  <2>5. x + y \in Int /\ x - y \in Int /\ x * y \in Int
    BY LongsFacts
  <2>6. Wrap(x + y) \in Longs /\ Wrap(x - y) \in Longs /\ Wrap(x * y) \in Longs
    BY <2>5, LongMade
  <2>7. \A n \in Longs : Good(Ok(Long(n)).val, K, T)
    BY GoodMade DEF Ok
  <2>8. CASE op \in {"+", "-", "*"}
    BY <2>4, <2>6, <2>7, <2>8
  <2>9. CASE op = "^"
    <3>1. PICK d \in Doubles : d = DoubleArith(op, ToDouble(a).val[2], ToDouble(b).val[2])
      <4>1. DataOf(AsDouble(a)) \in Doubles /\ DataOf(AsDouble(b)) \in Doubles
        BY <1>1, AsDoubleGood
      <4> QED BY <4>1, DoubleAssumption DEF AsDouble, DataOf
    <3>2. Math(op, a, b) = Ok(<<"double", d>>)
      BY <2>4, <2>9, <3>1
    <3>3. Math(op, a, b).val = <<"double", d>>
      BY <3>2 DEF Ok
    <3>4. Good(<<"double", d>>, K, T)
      BY GoodMade
    <3> QED BY <3>3, <3>4
  <2>10. CASE op \in {"/", "%"}
    <3>1. ~Traps(x, y)
      BY <2>4, <2>10 DEF Crash
    <3>3. Quotient(x, y) \in Longs /\ x - y * Quotient(x, y) \in Longs
      BY <3>1, LongMade
    <3> QED BY <2>4, <2>7, <2>10, <3>1, <3>3
  <2> QED BY <2>8, <2>9, <2>10
<1> QED BY <1>2, <1>3

(* What a table answers.                                                   *)
LEMMA LookupGood ==
  ASSUME IInv, NEW t \in DOMAIN tables, NEW k
  PROVE  Good(Lookup(tables[t], k), Callees, DOMAIN tables)
<1>1. \A x \in DOMAIN tables[t] : Good(tables[t][x], Callees, DOMAIN tables)
  BY DEF IInv, HeapInv
<1>2. CASE Same(tables[t], k) = {}
  BY <1>2, GoodMade DEF Lookup
<1>3. CASE Same(tables[t], k) # {}
  <2>1. (CHOOSE x \in Same(tables[t], k) : TRUE) \in Same(tables[t], k)
    BY <1>3
  <2> QED BY <1>1, <1>3, <2>1 DEF Lookup, Same
<1> QED BY <1>2, <1>3

-----------------------------------------------------------------------------
(* The instructions.                                                        *)

(* What was good stays so in a step.                                        *)
LEMMA StillGood ==
  ASSUME IInv, HeapStep, program' = program
  PROVE  /\ \A v : Good(v, Callees, DOMAIN tables) => Good(v, Callees', (DOMAIN tables)')
         /\ \A s : IsStack(s, Callees, DOMAIN tables) => IsStack(s, Callees', (DOMAIN tables)')
         /\ \A f : IsFrame(f, Callees, DOMAIN tables) => IsFrame(f, Callees', (DOMAIN tables)')
BY GoodKept DEF HeapStep

(* An instruction that sets a register of the executing call, and may        *)
(* allocate.                                                                 *)
LEMMA SetRegisterStep ==
  ASSUME IInv, HeapStep, Bytecode, NEW f, NEW r, NEW v, SetRegister(f, r, v),
         IsFrame(f, Callees, DOMAIN tables), f.call = Top.call, f.fn = Top.fn,
         (program' = program /\ v # Absent) => Good(v, Callees', (DOMAIN tables)')
  PROVE  IInv' /\ StepsRight
<1>0. ~Pending(Co) /\ Top.fn # 1
  BY BytecodeFacts
<1>1. CASE r = ReservedStart
  <2>1. PICK g : g = Next1(f)
    OBVIOUS
  <2>2. IsFrame(g, Callees, DOMAIN tables) /\ g.call = Top.call /\ g.fn = Top.fn
    BY <2>1, FrameNext
  <2>3. SetTop(g)
    BY <1>1, <2>1 DEF SetRegister
  <2>4. program' = program => IsFrame(g, Callees', (DOMAIN tables)')
    BY <2>2, StillGood
  <2> QED BY <1>0, <2>2, <2>3, <2>4, SetTopStep
<1>2. CASE r # ReservedStart /\ r \in Registers /\ v # Absent
  <2>1. PICK h : h = [f EXCEPT !.regs[r] = v]
    OBVIOUS
  <2>2. PICK g : g = Next1(h)
    OBVIOUS
  <2>3. SetTop(g)
    BY <1>2, <2>1, <2>2 DEF SetRegister
  <2>4. program' = program
    BY <2>3 DEF SetTop
  <2>5. IsFrame(f, Callees', (DOMAIN tables)') /\ Good(v, Callees', (DOMAIN tables)')
    BY <1>2, <2>4, StillGood
  <2>6. IsFrame(h, Callees', (DOMAIN tables)') /\ h.call = f.call /\ h.fn = f.fn
    BY <1>2, <2>1, <2>5, FrameRegister
  <2>7. IsFrame(g, Callees', (DOMAIN tables)') /\ g.call = h.call /\ g.fn = h.fn
    BY <2>2, <2>6, FrameNext
  <2> QED BY <1>0, <2>3, <2>6, <2>7, SetTopStep
<1>3. CASE r # ReservedStart /\ ~(r \in Registers /\ v # Absent)
  BY <1>3, LoseStep DEF SetRegister
<1> QED BY <1>1, <1>2, <1>3

(* An instruction that executes.                                            *)
LEMMA AtFacts ==
  ASSUME IInv, NEW op, At(op)
  PROVE  /\ InCode /\ Bytecode /\ ~Pending(Co) /\ Top.fn # 1 /\ Ins.op = op
         /\ Ins \in Instruction /\ Ins.A \in Nat /\ Ins.B \in Nat /\ Ins.C \in Nat
         /\ IsFrame(Top, Callees, DOMAIN tables)
BY BytecodeFacts, InsFacts, CoFacts DEF At, InCode

(* The frame itself changes: to g.                                          *)
LEMMA TopStep ==
  ASSUME IInv, HeapStep, Bytecode, NEW g, SetTop(g), IsFrame(g, Callees, DOMAIN tables),
         g.call = Top.call, g.fn = Top.fn
  PROVE  IInv' /\ StepsRight
<1>1. ~Pending(Co) /\ Top.fn # 1
  BY BytecodeFacts
<1>2. program' = program => IsFrame(g, Callees', (DOMAIN tables)')
  BY StillGood
<1> QED BY <1>1, <1>2, SetTopStep

(* An instruction whose condition fails is passed over, however far the      *)
(* uninitialized advance jumps.                                              *)
LEMMA SkipStep ==
  ASSUME IInv, Skip
  PROVE  IInv' /\ StepsRight
<1>1. Bytecode /\ HeapStep /\ IsFrame(Top, Callees, DOMAIN tables)
  BY HeapSame, CoFacts DEF Skip, InCode
<1>2. PICK n \in IF Top.known THEN {1} ELSE Junk :
         IF Top.pc + n < 0 THEN Lose("wild_pc") ELSE SetTop([Top EXCEPT !.pc = @ + n])
  BY DEF Skip
<1>3. n \in Int
  BY <1>2, InterpreterAssumption
<1>4. CASE Top.pc + n < 0
  BY <1>1, <1>2, <1>4, LoseStep
<1>5. CASE ~(Top.pc + n < 0)
  <2>1. PICK p : p = Top.pc + n
    OBVIOUS
  <2>2. Top.pc \in Nat
    BY <1>1, FrameFacts
  <2>3. p \in Nat
    BY <1>3, <1>5, <2>1, <2>2
  <2>4. PICK g : g = [Top EXCEPT !.pc = p]
    OBVIOUS
  <2>5. IsFrame(g, Callees, DOMAIN tables) /\ g.call = Top.call /\ g.fn = Top.fn
    BY <1>1, <2>3, <2>4, FramePcOnly
  <2>6. SetTop(g)
    BY <1>2, <1>5, <2>1, <2>4
  <2> QED BY <1>1, <2>5, <2>6, TopStep
<1> QED BY <1>4, <1>5

(* An instruction outside its prototype loses the process.                   *)
LEMMA UnreadableStep ==
  ASSUME IInv, Unreadable
  PROVE  IInv' /\ StepsRight
BY HeapSame, LoseStep DEF Unreadable

(* A register is set to a value that is good.                               *)
LEMMA RegisterStep ==
  ASSUME IInv, HeapStep, Bytecode, NEW r, NEW v, SetRegister(Top, r, v),
         Good(v, Callees, DOMAIN tables)
  PROVE  IInv' /\ StepsRight
<1>1. IsFrame(Top, Callees, DOMAIN tables)
  BY CoFacts
<1>2. program' = program => Good(v, Callees', (DOMAIN tables)')
  BY StillGood
<1> QED BY <1>1, <1>2, SetRegisterStep

(* MOV.                                                                      *)
LEMMA MovStep ==
  ASSUME IInv, Mov
  PROVE  IInv' /\ StepsRight
<1>1. Bytecode /\ HeapStep
  BY AtFacts, HeapSame DEF Mov
<1>2. Good(Register(Top, Ins.B), Callees, DOMAIN tables)
  BY <1>1, RegisterGood
<1> QED BY <1>1, <1>2, RegisterStep DEF Mov

(* ADD, SUB, MUL, DIV, MOD and POW.                                          *)
LEMMA ArithmeticStep ==
  ASSUME IInv, Arithmetic
  PROVE  IInv' /\ StepsRight
<1>1. Bytecode /\ HeapStep /\ Ins.math \in {"+", "-", "*", "/", "%", "^"}
  BY AtFacts, HeapSame DEF Arithmetic, Instruction
<1>2. PICK a, b : /\ a = Register(Top, Ins.B) /\ b = Register(Top, Ins.C)
                  /\ Good(a, Callees, DOMAIN tables) /\ Good(b, Callees, DOMAIN tables)
  BY <1>1, RegisterGood
<1>3. PICK out : /\ out = Math(Ins.math, a, b)
                 /\ CASE out.status = "ok" -> SetRegister(Top, Ins.A, out.val) /\ UNCHANGED errmsg
                      [] out.status = "error" -> Raise(out.msg)
                      [] OTHER -> Lose("sigfpe") /\ UNCHANGED errmsg
  BY <1>2 DEF Arithmetic
<1>4. CASE out.status = "ok"
  <2>1. Good(out.val, Callees, DOMAIN tables)
    BY <1>1, <1>2, <1>3, <1>4, MathGood
  <2> QED BY <1>1, <1>3, <1>4, <2>1, RegisterStep
<1>5. CASE out.status = "error"
  BY <1>1, <1>3, <1>5, RaiseStep
<1>6. CASE out.status # "ok" /\ out.status # "error"
  BY <1>1, <1>3, <1>6, LoseStep
<1> QED BY <1>4, <1>5, <1>6

(* A jump to a target in the code, or an error.                              *)
LEMMA JumpStep ==
  ASSUME IInv, HeapStep, Bytecode, NEW target, NEW legal, Jump(target, legal), legal => target \in Nat
  PROVE  IInv' /\ StepsRight
<1>1. IsFrame(Top, Callees, DOMAIN tables)
  BY CoFacts
<1>2. CASE legal
  <2>1. PICK h, g : h = Next1(Top) /\ g = [h EXCEPT !.pc = target]
    OBVIOUS
  <2>2. IsFrame(h, Callees, DOMAIN tables) /\ h.call = Top.call /\ h.fn = Top.fn
    BY <1>1, <2>1, FrameNext
  <2>3. IsFrame(g, Callees, DOMAIN tables) /\ g.call = Top.call /\ g.fn = Top.fn
    BY <1>2, <2>1, <2>2, FramePcOnly
  <2>4. SetTop(g)
    BY <1>2, <2>1 DEF Jump
  <2> QED BY <2>3, <2>4, TopStep
<1>3. CASE ~legal
  BY <1>3, RaiseStep DEF Jump
<1> QED BY <1>2, <1>3

(* JMP_FORWARD and JMP_BACKWARD.                                             *)
LEMMA JmpSteps ==
  ASSUME IInv, JmpForward \/ JmpBackward
  PROVE  IInv' /\ StepsRight
<1>1. Bytecode /\ HeapStep /\ Ins.A \in Nat
  BY AtFacts, HeapSame DEF JmpForward, JmpBackward
<1>2. Top.pc \in Nat
  BY CoFacts, FrameFacts
<1>3. CASE JmpForward
  <2>1. Top.pc + Ins.A + 1 \in Nat
    BY <1>1, <1>2
  <2> QED BY <1>1, <1>3, <2>1, JumpStep DEF JmpForward
<1>4. CASE JmpBackward
  <2>1. Top.pc - Ins.A >= 0 => Top.pc - Ins.A + 1 \in Nat
    BY <1>1, <1>2
  <2> QED BY <1>1, <1>4, <2>1, JumpStep DEF JmpBackward
<1> QED BY <1>3, <1>4

(* The heap grows: a closure is made, a table is made, a value is stored.   *)
LEMMA ClosureMade ==
  ASSUME IInv, NEW c, closures' = Append(closures, c), tables' = tables,
         c.kind # "trampoline", Good(c.env, Callees, DOMAIN tables),
         c.kind = "bytecode" => c.proto \in DOMAIN program.protos
  PROVE  HeapStep /\ (program' = program => Len(closures) + 1 \in Callees')
<1>0. CASE program' # program
  BY <1>0 DEF HeapStep
<1>1. CASE program' = program
  <2> DEFINE n == Len(closures)
  <2>1. IsSeq(closures) /\ n \in Nat /\ DOMAIN closures = 1..n /\ 1 \in 1..n
    BY SeqFacts DEF IInv, HeapInv
  <2>2. /\ IsSeq(closures') /\ Len(closures') = n + 1 /\ closures'[n + 1] = c
        /\ \A k \in 1..n : closures'[k] = closures[k]
    BY <2>1, SeqAppend
  <2>3. DOMAIN closures' = 1..(n + 1) /\ \A k \in 1..(n + 1) : k = n + 1 \/ k \in 1..n
    BY <2>1, <2>2, SeqFacts
  <2>4. n + 1 # 1 /\ n + 1 \in 1..(n + 1) /\ \A k \in 1..n : k \in 1..(n + 1)
    BY <2>1
  <2>5. Callees \subseteq Callees' /\ n + 1 \in Callees'
    BY <1>1, <2>1, <2>2, <2>3, <2>4 DEF Callees
  <2>6. \A v : Good(v, Callees, DOMAIN tables) => Good(v, Callees', DOMAIN tables)
    BY <2>5, GoodKept
  <2>7. HeapInv'
    <3>1. /\ IsSeq(tables) /\ 1 \in DOMAIN tables
          /\ closures[1].kind = "trampoline" /\ closures[1].env = Absent
          /\ \A k \in DOMAIN closures \ {1} : /\ closures[k].kind # "trampoline"
                                             /\ Good(closures[k].env, Callees, DOMAIN tables)
          /\ \A t \in DOMAIN tables : \A k \in DOMAIN tables[t] :
               Good(tables[t][k], Callees, DOMAIN tables)
      BY DEF IInv, HeapInv
    <3>2. 1 \in DOMAIN closures' /\ closures'[1].kind = "trampoline" /\ closures'[1].env = Absent
      BY <2>1, <2>2, <2>3, <2>4, <3>1
    <3>3. \A k \in DOMAIN closures' \ {1} : /\ closures'[k].kind # "trampoline"
                                           /\ Good(closures'[k].env, Callees', DOMAIN tables)
      BY <2>1, <2>2, <2>3, <2>6, <3>1
    <3>4. \A t \in DOMAIN tables' : \A k \in DOMAIN tables'[t] :
               Good(tables'[t][k], Callees', DOMAIN tables')
      BY <2>6, <3>1
    <3> QED BY <2>2, <3>1, <3>2, <3>3, <3>4 DEF HeapInv
  <2> QED BY <2>5, <2>7 DEF HeapStep
<1> QED BY <1>0, <1>1

(* An empty table is allocated.                                              *)
LEMMA TableMade ==
  ASSUME IInv, tables' = Append(tables, <<>>), closures' = closures
  PROVE  HeapStep /\ Len(tables) + 1 \in (DOMAIN tables)'
<1> DEFINE n == Len(tables)
<1>1. IsSeq(tables) /\ n \in Nat /\ DOMAIN tables = 1..n /\ 1 \in 1..n
  BY SeqFacts DEF IInv, HeapInv
<1>2. /\ IsSeq(tables') /\ Len(tables') = n + 1 /\ tables'[n + 1] = <<>>
      /\ \A k \in 1..n : tables'[k] = tables[k]
  BY <1>1, SeqAppend
<1>3. DOMAIN tables' = 1..(n + 1) /\ \A k \in 1..(n + 1) : k = n + 1 \/ k \in 1..n
  BY <1>1, <1>2, SeqFacts
<1>4. n + 1 \in 1..(n + 1) /\ \A k \in 1..n : k \in 1..(n + 1)
  BY <1>1
<1>5. DOMAIN tables \subseteq DOMAIN tables'
  BY <1>1, <1>3, <1>4
<1> HIDE DEF n
<1>6. SUFFICES ASSUME program' = program PROVE HeapInv' /\ Callees \subseteq Callees'
  BY <1>3, <1>4, <1>5 DEF HeapStep, n
<1>7. Callees' = Callees
  BY <1>6 DEF Callees
<1>8. \A v : Good(v, Callees, DOMAIN tables) => Good(v, Callees, DOMAIN tables')
  BY <1>5, GoodKept
<1>9. /\ IsSeq(closures) /\ 1 \in DOMAIN closures
      /\ closures[1].kind = "trampoline" /\ closures[1].env = Absent
      /\ \A k \in DOMAIN closures \ {1} : /\ closures[k].kind # "trampoline"
                                         /\ Good(closures[k].env, Callees, DOMAIN tables)
      /\ \A t \in DOMAIN tables : \A k \in DOMAIN tables[t] :
           Good(tables[t][k], Callees, DOMAIN tables)
  BY DEF IInv, HeapInv
<1>10. DOMAIN (<<>>) = {}
  OBVIOUS
<1>11. \A t \in DOMAIN tables' : \A k \in DOMAIN tables'[t] : Good(tables'[t][k], Callees', DOMAIN tables')
  BY <1>1, <1>2, <1>3, <1>7, <1>8, <1>9, <1>10
<1>12. 1 \in DOMAIN tables'
  BY <1>1, <1>5
<1> QED BY <1>2, <1>7, <1>8, <1>9, <1>11, <1>12 DEF HeapInv

(* A present value is stored in a table.                                     *)
Stored(t, k, v) == [tables EXCEPT ![t] = Store(tables[t], k, v)]

(* The heap is as before, but for that entry.                                *)
LEMMA ValueStored ==
  ASSUME IInv, NEW t \in DOMAIN tables, NEW k, NEW v, Good(v, Callees, DOMAIN tables),
         tables' = Stored(t, k, v), closures' = closures
  PROVE  HeapStep
<1> DEFINE n == Len(tables)
<1>1. IsSeq(tables) /\ n \in Nat /\ DOMAIN tables = 1..n /\ 1 \in 1..n
  BY SeqFacts DEF IInv, HeapInv
<1>2. PICK u : u = Store(tables[t], k, v)
  OBVIOUS
<1>3. \A x \in DOMAIN u : u[x] = v \/ (x \in DOMAIN tables[t] /\ u[x] = tables[t][x])
  <2>1. PICK at : u = [x \in DOMAIN tables[t] \cup {at} |-> IF x = at THEN v ELSE tables[t][x]]
    BY <1>2 DEF Store
  <2> QED BY <2>1
<1>4. tables = [i \in 1..n |-> tables[i]]
  BY <1>1 DEF IsSeq
<1>5. /\ tables' = [i \in 1..n |-> tables'[i]] /\ tables'[t] = u
      /\ \A i \in 1..n : i # t => tables'[i] = tables[i]
  BY <1>1, <1>2, <1>4 DEF Stored
<1>6. IsSeq(tables') /\ Len(tables') = n /\ DOMAIN tables' = 1..n
  BY <1>1, <1>5, FunctionIsSeq
<1>7. SUFFICES ASSUME program' = program PROVE HeapInv' /\ Callees \subseteq Callees'
  BY <1>1, <1>6 DEF HeapStep
<1>8. Callees' = Callees
  BY <1>7 DEF Callees
<1>9. /\ IsSeq(closures) /\ 1 \in DOMAIN closures
      /\ closures[1].kind = "trampoline" /\ closures[1].env = Absent
      /\ \A c \in DOMAIN closures \ {1} : /\ closures[c].kind # "trampoline"
                                         /\ Good(closures[c].env, Callees, DOMAIN tables)
      /\ \A i \in DOMAIN tables : \A x \in DOMAIN tables[i] :
           Good(tables[i][x], Callees, DOMAIN tables)
  BY DEF IInv, HeapInv
<1>10. \A i \in DOMAIN tables' : \A x \in DOMAIN tables'[i] : Good(tables'[i][x], Callees', DOMAIN tables')
  <2> SUFFICES ASSUME NEW i \in DOMAIN tables', NEW x \in DOMAIN tables'[i]
               PROVE  Good(tables'[i][x], Callees, DOMAIN tables)
    BY <1>1, <1>6, <1>8
  <2>1. CASE i = t
    BY <1>1, <1>3, <1>5, <1>9, <2>1
  <2>2. CASE i # t
    BY <1>1, <1>5, <1>6, <1>9, <2>2
  <2> QED BY <2>1, <2>2
<1> QED BY <1>1, <1>6, <1>8, <1>9, <1>10 DEF HeapInv

(* CMP.                                                                      *)
LEMMA CmpStep ==
  ASSUME IInv, Cmp
  PROVE  IInv' /\ StepsRight
<1>1. Bytecode /\ HeapStep /\ IsFrame(Top, Callees, DOMAIN tables)
  BY AtFacts, HeapSame DEF Cmp
<1>2. PICK x, h, g : h = Next1(Top) /\ g = [h EXCEPT !.flags = x] /\ SetTop(g)
  BY DEF Cmp
<1>3. IsFrame(h, Callees, DOMAIN tables) /\ h.call = Top.call /\ h.fn = Top.fn
  BY <1>1, <1>2, FrameNext
<1>4. IsFrame(g, Callees, DOMAIN tables) /\ g.call = Top.call /\ g.fn = Top.fn
  BY <1>2, <1>3, FrameFlags
<1> QED BY <1>1, <1>2, <1>4, TopStep

(* GET_CONSTANT.                                                             *)
LEMMA GetConstantStep ==
  ASSUME IInv, GetConstant
  PROVE  IInv' /\ StepsRight
<1>1. Bytecode /\ HeapStep
  BY AtFacts, HeapSame DEF GetConstant
<1>2. CASE Ins.B + 1 \in DOMAIN program.constants
  <2>1. PICK v : v = program.constants[Ins.B + 1] /\ Literal(v)
    BY <1>2, ProgramFacts
  <2>2. Good(v, Callees, DOMAIN tables)
    BY <2>1, GoodMade
  <2>3. SetRegister(Top, Ins.A, v)
    BY <1>2, <2>1 DEF GetConstant
  <2> QED BY <1>1, <2>2, <2>3, RegisterStep
<1>3. CASE ~(Ins.B + 1 \in DOMAIN program.constants)
  BY <1>1, <1>3, RaiseStep DEF GetConstant
<1> QED BY <1>2, <1>3

(* LOAD_PROTOTYPE: a closure over a prototype of the prototype.              *)
LEMMA LoadPrototypeStep ==
  ASSUME IInv, LoadPrototype
  PROVE  IInv' /\ StepsRight
<1>1. Bytecode /\ IsFrame(Top, Callees, DOMAIN tables)
  BY AtFacts DEF LoadPrototype
<1>2. CASE UNCHANGED heap /\ \E how : Lose(how)
  BY <1>2, HeapSame, LoseStep
<1>3. CASE /\ Ins.B \in DOMAIN Proto(Top).protos
           /\ closures' = Append(closures, NewClosure("bytecode",
                             Proto(Top).protos[Ins.B], closures[Top.fn].env))
           /\ SetRegister(Top, Ins.A, Closure(Len(closures) + 1))
           /\ UNCHANGED tables
  <2>1. PICK p : p = Proto(Top).protos[Ins.B] /\ p \in DOMAIN program.protos
    <3>1. Proto(Top).protos \in Seq(1..Len(program.protos))
      BY <1>1, BytecodeFacts
    <3>2. Proto(Top).protos[Ins.B] \in 1..Len(program.protos)
      BY <1>3, <3>1
    <3>3. DOMAIN program.protos = 1..Len(program.protos)
      BY ProgramFacts
    <3> QED BY <3>2, <3>3
  <2>2. PICK c : c = NewClosure("bytecode", p, closures[Top.fn].env)
    OBVIOUS
  <2>3. c.kind = "bytecode" /\ c.proto = p /\ Good(c.env, Callees, DOMAIN tables)
    BY <1>1, <2>2, BytecodeFacts DEF NewClosure
  <2>4. HeapStep /\ (program' = program => Len(closures) + 1 \in Callees')
    BY <1>3, <2>1, <2>2, <2>3, ClosureMade
  <2>5. PICK v : v = Closure(Len(closures) + 1)
    OBVIOUS
  <2>6. program' = program => Good(v, Callees', (DOMAIN tables)')
    BY <2>4, <2>5, GoodMade
  <2>7. SetRegister(Top, Ins.A, v)
    BY <1>3, <2>5
  <2> QED BY <1>1, <2>4, <2>6, <2>7, SetRegisterStep
<1> QED BY <1>2, <1>3 DEF LoadPrototype

(* STACK_GETTOP.                                                             *)
LEMMA GetTopStep ==
  ASSUME IInv, GetTop
  PROVE  IInv' /\ StepsRight
<1>1. Bytecode /\ HeapStep /\ IsFrame(Top, Callees, DOMAIN tables)
  BY AtFacts, HeapSame DEF GetTop
<1>2. PICK n : n = Len(Top.stack) - 1
  OBVIOUS
<1>3. Len(Top.stack) \in Nat
  BY <1>1, FrameFacts, StackFacts
<1>4. n \in Longs
  <2>1. n <= LongMax /\ -(LongMax + 1) <= n /\ n \in Int
    BY <1>1, <1>2, <1>3, FrameFacts, LimitFacts, ApiAssumption, LongsFacts
  <2> QED BY <2>1, LongsFacts
<1>5. Good(Long(n), Callees, DOMAIN tables)
  BY <1>4, GoodMade
<1>6. SetRegister(Top, Ins.A, Long(n))
  BY <1>2 DEF GetTop
<1> QED BY <1>1, <1>5, <1>6, RegisterStep

(* STACK_POP.                                                                *)
LEMMA StackPopStep ==
  ASSUME IInv, StackPop
  PROVE  IInv' /\ StepsRight
<1>1. Bytecode /\ HeapStep /\ IsFrame(Top, Callees, DOMAIN tables)
  BY AtFacts, HeapSame DEF StackPop
<1>2. CASE Top.stack = <<>>
  BY <1>1, <1>2, RaiseStep DEF StackPop
<1>3. CASE Top.stack # <<>>
  <2>1. PICK s, v, f : s = Front(Top.stack) /\ v = Last(Top.stack) /\ f = [Top EXCEPT !.stack = s]
    OBVIOUS
  <2>2. /\ IsStack(Top.stack, Callees, DOMAIN tables) /\ Len(Top.stack) \in Nat
        /\ Len(Top.stack) <= StackSize
    BY <1>1, FrameFacts, StackFacts
  <2>3. /\ Good(v, Callees, DOMAIN tables) /\ IsStack(s, Callees, DOMAIN tables)
        /\ Len(s) = Len(Top.stack) - 1
    BY <1>3, <2>1, <2>2, StackEnds
  <2>4. Len(s) <= StackSize
    BY <2>2, <2>3, LimitFacts
  <2>5. IsFrame(f, Callees, DOMAIN tables) /\ f.call = Top.call /\ f.fn = Top.fn
    BY <1>1, <2>1, <2>3, <2>4, FrameStack
  <2>6. SetRegister(f, Ins.A, v)
    BY <1>3, <2>1 DEF StackPop
  <2>7. program' = program => Good(v, Callees', (DOMAIN tables)')
    BY <1>1, <2>3, StillGood
  <2> QED BY <1>1, <2>5, <2>6, <2>7, SetRegisterStep
<1> QED BY <1>2, <1>3

(* STACK_PUSH.                                                               *)
LEMMA StackPushStep ==
  ASSUME IInv, StackPush
  PROVE  IInv' /\ StepsRight
<1>1. Bytecode /\ HeapStep /\ IsFrame(Top, Callees, DOMAIN tables)
  BY AtFacts, HeapSame DEF StackPush
<1>2. CASE Len(Top.stack) >= StackSize
  BY <1>1, <1>2, RaiseStep DEF StackPush
<1>3. CASE ~(Len(Top.stack) >= StackSize)
  <2>1. PICK v, s, h, g : /\ v = Register(Top, Ins.A) /\ s = Append(Top.stack, v)
                          /\ h = Next1(Top) /\ g = [h EXCEPT !.stack = s]
    OBVIOUS
  <2>2. Good(v, Callees, DOMAIN tables)
    BY <1>1, <2>1, RegisterGood
  <2>3. /\ IsStack(Top.stack, Callees, DOMAIN tables) /\ Len(Top.stack) \in Nat
    BY <1>1, FrameFacts, StackFacts
  <2>4. IsStack(s, Callees, DOMAIN tables) /\ Len(s) = Len(Top.stack) + 1
    BY <2>1, <2>2, <2>3, StackAppend
  <2>5. Len(s) <= StackSize
    BY <1>3, <2>3, <2>4, LimitFacts
  <2>6. IsFrame(h, Callees, DOMAIN tables) /\ h.call = Top.call /\ h.fn = Top.fn /\ h.stack = Top.stack
    BY <1>1, <2>1, FrameNext
  <2>7. IsFrame(g, Callees, DOMAIN tables) /\ g.call = Top.call /\ g.fn = Top.fn
    <3>1. g = [h EXCEPT !.stack = s]
      BY <2>1
    <3>2. IsFrame(g, Callees, DOMAIN tables) /\ g.call = h.call /\ g.fn = h.fn
      BY <2>4, <2>5, <2>6, <3>1, FrameStack
    <3> QED BY <2>6, <3>2
  <2>8. SetTop(g)
    BY <1>3, <2>1, <2>6 DEF StackPush
  <2> QED BY <1>1, <2>7, <2>8, TopStep
<1> QED BY <1>2, <1>3

(* TABLE_GET.                                                                *)
LEMMA TableGetStep ==
  ASSUME IInv, TableGet
  PROVE  IInv' /\ StepsRight
<1>1. Bytecode /\ HeapStep
  BY AtFacts, HeapSame DEF TableGet
<1>2. PICK t : t = Register(Top, Ins.B) /\ Good(t, Callees, DOMAIN tables)
  BY <1>1, RegisterGood
<1>3. CASE ~IsIndexable(t)
  BY <1>1, <1>2, <1>3, RaiseStep DEF TableGet
<1>4. CASE IsIndexable(t)
  <2>1. DataOf(t) \in DOMAIN tables
    BY <1>2, <1>4 DEF Good, IsIndexable
  <2>2. PICK v : v = Lookup(tables[DataOf(t)], Register(Top, Ins.C))
    OBVIOUS
  <2>3. Good(v, Callees, DOMAIN tables)
    BY <2>1, <2>2, LookupGood
  <2>4. SetRegister(Top, Ins.A, v)
    BY <1>2, <1>4, <2>2 DEF TableGet
  <2> QED BY <1>1, <2>3, <2>4, RegisterStep
<1> QED BY <1>3, <1>4

(* TABLE_SET.                                                                *)
LEMMA TableSetStep ==
  ASSUME IInv, TableSet
  PROVE  IInv' /\ StepsRight
<1>1. Bytecode /\ IsFrame(Top, Callees, DOMAIN tables)
  BY AtFacts DEF TableSet
<1>0. CASE UNCHANGED tables /\ Lose("collision")
  BY <1>0, HeapSame, LoseStep DEF TableSet, heap
<1>A. SUFFICES ASSUME SetTop(Next1(Top)) PROVE IInv' /\ StepsRight
  BY <1>0 DEF TableSet
<1>2. PICK g : g = Next1(Top) /\ SetTop(g)
  BY <1>A
<1>3. IsFrame(g, Callees, DOMAIN tables) /\ g.call = Top.call /\ g.fn = Top.fn
  BY <1>1, <1>2, FrameNext
<1>4. HeapStep
  <2>1. CASE UNCHANGED tables
    BY <2>1, HeapSame DEF TableSet, heap
  <2>2. CASE tables' # tables
    <3>1. PICK t, k, v : /\ t = Register(Top, Ins.A) /\ k = Register(Top, Ins.B)
                         /\ v = Register(Top, Ins.C)
      OBVIOUS
    <3>2. Good(t, Callees, DOMAIN tables) /\ Good(v, Callees, DOMAIN tables)
      BY <1>1, <3>1, RegisterGood
    <3>3. IsIndexable(t) /\ tables' = [tables EXCEPT ![DataOf(t)] = Store(@, k, v)]
          /\ closures' = closures
      BY <2>2, <3>1 DEF TableSet
    <3>4. PICK d : d = DataOf(t) /\ d \in DOMAIN tables
      BY <3>2, <3>3 DEF Good, IsIndexable
    <3>5. tables' = Stored(d, k, v)
      BY <3>3, <3>4 DEF Stored
    <3> QED BY <3>2, <3>3, <3>4, <3>5, ValueStored
  <2> QED BY <2>1, <2>2
<1> QED BY <1>1, <1>2, <1>3, <1>4, TopStep

(* NOP and the opcodes that are none.                                        *)
LEMMA NopSteps ==
  ASSUME IInv, Nop \/ Illegal
  PROVE  IInv' /\ StepsRight
<1>1. Bytecode /\ HeapStep /\ IsFrame(Top, Callees, DOMAIN tables)
  BY AtFacts, HeapSame DEF Nop, Illegal
<1>2. CASE Nop
  <2>1. PICK g : g = Next1(Top) /\ SetTop(g)
    BY <1>2 DEF Nop
  <2>2. IsFrame(g, Callees, DOMAIN tables) /\ g.call = Top.call /\ g.fn = Top.fn
    BY <1>1, <2>1, FrameNext
  <2> QED BY <1>1, <2>1, <2>2, TopStep
<1>3. CASE Illegal
  BY <1>1, <1>3, RaiseStep DEF Illegal
<1> QED BY <1>2, <1>3

-----------------------------------------------------------------------------
(* Calls and returns.                                                       *)
LEMMA PartOfPart ==
  ASSUME NEW s, IsSeq(s), NEW n \in Nat, n <= Len(s), NEW m \in Int, m >= 1, NEW k \in Int, k <= n
  PROVE  SubSeq(SubSeq(s, 1, n), m, k) = SubSeq(s, m, k)
<1>1. Len(s) \in Nat
  BY SeqFacts
<1>2. PICK u : u = SubSeq(s, 1, n)
  OBVIOUS
<1>3. IsSeq(u) /\ Len(u) = n /\ \A i \in 1..n : u[i] = s[i]
  BY <1>2, SeqPrefix
<1>4. k <= Len(s) /\ k <= Len(u)
  BY <1>1, <1>3
<1>5. /\ IsSeq(SubSeq(u, m, k)) /\ Len(SubSeq(u, m, k)) = IF m <= k THEN k - m + 1 ELSE 0
      /\ \A i \in 1 .. k - m + 1 : SubSeq(u, m, k)[i] = u[m + i - 1]
  BY <1>3, <1>4, SeqPart
<1>6. /\ IsSeq(SubSeq(s, m, k)) /\ Len(SubSeq(s, m, k)) = IF m <= k THEN k - m + 1 ELSE 0
      /\ \A i \in 1 .. k - m + 1 : SubSeq(s, m, k)[i] = s[m + i - 1]
  BY <1>4, SeqPart
<1>7. PICK a, b : a = SubSeq(u, m, k) /\ b = SubSeq(s, m, k)
  OBVIOUS
<1>8. Len(a) = Len(b) /\ \A i \in 1..Len(a) : i \in 1 .. k - m + 1 /\ m + i - 1 \in 1..n
  BY <1>5, <1>6, <1>7
<1>9. \A i \in 1..Len(a) : a[i] = b[i]
  BY <1>3, <1>5, <1>6, <1>7, <1>8
<1>10. a = b
  BY <1>5, <1>6, <1>7, <1>8, <1>9, SeqSame
<1> QED BY <1>2, <1>7, <1>10

(* Who runs is left alone, and no trampoline is made to wait.               *)
LEMMA StillRuns ==
  ASSUME IInv, HeapStep, program' = program, UNCHANGED flow,
         AllStacks(frames', Callees', (DOMAIN tables)'),
         \A c \in Coroutines : frames'[c] = <<>> <=> frames[c] = <<>>,
         \A c \in Coroutines : Pending(c)' => Pending(c) /\ c # Co
  PROVE  IInv'
<1>1. program' \in Programs /\ HeapInv'
  BY DEF IInv, HeapStep
<1>2. nest' = nest /\ status' = status /\ thrown' = thrown /\ Co' = Co
  BY DEF flow, Co
<1>3. FlowInv'
  BY <1>2 DEF IInv, FlowInv
<1>4. FramesInv'
  BY DEF FramesInv, AllStacks
<1>5. PendingInv'
  BY <1>2 DEF IInv, PendingInv
<1> QED BY <1>1, <1>3, <1>4, <1>5 DEF IInv

(* A function is entered.                                                   *)
LEMMA EnterStep ==
  ASSUME IInv, HeapStep, NEW caller, NEW fn, NEW args, NEW call, Enter(caller, fn, args, call),
         IsFrame(caller, Callees, DOMAIN tables), caller.call = Top.call, caller.fn = Top.fn,
         fn \in Callees, IsStack(args, Callees, DOMAIN tables), Len(args) <= StackSize,
         IsCall(call), call.base <= Len(caller.stack),
         call.below = SubSeq(caller.stack, 1, call.base),
         (closures[Top.fn].kind = "trampoline" /\ Top.stack[Len(Top.stack)] = Long(Len(Top.stack) - 3))
            => /\ Closure(fn) = Top.stack[1]
               /\ args = SubSeq(Top.stack, 2, Len(Top.stack) - 2)
  PROVE  IInv' /\ StepsRight
<1>1. CASE Raise(Message("stack overflow"))
  BY <1>1, RaiseStep
<1>2. CASE Raise(OutOfMemory)
  BY <1>2, RaiseStep
<1>3. CASE /\ Len(frames[Co]) < MaxDepth
           /\ frames' = [frames EXCEPT ![Co] =
                           Append(Front(@), caller) \o <<NewFrame(fn, args, call)>>]
           /\ UNCHANGED <<program, flow, errmsg, fault>>
  <2>1. PICK callee, u : callee = NewFrame(fn, args, call) /\ u = Append(Front(frames[Co]), caller) \o <<callee>>
    OBVIOUS
  <2>2. /\ Co \in Coroutines /\ frames[Co] # <<>> /\ Top = Last(frames[Co])
        /\ Len(frames[Co]) \in Nat \ {0} /\ Top = frames[Co][Len(frames[Co])]
    BY CoFacts DEF Top
  <2>3. AllStacks(frames, Callees', (DOMAIN tables)')
    BY <1>3, FramesKept
  <2>4. /\ IsFrame(caller, Callees', (DOMAIN tables)') /\ fn \in Callees'
        /\ IsStack(args, Callees', (DOMAIN tables)')
    BY <1>3, StillGood DEF HeapStep
  <2>5. IsFrame(callee, Callees', (DOMAIN tables)') /\ callee.call = call /\ callee.fn = fn /\ callee.stack = args
    <3>1. PICK K, T : K = Callees' /\ T = (DOMAIN tables)'
      OBVIOUS
    <3>2. /\ fn \in K \cup {1} /\ IsStack(args, K, T) /\ Len(args) <= StackSize
          /\ IsCall(call) /\ callee = NewFrame(fn, args, call)
      BY <2>1, <2>4, <3>1
    <3>3. IsFrame(callee, K, T) /\ callee.stack = args /\ callee.call = call /\ callee.fn = fn
      BY ONLY <3>2, FrameMade
    <3> QED BY <3>1, <3>3
  <2>6. callee.fn # 1
    BY <2>5 DEF Callees
  <2>7. IsCallStack(frames[Co], Callees', (DOMAIN tables)')
    BY <2>2, <2>3 DEF AllStacks
  <2>8. /\ IsCallStack(u, Callees', (DOMAIN tables)') /\ u # <<>> /\ Len(u) = Len(frames[Co]) + 1
        /\ u[Len(frames[Co])] = caller /\ u[Len(frames[Co]) + 1] = callee
    <3>1. PICK fs : fs = frames[Co]
      OBVIOUS
    <3>2. /\ IsCallStack(fs, Callees', (DOMAIN tables)') /\ fs # <<>> /\ Len(fs) < MaxDepth
          /\ caller.call = Last(fs).call /\ caller.fn = Last(fs).fn
          /\ u = Entered(fs, caller, callee)
      BY <1>3, <2>1, <2>2, <2>7, <3>1 DEF Entered
    <3>3. /\ callee.call.base <= Len(caller.stack)
          /\ callee.call.below = SubSeq(caller.stack, 1, callee.call.base)
      BY <2>5
    <3>4. /\ IsCallStack(u, Callees', (DOMAIN tables)') /\ u # <<>> /\ Len(u) = Len(fs) + 1
          /\ u[Len(fs)] = caller /\ u[Len(fs) + 1] = callee
      BY <2>4, <2>5, <2>6, <3>2, <3>3, CallStackPush
    <3> QED BY <3>1, <3>4
  <2>9. frames = [c \in Coroutines |-> frames[c]]
    BY DEF IInv, FramesInv
  <2>10. /\ frames' = [c \in Coroutines |-> frames'[c]] /\ frames'[Co] = u
         /\ \A c \in Coroutines : c # Co => frames'[c] = frames[c]
    BY <1>3, <2>1, <2>2, <2>9
  <2>11. AllStacks(frames', Callees', (DOMAIN tables)')
    BY <2>3, <2>8, <2>10 DEF AllStacks
  <2>12. Last(u) = callee
    BY <2>8, CallStackFacts
  <2>13. \A c \in Coroutines : Pending(c)' => Pending(c) /\ c # Co
    BY <2>6, <2>10, <2>12 DEF Pending
  <2>14. IInv'
    BY <1>3, <2>2, <2>8, <2>10, <2>11, <2>13, StillRuns
  <2>15. ASSUME NEW c \in Coroutines PROVE Len(frames[c]) \in Nat
    BY SeqFacts DEF IInv, FramesInv, IsCallStack
  <2>16. ReturnsRight
    <3> SUFFICES ASSUME NEW c \in Coroutines, Len(frames[c]) > 1, Len(frames'[c]) = Len(frames[c]) - 1
                 PROVE  FALSE
      BY DEF ReturnsRight
    <3>1. Len(frames[c]) \in Nat
      BY <2>15
    <3>2. CASE c = Co
      BY <2>8, <2>10, <3>1, <3>2
    <3>3. CASE c # Co
      BY <2>10, <3>1, <3>3
    <3> QED BY <3>2, <3>3
  <2>17. StartsRight
    <3> SUFFICES ASSUME NEW c \in Coroutines, Len(frames[c]) = 1, Len(frames'[c]) = 2,
                        closures[frames[c][1].fn].kind = "trampoline",
                        frames[c][1].stack[Len(frames[c][1].stack)] = Long(Len(frames[c][1].stack) - 3)
                 PROVE  /\ Closure(frames'[c][2].fn) = frames[c][1].stack[1]
                        /\ frames'[c][2].stack = SubSeq(frames[c][1].stack, 2, Len(frames[c][1].stack) - 2)
      BY DEF StartsRight
    <3>1. c = Co
      <4>1. c # Co => Len(frames'[c]) = Len(frames[c])
        BY <2>10
      <4>2. Len(frames'[c]) # Len(frames[c])
        OBVIOUS
      <4> QED BY <4>1, <4>2
    <3>2. frames[c][1] = Top /\ frames'[c][2] = callee
      BY <2>2, <2>8, <2>10, <3>1
    <3> QED BY <2>5, <3>2
  <2>18. MovesRight
    BY <2>10 DEF MovesRight, Stack
  <2> QED BY <2>14, <2>16, <2>17, <2>18 DEF StepsRight
<1> QED BY <1>1, <1>2, <1>3 DEF Enter

(* CALL: the arguments go from the top of the stack to the callee's.         *)
LEMMA CallStep ==
  ASSUME IInv, Call
  PROVE  IInv' /\ StepsRight
<1>1. /\ Bytecode /\ HeapStep /\ IsFrame(Top, Callees, DOMAIN tables)
      /\ Ins.B \in Nat /\ Ins.C \in Nat
  BY AtFacts, HeapSame DEF Call
<1>2. PICK base, f, n, wanted :
         /\ n = Len(Top.stack) /\ f = Register(Top, Ins.A)
         /\ base = CASE Ins.C = 0 -> n [] Ins.C = 1 -> 0 [] OTHER -> n - (Ins.C - 1)
         /\ wanted = CASE Ins.B = 0 -> 0 [] Ins.B = 1 -> All [] OTHER -> Ins.B - 1
         /\ IF base < 0 THEN Raise(Message("stack underflow"))
            ELSE IF Ins.A \notin Readable THEN Lose("assert") /\ UNCHANGED errmsg
            ELSE IF ~IsCallable(f) THEN Raise(Message(<<"attempt to call", TypeName(f)>>))
            ELSE Enter(Top, DataOf(f), SubSeq(Top.stack, base + 1, n),
                       [by |-> "bytecode", base |-> base, keeps |-> base, wanted |-> wanted,
                        below |-> SubSeq(Top.stack, 1, base)])
  BY DEF Call
<1>3. CASE \E m : Raise(m)
  BY <1>1, <1>3, RaiseStep
<1>4. CASE \E how : Lose(how)
  BY <1>1, <1>4, LoseStep
<1>5. CASE /\ ~(base < 0) /\ IsCallable(f)
           /\ Enter(Top, DataOf(f), SubSeq(Top.stack, base + 1, n),
                       [by |-> "bytecode", base |-> base, keeps |-> base, wanted |-> wanted,
                        below |-> SubSeq(Top.stack, 1, base)])
  <2>1. IsStack(Top.stack, Callees, DOMAIN tables) /\ n \in Nat /\ n <= StackSize
    BY <1>1, <1>2, FrameFacts, StackFacts
  <2>2. base \in Nat /\ base <= n
    <3>1. base = CASE Ins.C = 0 -> n [] Ins.C = 1 -> 0 [] OTHER -> n - (Ins.C - 1)
      BY <1>2
    <3>2. CASE Ins.C = 0
      BY <2>1, <3>1, <3>2
    <3>3. CASE Ins.C = 1
      BY <2>1, <3>1, <3>3
    <3>4. CASE Ins.C # 0 /\ Ins.C # 1
      <4>1. base = n - (Ins.C - 1) /\ ~(base < 0)
        BY <1>5, <3>1, <3>4
      <4> QED BY <1>1, <2>1, <3>4, <4>1
    <3> QED BY <3>2, <3>3, <3>4
  <2>3. wanted \in Int /\ wanted >= All
    <3>1. wanted = CASE Ins.B = 0 -> 0 [] Ins.B = 1 -> All [] OTHER -> Ins.B - 1
      BY <1>2
    <3> QED BY <1>1, <3>1 DEF All
  <2>4. PICK call : call = [by |-> "bytecode", base |-> base, keeps |-> base, wanted |-> wanted,
                            below |-> SubSeq(Top.stack, 1, base)]
    OBVIOUS
  <2>5. IsCall(call) /\ call.base = base /\ call.below = SubSeq(Top.stack, 1, base)
    BY <2>2, <2>3, <2>4 DEF IsCall
  <2>6. PICK args : args = SubSeq(Top.stack, base + 1, n)
    OBVIOUS
  <2>7. IsStack(args, Callees, DOMAIN tables) /\ Len(args) <= StackSize
    <3>0. n = Len(Top.stack)
      BY <1>2
    <3>1. base + 1 \in Int /\ base + 1 >= 1 /\ n \in Int /\ n <= Len(Top.stack)
      BY <2>1, <2>2, <3>0
    <3>2. /\ IsStack(args, Callees, DOMAIN tables)
          /\ Len(args) = IF base + 1 <= n THEN n - (base + 1) + 1 ELSE 0
      BY <2>1, <2>6, <3>1, StackPart
    <3>3. Len(args) <= n
      BY <2>1, <2>2, <3>2
    <3>4. Len(args) \in Nat
      BY <3>2, StackFacts
    <3> QED BY <2>1, <3>2, <3>3, <3>4, LimitFacts
  <2>8. PICK fn : fn = DataOf(f) /\ fn \in Callees
    BY <1>1, <1>2, <1>5, RegisterGood DEF Good, IsCallable
  <2>9. Enter(Top, fn, args, call)
    BY <1>5, <2>4, <2>6, <2>8
  <2>10. closures[Top.fn].kind # "trampoline"
    BY <1>1 DEF Bytecode
  <2> QED BY <1>1, <1>2, <2>2, <2>5, <2>7, <2>8, <2>9, <2>10, EnterStep
<1> QED BY <1>2, <1>3, <1>4, <1>5

(* lua_call, by a native function (f is its frame) or the trampoline.       *)
LEMMA LuaCallStep ==
  ASSUME IInv, HeapStep, NEW f, NEW nargs \in Int, NEW wanted \in Int, LuaCall(f, nargs, wanted),
         IsFrame(f, Callees, DOMAIN tables), f.call = Top.call, f.fn = Top.fn,
         (closures[Top.fn].kind = "trampoline" /\ Top.stack[Len(Top.stack)] = Long(Len(Top.stack) - 3))
            => /\ f.stack = SubSeq(Top.stack, 1, Len(Top.stack) - 2) /\ Len(Top.stack) >= 3
               /\ nargs = Len(Top.stack) - 3
  PROVE  IInv' /\ StepsRight
<1> DEFINE s == f.stack
           n == Len(s)
           at == n - nargs
<1>1. /\ IsStack(s, Callees, DOMAIN tables) /\ n \in Nat /\ n <= StackSize /\ IsSeq(s)
      /\ DOMAIN s = 1..n /\ \A i \in 1..n : Good(s[i], Callees, DOMAIN tables)
  BY FrameFacts, StackFacts
<1>2. CASE \E m : Raise(m)
  BY <1>2, RaiseStep
<1>3. CASE \E how : Lose(how)
  BY <1>3, LoseStep
<1>4. CASE /\ wanted >= All /\ nargs >= 0 /\ at >= 1 /\ IsCallable(s[at])
           /\ Enter([f EXCEPT !.stack = SubSeq(@, 1, at)], DataOf(s[at]), SubSeq(s, at + 1, n),
                    [by |-> "native", base |-> at - 1, keeps |-> at, wanted |-> wanted,
                     below |-> SubSeq(s, 1, at - 1)])
  <2>0. at >= 1 /\ nargs >= 0 /\ n \in Nat
    BY <1>1, <1>4
  <2>1. at \in Nat /\ at \in 1..n /\ at <= n /\ at - 1 \in Nat /\ at - 1 <= at /\ at + 1 \in Int /\ at + 1 >= 1
    BY ONLY <2>0, nargs \in Int
  <2>2. PICK under : under = SubSeq(s, 1, at)
    OBVIOUS
  <2>3. IsStack(under, Callees, DOMAIN tables) /\ Len(under) = at
    BY <1>1, <2>1, <2>2, StackPrefix
  <2>4. Len(under) <= StackSize
    BY <1>1, <2>1, <2>3, LimitFacts
  <2>5. PICK caller : caller = [f EXCEPT !.stack = under]
    OBVIOUS
  <2>6. /\ IsFrame(caller, Callees, DOMAIN tables) /\ caller.stack = under
        /\ caller.call = Top.call /\ caller.fn = Top.fn
    BY <2>3, <2>4, <2>5, FrameStack
  <2>7. PICK fn : fn = DataOf(s[at]) /\ fn \in Callees /\ Closure(fn) = s[at]
    BY <1>1, <1>4, <2>1 DEF Good, IsCallable, Closure
  <2>8. PICK args : args = SubSeq(s, at + 1, n)
    OBVIOUS
  <2>9. IsStack(args, Callees, DOMAIN tables) /\ Len(args) <= StackSize
    <3>1. /\ IsStack(args, Callees, DOMAIN tables)
          /\ Len(args) = IF at + 1 <= n THEN n - (at + 1) + 1 ELSE 0
      BY <1>1, <2>1, <2>8, StackPart
    <3>2. Len(args) \in Nat /\ Len(args) <= n
      BY <1>1, <2>1, <3>1
    <3> QED BY <1>1, <3>1, <3>2, LimitFacts
  <2>10. PICK call : call = [by |-> "native", base |-> at - 1, keeps |-> at, wanted |-> wanted,
                             below |-> SubSeq(s, 1, at - 1)]
    OBVIOUS
  <2>11. IsCall(call) /\ call.base = at - 1 /\ call.below = SubSeq(s, 1, at - 1)
    BY <1>4, <2>1, <2>10 DEF IsCall
  <2>12. call.base <= Len(caller.stack) /\ call.below = SubSeq(caller.stack, 1, call.base)
    <3>1. SubSeq(SubSeq(s, 1, at), 1, at - 1) = SubSeq(s, 1, at - 1)
      BY <1>1, <2>1, PartOfPart
    <3> QED BY <2>1, <2>2, <2>3, <2>6, <2>11, <3>1
  <2>13. Enter(caller, fn, args, call)
    BY <1>4, <2>2, <2>5, <2>7, <2>8, <2>10
  <2>14. ASSUME closures[Top.fn].kind = "trampoline",
                Top.stack[Len(Top.stack)] = Long(Len(Top.stack) - 3)
         PROVE  /\ Closure(fn) = Top.stack[1]
                /\ args = SubSeq(Top.stack, 2, Len(Top.stack) - 2)
    <3> DEFINE t == Top.stack
               m == Len(Top.stack) - 2
    <3>1. IsSeq(t) /\ Len(t) \in Nat
      BY CoFacts, FrameFacts, StackFacts
    <3>2. s = SubSeq(t, 1, m) /\ Len(t) >= 3 /\ nargs = Len(t) - 3
      BY <2>14
    <3>3. m \in Nat /\ m <= Len(t) /\ m >= 1
      BY <3>1, <3>2
    <3>4. n = m /\ s[1] = t[1]
      <4>1. Len(SubSeq(t, 1, m)) = m /\ \A i \in 1..m : SubSeq(t, 1, m)[i] = t[i]
        BY <3>1, <3>3, SeqPrefix
      <4>2. 1 \in 1..m
        BY <3>3
      <4> QED BY <3>2, <4>1, <4>2
    <3>5. at = 1
      BY <3>1, <3>2, <3>4
    <3>6. SubSeq(SubSeq(t, 1, m), 2, m) = SubSeq(t, 2, m)
      BY <3>1, <3>3, PartOfPart
    <3>7. args = SubSeq(t, 2, m)
      <4>1. at + 1 = 2
        BY <3>5
      <4>2. args = SubSeq(s, 2, m)
        BY <2>8, <3>4, <4>1
      <4> QED BY <3>2, <3>6, <4>2
    <3> QED BY <2>7, <3>4, <3>5, <3>7
  <2> QED BY <2>6, <2>7, <2>9, <2>11, <2>12, <2>13, <2>14, EnterStep
<1>5. CASE wanted < All \/ nargs < 0
  BY <1>2, <1>5 DEF LuaCall
<1>6. CASE ~(wanted < All \/ nargs < 0)
  <2>1. CallAt(f, at, n, wanted)
    BY <1>6 DEF LuaCall
  <2>2. wanted >= All /\ nargs >= 0 /\ at \in Int
    BY <1>1, <1>6 DEF All
  <2>3. CASE at < 1
    BY <1>2, <2>1, <2>3 DEF CallAt
  <2>4. CASE ~(at < 1) /\ ~IsCallable(s[at])
    BY <1>3, <2>1, <2>4 DEF CallAt
  <2>5. CASE ~(at < 1) /\ IsCallable(s[at])
    <3>1. Enter([f EXCEPT !.stack = SubSeq(@, 1, at)], DataOf(s[at]), SubSeq(s, at + 1, n),
                    [by |-> "native", base |-> at - 1, keeps |-> at, wanted |-> wanted,
                     below |-> SubSeq(s, 1, at - 1)])
      BY <2>1, <2>5 DEF CallAt
    <3>2. at >= 1
      BY <2>2, <2>5
    <3> QED BY <1>4, <2>2, <2>5, <3>1, <3>2
  <2> QED BY <2>3, <2>4, <2>5
<1> QED BY <1>5, <1>6

(* RETURN: the call answers with the top values of its stack.                *)
LEMMA ReturnStep ==
  ASSUME IInv, Return
  PROVE  IInv' /\ StepsRight
<1>1. Bytecode /\ HeapStep /\ IsFrame(Top, Callees, DOMAIN tables) /\ Ins.B \in Nat /\ Ins.A \in Nat
  BY AtFacts, HeapSame DEF Return
<1>2. CASE \E how : Lose(how)
  BY <1>1, <1>2, LoseStep
<1>3. CASE ~ \E how : Lose(how)
  <2>1. PICK vs, all, s, g :
          /\ vs = [i \in 1..Ins.B |-> Register(Top, Ins.A + i - 1)] /\ all = Top.stack \o vs
          /\ s = SubSeq(all, 1, IF Len(all) < StackSize THEN Len(all) ELSE StackSize)
          /\ g = [Top EXCEPT !.rets = Ins.B, !.stack = s] /\ SetTop(g)
    BY <1>3 DEF Return
  <2>2. IsStack(vs, Callees, DOMAIN tables)
    <3>1. vs = [i \in 1..Ins.B |-> vs[i]] /\ \A i \in 1..Ins.B : vs[i] = Register(Top, Ins.A + i - 1)
      BY <2>1
    <3>2. \A i \in 1..Ins.B : Good(vs[i], Callees, DOMAIN tables)
      BY <1>1, <3>1, RegisterGood
    <3> QED BY <1>1, <3>1, <3>2, StackMade
  <2>3. IsStack(Top.stack, Callees, DOMAIN tables)
    BY <1>1, FrameFacts
  <2>4. IsStack(all, Callees, DOMAIN tables)
    BY <2>1, <2>2, <2>3, StackConcat
  <2>5. IsStack(s, Callees, DOMAIN tables) /\ Len(s) <= StackSize
    BY <2>1, <2>4, StackCut
  <2>6. g = Answered(Top, Ins.B, s) /\ SetTop(g)
    BY <2>1 DEF Answered
  <2>7. IsFrame(g, Callees, DOMAIN tables) /\ g.call = Top.call /\ g.fn = Top.fn
    <3>1. Ins.B \in Nat /\ IsFrame(Top, Callees, DOMAIN tables)
      BY <1>1
    <3> QED BY ONLY <2>5, <2>6, <3>1, FrameRets
  <2> QED BY <1>1, <2>6, <2>7, TopStep
<1> QED BY <1>2, <1>3

(* The code ends without RETURN: the call answers with nothing.              *)
LEMMA FallOffStep ==
  ASSUME IInv, FallOff
  PROVE  IInv' /\ StepsRight
<1>1. Bytecode /\ HeapStep /\ IsFrame(Top, Callees, DOMAIN tables)
  BY CoFacts, HeapSame DEF FallOff
<1>2. PICK k : k = 0
  OBVIOUS
<1>3. PICK g : g = [Top EXCEPT !.rets = k] /\ SetTop(g)
  BY <1>2 DEF FallOff
<1>4. k \in Nat
  BY <1>2
<1>5. IsFrame(g, Callees, DOMAIN tables) /\ g.call = Top.call /\ g.fn = Top.fn
  BY <1>1, <1>3, <1>4, FrameRetsOnly
<1> QED BY <1>1, <1>3, <1>5, TopStep

(* What a returning call hands over.                                        *)
LEMMA ResultsFacts ==
  ASSUME NEW f, NEW K, NEW T, IsFrame(f, K, T), f.rets # -1
  PROVE  /\ IsStack(Results(f), K, T) /\ Len(Results(f)) \in Nat
         /\ Results(f) = Adjusted(Given(f), IF f.call.wanted = All THEN Len(f.stack) ELSE f.call.wanted)
<1> DEFINE s == f.stack
           n == Len(s)
           start == IF f.rets > n THEN 0 ELSE n - f.rets
           count == IF f.call.wanted = All THEN n ELSE f.call.wanted
<1>1. /\ IsStack(s, K, T) /\ IsSeq(s) /\ n \in Nat /\ \A i \in 1..n : Good(s[i], K, T)
      /\ f.rets \in Int /\ f.rets >= -1 /\ IsCall(f.call)
  BY FrameFacts, StackFacts
<1>2. f.rets \in Nat
  BY <1>1
<1>3. start \in Nat /\ start <= n
  BY <1>1, <1>2
<1>4. count \in Nat
  BY <1>1 DEF IsCall, All
<1>5. PICK u : u = Results(f)
  OBVIOUS
<1>6. /\ u = [i \in 1..count |-> u[i]]
      /\ \A i \in 1..count : u[i] = IF start + i <= n THEN s[start + i] ELSE Nil
  BY <1>5 DEF Results
<1> HIDE DEF start, count
<1>7. \A i \in 1..count : Good(u[i], K, T)
  <2> SUFFICES ASSUME NEW i \in 1..count PROVE Good(u[i], K, T)
    OBVIOUS
  <2>1. CASE start + i <= n
    <3>1. start + i \in 1..n
      BY <1>1, <1>3, <1>4, <2>1
    <3> QED BY <1>1, <1>6, <2>1, <3>1
  <2>2. CASE ~(start + i <= n)
    BY <1>6, <2>2, GoodMade
  <2> QED BY <2>1, <2>2
<1>8. IsStack(u, K, T) /\ Len(u) = count
  BY <1>4, <1>6, <1>7, StackMade
<1>9. Given(f) = SubSeq(s, 1 + start, n)
  <2>1. (IF f.rets < Len(f.stack) THEN Len(f.stack) - f.rets ELSE 0) = start
    BY <1>1, <1>2 DEF start
  <2> QED BY <2>1 DEF Given
<1>10. PICK g : g = Given(f) /\ Len(g) = n - start /\ \A i \in 1..(n - start) : g[i] = s[start + i]
  <2>1. 1 + start \in Int /\ 1 + start >= 1 /\ n \in Int /\ n <= Len(s)
    BY <1>1, <1>3
  <2>2. /\ Len(SubSeq(s, 1 + start, n)) = IF 1 + start <= n THEN n - (1 + start) + 1 ELSE 0
        /\ \A i \in 1 .. n - (1 + start) + 1 : SubSeq(s, 1 + start, n)[i] = s[(1 + start) + i - 1]
    BY <1>1, <2>1, SeqPart
  <2>3. PICK h : h = SubSeq(s, 1 + start, n)
    OBVIOUS
  <2>4. Len(h) = n - start /\ \A i \in 1..(n - start) : h[i] = s[start + i]
    BY <1>1, <1>3, <2>2, <2>3
  <2> QED BY <1>9, <2>3, <2>4
<1>11. PICK v : v = Adjusted(g, count)
  OBVIOUS
<1>12. /\ v = [i \in 1..count |-> v[i]]
       /\ \A i \in 1..count : v[i] = IF i <= Len(g) THEN g[i] ELSE Nil
  BY <1>11 DEF Adjusted
<1>13. \A i \in 1..count : u[i] = v[i]
  <2> SUFFICES ASSUME NEW i \in 1..count PROVE u[i] = v[i]
    OBVIOUS
  <2>1. CASE start + i <= n
    <3>1. i <= Len(g) /\ i \in 1..(n - start)
      BY <1>1, <1>3, <1>4, <1>10, <2>1
    <3> QED BY <1>6, <1>10, <1>12, <2>1, <3>1
  <2>2. CASE ~(start + i <= n)
    <3>1. ~(i <= Len(g))
      BY <1>1, <1>3, <1>4, <1>10, <2>2
    <3> QED BY <1>6, <1>12, <2>2, <3>1
  <2> QED BY <2>1, <2>2
<1>14. u = v
  BY <1>6, <1>12, <1>13
<1> QED BY <1>4, <1>5, <1>8, <1>10, <1>11, <1>14 DEF count

(* The results of a call go to its caller, and its frame goes: what the      *)
(* caller gets is below the function it called, as many values as it wanted. *)
LEMMA DeliverStep ==
  ASSUME IInv, Deliver
  PROVE  IInv' /\ StepsRight
<1> DEFINE n == Len(frames[Co])
           caller == frames[Co][n - 1]
           call == Top.call
           res == Results(Top)
<1>1. HeapStep /\ Top.rets # -1
  BY HeapSame DEF Deliver, Returned
<1>2. CASE \E m : Raise(m)
  BY <1>1, <1>2, RaiseStep
<1>3. CASE /\ ~(call.keeps + Len(res) > StackSize)
           /\ frames' = [frames EXCEPT ![Co] = Append(SubSeq(@, 1, Len(@) - 2),
                   [Next1(caller) EXCEPT !.stack = SubSeq(@, 1, call.base) \o res])]
           /\ UNCHANGED <<program, flow, errmsg, fault>>
  <2>1. /\ Co \in Coroutines /\ frames[Co] # <<>> /\ n \in Nat /\ n > 1
        /\ IsCallStack(frames[Co], Callees, DOMAIN tables)
        /\ Top = frames[Co][n] /\ IsFrame(Top, Callees, DOMAIN tables)
    BY CoFacts DEF Deliver
  <2>2. n - 1 \in 1..n /\ n \in 1..n /\ n \in 2..n
    BY <2>1
  <2>3. IsFrame(caller, Callees, DOMAIN tables)
    BY <2>1, <2>2 DEF IsCallStack
  <2>4. call.base <= Len(caller.stack) /\ call.below = SubSeq(caller.stack, 1, call.base)
    BY <2>1, <2>2 DEF IsCallStack, Linked
  <2>5. IsStack(res, Callees, DOMAIN tables) /\ Len(res) \in Nat
    BY <1>1, <2>1, ResultsFacts
  <2>6. /\ call.base \in Nat /\ call.keeps \in Nat /\ call.base <= call.keeps
    BY <2>1, FrameFacts DEF IsCall
  <2>7. PICK below : below = SubSeq(caller.stack, 1, call.base)
    OBVIOUS
  <2>8. IsStack(caller.stack, Callees, DOMAIN tables)
    BY <2>3, FrameFacts
  <2>9. IsStack(below, Callees, DOMAIN tables) /\ Len(below) = call.base
    BY <2>4, <2>6, <2>7, <2>8, StackPrefix
  <2>10. PICK s : s = below \o res
    OBVIOUS
  <2>11. IsStack(s, Callees, DOMAIN tables) /\ Len(s) = Len(below) + Len(res)
    BY <2>5, <2>9, <2>10, StackConcat
  <2>12. Len(s) <= StackSize
    <3>1. call.keeps + Len(res) <= StackSize
      BY <1>3, <2>5, <2>6, LimitFacts
    <3> QED BY <2>5, <2>6, <2>9, <2>11, <3>1, LimitFacts
  <2>13. PICK h, g : h = Next1(caller) /\ g = [h EXCEPT !.stack = s]
    OBVIOUS
  <2>14. /\ IsFrame(h, Callees, DOMAIN tables) /\ h.stack = caller.stack /\ h.call = caller.call
         /\ h.fn = caller.fn /\ h.pc # 0
    <3>1. /\ IsFrame(h, Callees, DOMAIN tables) /\ h.stack = caller.stack /\ h.call = caller.call
          /\ h.fn = caller.fn
      BY <2>3, <2>13, FrameNext
    <3>2. h.pc = caller.pc + 1
      BY <2>3, <2>13 DEF Next1, IsFrame
    <3>3. caller.pc \in Nat
      BY <2>3, FrameFacts
    <3> QED BY <3>1, <3>2, <3>3
  <2>15. /\ IsFrame(g, Callees, DOMAIN tables) /\ g.stack = s /\ g.call = caller.call /\ g.fn = caller.fn
         /\ g.pc # 0
    <3>1. g = [h EXCEPT !.stack = s]
      BY <2>13
    <3>2. /\ IsFrame(g, Callees, DOMAIN tables) /\ g.stack = s /\ g.call = h.call /\ g.fn = h.fn
          /\ g.pc = h.pc
      <4>1. IsFrame(h, Callees, DOMAIN tables) /\ IsStack(s, Callees, DOMAIN tables)
        BY <2>11, <2>14
      <4> QED BY <2>12, <3>1, <4>1, FrameStack
    <3> QED BY <2>14, <3>2
  <2>16. PICK u : u = Append(SubSeq(frames[Co], 1, n - 2), g)
    OBVIOUS
  <2>17. /\ IsCallStack(u, Callees, DOMAIN tables) /\ u # <<>> /\ Len(u) = n - 1 /\ u[n - 1] = g
    <3>1. PICK fs : fs = frames[Co]
      OBVIOUS
    <3>2. /\ IsCallStack(fs, Callees, DOMAIN tables) /\ Len(fs) > 1 /\ Len(fs) = n
          /\ g.call = fs[Len(fs) - 1].call /\ g.fn = fs[Len(fs) - 1].fn
          /\ u = BackIn(fs, g)
      BY <2>1, <2>15, <2>16, <3>1 DEF BackIn
    <3>3. IsFrame(g, Callees, DOMAIN tables)
      BY <2>15
    <3>4. /\ IsCallStack(u, Callees, DOMAIN tables) /\ u # <<>> /\ Len(u) = Len(fs) - 1
          /\ u[Len(fs) - 1] = g
      BY <3>2, <3>3, CallStackPop
    <3> QED BY <3>2, <3>4
  <2>18. [Next1(caller) EXCEPT !.stack = SubSeq(@, 1, call.base) \o res] = g
    BY <2>7, <2>10, <2>13, <2>14
  <2>19. frames' = [frames EXCEPT ![Co] = u]
    BY <1>3, <2>16, <2>18
  <2>20. frames = [c \in Coroutines |-> frames[c]]
    BY DEF IInv, FramesInv
  <2>21. /\ frames' = [c \in Coroutines |-> frames'[c]] /\ frames'[Co] = u
         /\ \A c \in Coroutines : c # Co => frames'[c] = frames[c]
    BY <2>1, <2>19, <2>20
  <2>22. AllStacks(frames, Callees', (DOMAIN tables)') /\ IsCallStack(u, Callees', (DOMAIN tables)')
    BY <1>1, <1>3, <2>17, FramesKept, GoodKept DEF HeapStep
  <2>23. AllStacks(frames', Callees', (DOMAIN tables)')
    BY <2>21, <2>22 DEF AllStacks
  <2>24. Last(u) = g
    BY <2>17, CallStackFacts
  <2>25. \A c \in Coroutines : Pending(c)' => Pending(c) /\ c # Co
    BY <2>15, <2>21, <2>24 DEF Pending
  <2>26. IInv'
    BY <1>1, <1>3, <2>1, <2>17, <2>21, <2>23, <2>25, StillRuns
  <2>27. ASSUME NEW c \in Coroutines PROVE Len(frames[c]) \in Nat
    BY SeqFacts DEF IInv, FramesInv, IsCallStack
  <2>28. ReturnsRight
    <3> SUFFICES ASSUME NEW c \in Coroutines, Len(frames[c]) > 1, Len(frames'[c]) = Len(frames[c]) - 1,
                        NEW f, f = frames[c][Len(frames[c])]
                 PROVE  frames'[c][Len(frames[c]) - 1].stack = f.call.below \o
                          Adjusted(Given(f), IF f.call.wanted = All THEN Len(f.stack) ELSE f.call.wanted)
      BY DEF ReturnsRight
    <3>1. c = Co
      <4>1. c # Co => Len(frames'[c]) = Len(frames[c])
        BY <2>21
      <4>2. Len(frames'[c]) # Len(frames[c])
        BY <2>27
      <4> QED BY <4>1, <4>2
    <3>2. f = Top /\ frames'[c][Len(frames[c]) - 1] = g
      BY <2>1, <2>17, <2>21, <3>1
    <3>3. res = Adjusted(Given(f), IF f.call.wanted = All THEN Len(f.stack) ELSE f.call.wanted)
      BY <1>1, <2>1, <3>2, ResultsFacts
    <3>4. g.stack = f.call.below \o res
      BY <2>4, <2>7, <2>10, <2>15, <3>2
    <3> QED BY <3>2, <3>3, <3>4
  <2>29. StartsRight
    <3> SUFFICES ASSUME NEW c \in Coroutines, Len(frames[c]) = 1, Len(frames'[c]) = 2
                 PROVE  FALSE
      BY DEF StartsRight
    <3>1. c = Co
      <4>1. c # Co => Len(frames'[c]) = Len(frames[c])
        BY <2>21
      <4>2. Len(frames'[c]) # Len(frames[c])
        OBVIOUS
      <4> QED BY <4>1, <4>2
    <3> QED BY <2>1, <3>1
  <2>30. MovesRight
    BY <2>21 DEF MovesRight, Stack
  <2> QED BY <2>26, <2>28, <2>29, <2>30 DEF StepsRight
<1> QED BY <1>2, <1>3 DEF Deliver

(* The first function of a coroutine returned: the coroutine is dead and     *)
(* keeps no frame.                                                           *)
LEMMA FinishStep ==
  ASSUME IInv, Finish
  PROVE  IInv' /\ StepsRight
<1>1. /\ HeapStep /\ Len(frames[Co]) = 1 /\ Co # Host
      /\ frames' = [frames EXCEPT ![Co] = <<>>] /\ Leave("dead", Absent)
  BY HeapSame DEF Finish
<1>2. Co \in Coroutines /\ frames = [c \in Coroutines |-> frames[c]] /\ program' = program
  BY <1>1, CoFacts DEF IInv, FramesInv, Leave
<1>3. /\ frames' = [c \in Coroutines |-> frames'[c]] /\ frames'[Co] = <<>>
      /\ \A c \in Coroutines : c # Co => frames'[c] = frames[c]
  BY <1>1, <1>2
<1>4. AllStacks(frames, Callees', (DOMAIN tables)')
  BY <1>1, <1>2, FramesKept
<1>5. AllStacks(frames', Callees', (DOMAIN tables)')
  BY <1>3, <1>4, CallStackFirst DEF AllStacks
<1>6. IInv'
  BY <1>1, <1>3, <1>5, LeaveAlone
<1>7. SameDepth /\ OneStack
  BY <1>1, <1>2, <1>3 DEF SameDepth, OneStack
<1> QED BY <1>6, <1>7, QuietKeeps

(* Every instruction.                                                       *)
LEMMA InterpretStep ==
  ASSUME IInv, Interpret
  PROVE  IInv' /\ StepsRight
BY SkipStep, UnreadableStep, MovStep, ArithmeticStep, JmpSteps, CmpStep, GetConstantStep,
   LoadPrototypeStep, GetTopStep, StackPopStep, StackPushStep, TableGetStep, TableSetStep,
   NopSteps, CallStep, ReturnStep, FallOffStep, DeliverStep, FinishStep DEF Interpret

-----------------------------------------------------------------------------
(* What an operation on a stack answers.                                    *)
GoodOut(out, K, T) ==
  out.status = "ok" => IsStack(out.val, K, T) /\ Len(out.val) <= StackSize

(* A stack within its array.                                                 *)
FullStack(s, K, T) == IsStack(s, K, T) /\ Len(s) <= StackSize

(* The value at an index.                                                   *)
LEMMA IndexFacts ==
  ASSUME NEW K, NEW T, NEW s, IsStack(s, K, T), NEW i \in Int, IsIndex(s, i)
  PROVE  Absolute(s, i) \in 1..Len(s) /\ Good(ValueAt(s, i), K, T)
<1>1. Len(s) \in Nat /\ \A j \in 1..Len(s) : Good(s[j], K, T)
  BY StackFacts
<1>2. i # 0 /\ -Len(s) <= i /\ i <= Len(s)
  BY DEF IsIndex
<1>3. Absolute(s, i) \in 1..Len(s)
  BY <1>1, <1>2 DEF Absolute
<1> QED BY <1>1, <1>3 DEF ValueAt

(* A push, also of an object that is allocated for it.                       *)
LEMMA PushedGood ==
  ASSUME NEW K, NEW T, NEW s, FullStack(s, K, T), NEW v, Good(v, K, T)
  PROVE  /\ GoodOut(Pushed(s, v), K, T)
         /\ \A out \in PushedNew(s, v) : GoodOut(out, K, T)
<1>1. GoodOut(Pushed(s, v), K, T)
  <2>1. CASE Fits(s, 1)
    <3>1. IsStack(Append(s, v), K, T) /\ Len(Append(s, v)) = Len(s) + 1
      BY StackAppend DEF FullStack
    <3> QED BY <2>1, <3>1 DEF GoodOut, Pushed, Ok, Fits
  <2>2. CASE ~Fits(s, 1)
    BY <2>2 DEF GoodOut, Pushed, Fail
  <2> QED BY <2>1, <2>2
<1>2. GoodOut(Crash, K, T)
  BY DEF GoodOut, Crash
<1> QED BY <1>1, <1>2 DEF PushedNew

(* lua_copy keeps the height.                                                *)
LEMMA CopiedGood ==
  ASSUME NEW K, NEW T, NEW s, FullStack(s, K, T), NEW i \in Int, NEW j \in Int
  PROVE  /\ GoodOut(Copied(s, i, j), K, T)
         /\ Copied(s, i, j).status = "ok" => Len(Copied(s, i, j).val) = Len(s)
<1>1. CASE ~(IsIndex(s, i) /\ IsIndex(s, j))
  BY <1>1 DEF GoodOut, Copied, IfIndex, Fail
<1>2. CASE IsIndex(s, i) /\ IsIndex(s, j)
  <2>1. PICK k, v : k = Absolute(s, j) /\ v = ValueAt(s, i)
    OBVIOUS
  <2>2. k \in 1..Len(s) /\ Good(v, K, T)
    BY <1>2, <2>1, IndexFacts DEF FullStack
  <2>3. PICK u : u = Put(s, k, v)
    OBVIOUS
  <2>4. Copied(s, i, j) = Ok(u)
    BY <1>2, <2>1, <2>3 DEF Copied, IfIndex, Put
  <2>5. IsStack(u, K, T) /\ Len(u) = Len(s)
    BY <2>2, <2>3, StackExcept DEF FullStack
  <2> QED BY <2>4, <2>5 DEF GoodOut, Ok, FullStack
<1> QED BY <1>1, <1>2

(* lua_pushvalue.                                                            *)
LEMMA PushedCopyGood ==
  ASSUME NEW K, NEW T, NEW s, FullStack(s, K, T), NEW i \in Int
  PROVE  GoodOut(PushedCopy(s, i), K, T)
<1>1. CASE ~(Fits(s, 1) /\ IsIndex(s, i))
  BY <1>1 DEF GoodOut, PushedCopy, IfIndex, Fail
<1>2. CASE Fits(s, 1) /\ IsIndex(s, i)
  <2>1. Good(ValueAt(s, i), K, T)
    BY <1>2, IndexFacts DEF FullStack
  <2>2. GoodOut(Pushed(s, ValueAt(s, i)), K, T)
    BY <2>1, PushedGood
  <2> QED BY <1>2, <2>2 DEF PushedCopy, IfIndex
<1> QED BY <1>1, <1>2

(* lua_pop.                                                                  *)
LEMMA PoppedGood ==
  ASSUME NEW K, NEW T, NEW s, FullStack(s, K, T), NEW n \in Int
  PROVE  GoodOut(Popped(s, n), K, T)
<1>1. Len(s) \in Nat
  BY StackFacts DEF FullStack
<1>2. CASE n < 0 \/ n > Len(s)
  BY <1>1, <1>2 DEF GoodOut, Popped, Fail
<1>3. CASE ~(n < 0 \/ n > Len(s))
  <2>1. PICK m : m = Len(s) - n
    OBVIOUS
  <2>2. m \in Nat /\ m <= Len(s)
    BY <1>1, <1>3, <2>1
  <2>3. IsStack(SubSeq(s, 1, m), K, T) /\ Len(SubSeq(s, 1, m)) = m
    BY <2>2, StackPrefix DEF FullStack
  <2>4. PICK u : u = SubSeq(s, 1, m)
    OBVIOUS
  <2>7. Popped(s, n) = Ok(u)
    BY <1>3, <2>1, <2>4 DEF Popped
  <2>8. Popped(s, n).val = u
    BY <2>7 DEF Ok
  <2>5. Len(s) <= StackSize /\ StackSize \in Nat
    BY LimitFacts DEF FullStack
  <2>6. m <= StackSize
    BY <1>1, <2>2, <2>5
  <2> QED BY <2>3, <2>4, <2>6, <2>8 DEF GoodOut
<1> QED BY <1>2, <1>3

(* lua_rotate, by any number.                                                *)
LEMMA RotatedGood ==
  ASSUME NEW K, NEW T, NEW s, FullStack(s, K, T), NEW i \in Int, NEW n \in Int
  PROVE  /\ GoodOut(Rotated(s, i, n), K, T)
         /\ IsIndex(s, i) => FullStack(Rotated(s, i, n).val, K, T)
<1>1. CASE ~IsIndex(s, i)
  BY <1>1 DEF GoodOut, Rotated, IfIndex, Fail
<1>2. CASE IsIndex(s, i)
  <2>1. PICK p : p = Absolute(s, i) /\ p \in 1..Len(s)
    BY <1>2, IndexFacts DEF FullStack
  <2>2. PICK m : m = Len(s) - p + 1
    OBVIOUS
  <2>3. /\ Len(s) \in Nat /\ \A j \in 1..Len(s) : Good(s[j], K, T)
        /\ IsStack(s, K, T) /\ Len(s) <= StackSize
    BY StackFacts DEF FullStack
  <2>4. m \in Nat /\ m > 0 /\ p - 1 \in Nat /\ p - 1 <= Len(s) /\ p + m = Len(s) + 1
    <3>1. Len(s) \in Nat
      BY <2>3
    <3> QED BY ONLY <2>1, <2>2, <3>1
  <2>5. PICK r : r = [j \in 1..m |-> s[p + ((j - 1 - n) % m)]]
    OBVIOUS
  <2>6. r = [j \in 1..m |-> r[j]] /\ \A j \in 1..m : r[j] = s[p + ((j - 1 - n) % m)]
    BY <2>5
  <2>7. ASSUME NEW j \in 1..m PROVE Good(r[j], K, T)
    <3>1. PICK x \in Int : x = j - 1 - n
      BY <2>4
    <3>2. x % m \in 0..(m - 1)
      BY <2>4, <3>1
    <3>3. p + (x % m) \in 1..Len(s)
      BY <2>1, <2>3, <2>4, <3>2
    <3> QED BY <2>3, <2>6, <3>1, <3>3
  <2>8. IsStack(r, K, T) /\ Len(r) = m
    BY ONLY <2>4, <2>6, <2>7, StackMade
  <2>9. PICK q : q = SubSeq(s, 1, p - 1)
    OBVIOUS
  <2>10. IsStack(q, K, T) /\ Len(q) = p - 1
    BY <2>3, <2>4, <2>9, StackPrefix
  <2>11. IsStack(q \o r, K, T) /\ Len(q \o r) = Len(q) + Len(r)
    BY <2>8, <2>10, StackConcat
  <2>12. Len(q \o r) = Len(s)
    BY <2>1, <2>3, <2>4, <2>8, <2>10, <2>11
  <2>13. Rotated(s, i, n) = Ok(q \o r)
    BY <1>2, <2>1, <2>2, <2>5, <2>9 DEF Rotated, IfIndex
  <2>14. Rotated(s, i, n).val = q \o r
    BY <2>13 DEF Ok
  <2>15. FullStack(q \o r, K, T)
    BY <2>3, <2>11, <2>12 DEF FullStack
  <2> QED BY <2>14, <2>15 DEF GoodOut, FullStack
<1> QED BY <1>1, <1>2

(* lua_remove.                                                               *)
LEMMA RemovedGood ==
  ASSUME NEW K, NEW T, NEW s, FullStack(s, K, T), NEW i \in Int
  PROVE  GoodOut(Removed(s, i), K, T)
<1>1. CASE ~IsIndex(s, i)
  BY <1>1 DEF GoodOut, Removed, IfIndex, Fail
<1>2. CASE IsIndex(s, i)
  <2>1. FullStack(Rotated(s, i, -1).val, K, T)
    BY <1>2, RotatedGood
  <2>2. GoodOut(Popped(Rotated(s, i, -1).val, 1), K, T)
    BY <2>1, PoppedGood
  <2> QED BY <1>2, <2>2 DEF Removed, IfIndex
<1> QED BY <1>1, <1>2

(* lua_replace.                                                              *)
LEMMA ReplacedGood ==
  ASSUME NEW K, NEW T, NEW s, FullStack(s, K, T), NEW i \in Int
  PROVE  GoodOut(Replaced(s, i), K, T)
<1>1. GoodOut(Copied(s, -1, i), K, T)
  BY CopiedGood
<1>2. CASE Copied(s, -1, i).status = "ok"
  <2>1. FullStack(Copied(s, -1, i).val, K, T)
    BY <1>1, <1>2 DEF GoodOut, FullStack
  <2>2. GoodOut(Popped(Copied(s, -1, i).val, 1), K, T)
    BY <2>1, PoppedGood
  <2> QED BY <1>2, <2>2 DEF Replaced
<1>3. CASE Copied(s, -1, i).status # "ok"
  BY <1>1, <1>3 DEF Replaced
<1> QED BY <1>2, <1>3

(* lua_tolstring, which changes the value in place.                          *)
LEMMA StringifiedGood ==
  ASSUME NEW K, NEW T, NEW s, FullStack(s, K, T), NEW i \in Int, NEW out \in Stringified(s, i)
  PROVE  GoodOut(out, K, T)
<1>1. CASE ~IsIndex(s, i)
  <2>1. PICK bad : bad = IfIndex(s, i, Ok(s))
    OBVIOUS
  <2>2. out = bad
    BY <1>1, <2>1 DEF Stringified
  <2>3. bad.status = "error"
    BY <1>1, <2>1 DEF IfIndex, Fail
  <2> QED BY <2>2, <2>3 DEF GoodOut
<1>2. CASE IsIndex(s, i)
  <2>1. PICK k, v : k = Absolute(s, i) /\ v = ValueAt(s, i)
    OBVIOUS
  <2>2. k \in 1..Len(s)
    BY <1>2, <2>1, IndexFacts DEF FullStack
  <2>3. CASE TypeOf(v) = "string"
    <3>1. out \in {Ok(s)}
      BY <1>2, <2>1, <2>3 DEF Stringified, IsNumeric, NumericTypes
    <3> QED BY <3>1 DEF GoodOut, Ok, FullStack
  <2>4. CASE TypeOf(v) # "string" /\ ~IsNumeric(v)
    <3>1. PICK m : m = Message("expect long or number")
      OBVIOUS
    <3>2. out \in {Fail(m)}
      BY <1>2, <2>1, <2>4, <3>1 DEF Stringified
    <3>3. out.status = "error"
      BY <3>2 DEF Fail
    <3> QED BY <3>3 DEF GoodOut
  <2>5. CASE TypeOf(v) # "string" /\ IsNumeric(v)
    <3>1. PICK text \in TextOf(v) : out = IF text.status # "ok" THEN text ELSE Ok([s EXCEPT ![k] = text.val])
      BY <1>2, <2>1, <2>5 DEF Stringified
    <3>2. CASE text.status # "ok"
      BY <3>1, <3>2 DEF GoodOut
    <3>3. CASE text.status = "ok"
      <4>1. PICK x : text = Ok(String(x))
        BY <2>5, <3>1, <3>3 DEF TextOf, IsNumeric, NumericTypes, Allocated, Fail
      <4>2. text.val = String(x) /\ Good(String(x), K, T)
        BY <4>1, GoodMade DEF Ok
      <4>3. PICK u : u = Put(s, k, text.val)
        OBVIOUS
      <4>4. IsStack(u, K, T) /\ Len(u) = Len(s)
        BY <2>2, <4>2, <4>3, StackExcept DEF FullStack
      <4>5. out = Ok(u)
        BY <3>1, <3>3, <4>3 DEF Put
      <4> QED BY <4>4, <4>5 DEF GoodOut, Ok, FullStack
    <3> QED BY <3>2, <3>3
  <2> QED BY <2>3, <2>4, <2>5
<1> QED BY <1>1, <1>2

(* lua_len.                                                                  *)
LEMMA LengthPushedGood ==
  ASSUME NEW K, NEW T, NEW s, FullStack(s, K, T), NEW i \in Int, NEW out \in LengthPushed(s, i)
  PROVE  GoodOut(out, K, T)
<1>1. CASE ~(Fits(s, 1) /\ IsIndex(s, i))
  <2>1. PICK bad : bad = IfIndex(s, i, Ok(s))
    OBVIOUS
  <2>2. ~Fits(s, 1) => out \in {Fail(Overflow)}
    BY DEF LengthPushed
  <2>3. Fits(s, 1) => out = bad /\ bad.status = "error"
    BY <1>1, <2>1 DEF LengthPushed, IfIndex, Fail
  <2> QED BY <2>2, <2>3 DEF GoodOut, Fail
<1>2. CASE Fits(s, 1) /\ IsIndex(s, i)
  <2>1. out = Ok(s) \/ \E n \in Lengths : out = Pushed(s, Long(n))
    BY <1>2 DEF LengthPushed
  <2>2. GoodOut(Ok(s), K, T)
    BY DEF GoodOut, Ok, FullStack
  <2>3. ASSUME NEW n \in Lengths PROVE GoodOut(Pushed(s, Long(n)), K, T)
    <3>1. n \in Longs
      BY ApiAssumption, LongsFacts
    <3>2. Good(Long(n), K, T)
      BY <3>1, GoodMade
    <3> QED BY <3>2, PushedGood
  <2> QED BY <2>1, <2>2, <2>3
<1> QED BY <1>1, <1>2

-----------------------------------------------------------------------------
(* The API calls that work on one stack.                                    *)
LEMMA ReachFacts ==
  ASSUME IInv, NEW L \in Reach
  PROVE  /\ L \in Coroutines /\ frames[L] # <<>>
         /\ FullStack(Stack(L), Callees, DOMAIN tables)
<1>1. L \in Coroutines /\ frames[L] # <<>>
  BY CoFacts DEF Reach, Others
<1> QED BY <1>1, StackOf DEF FullStack

(* A call that leaves the heap alone and does what its outcome says.        *)
LEMMA StackOpStep ==
  ASSUME IInv, UNCHANGED heap, Native, NEW L \in Reach, NEW out, Apply(L, out),
         GoodOut(out, Callees, DOMAIN tables)
  PROVE  IInv' /\ StepsRight
<1>1. HeapStep
  BY HeapSame
<1>2. (program' = program /\ out.status = "ok") =>
         IsStack(out.val, Callees', (DOMAIN tables)') /\ Len(out.val) <= StackSize
  BY <1>1, StillGood DEF GoodOut
<1> QED BY <1>1, <1>2, ReachFacts, ApplyStep

(* The pushes of plain values, of new objects, of copies and of threads.     *)
LEMMA PushSteps ==
  ASSUME IInv, PushPlain \/ PushObject \/ PushCopy \/ PushThread
  PROVE  IInv' /\ StepsRight
<1> DEFINE K == Callees
           T == DOMAIN tables
<1>1. ASSUME NEW L \in Reach PROVE FullStack(Stack(L), K, T) /\ L \in Coroutines
  BY ReachFacts
<1>2. ASSUME NEW v \in program.values PROVE Good(v, K, T)
  BY ProgramFacts, GoodMade
<1> HIDE DEF K, T
<1>3. CASE PushPlain
  <2>1. PICK L \in Reach, v \in program.values : Apply(L, Pushed(Stack(L), v))
    BY <1>3 DEF PushPlain
  <2>2. GoodOut(Pushed(Stack(L), v), K, T)
    BY <1>1, <1>2, PushedGood
  <2> QED BY <1>3, <2>1, <2>2, StackOpStep DEF PushPlain, May, K, T
<1>4. CASE PushObject
  <2>1. PICK L \in Reach, v \in program.values :
          \E out \in PushedNew(Stack(L), v) : Apply(L, out)
    BY <1>4 DEF PushObject
  <2>2. PICK out \in PushedNew(Stack(L), v) : Apply(L, out)
    BY <2>1
  <2>3. GoodOut(out, K, T)
    BY <1>1, <1>2, PushedGood
  <2> QED BY <1>4, <2>2, <2>3, StackOpStep DEF PushObject, May, K, T
<1>5. CASE PushCopy
  <2>1. PICK L \in Reach, i \in program.indices : Apply(L, PushedCopy(Stack(L), i))
    BY <1>5 DEF PushCopy
  <2>2. i \in Int
    BY ProgramFacts
  <2>3. GoodOut(PushedCopy(Stack(L), i), K, T)
    BY <1>1, <2>2, PushedCopyGood
  <2> QED BY <1>5, <2>1, <2>3, StackOpStep DEF PushCopy, May, K, T
<1>6. CASE PushThread
  <2>1. PICK L \in Reach : Apply(L, Pushed(Stack(L), Coroutine(L)))
    BY <1>6 DEF PushThread
  <2>2. Good(Coroutine(L), K, T)
    BY <1>1, GoodMade
  <2>3. GoodOut(Pushed(Stack(L), Coroutine(L)), K, T)
    BY <1>1, <2>2, PushedGood
  <2> QED BY <1>6, <2>1, <2>3, StackOpStep DEF PushThread, May, K, T
<1> QED BY <1>3, <1>4, <1>5, <1>6

(* The environment of L's own frame.                                        *)
LEMMA EnvGood ==
  ASSUME IInv, NEW L \in Reach
  PROVE  LET env == closures[Last(frames[L]).fn].env
         IN  env = Absent \/ Good(env, Callees, DOMAIN tables)
<1>1. IsFrame(Last(frames[L]), Callees, DOMAIN tables)
  BY ReachFacts, StackOf
<1>2. Last(frames[L]).fn \in Callees \cup {1}
  BY <1>1, FrameFacts
<1>3. Last(frames[L]).fn = 1 \/ Last(frames[L]).fn \in DOMAIN closures \ {1}
  BY <1>2 DEF Callees
<1> QED BY <1>3 DEF IInv, HeapInv

(* lua_pushglobaltable: the environment of the closure that runs.            *)
LEMMA PushGlobalsStep ==
  ASSUME IInv, PushGlobals
  PROVE  IInv' /\ StepsRight
<1>1. /\ HeapStep /\ Native /\ UNCHANGED heap
  BY HeapSame DEF PushGlobals, May
<1>0. PICK L \in Reach : \E env :
        /\ env = closures[Last(frames[L]).fn].env
        /\ IF env = Absent /\ Fits(Stack(L), 1) THEN Lose("assert") /\ UNCHANGED errmsg
           ELSE Apply(L, Pushed(Stack(L), env))
  BY DEF PushGlobals
<1>2. PICK env :
        /\ env = closures[Last(frames[L]).fn].env
        /\ IF env = Absent /\ Fits(Stack(L), 1) THEN Lose("assert") /\ UNCHANGED errmsg
           ELSE Apply(L, Pushed(Stack(L), env))
  BY <1>0
<1>3. CASE Lose("assert")
  BY <1>1, <1>3, LoseStep
<1>4. CASE ~(env = Absent /\ Fits(Stack(L), 1)) /\ Apply(L, Pushed(Stack(L), env))
  <2>1. GoodOut(Pushed(Stack(L), env), Callees, DOMAIN tables)
    <3>1. CASE env = Absent
      BY <1>4, <3>1 DEF GoodOut, Pushed, Fail
    <3>2. CASE env # Absent
      <4>1. Good(env, Callees, DOMAIN tables)
        BY <1>2, <3>2, EnvGood
      <4> QED BY <4>1, ReachFacts, PushedGood
    <3> QED BY <3>1, <3>2
  <2> QED BY <1>1, <1>4, <2>1, StackOpStep
<1> QED BY <1>2, <1>3, <1>4

(* lua_pop, lua_copy, lua_remove, lua_replace and lua_rotate.                *)
LEMMA MoveSteps ==
  ASSUME IInv, Pop \/ Copy \/ LuaRemove \/ Replace \/ Rotate
  PROVE  IInv' /\ StepsRight
<1> DEFINE K == Callees
           T == DOMAIN tables
<1>1. ASSUME NEW L \in Reach PROVE FullStack(Stack(L), K, T)
  BY ReachFacts
<1>2. program.indices \subseteq Int /\ program.counts \subseteq Int
  BY ProgramFacts
<1>3. ASSUME UNCHANGED heap, Native, NEW L \in Reach, NEW out, Apply(L, out), GoodOut(out, K, T)
      PROVE  IInv' /\ StepsRight
  BY <1>3, StackOpStep
<1> HIDE DEF K, T
<1>4. CASE Pop
  <2>1. PICK L \in Reach, n \in program.counts :
          IF n > Len(Stack(L)) THEN RaiseLeaving(WithStack(frames, L, <<>>), Underflow)
          ELSE Apply(L, Popped(Stack(L), n))
    BY <1>4 DEF Pop
  <2>2. CASE ~(n > Len(Stack(L)))
    <3>1. GoodOut(Popped(Stack(L), n), K, T)
      BY <1>1, <1>2, PoppedGood
    <3> QED BY <1>3, <1>4, <2>1, <2>2, <3>1 DEF Pop, May
  <2>3. CASE n > Len(Stack(L))
    <3>1. PICK left : left = WithStack(frames, L, <<>>)
      OBVIOUS
    <3>2. HeapStep /\ L \in Coroutines /\ frames[L] # <<>>
      BY <1>4, HeapSame, ReachFacts DEF Pop
    <3>3. RaiseLeaving(left, Underflow)
      BY <2>1, <2>3, <3>1
    <3>4. \A J, U : IsStack(<<>>, J, U) /\ Len(<<>>) <= StackSize
      BY StackEmpty, SeqEmpty, LimitFacts
    <3>5. AllStacks(frames, Callees, DOMAIN tables)
      BY DEF IInv, FramesInv, AllStacks
    <3>6. /\ Alike(frames, left) /\ \A c \in Coroutines : c # L => left[c] = frames[c]
      BY <3>1, <3>2, <3>4, <3>5, WithStackFacts
    <3>7. program' = program => AllStacks(left, Callees', (DOMAIN tables)')
      <4>1. SUFFICES ASSUME program' = program PROVE AllStacks(left, Callees', (DOMAIN tables)')
        OBVIOUS
      <4>2. AllStacks(frames, Callees', (DOMAIN tables)')
        BY <3>2, <4>1, FramesKept
      <4> QED BY <3>1, <3>2, <3>4, <4>2, WithStackFacts
    <3> QED BY <3>2, <3>3, <3>6, <3>7, RaiseLeavingStep
  <2> QED BY <2>2, <2>3
<1>5. CASE Copy
  <2>1. PICK L \in Reach, i \in program.indices, j \in program.indices : Apply(L, Copied(Stack(L), i, j))
    BY <1>5 DEF Copy
  <2>2. GoodOut(Copied(Stack(L), i, j), K, T)
    BY <1>1, <1>2, CopiedGood
  <2> QED BY <1>3, <1>5, <2>1, <2>2 DEF Copy, May
<1>6. CASE LuaRemove
  <2>1. PICK L \in Reach, i \in program.indices : Apply(L, Removed(Stack(L), i))
    BY <1>6 DEF LuaRemove
  <2>2. GoodOut(Removed(Stack(L), i), K, T)
    BY <1>1, <1>2, RemovedGood
  <2> QED BY <1>3, <1>6, <2>1, <2>2 DEF LuaRemove, May
<1>7. CASE Replace
  <2>1. PICK L \in Reach, i \in program.indices : Apply(L, Replaced(Stack(L), i))
    BY <1>7 DEF Replace
  <2>2. GoodOut(Replaced(Stack(L), i), K, T)
    BY <1>1, <1>2, ReplacedGood
  <2> QED BY <1>3, <1>7, <2>1, <2>2 DEF Replace, May
<1>8. CASE Rotate
  <2>1. PICK L \in Reach, i \in program.indices, n \in program.counts :
          Apply(L, Rotated(Stack(L), i, n))
    BY <1>8 DEF Rotate
  <2>2. GoodOut(Rotated(Stack(L), i, n), K, T)
    BY <1>1, <1>2, RotatedGood
  <2> QED BY <1>3, <1>8, <2>1, <2>2 DEF Rotate, May
<1> QED BY <1>4, <1>5, <1>6, <1>7, <1>8

(* lua_tolstring, lua_len, the questions, and lua_error.                     *)
LEMMA ReadSteps ==
  ASSUME IInv, ToLString \/ PushLength \/ Query \/ Error
  PROVE  IInv' /\ StepsRight
<1> DEFINE K == Callees
           T == DOMAIN tables
<1>1. ASSUME NEW L \in Reach PROVE FullStack(Stack(L), K, T)
  BY ReachFacts
<1>2. program.indices \subseteq Int /\ program.counts \subseteq Int
  BY ProgramFacts
<1>3. ASSUME UNCHANGED heap, Native, NEW L \in Reach, NEW out, Apply(L, out), GoodOut(out, K, T)
      PROVE  IInv' /\ StepsRight
  BY <1>3, StackOpStep
<1> HIDE DEF K, T
<1>4. CASE ToLString
  <2>1. PICK L \in Reach, i \in program.indices :
          \E out \in Stringified(Stack(L), i) : Apply(L, out)
    BY <1>4 DEF ToLString
  <2>2. PICK out \in Stringified(Stack(L), i) : Apply(L, out)
    BY <2>1
  <2>3. GoodOut(out, K, T)
    BY <1>1, <1>2, StringifiedGood
  <2> QED BY <1>3, <1>4, <2>2, <2>3 DEF ToLString, May
<1>5. CASE PushLength
  <2>1. PICK L \in Reach, i \in program.indices :
          \E out \in LengthPushed(Stack(L), i) : Apply(L, out)
    BY <1>5 DEF PushLength
  <2>2. PICK out \in LengthPushed(Stack(L), i) : Apply(L, out)
    BY <2>1
  <2>3. GoodOut(out, K, T)
    BY <1>1, <1>2, LengthPushedGood
  <2> QED BY <1>3, <1>5, <2>2, <2>3 DEF PushLength, May
<1>6. CASE Query
  <2>1. PICK L \in Reach, i \in program.indices : \E out \in Asked(Stack(L), i) : Apply(L, out)
    BY <1>6 DEF Query
  <2>2. PICK out \in Asked(Stack(L), i) : Apply(L, out)
    BY <2>1
  <2>3. GoodOut(out, K, T)
    <3>1. out \in {IfIndex(Stack(L), i, Ok(Stack(L))), Ok(Stack(L))}
      BY DEF Asked
    <3>2. GoodOut(IfIndex(Stack(L), i, Ok(Stack(L))), K, T) /\ GoodOut(Ok(Stack(L)), K, T)
      BY <1>1 DEF GoodOut, IfIndex, Ok, Fail, FullStack
    <3> QED BY <3>1, <3>2
  <2> QED BY <1>3, <1>6, <2>2, <2>3 DEF Query, May
<1>7. CASE Error
  BY <1>7, HeapSame, RaiseStep DEF Error
<1> QED BY <1>4, <1>5, <1>6, <1>7

-----------------------------------------------------------------------------
(* The API calls that change the heap.                                      *)

(* A value that is good after the step is pushed.                           *)
LEMMA GrowPushStep ==
  ASSUME IInv, HeapStep, Native, NEW L \in Reach, NEW v,
         program' = program => Good(v, Callees', (DOMAIN tables)'),
         Apply(L, Pushed(Stack(L), v))
  PROVE  IInv' /\ StepsRight
<1>1. PICK s : s = Stack(L)
  OBVIOUS
<1>2. ASSUME program' = program PROVE GoodOut(Pushed(s, v), Callees', (DOMAIN tables)')
  <2>1. FullStack(s, Callees, DOMAIN tables)
    BY <1>1, ReachFacts
  <2>2. FullStack(s, Callees', (DOMAIN tables)')
    BY <1>2, <2>1, StillGood DEF FullStack
  <2>3. Good(v, Callees', (DOMAIN tables)')
    BY <1>2
  <2> QED BY <2>2, <2>3, PushedGood
<1>3. PICK out : out = Pushed(s, v)
  OBVIOUS
<1>4. (program' = program /\ out.status = "ok") =>
         IsStack(out.val, Callees', (DOMAIN tables)') /\ Len(out.val) <= StackSize
  BY <1>2, <1>3 DEF GoodOut
<1>5. Apply(L, out)
  BY <1>1, <1>3
<1> QED BY <1>4, <1>5, ReachFacts, ApplyStep

(* lua_createtable.                                                          *)
LEMMA CreateTableStep ==
  ASSUME IInv, CreateTable
  PROVE  IInv' /\ StepsRight
<1>1. Native
  BY DEF CreateTable, May
<1>2. CASE UNCHANGED heap /\ \E m : Raise(m)
  BY <1>2, HeapSame, RaiseStep
<1>3. CASE \E L \in Reach : /\ closures' = closures /\ tables' = Append(tables, <<>>)
                            /\ Apply(L, Pushed(Stack(L), Table(Len(tables) + 1)))
  <2>1. PICK L \in Reach : Apply(L, Pushed(Stack(L), Table(Len(tables) + 1)))
    BY <1>3
  <2>2. HeapStep /\ Len(tables) + 1 \in (DOMAIN tables)'
    BY <1>3, TableMade
  <2>3. Good(Table(Len(tables) + 1), Callees', (DOMAIN tables)')
    BY <2>2, GoodMade
  <2> QED BY <1>1, <2>1, <2>2, <2>3, GrowPushStep
<1> QED BY <1>2, <1>3 DEF CreateTable, heap

(* lua_pushcfunction.                                                        *)
LEMMA PushCFunctionStep ==
  ASSUME IInv, PushCFunction
  PROVE  IInv' /\ StepsRight
<1>1. Native
  BY DEF PushCFunction, May
<1>2. CASE UNCHANGED heap /\ \E m : Raise(m)
  BY <1>2, HeapSame, RaiseStep
<1>3. CASE UNCHANGED heap /\ Lose("assert")
  BY <1>3, HeapSame, LoseStep
<1>4. CASE \E L \in Reach : \E env :
             /\ env = closures[Last(frames[L]).fn].env /\ env # Absent /\ tables' = tables
             /\ closures' = Append(closures, NewClosure("native", 0, env))
             /\ Apply(L, Pushed(Stack(L), Closure(Len(closures) + 1)))
  <2>0. PICK L \in Reach : \E env :
             /\ env = closures[Last(frames[L]).fn].env /\ env # Absent /\ tables' = tables
             /\ closures' = Append(closures, NewClosure("native", 0, env))
             /\ Apply(L, Pushed(Stack(L), Closure(Len(closures) + 1)))
    BY <1>4
  <2>1. PICK env :
             /\ env = closures[Last(frames[L]).fn].env /\ env # Absent /\ tables' = tables
             /\ closures' = Append(closures, NewClosure("native", 0, env))
             /\ Apply(L, Pushed(Stack(L), Closure(Len(closures) + 1)))
    BY <2>0
  <2>2. Good(env, Callees, DOMAIN tables)
    BY <2>1, EnvGood
  <2>3. PICK c : c = NewClosure("native", 0, env)
    OBVIOUS
  <2>4. c.kind = "native" /\ c.env = env
    BY <2>3 DEF NewClosure
  <2>5. HeapStep /\ (program' = program => Len(closures) + 1 \in Callees')
    BY <2>1, <2>2, <2>3, <2>4, ClosureMade
  <2>6. program' = program => Good(Closure(Len(closures) + 1), Callees', (DOMAIN tables)')
    BY <2>5, GoodMade
  <2> QED BY <1>1, <2>1, <2>5, <2>6, GrowPushStep
<1> QED BY <1>2, <1>3, <1>4 DEF PushCFunction, heap

(* The top value goes into a table and off the stack.                        *)
LEMMA StoreTopStep ==
  ASSUME IInv, Native, closures' = closures, NEW L \in Reach, Stack(L) # <<>>,
         NEW t, Good(t, Callees, DOMAIN tables), NEW k, StoreTop(L, t, k)
  PROVE  IInv' /\ StepsRight
<1>1. CASE UNCHANGED heap /\ \E m : Raise(m)
  BY <1>1, HeapSame, RaiseStep
<1>2. CASE /\ IsIndexable(t) /\ Apply(L, Popped(Stack(L), 1))
           /\ \/ tables' = [tables EXCEPT ![DataOf(t)] = Store(@, k, Last(Stack(L)))]
              \/ tables' = tables
  <2>1. FullStack(Stack(L), Callees, DOMAIN tables)
    BY ReachFacts
  <2>2. HeapStep
    <3>1. CASE tables' = tables
      BY <3>1, HeapSame DEF heap
    <3>2. CASE tables' = [tables EXCEPT ![DataOf(t)] = Store(@, k, Last(Stack(L)))]
      <4>1. DataOf(t) \in DOMAIN tables
        BY <1>2 DEF Good, IsIndexable
      <4>2. PICK d, v : d = DataOf(t) /\ v = Last(Stack(L))
        OBVIOUS
      <4>3. Good(v, Callees, DOMAIN tables)
        BY <2>1, <4>2, StackEnds DEF FullStack
      <4>4. tables' = Stored(d, k, v)
        BY <3>2, <4>2 DEF Stored
      <4> QED BY <4>1, <4>2, <4>3, <4>4, ValueStored
    <3> QED BY <1>2, <3>1, <3>2
  <2>3. GoodOut(Popped(Stack(L), 1), Callees, DOMAIN tables)
    BY <2>1, PoppedGood
  <2>4. PICK out : out = Popped(Stack(L), 1)
    OBVIOUS
  <2>5. (program' = program /\ out.status = "ok") =>
           IsStack(out.val, Callees', (DOMAIN tables)') /\ Len(out.val) <= StackSize
    BY <2>2, <2>3, <2>4, StillGood DEF GoodOut
  <2>6. Apply(L, out)
    BY <1>2, <2>4
  <2> QED BY <2>2, <2>5, <2>6, ReachFacts, ApplyStep
<1>3. CASE UNCHANGED heap /\ Lose("collision")
  BY <1>3, HeapSame, LoseStep
<1> QED BY <1>1, <1>2, <1>3 DEF StoreTop, heap

(* lua_setfield and lua_setglobal.                                           *)
LEMMA SetSteps ==
  ASSUME IInv, SetField \/ SetGlobal
  PROVE  IInv' /\ StepsRight
<1>1. CASE UNCHANGED heap /\ \E m : Raise(m)
  BY <1>1, HeapSame, RaiseStep
<1>2. ASSUME NEW L \in Reach PROVE FullStack(Stack(L), Callees, DOMAIN tables)
  BY ReachFacts
<1>3. CASE SetField
  <2>1. Native /\ closures' = closures
    BY <1>3 DEF SetField, May
  <2>2. PICK L \in Reach, i \in program.indices, k \in program.names :
          IF IsIndex(Stack(L), i) THEN StoreTop(L, ValueAt(Stack(L), i), k)
          ELSE Raise(Message("invalid stack index")) /\ UNCHANGED tables
    BY <1>3 DEF SetField
  <2>3. CASE ~IsIndex(Stack(L), i)
    BY <1>1, <2>1, <2>2, <2>3 DEF heap
  <2>4. CASE IsIndex(Stack(L), i)
    <3>1. i \in Int
      BY ProgramFacts
    <3>2. Good(ValueAt(Stack(L), i), Callees, DOMAIN tables) /\ Absolute(Stack(L), i) \in 1..Len(Stack(L))
      BY <1>2, <2>4, <3>1, IndexFacts DEF FullStack
    <3>3. Stack(L) # <<>>
      BY <1>2, <3>2, StackFacts DEF FullStack
    <3> QED BY <2>1, <2>2, <2>4, <3>2, <3>3, StoreTopStep
  <2> QED BY <2>3, <2>4
<1>4. CASE SetGlobal
  <2>1. Native /\ closures' = closures
    BY <1>4 DEF SetGlobal, May
  <2>2. PICK L \in Reach, k \in program.names :
          IF Stack(L) # <<>> THEN StoreTop(L, Table(1), k)
          ELSE Raise(Message("invalid stack index")) /\ UNCHANGED tables
    BY <1>4 DEF SetGlobal
  <2>3. Good(Table(1), Callees, DOMAIN tables)
    BY GoodMade DEF IInv, HeapInv
  <2> QED BY <1>1, <2>1, <2>2, <2>3, StoreTopStep DEF heap
<1> QED BY <1>3, <1>4

-----------------------------------------------------------------------------
(* Calls by native functions, and the trampoline.                           *)
LEMMA ClosureKinds ==
  ASSUME IInv
  PROVE  /\ Top.fn \in Callees \cup {1} /\ Top.pc \in Nat
         /\ closures[Top.fn].kind = "trampoline" <=> Top.fn = 1
         /\ closures[Top.fn].kind # "trampoline" => ~Pending(Co)
         /\ Pending(Co) <=> (Top.fn = 1 /\ Top.pc = 0)
<1>1. Top.fn \in Callees \cup {1} /\ Top.pc \in Nat
  BY CoFacts, FrameFacts
<1>2. closures[Top.fn].kind = "trampoline" <=> Top.fn = 1
  BY <1>1 DEF IInv, HeapInv, Callees
<1>3. Pending(Co) <=> (Top.fn = 1 /\ Top.pc = 0)
  BY CoFacts DEF Pending, Top
<1> QED BY <1>1, <1>2, <1>3

(* lua_call from a native function.                                          *)
LEMMA NativeCallStep ==
  ASSUME IInv, NativeCall
  PROVE  IInv' /\ StepsRight
<1>1. HeapStep /\ closures[Top.fn].kind = "native"
  BY HeapSame DEF NativeCall, May, Native
<1>2. PICK nargs \in program.counts, wanted \in program.counts : LuaCall(Top, nargs, wanted)
  BY DEF NativeCall
<1>3. nargs \in Int /\ wanted \in Int
  BY ProgramFacts
<1>4. PICK f : f = Top
  OBVIOUS
<1>5. IsFrame(f, Callees, DOMAIN tables) /\ f.call = Top.call /\ f.fn = Top.fn /\ LuaCall(f, nargs, wanted)
  BY <1>2, <1>4, CoFacts
<1>6. closures[Top.fn].kind # "trampoline"
  BY <1>1
<1> QED BY <1>1, <1>3, <1>5, <1>6, LuaCallStep

(* A native function returns its number of results.                          *)
LEMMA NativeReturnStep ==
  ASSUME IInv, NativeReturn
  PROVE  IInv' /\ StepsRight
<1>1. HeapStep /\ closures[Top.fn].kind = "native"
  BY HeapSame DEF NativeReturn
<1>2. closures[Top.fn].kind # "trampoline"
  BY <1>1
<1>3. Top.fn # 1 /\ ~Pending(Co)
  BY <1>2, ClosureKinds
<1>4. PICK n \in program.rets : SetTop([Top EXCEPT !.rets = n])
  BY DEF NativeReturn
<1>5. n \in Nat
  BY ProgramFacts
<1>6. PICK f : f = [Top EXCEPT !.rets = n]
  OBVIOUS
<1>7. IsFrame(f, Callees, DOMAIN tables) /\ f.call = Top.call /\ f.fn = Top.fn
  <2>1. PICK t : t = Top /\ IsFrame(t, Callees, DOMAIN tables)
    BY CoFacts
  <2>2. f = [t EXCEPT !.rets = n]
    BY <1>6, <2>1
  <2>3. IsFrame(f, Callees, DOMAIN tables) /\ f.call = t.call /\ f.fn = t.fn
    BY <1>5, <2>1, <2>2, FrameRetsOnly
  <2> QED BY <2>1, <2>3
<1>8. program' = program => IsFrame(f, Callees', (DOMAIN tables)')
  BY <1>1, <1>7, StillGood
<1>9. SetTop(f)
  BY <1>4, <1>6
<1> QED BY <1>1, <1>3, <1>7, <1>8, <1>9, SetTopStep

(* A long comes out of lua_tonumber as a number, as it was if a double can   *)
(* hold it.                                                                *)
LEMMA LongNumber ==
  ASSUME NEW v, TypeOf(v) = "long", DataOf(v) \in Longs
  PROVE  /\ ToNumberX(v).isnum = TRUE /\ ToNumberX(v).num \in Int
         /\ Abs(DataOf(v)) <= MaxExact => ToNumberX(v).num = DataOf(v)
<1>1. PICK n \in Int : n = DataOf(v)
  BY LongsFacts
<1>2. PICK neg, mag : neg = (n < 0) /\ mag = Nearest(Abs(n))
  OBVIOUS
<1>3. ToDouble(v) = Ok(Double(neg, mag))
  BY <1>1, <1>2 DEF ToDouble
<1>4. /\ ToDouble(v).status = "ok"
      /\ DataOf(ToDouble(v).val).neg = neg /\ DataOf(ToDouble(v).val).mag = mag
  BY <1>3 DEF Ok, Double, DataOf
<1>5. PICK k \in Nat : k = Magnitude(mag) /\ (Abs(n) <= MaxExact => k = Abs(n))
  <2>1. Abs(n) \in 0..LongMax + 1
    BY <1>1, LongsFacts
  <2> QED BY <1>2, <2>1, DoubleAssumption
<1>6. Number(DataOf(ToDouble(v).val)) = IF neg THEN -k ELSE k
  BY <1>4, <1>5 DEF Number
<1>7. (IF neg THEN -k ELSE k) \in Int /\ (Abs(n) <= MaxExact => (IF neg THEN -k ELSE k) = n)
  <2>1. CASE n < 0
    <3>1. neg /\ Abs(n) = -n
      BY <1>2, <2>1 DEF Abs
    <3> QED BY <1>5, <3>1
  <2>2. CASE ~(n < 0)
    <3>1. ~neg /\ Abs(n) = n
      BY <1>2, <2>2 DEF Abs
    <3> QED BY <1>5, <3>1
  <2> QED BY <2>1, <2>2
<1> QED BY <1>1, <1>4, <1>6, <1>7 DEF ToNumberX

(* The trampoline calls what lua_resume left below the arguments, or answers *)
(* with nothing when that call returned.                                     *)
LEMMA TrampolineStep ==
  ASSUME IInv, Trampoline
  PROVE  IInv' /\ StepsRight
<1>1. HeapStep /\ Top.fn = 1 /\ Top.pc \in Nat
  BY HeapSame, ClosureKinds DEF Trampoline
<1>2. PICK t : t = Top /\ IsFrame(t, Callees, DOMAIN tables)
  BY CoFacts
<1>3. CASE Top.pc > 0
  <2>1. PICK f : f = [t EXCEPT !.rets = 0]
    OBVIOUS
  <2>2. SetTop(f)
    BY <1>2, <1>3, <2>1 DEF Trampoline
  <2>3. IsFrame(f, Callees, DOMAIN tables) /\ f.call = t.call /\ f.fn = t.fn
    BY <1>2, <2>1, FrameRetsOnly
  <2>4. f.pc = t.pc
    BY <1>2, <2>1 DEF IsFrame
  <2>5. program' = program => IsFrame(f, Callees', (DOMAIN tables)')
    BY <1>1, <2>3, StillGood
  <2>6. ~Pending(Co)
    BY <1>1, <1>3, ClosureKinds
  <2> QED BY <1>1, <1>2, <1>3, <2>2, <2>3, <2>4, <2>5, <2>6, SetTopStep
<1>4. CASE ~(Top.pc > 0)
  <2>1. Top.pc = 0
    BY <1>1, <1>4
  <2>2. status[Co] = "running" /\ Pending(Co) /\ Co \in Coroutines
    BY <1>1, <2>1, CoFacts, ClosureKinds
  <2>3. Len(Stack(Co)) >= 2 /\ TypeOf(Last(Stack(Co))) = "long"
    BY <2>2 DEF IInv, PendingInv
  <2>4. PICK s : s = t.stack /\ s = Stack(Co)
    BY <1>2, <2>2, CoFacts DEF Stack, Top
  <2>5. IsStack(s, Callees, DOMAIN tables) /\ Len(s) <= StackSize /\ Len(s) \in Nat
    BY <1>2, <2>4, FrameFacts, StackFacts
  <2>6. s # <<>>
    BY <2>3, <2>4, <2>5, StackFacts
  <2>7. Last(s) = s[Len(s)] /\ Good(Last(s), Callees, DOMAIN tables)
    BY <2>5, <2>6, StackEnds
  <2>8. PICK v : v = Last(s)
    OBVIOUS
  <2>9. TypeOf(v) = "long" /\ DataOf(v) \in Longs
    BY <2>3, <2>4, <2>7, <2>8 DEF Good
  <2>10. PICK k \in Int : k = ToNumberX(Last(s)).num /\ (Abs(DataOf(v)) <= MaxExact => k = DataOf(v))
    BY <2>8, <2>9, LongNumber
  <2>11. PICK m : m = Len(s) - 2
    OBVIOUS
  <2>12. m \in Nat /\ m <= Len(s) /\ m <= StackSize
    <3>1. Len(s) >= 2 /\ StackSize \in Nat
      BY <2>3, <2>4, LimitFacts
    <3> QED BY <2>5, <2>11, <3>1
  <2>13. PICK u : u = SubSeq(s, 1, m)
    OBVIOUS
  <2>14. IsStack(u, Callees, DOMAIN tables) /\ Len(u) = m
    BY <2>5, <2>12, <2>13, StackPrefix
  <2>15. PICK f : f = [t EXCEPT !.stack = u]
    OBVIOUS
  <2>16. Len(u) <= StackSize
    BY <2>12, <2>14
  <2>17. IsFrame(f, Callees, DOMAIN tables) /\ f.stack = u /\ f.call = t.call /\ f.fn = t.fn
    BY <1>2, <2>14, <2>15, <2>16, FrameStack
  <2>18. CASE \E msg : Raise(msg)
    BY <1>1, <2>18, RaiseStep
  <2>19. CASE u # <<>> /\ LuaCall(f, k, All)
    <3>1. Len(s) >= 3
      <4>1. m # 0
        BY <2>14, <2>19, StackFacts
      <4> QED BY <2>5, <2>11, <2>12, <4>1
    <3>2. All \in Int
      BY DEF All
    <3>3. ASSUME s[Len(s)] = Long(Len(s) - 3) PROVE k = Len(s) - 3
      <4>1. DataOf(v) = Len(s) - 3
        BY <2>7, <2>8, <3>3 DEF Long, DataOf
      <4>2. Abs(DataOf(v)) <= MaxExact
        BY <2>5, <3>1, <4>1, LimitFacts, ApiAssumption, DoubleAssumption DEF Abs
      <4> QED BY <2>10, <4>1, <4>2
    <3>4. PICK n \in Int : n = k
      OBVIOUS
    <3>5. LuaCall(f, n, All) /\ f.call = Top.call /\ f.fn = Top.fn /\ s = Top.stack
      BY <1>2, <2>4, <2>17, <2>19, <3>4
    <3>6. Top.stack[Len(Top.stack)] = Long(Len(Top.stack) - 3)
            => /\ f.stack = SubSeq(Top.stack, 1, Len(Top.stack) - 2) /\ Len(Top.stack) >= 3
               /\ n = Len(Top.stack) - 3
      BY <2>11, <2>13, <2>17, <3>1, <3>3, <3>4, <3>5
    <3> QED BY <1>1, <2>17, <3>2, <3>5, <3>6, LuaCallStep
  <2>20. PICK s1, f1 :
           /\ s1 = Top.stack /\ f1 = [Top EXCEPT !.stack = SubSeq(s1, 1, Len(s1) - 2)]
           /\ \/ \E msg : Raise(msg)
              \/ f1.stack # <<>> /\ LuaCall(f1, ToNumberX(Last(s1)).num, All)
    BY <1>4 DEF Trampoline
  <2>21. Top.stack = s /\ [Top EXCEPT !.stack = SubSeq(s, 1, Len(s) - 2)] = f
    BY <1>2, <2>4, <2>11, <2>13, <2>15
  <2>22. s1 = s /\ f1 = f /\ f1.stack = u
    BY <2>17, <2>20, <2>21
  <2>23. ToNumberX(Last(s1)).num = k
    BY <2>10, <2>22
  <2>24. (\E msg : Raise(msg)) \/ (u # <<>> /\ LuaCall(f, k, All))
    BY <2>20, <2>22, <2>23
  <2> QED BY <2>18, <2>19, <2>24
<1> QED BY <1>3, <1>4

-----------------------------------------------------------------------------
(* The API calls on coroutines.                                             *)
LEMMA NotPending ==
  ASSUME IInv, Native
  PROVE  \A c \in Coroutines : status[c] = "running" => ~Pending(c)
BY NativeFacts DEF IInv, PendingInv

(* A coroutine that finished has no call state to use.                       *)
LEMMA UseFinishedStep ==
  ASSUME IInv, UseFinished
  PROVE  IInv' /\ StepsRight
BY HeapSame, LoseStep DEF UseFinished

(* The new coroutine's frames, after those of the others.                   *)
(* lua_newthread: a coroutine with a trampoline, and it as a value on the    *)
(* stack of the creator.                                                     *)
WithFirst(fs, c, f) == [fs EXCEPT ![c] = <<f>>]

(* lua_newthread, also where it is refused.                                  *)
LEMMA NewThreadStep ==
  ASSUME IInv, NewThread
  PROVE  IInv' /\ StepsRight
<1> DEFINE K == Callees
           T == DOMAIN tables
<1>1. HeapStep /\ Native /\ UNCHANGED heap
  BY HeapSame DEF NewThread, May
<1>2. CASE \E m : Raise(m)
  BY <1>1, <1>2, RaiseStep
<1>4. CASE \E how : Lose(how)
  BY <1>1, <1>4, LoseStep
<1>3. CASE \E L \in Reach :
             /\ Fits(Stack(L), 1)
             /\ \E c \in Coroutines :
                  /\ status[c] = "none"
                  /\ status' = [status EXCEPT ![c] = "suspended"]
                  /\ frames' = [WithStack(Counted, L, Append(Stack(L), Coroutine(c)))
                                  EXCEPT ![c] = <<NewFrame(1, <<>>, Body)>>]
             /\ UNCHANGED <<program, nest, thrown, answer, errmsg, fault>>
  <2>1. PICK L \in Reach, c \in Coroutines :
             /\ Fits(Stack(L), 1) /\ status[c] = "none"
             /\ status' = [status EXCEPT ![c] = "suspended"]
             /\ frames' = [WithStack(Counted, L, Append(Stack(L), Coroutine(c)))
                             EXCEPT ![c] = <<NewFrame(1, <<>>, Body)>>]
             /\ UNCHANGED <<program, nest, thrown, answer, errmsg, fault>>
    BY <1>3
  <2>2. /\ L \in Coroutines /\ frames[L] # <<>> /\ FullStack(Stack(L), K, T)
        /\ L # c /\ frames[c] = <<>> /\ Co \in Coroutines /\ c # Co
    <3>1. frames[c] = <<>>
      BY <2>1 DEF IInv, FlowInv
    <3> QED BY <3>1, ReachFacts, CoFacts
  <2>3. PICK s : s = Append(Stack(L), Coroutine(c))
    OBVIOUS
  <2>4. IsStack(s, K, T) /\ Len(s) <= StackSize
    <3>1. Good(Coroutine(c), K, T)
      BY GoodMade
    <3>2. PICK u : u = Stack(L) /\ IsStack(u, K, T)
      BY <2>2 DEF FullStack
    <3>3. IsStack(s, K, T) /\ Len(s) = Len(u) + 1
      BY <2>3, <3>1, <3>2, StackAppend
    <3> QED BY <2>1, <3>2, <3>3 DEF Fits
  <2>5. PICK g : g = NewFrame(1, <<>>, Body)
    OBVIOUS
  <2>6. IsFrame(g, K, T)
    <3>1. IsCall(Body)
      BY DEF IsCall, Body, All
    <3>2. IsStack(<<>>, K, T) /\ Len(<<>>) <= StackSize
      <4>1. Len(<<>>) = 0 /\ StackSize \in Nat
        BY SeqEmpty, LimitFacts
      <4>2. Len(<<>>) <= StackSize
        BY <4>1
      <4> QED BY <4>2, StackEmpty
    <3>3. PICK e, b : e = <<>> /\ b = Body
      OBVIOUS
    <3>4. IsStack(e, K, T) /\ Len(e) <= StackSize /\ IsCall(b) /\ g = NewFrame(1, e, b)
      BY <2>5, <3>1, <3>2, <3>3
    <3>5. 1 \in K \cup {1}
      OBVIOUS
    <3> HIDE DEF K, T
    <3> QED BY <3>4, <3>5, FrameMade
  <2>7. AllStacks(frames, K, T)
    BY DEF IInv, FramesInv, AllStacks
  <2>8. /\ AllStacks(Counted, K, T) /\ Alike(frames, Counted)
        /\ \A d \in Coroutines : frames[d] # <<>> => /\ Counted[d] # <<>>
                                                     /\ Last(Counted[d]).stack = Last(frames[d]).stack
    BY <2>7, CountedFacts
  <2>9. PICK mid : mid = WithStack(Counted, L, s)
    OBVIOUS
  <2>10. /\ AllStacks(mid, K, T) /\ Alike(Counted, mid)
         /\ \A d \in Coroutines : d # L => mid[d] = Counted[d]
    BY <2>2, <2>4, <2>8, <2>9, WithStackFacts
  <2>11. Alike(frames, mid)
    BY <2>8, <2>10, AlikeTwice
  <2>12. frames' = WithFirst(mid, c, g)
    BY <2>1, <2>3, <2>5, <2>9 DEF WithFirst
  <2>13. IsCallStack(<<g>>, K, T) /\ <<g>> # <<>> /\ Len(<<g>>) = 1
    BY <2>6, CallStackFirst
  <2>14. mid = [d \in Coroutines |-> mid[d]] /\ \A d \in Coroutines : IsCallStack(mid[d], K, T)
    BY <2>10 DEF AllStacks
  <2>15. /\ frames' = [d \in Coroutines |-> frames'[d]] /\ frames'[c] = <<g>>
         /\ \A d \in Coroutines : d # c => frames'[d] = mid[d]
    BY <2>12, <2>14 DEF WithFirst
  <2>16. AllStacks(frames', K, T)
    BY <2>13, <2>14, <2>15 DEF AllStacks
  <2>17. K' = K /\ T' = T
    BY <1>1, <2>1 DEF heap, Callees
  <2>18. FramesInv'
    BY <2>16, <2>17 DEF FramesInv, AllStacks
  <2>19. program' \in Programs /\ HeapInv'
    BY <1>1, <2>1 DEF IInv, HeapStep
  <2>20. /\ nest' = nest /\ thrown' = thrown
         /\ status' \in [Coroutines -> {"none", "suspended", "running", "dead"}]
         /\ status'[c] = "suspended" /\ \A d \in Coroutines : d # c => status'[d] = status[d]
    <3>1. status \in [Coroutines -> {"none", "suspended", "running", "dead"}]
      BY DEF IInv, FlowInv
    <3> QED BY <2>1, <3>1
  <2>21. ASSUME NEW d \in Coroutines
         PROVE  /\ status'[d] = "running" <=> \E i \in DOMAIN nest : nest[i] = d
                /\ status'[d] \in {"running", "suspended"} => frames'[d] # <<>>
                /\ status'[d] = "none" => frames'[d] = <<>>
                /\ thrown[d] # Absent => status'[d] = "dead"
                /\ status'[d] = "dead" => (thrown[d] # Absent <=> frames'[d] # <<>>)
    <3>1. /\ status[d] = "running" <=> \E i \in DOMAIN nest : nest[i] = d
          /\ status[d] \in {"running", "suspended"} => frames[d] # <<>>
          /\ status[d] = "none" => frames[d] = <<>>
          /\ thrown[d] # Absent => status[d] = "dead"
          /\ status[d] = "dead" => (thrown[d] # Absent <=> frames[d] # <<>>)
      BY DEF IInv, FlowInv
    <3>2. CASE d = c
      BY <2>1, <2>13, <2>15, <2>20, <3>1, <3>2
    <3>3. CASE d # c
      <4>1. frames'[d] = <<>> <=> frames[d] = <<>>
        BY <2>11, <2>15, <3>3 DEF Alike
      <4> QED BY <2>20, <3>1, <3>3, <4>1
    <3> QED BY <3>2, <3>3
  <2>22. FlowInv'
    BY <2>20, <2>21 DEF IInv, FlowInv
  <2>23. PendingInv'
    <3> SUFFICES ASSUME NEW d \in Coroutines, status'[d] = "running", Pending(d)'
                 PROVE  FALSE
      BY DEF PendingInv
    <3>1. d # c /\ status[d] = "running"
      BY <2>20
    <3>2. Pending(d)
      BY <2>11, <2>15, <3>1 DEF Pending, Alike
    <3> QED BY <1>1, <3>1, <3>2, NotPending
  <2>24. SameDepth
    BY <2>2, <2>11, <2>15 DEF SameDepth, Alike
  <2>25. OneStack
    <3>1. ASSUME NEW d \in Coroutines, d # L, frames[d] # <<>>
          PROVE  frames'[d] # <<>> /\ Last(frames'[d]).stack = Last(frames[d]).stack
      BY <2>2, <2>8, <2>10, <2>15, <3>1
    <3> QED BY <2>2, <3>1 DEF OneStack
  <2> QED BY <2>18, <2>19, <2>22, <2>23, <2>24, <2>25, QuietKeeps DEF IInv
<1> QED BY <1>1, <1>2, <1>3, <1>4 DEF NewThread

(* A nested coroutine becomes the innermost.                                *)
LEMMA NestAppend ==
  ASSUME IInv, NEW c \in Coroutines, status[c] # "running", nest' = Append(nest, c)
  PROVE  /\ nest' \in Seq(Coroutines) /\ nest' # <<>> /\ nest'[1] = Host
         /\ \A i, j \in DOMAIN nest' : nest'[i] = nest'[j] => i = j
         /\ \A d \in Coroutines : (\E i \in DOMAIN nest' : nest'[i] = d) <=>
                                  (d = c \/ \E i \in DOMAIN nest : nest[i] = d)
         /\ Co' = c
<1>1. /\ nest \in Seq(Coroutines) /\ nest # <<>> /\ nest[1] = Host
      /\ \A i, j \in DOMAIN nest : nest[i] = nest[j] => i = j
      /\ ~\E i \in DOMAIN nest : nest[i] = c
  BY DEF IInv, FlowInv
<1>2. PICK n : n = Len(nest) /\ n \in Nat \ {0} /\ DOMAIN nest = 1..n
  BY <1>1, CoFacts
<1>3. /\ nest' \in Seq(Coroutines) /\ nest' # <<>> /\ Len(nest') = n + 1
      /\ \A i \in 1..n : nest'[i] = nest[i]
      /\ nest'[n + 1] = c
  BY <1>1, <1>2, AppendProperties
<1>4. DOMAIN nest' = 1..(n + 1) /\ 1 \in 1..n /\ n + 1 \in 1..(n + 1)
  BY <1>2, <1>3
<1>5. \A i \in 1..(n + 1) : i = n + 1 \/ i \in 1..n
  BY <1>2
<1>6. \A i \in 1..n : i \in 1..(n + 1)
  BY <1>2
<1>7. \A i, j \in DOMAIN nest' : nest'[i] = nest'[j] => i = j
  BY <1>1, <1>2, <1>3, <1>4, <1>5
<1>8. ASSUME NEW d \in Coroutines
      PROVE  (\E i \in DOMAIN nest' : nest'[i] = d) <=> (d = c \/ \E i \in DOMAIN nest : nest[i] = d)
  BY <1>2, <1>3, <1>4, <1>5, <1>6
<1>9. Co' = c
  <2>1. IsSeq(nest')
    BY <1>3, SeqIs
  <2>2. Last(nest') = nest'[Len(nest')]
    BY <1>3, <2>1, SeqEnds
  <2> QED BY <1>3, <2>2 DEF Co
<1> QED BY <1>1, <1>3, <1>4, <1>7, <1>8, <1>9

(* A resume that goes through: the arguments' number is on the stack of the  *)
(* coroutine, which executes now.                                            *)
LEMMA ResumedStep ==
  ASSUME IInv, UNCHANGED heap, Native, NEW c \in Coroutines, frames[c] # <<>>,
         Len(Stack(c)) + 2 <= StackSize, NEW v, Good(v, Callees, DOMAIN tables), NEW n \in Longs,
         Resumed(WithStack(Counted, c, Stack(c) \o <<v, Long(n)>>), c)
  PROVE  IInv' /\ StepsRight
<1> DEFINE K == Callees
           T == DOMAIN tables
<1>1. HeapStep /\ program' = program /\ Co \in Coroutines
  BY HeapSame, CoFacts DEF Resumed
<1>2. PICK two : two = <<v, Long(n)>>
  OBVIOUS
<1>3. IsStack(two, K, T) /\ Len(two) = 2 /\ two[2] = Long(n)
  <2>1. Len(two) = 2 /\ two[1] = v /\ two[2] = Long(n) /\ two = [i \in 1..2 |-> two[i]]
    BY <1>2
  <2>2. Good(Long(n), K, T)
    BY GoodMade
  <2>3. \A i \in 1..2 : i = 1 \/ i = 2
    OBVIOUS
  <2>4. \A i \in 1..2 : Good(two[i], K, T)
    BY <2>1, <2>2, <2>3
  <2> QED BY <2>1, <2>4, StackMade
<1>4. PICK s : s = Stack(c) \o two
  OBVIOUS
<1>5. IsStack(Stack(c), K, T) /\ Len(Stack(c)) \in Nat
  BY StackOf
<1>6. IsStack(s, K, T) /\ Len(s) = Len(Stack(c)) + 2
  BY <1>3, <1>4, <1>5, StackConcat
<1>7. Len(s) <= StackSize /\ Len(s) >= 2
  <2>1. StackSize \in Nat
    BY LimitFacts
  <2> QED BY <1>5, <1>6, <2>1
<1>8. Last(s) = Long(n)
  <2>1. IsSeq(Stack(c)) /\ IsSeq(two)
    BY <1>3, <1>5, StackFacts
  <2>2. 2 \in 1..Len(two)
    BY <1>3
  <2>3. s[Len(Stack(c)) + 2] = two[2]
    BY <1>4, <2>1, <2>2, SeqConcat
  <2>4. s # <<>>
    BY <1>6, <1>7, StackFacts
  <2>5. Last(s) = s[Len(s)]
    BY <1>6, <2>4, StackEnds
  <2> QED BY <1>3, <1>6, <2>3, <2>5
<1>9. AllStacks(frames, K, T)
  BY DEF IInv, FramesInv, AllStacks
<1>10. /\ AllStacks(Counted, K, T) /\ Alike(frames, Counted)
       /\ \A d \in Coroutines : frames[d] # <<>> => /\ Counted[d] # <<>>
                                                    /\ Last(Counted[d]).stack = Last(frames[d]).stack
  BY <1>9, CountedFacts
<1>11. PICK fs : fs = WithStack(Counted, c, s)
  OBVIOUS
<1>12. /\ AllStacks(fs, K, T) /\ Alike(Counted, fs) /\ fs[c] # <<>> /\ Last(fs[c]).stack = s
       /\ \A d \in Coroutines : d # c => fs[d] = Counted[d]
  BY <1>6, <1>7, <1>10, <1>11, WithStackFacts
<1>13. Alike(frames, fs)
  BY <1>10, <1>12, AlikeTwice
<1>14. frames' = fs
  BY <1>2, <1>4, <1>11 DEF Resumed
<1>15. K' = K /\ T' = T
  BY <1>1 DEF heap, Callees
<1>16. AllStacks(frames', Callees', (DOMAIN tables)')
  BY <1>12, <1>14, <1>15
<1>17. SameDepth
  BY <1>13, <1>14 DEF SameDepth, Alike
<1>18. OneStack
  BY <1>10, <1>12, <1>14 DEF OneStack
<1>19. CASE UNCHANGED <<nest, status, thrown>>
  BY <1>1, <1>13, <1>14, <1>16, <1>18, <1>19, NativeFacts, StillFlow, QuietKeeps
<1>20. CASE /\ status[c] = "suspended"
            /\ nest' = Append(nest, c) /\ status' = [status EXCEPT ![c] = "running"]
            /\ thrown' = thrown
  <2>1. /\ nest' \in Seq(Coroutines) /\ nest' # <<>> /\ nest'[1] = Host
        /\ \A i, j \in DOMAIN nest' : nest'[i] = nest'[j] => i = j
        /\ \A d \in Coroutines : (\E i \in DOMAIN nest' : nest'[i] = d) <=>
                                 (d = c \/ \E i \in DOMAIN nest : nest[i] = d)
        /\ Co' = c
    BY <1>20, NestAppend
  <2>2. /\ status' \in [Coroutines -> {"none", "suspended", "running", "dead"}]
        /\ status'[c] = "running" /\ \A d \in Coroutines : d # c => status'[d] = status[d]
    <3>1. status \in [Coroutines -> {"none", "suspended", "running", "dead"}]
      BY DEF IInv, FlowInv
    <3> QED BY <1>20, <3>1
  <2>3. ASSUME NEW d \in Coroutines
        PROVE  /\ status'[d] = "running" <=> \E i \in DOMAIN nest' : nest'[i] = d
               /\ status'[d] \in {"running", "suspended"} => frames'[d] # <<>>
               /\ status'[d] = "none" => frames'[d] = <<>>
               /\ thrown[d] # Absent => status'[d] = "dead"
               /\ status'[d] = "dead" => (thrown[d] # Absent <=> frames'[d] # <<>>)
    <3>1. /\ status[d] = "running" <=> \E i \in DOMAIN nest : nest[i] = d
          /\ status[d] \in {"running", "suspended"} => frames[d] # <<>>
          /\ status[d] = "none" => frames[d] = <<>>
          /\ thrown[d] # Absent => status[d] = "dead"
          /\ status[d] = "dead" => (thrown[d] # Absent <=> frames[d] # <<>>)
      BY DEF IInv, FlowInv
    <3>2. frames'[d] = <<>> <=> frames[d] = <<>>
      BY <1>13, <1>14 DEF Alike
    <3>3. CASE d = c
      BY <1>20, <2>1, <2>2, <3>1, <3>2, <3>3
    <3>4. CASE d # c
      BY <2>1, <2>2, <3>1, <3>2, <3>4
    <3> QED BY <3>3, <3>4
  <2>4. FlowInv'
    BY <1>20, <2>1, <2>2, <2>3 DEF IInv, FlowInv
  <2>5. PendingInv'
    <3> SUFFICES ASSUME NEW d \in Coroutines, status'[d] = "running", Pending(d)'
                 PROVE  d = Co' /\ Len(Stack(d))' >= 2 /\ TypeOf(Last(Stack(d))') = "long"
      BY DEF PendingInv
    <3>1. d = c
      <4>1. CASE d # c
        <5>1. status[d] = "running" /\ Pending(d)
          BY <1>13, <1>14, <2>2, <4>1 DEF Pending, Alike
        <5> QED BY <5>1, NotPending
      <4> QED BY <4>1
    <3>2. Stack(d)' = s
      BY <1>12, <1>14, <3>1 DEF Stack
    <3> QED BY <1>7, <1>8, <2>1, <3>1, <3>2 DEF Long, TypeOf
  <2>6. program' \in Programs /\ HeapInv' /\ FramesInv'
    BY <1>1, <1>16 DEF IInv, HeapStep, FramesInv, AllStacks
  <2> QED BY <1>17, <1>18, <2>4, <2>5, <2>6, QuietKeeps DEF IInv
<1> QED BY <1>19, <1>20 DEF Resumed

(* lua_resume, also where it is refused.                                     *)
LEMMA ResumeStep ==
  ASSUME IInv, Resume
  PROVE  IInv' /\ StepsRight
<1>1. HeapStep /\ Native /\ UNCHANGED heap
  BY HeapSame DEF Resume, May
<1>2. CASE \E m : Raise(m)
  BY <1>1, <1>2, RaiseStep
<1>3. CASE \E how : Lose(how)
  BY <1>1, <1>3, LoseStep
<1>4. CASE \E c \in Others \cup {Co}, n \in program.counts, out \in NewLight(0, 0) :
             /\ frames[c] # <<>> /\ Fits(Stack(c), 2) /\ out.status = "ok"
             /\ Resumed(WithStack(Counted, c, Stack(c) \o <<out.val, Long(n)>>), c)
  <2>1. PICK c \in Others \cup {Co}, n \in program.counts, out \in NewLight(0, 0) :
             /\ frames[c] # <<>> /\ Fits(Stack(c), 2) /\ out.status = "ok"
             /\ Resumed(WithStack(Counted, c, Stack(c) \o <<out.val, Long(n)>>), c)
    BY <1>4
  <2>2. c \in Coroutines /\ n \in Longs
    BY CoFacts, ProgramFacts DEF Others
  <2>3. Good(out.val, Callees, DOMAIN tables)
    <3>1. out = Ok(Userdata("light", 0, 0))
      BY <2>1 DEF NewLight, Crash
    <3>2. out.val = Userdata("light", 0, 0)
      BY <3>1 DEF Ok
    <3> QED BY <3>2, GoodMade
  <2>4. Len(Stack(c)) + 2 <= StackSize
    BY <2>1 DEF Fits
  <2> QED BY <1>1, <2>1, <2>2, <2>3, <2>4, ResumedStep
<1> QED BY <1>2, <1>3, <1>4 DEF Resume

(* lua_yield: the resumer executes again.                                    *)
LEMMA YieldStep ==
  ASSUME IInv, Yield
  PROVE  IInv' /\ StepsRight
<1>1. HeapStep /\ Native /\ frames' = Counted /\ program' = program /\ Co \in Coroutines /\ frames[Co] # <<>>
  BY HeapSame, CoFacts DEF Yield, May, Leave
<1>2. AllStacks(frames, Callees', (DOMAIN tables)')
  BY <1>1, FramesKept
<1>3. /\ AllStacks(frames', Callees', (DOMAIN tables)') /\ Alike(frames, frames')
      /\ \A c \in Coroutines : c # Co => frames'[c] = frames[c]
      /\ \A c \in Coroutines : frames[c] # <<>> => /\ frames'[c] # <<>>
                                                   /\ Last(frames'[c]).stack = Last(frames[c]).stack
  BY <1>1, <1>2, CountedFacts
<1>4. SameDepth /\ OneStack
  BY <1>1, <1>3 DEF SameDepth, OneStack, Alike
<1>5. IInv'
  <2>1. CASE Co # Host /\ Leave("suspended", Absent)
    BY <1>1, <1>3, <2>1, LeaveAlone
  <2>2. CASE UNCHANGED <<nest, status, thrown>>
    BY <1>1, <1>3, <2>2, NativeFacts, StillFlow
  <2> QED BY <2>1, <2>2 DEF Yield, IsYieldable, flow
<1> QED BY <1>4, <1>5, QuietKeeps

-----------------------------------------------------------------------------
(* lua_xmove.                                                               *)
LEMMA PrefixOf ==
  ASSUME NEW s, IsSeq(s), NEW n \in Nat, n <= Len(s), NEW u, u = SubSeq(s, 1, n)
  PROVE  IsPrefix(u, s)
<1>1. Len(u) = n
  BY SeqPrefix
<1>2. PICK k \in Int : k = n
  OBVIOUS
<1>3. SubSeq(SubSeq(s, 1, n), 1, k) = SubSeq(s, 1, k)
  BY <1>2, PartOfPart
<1>4. SubSeq(u, 1, Len(u)) = SubSeq(s, 1, Len(u))
  BY <1>1, <1>2, <1>3
<1> QED BY <1>1, <1>4 DEF IsPrefix

(* What fits of a stack.                                                    *)
LEMMA CutFacts ==
  ASSUME NEW s, IsSeq(s), NEW u, u = SubSeq(s, 1, IF Len(s) < StackSize THEN Len(s) ELSE StackSize)
  PROVE  /\ IsPrefix(u, s) /\ (u = s \/ Len(u) = StackSize)
         /\ Len(u) = Len(s) \/ Len(u) = StackSize
<1>1. Len(s) \in Nat /\ StackSize \in Nat
  BY SeqFacts, LimitFacts
<1>2. PICK n : n = IF Len(s) < StackSize THEN Len(s) ELSE StackSize
  OBVIOUS
<1>3. n \in Nat /\ n <= Len(s) /\ (n = Len(s) \/ n = StackSize)
  BY <1>1, <1>2
<1>4. u = SubSeq(s, 1, n)
  BY <1>2
<1>5. IsPrefix(u, s)
  BY <1>3, <1>4, PrefixOf
<1>6. IsSeq(u) /\ Len(u) = n /\ \A i \in 1..n : u[i] = s[i]
  BY <1>3, <1>4, SeqPrefix
<1>7. n = Len(s) => u = s
  BY <1>6, SeqSame
<1> QED BY <1>3, <1>5, <1>6, <1>7

(* What MovesRight asks of values that went from one stack to another.      *)
MovesFrom(from, dest) ==
  /\ IsPrefix(Last(frames'[from]).stack, Stack(from))
  /\ IsPrefix(Last(frames'[dest]).stack, Stack(dest) \o
       SubSeq(Stack(from), Len(Last(frames'[from]).stack) + 1, Len(Stack(from))))
  /\ \/ Last(frames'[dest]).stack = Stack(dest) \o
           SubSeq(Stack(from), Len(Last(frames'[from]).stack) + 1, Len(Stack(from)))
     \/ Len(Last(frames'[dest]).stack) = StackSize

(* To see MovesKeepOrder of a step it is enough to see which of any two      *)
(* stacks was taken from.                                                    *)
LEMMA MovesEither ==
  ASSUME \A A, B \in Coroutines :
           (A # B /\ \A c \in {A, B} : frames[c] # <<>> /\ Last(frames'[c]).stack # Stack(c))
              => MovesFrom(A, B) \/ MovesFrom(B, A)
  PROVE  MovesRight
<1> SUFFICES ASSUME NEW L \in Coroutines, NEW to \in Coroutines, L # to,
                    \A c \in {L, to} : frames[c] # <<>> /\ Last(frames'[c]).stack # Stack(c)
             PROVE  \E from \in {L, to} :
                      LET dest == IF from = L THEN to ELSE L
                          all  == Stack(dest) \o SubSeq(Stack(from), Len(Last(frames'[from]).stack) + 1,
                                                       Len(Stack(from)))
                          got  == Last(frames'[dest]).stack
                      IN  IsPrefix(Last(frames'[from]).stack, Stack(from))
                          /\ IsPrefix(got, all) /\ (got = all \/ Len(got) = StackSize)
  BY DEF MovesRight
<1>1. MovesFrom(L, to) \/ MovesFrom(to, L)
  OBVIOUS
<1>2. CASE MovesFrom(L, to)
  <2> WITNESS L \in {L, to}
  <2> QED BY <1>2 DEF MovesFrom
<1>3. CASE MovesFrom(to, L)
  <2> WITNESS to \in {L, to}
  <2> QED BY <1>3 DEF MovesFrom
<1> QED BY <1>1, <1>2, <1>3

(* What lua_xmove makes, bit by bit.                                        *)
Moving(L, to, n, moved, all, cut, after, left, rest) ==
  /\ moved = SubSeq(Stack(L), Len(Stack(L)) - n + 1, Len(Stack(L)))
  /\ all = Stack(to) \o moved
  /\ cut = SubSeq(all, 1, IF Len(all) < StackSize THEN Len(all) ELSE StackSize)
  /\ after = WithStack(Counted, to, cut)
  /\ left = Last(after[L]).stack
  /\ rest = SubSeq(left, 1, Len(left) - n)
  /\ frames' = WithStack(after, L, rest)

(* lua_xmove of n values: the top ones of one stack go to the other in their *)
(* order, as far as it has room.                                             *)
LEMMA XMovedStep ==
  ASSUME IInv, HeapStep, Native, NEW L \in Coroutines, NEW to \in Coroutines, NEW n \in Int, n > 0,
         frames[L] # <<>>, frames[to] # <<>>, n <= Len(Stack(L)), UNCHANGED <<program, flow>>,
         NEW moved, NEW all, NEW cut, NEW after, NEW left, NEW rest,
         Moving(L, to, n, moved, all, cut, after, left, rest)
  PROVE  IInv' /\ StepsRight
<1> DEFINE K == Callees'
           T == (DOMAIN tables)'
<1>1. AllStacks(frames, K, T)
  BY FramesKept
<1>2. /\ AllStacks(Counted, K, T) /\ Alike(frames, Counted)
      /\ \A c \in Coroutines : frames[c] # <<>> => /\ Counted[c] # <<>>
                                                   /\ Last(Counted[c]).stack = Stack(c)
  BY <1>1, CountedFacts DEF Stack
<1>3. ASSUME NEW c \in Coroutines, frames[c] # <<>>
      PROVE  IsStack(Stack(c), K, T) /\ Len(Stack(c)) <= StackSize /\ Len(Stack(c)) \in Nat
  <2>1. IsStack(Stack(c), Callees, DOMAIN tables) /\ Len(Stack(c)) <= StackSize /\ Len(Stack(c)) \in Nat
    BY <1>3, StackOf
  <2> QED BY <2>1, StillGood
<1> HIDE DEF K, T
<1>4. PICK a, b : a = Stack(to) /\ b = Stack(L)
  OBVIOUS
<1>5. /\ IsStack(a, K, T) /\ Len(a) \in Nat
      /\ IsStack(b, K, T) /\ Len(b) <= StackSize /\ Len(b) \in Nat /\ n <= Len(b)
  BY <1>3, <1>4
<1>6. IsStack(moved, K, T) /\ Len(moved) = n
  <2>0. Len(b) \in Nat
    BY <1>5
  <2>1. PICK m \in Int : m = Len(b) - n + 1
    BY <2>0
  <2>2. m >= 1 /\ m <= Len(b) /\ Len(b) - m + 1 = n /\ Len(b) \in Int
    BY <1>5, <2>1
  <2>3. moved = SubSeq(b, m, Len(b))
    BY <1>4, <2>1 DEF Moving
  <2>4. /\ IsStack(SubSeq(b, m, Len(b)), K, T)
        /\ Len(SubSeq(b, m, Len(b))) = IF m <= Len(b) THEN Len(b) - m + 1 ELSE 0
    BY <1>5, <2>2, StackPart
  <2> QED BY <2>2, <2>3, <2>4
<1>7. IsStack(all, K, T) /\ Len(all) = Len(a) + n /\ IsSeq(all)
  <2>1. all = a \o moved
    BY <1>4 DEF Moving
  <2>2. IsStack(all, K, T) /\ Len(all) = Len(a) + Len(moved)
    BY <1>5, <1>6, <2>1, StackConcat
  <2> QED BY <1>6, <2>2, StackFacts
<1>8. IsStack(cut, K, T) /\ Len(cut) <= StackSize
  <2>1. cut = SubSeq(all, 1, IF Len(all) < StackSize THEN Len(all) ELSE StackSize)
    BY DEF Moving
  <2> QED BY <1>7, <2>1, StackCut
<1>9. /\ IsPrefix(cut, all) /\ (cut = all \/ Len(cut) = StackSize)
      /\ Len(cut) = Len(all) \/ Len(cut) = StackSize
  <2>1. cut = SubSeq(all, 1, IF Len(all) < StackSize THEN Len(all) ELSE StackSize)
    BY DEF Moving
  <2> QED BY <1>7, <2>1, CutFacts
<1>10. /\ AllStacks(after, K, T) /\ Alike(Counted, after) /\ after[to] # <<>>
       /\ Last(after[to]).stack = cut
       /\ \A c \in Coroutines : c # to => after[c] = Counted[c]
  <2>1. AllStacks(Counted, K, T) /\ Counted[to] # <<>>
    BY <1>2
  <2>2. PICK fs : fs = Counted
    OBVIOUS
  <2>3. AllStacks(fs, K, T) /\ fs[to] # <<>> /\ after = WithStack(fs, to, cut)
    BY <2>1, <2>2 DEF Moving
  <2>4. /\ AllStacks(after, K, T) /\ Alike(fs, after) /\ after[to] # <<>>
        /\ Last(after[to]).stack = cut
        /\ \A c \in Coroutines : c # to => after[c] = fs[c]
    BY <1>8, <2>3, WithStackFacts
  <2> QED BY <2>2, <2>4
<1>11. after[L] # <<>> /\ IsStack(left, K, T) /\ Len(left) <= StackSize /\ Len(left) \in Nat
  <2>1. after[L] # <<>>
    BY <1>2, <1>10 DEF Alike
  <2>2. IsFrame(Last(after[L]), K, T)
    BY <1>10, <2>1, CallStackFacts DEF AllStacks
  <2>3. IsStack(left, K, T) /\ Len(left) <= StackSize
    <3>1. left = Last(after[L]).stack
      BY DEF Moving
    <3> QED BY <2>2, <3>1, FrameFacts
  <2> QED BY <2>1, <2>3, StackFacts
<1>12. L # to => left = b
  <2>1. left = Last(after[L]).stack
    BY DEF Moving
  <2> QED BY <1>2, <1>4, <1>10, <2>1
<1>13. n <= Len(left)
  <2>1. CASE L # to
    BY <1>5, <1>12, <2>1
  <2>2. CASE L = to
    <3>1. left = cut /\ a = b
      BY <1>4, <1>10, <2>2 DEF Moving
    <3>2. n <= Len(all) /\ n <= StackSize
      <4>1. StackSize \in Nat
        BY LimitFacts
      <4> QED BY <1>5, <1>7, <4>1
    <3> QED BY <1>9, <3>1, <3>2
  <2> QED BY <2>1, <2>2
<1>14. PICK k : k = Len(left) - n
  OBVIOUS
<1>15. k \in Nat /\ k <= Len(left) /\ k <= StackSize
  <2>1. StackSize \in Nat
    BY LimitFacts
  <2> QED BY <1>11, <1>13, <1>14, <2>1
<1>16. IsStack(rest, K, T) /\ Len(rest) = k /\ Len(rest) <= StackSize
  <2>1. rest = SubSeq(left, 1, k)
    BY <1>14 DEF Moving
  <2> QED BY <1>11, <1>15, <2>1, StackPrefix
<1>17. /\ AllStacks(frames', K, T) /\ Alike(after, frames') /\ Last(frames'[L]).stack = rest
       /\ \A c \in Coroutines : c # L => frames'[c] = after[c]
  <2>1. AllStacks(after, K, T) /\ after[L] # <<>> /\ IsStack(rest, K, T) /\ Len(rest) <= StackSize
    BY <1>10, <1>11, <1>16
  <2>2. PICK gs : gs = frames' /\ gs = WithStack(after, L, rest)
    BY DEF Moving
  <2>3. /\ AllStacks(gs, K, T) /\ Alike(after, gs) /\ Last(gs[L]).stack = rest
        /\ \A c \in Coroutines : c # L => gs[c] = after[c]
    BY <2>1, <2>2, WithStackFacts
  <2> QED BY <2>2, <2>3
<1>18. Alike(frames, frames')
  BY <1>2, <1>10, <1>17, AlikeTwice
<1>19. AllStacks(frames', Callees', (DOMAIN tables)')
  BY <1>17 DEF K, T
<1>20. IInv' /\ SameDepth
  BY <1>18, <1>19, NativeFacts, StillFlow DEF flow
<1>21. ASSUME NEW c \in Coroutines, frames[c] # <<>>, Last(frames'[c]).stack # Stack(c)
       PROVE  c \in {L, to}
  <2> SUFFICES ASSUME c # L, c # to PROVE FALSE
    OBVIOUS
  <2>1. frames'[c] = after[c]
    BY <1>17
  <2>2. after[c] = Counted[c]
    BY <1>10
  <2>3. Last(Counted[c]).stack = Stack(c)
    BY <1>2, <1>21
  <2> QED BY <1>21, <2>1, <2>2, <2>3
<1>22. ASSUME L # to
       PROVE  /\ IsPrefix(Last(frames'[L]).stack, Stack(L))
              /\ Stack(to) \o SubSeq(Stack(L), Len(Last(frames'[L]).stack) + 1, Len(Stack(L))) = all
              /\ Last(frames'[to]).stack = cut
  <2>1. left = b /\ Last(frames'[to]).stack = cut
    BY <1>10, <1>12, <1>17, <1>22
  <2>2. IsPrefix(rest, b)
    <3>1. IsSeq(b) /\ rest = SubSeq(b, 1, k) /\ k <= Len(b)
      BY <1>5, <1>14, <1>15, <2>1, StackFacts DEF Moving
    <3> QED BY <1>15, <3>1, PrefixOf
  <2>3. Len(rest) + 1 = Len(b) - n + 1
    BY <1>14, <1>16, <2>1
  <2>4. SubSeq(b, Len(rest) + 1, Len(b)) = moved
    <3>1. moved = SubSeq(b, Len(b) - n + 1, Len(b))
      BY <1>4 DEF Moving
    <3> QED BY <2>3, <3>1
  <2>5. all = a \o moved /\ Last(frames'[L]).stack = rest
    BY <1>4, <1>17 DEF Moving
  <2> QED BY <1>4, <2>1, <2>2, <2>4, <2>5
<1>23. MovesRight
  <2> SUFFICES ASSUME NEW A \in Coroutines, NEW B \in Coroutines, A # B,
                      \A c \in {A, B} : frames[c] # <<>> /\ Last(frames'[c]).stack # Stack(c)
               PROVE  MovesFrom(A, B) \/ MovesFrom(B, A)
    BY MovesEither
  <2>1. A \in {L, to} /\ B \in {L, to}
    <3>1. frames[A] # <<>> /\ Last(frames'[A]).stack # Stack(A)
      OBVIOUS
    <3>2. frames[B] # <<>> /\ Last(frames'[B]).stack # Stack(B)
      OBVIOUS
    <3> QED BY <1>21, <3>1, <3>2
  <2>2. L # to /\ ((A = L /\ B = to) \/ (A = to /\ B = L))
    <3>1. A # B
      OBVIOUS
    <3> QED BY <2>1, <3>1
  <2>3. MovesFrom(L, to)
    BY <1>9, <1>22, <2>2 DEF MovesFrom
  <2> QED BY <2>2, <2>3
<1> QED BY <1>20, <1>23, DepthKeeps DEF StepsRight

(* lua_xmove, also where it is refused.                                      *)
LEMMA XMoveStep ==
  ASSUME IInv, XMove
  PROVE  IInv' /\ StepsRight
<1>1. HeapStep /\ Native /\ UNCHANGED heap
  BY HeapSame DEF XMove, May
<1>2. PICK L \in Others \cup {Co}, to \in Others, n \in program.counts :
       IF n < 0 THEN Raise(Message("expected positive n"))
       ELSE IF status[to] # "suspended" THEN Raise(Message("xmove on running or dead coroutine"))
       ELSE IF n = 0 THEN Apply(Co, Ok(Stack(Co)))
       ELSE IF ~Fits(Stack(to), 1) THEN Raise(Overflow)
       ELSE IF frames[L] = <<>> THEN ~program.sound /\ Lose("null_frame") /\ UNCHANGED errmsg
       ELSE IF n > Len(Stack(L)) THEN Raise(Underflow)
       ELSE LET moved == SubSeq(Stack(L), Len(Stack(L)) - n + 1, Len(Stack(L)))
                all   == Stack(to) \o moved
                after == WithStack(Counted, to,
                           SubSeq(all, 1, IF Len(all) < StackSize THEN Len(all) ELSE StackSize))
                left  == Last(after[L]).stack
            IN  /\ frames' = WithStack(after, L, SubSeq(left, 1, Len(left) - n))
                /\ errmsg' = IF Len(all) > StackSize THEN Overflow ELSE errmsg
                /\ UNCHANGED <<program, flow, fault>>
  BY DEF XMove
<1>3. n \in Int /\ L \in Coroutines /\ to \in Coroutines /\ Co \in Reach
  BY CoFacts, ProgramFacts DEF Others, Reach
<1>4. CASE \E m : Raise(m)
  BY <1>1, <1>4, RaiseStep
<1>5. CASE \E how : Lose(how)
  BY <1>1, <1>5, LoseStep
<1>6. CASE Apply(Co, Ok(Stack(Co)))
  <2>1. PICK out : out = Ok(Stack(Co))
    OBVIOUS
  <2>2. GoodOut(out, Callees, DOMAIN tables)
    BY <1>3, <2>1, ReachFacts DEF GoodOut, Ok, FullStack
  <2> QED BY <1>1, <1>3, <1>6, <2>1, <2>2, StackOpStep
<1>7. CASE /\ ~(n < 0) /\ n # 0 /\ status[to] = "suspended" /\ frames[L] # <<>> /\ ~(n > Len(Stack(L)))
           /\ \E moved, all, cut, after, left, rest : Moving(L, to, n, moved, all, cut, after, left, rest)
           /\ UNCHANGED <<program, flow>>
  <2>1. frames[to] # <<>>
    BY <1>3, <1>7 DEF IInv, FlowInv
  <2>2. n > 0 /\ n <= Len(Stack(L))
    <3>1. Len(Stack(L)) \in Nat
      BY <1>3, <1>7, StackOf
    <3> QED BY <1>3, <1>7, <3>1
  <2>3. UNCHANGED <<program, flow>>
    BY <1>7
  <2>4. frames[L] # <<>>
    BY <1>7
  <2>5. PICK moved, all, cut, after, left, rest : Moving(L, to, n, moved, all, cut, after, left, rest)
    BY <1>7
  <2> QED BY <1>1, <1>3, <2>1, <2>2, <2>3, <2>4, <2>5, XMovedStep
<1>8. CASE /\ ~(n < 0) /\ status[to] = "suspended" /\ n # 0 /\ Fits(Stack(to), 1)
           /\ frames[L] # <<>> /\ ~(n > Len(Stack(L)))
  <2>1. PICK moved, all, cut, after, left, rest :
          /\ moved = SubSeq(Stack(L), Len(Stack(L)) - n + 1, Len(Stack(L)))
          /\ all = Stack(to) \o moved
          /\ cut = SubSeq(all, 1, IF Len(all) < StackSize THEN Len(all) ELSE StackSize)
          /\ after = WithStack(Counted, to, cut)
          /\ left = Last(after[L]).stack
          /\ rest = SubSeq(left, 1, Len(left) - n)
    OBVIOUS
  <2>2. frames' = WithStack(after, L, rest) /\ UNCHANGED <<program, flow>>
    BY <1>2, <1>8, <2>1
  <2>3. Moving(L, to, n, moved, all, cut, after, left, rest)
    BY <2>1, <2>2 DEF Moving
  <2> QED BY <1>7, <1>8, <2>2, <2>3
<1> QED BY <1>2, <1>4, <1>5, <1>6, <1>8

-----------------------------------------------------------------------------
(* The first state, and every step.                                         *)
LEMMA InitHeap ==
  ASSUME Init
  PROVE  /\ program \in Programs /\ HeapInv
         /\ 2 \in Callees /\ (program.protos # <<>> => 3 \in Callees)
<1>1. program \in Programs
  BY DEF Init
<1>2. /\ program.protos \in Seq([code : Seq(Instruction), protos : Seq(1..Len(program.protos))])
      /\ \A k \in DOMAIN program.globals :
            Literal(program.globals[k]) \/ program.globals[k] = Closure(4)
  BY <1>1, ProgramsAssumption
<1>3. PICK c1, c2, c3, c4 : /\ c1 = NewClosure("trampoline", 0, Absent)
                            /\ c2 = NewClosure("native", 0, Table(1))
                            /\ c3 = NewClosure("bytecode", 1, Table(1))
                            /\ c4 = NewClosure("native", 0, Table(1))
  OBVIOUS
<1>4. closures = <<c1, c2, c3, c4>>
  BY <1>3 DEF Init
<1>5. /\ DOMAIN closures = 1..4 /\ Len(closures) = 4 /\ IsSeq(closures)
      /\ closures[1] = c1 /\ closures[2] = c2 /\ closures[3] = c3 /\ closures[4] = c4
  BY <1>4 DEF IsSeq
<1>6. \A k \in 1..4 : k = 1 \/ k = 2 \/ k = 3 \/ k = 4
  OBVIOUS
<1>7. /\ c1.kind = "trampoline" /\ c1.env = Absent
      /\ c2.kind = "native" /\ c2.env = Table(1)
      /\ c3.kind = "bytecode" /\ c3.env = Table(1) /\ c3.proto = 1
      /\ c4.kind = "native" /\ c4.env = Table(1)
  BY <1>3 DEF NewClosure
<1>8. 2 \in Callees /\ 4 \in Callees
  BY <1>5, <1>7 DEF Callees
<1>9. program.protos # <<>> => 3 \in Callees
  <2>1. program.protos # <<>> => 1 \in DOMAIN program.protos
    BY <1>2
  <2> QED BY <1>5, <1>7, <2>1 DEF Callees
<1>10. PICK g : g = program.globals
  OBVIOUS
<1>11. tables = <<g>>
  BY <1>10 DEF Init
<1>12. DOMAIN tables = 1..1 /\ IsSeq(tables) /\ tables[1] = g
  BY <1>11 DEF IsSeq
<1>13. \A t \in 1..1 : t = 1
  OBVIOUS
<1>14. 1 \in DOMAIN tables /\ \A t \in DOMAIN tables : t = 1
  BY <1>12, <1>13
<1>15. Good(Table(1), Callees, DOMAIN tables) /\ Good(Closure(4), Callees, DOMAIN tables)
  BY <1>8, <1>14, GoodMade
<1>16. ASSUME NEW k \in DOMAIN g PROVE Good(g[k], Callees, DOMAIN tables)
  BY <1>2, <1>10, <1>15, GoodMade
<1>17. ASSUME NEW k \in DOMAIN closures \ {1}
       PROVE  closures[k].kind # "trampoline" /\ Good(closures[k].env, Callees, DOMAIN tables)
  BY <1>5, <1>6, <1>7, <1>15
<1>18. HeapInv
  <2>1. \A t \in DOMAIN tables : \A k \in DOMAIN tables[t] : Good(tables[t][k], Callees, DOMAIN tables)
    BY <1>12, <1>14, <1>16
  <2>2. 1 \in DOMAIN closures
    BY <1>5
  <2> QED BY <1>5, <1>7, <1>12, <1>14, <1>17, <2>1, <2>2 DEF HeapInv
<1> QED BY <1>1, <1>8, <1>9, <1>18

(* The programs start with the invariant.                                    *)
LEMMA InitInv ==
  ASSUME Init
  PROVE  IInv
<1> DEFINE K == Callees
           T == DOMAIN tables
<1>1. PICK c \in Coroutines \ {Host} :
        LET main(co) == IF co = Host THEN <<NewFrame(2, <<>>, Body)>>
                        ELSE IF co = c /\ program.protos # <<>> THEN <<NewFrame(3, <<>>, Body)>>
                        ELSE <<>>
        IN  /\ frames = [co \in Coroutines |-> main(co)]
            /\ nest = IF program.protos = <<>> THEN <<Host>> ELSE <<Host, c>>
            /\ status = [co \in Coroutines |-> IF main(co) = <<>> THEN "none" ELSE "running"]
  BY DEF Init
<1>2. PICK f2, f3 : f2 = NewFrame(2, <<>>, Body) /\ f3 = NewFrame(3, <<>>, Body)
  OBVIOUS
<1>3. /\ frames = [co \in Coroutines |-> IF co = Host THEN <<f2>>
                                         ELSE IF co = c /\ program.protos # <<>> THEN <<f3>> ELSE <<>>]
      /\ nest = IF program.protos = <<>> THEN <<Host>> ELSE <<Host, c>>
      /\ status = [co \in Coroutines |->
                     IF (IF co = Host THEN <<f2>>
                         ELSE IF co = c /\ program.protos # <<>> THEN <<f3>> ELSE <<>>) = <<>>
                     THEN "none" ELSE "running"]
  BY <1>1, <1>2
<1>4. Host \in Coroutines /\ c \in Coroutines /\ c # Host
  BY InterpreterAssumption
<1>5. <<f2>> # <<>> /\ <<f3>> # <<>>
  OBVIOUS
<1>6. ASSUME NEW fn \in K, NEW f, f = NewFrame(fn, <<>>, Body)
      PROVE  IsFrame(f, K, T) /\ f.fn = fn
  <2>1. IsCall(Body)
    BY DEF IsCall, Body, All
  <2>2. Len(<<>>) = 0 /\ StackSize \in Nat
    BY SeqEmpty, LimitFacts
  <2>3. Len(<<>>) <= StackSize
    BY <2>2
  <2>4. PICK e, b : e = <<>> /\ b = Body
    OBVIOUS
  <2>5. IsStack(e, K, T) /\ Len(e) <= StackSize /\ IsCall(b) /\ f = NewFrame(fn, e, b)
    BY <1>6, <2>1, <2>3, <2>4, StackEmpty
  <2>6. fn \in K \cup {1}
    OBVIOUS
  <2> HIDE DEF K, T
  <2> QED BY <2>5, <2>6, FrameMade
<1>7. IsFrame(f2, K, T) /\ f2.fn = 2
  BY <1>2, <1>6, InitHeap
<1>8. program.protos # <<>> => IsFrame(f3, K, T) /\ f3.fn = 3
  BY <1>2, <1>6, InitHeap
<1>9. ASSUME NEW d \in Coroutines
      PROVE  /\ frames[d] = IF d = Host THEN <<f2>>
                            ELSE IF d = c /\ program.protos # <<>> THEN <<f3>> ELSE <<>>
             /\ status[d] = IF frames[d] = <<>> THEN "none" ELSE "running"
             /\ IsCallStack(frames[d], K, T)
  <2>1. /\ frames[d] = IF d = Host THEN <<f2>>
                       ELSE IF d = c /\ program.protos # <<>> THEN <<f3>> ELSE <<>>
        /\ status[d] = IF frames[d] = <<>> THEN "none" ELSE "running"
    BY <1>3
  <2>2. IsCallStack(<<f2>>, K, T) /\ IsCallStack(<<>>, K, T)
    BY <1>7, CallStackFirst
  <2>3. program.protos # <<>> => IsCallStack(<<f3>>, K, T)
    BY <1>8, CallStackFirst
  <2> QED BY <2>1, <2>2, <2>3
<1>10. FramesInv
  BY <1>3, <1>9 DEF FramesInv
<1>11. thrown = [d \in Coroutines |-> Absent]
  BY DEF Init
<1>12. /\ nest \in Seq(Coroutines) /\ nest # <<>> /\ nest[1] = Host
       /\ \A i, j \in DOMAIN nest : nest[i] = nest[j] => i = j
       /\ \A d \in Coroutines : (\E i \in DOMAIN nest : nest[i] = d) <=>
                                (d = Host \/ (d = c /\ program.protos # <<>>))
  <2>1. CASE program.protos = <<>>
    <3>1. nest = <<Host>>
      BY <1>3, <2>1
    <3>2. nest \in Seq(Coroutines) /\ nest # <<>> /\ DOMAIN nest = 1..1 /\ nest[1] = Host
      BY <1>4, <3>1
    <3>3. \A i \in 1..1 : i = 1
      OBVIOUS
    <3> QED BY <2>1, <3>2, <3>3
  <2>2. CASE program.protos # <<>>
    <3>1. nest = <<Host, c>>
      BY <1>3, <2>2
    <3>2. nest \in Seq(Coroutines) /\ nest # <<>> /\ DOMAIN nest = 1..2 /\ nest[1] = Host /\ nest[2] = c
      BY <1>4, <3>1
    <3>3. (\A i \in 1..2 : i = 1 \/ i = 2) /\ 1 \in 1..2 /\ 2 \in 1..2
      OBVIOUS
    <3> QED BY <1>4, <2>2, <3>2, <3>3
  <2> QED BY <2>1, <2>2
<1>13. status \in [Coroutines -> {"none", "suspended", "running", "dead"}]
  BY <1>3
<1>14. FlowInv
  <2>1. ASSUME NEW d \in Coroutines
        PROVE  /\ status[d] = "running" <=> \E i \in DOMAIN nest : nest[i] = d
               /\ status[d] \in {"running", "suspended"} => frames[d] # <<>>
               /\ status[d] = "none" => frames[d] = <<>>
               /\ thrown[d] # Absent => status[d] = "dead"
               /\ status[d] = "dead" => (thrown[d] # Absent <=> frames[d] # <<>>)
    <3>1. frames[d] # <<>> <=> (d = Host \/ (d = c /\ program.protos # <<>>))
      BY <1>4, <1>5, <1>9
    <3> QED BY <1>9, <1>11, <1>12, <3>1
  <2> QED BY <1>11, <1>12, <1>13, <2>1 DEF FlowInv
<1>15. PendingInv
  <2> SUFFICES ASSUME NEW d \in Coroutines, Pending(d)
               PROVE  FALSE
    BY DEF PendingInv
  <2>1. frames[d] # <<>> /\ Last(frames[d]).fn = 1
    BY DEF Pending
  <2>2. Last(<<f2>>) = f2 /\ Last(<<f3>>) = f3
    BY DEF Last
  <2> QED BY <1>7, <1>8, <1>9, <2>1, <2>2
<1> QED BY <1>10, <1>14, <1>15, InitHeap DEF IInv

(* Every action keeps the invariant and the three action properties.         *)
LEMMA NextStep ==
  ASSUME IInv, Next
  PROVE  IInv' /\ StepsRight
BY InterpretStep, PushSteps, PushGlobalsStep, MoveSteps, ReadSteps, CreateTableStep,
   PushCFunctionStep, SetSteps, NativeCallStep, NativeReturnStep, TrampolineStep,
   NewThreadStep, ResumeStep, YieldStep, XMoveStep, UseFinishedStep DEF Next

(* So does a step of anything else.                                          *)
LEMMA StutterStep ==
  ASSUME IInv, UNCHANGED vars
  PROVE  IInv'
<1>1. /\ program' = program /\ frames' = frames /\ nest' = nest /\ status' = status
      /\ thrown' = thrown /\ closures' = closures /\ tables' = tables
  BY DEF vars, flow, heap
<1>2. Callees' = Callees
  BY <1>1 DEF Callees
<1>3. HeapInv' /\ FlowInv' /\ FramesInv'
  BY <1>1, <1>2 DEF IInv, HeapInv, FlowInv, FramesInv
<1>4. PendingInv'
  BY <1>1 DEF IInv, PendingInv, Pending, Stack, Co
<1> QED BY <1>1, <1>3, <1>4 DEF IInv

(* The inductive invariant holds in every reachable state, for any programs, *)
(* sizes and coroutines.                                                     *)
THEOREM Inductive == Spec => []IInv
<1>1. Init => IInv
  BY InitInv
<1>2. IInv /\ [Next]_vars => IInv'
  BY NextStep, StutterStep
<1> QED BY <1>1, <1>2, PTL DEF Spec

(* The type invariant: the nesting starts at the host, no coroutine is in it *)
(* twice, exactly the running ones are in it; no call stack is deeper than   *)
(* MaxDepth (coroutine_function_prolog), no stack higher than StackSize, and *)
(* nothing on a stack is 'not present' (coroutine.c, api_layer/lua54.c).     *)
THEOREM TypeCorrect == Spec => []TypeOK
<1>1. IInv => TypeOK
  <2> SUFFICES ASSUME IInv PROVE TypeOK
    OBVIOUS
  <2>1. Head(nest) = Host /\ \A i, j \in DOMAIN nest : nest[i] = nest[j] => i = j
    BY DEF IInv, FlowInv
  <2>2. ASSUME NEW c \in Coroutines
        PROVE  /\ status[c] = "running" <=> \E i \in DOMAIN nest : nest[i] = c
               /\ Len(frames[c]) <= MaxDepth
    BY DEF IInv, FlowInv, FramesInv, IsCallStack
  <2>3. ASSUME NEW c \in Coroutines, NEW i \in DOMAIN frames[c]
        PROVE  /\ Len(frames[c][i].stack) <= StackSize /\ frames[c][i].pc >= 0
               /\ \A j \in DOMAIN frames[c][i].stack : frames[c][i].stack[j] # Absent
    <3>1. IsCallStack(frames[c], Callees, DOMAIN tables)
      BY DEF IInv, FramesInv
    <3>2. i \in 1..Len(frames[c])
      BY <3>1, SeqFacts DEF IsCallStack
    <3>3. PICK f : f = frames[c][i] /\ IsFrame(f, Callees, DOMAIN tables)
      BY <3>1, <3>2 DEF IsCallStack
    <3>4. IsStack(f.stack, Callees, DOMAIN tables) /\ Len(f.stack) <= StackSize /\ f.pc \in Nat
      BY <3>3, FrameFacts
    <3>5. f.pc >= 0
      BY <3>4
    <3>6. ASSUME NEW j \in DOMAIN f.stack PROVE f.stack[j] # Absent
      <4>1. Good(f.stack[j], Callees, DOMAIN tables)
        BY <3>4, StackFacts
      <4> QED BY <4>1, GoodMade
    <3> QED BY <3>3, <3>4, <3>5, <3>6
  <2> QED BY <2>1, <2>2, <2>3 DEF TypeOK
<1> QED BY <1>1, Inductive, PTL

(* A dead coroutine that threw keeps its message and its call stack, one     *)
(* that returned has neither, and a living one has no message (the setjmp    *)
(* block of a coroutine and interpreter_error).                              *)
THEOREM EndsAreTold == Spec => []DeadKnowsWhy
<1>1. IInv => DeadKnowsWhy
  BY DEF IInv, FlowInv, DeadKnowsWhy
<1> QED BY <1>1, Inductive, PTL

(* Whatever a callee did, its caller's stack is what was below the function  *)
(* and its arguments, followed by exactly the results asked for: the top     *)
(* ones of the callee in their order, cut or filled with nil; where all are  *)
(* wanted their number is the height of the callee's stack, not the number   *)
(* it returned (interpreter.c:179-195 and 506-523).                          *)
THEOREM CallsReturnRight == Spec => CallReturns
<1>1. IInv /\ [Next]_vars => [ReturnsRight]_vars
  BY NextStep DEF StepsRight
<1>2. Spec => [][ReturnsRight]_vars
  BY <1>1, Inductive, PTL DEF Spec
<1> QED BY <1>2 DEF CallReturns, ReturnsRight

(* The first function of a coroutine is the one below the arguments          *)
(* lua_resume was given, and gets these arguments in their order, if         *)
(* lua_resume was told their true number (lua_resume, trampoline and         *)
(* lua_call).                                                                *)
THEOREM MainStartsRight == Spec => MainGetsArguments
<1>1. IInv /\ [Next]_vars => [StartsRight]_vars
  BY NextStep DEF StepsRight
<1>2. Spec => [][StartsRight]_vars
  BY <1>1, Inductive, PTL DEF Spec
<1> QED BY <1>2 DEF MainGetsArguments, StartsRight

(* lua_xmove takes the top values of one stack and appends them in their     *)
(* order to the other, all of them or as many as fill it, and leaves what is *)
(* below them: none is doubled or reordered, and some are dropped only when  *)
(* the other is full then.                                                   *)
THEOREM MovesKeep == Spec => MovesKeepOrder
<1>1. IInv /\ [Next]_vars => [MovesRight]_vars
  BY NextStep DEF StepsRight
<1>2. Spec => [][MovesRight]_vars
  BY <1>1, Inductive, PTL DEF Spec
<1> QED BY <1>2 DEF MovesKeepOrder, MovesRight

-----------------------------------------------------------------------------
(* The questions, asked of one value.                                       *)
LEMMA NamesFacts ==
  ASSUME NEW v
  PROVE  /\ LuaTypename(LuaType(v)) # "abort"
         /\ LuaType(v) = "LUA_TTHREAD" <=> TypeOf(v) = "coroutine"
         /\ LuaType(v) = "LUA_TFUNCTION" <=> TypeOf(v) = "closure"
         /\ LuaType(v) = "LUA_TSTRING" <=> TypeOf(v) = "string"
         /\ LuaType(v) = "LUA_TNUMBER" <=> TypeOf(v) \in {"long", "double"}
         /\ TypeOf(v) \in {"full", "light"} => IsUserdata(v)
BY DEF LuaTypename, LuaType, IsUserdata, IsNumeric, NumericTypes

(* What lua_tonumberx and lua_isnumber say.                                 *)
LEMMA NumbersAgree ==
  ASSUME NEW v
  PROVE  IsNumber(v) <=> ToNumberX(v).isnum
<1>1. ToNumberX(v).isnum <=> ToDouble(v).status = "ok"
  BY DEF ToNumberX
<1>2. CASE TypeOf(v) \in {"long", "double"}
  BY <1>1, <1>2 DEF IsNumber, IsNumeric, NumericTypes, ToDouble, Ok
<1>3. CASE TypeOf(v) = "string"
  BY <1>1, <1>3 DEF IsNumber, IsNumeric, NumericTypes
<1>4. CASE TypeOf(v) \notin {"long", "double", "string"}
  BY <1>1, <1>4 DEF IsNumber, IsNumeric, NumericTypes, ToDouble, Fail
<1> QED BY <1>2, <1>3, <1>4

(* What lua_tolstring and lua_isstring say.                                 *)
LEMMA StringsAgree ==
  ASSUME NEW v
  PROVE  IsLuaString(v) <=> \E out \in Stringified(<<v>>, 1) : out.status = "ok"
<1>1. PICK s : s = <<v>>
  OBVIOUS
<1>2. Len(s) = 1 /\ s[1] = v
  BY <1>1
<1>3. Absolute(s, 1) = 1 /\ ValueAt(s, 1) = v
  BY <1>2 DEF Absolute, ValueAt
<1>4. IsIndex(s, 1)
  BY <1>2 DEF IsIndex
<1>5. IsLuaString(v) <=> TypeOf(v) \in {"long", "double", "string"}
  BY NamesFacts DEF IsLuaString
<1>6. CASE TypeOf(v) = "string"
  <2>1. Stringified(s, 1) = {Ok(s)}
    BY <1>3, <1>4, <1>6 DEF Stringified, IsNumeric, NumericTypes
  <2>2. Ok(s).status = "ok"
    BY DEF Ok
  <2> QED BY <1>1, <1>5, <1>6, <2>1, <2>2
<1>7. CASE TypeOf(v) \in {"long", "double"}
  <2>1. PICK text \in TextOf(v) : text.status = "ok"
    <3>1. PICK a, b : a = String(<<"%ld", DataOf(v)>>) /\ b = String(<<"%lf", DataOf(v)>>)
      OBVIOUS
    <3>2. TypeOf(v) = "long" => TextOf(v) = Allocated(a)
      BY <3>1 DEF TextOf
    <3>3. TypeOf(v) = "double" => TextOf(v) = Allocated(b)
      BY <3>1 DEF TextOf
    <3>4. Ok(a) \in Allocated(a) /\ Ok(b) \in Allocated(b)
      BY DEF Allocated
    <3>5. Ok(a).status = "ok" /\ Ok(b).status = "ok"
      BY DEF Ok
    <3> QED BY <1>7, <3>2, <3>3, <3>4, <3>5
  <2>2. PICK out : out = Ok([s EXCEPT ![Absolute(s, 1)] = text.val])
    OBVIOUS
  <2>3. out \in Stringified(s, 1)
    BY <1>3, <1>4, <1>7, <2>1, <2>2 DEF Stringified, IsNumeric, NumericTypes
  <2>4. out.status = "ok"
    BY <2>2 DEF Ok
  <2> QED BY <1>1, <1>5, <1>7, <2>3, <2>4
<1>8. CASE TypeOf(v) \notin {"long", "double", "string"}
  <2>1. PICK m : m = Message("expect long or number")
    OBVIOUS
  <2>2. Stringified(s, 1) = {Fail(m)}
    BY <1>3, <1>4, <1>8, <2>1 DEF Stringified, IsNumeric, NumericTypes
  <2>3. Fail(m).status = "error"
    BY DEF Fail
  <2> QED BY <1>1, <1>5, <1>8, <2>2, <2>3
<1> QED BY <1>6, <1>7, <1>8

(* What lua_type says of the last value of a stack.                         *)
LEMMA TypesAgree ==
  ASSUME NEW v
  PROVE  TypeAt(<<v>>, -1) = Ok(LuaType(v))
<1>1. PICK s : s = <<v>>
  OBVIOUS
<1>2. Len(s) = 1 /\ s[1] = v
  BY <1>1
<1>3. Absolute(s, -1) = 1 /\ ValueAt(s, -1) = v
  BY <1>2 DEF Absolute, ValueAt
<1>4. IsIndex(s, -1) /\ ~(Len(s) + (-1) + 1 < 0) /\ ~(-1 > Len(s)) /\ -1 # 0
  BY <1>2 DEF IsIndex
<1>5. TypeAt(s, -1) = Ok(LuaType(v))
  BY <1>2, <1>3, <1>4 DEF TypeAt, IfIndex
<1> QED BY <1>1, <1>5

(* A thread and a boolean.                                                  *)
LEMMA OthersAgree ==
  ASSUME NEW K, NEW T, NEW v, Good(v, K, T)
  PROVE  /\ ToCFunction(v) # 0 => LuaType(v) = "LUA_TFUNCTION"
         /\ ToThread(v) # 0 <=> LuaType(v) = "LUA_TTHREAD"
         /\ ToUserdata(v) # 0 => IsUserdata(v)
         /\ ~ToBoolean(v) <=> v \in {Nil, Bool(FALSE)}
<1>1. ToCFunction(v) # 0 => LuaType(v) = "LUA_TFUNCTION"
  BY NamesFacts DEF ToCFunction, IsCFunction, IsCallable
<1>2. ToThread(v) # 0 <=> LuaType(v) = "LUA_TTHREAD"
  BY NamesFacts, ProgramsAssumption DEF ToThread, Good
<1>3. ToUserdata(v) # 0 => IsUserdata(v)
  BY NamesFacts DEF ToUserdata
<1>4. ~ToBoolean(v) <=> v \in {Nil, Bool(FALSE)}
  BY DEF ToBoolean
<1> QED BY <1>1, <1>2, <1>3, <1>4

(* For every value on every stack: lua_isnumber says what lua_tonumberx      *)
(* answers, lua_isstring what lua_tolstring can do, lua_type and             *)
(* lua_typename always have a name for it, lua_tocfunction, lua_tothread,    *)
(* lua_touserdata and lua_toboolean answer only for a value of their type,   *)
(* and lua_tonumberx keeps an integer that a double can hold exactly.        *)
THEOREM QuestionsAgree == Spec => []QueriesAgree
<1>1. IInv => QueriesAgree
  <2> SUFFICES ASSUME IInv, NEW c \in Coroutines, NEW i \in DOMAIN frames[c],
                      NEW j \in DOMAIN frames[c][i].stack,
                      NEW v, v = frames[c][i].stack[j]
               PROVE  /\ IsNumber(v) <=> ToNumberX(v).isnum
                      /\ IsLuaString(v) <=> \E out \in Stringified(<<v>>, 1) : out.status = "ok"
                      /\ (IsInteger(v) /\ Abs(DataOf(v)) <= MaxExact) => ToNumberX(v).num = DataOf(v)
                      /\ TypeAt(<<v>>, -1) = Ok(LuaType(v)) /\ LuaTypename(LuaType(v)) # "abort"
                      /\ ToCFunction(v) # 0 => LuaType(v) = "LUA_TFUNCTION"
                      /\ (ToThread(v) # 0 <=> LuaType(v) = "LUA_TTHREAD")
                      /\ (ToUserdata(v) # 0 => IsUserdata(v)) /\ (~ToBoolean(v) <=> v \in {Nil, Bool(FALSE)})
    BY ZenonT(60) DEF QueriesAgree
  <2>1. IsCallStack(frames[c], Callees, DOMAIN tables)
    BY DEF IInv, FramesInv
  <2>2. i \in 1..Len(frames[c])
    BY <2>1, SeqFacts DEF IsCallStack
  <2>3. PICK f : f = frames[c][i] /\ IsFrame(f, Callees, DOMAIN tables)
    BY <2>1, <2>2 DEF IsCallStack
  <2>4. IsStack(f.stack, Callees, DOMAIN tables)
    BY <2>3, FrameFacts
  <2>5. Good(v, Callees, DOMAIN tables)
    BY <2>3, <2>4, StackFacts
  <2>6. (IsInteger(v) /\ Abs(DataOf(v)) <= MaxExact) => ToNumberX(v).num = DataOf(v)
    BY <2>5, LongNumber DEF IsInteger, Good
  <2> QED BY <2>5, <2>6, NumbersAgree, StringsAgree, TypesAgree, NamesFacts, OthersAgree
<1> QED BY <1>1, Inductive, PTL

-----------------------------------------------------------------------------
(* Sound programs.                                                          *)

(* A call of bytecode that did not execute an instruction yet is at the      *)
(* first one, which has no condition: there is no skip without a known       *)
(* advance.  cs are the closures.                                            *)
Settled(f, cs) == (cs[f.fn].kind = "bytecode" /\ ~f.known) => f.pc = 0
TopsSettled(fs, cs) == \A c \in Coroutines : fs[c] # <<>> => Settled(Last(fs[c]), cs)

(* What lua_resume leaves to a trampoline when it is told the true count.    *)
Told(s) == Len(s) >= 3 /\ IsCallable(s[1]) /\ s[Len(s)] = Long(Len(s) - 3)
AllTold == \A c \in Coroutines : (status[c] = "running" /\ Pending(c)) => Told(Stack(c))

(* How a sound program may lose the process, and what it keeps to that end.  *)
Tolerated == {"none", "unhandled", "out_of_memory", "collision", "caller_popped"}
SurvivalInv == fault \in Tolerated /\ TopsSettled(frames, closures) /\ AllTold
SoundInv == program.sound => SurvivalInv

(* The closures that were there stay as they were.                           *)
ClosuresKept == \A k \in DOMAIN closures : closures'[k] = closures[k]

(* What is known of the code of a sound program.                             *)
LEMMA SoundFacts ==
  ASSUME IInv, program.sound
  PROVE  ~program.remote /\ \A i \in DOMAIN program.protos : SoundCode(program.protos[i])
BY SoundAssumption DEF IInv

(* Closures are kept when they are left alone, and when one is added.        *)
LEMMA KeptOrMade ==
  ASSUME IInv, closures' = closures \/ \E c : closures' = Append(closures, c)
  PROVE  ClosuresKept
<1>1. IsSeq(closures) /\ DOMAIN closures = 1..Len(closures)
  BY SeqFacts DEF IInv, HeapInv
<1>2. \A c : \A i \in 1..Len(closures) : Append(closures, c)[i] = closures[i]
  BY <1>1, SeqAppend
<1> QED BY <1>1, <1>2 DEF ClosuresKept

(* A frame stays settled, its closure being kept.                            *)
LEMMA SettledKept ==
  ASSUME IInv, ClosuresKept, NEW f, IsFrame(f, Callees, DOMAIN tables), Settled(f, closures)
  PROVE  Settled(f, closures')
<1>1. f.fn \in DOMAIN closures
  <2>1. f.fn \in Callees \cup {1}
    BY FrameFacts
  <2> QED BY <2>1 DEF Callees, IInv, HeapInv
<1>2. closures'[f.fn] = closures[f.fn]
  BY <1>1 DEF ClosuresKept
<1> QED BY <1>2 DEF Settled

(* All of them do when the frames are left alone.                            *)
LEMMA TopsKept ==
  ASSUME IInv, SurvivalInv, ClosuresKept
  PROVE  TopsSettled(frames, closures')
<1> SUFFICES ASSUME NEW c \in Coroutines, frames[c] # <<>>
             PROVE  Settled(Last(frames[c]), closures')
  BY DEF TopsSettled
<1>1. PICK f : f = Last(frames[c])
  OBVIOUS
<1>2. IsFrame(f, Callees, DOMAIN tables)
  BY <1>1, StackOf
<1>3. Settled(f, closures)
  BY <1>1 DEF SurvivalInv, TopsSettled
<1> QED BY <1>1, <1>2, <1>3, SettledKept

(* No trampoline waits to call after a step in which none starts to.         *)
LEMMA NoneWaits ==
  ASSUME IInv, ~Pending(Co),
         \A c \in Coroutines : (status'[c] = "running" /\ Pending(c)') => (status[c] = "running" /\ Pending(c))
  PROVE  AllTold'
BY DEF AllTold, IInv, PendingInv

(* The process is lost in a way that is tolerated.                           *)
LEMMA LoseSurvives ==
  ASSUME IInv, SurvivalInv, ClosuresKept, NEW how \in Tolerated, Lose(how)
  PROVE  SurvivalInv'
<1>1. frames' = frames /\ fault' = how /\ status' = status
  BY DEF Lose, flow
<1>2. TopsSettled(frames', closures')
  BY <1>1, TopsKept
<1>3. AllTold'
  BY <1>1 DEF SurvivalInv, AllTold, Pending, Stack
<1> QED BY <1>1, <1>2, <1>3 DEF SurvivalInv

(* An error that has a message.                                              *)
LEMMA RaiseSurvives ==
  ASSUME IInv, SurvivalInv, ClosuresKept, NEW m, m # Absent, Raise(m)
  PROVE  SurvivalInv'
<1>1. CASE Co = Host
  <2>1. Lose("unhandled")
    BY <1>1 DEF Raise, RaiseLeaving
  <2> QED BY <2>1, LoseSurvives DEF Tolerated
<1>2. CASE Co # Host
  <2>1. Leave("dead", m) /\ UNCHANGED frames
    BY <1>2 DEF Raise, RaiseLeaving
  <2>2. frames' = frames /\ fault' = fault /\ status' = [status EXCEPT ![Co] = "dead"]
    BY <2>1 DEF Leave
  <2>3. TopsSettled(frames', closures')
    BY <2>2, TopsKept
  <2>4. AllTold'
    <3>1. \A c \in Coroutines : status'[c] = "running" => status[c] = "running"
      BY <2>2 DEF IInv, FlowInv
    <3>2. \A c \in Coroutines : (Pending(c)' <=> Pending(c)) /\ Stack(c)' = Stack(c)
      BY <2>2 DEF Pending, Stack
    <3> QED BY <3>1, <3>2 DEF SurvivalInv, AllTold
  <2> QED BY <2>2, <2>3, <2>4 DEF SurvivalInv
<1> QED BY <1>1, <1>2

(* One coroutine's innermost call changes, to any frame.                     *)
LEMMA TopSet ==
  ASSUME NEW fs, fs = [c \in Coroutines |-> fs[c]], NEW L \in Coroutines, IsSeq(fs[L]), fs[L] # <<>>,
         NEW g, NEW gs, gs = ThatTopIs(fs, L, g)
  PROVE  /\ gs = [c \in Coroutines |-> gs[c]] /\ IsSeq(gs[L]) /\ gs[L] # <<>> /\ Last(gs[L]) = g
         /\ \A c \in Coroutines : c # L => gs[c] = fs[c]
<1>1. PICK n : n = Len(fs[L])
  OBVIOUS
<1>2. PICK s : s = fs[L]
  OBVIOUS
<1>3. n \in 1..n /\ n \in Nat /\ IsSeq(s) /\ s = [i \in 1..n |-> s[i]]
  BY <1>1, <1>2, SeqEnds DEF IsSeq
<1>4. PICK u : u = [s EXCEPT ![n] = g]
  OBVIOUS
<1>5. u = [i \in 1..n |-> u[i]] /\ u[n] = g
  BY <1>3, <1>4
<1>6. IsSeq(u) /\ Len(u) = n
  BY <1>3, <1>5, FunctionIsSeq
<1>7. u # <<>>
  BY <1>3, <1>6, SeqFacts
<1>8. Last(u) = g
  BY <1>5, <1>6, <1>7, SeqEnds
<1>9. gs = [fs EXCEPT ![L] = u]
  BY <1>1, <1>2, <1>4 DEF ThatTopIs
<1>10. gs[L] = u /\ gs = [c \in Coroutines |-> gs[c]] /\ \A c \in Coroutines : c # L => gs[c] = fs[c]
  BY <1>9
<1> QED BY <1>6, <1>7, <1>8, <1>10

(* The executing call changes, to a settled frame that is no trampoline      *)
(* about to call.                                                            *)
LEMMA SetTopSurvives ==
  ASSUME IInv, SurvivalInv, ClosuresKept, ~Pending(Co), NEW f, SetTop(f), Settled(f, closures'),
         ~(f.fn = 1 /\ f.pc = 0)
  PROVE  SurvivalInv'
<1>1. /\ frames' = ThatTopIs(frames, Co, f) /\ fault' = fault /\ status' = status
  BY DEF SetTop, ThatTopIs, flow
<1>2. /\ Co \in Coroutines /\ frames[Co] # <<>> /\ IsSeq(frames[Co])
      /\ frames = [c \in Coroutines |-> frames[c]]
  BY CoFacts DEF IInv, FramesInv, IsCallStack
<1>3. Last(frames'[Co]) = f /\ \A c \in Coroutines : c # Co => frames'[c] = frames[c]
  BY <1>1, <1>2, TopSet
<1>4. TopsSettled(frames', closures')
  BY <1>3, TopsKept DEF TopsSettled
<1>5. AllTold'
  <2>1. \A c \in Coroutines : Pending(c)' => Pending(c)
    BY <1>3 DEF Pending
  <2> QED BY <1>1, <2>1, NoneWaits
<1> QED BY <1>1, <1>4, <1>5 DEF SurvivalInv
(* The next instruction of a sound program.                                  *)
LEMMA SoundIns ==
  ASSUME IInv, SurvivalInv, program.sound, InCode
  PROVE  /\ SoundInstruction(Ins, Proto(Top))
         /\ Skips => Top.known
<1>1. PICK k : k = closures[Top.fn].proto
  OBVIOUS
<1>2. k \in DOMAIN program.protos
  <2>1. Top.fn \in Callees
    BY BytecodeFacts DEF InCode
  <2> QED BY <1>1, <2>1 DEF Callees, InCode, Bytecode
<1>3. PICK p : p = program.protos[k]
  OBVIOUS
<1>4. p = Proto(Top) /\ SoundCode(p)
  BY <1>1, <1>2, <1>3, SoundFacts DEF Proto
<1>5. /\ p.code \in Seq(Instruction) /\ Top.pc \in Nat /\ Top.pc < Len(p.code)
  BY <1>4, BytecodeFacts, CoFacts, FrameFacts DEF InCode
<1>6. Top.pc + 1 \in DOMAIN p.code /\ Ins = p.code[Top.pc + 1] /\ p.code # <<>>
  BY <1>4, <1>5 DEF Ins
<1>7. SoundInstruction(Ins, p)
  BY <1>4, <1>6 DEF SoundCode
<1>8. ASSUME ~Top.known PROVE Ins.cond = {}
  <2>1. Settled(Top, closures)
    BY CoFacts DEF SurvivalInv, TopsSettled, Top
  <2>2. Top.pc = 0
    BY <1>8, <2>1 DEF Settled, InCode, Bytecode
  <2> QED BY <1>4, <1>6, <2>2 DEF SoundCode
<1> QED BY <1>4, <1>7, <1>8 DEF Skips

(* A register that is read is present.                                       *)
LEMMA RegisterPresent ==
  ASSUME IInv, Bytecode
  PROVE  \A r : Register(Top, r) # Absent
<1>1. ASSUME NEW r PROVE Register(Top, r) # Absent
  <2>1. TypeOf(Register(Top, r)) # "absent"
    BY RegisterGood DEF Good
  <2> QED BY <2>1 DEF Absent, TypeOf
<1> QED BY <1>1

(* Next1: the advance is known.                                              *)
LEMMA NextKnown ==
  ASSUME NEW f, "known" \in DOMAIN f, "fn" \in DOMAIN f, NEW g, g = Next1(f)
  PROVE  g.known = TRUE /\ g.fn = f.fn
BY DEF Next1

(* The components of a frame that changes keep.                              *)
LEMMA FrameHas ==
  ASSUME NEW f, NEW K, NEW T, IsFrame(f, K, T)
  PROVE  {"fn", "stack", "regs", "flags", "pc", "known", "rets", "call"} \subseteq DOMAIN f
BY DEF IsFrame

(* An instruction goes on in the executing call, at g.                       *)
LEMMA GoesOn ==
  ASSUME IInv, SurvivalInv, ClosuresKept, Bytecode, NEW g, SetTop(g), g.fn = Top.fn, Settled(g, closures)
  PROVE  SurvivalInv'
<1>1. ~Pending(Co) /\ Top.fn # 1 /\ Top.fn \in Callees
  BY BytecodeFacts
<1>2. closures'[g.fn] = closures[g.fn]
  BY <1>1 DEF ClosuresKept, Callees
<1>3. Settled(g, closures')
  BY <1>2 DEF Settled
<1> QED BY <1>1, <1>3, SetTopSurvives

(* A register that is there is set to a value that is present.               *)
LEMMA SetRegisterSurvives ==
  ASSUME IInv, SurvivalInv, ClosuresKept, Bytecode, NEW f, IsFrame(f, Callees, DOMAIN tables),
         f.fn = Top.fn, NEW r \in Registers \cup {ReservedStart}, NEW v, v # Absent, SetRegister(f, r, v)
  PROVE  SurvivalInv'
<1>1. {"fn", "known"} \subseteq DOMAIN f
  BY FrameHas
<1>2. CASE r = ReservedStart
  <2>1. PICK g : g = Next1(f)
    OBVIOUS
  <2>2. g.known = TRUE /\ g.fn = Top.fn
    BY <1>1, <2>1, NextKnown
  <2>3. SetTop(g)
    BY <1>2, <2>1 DEF SetRegister
  <2> QED BY <2>2, <2>3, GoesOn DEF Settled
<1>3. CASE r # ReservedStart
  <2>1. PICK h : h = [f EXCEPT !.regs[r] = v]
    OBVIOUS
  <2>2. {"fn", "known"} \subseteq DOMAIN h /\ h.fn = f.fn
    BY <1>1, <2>1
  <2>3. PICK g : g = Next1(h)
    OBVIOUS
  <2>4. g.known = TRUE /\ g.fn = Top.fn
    BY <2>2, <2>3, NextKnown
  <2>5. SetTop(g)
    BY <1>3, <2>1, <2>3 DEF SetRegister
  <2> QED BY <2>4, <2>5, GoesOn DEF Settled
<1> QED BY <1>2, <1>3

(* An instruction that is skipped, in a sound program.                       *)
LEMMA SkipSurvives ==
  ASSUME IInv, SurvivalInv, program.sound, Skip
  PROVE  SurvivalInv'
<1>1. InCode /\ Bytecode /\ Skips /\ ClosuresKept
  BY KeptOrMade DEF Skip, InCode, heap
<1>2. Top.known
  BY <1>1, SoundIns
<1>3. IF Top.pc + 1 < 0 THEN Lose("wild_pc") ELSE SetTop([Top EXCEPT !.pc = @ + 1])
  BY <1>2 DEF Skip
<1>4. Top.pc \in Nat /\ {"fn", "known"} \subseteq DOMAIN Top
  BY CoFacts, FrameFacts, FrameHas
<1>5. PICK g : g = [Top EXCEPT !.pc = @ + 1]
  OBVIOUS
<1>6. g.fn = Top.fn /\ g.known = Top.known
  BY <1>4, <1>5
<1>7. SetTop(g)
  BY <1>3, <1>4, <1>5
<1> QED BY <1>1, <1>2, <1>6, <1>7, GoesOn DEF Settled

(* A sound program reads registers that are there.                           *)
LEMMA InputsReadable ==
  ASSUME IInv, SurvivalInv, program.sound, InCode
  PROVE  Inputs \subseteq Readable
<1>1. Operands(Ins) \subseteq Readable
  BY SoundIns DEF SoundInstruction
<1>2. Inputs \subseteq Operands(Ins)
  BY DEF Inputs, Operands
<1> QED BY <1>1, <1>2

(* What an instruction writes.                                               *)
LEMMA OutputThere ==
  ASSUME IInv, SurvivalInv, program.sound, NEW op \in Writing, At(op)
  PROVE  Bytecode /\ InCode /\ Ins.A \in Registers \cup {ReservedStart} /\ IsFrame(Top, Callees, DOMAIN tables)
BY AtFacts, SoundIns DEF SoundInstruction

(* Instructions that fail say why.                                           *)
LEMMA MessagesPresent ==
  /\ \A m : Message(m) # Absent /\ String(m) # Absent
  /\ OutOfMemory # Absent /\ Overflow # Absent /\ Underflow # Absent
  /\ \A v : NotIndexable(v) # Absent
  /\ \A n : Long(n) # Absent /\ Closure(n) # Absent /\ Table(n) # Absent /\ Coroutine(n) # Absent
BY DEF Message, String, Absent, OutOfMemory, Overflow, Underflow, NotIndexable, Long, Closure, Table, Coroutine

(* MOV.                                                                      *)
LEMMA MovSurvives ==
  ASSUME IInv, SurvivalInv, program.sound, Mov
  PROVE  SurvivalInv'
<1>1. Bytecode /\ Ins.A \in Registers \cup {ReservedStart} /\ IsFrame(Top, Callees, DOMAIN tables)
  BY OutputThere DEF Mov, Writing
<1>2. ClosuresKept
  BY KeptOrMade DEF Mov, heap
<1>3. PICK v : v = Register(Top, Ins.B) /\ v # Absent
  BY <1>1, RegisterPresent
<1>4. SetRegister(Top, Ins.A, v)
  BY <1>3 DEF Mov
<1> QED BY <1>1, <1>2, <1>3, <1>4, SetRegisterSurvives

(* Arithmetic without division gives a present value or an error.            *)
LEMMA MathSound ==
  ASSUME NEW K, NEW T, NEW op \in {"+", "-", "*", "^"}, NEW a, Good(a, K, T), NEW b, Good(b, K, T),
         NEW out, out = Math(op, a, b)
  PROVE  \/ out.status = "ok" /\ out.val # Absent
         \/ out.status = "error" /\ out.msg # Absent
<1>1. CASE ~IsNumeric(a) \/ ~IsNumeric(b)
  <2>1. out = Fail(BadOperands(a, b))
    BY <1>1 DEF Math
  <2>2. BadOperands(a, b) # Absent
    BY DEF BadOperands, String, Absent
  <2> QED BY <2>1, <2>2 DEF Fail
<1>2. CASE IsNumeric(a) /\ IsNumeric(b)
  <2>1. PICK x, y, z : /\ x = DataOf(Coerce(a, b)[1]) /\ y = DataOf(Coerce(a, b)[2])
                       /\ z = DoubleArith(op, ToDouble(a).val[2], ToDouble(b).val[2])
    OBVIOUS
  <2>2. out = IF TypeOf(a) = "double" \/ TypeOf(b) = "double"
              THEN Ok(<<"double", DoubleArith(op, x, y)>>)
              ELSE CASE op = "+" -> Ok(Long(Wrap(x + y)))
                     [] op = "-" -> Ok(Long(Wrap(x - y)))
                     [] op = "*" -> Ok(Long(Wrap(x * y)))
                     [] op = "^" -> Ok(<<"double", z>>)
                     [] op \in {"/", "%"} ->
                          IF Traps(x, y) THEN Crash
                          ELSE Ok(Long(IF op = "/" THEN Quotient(x, y) ELSE x - y * Quotient(x, y)))
    BY <1>2, <2>1 DEF Math
  <2>3. PICK v : out = Ok(v) /\ \E n : v = Long(n) \/ v = <<"double", n>>
    BY <2>2
  <2>4. v # Absent
    BY <2>3 DEF Long, Absent
  <2> QED BY <2>3, <2>4 DEF Ok
<1> QED BY <1>1, <1>2

(* ADD, SUB, MUL and POW.                                                    *)
LEMMA ArithmeticSurvives ==
  ASSUME IInv, SurvivalInv, program.sound, Arithmetic
  PROVE  SurvivalInv'
<1>1. Bytecode /\ Ins.A \in Registers \cup {ReservedStart} /\ IsFrame(Top, Callees, DOMAIN tables)
      /\ InCode /\ Ins.op = "math"
  BY OutputThere, AtFacts DEF Arithmetic, Writing
<1>2. ClosuresKept
  BY KeptOrMade DEF Arithmetic, heap
<1>3. PICK op \in {"+", "-", "*", "^"} : op = Ins.math
  <2>1. Ins.math \in {"+", "-", "*", "/", "%", "^"}
    BY <1>1, InsFacts DEF Instruction
  <2>2. Ins.math \notin {"/", "%"}
    BY <1>1, SoundIns DEF SoundInstruction
  <2> QED BY <2>1, <2>2
<1>4. PICK a, b : /\ a = Register(Top, Ins.B) /\ b = Register(Top, Ins.C)
                  /\ Good(a, Callees, DOMAIN tables) /\ Good(b, Callees, DOMAIN tables)
  BY <1>1, RegisterGood
<1>5. PICK out : /\ out = Math(op, a, b)
                 /\ CASE out.status = "ok" -> SetRegister(Top, Ins.A, out.val) /\ UNCHANGED errmsg
                      [] out.status = "error" -> Raise(out.msg)
                      [] OTHER -> Lose("sigfpe") /\ UNCHANGED errmsg
  BY <1>3, <1>4 DEF Arithmetic
<1>6. \/ out.status = "ok" /\ out.val # Absent
      \/ out.status = "error" /\ out.msg # Absent
  BY ONLY <1>4, <1>5, MathSound
<1>7. CASE out.status = "ok" /\ out.val # Absent
  BY <1>1, <1>2, <1>5, <1>7, SetRegisterSurvives
<1>8. CASE out.status = "error" /\ out.msg # Absent
  BY <1>2, <1>5, <1>8, RaiseSurvives
<1> QED BY <1>6, <1>7, <1>8

(* JMP_FORWARD and JMP_BACKWARD.                                             *)
LEMMA JumpSurvives ==
  ASSUME IInv, SurvivalInv, ClosuresKept, Bytecode, NEW target, NEW legal, Jump(target, legal)
  PROVE  SurvivalInv'
<1>1. CASE legal
  <2>1. PICK h, g : h = Next1(Top) /\ g = [h EXCEPT !.pc = target]
    OBVIOUS
  <2>2. {"fn", "known"} \subseteq DOMAIN Top
    BY CoFacts, FrameHas
  <2>3. g.fn = Top.fn /\ g.known = TRUE
    BY <2>1, <2>2 DEF Next1
  <2>4. SetTop(g)
    BY <1>1, <2>1 DEF Jump
  <2> QED BY <2>3, <2>4, GoesOn DEF Settled
<1>2. CASE ~legal
  BY <1>2, RaiseSurvives, MessagesPresent DEF Jump
<1> QED BY <1>1, <1>2

(* Both jumps, within the code or with an error.                             *)
LEMMA JmpSurvive ==
  ASSUME IInv, SurvivalInv, JmpForward \/ JmpBackward
  PROVE  SurvivalInv'
<1>1. Bytecode /\ ClosuresKept
  BY AtFacts, KeptOrMade DEF JmpForward, JmpBackward, heap
<1> QED BY <1>1, JumpSurvives DEF JmpForward, JmpBackward

(* CMP, TABLE_SET and NOP go on whatever they find, if no bucket is shared.  *)
LEMMA GoOnSurvive ==
  ASSUME IInv, SurvivalInv, Cmp \/ TableSet \/ Nop
  PROVE  SurvivalInv'
<1>1. Bytecode /\ ClosuresKept
  BY AtFacts, KeptOrMade DEF Cmp, TableSet, Nop, heap
<1>2. {"fn", "known"} \subseteq DOMAIN Top
  BY CoFacts, FrameHas
<1> SUFFICES ASSUME ~Lose("collision") PROVE SurvivalInv'
  BY <1>1, LoseSurvives DEF Tolerated
<1>3. PICK g : SetTop(g) /\ g.fn = Top.fn /\ g.known = TRUE
  <2>1. CASE Cmp
    <3>1. PICK x, h, g : h = Next1(Top) /\ g = [h EXCEPT !.flags = x] /\ SetTop(g)
      BY <2>1 DEF Cmp
    <3>2. g.fn = Top.fn /\ g.known = TRUE
      BY <1>2, <3>1 DEF Next1
    <3> QED BY <3>1, <3>2
  <2>2. CASE TableSet \/ Nop
    <3>1. SetTop(Next1(Top))
      BY <2>2 DEF TableSet, Nop
    <3>2. PICK g : g = Next1(Top) /\ SetTop(g)
      BY <3>1
    <3> QED BY <1>2, <3>2, NextKnown
  <2> QED BY <2>1, <2>2
<1> QED BY <1>1, <1>3, GoesOn DEF Settled

(* GET_CONSTANT.                                                             *)
LEMMA GetConstantSurvives ==
  ASSUME IInv, SurvivalInv, program.sound, GetConstant
  PROVE  SurvivalInv'
<1>1. Bytecode /\ Ins.A \in Registers \cup {ReservedStart} /\ IsFrame(Top, Callees, DOMAIN tables)
  BY OutputThere DEF GetConstant, Writing
<1>2. ClosuresKept
  BY KeptOrMade DEF GetConstant, heap
<1>3. CASE Ins.B + 1 \in DOMAIN program.constants
  <2>1. PICK v : v = program.constants[Ins.B + 1] /\ Literal(v)
    BY <1>3, ProgramFacts
  <2>2. v # Absent
    BY <2>1 DEF Literal, Absent, TypeOf, UserdataTypes
  <2>3. SetRegister(Top, Ins.A, v)
    BY <1>3, <2>1 DEF GetConstant
  <2> QED BY <1>1, <1>2, <2>2, <2>3, SetRegisterSurvives
<1>4. CASE ~(Ins.B + 1 \in DOMAIN program.constants)
  BY <1>2, <1>4, RaiseSurvives, MessagesPresent DEF GetConstant
<1> QED BY <1>3, <1>4

(* LOAD_PROTOTYPE, of a prototype that is there.                             *)
LEMMA LoadPrototypeSurvives ==
  ASSUME IInv, SurvivalInv, program.sound, LoadPrototype
  PROVE  SurvivalInv'
<1>1. Bytecode /\ InCode /\ Ins.A \in Registers \cup {ReservedStart} /\ IsFrame(Top, Callees, DOMAIN tables)
      /\ Ins.op = "load_prototype"
  BY OutputThere, AtFacts DEF LoadPrototype, Writing
<1>2. ClosuresKept
  BY KeptOrMade DEF LoadPrototype, heap
<1>3. Ins.B \in DOMAIN Proto(Top).protos
  BY <1>1, SoundIns DEF SoundInstruction
<1>4. CASE Lose("out_of_memory")
  BY <1>2, <1>4, LoseSurvives DEF Tolerated
<1>5. CASE SetRegister(Top, Ins.A, Closure(Len(closures) + 1))
  BY <1>1, <1>2, <1>5, SetRegisterSurvives, MessagesPresent
<1> QED BY <1>3, <1>4, <1>5 DEF LoadPrototype

(* STACK_GETTOP and STACK_POP.                                               *)
LEMMA GetTopSurvives ==
  ASSUME IInv, SurvivalInv, program.sound, GetTop
  PROVE  SurvivalInv'
<1>1. Bytecode /\ Ins.A \in Registers \cup {ReservedStart} /\ IsFrame(Top, Callees, DOMAIN tables)
  BY OutputThere DEF GetTop, Writing
<1>2. ClosuresKept
  BY KeptOrMade DEF GetTop, heap
<1>3. SetRegister(Top, Ins.A, Long(Len(Top.stack) - 1))
  BY DEF GetTop
<1> QED BY <1>1, <1>2, <1>3, SetRegisterSurvives, MessagesPresent

(* STACK_POP gives what was on the stack: a present value.                   *)
LEMMA StackPopSurvives ==
  ASSUME IInv, SurvivalInv, program.sound, StackPop
  PROVE  SurvivalInv'
<1>1. Bytecode /\ Ins.A \in Registers \cup {ReservedStart} /\ IsFrame(Top, Callees, DOMAIN tables)
  BY OutputThere DEF StackPop, Writing
<1>2. ClosuresKept
  BY KeptOrMade DEF StackPop, heap
<1>3. CASE Top.stack = <<>>
  BY <1>2, <1>3, RaiseSurvives, MessagesPresent DEF StackPop
<1>4. CASE Top.stack # <<>>
  <2>1. PICK s, v, f : s = Front(Top.stack) /\ v = Last(Top.stack) /\ f = [Top EXCEPT !.stack = s]
    OBVIOUS
  <2>2. /\ IsStack(Top.stack, Callees, DOMAIN tables) /\ Len(Top.stack) \in Nat
        /\ Len(Top.stack) <= StackSize
    BY <1>1, FrameFacts, StackFacts
  <2>3. /\ Good(v, Callees, DOMAIN tables) /\ IsStack(s, Callees, DOMAIN tables)
        /\ Len(s) = Len(Top.stack) - 1
    BY <1>4, <2>1, <2>2, StackEnds
  <2>4. Len(s) <= StackSize /\ v # Absent
    BY <2>2, <2>3, LimitFacts DEF Good, Absent, TypeOf
  <2>5. IsFrame(f, Callees, DOMAIN tables) /\ f.fn = Top.fn
    BY <1>1, <2>1, <2>3, <2>4, FrameStack
  <2>6. SetRegister(f, Ins.A, v)
    BY <1>4, <2>1 DEF StackPop
  <2> QED BY <1>1, <1>2, <2>4, <2>5, <2>6, SetRegisterSurvives
<1> QED BY <1>3, <1>4

(* STACK_PUSH.                                                               *)
LEMMA StackPushSurvives ==
  ASSUME IInv, SurvivalInv, StackPush
  PROVE  SurvivalInv'
<1>1. Bytecode /\ ClosuresKept
  BY AtFacts, KeptOrMade DEF StackPush, heap
<1>2. CASE Len(Top.stack) >= StackSize
  BY <1>1, <1>2, RaiseSurvives, MessagesPresent DEF StackPush
<1>3. CASE ~(Len(Top.stack) >= StackSize)
  <2>1. PICK h : h = Next1(Top)
    OBVIOUS
  <2>2. "stack" \in DOMAIN h /\ "fn" \in DOMAIN h /\ "known" \in DOMAIN h /\ h.fn = Top.fn /\ h.known = TRUE
    <3>1. {"fn", "known", "stack"} \subseteq DOMAIN Top
      BY CoFacts, FrameHas
    <3> QED BY <2>1, <3>1 DEF Next1
  <2>3. PICK s : SetTop([h EXCEPT !.stack = s])
    BY <1>3, <2>1, <2>2 DEF StackPush
  <2>4. PICK g : g = [h EXCEPT !.stack = s]
    OBVIOUS
  <2>5. g.fn = Top.fn /\ g.known = TRUE /\ SetTop(g)
    BY <2>2, <2>3, <2>4
  <2> QED BY <1>1, <2>5, GoesOn DEF Settled
<1> QED BY <1>2, <1>3

(* TABLE_GET.                                                                *)
LEMMA TableGetSurvives ==
  ASSUME IInv, SurvivalInv, program.sound, TableGet
  PROVE  SurvivalInv'
<1>1. Bytecode /\ Ins.A \in Registers \cup {ReservedStart} /\ IsFrame(Top, Callees, DOMAIN tables)
  BY OutputThere DEF TableGet, Writing
<1>2. ClosuresKept
  BY KeptOrMade DEF TableGet, heap
<1>3. PICK t : t = Register(Top, Ins.B) /\ Good(t, Callees, DOMAIN tables)
  BY <1>1, RegisterGood
<1>4. CASE ~IsIndexable(t)
  BY <1>2, <1>3, <1>4, RaiseSurvives, MessagesPresent DEF TableGet
<1>5. CASE IsIndexable(t)
  <2>1. DataOf(t) \in DOMAIN tables
    BY <1>3, <1>5 DEF Good, IsIndexable
  <2>2. PICK v : v = Lookup(tables[DataOf(t)], Register(Top, Ins.C))
    OBVIOUS
  <2>3. Good(v, Callees, DOMAIN tables)
    BY <2>1, <2>2, LookupGood
  <2>4. v # Absent
    BY <2>3 DEF Good, Absent, TypeOf
  <2>5. SetRegister(Top, Ins.A, v)
    BY <1>3, <1>5, <2>2 DEF TableGet
  <2> QED BY <1>1, <1>2, <2>4, <2>5, SetRegisterSurvives
<1> QED BY <1>4, <1>5

(* An opcode that is none, and an instruction outside the registers.         *)
LEMMA IllegalSurvives ==
  ASSUME IInv, SurvivalInv, program.sound, Illegal \/ Unreadable
  PROVE  SurvivalInv'
<1>1. CASE Illegal
  <2>1. ClosuresKept
    BY <1>1, KeptOrMade DEF Illegal, heap
  <2> QED BY <1>1, <2>1, RaiseSurvives, MessagesPresent DEF Illegal
<1>2. CASE Unreadable
  BY <1>2, InputsReadable DEF Unreadable
<1> QED BY <1>1, <1>2

(* The executing coroutine's calls change: those of others are as they were. *)
LEMMA CoChanges ==
  ASSUME IInv, SurvivalInv, ClosuresKept, NEW u, frames' = [frames EXCEPT ![Co] = u],
         fault' \in Tolerated, \A c \in Coroutines : status'[c] = "running" => status[c] = "running",
         u # <<>> => (Settled(Last(u), closures') /\ ~(Last(u).fn = 1 /\ Last(u).pc = 0))
  PROVE  SurvivalInv'
<1>1. Co \in Coroutines /\ frames = [c \in Coroutines |-> frames[c]]
  BY CoFacts DEF IInv, FramesInv
<1>2. frames'[Co] = u /\ \A c \in Coroutines : c # Co => frames'[c] = frames[c]
  BY <1>1
<1>3. TopsSettled(frames', closures')
  BY <1>2, TopsKept DEF TopsSettled
<1>4. AllTold'
  <2> SUFFICES ASSUME NEW c \in Coroutines, status'[c] = "running", Pending(c)'
               PROVE  Told(Stack(c)')
    BY DEF AllTold
  <2>1. c # Co
    BY <1>2 DEF Pending
  <2>2. Pending(c) /\ Stack(c)' = Stack(c)
    BY <1>2, <2>1 DEF Pending, Stack
  <2> QED BY <2>2 DEF SurvivalInv, AllTold
<1> QED BY <1>3, <1>4 DEF SurvivalInv

(* What comes last in a concatenation.                                       *)
LEMMA OnTop ==
  ASSUME NEW s, IsSeq(s), NEW b, IsSeq(b), Len(b) = 1
  PROVE  s \o b # <<>> /\ Last(s \o b) = b[1]
<1>1. IsSeq(s \o b)
  BY SeqConcat
<1>2. Len(s \o b) = Len(s) + Len(b)
  BY SeqConcat
<1>3. \A i \in 1..Len(b) : (s \o b)[Len(s) + i] = b[i]
  BY SeqConcat
<1>4. PICK w : w = s \o b
  OBVIOUS
<1>5. Len(s) \in Nat /\ Len(w) = Len(s) + 1
  BY <1>2, <1>4, SeqFacts
<1>6. IsSeq(w) /\ w[Len(s) + 1] = b[1]
  <2>1. 1 \in 1..Len(b)
    OBVIOUS
  <2>2. (s \o b)[Len(s) + 1] = b[1]
    BY ONLY <1>3, <2>1
  <2> QED BY ONLY <1>1, <1>4, <2>2
<1>7. w # <<>>
  BY ONLY <1>5, <1>6, SeqFacts
<1>8. Last(w) = b[1]
  BY <1>5, <1>6, <1>7, SeqEnds
<1> QED BY <1>4, <1>7, <1>8

(* The callee is on top.                                                     *)
LEMMA EnteredTop ==
  ASSUME NEW s, IsSeq(s), s # <<>>, NEW caller, NEW g, NEW u, u = Entered(s, caller, g)
  PROVE  u # <<>> /\ Last(u) = g
<1>1. PICK a : a = Append(Front(s), caller)
  OBVIOUS
<1>2. IsSeq(Front(s))
  BY SeqEnds
<1>3. IsSeq(a)
  BY <1>1, <1>2, SeqAppend
<1>4. PICK b : b = <<g>>
  OBVIOUS
<1>5. IsSeq(b) /\ Len(b) = 1 /\ b[1] = g
  BY <1>4 DEF IsSeq
<1>6. u = a \o b
  BY <1>1, <1>4 DEF Entered
<1> QED BY ONLY <1>3, <1>5, <1>6, OnTop

(* A function that is no trampoline is entered.                              *)
LEMMA EnterSurvives ==
  ASSUME IInv, SurvivalInv, ClosuresKept, NEW caller, NEW fn, fn # 1, NEW args, NEW call,
         Enter(caller, fn, args, call)
  PROVE  SurvivalInv'
<1>1. CASE \E m : m # Absent /\ Raise(m)
  BY <1>1, RaiseSurvives
<1>2. CASE /\ frames' = [frames EXCEPT ![Co] = Append(Front(@), caller) \o <<NewFrame(fn, args, call)>>]
           /\ UNCHANGED <<program, flow, errmsg, fault>>
  <2>1. PICK g : g = NewFrame(fn, args, call)
    OBVIOUS
  <2>2. g.fn = fn /\ g.pc = 0
    BY <2>1 DEF NewFrame
  <2>3. PICK u : u = Entered(frames[Co], caller, g)
    OBVIOUS
  <2>4. frames' = [frames EXCEPT ![Co] = u] /\ fault' = fault /\ status' = status
    BY <1>2, <2>1, <2>3 DEF Entered, flow
  <2>5. Last(u) = g
    <3>1. IsSeq(frames[Co]) /\ frames[Co] # <<>>
      BY CoFacts DEF IsCallStack
    <3> QED BY <2>3, <3>1, EnteredTop
  <2>6. Settled(Last(u), closures') /\ ~(Last(u).fn = 1 /\ Last(u).pc = 0)
    BY <2>2, <2>5 DEF Settled
  <2>7. fault' \in Tolerated
    BY <2>4 DEF SurvivalInv
  <2> QED BY <2>4, <2>6, <2>7, CoChanges
<1> QED BY <1>1, <1>2, MessagesPresent DEF Enter

(* CALL, from a register that is there.                                      *)
LEMMA CallSurvives ==
  ASSUME IInv, SurvivalInv, program.sound, Call
  PROVE  SurvivalInv'
<1>1. Bytecode /\ InCode /\ Ins.op = "call"
  BY AtFacts DEF Call
<1>2. ClosuresKept
  BY KeptOrMade DEF Call, heap
<1>3. Ins.A \in Readable
  <2>1. Ins.A \in Operands(Ins)
    BY <1>1 DEF Operands
  <2> QED BY <1>1, <2>1, SoundIns DEF SoundInstruction
<1>4. PICK f : f = Register(Top, Ins.A) /\ Good(f, Callees, DOMAIN tables)
  BY <1>1, RegisterGood
<1>5. \/ \E m : Raise(Message(m))
      \/ IsCallable(f) /\ \E args, call : Enter(Top, DataOf(f), args, call)
  BY <1>3, <1>4 DEF Call
<1>6. CASE \E m : Raise(Message(m))
  BY <1>2, <1>6, RaiseSurvives, MessagesPresent
<1>7. CASE IsCallable(f) /\ \E args, call : Enter(Top, DataOf(f), args, call)
  <2>1. DataOf(f) # 1
    BY <1>4, <1>7 DEF Good, IsCallable, Callees
  <2> QED BY <1>2, <1>7, <2>1, EnterSurvives
<1> QED BY <1>5, <1>6, <1>7

(* RETURN of registers that are there, and the end of the code.              *)
LEMMA ReturnSurvives ==
  ASSUME IInv, SurvivalInv, program.sound, Return \/ FallOff
  PROVE  SurvivalInv'
<1>1. Bytecode /\ ClosuresKept
  BY AtFacts, KeptOrMade DEF Return, FallOff, heap
<1>2. {"fn", "stack", "known", "pc", "rets"} \subseteq DOMAIN Top
  BY CoFacts, FrameHas
<1>3. PICK g : SetTop(g) /\ g.fn = Top.fn /\ g.known = Top.known /\ g.pc = Top.pc
  <2>1. CASE Return
    <3>1. InCode /\ Ins.op = "ret"
      BY <2>1, AtFacts DEF Return
    <3>2. Ins.A .. Ins.A + Ins.B - 1 \subseteq Readable
      <4>1. Operands(Ins) = Ins.A .. Ins.A + Ins.B - 1
        BY <3>1 DEF Operands
      <4> QED BY <3>1, <4>1, SoundIns DEF SoundInstruction
    <3>3. PICK n, s : SetTop([Top EXCEPT !.rets = n, !.stack = s])
      BY <2>1, <3>2 DEF Return
    <3>4. PICK g : g = [Top EXCEPT !.rets = n, !.stack = s]
      OBVIOUS
    <3>5. g.fn = Top.fn /\ g.known = Top.known /\ g.pc = Top.pc
      BY ONLY <1>2, <3>4
    <3> QED BY <3>3, <3>4, <3>5
  <2>2. CASE FallOff
    <3>1. PICK g : g = [Top EXCEPT !.rets = 0]
      OBVIOUS
    <3>2. SetTop(g)
      BY <2>2, <3>1 DEF FallOff
    <3> QED BY <1>2, <3>1, <3>2
  <2> QED BY <2>1, <2>2
<1>4. Settled(Top, closures)
  BY CoFacts DEF SurvivalInv, TopsSettled, Top
<1>5. Settled(g, closures)
  BY <1>3, <1>4 DEF Settled
<1> QED BY <1>1, <1>3, <1>5, GoesOn

(* Results go to the caller, which goes on at its next instruction.          *)
LEMMA DeliverSurvives ==
  ASSUME IInv, SurvivalInv, Deliver
  PROVE  SurvivalInv'
<1> DEFINE n == Len(frames[Co])
           caller == frames[Co][n - 1]
<1>1. ClosuresKept
  BY KeptOrMade DEF Deliver, heap
<1>2. CASE \E m : Raise(Message(m))
  BY <1>1, <1>2, RaiseSurvives, MessagesPresent
<1>3. CASE ~ \E m : Raise(Message(m))
  <2>1. PICK h, s, g, u : /\ h = Next1(caller) /\ g = [h EXCEPT !.stack = s]
                          /\ u = Append(SubSeq(frames[Co], 1, n - 2), g)
                          /\ frames' = [frames EXCEPT ![Co] = u]
                          /\ UNCHANGED <<flow, fault>>
    <3>1. frames' = [frames EXCEPT ![Co] = Append(SubSeq(@, 1, Len(@) - 2),
             [Next1(caller) EXCEPT !.stack = SubSeq(@, 1, Top.call.base) \o Results(Top)])]
          /\ UNCHANGED <<flow, fault>>
      BY <1>3 DEF Deliver
    <3>2. PICK h : h = Next1(caller)
      OBVIOUS
    <3>3. PICK s : s = SubSeq(h.stack, 1, Top.call.base) \o Results(Top)
      OBVIOUS
    <3>4. "stack" \in DOMAIN h => [h EXCEPT !.stack = SubSeq(@, 1, Top.call.base) \o Results(Top)] = [h EXCEPT !.stack = s]
      BY <3>3
    <3>5. "stack" \in DOMAIN h
      <4>1. n \in Nat /\ n > 1 /\ IsCallStack(frames[Co], Callees, DOMAIN tables)
        BY CoFacts DEF Deliver
      <4>2. n - 1 \in 1..n
        BY <4>1
      <4>3. IsFrame(caller, Callees, DOMAIN tables)
        BY <4>1, <4>2 DEF IsCallStack
      <4> QED BY <3>2, <4>3 DEF IsFrame, Next1
    <3> QED BY <3>1, <3>2, <3>4, <3>5
  <2>2. /\ n \in Nat /\ n > 1 /\ IsCallStack(frames[Co], Callees, DOMAIN tables) /\ IsSeq(frames[Co])
    BY CoFacts DEF Deliver, IsCallStack
  <2>3. IsFrame(caller, Callees, DOMAIN tables)
    <3>1. n - 1 \in 1..n
      BY <2>2
    <3> QED BY <2>2, <3>1 DEF IsCallStack
  <2>4. g.fn = caller.fn /\ g.known = TRUE /\ g.pc # 0
    <3>1. {"fn", "stack", "known", "pc"} \subseteq DOMAIN caller /\ caller.pc \in Nat
      BY <2>3, FrameHas, FrameFacts
    <3>2. {"fn", "stack", "known", "pc"} \subseteq DOMAIN h
          /\ h.fn = caller.fn /\ h.known = TRUE /\ h.pc = caller.pc + 1
      BY <2>1, <3>1 DEF Next1
    <3>3. g.fn = h.fn /\ g.known = h.known /\ g.pc = h.pc
      BY <2>1, <3>2
    <3> QED BY <3>1, <3>2, <3>3
  <2>5. Last(u) = g
    <3>1. n - 2 \in Nat /\ n - 2 <= Len(frames[Co])
      BY <2>2
    <3>2. PICK t : t = SubSeq(frames[Co], 1, n - 2) /\ IsSeq(t)
      BY <2>2, <3>1, SeqPrefix
    <3>3. IsSeq(u) /\ Len(u) = Len(t) + 1 /\ u # <<>> /\ u[Len(t) + 1] = g
      BY <2>1, <3>2, SeqAppend
    <3> QED BY <3>3, SeqEnds
  <2>6. Settled(Last(u), closures') /\ ~(Last(u).fn = 1 /\ Last(u).pc = 0)
    BY <2>4, <2>5 DEF Settled
  <2>7. fault' \in Tolerated /\ status' = status
    BY <2>1 DEF SurvivalInv, flow
  <2> QED BY <1>1, <2>1, <2>6, <2>7, CoChanges
<1> QED BY <1>2, <1>3

(* The first function of a coroutine returned.                               *)
LEMMA FinishSurvives ==
  ASSUME IInv, SurvivalInv, Finish
  PROVE  SurvivalInv'
<1>1. ClosuresKept
  BY KeptOrMade DEF Finish, heap
<1>2. /\ frames' = [frames EXCEPT ![Co] = <<>>] /\ fault' = fault
      /\ status' = [status EXCEPT ![Co] = "dead"]
  BY DEF Finish, Leave
<1>3. \A c \in Coroutines : status'[c] = "running" => status[c] = "running"
  BY <1>2 DEF IInv, FlowInv
<1>4. fault' \in Tolerated
  BY <1>2 DEF SurvivalInv
<1>5. PICK u : u = <<>>
  OBVIOUS
<1> QED BY <1>1, <1>2, <1>3, <1>4, <1>5, CoChanges

(* Every instruction of a sound program.                                     *)
LEMMA InterpretSurvives ==
  ASSUME IInv, SurvivalInv, program.sound, Interpret
  PROVE  SurvivalInv'
BY SkipSurvives, MovSurvives, ArithmeticSurvives, JmpSurvive, GoOnSurvive, GetConstantSurvives,
   LoadPrototypeSurvives, GetTopSurvives, StackPopSurvives, StackPushSurvives, TableGetSurvives,
   IllegalSurvives, CallSurvives, ReturnSurvives, DeliverSurvives, FinishSurvives DEF Interpret

(* What an API call leaves of the calls in progress: the function, whether    *)
(* the advance is known and, but for the caller's, the counter.              *)
SameTops(fs, gs) ==
  \A c \in Coroutines : gs[c] # <<>> =>
    /\ fs[c] # <<>> /\ Last(gs[c]).fn = Last(fs[c]).fn /\ Last(gs[c]).known = Last(fs[c]).known
    /\ c # Co => Last(gs[c]).pc = Last(fs[c]).pc

(* Twice is once.                                                            *)
LEMMA TopsTwice ==
  ASSUME NEW fs, NEW gs, NEW hs, SameTops(fs, gs), SameTops(gs, hs)
  PROVE  SameTops(fs, hs)
BY DEF SameTops

(* The count of API calls does so.                                           *)
LEMMA CountedTops ==
  ASSUME IInv
  PROVE  SameTops(frames, Counted)
<1>1. /\ frames = [c \in Coroutines |-> frames[c]] /\ Co \in Coroutines /\ frames[Co] # <<>>
      /\ IsCallStack(frames[Co], Callees, DOMAIN tables) /\ IsSeq(frames[Co])
  BY CoFacts DEF IInv, FramesInv, IsCallStack
<1>2. /\ Len(frames[Co]) \in 1..Len(frames[Co]) /\ DOMAIN frames[Co] = 1..Len(frames[Co])
      /\ Last(frames[Co]) = frames[Co][Len(frames[Co])]
      /\ IsFrame(Last(frames[Co]), Callees, DOMAIN tables)
  BY <1>1, CallStackFacts
<1>3. PICK p : p = Last(frames[Co]).pc + 1
  OBVIOUS
<1>4. PICK t : t = Last(frames[Co])
  OBVIOUS
<1>5. PICK g : g = [t EXCEPT !.pc = p]
  OBVIOUS
<1>6. g.fn = t.fn /\ g.known = t.known
  <2>1. {"fn", "known", "pc"} \subseteq DOMAIN t
    BY <1>2, <1>4, FrameHas
  <2> QED BY <1>5, <2>1
<1>7. Counted = ThatTopIs(frames, Co, g)
  BY <1>1, <1>2, <1>3, <1>4, <1>5 DEF Counted, ThatTopIs
<1>8. Last(Counted[Co]) = g /\ \A c \in Coroutines : c # Co => Counted[c] = frames[c]
  BY <1>1, <1>7, TopSet
<1> QED BY <1>1, <1>4, <1>6, <1>8 DEF SameTops

(* Call stacks, as far as a change of one value stack goes.                  *)
Whole(fs) ==
  /\ fs = [c \in Coroutines |-> fs[c]]
  /\ \A c \in Coroutines :
       IsSeq(fs[c]) /\ (fs[c] # <<>> => {"fn", "stack", "known", "pc"} \subseteq DOMAIN Last(fs[c]))

(* The count of API calls keeps them whole.                                  *)
LEMMA CountedWhole ==
  ASSUME IInv
  PROVE  Whole(Counted) /\ \A c \in Coroutines : frames[c] # <<>> => Counted[c] # <<>>
<1>1. AllStacks(frames, Callees, DOMAIN tables)
  BY DEF IInv, FramesInv, AllStacks
<1>2. PICK fs : fs = Counted
  OBVIOUS
<1>3. AllStacks(fs, Callees, DOMAIN tables) /\ \A c \in Coroutines : frames[c] # <<>> => fs[c] # <<>>
  BY <1>1, <1>2, CountedFacts
<1>4. ASSUME NEW c \in Coroutines
      PROVE  IsSeq(fs[c]) /\ (fs[c] # <<>> => {"fn", "stack", "known", "pc"} \subseteq DOMAIN Last(fs[c]))
  <2>1. IsCallStack(fs[c], Callees, DOMAIN tables)
    BY <1>3 DEF AllStacks
  <2>2. IsSeq(fs[c])
    BY <2>1 DEF IsCallStack
  <2>3. ASSUME fs[c] # <<>> PROVE {"fn", "stack", "known", "pc"} \subseteq DOMAIN Last(fs[c])
    <3>1. IsFrame(Last(fs[c]), Callees, DOMAIN tables)
      BY <2>1, <2>3, CallStackFacts
    <3> QED BY <3>1, FrameHas
  <2> QED BY <2>2, <2>3
<1> QED BY <1>2, <1>3, <1>4 DEF Whole, AllStacks

(* A change of one stack keeps the calls.                                    *)
LEMMA WithStackTops ==
  ASSUME NEW fs, Whole(fs), NEW L \in Coroutines, fs[L] # <<>>, NEW s, NEW gs, gs = WithStack(fs, L, s)
  PROVE  /\ Whole(gs) /\ SameTops(fs, gs) /\ Last(gs[L]).stack = s
         /\ \A c \in Coroutines : fs[c] # <<>> => gs[c] # <<>>
<1>1. fs = [c \in Coroutines |-> fs[c]] /\ L \in Coroutines /\ IsSeq(fs[L]) /\ fs[L] # <<>>
  BY DEF Whole
<1>2. /\ Len(fs[L]) \in 1..Len(fs[L]) /\ DOMAIN fs[L] = 1..Len(fs[L])
      /\ Last(fs[L]) = fs[L][Len(fs[L])]
  BY <1>1, SeqEnds, SeqFacts
<1>3. PICK t : t = Last(fs[L]) /\ {"fn", "stack", "known", "pc"} \subseteq DOMAIN t
  BY DEF Whole
<1>4. PICK g : g = [t EXCEPT !.stack = s]
  OBVIOUS
<1>5. /\ g.fn = t.fn /\ g.known = t.known /\ g.pc = t.pc /\ g.stack = s
      /\ {"fn", "stack", "known", "pc"} \subseteq DOMAIN g
  BY <1>3, <1>4
<1>6. gs = ThatTopIs(fs, L, g)
  BY <1>1, <1>2, <1>3, <1>4 DEF WithStack, ThatTopIs
<1>7. /\ gs = [c \in Coroutines |-> gs[c]] /\ IsSeq(gs[L]) /\ gs[L] # <<>> /\ Last(gs[L]) = g
      /\ \A c \in Coroutines : c # L => gs[c] = fs[c]
  BY ONLY <1>1, <1>6, TopSet
<1>8. Whole(gs)
  BY <1>5, <1>7 DEF Whole
<1> QED BY <1>1, <1>3, <1>5, <1>7, <1>8 DEF SameTops

(* Frames with the same calls in progress, of a native function's step.      *)
LEMMA TopsSettledStill ==
  ASSUME IInv, SurvivalInv, ClosuresKept, Native, NEW gs, SameTops(frames, gs)
  PROVE  /\ TopsSettled(gs, closures')
         /\ \A c \in Coroutines : (gs[c] # <<>> /\ Last(gs[c]).fn = 1 /\ Last(gs[c]).pc = 0) => Pending(c)
<1>1. Top.fn # 1 /\ Top.fn \in Callees /\ closures[Top.fn].kind = "native"
  BY NativeFacts, ClosureKinds DEF Native
<1>2. closures'[Top.fn] = closures[Top.fn]
  BY <1>1 DEF ClosuresKept, Callees
<1>3. TopsSettled(frames, closures')
  BY TopsKept
<1>4. ASSUME NEW c \in Coroutines, gs[c] # <<>>
      PROVE  /\ Settled(Last(gs[c]), closures')
             /\ (Last(gs[c]).fn = 1 /\ Last(gs[c]).pc = 0) => Pending(c)
  <2>1. /\ frames[c] # <<>> /\ Last(gs[c]).fn = Last(frames[c]).fn
        /\ Last(gs[c]).known = Last(frames[c]).known
        /\ c # Co => Last(gs[c]).pc = Last(frames[c]).pc
    BY <1>4 DEF SameTops
  <2>2. CASE c = Co
    <3>1. Last(gs[c]).fn = Top.fn
      BY <2>1, <2>2 DEF Top
    <3> QED BY <1>1, <1>2, <3>1 DEF Settled
  <2>3. CASE c # Co
    <3>1. Settled(Last(frames[c]), closures')
      BY <1>3, <2>1 DEF TopsSettled
    <3> QED BY <2>1, <2>3, <3>1 DEF Settled, Pending
  <2> QED BY <2>2, <2>3
<1> QED BY <1>4 DEF TopsSettled

(* A step of a native function that starts no coroutine.                     *)
LEMMA StillSurvives ==
  ASSUME IInv, SurvivalInv, ClosuresKept, Native, SameTops(frames, frames'), fault' = fault,
         \A c \in Coroutines : status'[c] = "running" => status[c] = "running"
  PROVE  SurvivalInv'
<1>1. /\ TopsSettled(frames', closures')
      /\ \A c \in Coroutines : Pending(c)' => Pending(c)
  BY TopsSettledStill DEF Pending
<1>2. ~Pending(Co)
  BY NativeFacts
<1>3. AllTold'
  BY <1>1, <1>2, NoneWaits
<1> QED BY <1>1, <1>3 DEF SurvivalInv

(* An outcome that has a message when it is an error.                        *)
Speaks(out) == out.status = "error" => out.msg # Absent

(* An operation on one stack.                                                *)
LEMMA ApplySurvives ==
  ASSUME IInv, SurvivalInv, ClosuresKept, Native, NEW L \in Reach, NEW out, Speaks(out), Apply(L, out)
  PROVE  SurvivalInv'
<1>1. CASE out.status = "ok"
  <2>1. frames' = WithStack(Counted, L, out.val) /\ fault' = fault /\ status' = status
    BY <1>1 DEF Apply, flow
  <2>2. PICK fs : fs = Counted
    OBVIOUS
  <2>3. L \in Coroutines /\ Whole(fs) /\ fs[L] # <<>>
    BY <2>2, ReachFacts, CountedWhole
  <2>4. SameTops(fs, frames')
    <3>1. PICK s, gs : s = out.val /\ gs = frames' /\ gs = WithStack(fs, L, s)
      BY <2>1, <2>2
    <3>2. SameTops(fs, gs)
      BY <2>3, <3>1, WithStackTops
    <3> QED BY <3>1, <3>2
  <2>5. SameTops(frames, frames')
    BY <2>2, <2>4, CountedTops, TopsTwice
  <2> QED BY <2>1, <2>5, StillSurvives
<1>2. CASE out.status = "error"
  BY <1>2, RaiseSurvives DEF Apply, Speaks
<1>3. CASE out.status # "ok" /\ out.status # "error"
  BY <1>3, LoseSurvives DEF Apply, Tolerated
<1> QED BY <1>1, <1>2, <1>3

(* The API calls of a sound program work on its own stack.                   *)
LEMMA OwnStack ==
  ASSUME IInv, Native, program.sound, NEW L \in Reach
  PROVE  /\ L = Co /\ Last(frames[L]) = Top /\ Stack(L) = Top.stack
         /\ closures[Last(frames[L]).fn].env # Absent
<1>1. L = Co
  BY SoundFacts DEF Reach
<1>2. Last(frames[L]) = Top /\ Stack(L) = Top.stack
  BY <1>1 DEF Top, Stack
<1>3. Top.fn \in DOMAIN closures \ {1}
  BY NativeFacts, ClosureKinds DEF Callees
<1>4. Good(closures[Top.fn].env, Callees, DOMAIN tables)
  BY <1>3 DEF IInv, HeapInv
<1>5. closures[Top.fn].env # Absent
  BY <1>4, GoodMade
<1> QED BY <1>1, <1>2, <1>5

(* What answers, and what fails with a message, speaks.                       *)
LEMMA OutcomesSpeak ==
  (\A v : Speaks(Ok(v))) /\ \A m : m # Absent => Speaks(Fail(m))
BY DEF Speaks, Ok, Fail

(* Every operation on one stack says why it fails.                           *)
LEMMA StackOpsSpeak ==
  ASSUME NEW s
  PROVE  /\ \A v : Speaks(Pushed(s, v)) /\ \A out \in PushedNew(s, v) : Speaks(out)
         /\ \A i, out : Speaks(out) => Speaks(IfIndex(s, i, out))
         /\ \A i, j : Speaks(Copied(s, i, j)) /\ Speaks(Rotated(s, i, j))
         /\ \A i : Speaks(PushedCopy(s, i))
         /\ \A n : Speaks(Popped(s, n))
         /\ Speaks(Ok(s))
<1>1. \A v : Speaks(Ok(v))
  BY DEF Speaks, Ok
<1>2. \A m : Speaks(Fail(Message(m)))
  BY MessagesPresent DEF Speaks, Fail
<1>3. Speaks(Crash)
  BY DEF Speaks, Crash
<1>4. \A v : Speaks(Pushed(s, v)) /\ \A out \in PushedNew(s, v) : Speaks(out)
  <2>1. \A v : Speaks(Pushed(s, v))
    BY <1>1, <1>2 DEF Pushed, Overflow
  <2> QED BY <1>3, <2>1 DEF PushedNew
<1>5. \A i, out : Speaks(out) => Speaks(IfIndex(s, i, out))
  BY <1>2 DEF IfIndex
<1>6. \A i, j : Speaks(Copied(s, i, j)) /\ Speaks(Rotated(s, i, j))
  BY <1>1, <1>5 DEF Copied, Rotated
<1>7. \A i : Speaks(PushedCopy(s, i))
  BY <1>2, <1>4, <1>5 DEF PushedCopy, Overflow
<1>8. \A n : Speaks(Popped(s, n))
  BY <1>1, <1>2 DEF Popped, Underflow
<1> QED BY <1>1, <1>4, <1>5, <1>6, <1>7, <1>8

(* lua_remove, lua_replace, lua_tolstring and lua_len do.                    *)
LEMMA CompoundOpsSpeak ==
  ASSUME NEW s
  PROVE  /\ \A i : Speaks(Removed(s, i)) /\ Speaks(Replaced(s, i))
         /\ \A i : \A out \in Stringified(s, i) \cup LengthPushed(s, i) : Speaks(out)
<1>1. \A i : Speaks(Removed(s, i))
  BY StackOpsSpeak DEF Removed
<1>2. \A i : Speaks(Replaced(s, i))
  BY StackOpsSpeak DEF Replaced
<1>3. ASSUME NEW i, NEW out \in Stringified(s, i) PROVE Speaks(out)
  <2>1. CASE ~IsIndex(s, i)
    <3>1. out \in {IfIndex(s, i, Ok(s))}
      BY <2>1 DEF Stringified
    <3> QED BY <3>1, StackOpsSpeak
  <2>2. CASE IsIndex(s, i)
    <3>1. PICK v : v = ValueAt(s, i)
      OBVIOUS
    <3>2. CASE TypeOf(v) = "string"
      <4>1. out \in {Ok(s)}
        BY <2>2, <3>1, <3>2 DEF Stringified, IsNumeric, NumericTypes
      <4> QED BY <4>1, StackOpsSpeak
    <3>3. CASE TypeOf(v) # "string" /\ ~IsNumeric(v)
      <4>1. PICK m : m = Message("expect long or number")
        OBVIOUS
      <4>2. out \in {Fail(m)}
        BY <2>2, <3>1, <3>3, <4>1 DEF Stringified
      <4>3. m # Absent
        BY <4>1, MessagesPresent
      <4> QED BY <4>2, <4>3, OutcomesSpeak
    <3>4. CASE TypeOf(v) # "string" /\ IsNumeric(v)
      <4>1. PICK text \in TextOf(v) :
              \/ text.status # "ok" /\ out = text
              \/ text.status = "ok" /\ \E u : out = Ok(u)
        BY <2>2, <3>1, <3>4 DEF Stringified
      <4>2. CASE text.status # "ok" /\ out = text
        <5>1. text = Fail(OutOfMemory) \/ \E u : text = Ok(u)
          BY <3>4 DEF TextOf, Allocated, IsNumeric, NumericTypes
        <5>2. Speaks(text)
          BY <5>1, MessagesPresent, OutcomesSpeak
        <5> QED BY <4>2, <5>2
      <4>3. CASE text.status = "ok" /\ \E u : out = Ok(u)
        BY <4>3 DEF Speaks, Ok
      <4> QED BY <4>1, <4>2, <4>3
    <3> QED BY <3>2, <3>3, <3>4
  <2> QED BY <2>1, <2>2
<1>4. ASSUME NEW i, NEW out \in LengthPushed(s, i) PROVE Speaks(out)
  <2>1. \/ out = Fail(Overflow) \/ out = IfIndex(s, i, Ok(s)) \/ out = Ok(s)
        \/ \E v : out = Pushed(s, v)
    BY DEF LengthPushed
  <2>2. Speaks(Fail(Overflow))
    BY MessagesPresent DEF Speaks, Fail, Overflow
  <2> QED BY <2>1, <2>2, StackOpsSpeak
<1> QED BY <1>1, <1>2, <1>3, <1>4

(* An error after the whole stack was taken.                                 *)
LEMMA DropAllSurvives ==
  ASSUME IInv, SurvivalInv, ClosuresKept, Native, NEW m, m # Absent,
         RaiseLeaving(WithStack(frames, Co, <<>>), m)
  PROVE  SurvivalInv'
<1>1. CASE Co = Host
  <2>1. Lose("unhandled")
    BY <1>1 DEF RaiseLeaving
  <2> QED BY <2>1, LoseSurvives DEF Tolerated
<1>2. CASE Co # Host
  <2>1. frames' = WithStack(frames, Co, <<>>) /\ fault' = fault /\ status' = [status EXCEPT ![Co] = "dead"]
    BY <1>2 DEF RaiseLeaving, Leave
  <2>2. ASSUME NEW c \in Coroutines
        PROVE  /\ IsSeq(frames[c])
               /\ frames[c] # <<>> => {"fn", "stack", "known", "pc"} \subseteq DOMAIN Last(frames[c])
    <3>1. IsCallStack(frames[c], Callees, DOMAIN tables)
      BY DEF IInv, FramesInv
    <3>2. frames[c] # <<>> => IsFrame(Last(frames[c]), Callees, DOMAIN tables)
      BY <3>1, CallStackFacts
    <3> QED BY <3>1, <3>2, FrameHas DEF IsCallStack
  <2>3. frames = [c \in Coroutines |-> frames[c]] /\ Co \in Coroutines /\ frames[Co] # <<>>
    BY CoFacts DEF IInv, FramesInv
  <2>4. Whole(frames)
    BY <2>2, <2>3 DEF Whole
  <2>5. PICK s, gs : s = <<>> /\ gs = frames' /\ gs = WithStack(frames, Co, s)
    BY <2>1
  <2>6. SameTops(frames, gs)
    BY <2>3, <2>4, <2>5, WithStackTops
  <2>7. \A c \in Coroutines : status'[c] = "running" => status[c] = "running"
    BY <2>1 DEF IInv, FlowInv
  <2> QED BY <2>1, <2>5, <2>6, <2>7, StillSurvives
<1> QED BY <1>1, <1>2

(* lua_pop, of what is there, and of more.                                   *)
LEMMA PopSurvives ==
  ASSUME IInv, SurvivalInv, program.sound, Pop
  PROVE  SurvivalInv'
<1>1. Native /\ ClosuresKept
  BY KeptOrMade DEF Pop, May, heap
<1>2. PICK L \in Reach, n \in program.counts :
        \/ RaiseLeaving(WithStack(frames, L, <<>>), Underflow)
        \/ Apply(L, Popped(Stack(L), n))
  BY DEF Pop
<1>3. CASE RaiseLeaving(WithStack(frames, L, <<>>), Underflow)
  BY <1>1, <1>3, OwnStack, MessagesPresent, DropAllSurvives
<1>4. CASE Apply(L, Popped(Stack(L), n))
  BY <1>1, <1>4, StackOpsSpeak, ApplySurvives
<1> QED BY <1>2, <1>3, <1>4

(* The other API calls on one stack, of a sound program.                     *)
LEMMA StackOpsSurvive ==
  ASSUME IInv, SurvivalInv, program.sound,
         \/ PushPlain \/ PushObject \/ PushCopy \/ PushThread \/ Copy \/ LuaRemove
         \/ Replace \/ Rotate \/ ToLString \/ PushLength \/ Query
  PROVE  SurvivalInv'
<1>1. PICK L \in Reach : \E out : Speaks(out) /\ Apply(L, out)
  <2>1. CASE PushPlain \/ PushObject \/ PushCopy \/ PushThread
    BY <2>1, StackOpsSpeak DEF PushPlain, PushObject, PushCopy, PushThread
  <2>2. CASE Copy \/ Rotate \/ Query
    BY <2>2, StackOpsSpeak DEF Copy, Rotate, Query, Asked
  <2>3. CASE LuaRemove \/ Replace \/ ToLString \/ PushLength
    BY <2>3, CompoundOpsSpeak DEF LuaRemove, Replace, ToLString, PushLength
  <2> QED BY <2>1, <2>2, <2>3
<1>2. UNCHANGED heap /\ Native
  BY DEF PushPlain, PushObject, PushCopy, PushThread, Copy, LuaRemove, Replace, Rotate,
         ToLString, PushLength, Query, May
<1>3. ClosuresKept
  BY <1>2, KeptOrMade DEF heap
<1> QED BY <1>1, <1>2, <1>3, ApplySurvives

(* lua_pushglobaltable: a native function has an environment.                *)
LEMMA PushGlobalsSurvives ==
  ASSUME IInv, SurvivalInv, program.sound, PushGlobals
  PROVE  SurvivalInv'
<1>1. Native /\ ClosuresKept
  BY KeptOrMade DEF PushGlobals, May, heap
<1>2. PICK L \in Reach : \E env :
        /\ env = closures[Last(frames[L]).fn].env
        /\ IF env = Absent /\ Fits(Stack(L), 1) THEN Lose("assert") /\ UNCHANGED errmsg
           ELSE Apply(L, Pushed(Stack(L), env))
  BY DEF PushGlobals
<1>3. \E env : Apply(L, Pushed(Stack(L), env))
  BY <1>1, <1>2, OwnStack
<1> QED BY <1>1, <1>3, StackOpsSpeak, ApplySurvives

(* lua_error throws what is on top, or that there is nothing.                *)
LEMMA ErrorSurvives ==
  ASSUME IInv, SurvivalInv, program.sound, Error
  PROVE  SurvivalInv'
<1>1. ClosuresKept
  BY KeptOrMade DEF Error, heap
<1>2. PICK m : m = IF Stack(Co) = <<>> THEN Underflow ELSE Last(Stack(Co))
  OBVIOUS
<1>3. m # Absent
  <2>1. CASE Stack(Co) = <<>>
    BY <1>2, <2>1, MessagesPresent DEF Underflow
  <2>2. CASE Stack(Co) # <<>>
    <3>1. IsStack(Stack(Co), Callees, DOMAIN tables)
      BY CoFacts, StackOf
    <3>2. Good(Last(Stack(Co)), Callees, DOMAIN tables)
      BY <2>2, <3>1, StackEnds
    <3> QED BY <1>2, <2>2, <3>2, GoodMade
  <2> QED BY <2>1, <2>2
<1> QED BY <1>1, <1>2, <1>3, RaiseSurvives DEF Error

(* lua_createtable.                                                          *)
LEMMA CreateTableSurvives ==
  ASSUME IInv, SurvivalInv, program.sound, CreateTable
  PROVE  SurvivalInv'
<1>1. Native /\ ClosuresKept
  BY KeptOrMade DEF CreateTable, May
<1>2. CASE Raise(Overflow) \/ Raise(OutOfMemory)
  BY <1>1, <1>2, RaiseSurvives, MessagesPresent
<1>3. CASE \E L \in Reach : Apply(L, Pushed(Stack(L), Table(Len(tables) + 1)))
  <2>1. PICK L \in Reach : Apply(L, Pushed(Stack(L), Table(Len(tables) + 1)))
    BY <1>3
  <2> QED BY <1>1, <2>1, StackOpsSpeak, ApplySurvives
<1> QED BY <1>2, <1>3 DEF CreateTable

(* lua_pushcfunction: the environment it takes over is there.                *)
LEMMA PushCFunctionSurvives ==
  ASSUME IInv, SurvivalInv, program.sound, PushCFunction
  PROVE  SurvivalInv'
<1>1. Native
  BY DEF PushCFunction, May
<1>2. PICK L \in Reach :
        \/ (Raise(Overflow) \/ Raise(OutOfMemory)) /\ closures' = closures
        \/ \E c, v : closures' = Append(closures, c) /\ Apply(L, Pushed(Stack(L), v))
  BY <1>1, OwnStack DEF PushCFunction
<1>3. ClosuresKept
  BY <1>2, KeptOrMade
<1>4. CASE Raise(Overflow) \/ Raise(OutOfMemory)
  BY <1>3, <1>4, RaiseSurvives, MessagesPresent
<1>5. CASE \E v : Apply(L, Pushed(Stack(L), v))
  BY <1>1, <1>3, <1>5, StackOpsSpeak, ApplySurvives
<1> QED BY <1>2, <1>4, <1>5

(* lua_setfield and lua_setglobal.                                           *)
LEMMA SetsSurvive ==
  ASSUME IInv, SurvivalInv, program.sound, SetField \/ SetGlobal
  PROVE  SurvivalInv'
<1>1. Native /\ ClosuresKept
  BY KeptOrMade DEF SetField, SetGlobal, May
<1>2. PICK L \in Reach : \/ \E t, k : StoreTop(L, t, k)
                         \/ Raise(Message("invalid stack index"))
  BY DEF SetField, SetGlobal
<1>3. \/ \E t : Raise(NotIndexable(t))
      \/ \E m : Raise(Message(m))
      \/ Raise(OutOfMemory)
      \/ Apply(L, Popped(Stack(L), 1))
      \/ Lose("collision")
  BY <1>2 DEF StoreTop
<1>4. CASE (\E t : Raise(NotIndexable(t))) \/ (\E m : Raise(Message(m))) \/ Raise(OutOfMemory)
  BY <1>1, <1>4, RaiseSurvives, MessagesPresent
<1>5. CASE Apply(L, Popped(Stack(L), 1))
  BY <1>1, <1>5, StackOpsSpeak, ApplySurvives
<1>6. CASE Lose("collision")
  BY <1>1, <1>6, LoseSurvives DEF Tolerated
<1> QED BY <1>3, <1>4, <1>5, <1>6

-----------------------------------------------------------------------------
(* Calls: what is called is a function.                                      *)
LEMMA CallAtSurvives ==
  ASSUME IInv, SurvivalInv, ClosuresKept, NEW f, NEW at \in Int, NEW last, NEW wanted,
         at >= 1 => IsCallable(f.stack[at]) /\ DataOf(f.stack[at]) # 1, CallAt(f, at, last, wanted)
  PROVE  SurvivalInv'
<1>1. CASE Raise(Message("stack underflow"))
  BY <1>1, RaiseSurvives, MessagesPresent
<1>2. PICK x : x = f.stack[at]
  OBVIOUS
<1>3. PICK caller, args, call : /\ caller = [f EXCEPT !.stack = SubSeq(@, 1, at)]
                               /\ args = SubSeq(f.stack, at + 1, last)
                               /\ call = [by |-> "native", base |-> at - 1, keeps |-> at, wanted |-> wanted,
                                          below |-> SubSeq(f.stack, 1, at - 1)]
  OBVIOUS
<1>4. CASE at < 1
  BY <1>1, <1>4 DEF CallAt
<1>5. CASE ~(at < 1)
  <2>0. at >= 1
    BY <1>5
  <2>1. IsCallable(x) /\ DataOf(x) # 1
    BY <1>2, <2>0
  <2>2. Enter([f EXCEPT !.stack = SubSeq(@, 1, at)], DataOf(f.stack[at]), SubSeq(f.stack, at + 1, last),
              [by |-> "native", base |-> at - 1, keeps |-> at, wanted |-> wanted,
               below |-> SubSeq(f.stack, 1, at - 1)])
    BY <1>2, <1>5, <2>1 DEF CallAt
  <2>3. Enter(caller, DataOf(x), args, call)
    BY <1>2, <1>3, <2>2
  <2>4. PICK fn : fn = DataOf(x)
    OBVIOUS
  <2>5. fn # 1 /\ Enter(caller, fn, args, call)
    BY <2>1, <2>3, <2>4
  <2> QED BY <2>5, EnterSurvives
<1> QED BY <1>4, <1>5

(* lua_call from a native function, told the true count.                     *)
LEMMA NativeCallSurvives ==
  ASSUME IInv, SurvivalInv, program.sound, NativeCall
  PROVE  SurvivalInv'
<1>1. Native /\ ClosuresKept
  BY KeptOrMade DEF NativeCall, May, heap
<1>2. PICK nargs \in program.counts, wanted \in program.counts :
        TrueCount(Stack(Co), nargs) /\ LuaCall(Top, nargs, wanted)
  BY DEF NativeCall
<1>3. PICK s : s = Top.stack /\ s = Stack(Co) /\ IsStack(s, Callees, DOMAIN tables) /\ Len(s) \in Nat
  BY CoFacts, StackOf DEF Top, Stack
<1>4. PICK at : at = Len(s) - nargs
  OBVIOUS
<1>5. /\ nargs \in Int /\ 0 <= nargs /\ nargs < Len(s) /\ IsCallable(s[at])
  BY <1>2, <1>3, <1>4, ProgramFacts DEF TrueCount
<1>6. at \in Int /\ at \in 1..Len(s)
  BY <1>3, <1>4, <1>5
<1>7. Good(s[at], Callees, DOMAIN tables)
  BY <1>3, <1>6, StackFacts
<1>8. IsCallable(Top.stack[at]) /\ DataOf(Top.stack[at]) # 1
  BY <1>3, <1>5, <1>7 DEF Good, IsCallable, Callees
<1>9. CASE Raise(Message("invalid count"))
  BY <1>1, <1>9, RaiseSurvives, MessagesPresent
<1>10. CASE CallAt(Top, at, Len(Top.stack), wanted)
  BY <1>1, <1>6, <1>8, <1>10, CallAtSurvives
<1> QED BY <1>2, <1>3, <1>4, <1>9, <1>10 DEF LuaCall

(* A native function returns.                                                *)
LEMMA NativeReturnSurvives ==
  ASSUME IInv, SurvivalInv, NativeReturn
  PROVE  SurvivalInv'
<1>1. closures[Top.fn].kind = "native" /\ ClosuresKept
  BY KeptOrMade DEF NativeReturn, heap
<1>2. closures[Top.fn].kind # "trampoline"
  BY <1>1
<1>3. Top.fn # 1 /\ ~Pending(Co) /\ Top.fn \in Callees
  BY <1>2, ClosureKinds
<1>4. PICK n : SetTop([Top EXCEPT !.rets = n])
  BY DEF NativeReturn
<1>5. PICK t : t = Top /\ {"fn", "rets"} \subseteq DOMAIN t
  BY CoFacts, FrameHas
<1>6. PICK f : f = [t EXCEPT !.rets = n]
  OBVIOUS
<1>7. f.fn = Top.fn /\ SetTop(f)
  <2>1. f.fn = t.fn
    BY <1>5, <1>6
  <2> QED BY <1>4, <1>5, <1>6, <2>1
<1>8. closures'[f.fn] = closures[Top.fn]
  <2>1. PICK k : k = Top.fn
    OBVIOUS
  <2>2. k \in DOMAIN closures
    BY <1>3, <2>1 DEF Callees
  <2>3. closures'[k] = closures[k]
    BY <1>1, <2>2 DEF ClosuresKept
  <2> QED BY <1>7, <2>1, <2>3
<1>9. Settled(f, closures')
  BY <1>1, <1>8 DEF Settled
<1> QED BY <1>1, <1>3, <1>7, <1>9, SetTopSurvives

(* The trampoline was told the true count: it calls the function below the   *)
(* arguments.                                                                *)
LEMMA TrampolineSurvives ==
  ASSUME IInv, SurvivalInv, Trampoline
  PROVE  SurvivalInv'
<1>1. Top.fn = 1 /\ Top.pc \in Nat /\ ClosuresKept
  BY KeptOrMade, ClosureKinds DEF Trampoline, heap
<1>2. PICK t : t = Top /\ IsFrame(t, Callees, DOMAIN tables) /\ {"fn", "pc", "rets", "stack"} \subseteq DOMAIN t
  BY CoFacts, FrameHas
<1>3. CASE Top.pc > 0
  <2>1. PICK f : f = [t EXCEPT !.rets = 0]
    OBVIOUS
  <2>2. SetTop(f)
    BY <1>2, <1>3, <2>1 DEF Trampoline
  <2>3. f.fn = 1 /\ f.pc = t.pc
    <3>1. f.fn = t.fn /\ f.pc = t.pc
      BY <1>2, <2>1
    <3> QED BY <1>1, <1>2, <3>1
  <2>4. ~Pending(Co)
    BY <1>1, <1>3, ClosureKinds
  <2>5. closures'[1] = closures[1] /\ closures[1].kind = "trampoline"
    BY <1>1 DEF ClosuresKept, IInv, HeapInv
  <2>6. Settled(f, closures')
    BY <2>3, <2>5 DEF Settled
  <2>7. ~(f.fn = 1 /\ f.pc = 0)
    BY <1>1, <1>2, <1>3, <2>3
  <2> QED BY <1>1, <2>2, <2>4, <2>6, <2>7, SetTopSurvives
<1>4. CASE ~(Top.pc > 0)
  <2>1. Top.pc = 0
    BY <1>1, <1>4
  <2>2. status[Co] = "running" /\ Pending(Co) /\ Co \in Coroutines
    BY <1>1, <2>1, CoFacts, ClosureKinds
  <2>3. PICK s : s = t.stack /\ s = Stack(Co) /\ s = Top.stack
    BY <1>2 DEF Stack, Top
  <2>4. Len(s) >= 3 /\ IsCallable(s[1]) /\ s[Len(s)] = Long(Len(s) - 3)
    BY <2>2, <2>3 DEF SurvivalInv, AllTold, Told
  <2>5. IsStack(s, Callees, DOMAIN tables) /\ Len(s) \in Nat /\ IsSeq(s)
    BY <1>2, <2>3, FrameFacts, StackFacts
  <2>6. s # <<>> /\ Last(s) = s[Len(s)] /\ Good(s[1], Callees, DOMAIN tables)
    <3>1. s # <<>> /\ 1 \in 1..Len(s)
      BY <2>4, <2>5, StackFacts
    <3> QED BY <2>5, <3>1, StackEnds, StackFacts
  <2>7. PICK k \in Int : k = Len(s) - 3
    BY <2>5
  <2>8. ToNumberX(Last(s)).num = k
    <3>1. PICK v : v = Last(s)
      OBVIOUS
    <3>2. v = Long(k)
      BY <2>4, <2>6, <2>7, <3>1
    <3>3. TypeOf(v) = "long" /\ DataOf(v) = k
      BY <3>2 DEF Long, TypeOf, DataOf
    <3>4. Good(v, Callees, DOMAIN tables)
      BY <2>5, <2>6, <3>1, StackEnds
    <3>5. DataOf(v) \in Longs
      BY <3>3, <3>4 DEF Good
    <3>6. Len(s) <= StackSize /\ StackSize <= MaxExact + 3 /\ StackSize \in Nat /\ MaxExact \in Nat
      BY <1>2, <2>3, FrameFacts, LimitFacts, ApiAssumption, DoubleAssumption
    <3>7. Abs(k) <= MaxExact
      BY <2>4, <2>5, <2>7, <3>6 DEF Abs
    <3> QED BY <3>1, <3>3, <3>5, <3>7, LongNumber
  <2>9. PICK m \in Nat : m = Len(s) - 2
    BY <2>4, <2>5
  <2>10. PICK u : u = SubSeq(s, 1, m)
    OBVIOUS
  <2>11. Len(u) = m /\ u[1] = s[1] /\ m >= 1
    <3>1. m <= Len(s) /\ m >= 1 /\ 1 \in 1..m
      BY <2>4, <2>5, <2>9
    <3> QED BY <2>5, <2>10, <3>1, SeqPrefix
  <2>12. PICK f : f = [t EXCEPT !.stack = u]
    OBVIOUS
  <2>13. f.stack = u
    BY <1>2, <2>12
  <2>14. CASE \E msg : Raise(Message(msg))
    BY <1>1, <2>14, RaiseSurvives, MessagesPresent
  <2>15. CASE LuaCall(f, k, All)
    <3>1. PICK at \in Int : at = Len(f.stack) - k
      BY <2>7, <2>9, <2>11, <2>13
    <3>2. at = 1
      BY <2>5, <2>7, <2>9, <2>11, <2>13, <3>1
    <3>3. IsCallable(f.stack[at]) /\ DataOf(f.stack[at]) # 1
      BY <2>4, <2>6, <2>11, <2>13, <3>2 DEF Good, IsCallable, Callees
    <3>4. CASE Raise(Message("invalid count"))
      BY <1>1, <3>4, RaiseSurvives, MessagesPresent
    <3>5. CASE CallAt(f, at, Len(f.stack), All)
      BY <1>1, <3>3, <3>5, CallAtSurvives
    <3> QED BY <2>15, <3>1, <3>4, <3>5 DEF LuaCall
  <2>16. PICK s1, f1 :
           /\ s1 = Top.stack /\ f1 = [Top EXCEPT !.stack = SubSeq(s1, 1, Len(s1) - 2)]
           /\ \/ \E msg : Raise(Message(msg))
              \/ LuaCall(f1, ToNumberX(Last(s1)).num, All)
    BY <1>4 DEF Trampoline
  <2>17. s1 = s /\ f1 = f
    BY <1>2, <2>3, <2>9, <2>10, <2>12, <2>16
  <2>18. (\E msg : Raise(Message(msg))) \/ LuaCall(f, k, All)
    BY <2>8, <2>16, <2>17
  <2> QED BY <2>14, <2>15, <2>18
<1> QED BY <1>3, <1>4

-----------------------------------------------------------------------------
(* The API calls on coroutines.                                             *)

(* A waiting trampoline that is none of those there are: only the new one.   *)
LEMMA OnlyNewWaits ==
  ASSUME IInv, Native, NEW c \in Coroutines, Pending(c)' => Told(Stack(c)'),
         \A d \in Coroutines : (d # c /\ status'[d] = "running" /\ Pending(d)') => status[d] = "running" /\ Pending(d)
  PROVE  AllTold'
<1>1. \A d \in Coroutines : status[d] = "running" => ~Pending(d)
  BY NotPending
<1> QED BY <1>1 DEF AllTold

(* lua_newthread: the new coroutine is suspended in its trampoline.          *)
LEMMA NewThreadSurvives ==
  ASSUME IInv, SurvivalInv, NewThread
  PROVE  SurvivalInv'
<1>1. Native /\ ClosuresKept
  BY KeptOrMade DEF NewThread, May, heap
<1>2. CASE Raise(Overflow) \/ Lose("out_of_memory") \/ Lose("caller_popped")
  BY <1>1, <1>2, RaiseSurvives, MessagesPresent, LoseSurvives DEF Tolerated
<1>3. CASE \E L \in Reach : \E c \in Coroutines :
             /\ status[c] = "none"
             /\ status' = [status EXCEPT ![c] = "suspended"]
             /\ frames' = [WithStack(Counted, L, Append(Stack(L), Coroutine(c)))
                             EXCEPT ![c] = <<NewFrame(1, <<>>, Body)>>]
             /\ fault' = fault
  <2>1. PICK L \in Reach, c \in Coroutines :
             /\ status[c] = "none"
             /\ status' = [status EXCEPT ![c] = "suspended"]
             /\ frames' = [WithStack(Counted, L, Append(Stack(L), Coroutine(c)))
                             EXCEPT ![c] = <<NewFrame(1, <<>>, Body)>>]
             /\ fault' = fault
    BY <1>3
  <2>2. PICK fs : fs = Counted /\ Whole(fs) /\ \A d \in Coroutines : frames[d] # <<>> => fs[d] # <<>>
    BY CountedWhole
  <2>3. L \in Coroutines /\ fs[L] # <<>>
    BY <2>2, ReachFacts
  <2>4. PICK s : s = Append(Stack(L), Coroutine(c))
    OBVIOUS
  <2>5. PICK mid : mid = WithStack(fs, L, s)
    OBVIOUS
  <2>6. Whole(mid) /\ SameTops(fs, mid)
    BY <2>2, <2>3, <2>5, WithStackTops
  <2>7. SameTops(frames, mid)
    BY <2>2, <2>6, CountedTops, TopsTwice
  <2>8. PICK g : g = NewFrame(1, <<>>, Body)
    OBVIOUS
  <2>9. frames' = [mid EXCEPT ![c] = <<g>>]
    BY <2>1, <2>2, <2>4, <2>5, <2>8
  <2>10. frames'[c] = <<g>> /\ \A d \in Coroutines : d # c => frames'[d] = mid[d]
    BY <2>6, <2>9 DEF Whole
  <2>11. /\ TopsSettled(mid, closures')
         /\ \A d \in Coroutines : (mid[d] # <<>> /\ Last(mid[d]).fn = 1 /\ Last(mid[d]).pc = 0) => Pending(d)
    BY <1>1, <2>7, TopsSettledStill
  <2>12. Last(<<g>>) = g /\ g.pc = 0
    BY <2>8 DEF Last, NewFrame
  <2>13. TopsSettled(frames', closures')
    BY <2>10, <2>11, <2>12 DEF TopsSettled, Settled
  <2>14. status'[c] = "suspended" /\ \A d \in Coroutines : d # c => status'[d] = status[d]
    BY <2>1 DEF IInv, FlowInv
  <2>15. AllTold'
    <3>1. ASSUME NEW d \in Coroutines, status'[d] = "running", Pending(d)'
          PROVE  FALSE
      <4>1. d # c /\ status[d] = "running" /\ frames'[d] = mid[d]
        BY <2>10, <2>14, <3>1
      <4>2. Pending(d)
        BY <2>11, <3>1, <4>1 DEF Pending
      <4> QED BY <1>1, <4>1, <4>2, NotPending
    <3> QED BY <3>1 DEF AllTold
  <2> QED BY <2>1, <2>13, <2>15 DEF SurvivalInv
<1> QED BY <1>2, <1>3 DEF NewThread

(* The last two values on a stack are what was put there.                    *)
LEMMA TwoMore ==
  ASSUME NEW s, IsSeq(s), NEW two, IsSeq(two), Len(two) = 2, NEW n \in Int, Len(s) = n + 1,
         0 <= n, IsCallable(s[1]), two[2] = Long(n)
  PROVE  Told(s \o two)
<1>1. PICK w : w = s \o two
  OBVIOUS
<1>2. Len(s \o two) = Len(s) + Len(two)
  BY SeqConcat
<1>3. Len(w) = n + 3
  BY <1>1, <1>2
<1>4. \A i \in 1..Len(s) : (s \o two)[i] = s[i]
  BY SeqConcat
<1>5. 1 \in 1..Len(s)
  OBVIOUS
<1>6. w[1] = s[1]
  BY ONLY <1>1, <1>4, <1>5
<1>7. \A i \in 1..Len(two) : (s \o two)[Len(s) + i] = two[i]
  BY ONLY IsSeq(s), IsSeq(two), SeqConcat
<1>8. 2 \in 1..Len(two)
  OBVIOUS
<1>9. w[Len(s) + 2] = two[2]
  BY ONLY <1>1, <1>7, <1>8
<1>10. w[Len(w)] = Long(Len(w) - 3)
  <2>1. Len(s) + 2 = Len(w) /\ Len(w) - 3 = n
    BY <1>3
  <2> QED BY <1>9, <2>1
<1> QED BY <1>1, <1>3, <1>6, <1>10 DEF Told

(* lua_resume that goes through, told the true number of arguments.          *)
LEMMA ResumedSurvives ==
  ASSUME IInv, SurvivalInv, ClosuresKept, Native, NEW c \in Coroutines, frames[c] # <<>>,
         NEW v, NEW n \in Int,
         Last(frames[c]).fn = 1 => Len(Stack(c)) = n + 1 /\ TrueCount(Stack(c), n),
         Resumed(WithStack(Counted, c, Stack(c) \o <<v, Long(n)>>), c)
  PROVE  SurvivalInv'
<1>1. PICK two : two = <<v, Long(n)>>
  OBVIOUS
<1>2. IsSeq(two) /\ Len(two) = 2 /\ two[2] = Long(n)
  BY <1>1 DEF IsSeq
<1>3. PICK s : s = Stack(c) \o two
  OBVIOUS
<1>4. PICK fs : fs = Counted /\ Whole(fs) /\ fs[c] # <<>>
  BY CountedWhole
<1>5. PICK gs : gs = WithStack(fs, c, s)
  OBVIOUS
<1>6. SameTops(fs, gs) /\ Last(gs[c]).stack = s
  BY <1>4, <1>5, WithStackTops
<1>7. SameTops(frames, gs)
  BY <1>4, <1>6, CountedTops, TopsTwice
<1>8. frames' = gs /\ fault' = fault
  BY <1>1, <1>3, <1>4, <1>5 DEF Resumed
<1>9. CASE status' = status
  BY <1>7, <1>8, <1>9, StillSurvives
<1>10. CASE status' = [status EXCEPT ![c] = "running"]
  <2>1. /\ TopsSettled(gs, closures')
        /\ \A d \in Coroutines : (gs[d] # <<>> /\ Last(gs[d]).fn = 1 /\ Last(gs[d]).pc = 0) => Pending(d)
    BY <1>7, TopsSettledStill
  <2>2. \A d \in Coroutines : Pending(d)' => Pending(d)
    BY <1>8, <2>1 DEF Pending
  <2>3. \A d \in Coroutines : d # c => status'[d] = status[d]
    BY <1>10 DEF IInv, FlowInv
  <2>4. ASSUME Pending(c)' PROVE Told(Stack(c)')
    <3>1. Last(frames[c]).fn = 1
      BY <2>2, <2>4 DEF Pending
    <3>2. PICK u : u = Stack(c) /\ IsSeq(u)
      BY StackOf DEF IsStack
    <3>3. Len(u) = n + 1 /\ 0 <= n /\ IsCallable(u[Len(u) - n])
      BY <3>1, <3>2 DEF TrueCount
    <3>4. IsCallable(u[1])
      <4>1. Len(u) - n = 1
        BY <3>3
      <4> QED BY <3>3, <4>1
    <3>5. Told(s)
      BY <1>2, <1>3, <3>2, <3>3, <3>4, TwoMore
    <3>6. Stack(c)' = s
      BY <1>6, <1>8 DEF Stack
    <3> QED BY <3>5, <3>6
  <2>5. AllTold'
    BY <2>2, <2>3, <2>4, OnlyNewWaits
  <2> QED BY <1>8, <2>1, <2>5 DEF SurvivalInv
<1> QED BY <1>9, <1>10 DEF Resumed

(* lua_resume, also where it is refused.                                     *)
LEMMA ResumeSurvives ==
  ASSUME IInv, SurvivalInv, program.sound, Resume
  PROVE  SurvivalInv'
<1>1. Native /\ ClosuresKept
  BY KeptOrMade DEF Resume, May, heap
<1>2. CASE Raise(Overflow)
  BY <1>1, <1>2, RaiseSurvives, MessagesPresent
<1>3. CASE Lose("out_of_memory")
  BY <1>1, <1>3, LoseSurvives DEF Tolerated
<1>4. CASE \E c \in Others \cup {Co}, n \in program.counts, v \in {out.val : out \in NewLight(0, 0)} :
             /\ frames[c] # <<>>
             /\ Last(frames[c]).fn = 1 => Len(Stack(c)) = n + 1 /\ TrueCount(Stack(c), n)
             /\ Resumed(WithStack(Counted, c, Stack(c) \o <<v, Long(n)>>), c)
  <2>1. PICK c \in Others \cup {Co}, n \in program.counts, v \in {out.val : out \in NewLight(0, 0)} :
             /\ frames[c] # <<>>
             /\ Last(frames[c]).fn = 1 => Len(Stack(c)) = n + 1 /\ TrueCount(Stack(c), n)
             /\ Resumed(WithStack(Counted, c, Stack(c) \o <<v, Long(n)>>), c)
    BY <1>4
  <2>2. c \in Coroutines /\ n \in Int
    BY CoFacts, ProgramFacts DEF Others
  <2> QED BY <1>1, <2>1, <2>2, ResumedSurvives
<1> QED BY <1>2, <1>3, <1>4 DEF Resume

(* lua_yield.                                                                *)
LEMMA YieldSurvives ==
  ASSUME IInv, SurvivalInv, Yield
  PROVE  SurvivalInv'
<1>1. Native /\ ClosuresKept
  BY KeptOrMade DEF Yield, May, heap
<1>2. /\ frames' = Counted /\ fault' = fault
      /\ status' = status \/ status' = [status EXCEPT ![Co] = "suspended"]
  BY DEF Yield, Leave, flow
<1>3. \A c \in Coroutines : status'[c] = "running" => status[c] = "running"
  BY <1>2 DEF IInv, FlowInv
<1>4. SameTops(frames, frames')
  BY <1>2, CountedTops
<1> QED BY <1>1, <1>2, <1>3, <1>4, StillSurvives

(* lua_xmove: the coroutine it takes from is none that finished.             *)
LEMMA XMoveSurvives ==
  ASSUME IInv, SurvivalInv, program.sound, XMove
  PROVE  SurvivalInv'
<1>1. Native /\ ClosuresKept
  BY KeptOrMade DEF XMove, May, heap
<1>2. PICK L \in Others \cup {Co}, to \in Others :
        \/ \E m : Raise(Message(m))
        \/ Apply(Co, Ok(Stack(Co)))
        \/ Raise(Overflow)
        \/ Raise(Underflow)
        \/ /\ status[to] = "suspended" /\ frames[L] # <<>>
           /\ \E s, u : frames' = WithStack(WithStack(Counted, to, s), L, u)
           /\ fault' = fault /\ status' = status
  <2>1. PICK L \in Others \cup {Co}, to \in Others, n \in program.counts :
       IF n < 0 THEN Raise(Message("expected positive n"))
       ELSE IF status[to] # "suspended" THEN Raise(Message("xmove on running or dead coroutine"))
       ELSE IF n = 0 THEN Apply(Co, Ok(Stack(Co)))
       ELSE IF ~Fits(Stack(to), 1) THEN Raise(Overflow)
       ELSE IF frames[L] = <<>> THEN ~program.sound /\ Lose("null_frame") /\ UNCHANGED errmsg
       ELSE IF n > Len(Stack(L)) THEN Raise(Underflow)
       ELSE LET moved == SubSeq(Stack(L), Len(Stack(L)) - n + 1, Len(Stack(L)))
                all   == Stack(to) \o moved
                after == WithStack(Counted, to,
                           SubSeq(all, 1, IF Len(all) < StackSize THEN Len(all) ELSE StackSize))
                left  == Last(after[L]).stack
            IN  /\ frames' = WithStack(after, L, SubSeq(left, 1, Len(left) - n))
                /\ errmsg' = IF Len(all) > StackSize THEN Overflow ELSE errmsg
                /\ UNCHANGED <<program, flow, fault>>
    BY DEF XMove
  <2>2. CASE status[to] = "suspended" /\ frames[L] # <<>> /\ ~(n < 0) /\ n # 0
             /\ Fits(Stack(to), 1) /\ ~(n > Len(Stack(L)))
    <3>1. PICK moved, all : /\ moved = SubSeq(Stack(L), Len(Stack(L)) - n + 1, Len(Stack(L)))
                            /\ all = Stack(to) \o moved
      OBVIOUS
    <3>2. PICK s : s = SubSeq(all, 1, IF Len(all) < StackSize THEN Len(all) ELSE StackSize)
      OBVIOUS
    <3>3. PICK left : left = Last(WithStack(Counted, to, s)[L]).stack
      OBVIOUS
    <3>4. PICK u : u = SubSeq(left, 1, Len(left) - n)
      OBVIOUS
    <3>5. frames' = WithStack(WithStack(Counted, to, s), L, u) /\ fault' = fault /\ UNCHANGED flow
      BY <2>1, <2>2, <3>1, <3>2, <3>3, <3>4
    <3> QED BY <2>2, <3>5 DEF flow
  <2>3. CASE ~(status[to] = "suspended" /\ frames[L] # <<>> /\ ~(n < 0) /\ n # 0
               /\ Fits(Stack(to), 1) /\ ~(n > Len(Stack(L))))
    BY <2>1, <2>3
  <2> QED BY <2>2, <2>3
<1>3. CASE (\E m : Raise(Message(m))) \/ Raise(Overflow) \/ Raise(Underflow)
  BY <1>1, <1>3, RaiseSurvives, MessagesPresent
<1>4. CASE Apply(Co, Ok(Stack(Co)))
  <2>1. Co \in Reach
    BY DEF Reach
  <2> QED BY <1>1, <1>4, <2>1, StackOpsSpeak, ApplySurvives
<1>5. CASE /\ status[to] = "suspended" /\ frames[L] # <<>>
           /\ \E s, u : frames' = WithStack(WithStack(Counted, to, s), L, u)
           /\ fault' = fault /\ status' = status
  <2>1. PICK s, u : frames' = WithStack(WithStack(Counted, to, s), L, u)
    BY <1>5
  <2>2. L \in Coroutines /\ to \in Coroutines
    BY CoFacts DEF Others
  <2>3. PICK fs : fs = Counted /\ Whole(fs) /\ \A d \in Coroutines : frames[d] # <<>> => fs[d] # <<>>
    BY CountedWhole
  <2>4. fs[to] # <<>> /\ fs[L] # <<>>
    BY <1>5, <2>2, <2>3 DEF IInv, FlowInv
  <2>5. PICK gs : gs = WithStack(fs, to, s)
    OBVIOUS
  <2>6. Whole(gs) /\ SameTops(fs, gs) /\ gs[L] # <<>>
    BY <2>2, <2>3, <2>4, <2>5, WithStackTops
  <2>7. PICK hs : hs = WithStack(gs, L, u)
    OBVIOUS
  <2>8. SameTops(gs, hs)
    BY <2>2, <2>6, <2>7, WithStackTops
  <2>9. frames' = hs
    BY <2>1, <2>3, <2>5, <2>7
  <2>10. SameTops(frames, hs)
    BY <2>3, <2>6, <2>8, CountedTops, TopsTwice
  <2> QED BY <1>1, <1>5, <2>9, <2>10, StillSurvives
<1> QED BY <1>2, <1>3, <1>4, <1>5

-----------------------------------------------------------------------------
(* No step changes the program.                                              *)
LEMMA ProgramStays ==
  ASSUME Next
  PROVE  program' = program
<1>1. /\ \A left, m : RaiseLeaving(left, m) => program' = program
      /\ \A m : Raise(m) => program' = program
  BY DEF Raise, RaiseLeaving, Lose, Leave
<1>2. \A how : Lose(how) => program' = program
  BY DEF Lose
<1>3. \A f : SetTop(f) => program' = program
  BY DEF SetTop
<1>4. \A f, r, v : SetRegister(f, r, v) => program' = program
  BY <1>2, <1>3 DEF SetRegister
<1>5. \A L, out : Apply(L, out) => program' = program
  BY <1>1, <1>2 DEF Apply
<1>6. \A caller, fn, args, call : Enter(caller, fn, args, call) => program' = program
  BY <1>1 DEF Enter
<1>7. \A f, at, last, wanted : CallAt(f, at, last, wanted) => program' = program
  BY <1>1, <1>2, <1>6 DEF CallAt
<1>8. \A f, n, wanted : LuaCall(f, n, wanted) => program' = program
  BY <1>1, <1>7 DEF LuaCall
<1>9. \A target, legal : Jump(target, legal) => program' = program
  BY <1>1, <1>3 DEF Jump
<1>10. \A how, err : Leave(how, err) => program' = program
  BY DEF Leave
<1>11. \A L, t, k : StoreTop(L, t, k) => program' = program
  BY <1>1, <1>2, <1>5 DEF StoreTop
<1>12. CASE Skip \/ Unreadable \/ Mov \/ Cmp \/ GetTop \/ TableSet \/ Nop \/ FallOff \/ Finish
  BY <1>2, <1>3, <1>4, <1>10, <1>12 DEF Skip, Unreadable, Mov, Cmp, GetTop, TableSet, Nop, FallOff, Finish
<1>13. CASE Arithmetic \/ GetConstant \/ LoadPrototype \/ StackPop \/ StackPush \/ TableGet \/ Illegal
  BY <1>1, <1>2, <1>3, <1>4, <1>13 DEF Arithmetic, GetConstant, LoadPrototype, StackPop, StackPush,
     TableGet, Illegal
<1>14. CASE JmpForward \/ JmpBackward \/ Return \/ Deliver
  BY <1>1, <1>2, <1>3, <1>9, <1>14 DEF JmpForward, JmpBackward, Return, Deliver
<1>15. CASE Call
  BY <1>1, <1>2, <1>6, <1>15 DEF Call
<1>16. CASE PushPlain \/ PushObject \/ PushCopy \/ PushThread \/ PushGlobals \/ Pop \/ Copy \/ LuaRemove
            \/ Replace \/ Rotate \/ ToLString \/ PushLength \/ Query \/ Error
  BY <1>1, <1>2, <1>5, <1>16 DEF PushPlain, PushObject, PushCopy, PushThread, PushGlobals, Pop, Copy,
     LuaRemove, Replace, Rotate, ToLString, PushLength, Query, Error
<1>17. CASE CreateTable \/ PushCFunction \/ SetField \/ SetGlobal
  BY <1>1, <1>2, <1>5, <1>11, <1>17 DEF CreateTable, PushCFunction, SetField, SetGlobal
<1>18. CASE NativeCall \/ NativeReturn \/ Trampoline
  BY <1>1, <1>3, <1>8, <1>18 DEF NativeCall, NativeReturn, Trampoline
<1>19. CASE NewThread \/ Yield \/ UseFinished
  BY <1>1, <1>2, <1>10, <1>19 DEF NewThread, Yield, UseFinished
<1>20. CASE Resume
  <2>1. \A pushed, c : Resumed(pushed, c) => program' = program
    BY DEF Resumed
  <2> QED BY <1>1, <1>2, <1>20, <2>1 DEF Resume
<1>21. CASE XMove
  <2>1. PICK L \in Others \cup {Co}, to \in Others, n \in program.counts :
       IF n < 0 THEN Raise(Message("expected positive n"))
       ELSE IF status[to] # "suspended" THEN Raise(Message("xmove on running or dead coroutine"))
       ELSE IF n = 0 THEN Apply(Co, Ok(Stack(Co)))
       ELSE IF ~Fits(Stack(to), 1) THEN Raise(Overflow)
       ELSE IF frames[L] = <<>> THEN ~program.sound /\ Lose("null_frame") /\ UNCHANGED errmsg
       ELSE IF n > Len(Stack(L)) THEN Raise(Underflow)
       ELSE LET moved == SubSeq(Stack(L), Len(Stack(L)) - n + 1, Len(Stack(L)))
                all   == Stack(to) \o moved
                after == WithStack(Counted, to,
                           SubSeq(all, 1, IF Len(all) < StackSize THEN Len(all) ELSE StackSize))
                left  == Last(after[L]).stack
            IN  /\ frames' = WithStack(after, L, SubSeq(left, 1, Len(left) - n))
                /\ errmsg' = IF Len(all) > StackSize THEN Overflow ELSE errmsg
                /\ UNCHANGED <<program, flow, fault>>
    BY <1>21 DEF XMove
  <2>2. CASE n < 0
    BY <1>1, <2>1, <2>2
  <2>3. CASE ~(n < 0) /\ status[to] # "suspended"
    BY <1>1, <2>1, <2>3
  <2>4. CASE ~(n < 0) /\ status[to] = "suspended" /\ n = 0
    BY <1>5, <2>1, <2>4
  <2>5. CASE ~(n < 0) /\ status[to] = "suspended" /\ n # 0 /\ ~Fits(Stack(to), 1)
    BY <1>1, <2>1, <2>5
  <2>6. CASE ~(n < 0) /\ status[to] = "suspended" /\ n # 0 /\ Fits(Stack(to), 1)
    <3>1. CASE frames[L] = <<>>
      BY <1>2, <2>1, <2>6, <3>1
    <3>2. CASE frames[L] # <<>> /\ n > Len(Stack(L))
      BY <1>1, <2>1, <2>6, <3>2
    <3>3. CASE frames[L] # <<>> /\ ~(n > Len(Stack(L)))
      BY <2>1, <2>6, <3>3
    <3> QED BY <3>1, <3>2, <3>3
  <2> QED BY <2>2, <2>3, <2>4, <2>5, <2>6
<1> QED BY <1>12, <1>13, <1>14, <1>15, <1>16, <1>17, <1>18, <1>19, <1>20, <1>21 DEF Next, Interpret

(* Every step of a sound program.                                            *)
LEMMA NextSurvives ==
  ASSUME IInv, SurvivalInv, program.sound, Next
  PROVE  SurvivalInv'
<1>1. ~UseFinished
  BY SoundFacts DEF UseFinished
<1> QED BY <1>1, InterpretSurvives, StackOpsSurvive, PopSurvives, PushGlobalsSurvives, ErrorSurvives, CreateTableSurvives,
           PushCFunctionSurvives, SetsSurvive, NativeCallSurvives, NativeReturnSurvives,
           TrampolineSurvives, NewThreadSurvives, ResumeSurvives, YieldSurvives, XMoveSurvives DEF Next

(* The programs start with nothing lost and every call at its beginning.     *)
LEMMA InitSurvives ==
  ASSUME Init
  PROVE  SurvivalInv
<1>1. fault = "none" /\ IInv
  BY InitInv DEF Init
<1>2. ASSUME NEW c \in Coroutines, frames[c] # <<>>
      PROVE  Last(frames[c]).pc = 0 /\ Last(frames[c]).fn # 1
  <2>1. frames[c] = <<NewFrame(2, <<>>, Body)>> \/ frames[c] = <<NewFrame(3, <<>>, Body)>>
    BY <1>2 DEF Init
  <2>2. PICK f2, f3 : f2 = NewFrame(2, <<>>, Body) /\ f3 = NewFrame(3, <<>>, Body)
    OBVIOUS
  <2>3. Last(<<f2>>) = f2 /\ Last(<<f3>>) = f3
    BY DEF Last
  <2>4. f2.pc = 0 /\ f2.fn = 2 /\ f3.pc = 0 /\ f3.fn = 3
    BY <2>2 DEF NewFrame
  <2> QED BY <2>1, <2>2, <2>3, <2>4
<1>3. TopsSettled(frames, closures)
  BY <1>2 DEF TopsSettled, Settled
<1>4. AllTold
  BY <1>2 DEF AllTold, Pending
<1> QED BY <1>1, <1>3, <1>4 DEF SurvivalInv, Tolerated

(* Nothing is lost by a step of anything else.                               *)
LEMMA StutterSurvives ==
  ASSUME SoundInv, UNCHANGED vars
  PROVE  SoundInv'
<1>1. /\ program' = program /\ frames' = frames /\ status' = status /\ closures' = closures
      /\ fault' = fault
  BY DEF vars, flow, heap
<1>2. SurvivalInv => SurvivalInv'
  BY <1>1 DEF SurvivalInv, TopsSettled, AllTold, Pending, Stack
<1> QED BY <1>1, <1>2 DEF SoundInv

(* A program whose bytecode names registers and prototypes it has, does not  *)
(* divide and begins with an unconditional instruction, and whose native      *)
(* functions work on their own stacks, give true counts and use no finished  *)
(* coroutine, loses the process only by an error nobody handles, for want of *)
(* memory, to two keys of one bucket, or by lua_newthread at the nesting     *)
(* limit: no assertion fails, nothing is called that is no function, no      *)
(* frame is read that is not there, on any other path through interpreter.c  *)
(* and lua54.c, for any such program and any sizes.                          *)
THEOREM SoundSurvives == Spec => []SoundProgramsSurvive
<1>1. Init => SoundInv
  BY InitSurvives DEF SoundInv
<1>2. IInv /\ SoundInv /\ [Next]_vars => SoundInv'
  <2> SUFFICES ASSUME IInv, SoundInv, Next PROVE SoundInv'
    BY StutterSurvives
  <2>1. program' = program
    BY ProgramStays
  <2>2. program.sound => SurvivalInv'
    BY NextSurvives DEF SoundInv
  <2> QED BY <2>1, <2>2 DEF SoundInv
<1>3. SoundInv => SoundProgramsSurvive
  BY DEF SoundInv, SurvivalInv, Tolerated, SoundProgramsSurvive
<1> QED BY Inductive, <1>1, <1>2, <1>3, PTL DEF Spec

-----------------------------------------------------------------------------
(* Comparisons.                                                             *)

(* The order value_is_less finds.                                            *)
Below(a, b) ==
  IF TypeOf(a) = "long" /\ TypeOf(b) = "long" THEN DataOf(a) < DataOf(b)
  ELSE LET x == NumberOf(AsDouble(a))
           y == NumberOf(AsDouble(b))
       IN  IF Negative(a) /\ Negative(b) THEN y < x
           ELSE x < y \/ (Negative(a) /\ ~Negative(b))

(* The double of a number: its sign is the number's.                         *)
LEMMA DoubleParts ==
  ASSUME NEW K, NEW T, NEW v, Good(v, K, T), IsNumeric(v)
  PROVE  \E neg \in BOOLEAN, mag \in 0..LongMax :
           /\ AsDouble(v) = Double(neg, mag) /\ (TypeOf(v) = "double" => v = Double(neg, mag))
           /\ Negative(v) = neg
           /\ NumberOf(AsDouble(v)) = IF neg THEN -Magnitude(mag) ELSE Magnitude(mag)
<1>0. ASSUME NEW neg, NEW mag, AsDouble(v) = Double(neg, mag)
      PROVE  NumberOf(AsDouble(v)) = IF neg THEN -Magnitude(mag) ELSE Magnitude(mag)
  <2>1. PICK d : d = [neg |-> neg, mag |-> mag]
    OBVIOUS
  <2>2. NumberOf(AsDouble(v)) = Number(d)
    BY <1>0, <2>1 DEF NumberOf, Double, DataOf
  <2> QED BY <2>1, <2>2 DEF Number
<1>1. CASE TypeOf(v) = "long"
  <2>1. PICK n \in Int : n = DataOf(v) /\ n \in Longs
    BY <1>1, LongsFacts DEF Good
  <2>2. PICK neg \in BOOLEAN : neg = (n < 0)
    <3>1. (n < 0) \in BOOLEAN
      OBVIOUS
    <3> QED BY <3>1, Zenon
  <2>3. PICK mag \in 0..LongMax : mag = Nearest(Abs(n))
    BY <2>1, LongsFacts, DoubleAssumption
  <2>4. ToDouble(v) = Ok(Double(n < 0, Nearest(Abs(n))))
    BY <1>1, <2>1 DEF ToDouble
  <2>5. AsDouble(v) = Double(neg, mag)
    <3>1. AsDouble(v) = Double(n < 0, Nearest(Abs(n)))
      BY <2>4 DEF AsDouble, Ok
    <3> QED BY <2>2, <2>3, <3>1, Zenon
  <2>6. Negative(v) = neg
    BY <1>1, <2>1, <2>2 DEF Negative
  <2> QED BY <1>0, <1>1, <2>5, <2>6
<1>2. CASE TypeOf(v) = "double"
  <2>1. PICK neg \in BOOLEAN, mag \in 0..LongMax : DataOf(v) = [neg |-> neg, mag |-> mag]
    BY <1>2 DEF Good, Doubles
  <2>2. v = Double(neg, mag)
    BY <1>2, <2>1 DEF Good, Double
  <2>3. AsDouble(v) = v
    BY <1>2 DEF ToDouble, Ok, AsDouble
  <2>4. Negative(v) = neg
    BY <1>2, <2>1 DEF Negative
  <2> QED BY <1>0, <2>2, <2>3, <2>4
<1> QED BY <1>1, <1>2 DEF IsNumeric, NumericTypes

(* The bits of doubles, compared as longs.                                   *)
LEMMA BitsOrder ==
  ASSUME NEW na \in BOOLEAN, NEW ma \in 0..LongMax, NEW nb \in BOOLEAN, NEW mb \in 0..LongMax,
         NEW x, NEW y, x = IF na THEN -Magnitude(ma) ELSE Magnitude(ma),
         y = IF nb THEN -Magnitude(mb) ELSE Magnitude(mb)
  PROVE  Bits([neg |-> na, mag |-> ma]) < Bits([neg |-> nb, mag |-> mb])
         <=> IF na /\ nb THEN y < x ELSE x < y \/ (na /\ ~nb)
<1>1. PICK p \in Nat, q \in Nat : p = Magnitude(ma) /\ q = Magnitude(mb)
  BY DoubleAssumption
<1>2. p < q <=> ma < mb
  <2>1. ASSUME ma < mb PROVE p < q
    <3>1. ma \in 0..mb - 1
      BY <2>1, WidthAssumption
    <3> QED BY <1>1, <3>1, DoubleAssumption
  <2>2. ASSUME mb < ma PROVE q < p
    <3>1. mb \in 0..ma - 1
      BY <2>2, WidthAssumption
    <3> QED BY <1>1, <3>1, DoubleAssumption
  <2>3. ma = mb => p = q
    BY <1>1
  <2>4. ma \in Int /\ mb \in Int
    BY WidthAssumption
  <2> QED BY <1>1, <2>1, <2>2, <2>3, <2>4
<1>3. PICK k \in Nat : k = LongMax
  BY WidthAssumption
<1>4. ma \in 0..k /\ mb \in 0..k
  BY <1>3
<1>5. /\ Bits([neg |-> na, mag |-> ma]) = IF na THEN ma - (k + 1) ELSE ma
      /\ Bits([neg |-> nb, mag |-> mb]) = IF nb THEN mb - (k + 1) ELSE mb
  BY <1>3 DEF Bits
<1>6. x = (IF na THEN -p ELSE p) /\ y = (IF nb THEN -q ELSE q)
  BY <1>1
<1>7. CASE na /\ nb
  BY <1>2, <1>4, <1>5, <1>6, <1>7
<1>8. CASE na /\ ~nb
  BY <1>2, <1>4, <1>5, <1>6, <1>8
<1>9. CASE ~na /\ nb
  BY <1>2, <1>4, <1>5, <1>6, <1>9
<1>10. CASE ~na /\ ~nb
  BY <1>2, <1>4, <1>5, <1>6, <1>10
<1> QED BY <1>7, <1>8, <1>9, <1>10

(* value_is_less on numbers.                                                 *)
LEMMA LessIsBelow ==
  ASSUME NEW K, NEW T, NEW a, Good(a, K, T), NEW b, Good(b, K, T), IsNumeric(a), IsNumeric(b)
  PROVE  IsLess(a, b).val = Bool(TRUE) <=> Below(a, b)
<1>0. \A x, y \in Int : Ok(Bool(x < y)).val = Bool(TRUE) <=> x < y
  BY DEF Ok, Bool
<1>1. CASE TypeOf(a) = "long" /\ TypeOf(b) = "long"
  <2>1. Coerce(a, b) = <<a, b>>
    BY <1>1 DEF Coerce
  <2>2. IsLess(a, b) = Ok(Bool(DataOf(a) < DataOf(b)))
    BY <1>1, <2>1 DEF IsLess
  <2>3. DataOf(a) \in Int /\ DataOf(b) \in Int
    BY <1>1, LongsFacts DEF Good
  <2> QED BY <1>0, <1>1, <2>2, <2>3 DEF Below
<1>2. CASE ~(TypeOf(a) = "long" /\ TypeOf(b) = "long")
  <2>1. PICK na \in BOOLEAN, ma \in 0..LongMax :
          /\ AsDouble(a) = Double(na, ma) /\ (TypeOf(a) = "double" => a = Double(na, ma))
          /\ Negative(a) = na
          /\ NumberOf(AsDouble(a)) = IF na THEN -Magnitude(ma) ELSE Magnitude(ma)
    BY DoubleParts
  <2>2. PICK nb \in BOOLEAN, mb \in 0..LongMax :
          /\ AsDouble(b) = Double(nb, mb) /\ (TypeOf(b) = "double" => b = Double(nb, mb))
          /\ Negative(b) = nb
          /\ NumberOf(AsDouble(b)) = IF nb THEN -Magnitude(mb) ELSE Magnitude(mb)
    BY DoubleParts
  <2>3. Coerce(a, b) = <<Double(na, ma), Double(nb, mb)>>
    BY <1>2, <2>1, <2>2 DEF Coerce, IsNumeric, NumericTypes, AsDouble
  <2>4. PICK c : c = Coerce(a, b)
    OBVIOUS
  <2>5. /\ TypeOf(c[1]) # "long"
        /\ DataOf(c[1]) = [neg |-> na, mag |-> ma] /\ DataOf(c[2]) = [neg |-> nb, mag |-> mb]
    BY <2>3, <2>4 DEF Double, TypeOf, DataOf
  <2>6. IsLess(a, b) = Ok(Bool(Bits(DataOf(c[1])) < Bits(DataOf(c[2]))))
    BY <2>4, <2>5 DEF IsLess
  <2>7. Bits([neg |-> na, mag |-> ma]) \in Int /\ Bits([neg |-> nb, mag |-> mb]) \in Int
    BY WidthAssumption DEF Bits
  <2>8. IsLess(a, b).val = Bool(TRUE) <=> Bits([neg |-> na, mag |-> ma]) < Bits([neg |-> nb, mag |-> mb])
    BY <1>0, <2>5, <2>6, <2>7
  <2>9. PICK x, y : /\ x = NumberOf(AsDouble(a)) /\ y = NumberOf(AsDouble(b))
    OBVIOUS
  <2>10. Bits([neg |-> na, mag |-> ma]) < Bits([neg |-> nb, mag |-> mb])
             <=> IF na /\ nb THEN y < x ELSE x < y \/ (na /\ ~nb)
    BY <2>1, <2>2, <2>9, BitsOrder
  <2>11. Below(a, b) <=> IF na /\ nb THEN y < x ELSE x < y \/ (na /\ ~nb)
    <3>1. Below(a, b) <=> IF Negative(a) /\ Negative(b) THEN y < x
                          ELSE x < y \/ (Negative(a) /\ ~Negative(b))
      BY <1>2, <2>9 DEF Below
    <3> QED BY <2>1, <2>2, <3>1
  <2> QED BY <2>8, <2>10, <2>11
<1> QED BY <1>1, <1>2

(* What is no number is not below anything.                                  *)
LEMMA NoOrder ==
  ASSUME NEW a, NEW b, ~IsNumeric(a) \/ ~IsNumeric(b)
  PROVE  IsLess(a, b).val # Bool(TRUE)
<1>1. IsLess(a, b) = Fail(BadOperands(a, b))
  BY DEF IsLess
<1> QED BY <1>1 DEF Fail, Absent, Bool

(* Of all actions, only Cmp executes CMP.                                    *)
LEMMA OnlyCmp ==
  ASSUME IInv, At("cmp"), Next
  PROVE  Cmp
<1>1. /\ InCode /\ ~Skips /\ Ins.op = "cmp" /\ Inputs \subseteq Readable
      /\ closures[Top.fn].kind = "bytecode" /\ Top.rets = -1 /\ Top.pc < Len(Proto(Top).code)
  BY DEF At, InCode, Bytecode, Running
<1>2. ~Native /\ \A op : ~May(op)
  BY <1>1 DEF Native, May
<1>3. ~(PushPlain \/ PushObject \/ PushCopy \/ PushThread \/ PushGlobals \/ Pop \/ Copy
        \/ LuaRemove \/ Replace \/ Rotate \/ ToLString \/ PushLength \/ Query \/ Error)
  BY <1>2 DEF PushPlain, PushObject, PushCopy, PushThread, PushGlobals, Pop, Copy,
       LuaRemove, Replace, Rotate, ToLString, PushLength, Query, Error
<1>4. ~(CreateTable \/ PushCFunction \/ SetField \/ SetGlobal \/ NativeCall \/ NativeReturn \/ Trampoline)
  BY <1>1, <1>2 DEF CreateTable, PushCFunction, SetField, SetGlobal, NativeCall, NativeReturn, Trampoline
<1>5. ~(NewThread \/ Resume \/ Yield \/ XMove \/ UseFinished)
  BY <1>2 DEF NewThread, Resume, Yield, XMove, UseFinished
<1>6. Interpret
  BY <1>3, <1>4, <1>5 DEF Next
<1>7. ~(Skip \/ Unreadable \/ FallOff \/ Deliver \/ Finish)
  <2>1. Top.pc \in Nat /\ Len(Proto(Top).code) \in Nat
    BY AtFacts, BytecodeFacts, CoFacts, FrameFacts
  <2> QED BY <1>1, <2>1 DEF Skip, Unreadable, FallOff, Deliver, Finish, Returned
<1>8. \A op : At(op) => op = "cmp"
  BY <1>1 DEF At
<1>9. ~(Mov \/ Arithmetic \/ JmpForward \/ JmpBackward \/ GetConstant \/ LoadPrototype \/ GetTop)
  BY <1>8 DEF Mov, Arithmetic, JmpForward, JmpBackward, GetConstant, LoadPrototype, GetTop
<1>10. ~(StackPop \/ StackPush \/ TableGet \/ TableSet \/ Nop \/ Illegal \/ Call \/ Return)
  BY <1>8 DEF StackPop, StackPush, TableGet, TableSet, Nop, Illegal, Call, Return
<1> QED BY <1>6, <1>7, <1>9, <1>10 DEF Interpret

(* The flags after CMP.                                                      *)
LEMMA CmpFlags ==
  ASSUME IInv, Cmp
  PROVE  Last(frames'[Co]).flags = Flag("equal", Equals(Register(Top, Ins.A), Register(Top, Ins.B)))
           \cup Flag("less", IsLess(Register(Top, Ins.A), Register(Top, Ins.B)).val = Bool(TRUE))
<1>1. IsFrame(Top, Callees, DOMAIN tables)
  BY AtFacts DEF Cmp
<1>2. PICK flags : flags = Flag("equal", Equals(Register(Top, Ins.A), Register(Top, Ins.B)))
           \cup Flag("less", IsLess(Register(Top, Ins.A), Register(Top, Ins.B)).val = Bool(TRUE))
  OBVIOUS
<1>3. PICK g : g = [Next1(Top) EXCEPT !.flags = flags]
  OBVIOUS
<1>4. g.flags = flags
  BY <1>1, <1>3 DEF IsFrame, Next1
<1>5. SetTop(g)
  BY <1>2, <1>3 DEF Cmp
<1>6. frames' = ThatTopIs(frames, Co, g)
  BY <1>5 DEF SetTop, ThatTopIs
<1>7. /\ Co \in Coroutines /\ frames[Co] # <<>> /\ IsSeq(frames[Co])
      /\ frames = [c \in Coroutines |-> frames[c]]
  BY CoFacts DEF IInv, FramesInv, IsCallStack
<1>8. Last(frames'[Co]) = g
  BY <1>6, <1>7, TopSet
<1> QED BY <1>2, <1>4, <1>8

(* The body of ComparisonsAreTrue, of one step.                              *)
ComparisonTrue ==
  (At("cmp") /\ fault' = "none") =>
     LET a == Register(Top, Ins.A)
         b == Register(Top, Ins.B)
         flags == Last(frames'[Co]).flags
     IN  /\ "equal" \in flags <=> (TypeOf(a) = TypeOf(b) /\ Equals(a, b))
         /\ (IsNumeric(a) /\ IsNumeric(b)) =>
              ("less" \in flags <=>
                 IF TypeOf(a) = "long" /\ TypeOf(b) = "long" THEN DataOf(a) < DataOf(b)
                 ELSE LET x == NumberOf(AsDouble(a))
                          y == NumberOf(AsDouble(b))
                      IN  IF Negative(a) /\ Negative(b) THEN y < x
                          ELSE x < y \/ (Negative(a) /\ ~Negative(b)))
         /\ (~IsNumeric(a) \/ ~IsNumeric(b)) => "less" \notin flags

(* One step of the interpreter keeps the promise of CMP.                     *)
LEMMA ComparisonStep ==
  ASSUME IInv, Next
  PROVE  ComparisonTrue
<1> SUFFICES ASSUME At("cmp") PROVE ComparisonTrue
  BY DEF ComparisonTrue
<1>1. Cmp
  BY OnlyCmp
<1>2. Bytecode
  BY AtFacts
<1>3. PICK a, b : /\ a = Register(Top, Ins.A) /\ b = Register(Top, Ins.B)
                  /\ Good(a, Callees, DOMAIN tables) /\ Good(b, Callees, DOMAIN tables)
  BY <1>2, RegisterGood
<1>4. PICK flags : flags = Last(frames'[Co]).flags
  OBVIOUS
<1>5. flags = Flag("equal", Equals(a, b)) \cup Flag("less", IsLess(a, b).val = Bool(TRUE))
  BY <1>1, <1>3, <1>4, CmpFlags
<1>6. "equal" \in flags <=> Equals(a, b)
  BY <1>5 DEF Flag
<1>7. "less" \in flags <=> IsLess(a, b).val = Bool(TRUE)
  BY <1>5 DEF Flag
<1>8. Equals(a, b) <=> TypeOf(a) = TypeOf(b) /\ Equals(a, b)
  BY DEF Equals
<1>9. (~IsNumeric(a) \/ ~IsNumeric(b)) => "less" \notin flags
  BY <1>7, NoOrder
<1>10. (IsNumeric(a) /\ IsNumeric(b)) => ("less" \in flags <=> Below(a, b))
  BY <1>3, <1>7, LessIsBelow
<1> QED BY ONLY <1>3, <1>4, <1>6, <1>8, <1>9, <1>10 DEF ComparisonTrue, Below

(* After CMP the flags tell equality as value_equals does and order as       *)
(* numbers have it, two longs as they are and all other numbers as the       *)
(* doubles they are converted to, with the reversal of two negative ones     *)
(* that value_is_less has; what is no number has no order.                   *)
THEOREM ComparisonsHold == Spec => ComparisonsAreTrue
<1>1. IInv /\ [Next]_vars => [ComparisonTrue]_vars
  BY ComparisonStep
<1>2. Spec => [][ComparisonTrue]_vars
  BY <1>1, Inductive, PTL DEF Spec
<1> QED BY <1>2 DEF ComparisonsAreTrue, ComparisonTrue
==============================================================================
