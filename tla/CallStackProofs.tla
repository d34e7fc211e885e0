---------------------------- MODULE CallStackProofs ----------------------------
(***************************************************************************)
(* Proofs about the call stack of one coroutine and the protected calls    *)
(* that unwind it, for any number of frames and observers, whether or not  *)
(* the prolog can run out of memory after its push, when no body calls     *)
(* with a full stack (the run call_stack_full shows what happens then).    *)
(***************************************************************************)
EXTENDS CallStack, SequenceTheorems, TLAPS

Discipline == ~CallWhenFull

(* Activations an error cannot jump to, and those it can.                  *)
Plain     == {"call", "native"}
Protected == {"task", "xpcall", "handler"}

(* p names the innermost jump buffer below activation i of as, 0 when      *)
(* there is none: what errorHandler is when i begins.                      *)
Chained(as, i, p) ==
  /\ p \in 0 .. (i - 1)
  /\ p # 0 => as[p].kind \in Protected
  /\ \A j \in DOMAIN as : p < j /\ j < i => as[j].kind \in Plain

ChainInv ==
  /\ Chained(activations, Len(activations) + 1, errorHandler)
  /\ \A i \in DOMAIN activations :
       activations[i].kind \in {"xpcall", "handler"} => Chained(activations, i, activations[i].prev)

(* How far callStack goes without the frame the prolog is filling in.      *)
Depth  == IF callee = NULL THEN Len(callStack) ELSE Len(callStack) - 1

ControlInv ==
  /\ pc = "dead" <=> activations = <<>>
  /\ \A i \in DOMAIN activations : activations[i].kind \in {"native", "task"} <=> i = 1
  /\ pc \in {"fill", "alloc"} <=> callee # NULL
  /\ pc = "unwind" => activations # <<>> /\ Innermost.kind = "handler"
                      /\ errorHandler = Len(activations)

(* No frame is in callStack twice; currentCallState is the top one.        *)
StackInv ==
  /\ \A i, j \in DOMAIN callStack : callStack[i] = callStack[j] => i = j
  /\ pc # "dead" => Depth >= 1 /\ currentCallState = callStack[Depth]
  /\ callee # NULL => Len(callStack) >= 1 /\ callStack[Len(callStack)] = callee

(* The frames of the activations are in callStack in their order, each     *)
(* call's right above its caller's; only on top of an activation that      *)
(* handles an error are the frames that the error abandoned.               *)
HeightInv ==
  /\ \A i \in DOMAIN activations : /\ Height[i] \in 1 .. Depth
                                   /\ callStack[Height[i]] = activations[i].frame
  /\ \A i, j \in DOMAIN activations : i < j => Height[i] <= Height[j]
  /\ \A i \in DOMAIN activations :
       i > 1 => /\ Height[i] >= Height[i - 1] + Step[i]
                /\ activations[i-1].kind # "handler" => Height[i] = Height[i - 1] + Step[i]
  /\ activations # <<>> /\ Innermost.kind # "handler" =>
       Height[Len(activations)] = Depth

(* Below the first activation that handles an error every frame is that of *)
(* a function in progress.                                                 *)
NamedInv ==
  \A i \in DOMAIN activations :
    (\A j \in DOMAIN activations : j < i => activations[j].kind # "handler") =>
      \A h \in 1 .. Height[i] : \E j \in 1 .. i :
        activations[j].kind \in Functions /\ Height[j] = h

(* Only an observer holds the lock between two steps, and what it saw of   *)
(* the stack still is so, but for the frame of a prolog that ran out of    *)
(* memory: none is filled in any more, nor will one be until the lock is   *)
(* free.                                                                   *)
ViewInv ==
  /\ callStackLock # Executor
  /\ \A o \in Observers : seen[o] <= usage[o]
  /\ \A o \in Observers : callStackLock = o =>
       /\ usage[o] \in {Len(callStack), Len(callStack) + 1}
       /\ callee # NULL \/ ~LateAllocFails => usage[o] = Len(callStack)

IInv == TypeOK /\ ControlInv /\ ChainInv /\ StackInv /\ HeightInv /\ NamedInv /\ ViewInv

-----------------------------------------------------------------------------
(* Arithmetic: the position before one that is not the first.              *)
LEMMA Before == \A k \in Nat : k >= 1 /\ k # 1 => k - 1 \in 1 .. k
  OBVIOUS

(* What the first elements of a sequence are.                              *)
LEMMA PrefixFacts ==
  ASSUME NEW S, NEW s \in Seq(S), NEW m \in 0 .. Len(s)
  PROVE  /\ SubSeq(s, 1, m) \in Seq(S) /\ Len(SubSeq(s, 1, m)) = m
         /\ \A i \in 1 .. m : SubSeq(s, 1, m)[i] = s[i]
<1>1. m \in Int /\ \A i \in 1 .. m : s[i] \in S
  OBVIOUS
<1>2. /\ SubSeq(s, 1, m) \in Seq(S)
      /\ Len(SubSeq(s, 1, m)) = IF 1 <= m THEN m - 1 + 1 ELSE 0
      /\ \A i \in 1 .. (m - 1 + 1) : SubSeq(s, 1, m)[i] = s[1 + i - 1]
  BY <1>1, SubSeqProperties
<1> QED BY <1>1, <1>2

(* Sequences: what Front and Last of a sequence are.                       *)
LEMMA FrontFacts ==
  ASSUME NEW S, NEW s \in Seq(S), s # <<>>
  PROVE  /\ Len(s) \in Nat \ {0} /\ Last(s) = s[Len(s)]
         /\ Front(s) \in Seq(S) /\ Len(Front(s)) = Len(s) - 1
         /\ \A i \in 1 .. (Len(s) - 1) : Front(s)[i] = s[i]
<1>1. Len(s) \in Nat \ {0} /\ \A i \in 1 .. (Len(s) - 1) : s[i] \in S
  OBVIOUS
<1>2. Front(s) = SubSeq(s, 1, Len(s) - 1) /\ Last(s) = s[Len(s)]
  BY DEF Front, Last
<1>3. Len(s) - 1 \in 0 .. Len(s)
  BY <1>1
<1>4. /\ SubSeq(s, 1, Len(s) - 1) \in Seq(S) /\ Len(SubSeq(s, 1, Len(s) - 1)) = Len(s) - 1
      /\ \A i \in 1 .. (Len(s) - 1) : SubSeq(s, 1, Len(s) - 1)[i] = s[i]
  BY <1>3, PrefixFacts
<1> QED BY <1>1, <1>2, <1>4

(* The position of an element of a sequence without duplicates.            *)
LEMMA PosIs ==
  ASSUME NEW s, \A i, j \in DOMAIN s : s[i] = s[j] => i = j, NEW h \in DOMAIN s
  PROVE  PosIn(s, s[h]) = h
  BY DEF PosIn

(* An activation that keeps its frame where it is keeps its height.        *)
LEMMA HeightKept ==
  ASSUME HeightInv, NEW i \in DOMAIN activations, i \in DOMAIN activations',
         \A j, k \in DOMAIN callStack' : callStack'[j] = callStack'[k] => j = k,
         activations'[i].frame = activations[i].frame,
         Height[i] \in DOMAIN callStack', callStack'[Height[i]] = callStack[Height[i]]
  PROVE  Height'[i] = Height[i] /\ callStack'[Height'[i]] = activations'[i].frame
<1>1. callStack'[Height[i]] = activations'[i].frame
  BY DEF HeightInv
<1>2. PosIn(callStack', callStack'[Height[i]]) = Height[i]
  BY PosIs
<1> QED BY <1>1, <1>2 DEF Height

(* What the activation an executor is in tells of its callStack.           *)
LEMMA StackFacts ==
  ASSUME IInv
  PROVE  /\ Len(activations) \in Nat /\ DOMAIN activations = 1 .. Len(activations)
         /\ Len(callStack) \in Nat /\ DOMAIN callStack = 1 .. Len(callStack)
         /\ pc # "dead" => /\ activations # <<>> /\ Len(activations) >= 1
                           /\ Innermost = activations[Len(activations)]
                           /\ Innermost \in Activation
                           /\ Depth \in 1 .. Len(callStack)
         /\ callee = NULL => Depth = Len(callStack)
         /\ callee # NULL => Depth = Len(callStack) - 1
<1>1. activations \in Seq(Activation) /\ callStack \in Seq(Frames)
  BY DEF IInv, TypeOK
<1>2. /\ Len(activations) \in Nat /\ DOMAIN activations = 1 .. Len(activations)
      /\ Len(callStack) \in Nat /\ DOMAIN callStack = 1 .. Len(callStack)
  BY <1>1
<1>3. /\ callee = NULL => Depth = Len(callStack)
      /\ callee # NULL => Depth = Len(callStack) - 1
  BY DEF Depth
<1>4. ASSUME pc # "dead"
      PROVE  /\ activations # <<>> /\ Len(activations) >= 1
             /\ Innermost = activations[Len(activations)]
             /\ Innermost \in Activation
             /\ Depth \in 1 .. Len(callStack)
  <2>1. activations # <<>>
    BY <1>4 DEF IInv, ControlInv
  <2>2. Len(activations) >= 1 /\ Innermost = activations[Len(activations)]
    <3>1. Len(activations) \in Nat \ {0} /\ Last(activations) = activations[Len(activations)]
      BY <1>1, <2>1, FrontFacts
    <3> QED BY <3>1 DEF Innermost
  <2>3. Depth >= 1
    BY <1>4 DEF IInv, StackInv
  <2> QED BY <1>1, <1>2, <1>3, <2>1, <2>2, <2>3
<1> QED BY <1>2, <1>3, <1>4

-----------------------------------------------------------------------------
(* A step that leaves both stacks alone.                                   *)
LEMMA StillStep ==
  ASSUME IInv, pc' = "dead" <=> pc = "dead",
         UNCHANGED <<callStack, currentCallState, activations, errorHandler, callee>>
  PROVE  ChainInv' /\ StackInv' /\ HeightInv' /\ NamedInv'
<1>1. ChainInv'
  BY DEF IInv, ChainInv, Chained
<1>2. StackInv'
  BY DEF IInv, StackInv, Depth
<1>3. HeightInv'
  BY DEF IInv, HeightInv, Height, Depth, Step, Innermost
<1>4. NamedInv'
  BY DEF IInv, NamedInv, Height
<1> QED BY <1>1, <1>2, <1>3, <1>4

(* An observer, or the loss of the process.                                *)
LEMMA ObserverStep ==
  ASSUME IInv, UNCHANGED <<stackVars, cVars>>, TypeOK', ViewInv'
  PROVE  IInv'
<1>1. ChainInv' /\ StackInv' /\ HeightInv' /\ NamedInv'
  BY StillStep DEF stackVars, cVars
<1>2. ControlInv'
  BY DEF IInv, ControlInv, stackVars, cVars, Innermost
<1> QED BY <1>1, <1>2 DEF IInv

(* An activation is entered whose frame is the top of callStack.           *)
LEMMA EnterHeights ==
  ASSUME IInv, pc # "dead", NEW a \in Activation,
         activations' = Append(activations, a), callStack' = callStack,
         callee' = NULL, a.frame = callStack[Len(callStack)],
         \/ a.kind = "call" /\ callee # NULL
         \/ a.kind = "xpcall" /\ callee = NULL
  PROVE  /\ activations' \in Seq(Activation)
         /\ Len(activations') = Len(activations) + 1
         /\ \A i \in 1 .. Len(activations) : activations'[i] = activations[i]
         /\ activations'[Len(activations) + 1] = a /\ Innermost' = a
         /\ HeightInv' /\ NamedInv'
<1> DEFINE n == Len(activations)
<1>1. /\ n \in Nat /\ n >= 1 /\ DOMAIN activations = 1 .. n
      /\ Len(callStack) \in Nat /\ DOMAIN callStack = 1 .. Len(callStack)
      /\ Depth \in 1 .. Len(callStack)
  BY StackFacts
<1>2. activations \in Seq(Activation)
  BY DEF IInv, TypeOK
<1>3. /\ activations' \in Seq(Activation)
      /\ Len(activations') = n + 1 /\ DOMAIN activations' = 1 .. (n + 1)
      /\ \A i \in 1 .. n : activations'[i] = activations[i]
      /\ activations'[n + 1] = a /\ Innermost' = a
  <2>1. /\ activations' \in Seq(Activation) /\ activations' # <<>>
        /\ Len(activations') = n + 1
        /\ \A i \in 1 .. n : activations'[i] = activations[i]
        /\ activations'[n + 1] = a
    BY <1>2, AppendProperties
  <2>2. Last(activations') = activations'[n + 1]
    BY <2>1, FrontFacts
  <2> QED BY <2>1, <2>2 DEF Innermost
<1>4. \A i \in 1 .. n : Height'[i] = Height[i] /\ callStack'[Height'[i]] = activations'[i].frame
  BY <1>1, <1>3, HeightKept DEF IInv, HeightInv, StackInv
<1>5. Height'[n + 1] = Len(callStack) /\ callStack'[Height'[n + 1]] = activations'[n + 1].frame
  <2>1. Len(callStack) \in DOMAIN callStack
    BY <1>1
  <2>2. PosIn(callStack, callStack[Len(callStack)]) = Len(callStack)
    BY <2>1, PosIs DEF IInv, StackInv
  <2> QED BY <1>3, <2>2 DEF Height
<1>6. Depth' = Len(callStack) /\ Depth' = Depth + Step'[n + 1]
  <2>1. Depth' = Len(callStack)
    BY DEF Depth
  <2>2. CASE a.kind = "call"
    <3>1. Step'[n + 1] = 1 /\ Depth = Len(callStack) - 1
      BY <1>1, <1>3, <2>2 DEF Step, Depth
    <3> QED BY <1>1, <2>1, <3>1
  <2>3. CASE a.kind # "call"
    <3>1. Step'[n + 1] = 0
      BY <1>1, <1>3, <2>3 DEF Step
    <3>2. callee = NULL
      BY <2>3
    <3> QED BY <1>1, <2>1, <3>1, <3>2 DEF Depth
  <2> QED BY <2>2, <2>3
<1>7. \A i \in 1 .. n : Height[i] \in 1 .. Depth /\ Step'[i] = Step[i]
  BY <1>1, <1>3 DEF IInv, HeightInv, Step
<1>8. activations[n].kind # "handler" => Height[n] = Depth
  BY <1>1, StackFacts DEF IInv, HeightInv
<1> HIDE DEF n
<1>9. HeightInv'
  <2>1. ASSUME NEW i \in DOMAIN activations'
        PROVE  Height'[i] \in 1 .. Depth' /\ callStack'[Height'[i]] = activations'[i].frame
    <3>1. CASE i \in 1 .. n
      BY <1>1, <1>4, <1>6, <1>7, <3>1
    <3>2. CASE i = n + 1
      BY <1>1, <1>5, <1>6, <3>2
    <3> QED BY <1>1, <1>3, <3>1, <3>2
  <2>2. ASSUME NEW i \in DOMAIN activations', NEW j \in DOMAIN activations', i < j
        PROVE  Height'[i] <= Height'[j]
    <3>1. CASE j \in 1 .. n
      BY <1>1, <1>3, <1>4, <2>2, <3>1 DEF IInv, HeightInv
    <3>2. CASE j = n + 1
      BY <1>1, <1>3, <1>4, <1>5, <1>6, <1>7, <2>2, <3>2
    <3> QED BY <1>1, <1>3, <3>1, <3>2
  <2>3. ASSUME NEW i \in DOMAIN activations', i > 1
        PROVE  /\ Height'[i] >= Height'[i - 1] + Step'[i]
               /\ activations'[i - 1].kind # "handler" => Height'[i] = Height'[i - 1] + Step'[i]
    <3>1. CASE i \in 1 .. n
      <4>1. i - 1 \in 1 .. n
        BY <1>1, <2>3, <3>1
      <4>2. /\ Height[i] >= Height[i - 1] + Step[i]
            /\ activations[i - 1].kind # "handler" => Height[i] = Height[i - 1] + Step[i]
        BY <1>1, <2>3, <3>1 DEF IInv, HeightInv
      <4> QED BY <1>3, <1>4, <1>7, <3>1, <4>1, <4>2
    <3>2. CASE i = n + 1
      <4>1. i - 1 = n /\ n \in 1 .. n
        BY <1>1, <3>2
      <4>2. Height'[n] = Height[n] /\ Height[n] \in 1 .. Depth /\ activations'[n] = activations[n]
        BY <1>3, <1>4, <1>7, <4>1
      <4>3. Height'[i] = Depth + Step'[i] /\ Step'[i] \in {0, 1}
        BY <1>3, <1>5, <1>6, <3>2 DEF Step
      <4>4. Height'[i - 1] = Height[n] /\ activations'[i - 1] = activations[n]
        BY <4>1, <4>2
      <4>5. Depth + Step'[i] >= Height[n] + Step'[i]
        BY <1>1, <4>2, <4>3
      <4> QED BY <1>8, <4>3, <4>4, <4>5
    <3>3. i \in 1 .. n \/ i = n + 1
      BY <1>1, <1>3
    <3> QED BY <3>1, <3>2, <3>3
  <2>4. Height'[Len(activations')] = Depth'
    BY <1>3, <1>5, <1>6
  <2> QED BY <2>1, <2>2, <2>3, <2>4 DEF HeightInv
<1>10. NamedInv'
  <2> SUFFICES ASSUME NEW i \in DOMAIN activations', NEW h \in 1 .. Height'[i],
                      \A j \in DOMAIN activations' : j < i => activations'[j].kind # "handler"
               PROVE  \E j \in 1 .. i : activations'[j].kind \in Functions /\ Height'[j] = h
    BY DEF NamedInv
  <2>1. ASSUME NEW k \in 1 .. n, k <= i, h \in 1 .. Height[k]
        PROVE  \E j \in 1 .. i : activations'[j].kind \in Functions /\ Height'[j] = h
    <3>1. \A j \in DOMAIN activations : j < k => activations[j].kind # "handler"
      BY <1>1, <1>3, <2>1
    <3>2. PICK j \in 1 .. k : activations[j].kind \in Functions /\ Height[j] = h
      BY <1>1, <2>1, <3>1 DEF IInv, NamedInv
    <3>3. j \in 1 .. n /\ j \in 1 .. i
      BY <1>1, <1>3, <2>1
    <3> QED BY <1>3, <1>4, <3>2, <3>3
  <2>2. CASE i \in 1 .. n
    BY <1>1, <1>4, <2>1, <2>2
  <2>3. CASE i = n + 1
    <3>1. n \in 1 .. n /\ n < i /\ activations[n].kind # "handler"
      BY <1>1, <1>3, <2>3
    <3>2. Height[n] = Depth /\ Height'[i] = Depth + Step'[i]
      BY <1>5, <1>6, <1>8, <2>3, <3>1
    <3>3. CASE h <= Depth
      <4>1. h \in 1 .. Height[n]
        BY <1>1, <3>2, <3>3
      <4> QED BY <1>1, <2>1, <3>1, <4>1
    <3>4. CASE h > Depth
      <4>1. a.kind = "call" /\ h = Height'[i]
        BY <1>1, <1>3, <2>3, <3>2, <3>4 DEF Step
      <4> QED BY <1>1, <1>3, <2>3, <4>1 DEF Functions
    <3> QED BY <1>1, <3>3, <3>4
  <2> QED BY <1>1, <1>3, <2>2, <2>3
<1> QED BY <1>3, <1>9, <1>10 DEF n

(* Activations are left, and frames above those of the ones that stay; an  *)
(* interpreter_xpcall at the end may have got an error to handle.          *)
LEMMA LeaveHeights ==
  ASSUME IInv, callee = NULL, callee' = NULL, NEW m \in 1 .. Len(activations),
         activations' \in Seq(Activation), Len(activations') = m,
         \A i \in 1 .. m : activations'[i].frame = activations[i].frame,
         \A i \in 1 .. (m - 1) : activations'[i] = activations[i],
         \/ activations'[m].kind = activations[m].kind
         \/ activations'[m].kind = "handler" /\ activations[m].kind = "xpcall",
         NEW d \in Height[m] .. Len(callStack),
         callStack' \in Seq(Frames), Len(callStack') = d,
         \A h \in 1 .. d : callStack'[h] = callStack[h],
         activations'[m].kind # "handler" => d = Height[m]
  PROVE  /\ HeightInv' /\ NamedInv'
         /\ \A i, j \in DOMAIN callStack' : callStack'[i] = callStack'[j] => i = j
         /\ Depth' = d /\ d \in 1 .. Len(callStack)
<1> DEFINE n == Len(activations)
<1>1. /\ n \in Nat /\ DOMAIN activations = 1 .. n
      /\ Len(callStack) \in Nat /\ DOMAIN callStack = 1 .. Len(callStack)
      /\ Depth = Len(callStack)
  BY StackFacts
<1>2. DOMAIN activations' = 1 .. m /\ DOMAIN callStack' = 1 .. d /\ Depth' = d
  <2>1. Height[m] \in 1 .. Depth
    BY <1>1 DEF IInv, HeightInv
  <2> QED BY <1>1, <2>1 DEF Depth
<1>3. \A i \in 1 .. m : Height[i] <= Height[m] /\ Height[i] \in 1 .. d
  <2> SUFFICES ASSUME NEW i \in 1 .. m PROVE Height[i] <= Height[m] /\ Height[i] \in 1 .. d
    OBVIOUS
  <2>0. i \in DOMAIN activations /\ m \in DOMAIN activations
    BY <1>1
  <2>1. /\ Height[i] \in 1 .. Depth /\ Height[m] \in 1 .. Depth
        /\ i < m => Height[i] <= Height[m]
    BY <2>0 DEF IInv, HeightInv
  <2> QED BY <1>1, <2>1
<1>4. d \in 1 .. Len(callStack)
  <2>1. Height[m] \in 1 .. d
    BY <1>3
  <2> QED BY <1>1, <2>1
<1>5. \A i, j \in DOMAIN callStack' : callStack'[i] = callStack'[j] => i = j
  BY <1>1, <1>2, <1>4 DEF IInv, StackInv
<1>6. \A i \in 1 .. m : Height'[i] = Height[i] /\ callStack'[Height'[i]] = activations'[i].frame
  <2> SUFFICES ASSUME NEW i \in 1 .. m
               PROVE  Height'[i] = Height[i] /\ callStack'[Height'[i]] = activations'[i].frame
    OBVIOUS
  <2>1. i \in DOMAIN activations /\ i \in DOMAIN activations'
    BY <1>1, <1>2
  <2>2. Height[i] \in DOMAIN callStack' /\ callStack'[Height[i]] = callStack[Height[i]]
    BY <1>2, <1>3
  <2> QED BY <1>5, <2>1, <2>2, HeightKept DEF IInv
<1>7. \A i \in 1 .. m : Step'[i] = Step[i]
  BY <1>1, <1>2 DEF Step
<1> HIDE DEF n
<1>8. HeightInv'
  <2>1. ASSUME NEW i \in DOMAIN activations'
        PROVE  Height'[i] \in 1 .. Depth' /\ callStack'[Height'[i]] = activations'[i].frame
    BY <1>2, <1>3, <1>6
  <2>2. ASSUME NEW i \in DOMAIN activations', NEW j \in DOMAIN activations', i < j
        PROVE  Height'[i] <= Height'[j]
    BY <1>1, <1>2, <1>6, <2>2 DEF IInv, HeightInv, n
  <2>3. ASSUME NEW i \in DOMAIN activations', i > 1
        PROVE  /\ Height'[i] >= Height'[i - 1] + Step'[i]
               /\ activations'[i - 1].kind # "handler" => Height'[i] = Height'[i - 1] + Step'[i]
    <3>1. i \in 1 .. m /\ i - 1 \in 1 .. m /\ i - 1 \in 1 .. (m - 1) /\ i \in DOMAIN activations
      BY <1>1, <1>2, <2>3 DEF n
    <3>2. /\ Height[i] >= Height[i - 1] + Step[i]
          /\ activations[i - 1].kind # "handler" => Height[i] = Height[i - 1] + Step[i]
      BY <2>3, <3>1 DEF IInv, HeightInv
    <3> QED BY <1>6, <1>7, <3>1, <3>2
  <2>4. activations' # <<>> /\ Innermost'.kind # "handler" => Height'[Len(activations')] = Depth'
    <3>1. Innermost' = activations'[m]
      <4>1. activations' # <<>>
        OBVIOUS
      <4>2. Last(activations') = activations'[Len(activations')]
        BY <4>1, FrontFacts
      <4> QED BY <4>2 DEF Innermost
    <3>2. Height'[m] = Height[m]
      BY <1>6
    <3> QED BY <1>2, <3>1, <3>2
  <2> QED BY <2>1, <2>2, <2>3, <2>4 DEF HeightInv
<1>9. NamedInv'
  <2> SUFFICES ASSUME NEW i \in DOMAIN activations', NEW h \in 1 .. Height'[i],
                      \A j \in DOMAIN activations' : j < i => activations'[j].kind # "handler"
               PROVE  \E j \in 1 .. i : activations'[j].kind \in Functions /\ Height'[j] = h
    BY DEF NamedInv
  <2>1. i \in 1 .. m /\ i \in DOMAIN activations /\ h \in 1 .. Height[i]
    BY <1>1, <1>2, <1>6 DEF n
  <2>2. \A j \in DOMAIN activations : j < i => activations[j].kind # "handler"
    <3> SUFFICES ASSUME NEW j \in DOMAIN activations, j < i
                 PROVE  activations[j].kind # "handler"
      OBVIOUS
    <3>1. j \in 1 .. (m - 1) /\ j \in DOMAIN activations'
      BY <1>1, <1>2, <2>1
    <3> QED BY <3>1
  <2>3. PICK j \in 1 .. i : activations[j].kind \in Functions /\ Height[j] = h
    BY <2>1, <2>2 DEF IInv, NamedInv
  <2>4. j \in 1 .. m
    BY <2>1
  <2>5. activations'[j].kind = activations[j].kind
    <3>1. CASE j = m
      BY <2>3, <3>1 DEF Functions
    <3>2. CASE j # m
      BY <2>4, <3>2
    <3> QED BY <3>1, <3>2
  <2> QED BY <1>6, <2>3, <2>4, <2>5
<1> QED BY <1>2, <1>4, <1>5, <1>8, <1>9

(* The activations that stay keep the jump buffers below them.             *)
LEMMA ChainsKept ==
  ASSUME TypeOK, ChainInv, NEW m \in 0 .. Len(activations),
         activations' \in Seq(Activation), m <= Len(activations'),
         \A i \in 1 .. m : /\ activations'[i].prev = activations[i].prev
                           /\ \/ activations'[i].kind = activations[i].kind
                              \/ /\ activations'[i].kind = "handler"
                                 /\ activations[i].kind = "xpcall"
  PROVE  /\ \A i \in 1 .. m : activations'[i].kind \in {"xpcall", "handler"} =>
                                Chained(activations', i, activations'[i].prev)
         /\ \A i \in 1 .. (m + 1), p \in 0 .. m : Chained(activations, i, p) => Chained(activations', i, p)
<1>1. /\ activations \in Seq(Activation) /\ Len(activations) \in Nat
      /\ DOMAIN activations = 1 .. Len(activations)
      /\ Len(activations') \in Nat /\ DOMAIN activations' = 1 .. Len(activations')
  BY DEF TypeOK
<1>2. ASSUME NEW i \in 1 .. (m + 1), NEW p \in 0 .. m, Chained(activations, i, p)
      PROVE  Chained(activations', i, p)
  <2>1. \A j \in 1 .. m : /\ j \in DOMAIN activations /\ j \in DOMAIN activations'
                          /\ activations[j].kind \in Plain => activations'[j].kind \in Plain
                          /\ activations[j].kind \in Protected => activations'[j].kind \in Protected
    BY <1>1 DEF Plain, Protected
  <2>2. /\ p \in 0 .. (i - 1)
        /\ p # 0 => activations[p].kind \in Protected
        /\ \A j \in DOMAIN activations : p < j /\ j < i => activations[j].kind \in Plain
    BY <1>2 DEF Chained
  <2>3. p # 0 => activations'[p].kind \in Protected
    BY <2>1, <2>2
  <2>4. ASSUME NEW j \in DOMAIN activations', p < j, j < i
        PROVE  activations'[j].kind \in Plain
    <3>1. j \in 1 .. m
      BY <1>1, <2>4
    <3> QED BY <2>1, <2>2, <2>4, <3>1
  <2> QED BY <2>2, <2>3, <2>4 DEF Chained
<1>3. ASSUME NEW i \in 1 .. m, activations'[i].kind \in {"xpcall", "handler"}
      PROVE  Chained(activations', i, activations'[i].prev)
  <2>1. i \in DOMAIN activations /\ activations[i].kind \in {"xpcall", "handler"}
    BY <1>1, <1>3
  <2>2. PICK p : p = activations[i].prev
    OBVIOUS
  <2>3. Chained(activations, i, p)
    BY <2>1, <2>2 DEF ChainInv
  <2>4. i \in 1 .. (m + 1) /\ p \in 0 .. m
    BY <1>1, <2>3 DEF Chained
  <2>5. Chained(activations', i, p)
    BY <1>2, <2>3, <2>4
  <2>6. activations'[i].prev = p
    BY <2>2
  <2> QED BY <2>5, <2>6
<1> QED BY <1>2, <1>3

-----------------------------------------------------------------------------
(* The prolog pushes a frame for the function it calls.                    *)
LEMMA CallStep ==
  ASSUME Discipline, IInv, NEW f \in Frames, Call(f)
  PROVE  IInv'
<1> USE ThreadsAssumption, BoundsAssumption
<1>1. /\ pc = "run" /\ pc' = "fill" /\ f \in Free /\ callStackLock = NULL
      /\ Len(callStack) < MaxFrames
      /\ callStack' = Append(callStack, f) /\ callee' = f
      /\ UNCHANGED <<ready, currentCallState, callStackLock, activations,
                     errorHandler, usage, seen, backward, fault>>
  BY DEF Call, Discipline, At, viewVars
<1>2. /\ Len(callStack) \in Nat /\ DOMAIN callStack = 1 .. Len(callStack)
      /\ Depth = Len(callStack) /\ Depth >= 1 /\ callee = NULL
  <2>1. callee = NULL
    BY <1>1 DEF IInv, ControlInv
  <2> QED BY <1>1, <2>1, StackFacts
<1>3. /\ callStack' \in Seq(Frames) /\ Len(callStack') = Len(callStack) + 1
      /\ DOMAIN callStack' = 1 .. (Len(callStack) + 1)
      /\ \A i \in 1 .. Len(callStack) : callStack'[i] = callStack[i]
      /\ callStack'[Len(callStack) + 1] = f
  BY <1>1, AppendProperties DEF IInv, TypeOK
<1>4. \A i \in DOMAIN callStack : callStack[i] # f
  BY <1>1 DEF Free, ToSet
<1>5. \A i, j \in DOMAIN callStack' : callStack'[i] = callStack'[j] => i = j
  BY <1>2, <1>3, <1>4 DEF IInv, StackInv
<1>6. Depth' = Depth
  <2>1. callee' # NULL
    BY <1>1
  <2>2. Depth' = Len(callStack') - 1
    BY <2>1 DEF Depth
  <2> QED BY <1>2, <1>3, <2>2
<1>7. TypeOK'
  <2>1. Len(callStack') <= MaxFrames
    BY <1>1, <1>2, <1>3
  <2> QED BY <1>1, <1>3, <2>1 DEF IInv, TypeOK
<1>8. ControlInv'
  BY <1>1 DEF IInv, ControlInv, Innermost
<1>9. ChainInv'
  BY <1>1 DEF IInv, ChainInv
<1>10. StackInv'
  BY <1>1, <1>2, <1>3, <1>5, <1>6 DEF IInv, StackInv
<1>11. \A i \in DOMAIN activations : Height'[i] = Height[i] /\ Height[i] \in 1 .. Depth
                                     /\ callStack'[Height'[i]] = activations'[i].frame
  <2> SUFFICES ASSUME NEW i \in DOMAIN activations
               PROVE  /\ Height'[i] = Height[i] /\ Height[i] \in 1 .. Depth
                      /\ callStack'[Height'[i]] = activations'[i].frame
    OBVIOUS
  <2>1. Height[i] \in 1 .. Depth
    BY DEF IInv, HeightInv
  <2>2. Height[i] \in DOMAIN callStack' /\ callStack'[Height[i]] = callStack[Height[i]]
    BY <1>2, <1>3, <2>1
  <2> QED BY <1>1, <1>5, <2>1, <2>2, HeightKept DEF IInv
<1>12. Height' = Height /\ Step' = Step
  BY <1>1, <1>11 DEF Height, Step
<1>13. HeightInv'
  BY <1>1, <1>6, <1>11, <1>12 DEF IInv, HeightInv, Innermost
<1>14. NamedInv'
  BY <1>1, <1>12 DEF IInv, NamedInv
<1>15. ViewInv'
  BY <1>1 DEF IInv, ViewInv
<1> QED BY <1>7, <1>8, <1>9, <1>10, <1>13, <1>14, <1>15 DEF IInv

(* The steps that leave both stacks alone: an allocation fails, the new    *)
(* frame gets its closure, an error handler returns.                       *)
LEMMA PcStep ==
  ASSUME IInv, CallUnallocated \/ CallFill \/ HandlerDone
  PROVE  IInv'
<1> USE ThreadsAssumption, BoundsAssumption
<1>1. /\ pc' \in {"throw", "alloc", "unwind"}
      /\ pc' = "throw" => pc = "run"
      /\ pc' = "alloc" => pc = "fill"
      /\ pc' = "unwind" => pc = "run" /\ Innermost.kind = "handler"
      /\ ready' = ready \/ (ready' = ready \cup {callee} /\ pc = "fill")
      /\ UNCHANGED <<callStack, currentCallState, callStackLock, activations,
                     errorHandler, callee, usage, seen, backward, fault>>
  BY DEF CallUnallocated, CallFill, HandlerDone, At, stackVars, viewVars
<1>2. pc # "dead" /\ pc' # "dead"
  BY <1>1
<1>3. ChainInv' /\ StackInv' /\ HeightInv' /\ NamedInv'
  BY <1>1, <1>2, StillStep
<1>4. TypeOK'
  <2>1. pc = "fill" => callee \in Frames
    BY DEF IInv, TypeOK, ControlInv
  <2> QED BY <1>1, <2>1 DEF IInv, TypeOK
<1>5. pc' = "unwind" => errorHandler = Len(activations)
  <2> SUFFICES ASSUME pc' = "unwind" PROVE errorHandler = Len(activations)
    OBVIOUS
  <2>1. /\ Len(activations) >= 1 /\ Len(activations) \in Nat
        /\ Len(activations) \in DOMAIN activations
        /\ activations[Len(activations)].kind = "handler"
    BY <1>1, <1>2, StackFacts
  <2>2. Chained(activations, Len(activations) + 1, errorHandler)
    BY DEF IInv, ChainInv
  <2>3. errorHandler \in 0 .. Len(activations)
    BY DEF IInv, TypeOK
  <2> QED BY <2>1, <2>2, <2>3 DEF Chained, Plain
<1>6. ControlInv'
  BY <1>1, <1>2, <1>5 DEF IInv, ControlInv, Innermost
<1>7. ViewInv'
  BY <1>1 DEF IInv, ViewInv
<1> QED BY <1>3, <1>4, <1>6, <1>7 DEF IInv

(* What the entered activation is: its frame is the callee's, or that of   *)
(* the caller of interpreter_xpcall.                                       *)
LEMMA EnterFacts ==
  ASSUME IInv, CallEnter \/ Protect, pc' = "run"
  PROVE  \E a \in Activation :
        /\ activations' = Append(activations, a)
        /\ \/ pc = "alloc" /\ a.kind = "call" /\ a.frame = callee
              /\ currentCallState' = callee /\ errorHandler' = errorHandler
           \/ pc = "run" /\ a.kind = "xpcall" /\ a.frame = currentCallState
              /\ a.prev = errorHandler
              /\ currentCallState' = currentCallState
              /\ errorHandler' = Len(activations')
        /\ pc' = "run" /\ callee' = NULL
        /\ UNCHANGED <<callStack, ready, callStackLock, usage, seen, backward, fault>>
<1> USE ThreadsAssumption, BoundsAssumption
<1>1. CASE CallEnter
  <2>1. callee \in Frames
    BY <1>1 DEF CallEnter, At, IInv, TypeOK, ControlInv
  <2>2. [kind |-> "call", frame |-> callee, prev |-> 0] \in Activation
    BY <2>1 DEF Activation, Functions
  <2> QED BY <1>1, <2>2 DEF CallEnter, At, viewVars
<1>2. CASE Protect
  <2>1. pc = "run" /\ callee = NULL
    BY <1>2 DEF Protect, At, IInv, ControlInv
  <2>2. currentCallState \in Frames
    <3>1. Depth \in 1 .. Len(callStack) /\ DOMAIN callStack = 1 .. Len(callStack)
      BY <2>1, StackFacts
    <3>2. currentCallState = callStack[Depth]
      BY <2>1 DEF IInv, StackInv
    <3> QED BY <3>1, <3>2 DEF IInv, TypeOK
  <2>3. [kind |-> "xpcall", frame |-> currentCallState, prev |-> errorHandler] \in Activation
    BY <2>2 DEF Activation, Functions, IInv, TypeOK
  <2> QED BY <1>2, <2>1, <2>3 DEF Protect, At, stackVars, viewVars
<1> QED BY <1>1, <1>2

(* The called function, or a protected one, is entered.                    *)
LEMMA EnterStep ==
  ASSUME IInv, CallEnter \/ Protect, pc' = "run"
  PROVE  IInv'
<1> USE ThreadsAssumption, BoundsAssumption
<1>1. PICK a \in Activation :
        /\ activations' = Append(activations, a)
        /\ \/ pc = "alloc" /\ a.kind = "call" /\ a.frame = callee
              /\ currentCallState' = callee /\ errorHandler' = errorHandler
           \/ pc = "run" /\ a.kind = "xpcall" /\ a.frame = currentCallState
              /\ a.prev = errorHandler
              /\ currentCallState' = currentCallState
              /\ errorHandler' = Len(activations')
        /\ pc' = "run" /\ callee' = NULL
        /\ UNCHANGED <<callStack, ready, callStackLock, usage, seen, backward, fault>>
  BY EnterFacts
<1> DEFINE n == Len(activations)
<1>2. /\ n \in Nat /\ n >= 1 /\ DOMAIN activations = 1 .. n
      /\ Len(callStack) \in Nat /\ DOMAIN callStack = 1 .. Len(callStack)
      /\ pc # "dead" /\ Len(callStack) >= 1
  <2>1. pc # "dead"
    BY <1>1
  <2> QED BY <2>1, StackFacts
<1>3. /\ a.frame = callStack[Len(callStack)] /\ currentCallState' = a.frame
      /\ \/ a.kind = "call" /\ callee # NULL
         \/ a.kind = "xpcall" /\ callee = NULL
  BY <1>1, <1>2, StackFacts DEF IInv, StackInv, ControlInv
<1>4. /\ activations' \in Seq(Activation)
      /\ Len(activations') = n + 1
      /\ \A i \in 1 .. n : activations'[i] = activations[i]
      /\ activations'[n + 1] = a /\ Innermost' = a
      /\ HeightInv' /\ NamedInv'
  BY <1>1, <1>2, <1>3, EnterHeights
<1>5. DOMAIN activations' = 1 .. (n + 1) /\ activations' # <<>> /\ Len(activations') \in Nat
  BY <1>2, <1>4
<1>6. errorHandler \in 0 .. n /\ a.prev \in Nat
  BY DEF IInv, TypeOK, Activation
<1> HIDE DEF n
<1>7. TypeOK'
  <2>1. errorHandler' \in 0 .. Len(activations')
    BY <1>1, <1>2, <1>4, <1>6
  <2>2. currentCallState' \in Frames
    BY <1>3 DEF Activation
  <2> QED BY <1>1, <1>4, <2>1, <2>2 DEF IInv, TypeOK
<1>8. ControlInv'
  <2>1. ASSUME NEW i \in DOMAIN activations'
        PROVE  activations'[i].kind \in {"native", "task"} <=> i = 1
    <3>1. CASE i \in 1 .. n
      BY <1>2, <1>4, <3>1 DEF IInv, ControlInv
    <3>2. CASE i = n + 1
      BY <1>2, <1>3, <1>4, <3>2
    <3> QED BY <1>2, <1>5, <3>1, <3>2
  <2> QED BY <1>1, <1>5, <2>1 DEF ControlInv
<1>9. ChainInv'
  <2>1. /\ \A i \in 1 .. n : activations'[i].kind \in {"xpcall", "handler"} =>
                                Chained(activations', i, activations'[i].prev)
        /\ \A i \in 1 .. (n + 1), p \in 0 .. n :
             Chained(activations, i, p) => Chained(activations', i, p)
    <3>1. n \in 0 .. Len(activations) /\ n <= Len(activations')
      BY <1>2, <1>4 DEF n
    <3> QED BY <1>4, <3>1, ChainsKept DEF IInv
  <2>2. Chained(activations', n + 1, errorHandler)
    <3>1. Chained(activations, n + 1, errorHandler)
      BY DEF IInv, ChainInv, n
    <3>2. n + 1 \in 1 .. (n + 1)
      BY <1>2
    <3> QED BY <1>6, <2>1, <3>1, <3>2
  <2>3. Chained(activations', n + 2, errorHandler')
    <3>1. CASE a.kind = "call"
      <4>1. errorHandler' = errorHandler
        BY <1>1, <3>1
      <4> QED BY <1>2, <1>4, <1>5, <2>2, <3>1, <4>1 DEF Chained, Plain
    <3>2. CASE a.kind = "xpcall"
      <4>1. errorHandler' = n + 1
        BY <1>1, <1>4, <3>2
      <4> QED BY <1>2, <1>4, <1>5, <3>2, <4>1 DEF Chained, Protected
    <3> QED BY <1>3, <3>1, <3>2
  <2>4. a.kind = "xpcall" => a.prev = errorHandler
    BY <1>1
  <2>5. ASSUME NEW i \in DOMAIN activations', activations'[i].kind \in {"xpcall", "handler"}
        PROVE  Chained(activations', i, activations'[i].prev)
    <3>1. CASE i \in 1 .. n
      BY <2>1, <2>5, <3>1
    <3>2. CASE i = n + 1
      BY <1>3, <1>4, <2>2, <2>4, <2>5, <3>2
    <3> QED BY <1>2, <1>5, <2>5, <3>1, <3>2
  <2>6. n + 2 = Len(activations') + 1
    BY <1>2, <1>4
  <2> QED BY <2>3, <2>5, <2>6 DEF ChainInv
<1>10. StackInv'
  <2>1. Depth' = Len(callStack)
    BY <1>1 DEF Depth
  <2> QED BY <1>1, <1>2, <1>3, <2>1 DEF IInv, StackInv
<1>11. ViewInv'
  BY <1>1 DEF IInv, ViewInv
<1> QED BY <1>4, <1>7, <1>8, <1>9, <1>10, <1>11 DEF IInv

(* The prolog runs out of memory: the frame it pushed goes, and whoever    *)
(* iterates over the call stack misses it.                                 *)
LEMMA GiveUpStep ==
  ASSUME IInv, CallEnter, pc' # "run"
  PROVE  IInv' /\ callStack # <<>> /\ Last(callStack) = callee
<1> USE ThreadsAssumption, BoundsAssumption
<1>1. /\ LateAllocFails /\ pc = "alloc" /\ pc' = "throw" /\ callee' = NULL
      /\ callStack' = Front(callStack) /\ ready' \subseteq ready
      /\ currentCallState' = IF Len(callStack) = 1 THEN NULL
                                                   ELSE callStack[Len(callStack) - 1]
      /\ UNCHANGED <<callStackLock, activations, errorHandler, usage, seen, backward, fault>>
  BY DEF CallEnter, PopFrame, At, viewVars
<1> DEFINE n == Len(callStack)
<1>2. callee # NULL
  BY <1>1 DEF IInv, ControlInv
<1>3. /\ callStack \in Seq(Frames) /\ n \in Nat /\ DOMAIN callStack = 1 .. n
      /\ Depth = n - 1 /\ Depth >= 1 /\ n # 1 /\ callStack # <<>>
  <2>1. pc # "dead"
    BY <1>1
  <2>2. callStack \in Seq(Frames) /\ n \in Nat /\ DOMAIN callStack = 1 .. n /\ n - 1 >= 1
        /\ Depth = n - 1
    BY <1>2, <2>1, StackFacts DEF IInv, TypeOK
  <2> QED BY <2>2
<1>4. /\ Last(callStack) = callStack[n] /\ Front(callStack) \in Seq(Frames)
      /\ Len(Front(callStack)) = n - 1
      /\ \A i \in 1 .. (n - 1) : Front(callStack)[i] = callStack[i]
  BY <1>3, FrontFacts
<1>5. Last(callStack) = callee
  BY <1>2, <1>4 DEF IInv, StackInv
<1>6. /\ callStack' \in Seq(Frames) /\ Len(callStack') = n - 1
      /\ DOMAIN callStack' = 1 .. (n - 1)
      /\ \A i \in 1 .. (n - 1) : callStack'[i] = callStack[i]
  BY <1>1, <1>4
<1>7. Depth' = Depth /\ currentCallState' = callStack'[Depth]
  <2>1. Depth' = Len(callStack')
    BY <1>1 DEF Depth
  <2>2. n - 1 \in 1 .. (n - 1)
    BY <1>3
  <2> QED BY <1>1, <1>3, <1>6, <2>1, <2>2
<1> HIDE DEF n
<1>8. \A i, j \in DOMAIN callStack' : callStack'[i] = callStack'[j] => i = j
  <2>1. \A i \in 1 .. (n - 1) : i \in DOMAIN callStack
    BY <1>3
  <2> QED BY <1>6, <2>1 DEF IInv, StackInv
<1>9. \A i \in DOMAIN activations : Height'[i] = Height[i] /\ Height[i] \in 1 .. Depth
                                     /\ callStack'[Height'[i]] = activations'[i].frame
  <2> SUFFICES ASSUME NEW i \in DOMAIN activations
               PROVE  /\ Height'[i] = Height[i] /\ Height[i] \in 1 .. Depth
                      /\ callStack'[Height'[i]] = activations'[i].frame
    OBVIOUS
  <2>1. Height[i] \in 1 .. Depth
    BY DEF IInv, HeightInv
  <2>2. Height[i] \in DOMAIN callStack' /\ callStack'[Height[i]] = callStack[Height[i]]
    BY <1>3, <1>6, <2>1
  <2> QED BY <1>1, <1>8, <2>1, <2>2, HeightKept DEF IInv
<1>10. Height' = Height /\ Step' = Step
  BY <1>1, <1>9 DEF Height, Step
<1>11. TypeOK'
  <2>1. Len(callStack') <= MaxFrames
    BY <1>3, <1>6 DEF IInv, TypeOK, n
  <2>2. currentCallState' \in Frames
    BY <1>3, <1>6, <1>7
  <2> QED BY <1>1, <1>6, <2>1, <2>2 DEF IInv, TypeOK
<1>12. ControlInv'
  BY <1>1 DEF IInv, ControlInv, Innermost
<1>13. ChainInv'
  BY <1>1 DEF IInv, ChainInv
<1>14. StackInv'
  BY <1>1, <1>3, <1>7, <1>8 DEF StackInv
<1>15. HeightInv'
  BY <1>1, <1>7, <1>9, <1>10 DEF IInv, HeightInv, Innermost
<1>16. NamedInv'
  BY <1>1, <1>10 DEF IInv, NamedInv
<1>17. ViewInv'
  <2>1. ASSUME NEW o \in Observers, callStackLock = o
        PROVE  usage[o] \in {Len(callStack'), Len(callStack') + 1}
    <3>1. usage[o] = n
      BY <1>2, <2>1 DEF IInv, ViewInv, n
    <3> QED BY <1>3, <1>6, <3>1
  <2> QED BY <1>1, <2>1 DEF IInv, ViewInv
<1> QED BY <1>3, <1>5, <1>11, <1>12, <1>13, <1>14, <1>15, <1>16, <1>17 DEF IInv

(* A function returns, or a protected one does, or the unwinding after an  *)
(* error ends: the innermost activation is left.                           *)
Leaving(d) ==
  /\ pc \in {"run", "unwind"} /\ pc' = "run"
  /\ activations' = Front(activations)
  /\ callStack' \in Seq(Frames) /\ Len(callStack') = d
  /\ \A h \in 1 .. d : callStack'[h] = callStack[h]
  /\ currentCallState' = callStack[d]
  /\ \/ /\ Innermost.kind = "call" /\ d = Len(callStack) - 1
        /\ errorHandler' = errorHandler
     \/ /\ Innermost.kind \in {"xpcall", "handler"}
        /\ d = Height[Len(activations)]
        /\ errorHandler' = Innermost.prev
  /\ ready' \subseteq ready
  /\ callStackLock = NULL \/ callStack' = callStack
  /\ UNCHANGED <<callStackLock, callee, usage, seen, backward, fault>>

(* A native that is left, in whichever way, keeps the invariant.            *)
LEMMA LeaveStep ==
  ASSUME IInv, NEW d \in 1 .. Len(callStack), Leaving(d)
  PROVE  IInv'
<1> USE ThreadsAssumption, BoundsAssumption
<1> DEFINE n == Len(activations)
<1>0. n \in Nat /\ n = Len(activations)
  BY DEF IInv, TypeOK
<1>1. /\ n \in Nat /\ n >= 1 /\ DOMAIN activations = 1 .. n
      /\ Len(callStack) \in Nat /\ DOMAIN callStack = 1 .. Len(callStack)
      /\ callee = NULL /\ Depth = Len(callStack)
      /\ Innermost = activations[n] /\ activations # <<>>
      /\ Innermost \in Activation /\ n \in DOMAIN activations
  <2>1. pc # "dead" /\ callee = NULL
    BY DEF Leaving, IInv, ControlInv
  <2> QED BY <2>1, StackFacts
<1>2. n >= 2
  <2>1. Innermost.kind \in {"call", "xpcall", "handler"}
    BY DEF Leaving
  <2>2. activations[n].kind \notin {"native", "task"}
    BY <1>1, <2>1
  <2>3. n # 1
    BY <1>1, <2>2 DEF IInv, ControlInv
  <2> QED BY <1>1, <2>3
<1>3. /\ activations' \in Seq(Activation) /\ Len(activations') = n - 1
      /\ DOMAIN activations' = 1 .. (n - 1)
      /\ \A i \in 1 .. (n - 1) : activations'[i] = activations[i]
  <2>1. activations \in Seq(Activation) /\ activations' = Front(activations)
    BY DEF Leaving, IInv, TypeOK
  <2>2. /\ Front(activations) \in Seq(Activation) /\ Len(Front(activations)) = n - 1
        /\ \A i \in 1 .. (n - 1) : Front(activations)[i] = activations[i]
    BY <1>1, <2>1, FrontFacts
  <2> QED BY <2>1, <2>2
<1>4. Innermost' = activations[n - 1] /\ activations' # <<>>
  <2>1. activations' # <<>>
    BY <1>2, <1>3
  <2>2. Last(activations') = activations'[Len(activations')]
    BY <1>3, <2>1, FrontFacts
  <2>3. n - 1 \in 1 .. (n - 1)
    BY <1>1, <1>2
  <2> QED BY <1>3, <2>1, <2>2, <2>3 DEF Innermost
<1>5. n - 1 \in 1 .. n /\ n - 1 \in DOMAIN activations /\ n - 1 \in 1 .. (n - 1)
  BY <1>1, <1>2
<1> HIDE DEF n
<1>6. /\ d \in Height[n - 1] .. Len(callStack)
      /\ activations[n - 1].kind # "handler" => d = Height[n - 1]
  <2>1. /\ Height[n] \in 1 .. Depth /\ Height[n - 1] \in 1 .. Depth
        /\ Height[n] >= Height[n - 1] + Step[n]
        /\ activations[n - 1].kind # "handler" => Height[n] = Height[n - 1] + Step[n]
    BY <1>1, <1>2, <1>5 DEF IInv, HeightInv
  <2>2. Innermost.kind # "handler" => Height[n] = Depth
    BY <1>1 DEF IInv, HeightInv, n
  <2>3. CASE Innermost.kind = "call" /\ d = Len(callStack) - 1
    <3>1. Step[n] = 1 /\ Height[n] = Len(callStack)
      BY <1>1, <2>2, <2>3 DEF Step
    <3>2. d >= Height[n - 1] /\ (activations[n - 1].kind # "handler" => d = Height[n - 1])
      BY <1>1, <2>1, <2>3, <3>1
    <3> QED BY <1>1, <2>1, <3>2
  <2>4. CASE Innermost.kind \in {"xpcall", "handler"} /\ d = Height[n]
    <3>1. Step[n] = 0
      BY <1>1, <2>4 DEF Step
    <3>2. d >= Height[n - 1] /\ (activations[n - 1].kind # "handler" => d = Height[n - 1])
      BY <1>1, <2>1, <2>4, <3>1
    <3> QED BY <1>1, <2>1, <3>2
  <2> QED BY <2>3, <2>4 DEF Leaving, n
<1>7. /\ HeightInv' /\ NamedInv'
      /\ \A i, j \in DOMAIN callStack' : callStack'[i] = callStack'[j] => i = j
      /\ Depth' = d
  <2>1. /\ \A i \in 1 .. (n - 1) : activations'[i].frame = activations[i].frame
        /\ \A i \in 1 .. ((n - 1) - 1) : activations'[i] = activations[i]
        /\ activations'[n - 1].kind = activations[n - 1].kind
        /\ n - 1 \in 1 .. Len(activations) /\ callee' = NULL
        /\ activations'[n - 1].kind # "handler" => d = Height[n - 1]
    <3>1. \A i \in 1 .. ((n - 1) - 1) : i \in 1 .. (n - 1)
      BY <1>1
    <3> QED BY <1>1, <1>3, <1>5, <1>6, <3>1 DEF Leaving, n
  <2> QED BY <1>1, <1>3, <1>6, <2>1, LeaveHeights DEF Leaving
<1>8. TypeOK'
  <2>1. errorHandler' \in 0 .. (n - 1)
    <3>1. CASE Innermost.kind = "call" /\ errorHandler' = errorHandler
      <4>1. errorHandler \in 0 .. n /\ (errorHandler # 0 => activations[errorHandler].kind \in Protected)
        BY DEF IInv, TypeOK, ChainInv, Chained, n
      <4>2. errorHandler # n
        BY <1>1, <1>2, <3>1, <4>1 DEF Protected
      <4> QED BY <1>1, <3>1, <4>1, <4>2
    <3>2. CASE Innermost.kind \in {"xpcall", "handler"} /\ errorHandler' = Innermost.prev
      BY <1>1, <3>2 DEF IInv, ChainInv, Chained
    <3> QED BY <3>1, <3>2 DEF Leaving
  <2>2. d <= MaxFrames /\ callStack[d] \in Frames
    BY <1>1 DEF IInv, TypeOK
  <2> QED BY <1>3, <2>1, <2>2 DEF Leaving, IInv, TypeOK
<1>9. ControlInv'
  <2>1. \A i \in DOMAIN activations' : activations'[i].kind \in {"native", "task"} <=> i = 1
    BY <1>1, <1>3 DEF IInv, ControlInv
  <2> QED BY <1>1, <1>4, <2>1 DEF Leaving, ControlInv
<1>10. ChainInv'
  <2>1. /\ \A i \in 1 .. (n - 1) : activations'[i].kind \in {"xpcall", "handler"} =>
                                Chained(activations', i, activations'[i].prev)
        /\ \A i \in 1 .. n, p \in 0 .. (n - 1) :
             Chained(activations, i, p) => Chained(activations', i, p)
    <3>1. n - 1 \in 0 .. Len(activations) /\ n - 1 <= Len(activations') /\ (n - 1) + 1 = n
      BY <1>1, <1>2, <1>3 DEF n
    <3>2. \A i \in 1 .. (n - 1) : /\ activations'[i].prev = activations[i].prev
                                  /\ activations'[i].kind = activations[i].kind
      BY <1>3
    <3> QED BY <1>3, <3>1, <3>2, ChainsKept DEF IInv
  <2>2. errorHandler' \in 0 .. (n - 1) /\ Chained(activations, n, errorHandler')
    <3>1. CASE Innermost.kind = "call" /\ errorHandler' = errorHandler
      <4>1. Chained(activations, n + 1, errorHandler)
        BY DEF IInv, ChainInv, n
      <4>2. errorHandler # n
        BY <1>1, <1>2, <3>1, <4>1 DEF Chained, Protected
      <4> QED BY <1>1, <3>1, <4>1, <4>2 DEF Chained
    <3>2. CASE Innermost.kind \in {"xpcall", "handler"} /\ errorHandler' = Innermost.prev
      BY <1>1, <3>2 DEF IInv, ChainInv, Chained
    <3> QED BY <3>1, <3>2 DEF Leaving
  <2>3. Chained(activations', Len(activations') + 1, errorHandler')
    BY <1>1, <1>3, <2>1, <2>2
  <2> QED BY <1>3, <2>1, <2>3 DEF ChainInv
<1>11. StackInv'
  <2>0. d \in 1 .. d /\ d >= 1
    BY <1>1
  <2>1. callStack'[d] = callStack[d] /\ currentCallState' = callStack[d]
    BY <2>0 DEF Leaving
  <2>2. callee' = NULL
    BY <1>1 DEF Leaving
  <2> QED BY <1>7, <2>0, <2>1, <2>2 DEF StackInv
<1>12. ViewInv'
  BY DEF Leaving, IInv, ViewInv
<1> QED BY <1>7, <1>8, <1>9, <1>10, <1>11, <1>12 DEF IInv

(* A called function returns: its frame is the last one.                   *)
LEMMA ReturnStep ==
  ASSUME IInv, Return
  PROVE  IInv'
<1>1. /\ pc = "run" /\ pc' = "run" /\ Innermost.kind = "call" /\ callStackLock = NULL
      /\ callStack' = Front(callStack) /\ ready' = ready \ {Last(callStack)}
      /\ currentCallState' = IF Len(callStack) = 1 THEN NULL
                                                   ELSE callStack[Len(callStack) - 1]
      /\ activations' = Front(activations) /\ errorHandler' = errorHandler
      /\ UNCHANGED <<callStackLock, callee, usage, seen, backward, fault>>
  BY DEF Return, PopFrame, At, viewVars
<1>2. /\ Len(callStack) \in Nat /\ Depth = Len(callStack) /\ callee = NULL
      /\ Len(activations) \in Nat /\ Len(activations) >= 1
      /\ DOMAIN activations = 1 .. Len(activations)
      /\ Innermost = activations[Len(activations)] /\ activations # <<>>
  <2>1. pc # "dead" /\ callee = NULL
    BY <1>1 DEF IInv, ControlInv
  <2> QED BY <2>1, StackFacts
(* ... since the caller has one, too.                                      *)
<1>3. Len(callStack) - 1 \in 1 .. Len(callStack)
  <2> DEFINE n == Len(activations)
  <2>1. n \in DOMAIN activations /\ n # 1
    BY <1>1, <1>2 DEF IInv, ControlInv
  <2>2. n - 1 \in DOMAIN activations /\ n > 1
    BY <1>2, <2>1
  <2>3. Step[n] = 1
    BY <1>1, <1>2, <2>1 DEF Step
  <2>4. /\ Height[n] \in 1 .. Depth /\ Height[n - 1] \in 1 .. Depth
        /\ Height[n] >= Height[n - 1] + Step[n]
    BY <2>1, <2>2 DEF IInv, HeightInv
  <2> HIDE DEF n
  <2> QED BY <1>2, <2>3, <2>4
<1>4. /\ callStack' \in Seq(Frames) /\ Len(callStack') = Len(callStack) - 1
      /\ \A h \in 1 .. (Len(callStack) - 1) : callStack'[h] = callStack[h]
  <2>1. callStack \in Seq(Frames) /\ callStack # <<>>
    BY <1>2, <1>3 DEF IInv, TypeOK
  <2> QED BY <1>1, <2>1, FrontFacts
<1>5. currentCallState' = callStack[Len(callStack) - 1]
  BY <1>1, <1>2, <1>3
<1>6. Leaving(Len(callStack) - 1)
  BY <1>1, <1>4, <1>5 DEF Leaving
<1> QED BY <1>3, <1>6, LeaveStep

(* thingToExecute() returned: interpreter_xpcall leaves callStack alone.   *)
LEMMA UnprotectStep ==
  ASSUME IInv, Unprotect
  PROVE  IInv' /\ currentCallState' = Innermost.frame /\ Last(callStack') = Innermost.frame
<1>1. /\ pc = "run" /\ pc' = "run" /\ Innermost.kind = "xpcall"
      /\ errorHandler' = Innermost.prev /\ activations' = Front(activations)
      /\ UNCHANGED <<callStack, ready, currentCallState, callStackLock, callee,
                     usage, seen, backward, fault>>
  BY DEF Unprotect, At, stackVars, viewVars
<1>2. /\ Len(callStack) \in Nat /\ Depth = Len(callStack) /\ callee = NULL
      /\ Depth \in 1 .. Len(callStack)
      /\ Innermost = activations[Len(activations)] /\ activations # <<>>
      /\ Len(activations) \in DOMAIN activations
  <2>1. pc # "dead" /\ callee = NULL
    BY <1>1 DEF IInv, ControlInv
  <2> QED BY <2>1, StackFacts
<1>3. Height[Len(activations)] = Len(callStack)
  BY <1>1, <1>2 DEF IInv, HeightInv
<1>4. /\ currentCallState = callStack[Len(callStack)]
      /\ callStack[Len(callStack)] = Innermost.frame
  BY <1>1, <1>2, <1>3 DEF IInv, StackInv, HeightInv
<1>5. callStack' \in Seq(Frames) /\ Last(callStack') = callStack[Len(callStack)]
  <2>1. callStack \in Seq(Frames) /\ callStack # <<>>
    BY <1>2 DEF IInv, TypeOK
  <2> QED BY <1>1, <2>1, FrontFacts
<1>6. Leaving(Len(callStack))
  BY <1>1, <1>3, <1>4, <1>5 DEF Leaving
<1> QED BY <1>1, <1>2, <1>4, <1>5, <1>6, LeaveStep

(* The unwinding pops every frame above that of the function which called  *)
(* interpreter_xpcall; it is there to be found.                            *)
LEMMA UnwindStep ==
  ASSUME IInv, Unwind
  PROVE  IInv' /\ currentCallState' = Innermost.frame /\ Last(callStack') = Innermost.frame
<1> DEFINE n == Len(activations)
<1> DEFINE d == Height[n]
<1>1. /\ pc = "unwind" /\ Innermost.kind = "handler" /\ callStackLock = NULL
      /\ UNCHANGED <<callStackLock, callee, usage, seen, backward>>
  BY DEF Unwind, Lose, At, stackVars, cVars, viewVars, IInv, ControlInv
<1>2. /\ Len(callStack) \in Nat /\ Depth = Len(callStack) /\ callee = NULL
      /\ DOMAIN callStack = 1 .. Len(callStack)
      /\ Innermost = activations[n] /\ activations # <<>>
      /\ n \in DOMAIN activations
  <2>1. pc # "dead" /\ callee = NULL
    BY <1>1 DEF IInv, ControlInv
  <2> QED BY <2>1, StackFacts
<1>3. d \in 1 .. Len(callStack) /\ callStack[d] = Innermost.frame
  BY <1>2 DEF IInv, HeightInv
<1>4. Innermost.frame \in ToSet(callStack)
  BY <1>2, <1>3 DEF ToSet
<1>5. /\ callStack' = UpTo(Innermost.frame)
      /\ ready' = ready \cap ToSet(callStack')
      /\ currentCallState' = Innermost.frame /\ fault' = fault
      /\ errorHandler' = Innermost.prev /\ activations' = Front(activations)
      /\ pc' = "run"
  BY <1>4 DEF Unwind, Unprotected
<1>6. UpTo(Innermost.frame) = SubSeq(callStack, 1, d)
  <2>1. UpTo(Innermost.frame) = SubSeq(callStack, 1, PosIn(callStack, Innermost.frame))
    BY DEF UpTo, PosIn
  <2>2. d = PosIn(callStack, Innermost.frame)
    BY <1>2 DEF Height
  <2> QED BY <2>1, <2>2
<1> HIDE DEF d
<1>7. /\ callStack' \in Seq(Frames) /\ Len(callStack') = d
      /\ \A h \in 1 .. d : callStack'[h] = callStack[h]
  <2>1. d \in 0 .. Len(callStack) /\ callStack \in Seq(Frames)
    BY <1>2, <1>3 DEF IInv, TypeOK
  <2> QED BY <1>5, <1>6, <2>1, PrefixFacts
<1>8. Last(callStack') = Innermost.frame
  <2>1. callStack' # <<>>
    BY <1>3, <1>7
  <2>2. d \in 1 .. d
    BY <1>2, <1>3
  <2>3. Last(callStack') = callStack'[Len(callStack')]
    BY <1>7, <2>1, FrontFacts
  <2> QED BY <1>3, <1>7, <2>2, <2>3
<1>9. Leaving(d)
  <2>1. d = Height[Len(activations)]
    BY DEF d, n
  <2> QED BY <1>1, <1>3, <1>5, <1>7, <2>1 DEF Leaving
<1> QED BY <1>3, <1>5, <1>8, <1>9, LeaveStep

-----------------------------------------------------------------------------
(* The coroutine's own function returns, or an error reaches its block.    *)
Dying ==
  /\ pc \in {"run", "throw"} /\ pc' = "dead"
  /\ activations' = <<>> /\ errorHandler' = 0
  /\ \/ callStack' = callStack /\ currentCallState' = currentCallState
     \/ callStackLock = NULL /\ PopFrame
  /\ ready' \subseteq ready
  /\ UNCHANGED <<callStackLock, callee, usage, seen, backward, fault>>

(* So does a coroutine that dies of an error.                               *)
LEMMA DeadStep ==
  ASSUME IInv, Dying
  PROVE  IInv'
<1> USE ThreadsAssumption
<1>1. callee = NULL /\ pc # "dead" /\ callee' = NULL
  BY DEF Dying, IInv, ControlInv
<1>2. /\ callStack \in Seq(Frames) /\ callStack # <<>> /\ Len(callStack) \in Nat
      /\ Len(callStack) >= 1 /\ Len(callStack) <= MaxFrames
  <2>1. Depth \in 1 .. Len(callStack)
    BY <1>1, StackFacts
  <2> QED BY <2>1 DEF IInv, TypeOK
<1>3. PopFrame => /\ callStack' \in Seq(Frames) /\ Len(callStack') = Len(callStack) - 1
                  /\ \A i \in 1 .. (Len(callStack) - 1) : callStack'[i] = callStack[i]
                  /\ currentCallState' \in Frames \cup {NULL}
  <2>1. ASSUME Len(callStack) # 1 PROVE callStack[Len(callStack) - 1] \in Frames
    <3>1. Len(callStack) - 1 \in 1 .. Len(callStack)
      BY <1>2, <2>1, Before
    <3> QED BY <1>2, <3>1
  <2> QED BY <1>2, <2>1, FrontFacts DEF PopFrame
<1>4. TypeOK'
  <2>1. callStack' \in Seq(Frames) /\ Len(callStack') <= MaxFrames
    <3>1. CASE callStack' = callStack
      BY <1>2, <3>1
    <3>2. CASE PopFrame
      BY <1>2, <1>3, <3>2, BoundsAssumption
    <3> QED BY <3>1, <3>2 DEF Dying
  <2>2. currentCallState' \in Frames \cup {NULL}
    BY <1>3 DEF Dying, IInv, TypeOK
  <2>3. activations' \in Seq(Activation) /\ errorHandler' \in 0 .. Len(activations')
    BY DEF Dying
  <2> QED BY <2>1, <2>2, <2>3 DEF Dying, IInv, TypeOK
<1>5. \A i, j \in DOMAIN callStack' : callStack'[i] = callStack'[j] => i = j
  <2>1. CASE callStack' = callStack
    BY <2>1 DEF IInv, StackInv
  <2>2. CASE PopFrame
    <3>1. /\ DOMAIN callStack' = 1 .. (Len(callStack) - 1)
          /\ DOMAIN callStack = 1 .. Len(callStack)
      BY <1>2, <1>3, <2>2
    <3> QED BY <1>2, <1>3, <2>2, <3>1 DEF IInv, StackInv
  <2> QED BY <2>1, <2>2 DEF Dying
<1>6. DOMAIN activations' = {} /\ Len(activations') = 0
  BY DEF Dying
<1>7. ControlInv'
  BY <1>1, <1>6 DEF Dying, ControlInv
<1>8. ChainInv'
  BY <1>6 DEF Dying, ChainInv, Chained
<1>9. StackInv'
  BY <1>1, <1>5 DEF Dying, StackInv
<1>10. HeightInv' /\ NamedInv'
  BY <1>6 DEF Dying, HeightInv, NamedInv
<1>11. ViewInv'
  BY DEF Dying, IInv, ViewInv
<1> QED BY <1>4, <1>7, <1>8, <1>9, <1>10, <1>11 DEF IInv

(* The first elements of a sequence, the last of them replaced.            *)
LEMMA ReplaceFacts ==
  ASSUME NEW S, NEW s \in Seq(S), NEW e \in 1 .. Len(s), NEW x \in S,
         NEW t, t = Append(SubSeq(s, 1, e - 1), x)
  PROVE  /\ t \in Seq(S) /\ Len(t) = e /\ DOMAIN t = 1 .. e
         /\ t[e] = x /\ \A i \in 1 .. (e - 1) : t[i] = s[i]
<1>1. e - 1 \in 0 .. Len(s) /\ e \in Nat
  OBVIOUS
<1>2. /\ SubSeq(s, 1, e - 1) \in Seq(S) /\ Len(SubSeq(s, 1, e - 1)) = e - 1
      /\ \A i \in 1 .. (e - 1) : SubSeq(s, 1, e - 1)[i] = s[i]
  BY <1>1, PrefixFacts
<1>3. PICK u : u = SubSeq(s, 1, e - 1)
  OBVIOUS
<1>4. u \in Seq(S) /\ Len(u) = e - 1 /\ \A i \in 1 .. (e - 1) : u[i] = s[i] /\ t = Append(u, x)
  BY <1>2, <1>3
<1>5. /\ t \in Seq(S) /\ Len(t) = Len(u) + 1
      /\ \A i \in 1 .. Len(u) : t[i] = u[i]
      /\ t[Len(u) + 1] = x
  BY <1>3, <1>2, AppendProperties
<1> QED BY <1>1, <1>4, <1>5

(* An activation that has got an error to handle.                          *)
LEMMA HandlerFacts ==
  ASSUME NEW a \in Activation
  PROVE  /\ [a EXCEPT !.kind = "handler"] \in Activation
         /\ [a EXCEPT !.kind = "handler"].kind = "handler"
         /\ [a EXCEPT !.kind = "handler"].frame = a.frame
         /\ [a EXCEPT !.kind = "handler"].prev = a.prev
  BY DEF Activation, Functions

(* interpreter_error: the innermost protected call handles the error, on   *)
(* top of the frames of the functions it abandons.                         *)
LEMMA ThrowStep ==
  ASSUME IInv, Throw
  PROVE  /\ IInv'
         /\ pc' # "dead" => activations' = activations \/ Len(activations') = errorHandler
<1> USE ThreadsAssumption, BoundsAssumption
<1> DEFINE e == errorHandler
<1>1. /\ pc \in {"run", "throw"} /\ callee = NULL /\ pc # "dead"
      /\ Len(callStack) \in Nat /\ Depth = Len(callStack) /\ Depth >= 1
      /\ DOMAIN callStack = 1 .. Len(callStack)
      /\ Len(activations) \in Nat /\ DOMAIN activations = 1 .. Len(activations)
      /\ activations \in Seq(Activation)
  <2>1. pc \in {"run", "throw"}
    BY DEF Throw, At
  <2>2. callee = NULL
    BY <2>1 DEF IInv, ControlInv
  <2> QED BY <2>1, <2>2, StackFacts DEF IInv, TypeOK
<1>2. CASE e = 0
  <2>1. /\ fault' = "unhandled"
        /\ UNCHANGED <<callStack, ready, currentCallState, callStackLock, activations,
                       errorHandler, pc, callee, usage, seen, backward>>
    BY <1>2 DEF Throw, Lose, stackVars, cVars, viewVars
  <2>2. TypeOK' /\ ViewInv'
    BY <2>1 DEF IInv, TypeOK, ViewInv
  <2>3. IInv'
    BY <2>1, <2>2, ObserverStep DEF stackVars, cVars
  <2> QED BY <2>1, <2>3
<1>3. CASE e # 0 /\ activations[e].kind = "task"
  <2>1. Dying
    BY <1>1, <1>3 DEF Throw, stackVars, viewVars, Dying
  <2>2. IInv' /\ pc' = "dead"
    BY <2>1, DeadStep DEF Dying
  <2> QED BY <2>2
<1>4. CASE e # 0 /\ activations[e].kind # "task"
  <2>1. /\ activations' = Append(SubSeq(activations, 1, e - 1),
                              [activations[e] EXCEPT !.kind = "handler"])
        /\ pc' \in {"run", "unwind"}
        /\ UNCHANGED <<callStack, ready, currentCallState, callStackLock, errorHandler,
                       callee, usage, seen, backward, fault>>
    BY <1>4 DEF Throw, stackVars, viewVars
  <2>2. /\ e \in 1 .. Len(activations) /\ activations[e].kind \in {"xpcall", "handler"}
        /\ Chained(activations, e, activations[e].prev) /\ activations[e] \in Activation
    BY <1>1, <1>4 DEF IInv, ChainInv, Chained, Protected, TypeOK
  <2> HIDE DEF e
  <2>3. PICK a : /\ a = [activations[e] EXCEPT !.kind = "handler"] /\ a \in Activation
                 /\ a.kind = "handler" /\ a.frame = activations[e].frame
                 /\ a.prev = activations[e].prev
    BY <2>2, HandlerFacts
  <2>4. activations' = Append(SubSeq(activations, 1, e - 1), a)
    BY <2>1, <2>3
  <2>5. /\ activations' \in Seq(Activation) /\ Len(activations') = e
        /\ DOMAIN activations' = 1 .. e
        /\ activations'[e] = a
        /\ \A i \in 1 .. (e - 1) : activations'[i] = activations[i]
    BY <1>1, <2>2, <2>3, <2>4, ReplaceFacts
  <2>6. /\ activations'[e].kind = "handler" /\ activations'[e].frame = activations[e].frame
        /\ activations'[e].prev = activations[e].prev
    BY <2>3, <2>5
  <2>7. \A i \in 1 .. e : /\ activations'[i].frame = activations[i].frame
                          /\ activations'[i].prev = activations[i].prev
                          /\ \/ activations'[i].kind = activations[i].kind
                             \/ /\ activations'[i].kind = "handler"
                                /\ activations[i].kind = "xpcall"
    <3> SUFFICES ASSUME NEW i \in 1 .. e
                 PROVE  /\ activations'[i].frame = activations[i].frame
                        /\ activations'[i].prev = activations[i].prev
                        /\ \/ activations'[i].kind = activations[i].kind
                           \/ /\ activations'[i].kind = "handler"
                              /\ activations[i].kind = "xpcall"
      OBVIOUS
    <3>1. CASE i = e
      BY <2>2, <2>6, <3>1
    <3>2. CASE i # e
      <4>1. i \in 1 .. (e - 1)
        BY <2>2, <3>2
      <4> QED BY <2>5, <4>1
    <3> QED BY <3>1, <3>2
  <2>8. HeightInv' /\ NamedInv'
    <3>1. Len(callStack) \in Height[e] .. Len(callStack)
      BY <1>1, <2>2 DEF IInv, HeightInv
    <3>2. \/ activations'[e].kind = activations[e].kind
          \/ activations'[e].kind = "handler" /\ activations[e].kind = "xpcall"
      BY <2>2, <2>6
    <3>3. callee' = NULL /\ callStack' = callStack /\ callStack \in Seq(Frames)
      BY <1>1, <2>1 DEF IInv, TypeOK
    <3> QED BY <1>1, <2>2, <2>5, <2>6, <2>7, <3>1, <3>2, <3>3, LeaveHeights
  <2>9. TypeOK'
    <3>1. errorHandler' \in 0 .. Len(activations')
      BY <2>1, <2>2, <2>5 DEF e
    <3> QED BY <2>1, <2>5, <3>1 DEF IInv, TypeOK
  <2>10. Innermost' = activations'[e] /\ activations' # <<>>
    <3>1. activations' # <<>>
      BY <2>2, <2>5
    <3> QED BY <2>5, <3>1, FrontFacts DEF Innermost
  <2>11. ControlInv'
    <3>1. \A i \in DOMAIN activations' : activations'[i].kind \in {"native", "task"} <=> i = 1
      <4> SUFFICES ASSUME NEW i \in 1 .. e
                   PROVE  activations'[i].kind \in {"native", "task"} <=> i = 1
        BY <2>5
      <4>1. activations[i].kind \in {"native", "task"} <=> i = 1
        BY <1>1, <2>2 DEF IInv, ControlInv
      <4> QED BY <2>7, <4>1
    <3>2. errorHandler' = Len(activations')
      BY <2>1, <2>5 DEF e
    <3> QED BY <1>1, <2>1, <2>6, <2>10, <3>1, <3>2 DEF ControlInv
  <2>12. ChainInv'
    <3>1. /\ \A i \in 1 .. e : activations'[i].kind \in {"xpcall", "handler"} =>
                                 Chained(activations', i, activations'[i].prev)
      <4>1. e \in 0 .. Len(activations) /\ e <= Len(activations')
        BY <1>1, <2>2, <2>5
      <4> QED BY <2>5, <2>7, <4>1, ChainsKept DEF IInv
    <3>2. Chained(activations', e + 1, e)
      BY <2>2, <2>5, <2>6 DEF Chained, Protected
    <3>3. errorHandler' = e
      BY <2>1 DEF e
    <3> QED BY <2>5, <3>1, <3>2, <3>3 DEF ChainInv
  <2>13. StackInv'
    BY <1>1, <2>1 DEF IInv, StackInv, Depth
  <2>14. ViewInv'
    BY <2>1 DEF IInv, ViewInv
  <2>15. IInv'
    BY <2>8, <2>9, <2>11, <2>12, <2>13, <2>14 DEF IInv
  <2>16. Len(activations') = errorHandler
    BY <2>5 DEF e
  <2> QED BY <2>15, <2>16
<1> QED BY <1>2, <1>3, <1>4

(* The coroutine's own function returned.                                  *)
LEMMA EndStep ==
  ASSUME IInv, End
  PROVE  IInv'
<1>1. ready' \subseteq ready
  BY DEF End, PopFrame
<1>2. Dying
  BY <1>1 DEF End, At, Dying, viewVars
<1> QED BY <1>2, DeadStep

-----------------------------------------------------------------------------
(* An observer takes the lock and notes how many frames there are.         *)
LEMMA IterateBeginStep ==
  ASSUME IInv, NEW o \in Observers, NEW b \in BOOLEAN, IterateBegin(o, b)
  PROVE  IInv'
<1> USE ThreadsAssumption
<1>1. UNCHANGED <<stackVars, cVars>> /\ fault' = fault
  BY DEF IterateBegin
<1>2. Len(callStack) \in 0 .. MaxFrames /\ 0 \in 0 .. MaxFrames
  BY BoundsAssumption DEF IInv, TypeOK
<1>3. /\ callStackLock = NULL /\ callStackLock' = o
      /\ usage' \in [Observers -> 0 .. MaxFrames] /\ seen' \in [Observers -> 0 .. MaxFrames]
      /\ backward' \in [Observers -> BOOLEAN]
      /\ usage'[o] = Len(callStack) /\ seen'[o] = 0
      /\ \A q \in Observers : q # o => usage'[q] = usage[q] /\ seen'[q] = seen[q]
  BY <1>2 DEF IterateBegin, IInv, TypeOK
<1>4. TypeOK'
  BY <1>1, <1>3 DEF stackVars, cVars, IInv, TypeOK
<1>5. ViewInv'
  <2>1. callStackLock' # Executor
    BY <1>3
  <2>2. ASSUME NEW q \in Observers PROVE seen'[q] <= usage'[q]
    BY <1>2, <1>3 DEF IInv, ViewInv
  <2>3. ASSUME NEW q \in Observers, callStackLock' = q PROVE usage'[q] = Len(callStack')
    BY <1>1, <1>3, <2>3 DEF stackVars
  <2> QED BY <2>1, <2>2, <2>3 DEF ViewInv
<1> QED BY <1>1, <1>4, <1>5, ObserverStep

(* ... visits a frame, or finds one it should not have found ...           *)
LEMMA VisitStep ==
  ASSUME IInv, NEW o \in Observers, Visit(o)
  PROVE  IInv'
<1>1. /\ UNCHANGED <<stackVars, cVars, callStackLock, usage, backward>>
      /\ seen[o] < usage[o]
      /\ \/ seen' = seen /\ fault' \in {"null_frame", "unset_closure"}
         \/ seen' = [seen EXCEPT ![o] = seen[o] + 1] /\ fault' = fault
  BY DEF Visit, Lose, viewVars
<1>2. /\ seen \in [Observers -> 0 .. MaxFrames] /\ usage[o] \in 0 .. MaxFrames
      /\ seen[o] \in 0 .. MaxFrames /\ MaxFrames \in Nat
      /\ \A q \in Observers : usage[q] \in 0 .. MaxFrames
  BY BoundsAssumption DEF IInv, TypeOK
<1>3. /\ seen' \in [Observers -> 0 .. MaxFrames]
      /\ \A q \in Observers : seen'[q] = seen[q] \/ (q = o /\ seen'[q] = seen[o] + 1)
  <2>1. seen[o] + 1 \in 0 .. MaxFrames
    BY <1>1, <1>2
  <2>2. CASE seen' = seen
    BY <1>2, <2>2
  <2>3. CASE seen' = [seen EXCEPT ![o] = seen[o] + 1]
    BY <1>2, <2>1, <2>3
  <2> QED BY <1>1, <2>2, <2>3
<1>4. TypeOK'
  BY <1>1, <1>3 DEF stackVars, cVars, IInv, TypeOK
<1>5. ViewInv'
  <2>1. ASSUME NEW q \in Observers PROVE seen'[q] <= usage'[q]
    <3>1. seen[q] <= usage[q] /\ usage'[q] = usage[q]
      BY <1>1 DEF IInv, ViewInv
    <3> QED BY <1>1, <1>2, <1>3, <3>1
  <2>2. UNCHANGED <<callStack, callee, callStackLock, usage>>
    BY <1>1 DEF stackVars, cVars
  <2>3. /\ callStackLock' # Executor
        /\ \A q \in Observers : callStackLock' = q =>
             /\ usage'[q] \in {Len(callStack'), Len(callStack') + 1}
             /\ callee' # NULL \/ ~LateAllocFails => usage'[q] = Len(callStack')
    BY <2>2 DEF IInv, ViewInv
  <2> QED BY <2>1, <2>3 DEF ViewInv
<1> QED BY <1>1, <1>4, <1>5, ObserverStep

(* ... and gives the lock back.                                            *)
LEMMA IterateEndStep ==
  ASSUME IInv, NEW o \in Observers, IterateEnd(o)
  PROVE  IInv'
<1> USE ThreadsAssumption
<1>1. UNCHANGED <<stackVars, cVars>> /\ fault' = fault
  BY DEF IterateEnd
<1>2. 0 \in 0 .. MaxFrames
  BY BoundsAssumption
<1>3. /\ callStackLock' = NULL
      /\ usage' \in [Observers -> 0 .. MaxFrames] /\ seen' \in [Observers -> 0 .. MaxFrames]
      /\ backward' \in [Observers -> BOOLEAN]
      /\ usage'[o] = 0 /\ seen'[o] = 0
      /\ \A q \in Observers : q # o => usage'[q] = usage[q] /\ seen'[q] = seen[q]
  BY <1>2 DEF IterateEnd, IInv, TypeOK
<1>4. TypeOK'
  BY <1>1, <1>3 DEF stackVars, cVars, IInv, TypeOK
<1>5. ViewInv'
  <2>1. callStackLock' # Executor /\ \A q \in Observers : callStackLock' # q
    BY <1>3
  <2>2. ASSUME NEW q \in Observers PROVE seen'[q] <= usage'[q]
    BY <1>3 DEF IInv, ViewInv
  <2> QED BY <2>1, <2>2 DEF ViewInv
<1> QED BY <1>1, <1>4, <1>5, ObserverStep

-----------------------------------------------------------------------------
(* The invariant holds when the coroutine or the thread starts ...         *)
LEMMA InitInv == Init => IInv
<1> USE ThreadsAssumption, BoundsAssumption
<1> SUFFICES ASSUME Init PROVE IInv
  OBVIOUS
<1>1. PICK f \in Frames, kind \in {"native", "task"} :
        /\ callStack = <<f>> /\ ready = {f} /\ currentCallState = f
        /\ activations = <<[kind |-> kind, frame |-> f, prev |-> 0]>>
        /\ errorHandler = IF kind = "task" THEN 1 ELSE 0
  BY DEF Init
<1>2. /\ callStackLock = NULL /\ pc = "run" /\ callee = NULL
      /\ usage = [o \in Observers |-> 0] /\ seen = [o \in Observers |-> 0]
      /\ backward = [o \in Observers |-> FALSE] /\ fault = "none"
  BY DEF Init
<1>3. PICK a \in Activation : /\ activations = <<a>> /\ a.kind = kind /\ a.frame = f
                              /\ a.prev = 0
  <2>1. [kind |-> kind, frame |-> f, prev |-> 0] \in Activation
    BY DEF Activation, Functions
  <2> QED BY <1>1, <2>1
<1>4. /\ activations \in Seq(Activation) /\ Len(activations) = 1 /\ DOMAIN activations = {1}
      /\ activations[1] = a /\ activations # <<>>
  BY <1>3
<1>5. /\ callStack \in Seq(Frames) /\ Len(callStack) = 1 /\ DOMAIN callStack = {1}
      /\ callStack[1] = f
  BY <1>1
<1>6. Depth = 1 /\ Height[1] = 1 /\ Innermost = a
  <2>1. PosIn(callStack, callStack[1]) = 1
    BY <1>5, PosIs
  <2>2. Last(activations) = a
    BY <1>4, FrontFacts
  <2> QED BY <1>2, <1>3, <1>4, <1>5, <2>1, <2>2 DEF Depth, Height, Innermost
<1>7. errorHandler \in {0, 1} /\ (errorHandler = 1 <=> kind = "task")
  BY <1>1
<1>8. TypeOK
  <2>1. errorHandler \in 0 .. Len(activations)
    BY <1>4, <1>7
  <2>2. usage \in [Observers -> 0 .. MaxFrames] /\ seen \in [Observers -> 0 .. MaxFrames]
    BY <1>2
  <2> QED BY <1>1, <1>2, <1>4, <1>5, <2>1, <2>2 DEF TypeOK
<1>9. ControlInv
  BY <1>1, <1>2, <1>3, <1>4 DEF ControlInv
<1>10. ChainInv
  <2>1. Chained(activations, 2, errorHandler)
    BY <1>1, <1>3, <1>4, <1>7 DEF Chained, Plain, Protected
  <2> QED BY <1>1, <1>3, <1>4, <2>1 DEF ChainInv
<1>11. StackInv
  BY <1>1, <1>2, <1>5, <1>6 DEF StackInv
<1>12. HeightInv
  BY <1>3, <1>4, <1>5, <1>6 DEF HeightInv
<1>13. NamedInv
  BY <1>1, <1>3, <1>4, <1>6 DEF NamedInv, Functions
<1>14. ViewInv
  BY <1>2 DEF ViewInv
<1> QED BY <1>8, <1>9, <1>10, <1>11, <1>12, <1>13, <1>14 DEF IInv

(* ... and every step keeps it.                                            *)
LEMMA StepInv == Discipline /\ IInv /\ [Next]_vars => IInv'
<1> SUFFICES ASSUME Discipline, IInv, [Next]_vars PROVE IInv'
  OBVIOUS
<1>1. ASSUME NEW f \in Frames, Call(f) PROVE IInv'
  BY <1>1, CallStep
<1>2. CASE CallUnallocated \/ CallFill \/ HandlerDone
  BY <1>2, PcStep
<1>3. CASE CallEnter \/ Protect
  <2>1. CASE pc' = "run"
    BY <1>3, <2>1, EnterStep
  <2>2. CASE pc' # "run"
    <3>1. ~Protect
      BY <2>2 DEF Protect, At
    <3> QED BY <1>3, <2>2, <3>1, GiveUpStep
  <2> QED BY <2>1, <2>2
<1>4. CASE Return
  BY <1>4, ReturnStep
<1>5. CASE End
  BY <1>5, EndStep
<1>6. CASE Unprotect
  BY <1>6, UnprotectStep
<1>7. CASE Throw
  BY <1>7, ThrowStep
<1>8. CASE Unwind
  BY <1>8, UnwindStep
<1>9. ASSUME NEW o \in Observers, NEW b \in BOOLEAN, IterateBegin(o, b) PROVE IInv'
  BY <1>9, IterateBeginStep
<1>10. ASSUME NEW o \in Observers, Visit(o) \/ IterateEnd(o) PROVE IInv'
  BY <1>10, VisitStep, IterateEndStep
<1>11. CASE UNCHANGED vars
  <2>1. /\ UNCHANGED <<stackVars, cVars, callStackLock, usage, seen, backward, fault>>
    BY <1>11 DEF vars, viewVars
  <2>2. TypeOK' /\ ViewInv'
    BY <2>1 DEF stackVars, cVars, IInv, TypeOK, ViewInv
  <2> QED BY <2>1, <2>2, ObserverStep
<1> QED BY <1>1, <1>2, <1>3, <1>4, <1>5, <1>6, <1>7, <1>8, <1>9, <1>10, <1>11 DEF Next

(* The inductive invariant of the call stack and the C stack.              *)
THEOREM Inductive == ASSUME Discipline PROVE Spec => []IInv
<1>1. Init => IInv
  BY InitInv
<1>2. IInv /\ [Next]_vars => IInv'
  BY StepInv
<1> QED BY <1>1, <1>2, PTL DEF Spec

(* Every variable keeps its type: the stack stays within its limit and     *)
(* errorHandler within the C stack.                                        *)
THEOREM TypeCorrect == ASSUME Discipline PROVE Spec => []TypeOK
<1>1. IInv => TypeOK
  BY DEF IInv
<1> QED BY <1>1, Inductive, PTL

(* An error jumps to the innermost protected call that is still running,   *)
(* or to the block of the coroutine, however the calls nest.               *)
THEOREM ErrorsJumpRight == ASSUME Discipline PROVE Spec => []JumpsToInnermost
<1>1. IInv => JumpsToInnermost
  <2> SUFFICES ASSUME IInv PROVE JumpsToInnermost
    OBVIOUS
  <2>1. /\ activations \in Seq(Activation) /\ DOMAIN activations = 1 .. Len(activations)
        /\ Len(activations) \in Nat /\ errorHandler \in 0 .. Len(activations)
    BY DEF IInv, TypeOK
  <2>2. Chained(activations, Len(activations) + 1, errorHandler)
    BY DEF IInv, ChainInv
  <2>3. errorHandler # 0 => /\ errorHandler \in DOMAIN activations
                            /\ activations[errorHandler].kind \notin {"call", "native"}
    BY <2>1, <2>2 DEF Chained, Protected
  <2>4. ASSUME NEW i \in DOMAIN activations, i > errorHandler
        PROVE  activations[i].kind \in {"call", "native"}
    BY <2>1, <2>2, <2>4 DEF Chained, Plain
  <2> QED BY <2>3, <2>4 DEF JumpsToInnermost
<1> QED BY <1>1, Inductive, PTL

(* Code runs with the top frame as currentCallState, but for the frame the *)
(* prolog is filling in.                                                   *)
THEOREM RunsOnTop == ASSUME Discipline PROVE Spec => []CurrentIsTop
<1>1. IInv => CurrentIsTop
  <2> USE ThreadsAssumption
  <2> SUFFICES ASSUME IInv, pc \in {"run", "fill", "alloc"}
               PROVE  /\ currentCallState # NULL
                      /\ \/ callStack # <<>> /\ Last(callStack) = currentCallState
                         \/ callee # NULL /\ callStack = Append(Front(callStack), callee)
                            /\ Last(Front(callStack)) = currentCallState
    BY DEF CurrentIsTop
  <2> DEFINE n == Len(callStack)
  <2>1. /\ pc # "dead" /\ callStack \in Seq(Frames) /\ n \in Nat
        /\ DOMAIN callStack = 1 .. n /\ Depth \in 1 .. n
        /\ callee = NULL => Depth = n
        /\ callee # NULL => Depth = n - 1
    <3>1. pc # "dead"
      OBVIOUS
    <3> QED BY <3>1, StackFacts DEF IInv, TypeOK
  <2>2. currentCallState = callStack[Depth] /\ currentCallState \in Frames
    <3>1. currentCallState = callStack[Depth]
      BY <2>1 DEF IInv, StackInv
    <3>2. \A i \in 1 .. n : callStack[i] \in Frames
      BY <2>1, ElementOfSeq
    <3> QED BY <2>1, <3>1, <3>2
  <2> HIDE DEF n
  <2>3. callStack # <<>>
    <3>1. n >= 1
      BY <2>1
    <3>2. Len(callStack) >= 1 => callStack # <<>>
      OBVIOUS
    <3> QED BY <3>1, <3>2 DEF n
  <2>4. /\ Last(callStack) = callStack[n]
        /\ Front(callStack) \in Seq(Frames) /\ Len(Front(callStack)) = n - 1
        /\ \A i \in 1 .. (n - 1) : Front(callStack)[i] = callStack[i]
    BY <2>1, <2>3, FrontFacts DEF n
  <2>5. CASE callee = NULL
    BY <2>1, <2>2, <2>3, <2>4, <2>5
  <2>6. CASE callee # NULL
    <3>1. Depth = n - 1 /\ n - 1 \in 1 .. (n - 1) /\ callStack[n] = callee /\ callee \in Frames
      BY <2>1, <2>6 DEF IInv, StackInv, TypeOK, n
    <3>2. PICK s : s = Front(callStack)
      OBVIOUS
    <3>3. Last(s) = currentCallState
      <4>1. s # <<>>
        BY <2>4, <3>1, <3>2
      <4>2. Last(s) = s[Len(s)]
        BY <2>4, <3>2, <4>1, FrontFacts
      <4> QED BY <2>2, <2>4, <3>1, <3>2, <4>2
    <3>4. callStack = Append(s, callee)
      <4>1. /\ Append(s, callee) \in Seq(Frames) /\ Len(Append(s, callee)) = n
            /\ \A i \in 1 .. (n - 1) : Append(s, callee)[i] = s[i]
            /\ Append(s, callee)[n] = callee
        <5>1. s \in Seq(Frames) /\ Len(s) = n - 1
          BY <2>4, <3>2
        <5>2. (n - 1) + 1 = n
          BY <2>1
        <5> QED BY <3>1, <5>1, <5>2, AppendProperties
      <4>2. ASSUME NEW i \in 1 .. n PROVE callStack[i] = Append(s, callee)[i]
        <5>1. i = n \/ i \in 1 .. (n - 1)
          BY <2>1
        <5> QED BY <2>4, <3>1, <3>2, <4>1, <5>1
      <4> QED BY <2>1, <4>1, <4>2, SeqEqual DEF n
    <3> QED BY <2>2, <2>6, <3>2, <3>3, <3>4
  <2> QED BY <2>5, <2>6
<1> QED BY <1>1, Inductive, PTL

(* interpreter_xpcall returns in the frame it was called in, whether what  *)
(* it protects returned or failed.                                         *)
THEOREM XpcallReturns == ASSUME Discipline PROVE Spec => XpcallReturnsToCaller
<1> DEFINE Returns == pc' = "run" /\ activations' = Front(activations)
                      /\ Innermost.kind \in {"xpcall", "handler"}
           Lands   == currentCallState' = Innermost.frame /\ Last(callStack') = Innermost.frame
<1>1. Discipline /\ IInv /\ Next => (Returns => Lands)
  <2> SUFFICES ASSUME Discipline, IInv, Next, Returns PROVE Lands
    OBVIOUS
  <2> DEFINE n == Len(activations)
(* ... as this one is the innermost of the C stack ...                     *)
  <2>1. pc # "dead" => /\ n \in Nat /\ n >= 1 /\ activations \in Seq(Activation)
                       /\ Len(activations') = n - 1 /\ activations' # activations
    <3> SUFFICES ASSUME pc # "dead"
                 PROVE  /\ n \in Nat /\ n >= 1 /\ activations \in Seq(Activation)
                        /\ Len(activations') = n - 1 /\ activations' # activations
      OBVIOUS
    <3>1. n \in Nat /\ n >= 1 /\ activations \in Seq(Activation) /\ activations # <<>>
      BY StackFacts DEF IInv, TypeOK
    <3>2. Len(activations') = n - 1
      BY <3>1, FrontFacts
    <3> QED BY <3>1, <3>2
  <2>2. ASSUME activations' = activations, pc' = pc PROVE FALSE
    BY <2>1, <2>2
  <2>3. ASSUME NEW a, activations' = Append(activations, a), a \in Activation, pc # "dead"
        PROVE  FALSE
    <3>1. Len(Append(activations, a)) = n + 1
      BY <2>1, <2>3, AppendProperties
    <3> QED BY <2>1, <2>3, <3>1
  <2>4. CASE Unprotect
    BY <2>4, UnprotectStep
  <2>5. CASE Unwind
    BY <2>5, UnwindStep
  <2>6. CASE CallEnter \/ Protect
    <3>1. PICK a \in Activation : activations' = Append(activations, a)
      BY <2>6, EnterFacts
    <3>2. pc # "dead"
      BY <2>6 DEF CallEnter, Protect, At
    <3> QED BY <2>3, <3>1, <3>2
  <2>7. CASE Throw
    <3>1. pc # "dead" /\ Innermost = activations[n] /\ n \in DOMAIN activations
      <4>1. pc # "dead"
        BY <2>7 DEF Throw, At
      <4> QED BY <4>1, StackFacts
    <3>2. Len(activations') = errorHandler
      BY <2>1, <2>7, <3>1, ThrowStep
    <3>3. Chained(activations, n + 1, errorHandler)
      BY DEF IInv, ChainInv
    <3> QED BY <2>1, <3>1, <3>2, <3>3 DEF Chained, Plain
  <2>8. ASSUME NEW f \in Frames, Call(f) PROVE FALSE
    BY <2>8 DEF Call, Discipline
  <2>9. CASE CallUnallocated \/ CallFill \/ Return \/ End \/ HandlerDone
    BY <2>9 DEF CallUnallocated, CallFill, Return, End, HandlerDone
  <2>10. ASSUME NEW o \in Observers,
                (\E b \in BOOLEAN : IterateBegin(o, b)) \/ Visit(o) \/ IterateEnd(o)
         PROVE  FALSE
    <3>1. activations' = activations /\ pc' = pc
      BY <2>10 DEF IterateBegin, Visit, IterateEnd, Lose, cVars
    <3> QED BY <2>2, <3>1
  <2> QED BY <2>4, <2>5, <2>6, <2>7, <2>8, <2>9, <2>10 DEF Next
<1> QED BY <1>1, Inductive, PTL DEF Spec, XpcallReturnsToCaller

(* While an observer iterates, the stack it iterates over stays as it is,  *)
(* but for the frame of a prolog that runs out of memory: whoever else     *)
(* changes callStack holds the lock, or found it free, and no second       *)
(* prolog begins before the lock is given back.                            *)
THEOREM ObserversSeeOneStack == ASSUME Discipline PROVE Spec => IterationIsStable
<1> DEFINE Iterated == callStackLock \in Observers /\ callStackLock' = callStackLock
           gone == usage[callStackLock] - Len(callStack')
           Kept == callStack' = callStack
                   /\ gone \in (IF LateAllocFails THEN {0, 1} ELSE {0})
           GivenUp == /\ LateAllocFails /\ pc = "alloc" /\ pc' = "throw" /\ gone = 1
                      /\ callStack' = Front(callStack) /\ Last(callStack) = callee
<1>1. Discipline /\ IInv /\ Next => (Iterated => Kept \/ GivenUp)
  <2> SUFFICES ASSUME Discipline, IInv, Next, Iterated PROVE Kept \/ GivenUp
    OBVIOUS
  <2>1. callStackLock # NULL
    BY ThreadsAssumption
  <2>2. /\ usage[callStackLock] \in {Len(callStack), Len(callStack) + 1}
        /\ callee # NULL \/ ~LateAllocFails => usage[callStackLock] = Len(callStack)
        /\ Len(callStack) \in Nat
    BY DEF IInv, ViewInv, TypeOK
  <2>3. CASE callStack' = callStack
    BY <2>2, <2>3
  <2>4. CASE CallEnter /\ pc' # "run"
    <3>1. /\ LateAllocFails /\ pc = "alloc" /\ pc' = "throw" /\ callStack' = Front(callStack)
      BY <2>4 DEF CallEnter, PopFrame, At
    <3>2. callStack # <<>> /\ Last(callStack) = callee
      BY <2>4, GiveUpStep
    <3>3. Len(callStack') = Len(callStack) - 1
      BY <3>1, <3>2, FrontFacts DEF IInv, TypeOK
    <3>4. usage[callStackLock] = Len(callStack)
      BY <2>2, <3>1 DEF IInv, ControlInv
    <3> QED BY <2>2, <3>1, <3>2, <3>3, <3>4
  <2>5. CASE CallEnter /\ pc' = "run"
    BY <2>3, <2>5 DEF CallEnter
  <2>6. CASE \/ CallUnallocated \/ CallFill \/ Protect \/ Unprotect \/ Throw \/ HandlerDone
    BY <2>3, <2>6 DEF CallUnallocated, CallFill, Protect, Unprotect, Throw, HandlerDone, Lose,
                stackVars
  <2>7. CASE \/ Return \/ End \/ Unwind \/ \E f \in Frames : Call(f)
    BY <2>1, <2>3, <2>7 DEF Return, End, Unwind, Call, Lose, stackVars
  <2>8. ASSUME NEW o \in Observers,
               (\E b \in BOOLEAN : IterateBegin(o, b)) \/ Visit(o) \/ IterateEnd(o)
        PROVE  callStack' = callStack
    BY <2>8 DEF IterateBegin, Visit, IterateEnd, Lose, stackVars
  <2> QED BY <2>3, <2>4, <2>5, <2>6, <2>7, <2>8 DEF Next
<1> QED BY <1>1, Inductive, PTL DEF Spec, IterationIsStable

(* The frames on the call stack are those of the functions in progress in  *)
(* the order of the C stack, with nothing in between but what errors being *)
(* handled abandoned.                                                      *)
THEOREM TraceHolds == ASSUME Discipline PROVE Spec => []TraceIsTrue
<1>1. IInv => TraceIsTrue
  <2> SUFFICES ASSUME IInv, pc = "run" PROVE TraceIsTrue
    BY DEF TraceIsTrue
  <2> DEFINE n == Len(activations)
  <2>1. /\ n \in DOMAIN activations /\ 1 \in DOMAIN activations /\ activations # <<>>
        /\ Innermost = activations[n] /\ DOMAIN activations = 1 .. n /\ n \in Nat
        /\ DOMAIN callStack = 1 .. Len(callStack) /\ Depth = Len(callStack)
        /\ Len(callStack) \in Nat
    <3>1. pc # "dead" /\ callee = NULL
      BY DEF IInv, ControlInv
    <3> QED BY <3>1, StackFacts
  <2>2. \A h, k \in DOMAIN callStack : callStack[h] = callStack[k] => h = k
    BY DEF IInv, StackInv
  <2>3. \A i \in DOMAIN activations : /\ Height[i] \in DOMAIN callStack
                                      /\ callStack[Height[i]] = activations[i].frame
    BY <2>1 DEF IInv, HeightInv
  <2>4. \A i \in DOMAIN activations : activations[i].frame \in ToSet(callStack)
    BY <2>3 DEF ToSet
(* The bottom frame is that of the only function at the first activation.  *)
  <2>5. Height[1] = 1
    <3>1. Height[1] \in Nat /\ Height[1] >= 1
      BY <2>1, <2>3
    <3>2. 1 \in 1 .. Height[1]
      BY <3>1
    <3>3. \A j \in DOMAIN activations : j < 1 => activations[j].kind # "handler"
      BY <2>1
    <3>4. PICK j \in 1 .. 1 : Height[j] = 1
      BY <2>1, <3>2, <3>3 DEF IInv, NamedInv
    <3> QED BY <3>4
  <2>6. ASSUME NEW i \in DOMAIN activations \ {1}
        PROVE  /\ Height[i] >= Height[i - 1] + Step[i]
               /\ activations[i - 1].kind # "handler" => Height[i] = Height[i - 1] + Step[i]
    <3>1. i > 1
      BY <2>1
    <3> QED BY <3>1 DEF IInv, HeightInv
  <2>7. Innermost.kind # "handler" => Height[n] = Len(callStack)
    BY <2>1 DEF IInv, HeightInv
  <2> QED BY <2>2, <2>4, <2>5, <2>6, <2>7 DEF TraceIsTrue
<1> QED BY <1>1, Inductive, PTL

(* Before an error is handled the frames others see are those of the       *)
(* functions in progress and no others, in the order of the calls.         *)
Handlers == {i \in DOMAIN activations : activations[i].kind = "handler"}
FramesAreCalls ==
  pc = "run" /\ Handlers = {} =>
    /\ ToSet(callStack) =
         {activations[i].frame : i \in {j \in DOMAIN activations : activations[j].kind \in Functions}}
    /\ \A i, j \in DOMAIN activations, h, k \in DOMAIN callStack :
         i < j /\ callStack[h] = activations[i].frame /\ callStack[k] = activations[j].frame
           => h <= k

(* ... for any depth of calls and protected calls.                         *)
THEOREM TraceNamesCalls == ASSUME Discipline PROVE Spec => []FramesAreCalls
<1>1. IInv => FramesAreCalls
  <2> SUFFICES ASSUME IInv, pc = "run", Handlers = {}
               PROVE  /\ ToSet(callStack) = {activations[i].frame : i \in
                          {j \in DOMAIN activations : activations[j].kind \in Functions}}
                      /\ \A i, j \in DOMAIN activations, h, k \in DOMAIN callStack :
                           i < j /\ callStack[h] = activations[i].frame
                                 /\ callStack[k] = activations[j].frame => h <= k
    BY DEF FramesAreCalls
  <2> DEFINE n == Len(activations)
  <2>1. /\ n \in DOMAIN activations /\ DOMAIN activations = 1 .. n /\ activations # <<>>
        /\ Innermost = activations[n]
        /\ DOMAIN callStack = 1 .. Len(callStack) /\ Depth = Len(callStack)
        /\ Len(callStack) \in Nat
    <3>1. pc # "dead" /\ callee = NULL
      BY DEF IInv, ControlInv
    <3> QED BY <3>1, StackFacts
  <2>2. \A i \in DOMAIN activations : activations[i].kind # "handler"
    BY DEF Handlers
  <2>3. \A i \in DOMAIN activations : /\ Height[i] \in DOMAIN callStack
                                      /\ callStack[Height[i]] = activations[i].frame
    BY <2>1 DEF IInv, HeightInv
  <2>4. Height[n] = Len(callStack)
    BY <2>1, <2>2 DEF IInv, HeightInv
  <2>5. ASSUME NEW h \in DOMAIN callStack
        PROVE  \E j \in DOMAIN activations : /\ activations[j].kind \in Functions
                                             /\ callStack[h] = activations[j].frame
    <3>1. PICK j \in 1 .. n : activations[j].kind \in Functions /\ Height[j] = h
      BY <2>1, <2>2, <2>4 DEF IInv, NamedInv
    <3> QED BY <2>1, <2>3, <3>1
  <2>6. ToSet(callStack) = {activations[i].frame : i \in
            {j \in DOMAIN activations : activations[j].kind \in Functions}}
    BY <2>3, <2>5 DEF ToSet
  <2>7. ASSUME NEW i \in DOMAIN activations, NEW j \in DOMAIN activations,
               NEW h \in DOMAIN callStack, NEW k \in DOMAIN callStack, i < j,
               callStack[h] = activations[i].frame, callStack[k] = activations[j].frame
        PROVE  h <= k
    <3>1. Height[i] = h /\ Height[j] = k
      BY <2>3, <2>7 DEF IInv, StackInv
    <3> QED BY <2>7, <3>1 DEF IInv, HeightInv
  <2> QED BY <2>6, <2>7
<1> QED BY <1>1, Inductive, PTL
=============================================================================
