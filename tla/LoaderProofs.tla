----------------------------- MODULE LoaderProofs -----------------------------
(***************************************************************************)
(* Proofs about Loader, for any number of threads and any documents: the    *)
(* calls clean up after themselves, what they build is held by a root, and   *)
(* what they fail of is explained.                                         *)
(***************************************************************************)
EXTENDS Loader, TLAPS

Kinds == {"document", "parse", "data", "end", "constants", "constant", "proto", "protos", "instructions",
          "lineinfo", "bytecode", "unpack", "values", "constantsObject", "string", "number",
          "prototype", "name", "prototypes", "lineInfo", "done"}
Pairs == Kinds \X Seq(Nat)
Loads == [doc : Documents \cup {NULL}, json : BOOLEAN, task : Pairs, mem : SUBSET Pairs,
          why : Messages, failed : {<<>>} \cup Pairs, answer : BOOLEAN]

Types ==
  /\ lock \in Threads \cup {NULL}
  /\ pc \in [Threads -> {"idle", "lock", "validate", "translate", "error", "construct"}]
  /\ load \in [Threads -> Loads]
  /\ built \in [Threads -> SUBSET Pairs]
  /\ linked \in [Threads -> SUBSET Pairs]
  /\ rooted \in [Threads -> SUBSET Pairs]
  /\ slot \in [Threads -> Messages]
  /\ fault \in {"none", "null_constant", "no_name"}

(* There is no document to delete.                                         *)
Unparsed(l) == l.doc.defect = "syntax" \/ l.failed = <<"parse", <<>>>>

(* The lock: its owner translates, has failed and not yet let go, or has     *)
(* failed to parse.                                                        *)
Own(t) ==
  /\ pc[t] \in {"validate", "translate", "error"} => lock = t
  /\ lock = t => \/ pc[t] \in {"lock", "validate", "translate", "error"}
                 \/ pc[t] = "idle" /\ Unparsed(load[t]) /\ ~load[t].answer
  /\ pc[t] \in {"translate", "error"} => (load[t].json <=> ~Unparsed(load[t]))
  /\ pc[t] = "translate" => load[t].json
  /\ pc[t] # "idle" => load[t].doc \in Documents /\ ~load[t].answer

Parts == {"constants", "constant", "proto", "protos", "instructions", "lineinfo", "end"}

(* What message is left for what failed.                                   *)
Explains(m, what) ==
  /\ m # "none"
  /\ what = "document" => m \in {"text", "nested"}
  /\ m \in {"text", "unpack", "invalid"} /\ what # "document" => what \in {"parse", "unpack", "string"}
  /\ m = "nested" => what \in {"document", "parse"}

(* Memory and message: both are settled when the call fails.                *)
Why(t) ==
  /\ pc[t] \in {"lock", "validate", "translate", "construct"} => load[t].failed = <<>>
  /\ pc[t] \in {"lock", "validate"} => load[t].mem = {}
  /\ pc[t] = "translate" => /\ load[t].task[1] \in Parts
                            /\ load[t].task[1] = "constant" => load[t].task[2] # <<>>
  /\ pc[t] = "error" => /\ load[t].failed # <<>>
                        /\ load[t].why \in {"text", "none", "outOfMemory"}
                        /\ load[t].why = "text" <=> load[t].failed[1] \in {"document", "parse"}
                        /\ load[t].why = "none" => slot[t] = "outOfMemory"
  /\ pc[t] \in {"error", "idle"} => (load[t].mem # {} => load[t].failed[2] # <<>>)
  /\ pc[t] = "idle" /\ load[t].failed # <<>> => Explains(slot[t], load[t].failed[1])

(* Objects.  B were built, L are linked, R are rooted.                      *)
ConstantsObject == <<"constantsObject", <<>>>>
Prototype(p, n)  == <<"prototype", SubSeq(p, 1, n)>>
Prototypes(p, n) == <<"prototypes", SubSeq(p, 1, n)>>
OfPrototype == {"prototype", "name", "prototypes", "instructions", "lineInfo", "done"}

Whole(B, L, R) ==
  /\ B = L \cup R
  /\ \A o \in B : Chain(o) \subseteq B
  /\ B # {} => Bytecode \in R

(* The allocations that construction consists of, what each of them finds    *)
(* built, and the roots there may be before it.                            *)
Allocation(o) ==
  \/ o \in {Bytecode, End, <<"unpack", <<>>>>, <<"values", <<>>>>, ConstantsObject}
  \/ o[1] \in {"string", "number"} /\ o[2] # <<>>
  \/ o[1] \in OfPrototype
Ready(B, o) ==
  /\ o # Bytecode => Bytecode \in B
  /\ o[1] \in {"string", "number"} => ConstantsObject \in B
  /\ o[1] \in OfPrototype => \A n \in 0 .. Len(o[2]) :
       /\ n < Len(o[2]) \/ o[1] # "prototype" => Prototype(o[2], n) \in B
       /\ n < Len(o[2]) \/ o[1] \in {"instructions", "lineInfo", "done"} => Prototypes(o[2], n) \in B
Open(o) == IF o[1] \in OfPrototype
             THEN {Bytecode} \cup {Prototype(o[2], n) : n \in 0 .. Len(o[2])}
             ELSE {Bytecode}

Obj(t) ==
  /\ Whole(built[t], linked[t], rooted[t])
  /\ pc[t] \in {"lock", "validate", "translate", "error"} => built[t] = {}
  /\ pc[t] = "idle" => rooted[t] = IF load[t].answer THEN {Bytecode} ELSE {}
  /\ pc[t] = "construct" => /\ Allocation(load[t].task)
                            /\ Ready(built[t], load[t].task)
                            /\ rooted[t] \subseteq Open(load[t].task)

IInv == Types /\ \A t \in Threads : Own(t) /\ Why(t) /\ Obj(t)

-----------------------------------------------------------------------------
(* A prefix of a path is a path.                                           *)
LEMMA PrefixIsPath ==
  ASSUME NEW p \in Seq(Nat), NEW n \in 0 .. Len(p)
  PROVE  SubSeq(p, 1, n) \in Seq(Nat) /\ Len(SubSeq(p, 1, n)) = n
OBVIOUS

(* What leads to a path leads to the paths one longer, which lead to         *)
(* themselves.                                                             *)
LEMMA DownPath ==
  ASSUME NEW p \in Seq(Nat), NEW i \in Nat
  PROVE  /\ Append(p, i) \in Seq(Nat) /\ Len(Append(p, i)) = Len(p) + 1
         /\ \A n \in 0 .. Len(p) : SubSeq(Append(p, i), 1, n) = SubSeq(p, 1, n)
         /\ SubSeq(Append(p, i), 1, Len(p) + 1) = Append(p, i)
OBVIOUS

(* The path one shorter, and what leads to it.                              *)
LEMMA UpPath ==
  ASSUME NEW p \in Seq(Nat), p # <<>>
  PROVE  /\ Len(p) > 0
         /\ Front(p) \in Seq(Nat) /\ Len(Front(p)) = Len(p) - 1 /\ Last(p) \in Nat
         /\ \A n \in 0 .. Len(p) - 1 : SubSeq(Front(p), 1, n) = SubSeq(p, 1, n)
<1>1. Len(p) \in Nat /\ Len(p) > 0
  OBVIOUS
<1>2. Front(p) = SubSeq(p, 1, Len(p) - 1) /\ Last(p) = p[Len(p)]
  BY DEF Front, Last
<1>3. SubSeq(p, 1, Len(p) - 1) \in Seq(Nat) /\ Len(SubSeq(p, 1, Len(p) - 1)) = Len(p) - 1
  <2>1. Len(p) - 1 \in 0 .. Len(p)
    BY <1>1
  <2> QED BY <2>1, PrefixIsPath
<1>4. Last(p) \in Nat
  BY <1>1, <1>2
<1>5. ASSUME NEW n \in 0 .. Len(p) - 1
      PROVE  SubSeq(SubSeq(p, 1, Len(p) - 1), 1, n) = SubSeq(p, 1, n)
  BY <1>1
<1> QED BY <1>1, <1>2, <1>3, <1>4, <1>5

(* What leads to a path is reached through itself.                          *)
LEMMA WholePath == ASSUME NEW p \in Seq(Nat) PROVE SubSeq(p, 1, Len(p)) = p
OBVIOUS

(* A kind and a path name an object or a task.                              *)
LEMMA PairOf == ASSUME NEW k \in Kinds, NEW p \in Seq(Nat) PROVE <<k, p>> \in Pairs
BY DEF Pairs

(* The main prototype's path is a path.                                     *)
LEMMA EmptyPath == <<>> \in Seq(Nat) /\ Len(<<>>) = 0
OBVIOUS

(* So does a kind alone, with the empty path.                               *)
LEMMA EmptyPair == ASSUME NEW k \in Kinds PROVE <<k, <<>>>> \in Pairs
BY EmptyPath, PairOf

(* The halves of a pair.                                                   *)
LEMMA Halves == ASSUME NEW k, NEW p PROVE <<k, p>>[1] = k /\ <<k, p>>[2] = p
OBVIOUS

(* A pair is never empty.                                                  *)
LEMMA PairIsNotEmpty ==
  ASSUME NEW x \in Pairs PROVE x # <<>> /\ x[1] \in Kinds /\ x[2] \in Seq(Nat) /\ x = <<x[1], x[2]>>
<1>1. x = <<x[1], x[2]>>
  BY DEF Pairs
<1>2. x[1] \in Kinds /\ x[2] \in Seq(Nat)
  BY DEF Pairs
<1>3. x # <<>>
  <2>1. \A k, p : <<k, p>> # <<>>
    OBVIOUS
  <2> HIDE DEF Pairs
  <2> QED BY <1>1, <2>1
<1> QED BY <1>1, <1>2, <1>3

-----------------------------------------------------------------------------
(* What an object is reached through, by its kind.                          *)
LEMMA ChainOfPart ==
  ASSUME NEW o \in Pairs, o[1] \in OfPrototype
  PROVE  \A x : x \in Chain(o) <=>
           \/ x = o \/ x = Bytecode
           \/ \E n \in 0 .. Len(o[2]) : x = Prototype(o[2], n)
           \/ \E n \in 0 .. Len(o[2]) - 1 : x = Prototypes(o[2], n)
BY DEF Chain, OfPrototype, Prototype, Prototypes

(* A string constant is reached through the array of the constants.         *)
LEMMA ChainOfConstant ==
  ASSUME NEW o \in Pairs, o[1] = "string"
  PROVE  Chain(o) = {o, Bytecode, ConstantsObject}
BY DEF Chain, ConstantsObject

(* What the bytecode holds itself is reached through the bytecode only.     *)
LEMMA ChainOfArray ==
  ASSUME NEW o \in Pairs, o[1] \in {"bytecode", "values", "constantsObject"}
  PROVE  Chain(o) = {o, Bytecode}
BY DEF Chain

(* What is ready finds its chain built, but for itself.                     *)
LEMMA ReadyChain ==
  ASSUME NEW B \in SUBSET Pairs, NEW o \in Pairs, Allocation(o), Ready(B, o),
         o # End, o[1] \notin {"unpack", "number"}
  PROVE  Chain(o) \subseteq B \cup {o}
<1>0. o[2] \in Seq(Nat)
  BY PairIsNotEmpty
<1>1. CASE o[1] \in OfPrototype
  <2> SUFFICES ASSUME NEW x \in Chain(o), x # o PROVE x \in B
    OBVIOUS
  <2>1. o # Bytecode
    BY <1>1 DEF OfPrototype, Bytecode
  <2>2. CASE x = Bytecode
    BY <2>1, <2>2 DEF Ready
  <2>3. ASSUME NEW n \in 0 .. Len(o[2]), x = Prototype(o[2], n) PROVE x \in B
    <3>1. CASE n < Len(o[2])
      BY <1>1, <2>3, <3>1 DEF Ready
    <3>2. CASE n = Len(o[2])
      <4>1. x = <<"prototype", o[2]>>
        BY <1>0, <2>3, <3>2, WholePath DEF Prototype
      <4>2. o = <<o[1], o[2]>>
        BY PairIsNotEmpty
      <4>3. o[1] # "prototype"
        BY <4>1, <4>2
      <4> QED BY <1>1, <2>3, <4>3 DEF Ready
    <3>3. Len(o[2]) \in Nat
      BY <1>0
    <3> QED BY <3>1, <3>2, <3>3
  <2>4. ASSUME NEW n \in 0 .. Len(o[2]) - 1, x = Prototypes(o[2], n) PROVE x \in B
    <3>1. n \in 0 .. Len(o[2]) /\ n < Len(o[2])
      BY <1>0
    <3> QED BY <1>1, <2>4, <3>1 DEF Ready
  <2> QED BY <1>1, <2>2, <2>3, <2>4, ChainOfPart
<1>2. CASE o[1] = "string"
  <2>1. o # Bytecode
    BY <1>2 DEF Bytecode
  <2> QED BY <1>2, <2>1, ChainOfConstant DEF Ready
<1>3. CASE o[1] \in {"bytecode", "values", "constantsObject"}
  BY <1>3, ChainOfArray DEF Ready
<1>4. o[1] \in OfPrototype \/ o[1] = "string" \/ o[1] \in {"bytecode", "values", "constantsObject"}
  <2>1. CASE o \in {Bytecode, End, <<"unpack", <<>>>>, <<"values", <<>>>>, ConstantsObject}
    BY <2>1 DEF Bytecode, ConstantsObject
  <2> QED BY <2>1 DEF Allocation
<1> QED BY <1>1, <1>2, <1>3, <1>4

-----------------------------------------------------------------------------
(* Whole objects stay whole when one is added whose chain is there, rooted   *)
(* or linked.                                                              *)
LEMMA AddRooted ==
  ASSUME NEW B \in SUBSET Pairs, NEW L, NEW R, NEW o, Whole(B, L, R), Chain(o) \subseteq B \cup {o},
         o = Bytecode \/ Bytecode \in B
  PROVE  Whole(B \cup {o}, L, R \cup {o})
BY DEF Whole

(* The same, for an object that a field refers to at once.                  *)
LEMMA AddLinked ==
  ASSUME NEW B \in SUBSET Pairs, NEW L, NEW R, NEW o, Whole(B, L, R), Chain(o) \subseteq B \cup {o},
         Bytecode \in B
  PROVE  Whole(B \cup {o}, L \cup {o}, R)
BY DEF Whole

(* A field takes over from a root.                                          *)
LEMMA Unroot ==
  ASSUME NEW B \in SUBSET Pairs, NEW L, NEW R, NEW o \in B, Whole(B, L, R), o # Bytecode
  PROVE  Whole(B, L \cup {o}, R \ {o})
BY DEF Whole

(* A root leads to everything in whole objects.                             *)
LEMMA WholeIsHeld ==
  ASSUME NEW t, NEW o \in built[t], Whole(built[t], linked[t], rooted[t])
  PROVE  Held(t, o)
<1>1. \A x \in Chain(o) : x \in linked[t] \/ x \in rooted[t]
  BY DEF Whole
<1>2. Bytecode \in Chain(o) /\ Bytecode \in rooted[t]
  BY DEF Whole, Chain
<1>3. \A x : x \in Chain(x)
  BY DEF Chain
<1> QED BY <1>1, <1>2, <1>3 DEF Held

-----------------------------------------------------------------------------
(* From one allocation to the next: what the next one needs is there, and    *)
(* no root is left over.  Below a finished prototype comes the first nested  *)
(* one, if there is one.                                                   *)
LEMMA ReadyBelow ==
  ASSUME NEW d, NEW B, NEW p \in Seq(Nat), NEW k \in {"instructions", "lineInfo"}, Ready(B, <<k, p>>),
         NEW o, o = Down(d, p, "prototype", "done")
  PROVE  o \in Pairs /\ o[1] \in OfPrototype /\ Ready(B, o) /\ Open(<<k, p>>) \subseteq Open(o)
<1> DEFINE q == Append(p, 1)
<1>1. /\ Bytecode \in B
      /\ \A n \in 0 .. Len(p) : Prototype(p, n) \in B /\ Prototypes(p, n) \in B
  BY DEF Ready, OfPrototype, Bytecode
<1>2. /\ q \in Seq(Nat) /\ Len(q) = Len(p) + 1 /\ Len(p) \in Nat
      /\ \A n \in 0 .. Len(p) : SubSeq(q, 1, n) = SubSeq(p, 1, n)
  BY DownPath
<1>3. /\ \A n \in 0 .. Len(p) : Prototype(q, n) = Prototype(p, n) /\ Prototypes(q, n) = Prototypes(p, n)
      /\ \A n \in 0 .. Len(q) : n < Len(q) => n \in 0 .. Len(p)
      /\ \A n \in 0 .. Len(p) : n \in 0 .. Len(q)
  BY <1>2 DEF Prototype, Prototypes
<1> HIDE DEF q
<1>4. <<"prototype", q>> \in Pairs /\ <<"done", p>> \in Pairs
  BY <1>2, PairOf DEF Kinds
<1>5. Ready(B, <<"prototype", q>>)
  BY <1>1, <1>3 DEF Ready
<1>6. Ready(B, <<"done", p>>)
  BY <1>1 DEF Ready
<1>7. Open(<<k, p>>) \subseteq Open(<<"prototype", q>>)
  BY <1>3 DEF Open, OfPrototype
<1>8. Open(<<k, p>>) \subseteq Open(<<"done", p>>)
  BY DEF Open, OfPrototype
<1>9. Down(d, p, "prototype", "done") \in {<<"prototype", q>>, <<"done", p>>}
  BY DEF Down, q
<1>10. <<"prototype", q>>[1] \in OfPrototype /\ <<"done", p>>[1] \in OfPrototype
  BY DEF OfPrototype
<1>11. CASE o = <<"prototype", q>>
  BY <1>4, <1>5, <1>7, <1>10, <1>11
<1>12. CASE o = <<"done", p>>
  BY <1>4, <1>6, <1>8, <1>10, <1>12
<1> QED BY <1>9, <1>11, <1>12

(* After one that is finished: its next sibling, or the one it is nested in. *)
LEMMA ReadyBeside ==
  ASSUME NEW d, NEW B, NEW p \in Seq(Nat), Ready(B, <<"done", p>>),
         NEW o, o = Along(d, p, "prototype", "done")
  PROVE  /\ o \in Pairs /\ (o = End \/ o[1] \in OfPrototype) /\ Ready(B, o)
         /\ Open(<<"done", p>>) \ {<<"prototype", p>>} \subseteq Open(o)
<1>1. /\ Bytecode \in B
      /\ \A n \in 0 .. Len(p) : Prototype(p, n) \in B /\ Prototypes(p, n) \in B
  BY DEF Ready, OfPrototype, Bytecode
<1>2. <<"prototype", p>> = Prototype(p, Len(p)) /\ Len(p) \in Nat
  BY WholePath DEF Prototype
<1>3. CASE p = <<>>
  <2>1. Along(d, p, "prototype", "done") = End
    BY <1>3 DEF Along
  <2>2. End \in Pairs /\ Ready(B, End)
    <3>1. End \in Pairs
      BY PairOf, EmptyPath DEF End, Kinds
    <3> QED BY <1>1, <3>1 DEF End, Ready, OfPrototype
  <2>3. Open(<<"done", p>>) \subseteq {Bytecode, <<"prototype", p>>}
    <3>1. Len(p) = 0
      BY <1>3
    <3>2. \A n \in 0 .. Len(p) : n = Len(p)
      BY <3>1
    <3> QED BY <1>2, <3>2 DEF Open, OfPrototype
  <2>4. Bytecode \in Open(End)
    BY DEF Open
  <2> QED BY <2>1, <2>2, <2>3, <2>4
<1>4. CASE p # <<>>
  <2> DEFINE f == Front(p)
             q == Append(Front(p), Last(p) + 1)
  <2>1. /\ f \in Seq(Nat) /\ Len(f) = Len(p) - 1 /\ Last(p) + 1 \in Nat
        /\ \A n \in 0 .. Len(p) - 1 : SubSeq(f, 1, n) = SubSeq(p, 1, n)
    BY <1>4, UpPath
  <2>2. /\ q \in Seq(Nat) /\ Len(q) = Len(p)
        /\ \A n \in 0 .. Len(p) - 1 : SubSeq(q, 1, n) = SubSeq(f, 1, n)
    BY <1>2, <2>1, DownPath
  <2>3. Along(d, p, "prototype", "done") \in {<<"prototype", q>>, <<"done", f>>}
    BY <1>4 DEF Along
  <2> HIDE DEF f, q
  <2>4. \A n \in 0 .. Len(p) - 1 : /\ Prototype(q, n) = Prototype(p, n)
                                   /\ Prototypes(q, n) = Prototypes(p, n)
                                   /\ Prototype(f, n) = Prototype(p, n)
                                   /\ Prototypes(f, n) = Prototypes(p, n)
    BY <2>1, <2>2 DEF Prototype, Prototypes
  <2>5. \A n \in 0 .. Len(p) : (n < Len(p) => n \in 0 .. Len(p) - 1) /\ (n < Len(p) \/ n = Len(p))
    BY <1>2
  <2>6. \A n \in 0 .. Len(p) - 1 : n \in 0 .. Len(p) /\ n \in 0 .. Len(q) /\ n \in 0 .. Len(f)
    BY <1>2, <2>1, <2>2
  <2>7. \A n \in 0 .. Len(f) : n \in 0 .. Len(p) - 1
    BY <2>1
  <2>8. <<"prototype", q>> \in Pairs /\ <<"done", f>> \in Pairs
    BY <2>1, <2>2, PairOf DEF Kinds
  <2>9. Ready(B, <<"prototype", q>>)
    BY <1>1, <2>2, <2>4, <2>5, <2>6 DEF Ready
  <2>10. Ready(B, <<"done", f>>)
    BY <1>1, <2>4, <2>6, <2>7 DEF Ready
  <2>11. \A x \in Open(<<"done", p>>) \ {<<"prototype", p>>} :
           x = Bytecode \/ \E n \in 0 .. Len(p) - 1 : x = Prototype(p, n)
    BY <1>2, <2>5 DEF Open, OfPrototype
  <2>12. Open(<<"done", p>>) \ {<<"prototype", p>>} \subseteq Open(<<"prototype", q>>)
    BY <2>4, <2>6, <2>11 DEF Open, OfPrototype
  <2>13. Open(<<"done", p>>) \ {<<"prototype", p>>} \subseteq Open(<<"done", f>>)
    BY <2>4, <2>6, <2>11 DEF Open, OfPrototype
  <2>14. <<"prototype", q>>[1] \in OfPrototype /\ <<"done", f>>[1] \in OfPrototype
    BY DEF OfPrototype
  <2>15. CASE o = <<"prototype", q>>
    BY <2>8, <2>9, <2>12, <2>14, <2>15
  <2>16. CASE o = <<"done", f>>
    BY <2>8, <2>10, <2>13, <2>14, <2>16
  <2> QED BY <2>3, <2>15, <2>16
<1> QED BY <1>3, <1>4

(* After a constant: the next one, or the main prototype.                   *)
LEMMA ReadyConstant ==
  ASSUME NEW d \in Documents, NEW B, NEW i \in Nat, i >= 1,
         Bytecode \in B, ConstantsObject \in B,
         NEW a, a = IF i <= Len(d.constants) THEN <<d.constants[i], <<i>>>> ELSE <<"prototype", <<>>>>
  PROVE  a \in Pairs /\ Allocation(a) /\ Ready(B, a) /\ Bytecode \in Open(a)
<1>1. CASE i <= Len(d.constants)
  <2>1. d.constants \in Seq({"string", "number"})
    BY LoaderAssumption
  <2>2. d.constants[i] \in {"string", "number"}
    BY <1>1, <2>1
  <2> DEFINE k == d.constants[i]
  <2> HIDE DEF k
  <2>3. a = <<k, <<i>>>> /\ k \in {"string", "number"}
    BY <1>1, <2>2 DEF k
  <2>4. <<i>> \in Seq(Nat) /\ <<i>> # <<>>
    OBVIOUS
  <2>5. a \in Pairs
    BY <2>3, <2>4, PairOf DEF Kinds
  <2>6. Allocation(a) /\ Ready(B, a) /\ Bytecode \in Open(a)
    BY <2>3, <2>4 DEF Allocation, Ready, Open, OfPrototype
  <2> QED BY <2>5, <2>6
<1>2. CASE ~(i <= Len(d.constants))
  <2>1. a = <<"prototype", <<>>>>
    BY <1>2
  <2>2. a \in Pairs
    BY <2>1, PairOf, EmptyPair DEF Kinds
  <2>4. Allocation(a) /\ Bytecode \in Open(a)
    BY <2>1 DEF Allocation, Open, OfPrototype
  <2>3. Ready(B, a)
    <3>1. PICK kind, path : kind = "prototype" /\ path = <<>> /\ a = <<kind, path>>
      BY <2>1
    <3>2. \A n \in 0 .. Len(path) : ~(n < Len(path))
      BY <3>1, EmptyPath
    <3>3. a[1] = "prototype" /\ a[2] = path
      <4>1. <<kind, path>>[1] = kind /\ <<kind, path>>[2] = path
        BY Halves
      <4> QED BY ONLY <3>1, <4>1
    <3> QED BY ONLY Bytecode \in B, <3>2, <3>3 DEF Ready
  <2> QED BY <2>2, <2>3, <2>4
<1> QED BY <1>1, <1>2

(* Every allocation leaves what the next one needs, and only the roots that  *)
(* may be there before it.                                                 *)
LEMMA NextAllocation ==
  ASSUME NEW d \in Documents, NEW B, NEW R, NEW o \in Pairs, Allocation(o), o # End,
         Ready(B, o), o \in B \/ o[1] \in {"unpack", "number", "done"},
         R \subseteq Open(o), o[1] = "done" => <<"prototype", o[2]>> \notin R,
         NEW a, a = AfterObject(d, o)
  PROVE  a \in Pairs /\ Allocation(a) /\ Ready(B, a) /\ R \subseteq Open(a)
<1> DEFINE k == o[1]
           p == o[2]
<1>0. o = <<k, p>> /\ p \in Seq(Nat) /\ k \in Kinds
  BY PairIsNotEmpty
<1>1. CASE k \in {"bytecode", "unpack", "values", "constantsObject"}
  <2>1. p = <<>>
    BY <1>1 DEF Allocation, Bytecode, ConstantsObject, OfPrototype, End
  <2>2. o = <<k, <<>>>>
    BY <1>0, <2>1
  <2>3. Bytecode \in B /\ R \subseteq {Bytecode}
    BY <1>1, <2>2 DEF Ready, Open, OfPrototype, Bytecode
  <2>4. CASE k = "constantsObject"
    <3>1. a = IF 1 <= Len(d.constants) THEN <<d.constants[1], <<1>>>> ELSE <<"prototype", <<>>>>
      BY <2>4 DEF AfterObject
    <3>2. ConstantsObject \in B
      BY <2>2, <2>4 DEF ConstantsObject
    <3> QED BY <2>3, <3>1, <3>2, ReadyConstant
  <2>5. CASE k # "constantsObject"
    <3>1. a \in {<<"unpack", <<>>>>, <<"values", <<>>>>, <<"constantsObject", <<>>>>}
      BY <1>1, <2>1, <2>5 DEF AfterObject
    <3>2. a \in Pairs
      BY <3>1, PairOf, EmptyPair DEF Kinds
    <3> QED BY <2>3, <3>1, <3>2 DEF Allocation, Ready, Open, OfPrototype, ConstantsObject, Bytecode
  <2> QED BY <2>4, <2>5
<1>2. CASE k \in {"string", "number"}
  <2>1. p # <<>> /\ p[1] + 1 \in Nat /\ p[1] + 1 >= 1
    <3>1. p # <<>>
      BY <1>2 DEF Allocation, Bytecode, ConstantsObject, OfPrototype, End
    <3> QED BY <1>0, <3>1
  <2>2. Bytecode \in B /\ ConstantsObject \in B /\ R \subseteq {Bytecode}
    BY <1>2 DEF Ready, Open, OfPrototype, Bytecode
  <2>3. a = IF p[1] + 1 <= Len(d.constants) THEN <<d.constants[p[1] + 1], <<p[1] + 1>>>>
            ELSE <<"prototype", <<>>>>
    BY <1>2 DEF AfterObject
  <2> QED BY <2>1, <2>2, <2>3, ReadyConstant
<1>3. CASE k \in {"prototype", "name", "prototypes"}
  <2>1. a \in {<<"name", p>>, <<"prototypes", p>>, <<"instructions", p>>}
        /\ a[1] = (IF k = "prototype" THEN "name" ELSE IF k = "name" THEN "prototypes"
                   ELSE "instructions") /\ a[2] = p
    BY <1>3 DEF AfterObject
  <2>2. a \in Pairs /\ Allocation(a)
    BY <1>0, <2>1, PairOf DEF Allocation, OfPrototype, Kinds
  <2>3. Ready(B, a)
    <3>1. o \in B /\ Bytecode \in B
      BY <1>3 DEF Ready, Bytecode
    <3>2. <<k, SubSeq(p, 1, Len(p))>> \in B /\ Len(p) \in Nat
      <4>1. <<k, p>> \in B
        BY <1>0, <3>1
      <4>2. SubSeq(p, 1, Len(p)) = p /\ Len(p) \in Nat
        BY <1>0, WholePath
      <4> QED BY <4>1, <4>2
    <3>3. \A n \in 0 .. Len(p) : n < Len(p) \/ n = Len(p)
      BY <3>2
    <3>4. ASSUME NEW n \in 0 .. Len(p) PROVE Prototype(p, n) \in B
      BY <1>3, <3>2, <3>3 DEF Ready, OfPrototype, Prototype
    <3>5. ASSUME NEW n \in 0 .. Len(p), n < Len(p) \/ k = "prototypes" PROVE Prototypes(p, n) \in B
      BY <1>3, <3>2, <3>3, <3>5 DEF Ready, OfPrototype, Prototypes
    <3> QED BY <1>3, <2>1, <3>1, <3>4, <3>5 DEF Ready
  <2>4. Open(a) = Open(o)
    BY <1>3, <2>1 DEF Open, OfPrototype
  <2> QED BY <2>2, <2>3, <2>4
<1>4. CASE k = "instructions" /\ p \in d.lines
  <2>1. a = <<"lineInfo", p>>
    BY <1>4 DEF AfterObject
  <2>2. a \in Pairs /\ Allocation(a)
    BY <1>0, <2>1, PairOf DEF Allocation, OfPrototype, Kinds
  <2>3. Ready(B, a)
    BY <1>4, <2>1 DEF Ready, OfPrototype, Bytecode
  <2>4. Open(a) = Open(o)
    BY <1>4, <2>1 DEF Open, OfPrototype
  <2> QED BY <2>2, <2>3, <2>4
<1>5. CASE k = "lineInfo" \/ (k = "instructions" /\ p \notin d.lines)
  <2>1. a = Down(d, p, "prototype", "done")
    BY <1>5 DEF AfterObject
  <2>2. k \in {"instructions", "lineInfo"} /\ Ready(B, <<k, p>>) /\ R \subseteq Open(<<k, p>>)
    BY <1>0, <1>5
  <2> HIDE DEF k, p
  <2>3. a \in Pairs /\ a[1] \in OfPrototype /\ Ready(B, a) /\ Open(<<k, p>>) \subseteq Open(a)
    BY <1>0, <2>1, <2>2, ReadyBelow
  <2> QED BY <2>2, <2>3 DEF Allocation
<1>6. CASE k = "done"
  <2>1. a = Along(d, p, "prototype", "done")
    BY <1>6 DEF AfterObject
  <2>2. Ready(B, <<"done", p>>) /\ R \subseteq Open(<<"done", p>>) \ {<<"prototype", p>>}
    BY <1>0, <1>6
  <2> HIDE DEF k, p
  <2>3. /\ a \in Pairs /\ (a = End \/ a[1] \in OfPrototype) /\ Ready(B, a)
        /\ Open(<<"done", p>>) \ {<<"prototype", p>>} \subseteq Open(a)
    BY <1>0, <2>1, <2>2, ReadyBeside
  <2> QED BY <2>2, <2>3 DEF Allocation
<1>7. k \in {"bytecode", "unpack", "values", "constantsObject", "string", "number"} \cup OfPrototype
  BY <1>0 DEF Allocation, Bytecode, ConstantsObject, OfPrototype, End
<1> QED BY <1>1, <1>2, <1>3, <1>4, <1>5, <1>6, <1>7 DEF OfPrototype

-----------------------------------------------------------------------------
(* From one allocation of the translation to the next.                      *)
LEMMA NextPart ==
  ASSUME NEW d, NEW o \in Pairs, o[1] \in Parts, o[1] = "constant" => o[2] # <<>>,
         NEW a, a = AfterPart(d, o)
  PROVE  a \in Pairs /\ a[1] \in Parts /\ (a[1] = "constant" => a[2] # <<>>)
<1> DEFINE k == o[1]
           p == o[2]
<1>0. p \in Seq(Nat) /\ k \in Kinds
  BY PairIsNotEmpty
<1>1. CASE k \in {"constants", "constant"}
  <2>1. PICK i \in Nat : a = IF i <= Len(d.constants) THEN <<"constant", <<i>>>>
                             ELSE <<"proto", <<>>>>
    <3>1. CASE k = "constants"
      <4>1. a = IF 1 <= Len(d.constants) THEN <<"constant", <<1>>>> ELSE <<"proto", <<>>>>
        BY <3>1 DEF AfterPart
      <4> QED BY <4>1
    <3>2. CASE k = "constant"
      <4>1. p[1] + 1 \in Nat
        BY <1>0, <3>2
      <4>2. a = IF p[1] + 1 <= Len(d.constants) THEN <<"constant", <<p[1] + 1>>>>
                ELSE <<"proto", <<>>>>
        BY <3>2 DEF AfterPart
      <4> QED BY <4>1, <4>2
    <3> QED BY <1>1, <3>1, <3>2
  <2> DEFINE q == <<i>>
  <2>2. q \in Seq(Nat) /\ q # <<>>
    OBVIOUS
  <2>3. a \in {<<"constant", q>>, <<"proto", <<>>>>}
    BY <2>1
  <2> HIDE DEF q
  <2>4. a \in Pairs
    BY <2>2, <2>3, PairOf, EmptyPair DEF Kinds
  <2> QED BY <2>2, <2>3, <2>4 DEF Parts
<1>2. CASE k \in {"proto", "protos"}
  <2>1. /\ Append(p, 1) \in Seq(Nat)
        /\ a \in {<<"protos", p>>, <<"proto", Append(p, 1)>>, <<"instructions", p>>}
    BY <1>0, <1>2 DEF AfterPart, Down
  <2> DEFINE q == Append(p, 1)
  <2> HIDE DEF q
  <2>2. q \in Seq(Nat) /\ a \in {<<"protos", p>>, <<"proto", q>>, <<"instructions", p>>}
    BY <2>1 DEF q
  <2>3. a \in Pairs
    BY <1>0, <2>2, PairOf DEF Kinds
  <2> QED BY <2>2, <2>3 DEF Parts
<1>3. CASE k = "instructions"
  <2>1. a = <<"lineinfo", p>>
    BY <1>3 DEF AfterPart
  <2> QED BY <1>0, <2>1, PairOf DEF Kinds, Parts
<1>4. CASE k \in {"lineinfo", "end"}
  <2>1. a = Along(d, p, "proto", "instructions")
    BY <1>4 DEF AfterPart
  <2>2. CASE p = <<>>
    <3>1. a = <<"end", <<>>>>
      BY <2>1, <2>2 DEF Along, End
    <3>2. a \in Pairs
      BY <3>1, EmptyPair DEF Kinds
    <3> QED BY <3>1, <3>2 DEF Parts
  <2>3. CASE p # <<>>
    <3> DEFINE f == Front(p)
               q == Append(Front(p), Last(p) + 1)
    <3>1. f \in Seq(Nat) /\ Last(p) + 1 \in Nat
      BY <1>0, <2>3, UpPath
    <3>2. q \in Seq(Nat)
      BY <3>1
    <3>3. a \in {<<"proto", q>>, <<"instructions", f>>}
      BY <2>1, <2>3 DEF Along
    <3> HIDE DEF f, q
    <3>4. a \in Pairs
      BY <3>1, <3>2, <3>3, PairOf DEF Kinds
    <3> QED BY <3>3, <3>4 DEF Parts
  <2> QED BY <2>2, <2>3
<1> QED BY <1>1, <1>2, <1>3, <1>4 DEF Parts

(* What a failure of the main prototype leaves is nothing.                  *)
LEMMA UnfreedIsNested ==
  ASSUME NEW mem \in SUBSET Pairs, NEW task \in Pairs
  PROVE  Unfreed(mem, task) \subseteq mem /\ (Unfreed(mem, task) # {} => task[2] # <<>>)
<1>1. ASSUME task[2] = <<>>, NEW b \in mem PROVE IsPrefix(task[2], b[2])
  <2>1. b[2] \in Seq(Nat)
    BY PairIsNotEmpty
  <2>2. Len(<<>>) = 0 /\ Len(<<>>) <= Len(b[2])
    BY <2>1
  <2>3. SubSeq(<<>>, 1, Len(<<>>)) = SubSeq(b[2], 1, Len(<<>>))
    BY <2>1, <2>2
  <2> QED BY <1>1, <2>2, <2>3 DEF IsPrefix
<1> QED BY <1>1 DEF Unfreed

-----------------------------------------------------------------------------
(* A step of one thread leaves the others as they were.                     *)
LEMMA Frame ==
  ASSUME IInv, NEW t \in Threads, Types', Own(t)', Why(t)', Obj(t)',
         \A u \in Threads \ {t} :
           /\ pc'[u] = pc[u] /\ load'[u] = load[u] /\ slot'[u] = slot[u]
           /\ built'[u] = built[u] /\ linked'[u] = linked[u] /\ rooted'[u] = rooted[u]
           /\ lock' = u <=> lock = u
  PROVE  IInv'
<1>1. ASSUME NEW u \in Threads \ {t} PROVE Own(u)'
  BY DEF IInv, Own
<1>2. ASSUME NEW u \in Threads \ {t} PROVE Why(u)'
  BY DEF IInv, Why
<1>3. ASSUME NEW u \in Threads \ {t} PROVE Obj(u)'
  BY DEF IInv, Obj
<1> QED BY <1>1, <1>2, <1>3 DEF IInv

(* Writing one thread's record.                                            *)
LEMMA PutLoad ==
  ASSUME load \in [Threads -> Loads], NEW t \in Threads, NEW r \in Loads,
         load' = [load EXCEPT ![t] = r]
  PROVE  load' \in [Threads -> Loads] /\ load'[t] = r /\ \A u \in Threads \ {t} : load'[u] = load[u]
OBVIOUS

-----------------------------------------------------------------------------
(* The steps, one by one.                                                  *)
LEMMA InitStep == LoaderInit => IInv
<1> SUFFICES ASSUME LoaderInit PROVE IInv
  OBVIOUS
<1>1. End \in Pairs
  BY EmptyPair DEF End, Kinds
<1>2. Idle \in Loads
  BY <1>1 DEF Idle, Loads, Messages
<1>3. Types
  BY <1>2 DEF LoaderInit, Types, Messages
<1>4. ASSUME NEW t \in Threads PROVE Own(t) /\ Why(t) /\ Obj(t)
  <2>1. /\ pc[t] = "idle" /\ load[t] = Idle /\ lock = NULL /\ slot[t] = "none"
        /\ built[t] = {} /\ linked[t] = {} /\ rooted[t] = {}
    BY DEF LoaderInit
  <2>2. Own(t)
    BY <2>1, LoaderAssumption DEF Own
  <2>3. Why(t)
    BY <2>1 DEF Why, Idle
  <2>4. Obj(t)
    BY <2>1 DEF Obj, Whole, Idle
  <2> QED BY <2>2, <2>3, <2>4
<1> QED BY <1>3, <1>4 DEF IInv

(* A call that begins has nothing yet, and the error slot is cleared.       *)
LEMMA BeginStep == ASSUME IInv, NEW t \in Threads, Begin(t) PROVE IInv'
<1>1. PICK d \in Documents : load' = [load EXCEPT ![t] = [Idle EXCEPT !.doc = d]]
  BY DEF Begin
<1> DEFINE r == [Idle EXCEPT !.doc = d]
<1>2. /\ r.doc = d /\ r.json = FALSE /\ r.task = End /\ r.mem = {} /\ r.why = "none"
      /\ r.failed = <<>> /\ r.answer = FALSE
  BY DEF Idle
<1>3. r \in Loads
  <2>1. End \in Pairs
    BY EmptyPair DEF End, Kinds
  <2> QED BY <2>1 DEF Loads, Idle, Messages
<1> HIDE DEF r
<1>4. load' \in [Threads -> Loads] /\ load'[t] = r /\ \A u \in Threads \ {t} : load'[u] = load[u]
  BY <1>1, <1>3, PutLoad DEF IInv, Types, r
<1>5. /\ pc[t] = "idle" /\ rooted[t] = {}
      /\ slot' = [slot EXCEPT ![t] = "none"] /\ pc' = [pc EXCEPT ![t] = "lock"]
      /\ lock' = lock /\ built' = built /\ linked' = linked /\ rooted' = rooted /\ fault' = fault
  BY DEF Begin, Doing, Proceed, objectVars
<1>6. Types'
  BY <1>4, <1>5 DEF IInv, Types, Messages
<1>7. pc'[t] = "lock"
  BY <1>5 DEF IInv, Types
<1>8. Own(t)'
  BY <1>2, <1>4, <1>5, <1>7 DEF IInv, Own
<1>9. Why(t)'
  BY <1>2, <1>4, <1>7 DEF Why
<1>10. Obj(t)'
  BY <1>5, <1>7 DEF IInv, Obj, Whole
<1> QED BY <1>4, <1>5, <1>6, <1>8, <1>9, <1>10, Frame DEF IInv, Types

(* A bytecode is given up with all it holds; its owner has no lock.         *)
LEMMA ReleaseStep == ASSUME IInv, NEW t \in Threads, Release(t) PROVE IInv'
<1>1. Idle \in Loads
  <2>1. End \in Pairs
    BY EmptyPair DEF End, Kinds
  <2> QED BY <2>1 DEF Loads, Idle, Messages
<1>2. load' = [load EXCEPT ![t] = Idle]
  BY DEF Release
<1>3. load' \in [Threads -> Loads] /\ load'[t] = Idle /\ \A u \in Threads \ {t} : load'[u] = load[u]
  BY <1>1, <1>2, PutLoad DEF IInv, Types
<1>4. /\ pc[t] = "idle" /\ load[t].answer
      /\ built' = [built EXCEPT ![t] = {}]
      /\ linked' = [linked EXCEPT ![t] = {}]
      /\ rooted' = [rooted EXCEPT ![t] = {}]
      /\ lock' = lock /\ pc' = pc /\ slot' = slot /\ fault' = fault
  BY DEF Release, Doing
<1>5. Types'
  BY <1>3, <1>4 DEF IInv, Types
<1>6. built'[t] = {} /\ linked'[t] = {} /\ rooted'[t] = {}
  BY <1>4 DEF IInv, Types
<1>7. lock # t
  BY <1>4 DEF IInv, Own
<1>8. Own(t)'
  BY <1>4, <1>7 DEF Own
<1>9. Why(t)'
  BY <1>3, <1>4 DEF Why, Idle
<1>10. Obj(t)'
  BY <1>3, <1>4, <1>6 DEF Obj, Whole, Idle
<1> QED BY <1>3, <1>4, <1>5, <1>8, <1>9, <1>10, Frame DEF IInv, Types

(* The lock was free: nobody else is between it and its release.            *)
LEMMA LockStep == ASSUME IInv, NEW t \in Threads, Lock(t) PROVE IInv'
<1>1. /\ pc[t] = "lock" /\ lock = NULL /\ lock' = t /\ pc' = [pc EXCEPT ![t] = "validate"]
      /\ load' = load /\ built' = built /\ linked' = linked /\ rooted' = rooted
      /\ slot' = slot /\ fault' = fault
  BY DEF Lock, Doing, Proceed, objectVars
<1>2. Types' /\ pc'[t] = "validate"
  BY <1>1 DEF IInv, Types
<1>3. \A u \in Threads \ {t} : lock # u /\ lock' # u
  BY <1>1, LoaderAssumption
<1>4. Own(t)'
  BY <1>1, <1>2 DEF IInv, Own
<1>5. Why(t)'
  BY <1>1, <1>2 DEF IInv, Why
<1>6. Obj(t)'
  BY <1>1, <1>2 DEF IInv, Obj
<1> QED BY <1>1, <1>2, <1>3, <1>4, <1>5, <1>6, Frame DEF IInv, Types

(* A document that is refused leaves the text that says so.                 *)
LEMMA ValidateStep == ASSUME IInv, NEW t \in Threads, Validate(t) PROVE IInv'
<1> DEFINE d == load[t].doc
<1>1. load[t] \in Loads /\ load \in [Threads -> Loads] /\ pc[t] = "validate"
  BY DEF IInv, Types, Validate, Doing
<1>0. load[t].failed = <<>>
  BY <1>1 DEF IInv, Why
<1>2. PICK valid \in BOOLEAN, json \in BOOLEAN, why \in Messages, failed \in {<<>>} \cup Pairs, task \in Pairs :
        /\ load' = [load EXCEPT ![t] = [@ EXCEPT !.json = json, !.why = why, !.failed = failed, !.task = task]]
        /\ pc' = [pc EXCEPT ![t] = IF valid THEN "translate" ELSE "error"]
        /\ valid => json /\ failed = <<>> /\ task = <<"constants", <<>>>>
        /\ ~valid => why = "text" /\ failed # <<>> /\ failed[1] \in {"document", "parse"} /\ failed[2] = <<>>
        /\ json <=> ~(d.defect = "syntax" \/ failed = <<"parse", <<>>>>)
  <2>1. CASE \E parsed \in BOOLEAN, what \in {"document", "parse"} :
               /\ Refuse(t, parsed, what)
               /\ parsed <=> ~(d.defect = "syntax" \/ what = "parse")
    <3>1. PICK parsed \in BOOLEAN, what \in {"document", "parse"} :
               /\ Refuse(t, parsed, what)
               /\ parsed <=> ~(d.defect = "syntax" \/ what = "parse")
      BY <2>1
    <3>2. PICK failed \in Pairs : failed = <<what, <<>>>>
      BY EmptyPair DEF Kinds
    <3>3. load' = [load EXCEPT ![t] = [@ EXCEPT !.json = parsed, !.why = "text", !.failed = failed,
                                               !.task = load[t].task]]
      BY <1>1, <3>1, <3>2 DEF Refuse, Loads
    <3>4. pc' = [pc EXCEPT ![t] = IF FALSE THEN "translate" ELSE "error"]
      BY <3>1 DEF Refuse, Proceed
    <3>5. /\ failed # <<>> /\ failed[1] \in {"document", "parse"} /\ failed[2] = <<>>
          /\ what = "parse" <=> failed = <<"parse", <<>>>>
      BY <3>2
    <3>6. "text" \in Messages /\ load[t].task \in Pairs
      BY <1>1 DEF Messages, Loads
    <3> QED BY <3>1, <3>3, <3>4, <3>5, <3>6
  <2>2. CASE /\ d.defect = "none"
             /\ load' = [load EXCEPT ![t].json = TRUE, ![t].task = <<"constants", <<>>>>]
             /\ Proceed(t, "translate")
    <3>1. load' = [load EXCEPT ![t] = [@ EXCEPT !.json = TRUE, !.why = load[t].why, !.failed = <<>>,
                                               !.task = <<"constants", <<>>>>]]
      BY <1>0, <1>1, <2>2 DEF Loads
    <3>2. pc' = [pc EXCEPT ![t] = IF TRUE THEN "translate" ELSE "error"]
      BY <2>2 DEF Proceed
    <3>3. <<"constants", <<>>>> \in Pairs /\ load[t].why \in Messages
      BY <1>1, EmptyPair DEF Kinds, Loads
    <3>4. TRUE <=> ~(d.defect = "syntax" \/ <<>> = <<"parse", <<>>>>)
      BY <2>2
    <3> QED BY <3>1, <3>2, <3>3, <3>4
  <2> QED BY <2>1, <2>2 DEF Validate, Invalid
<1>3. /\ lock' = lock /\ built' = built /\ linked' = linked /\ rooted' = rooted
      /\ slot' = slot /\ fault' = fault
  BY DEF Validate, objectVars
<1> DEFINE r == [doc |-> d, json |-> json, task |-> task, mem |-> load[t].mem,
                 why |-> why, failed |-> failed, answer |-> load[t].answer]
<1>8. load'[t] = r /\ \A u \in Threads \ {t} : load'[u] = load[u]
  BY <1>1, <1>2 DEF Loads
<1>9. load' = [u \in Threads |-> load'[u]]
  BY <1>1, <1>2
<1>10. r \in Loads
  BY <1>1, <1>2 DEF Loads
<1>11. load' \in [Threads -> Loads]
  BY <1>1, <1>8, <1>9, <1>10
<1>12. Types'
  BY <1>2, <1>3, <1>11 DEF IInv, Types
<1>13. pc'[t] = IF valid THEN "translate" ELSE "error"
  BY <1>2 DEF IInv, Types
<1>14. /\ load'[t].doc = d /\ load'[t].json = json /\ load'[t].task = task
       /\ load'[t].mem = load[t].mem /\ load'[t].why = why /\ load'[t].failed = failed
       /\ load'[t].answer = load[t].answer
  BY <1>8
<1>15. lock = t /\ d \in Documents /\ ~load[t].answer /\ load[t].mem = {} /\ built[t] = {}
  BY <1>1 DEF IInv, Own, Why, Obj
<1>16. Own(t)'
  <2>1. /\ load'[t].json <=> ~Unparsed(load'[t])
        /\ load'[t].doc \in Documents /\ ~load'[t].answer /\ lock' = t
    BY <1>2, <1>3, <1>14, <1>15 DEF Unparsed
  <2>2. pc'[t] = "translate" => load'[t].json
    BY <1>2, <1>13, <1>14
  <2>3. pc'[t] \in {"translate", "error"}
    BY <1>13
  <2> QED BY <2>1, <2>2, <2>3 DEF Own
<1>17. Why(t)'
  BY <1>2, <1>13, <1>14, <1>15 DEF Why, Parts
<1>18. Obj(t)'
  BY <1>3, <1>13, <1>15 DEF IInv, Obj
<1> QED BY <1>2, <1>3, <1>8, <1>12, <1>16, <1>17, <1>18, Frame DEF IInv, Types

(* An allocation of the translation adds memory and goes to the next.       *)
LEMMA TranslateStep == ASSUME IInv, NEW t \in Threads, Translate(t) PROVE IInv'
<1> DEFINE mem == load[t].mem \cup {Task(t)}
           task == AfterPart(load[t].doc, Task(t))
           r == [doc |-> load[t].doc, json |-> load[t].json, task |-> task, mem |-> mem,
                 why |-> load[t].why, failed |-> load[t].failed, answer |-> load[t].answer]
<1>1. load[t] \in Loads /\ load \in [Threads -> Loads] /\ pc[t] = "translate"
  BY DEF IInv, Types, Translate, Doing
<1>2. load' = [load EXCEPT ![t].mem = mem, ![t].task = task]
  BY DEF Translate
<1>3. /\ pc' = pc /\ lock' = lock /\ built' = built /\ linked' = linked /\ rooted' = rooted
      /\ slot' = slot /\ fault' = fault
  BY DEF Translate, objectVars
<1>4. Task(t) \in Pairs /\ Task(t)[1] \in Parts /\ (Task(t)[1] = "constant" => Task(t)[2] # <<>>)
  BY <1>1 DEF IInv, Why, Task, Loads
<1>5. task \in Pairs /\ task[1] \in Parts /\ (task[1] = "constant" => task[2] # <<>>)
  BY <1>4, NextPart
<1>6. mem \in SUBSET Pairs
  BY <1>1, <1>4 DEF Loads
<1> HIDE DEF mem, task
<1>7. load'[t] = r /\ \A u \in Threads \ {t} : load'[u] = load[u]
  BY <1>1, <1>2 DEF Loads
<1>8. load' = [u \in Threads |-> load'[u]]
  BY <1>1, <1>2
<1>9. r \in Loads
  BY <1>1, <1>5, <1>6 DEF Loads
<1>10. Types'
  BY <1>1, <1>3, <1>7, <1>8, <1>9 DEF IInv, Types
<1>11. Own(t)'
  BY <1>1, <1>3, <1>7 DEF IInv, Own, Unparsed
<1>12. Why(t)'
  BY <1>1, <1>3, <1>5, <1>7 DEF IInv, Why
<1>13. Obj(t)'
  BY <1>1, <1>3 DEF IInv, Obj
<1> QED BY <1>3, <1>7, <1>10, <1>11, <1>12, <1>13, Frame

(* A lost process: nothing else changes.                                   *)
LEMMA LoseStep ==
  ASSUME IInv, NEW how \in {"null_constant", "no_name"}, Lose(how)
  PROVE  IInv'
<1>1. /\ fault' = how /\ lock' = lock /\ pc' = pc /\ load' = load /\ slot' = slot
      /\ built' = built /\ linked' = linked /\ rooted' = rooted
  BY DEF Lose, objectVars
<1>2. Types'
  BY <1>1 DEF IInv, Types
<1>3. \A t \in Threads : Own(t)' /\ Why(t)' /\ Obj(t)'
  BY <1>1 DEF IInv, Own, Why, Obj
<1> QED BY <1>2, <1>3 DEF IInv

(* A failed translation keeps memory only below a nested prototype.         *)
LEMMA TranslateFailsStep == ASSUME IInv, NEW t \in Threads, TranslateFails(t) PROVE IInv'
<1>1. CASE Task(t)[1] = "constant" /\ Lose("null_constant")
  BY <1>1, LoseStep
<1>2. CASE ~(Task(t)[1] = "constant" /\ Lose("null_constant"))
  <2> DEFINE whole == Task(t)[1] = "proto"
             mem == Unfreed(load[t].mem, Task(t))
             why == IF whole THEN "none" ELSE "outOfMemory"
             m == IF whole THEN "outOfMemory" ELSE slot[t]
             r == [doc |-> load[t].doc, json |-> load[t].json, task |-> load[t].task, mem |-> mem,
                   why |-> why, failed |-> Task(t), answer |-> load[t].answer]
  <2>1. load[t] \in Loads /\ load \in [Threads -> Loads] /\ pc[t] = "translate"
    BY DEF IInv, Types, TranslateFails, Doing
  <2>2. /\ load' = [load EXCEPT ![t].mem = mem, ![t].why = why, ![t].failed = Task(t)]
        /\ slot' = [slot EXCEPT ![t] = m] /\ pc' = [pc EXCEPT ![t] = "error"]
        /\ lock' = lock /\ built' = built /\ linked' = linked /\ rooted' = rooted /\ fault' = fault
    BY <1>2 DEF TranslateFails, Proceed, objectVars
  <2>3. Task(t) \in Pairs /\ Task(t)[1] \in Parts
    BY <2>1 DEF IInv, Why, Task, Loads
  <2>4. Task(t) # <<>>
    BY <2>3, PairIsNotEmpty
  <2>5. mem \in SUBSET Pairs /\ (mem # {} => Task(t)[2] # <<>>)
    BY <2>1, <2>3, UnfreedIsNested DEF Loads
  <2>6. /\ why \in {"none", "outOfMemory"} /\ (why = "none" => m = "outOfMemory")
        /\ m \in Messages
    BY DEF IInv, Types, Messages
  <2> HIDE DEF mem, why, m
  <2>7. load'[t] = r /\ \A u \in Threads \ {t} : load'[u] = load[u]
    BY <2>1, <2>2 DEF Loads
  <2>8. load' = [u \in Threads |-> load'[u]]
    BY <2>1, <2>2
  <2>9. r \in Loads
    BY <2>1, <2>3, <2>5, <2>6 DEF Loads, Messages
  <2>10. Types'
    BY <2>1, <2>2, <2>6, <2>7, <2>8, <2>9 DEF IInv, Types
  <2>11. pc'[t] = "error" /\ slot'[t] = m
    BY <2>2 DEF IInv, Types
  <2>12. Own(t)'
    <3>1. Task(t) # <<"parse", <<>>>>
      BY <2>3 DEF Parts
    <3>2. ~Unparsed(r)
      BY <2>1, <3>1 DEF IInv, Own, Unparsed
    <3>3. r.json /\ r.doc = load[t].doc /\ ~r.answer /\ r.doc \in Documents /\ lock = t
      BY <2>1 DEF IInv, Own
    <3> HIDE DEF r
    <3> QED BY <2>2, <2>7, <2>11, <3>2, <3>3 DEF Own
  <2>13. Why(t)'
    BY <2>3, <2>4, <2>5, <2>6, <2>7, <2>11 DEF Why, Parts
  <2>14. Obj(t)'
    BY <2>1, <2>2, <2>11 DEF IInv, Obj
  <2> QED BY <2>2, <2>7, <2>10, <2>12, <2>13, <2>14, Frame DEF IInv, Types
<1> QED BY <1>1, <1>2

(* The message is packed, and the lock released, before anything is built.  *)
LEMMA PackStep == ASSUME IInv, NEW t \in Threads, Pack(t) PROVE IInv'
<1> DEFINE mem == {<<"data", <<>>>>}
           r == [doc |-> load[t].doc, json |-> FALSE, task |-> Bytecode, mem |-> mem,
                 why |-> load[t].why, failed |-> load[t].failed, answer |-> load[t].answer]
<1>1. load[t] \in Loads /\ load \in [Threads -> Loads] /\ pc[t] = "translate"
  BY DEF IInv, Types, Pack, Doing
<1>2. /\ load' = [load EXCEPT ![t].mem = mem, ![t].json = FALSE, ![t].task = Bytecode]
      /\ pc' = [pc EXCEPT ![t] = "construct"] /\ lock' = NULL
      /\ built' = built /\ linked' = linked /\ rooted' = rooted /\ slot' = slot /\ fault' = fault
  BY DEF Pack, Proceed, objectVars
<1>3. mem \in SUBSET Pairs /\ Bytecode \in Pairs
  BY EmptyPair DEF Kinds, Bytecode
<1> HIDE DEF mem
<1>4. load'[t] = r /\ \A u \in Threads \ {t} : load'[u] = load[u]
  BY <1>1, <1>2 DEF Loads
<1>5. load' = [u \in Threads |-> load'[u]]
  BY <1>1, <1>2
<1>6. r \in Loads
  BY <1>1, <1>3 DEF Loads
<1>7. Types'
  BY <1>1, <1>2, <1>4, <1>5, <1>6 DEF IInv, Types
<1>8. pc'[t] = "construct" /\ lock = t /\ lock' # t
  BY <1>1, <1>2, LoaderAssumption DEF IInv, Types, Own
<1>9. Own(t)'
  BY <1>1, <1>4, <1>8 DEF IInv, Own
<1>10. Why(t)'
  BY <1>1, <1>4, <1>8 DEF IInv, Why
<1>11. Obj(t)'
  <2>1. built[t] = {} /\ Whole(built[t], linked[t], rooted[t]) /\ rooted[t] = {}
    BY <1>1 DEF IInv, Obj, Whole
  <2>2. Allocation(Bytecode) /\ Ready({}, Bytecode)
    BY DEF Allocation, Ready, Bytecode, OfPrototype
  <2> QED BY <1>2, <1>4, <1>8, <2>1, <2>2 DEF Obj
<1>12. \A u \in Threads \ {t} : lock' # u /\ lock # u
  BY <1>2, <1>8, LoaderAssumption
<1> QED BY <1>2, <1>4, <1>7, <1>9, <1>10, <1>11, <1>12, Frame DEF IInv, Types

(* No message, no memory.                                                   *)
LEMMA PackFailsStep == ASSUME IInv, NEW t \in Threads, PackFails(t) PROVE IInv'
<1> DEFINE failed == <<"data", <<>>>>
           mem == {}
           why == "outOfMemory"
           r == [doc |-> load[t].doc, json |-> load[t].json, task |-> load[t].task, mem |-> mem,
                 why |-> why, failed |-> failed, answer |-> load[t].answer]
<1>1. load[t] \in Loads /\ load \in [Threads -> Loads] /\ pc[t] = "translate"
  BY DEF IInv, Types, PackFails, Doing
<1>2. /\ load' = [load EXCEPT ![t].mem = mem, ![t].why = why, ![t].failed = failed]
      /\ pc' = [pc EXCEPT ![t] = "error"] /\ lock' = lock
      /\ built' = built /\ linked' = linked /\ rooted' = rooted /\ slot' = slot /\ fault' = fault
  BY DEF PackFails, Proceed, objectVars
<1>3. failed \in Pairs /\ failed # <<>> /\ failed[1] = "data" /\ mem \in SUBSET Pairs
  BY EmptyPair DEF Kinds
<1>4. why \in Messages
  BY DEF Messages
<1> HIDE DEF failed
<1>5. load'[t] = r /\ \A u \in Threads \ {t} : load'[u] = load[u]
  BY <1>1, <1>2 DEF Loads
<1>6. load' = [u \in Threads |-> load'[u]]
  BY <1>1, <1>2
<1>7. r \in Loads
  BY <1>1, <1>3, <1>4 DEF Loads
<1>8. Types'
  BY <1>1, <1>2, <1>5, <1>6, <1>7 DEF IInv, Types
<1>9. pc'[t] = "error"
  BY <1>2 DEF IInv, Types
<1>10. Own(t)'
  <2>1. ~Unparsed(r)
    BY <1>1, <1>3 DEF IInv, Own, Unparsed
  <2>2. r.json /\ r.doc = load[t].doc /\ ~r.answer /\ r.doc \in Documents /\ lock = t
    BY <1>1 DEF IInv, Own
  <2> HIDE DEF r
  <2> QED BY <1>2, <1>5, <1>9, <2>1, <2>2 DEF Own
<1>11. Why(t)'
  BY <1>3, <1>5, <1>9 DEF Why
<1>12. Obj(t)'
  BY <1>1, <1>2, <1>9 DEF IInv, Obj
<1> QED BY <1>2, <1>5, <1>8, <1>10, <1>11, <1>12, Frame DEF IInv, Types

(* The message is settled, and the lock released if the document parsed.    *)
LEMMA ErrorStep == ASSUME IInv, NEW t \in Threads, Error(t) PROVE IInv'
<1> DEFINE r == [doc |-> load[t].doc, json |-> FALSE, task |-> End, mem |-> load[t].mem,
                 why |-> load[t].why, failed |-> load[t].failed, answer |-> load[t].answer]
<1>1. load[t] \in Loads /\ load \in [Threads -> Loads] /\ pc[t] = "error"
  BY DEF IInv, Types, Error, Doing
<1>2. PICK m \in Explained(t) : slot' = [slot EXCEPT ![t] = m]
  BY DEF Error
<1>3. /\ load' = [load EXCEPT ![t].json = FALSE, ![t].task = End]
      /\ pc' = [pc EXCEPT ![t] = "idle"] /\ lock' = IF load[t].json THEN NULL ELSE lock
      /\ built' = built /\ linked' = linked /\ rooted' = rooted /\ fault' = fault
  BY DEF Error, Proceed, objectVars
<1>4. End \in Pairs
  BY EmptyPair DEF End, Kinds
<1>5. load'[t] = r /\ \A u \in Threads \ {t} : load'[u] = load[u]
  BY <1>1, <1>3 DEF Loads
<1>6. load' = [u \in Threads |-> load'[u]]
  BY <1>1, <1>3
<1>7. r \in Loads
  BY <1>1, <1>4 DEF Loads
<1>8. /\ load[t].failed # <<>> /\ load[t].why \in {"text", "none", "outOfMemory"}
      /\ load[t].why = "text" <=> load[t].failed[1] \in {"document", "parse"}
      /\ load[t].why = "none" => slot[t] = "outOfMemory"
      /\ load[t].mem # {} => load[t].failed[2] # <<>>
  BY <1>1 DEF IInv, Why
<1>9. m \in Messages /\ Explains(m, load[t].failed[1])
  <2>1. CASE load[t].why = "text"
    <3>1. m \in {"text", "nested"}
      BY <1>2, <2>1 DEF Explained
    <3> QED BY <1>8, <2>1, <3>1 DEF Explains, Messages
  <2>2. CASE load[t].why = "none"
    <3>1. m = "outOfMemory"
      BY <1>2, <1>8, <2>2 DEF Explained
    <3> QED BY <1>8, <2>2, <3>1 DEF Explains, Messages
  <2>3. CASE load[t].why = "outOfMemory"
    <3>1. m = "outOfMemory"
      BY <1>2, <2>3 DEF Explained
    <3> QED BY <1>8, <2>3, <3>1 DEF Explains, Messages
  <2> QED BY <1>8, <2>1, <2>2, <2>3
<1>10. Types'
  BY <1>1, <1>2, <1>3, <1>5, <1>6, <1>7, <1>9 DEF IInv, Types
<1>11. pc'[t] = "idle" /\ slot'[t] = m
  BY <1>2, <1>3 DEF IInv, Types
<1>12. lock = t /\ (load[t].json <=> ~Unparsed(load[t])) /\ ~load[t].answer
  BY <1>1 DEF IInv, Own
<1>13. Own(t)'
  <2>1. Unparsed(r) = Unparsed(load[t]) /\ ~r.answer
    BY <1>12 DEF Unparsed
  <2>2. t # NULL
    BY LoaderAssumption
  <2> HIDE DEF r
  <2> QED BY <1>3, <1>5, <1>11, <1>12, <2>1, <2>2 DEF Own
<1>14. Why(t)'
  BY <1>5, <1>8, <1>9, <1>11 DEF Why
<1>15. Obj(t)'
  <2>1. built[t] = {} /\ Whole(built[t], linked[t], rooted[t]) /\ rooted[t] = {}
    BY <1>1 DEF IInv, Obj, Whole
  <2>2. ~load'[t].answer
    BY <1>5, <1>12
  <2>3. built'[t] = {} /\ linked'[t] = linked[t] /\ rooted'[t] = {}
    BY <1>3, <2>1
  <2> QED BY <1>11, <2>1, <2>2, <2>3 DEF Obj
<1>16. \A u \in Threads \ {t} : lock' # u /\ lock # u
  BY <1>3, <1>12, LoaderAssumption
<1> QED BY <1>2, <1>3, <1>5, <1>10, <1>13, <1>14, <1>15, <1>16, Frame DEF IInv, Types

(* An object made, or a prototype finished: all that was built stays held.  *)
LEMMA ConstructStep == ASSUME IInv, NEW t \in Threads, Construct(t) PROVE IInv'
<1> DEFINE o == Task(t)
           d == load[t].doc
           mem == IF o[1] = "unpack" THEN load[t].mem \cup {o} ELSE load[t].mem
           task == AfterObject(d, o)
           r == [doc |-> d, json |-> load[t].json, task |-> task, mem |-> mem,
                 why |-> load[t].why, failed |-> load[t].failed, answer |-> load[t].answer]
           B == built[t]
           L == linked[t]
           R == rooted[t]
<1>1. load[t] \in Loads /\ load \in [Threads -> Loads] /\ pc[t] = "construct" /\ o # End
  BY DEF IInv, Types, Construct, Doing
<1>2. /\ load' = [load EXCEPT ![t].mem = mem, ![t].task = task]
      /\ pc' = pc /\ lock' = lock /\ slot' = slot /\ fault' = fault
  BY DEF Construct
<1>3. /\ o \in Pairs /\ d \in Documents /\ Allocation(o) /\ Ready(B, o) /\ R \subseteq Open(o)
      /\ Whole(B, L, R) /\ B \in SUBSET Pairs
  BY <1>1 DEF IInv, Types, Own, Obj, Task, Loads
<1>4. o = <<o[1], o[2]>> /\ o[2] \in Seq(Nat) /\ mem \in SUBSET Pairs
  BY <1>1, <1>3, PairIsNotEmpty DEF Loads
(* What becomes of the objects.                                            *)
<1> DEFINE Good(NB, NL, NR) ==
             /\ Whole(NB, NL, NR) /\ Ready(NB, o) /\ NR \subseteq Open(o)
             /\ o \in NB \/ o[1] \in {"unpack", "number", "done"}
             /\ o[1] = "done" => <<"prototype", o[2]>> \notin NR
           Only(NB, NL, NR) ==
             /\ NB \in SUBSET Pairs /\ NL \in SUBSET Pairs /\ NR \in SUBSET Pairs
             /\ built'  = [built EXCEPT ![t] = NB]
             /\ linked' = [linked EXCEPT ![t] = NL]
             /\ rooted' = [rooted EXCEPT ![t] = NR]
<1>5. \E NB, NL, NR : Only(NB, NL, NR) /\ Good(NB, NL, NR)
  <2>0. /\ built = [built EXCEPT ![t] = B] /\ linked = [linked EXCEPT ![t] = L]
        /\ rooted = [rooted EXCEPT ![t] = R]
        /\ B \in SUBSET Pairs /\ L \in SUBSET Pairs /\ R \in SUBSET Pairs
    BY DEF IInv, Types
  <2>1. CASE o[1] \in {"unpack", "number"}
    <3>1. built' = built /\ linked' = linked /\ rooted' = rooted
      BY <2>1 DEF Construct, objectVars
    <3>2. Only(B, L, R)
      BY <2>0, <3>1
    <3>3. Good(B, L, R)
      BY <1>3, <2>1
    <3> QED BY <3>2, <3>3
  <2>2. CASE o[1] = "done"
    <3> DEFINE x == <<"prototype", o[2]>>
    <3>1. /\ linked' = [linked EXCEPT ![t] = L \cup {x}]
          /\ rooted' = [rooted EXCEPT ![t] = R \ {x}]
          /\ built' = built
      BY <2>2 DEF Construct
    <3>2. x \in B /\ x # Bytecode /\ x \in Pairs
      <4>1. Len(o[2]) \in 0 .. Len(o[2]) /\ x = Prototype(o[2], Len(o[2]))
        BY <1>4, WholePath DEF Prototype
      <4>2. x \in B
        BY <1>3, <2>2, <4>1 DEF Ready, OfPrototype
      <4> QED BY <1>3, <4>2 DEF Bytecode
    <3>3. Whole(B, L \cup {x}, R \ {x})
      <4> HIDE DEF x
      <4> QED BY <1>3, <3>2, Unroot
    <3>4. Only(B, L \cup {x}, R \ {x})
      <4> HIDE DEF x
      <4> QED BY <2>0, <3>1, <3>2
    <3>5. Good(B, L \cup {x}, R \ {x})
      BY <1>3, <2>2, <3>3
    <3> QED BY <3>4, <3>5
  <2>3. CASE o[1] \notin {"unpack", "number", "done"}
    <3>1. Chain(o) \subseteq B \cup {o}
      BY <1>1, <1>3, <2>3, ReadyChain
    <3>2. o = Bytecode \/ Bytecode \in B
      BY <1>3 DEF Ready
    <3>3. Ready(B \cup {o}, o)
      BY <1>3 DEF Ready
    <3>4. CASE o[1] \in {"bytecode", "prototype"}
      <4>1. /\ built' = [built EXCEPT ![t] = B \cup {o}]
            /\ rooted' = [rooted EXCEPT ![t] = R \cup {o}] /\ linked' = linked
        BY <2>3, <3>4 DEF Construct, NewObject
      <4>2. Whole(B \cup {o}, L, R \cup {o})
        BY <1>3, <3>1, <3>2, AddRooted
      <4>3. o \in Open(o)
        <5>1. CASE o[1] = "prototype"
          <6>1. Len(o[2]) \in 0 .. Len(o[2]) /\ o = Prototype(o[2], Len(o[2]))
            BY <1>4, <5>1, WholePath DEF Prototype
          <6> QED BY <5>1, <6>1 DEF Open, OfPrototype
        <5>2. CASE o[1] = "bytecode"
          <6>1. o = Bytecode
            BY <1>3, <5>2 DEF Allocation, End, ConstantsObject, OfPrototype
          <6> QED BY <5>2, <6>1 DEF Open, OfPrototype
        <5> QED BY <3>4, <5>1, <5>2
      <4>4. Only(B \cup {o}, L, R \cup {o})
        BY <1>3, <2>0, <4>1
      <4>5. Good(B \cup {o}, L, R \cup {o})
        BY <1>3, <2>3, <3>3, <4>2, <4>3
      <4> QED BY <4>4, <4>5
    <3>5. CASE o[1] \notin {"bytecode", "prototype"}
      <4>1. /\ built' = [built EXCEPT ![t] = B \cup {o}]
            /\ linked' = [linked EXCEPT ![t] = L \cup {o}] /\ rooted' = rooted
        BY <2>3, <3>5 DEF Construct, NewObject
      <4>2. Whole(B \cup {o}, L \cup {o}, R)
        <5>1. Bytecode \in B
          BY <3>2, <3>5 DEF Bytecode
        <5> QED BY <1>3, <3>1, <5>1, AddLinked
      <4>4. Only(B \cup {o}, L \cup {o}, R)
        BY <1>3, <2>0, <4>1
      <4>5. Good(B \cup {o}, L \cup {o}, R)
        BY <1>3, <2>3, <3>3, <4>2
      <4> QED BY <4>4, <4>5
    <3> QED BY <3>4, <3>5
  <2> QED BY <2>1, <2>2, <2>3
<1>5a. PICK NB, NL, NR : Only(NB, NL, NR) /\ Good(NB, NL, NR)
  BY <1>5
<1>6. task \in Pairs /\ Allocation(task) /\ Ready(NB, task) /\ NR \subseteq Open(task)
  <2>1. task = AfterObject(d, o)
    OBVIOUS
  <2> HIDE DEF o, d, task
  <2> QED BY <1>1, <1>3, <1>5a, <2>1, NextAllocation
<1> HIDE DEF o, d, mem, task, B, L, R
<1>7. load'[t] = r /\ \A u \in Threads \ {t} : load'[u] = load[u]
  BY <1>1, <1>2 DEF Loads, d
<1>8. load' = [u \in Threads |-> load'[u]]
  BY <1>1, <1>2
<1>9. r \in Loads
  BY <1>1, <1>4, <1>6 DEF Loads, d
<1>10. /\ built'[t] = NB /\ linked'[t] = NL /\ rooted'[t] = NR
       /\ \A u \in Threads \ {t} : /\ built'[u] = built[u] /\ linked'[u] = linked[u]
                                   /\ rooted'[u] = rooted[u]
       /\ built' \in [Threads -> SUBSET Pairs] /\ linked' \in [Threads -> SUBSET Pairs]
       /\ rooted' \in [Threads -> SUBSET Pairs]
  BY <1>5a DEF IInv, Types
<1>11. Types'
  BY <1>1, <1>2, <1>7, <1>8, <1>9, <1>10 DEF IInv, Types
<1>12. Own(t)'
  BY <1>1, <1>2, <1>7 DEF IInv, Own, d
<1>13. Why(t)'
  BY <1>1, <1>2, <1>7 DEF IInv, Why
<1>14. Obj(t)'
  BY <1>1, <1>2, <1>6, <1>7, <1>10, <1>5a DEF Obj
<1> QED BY <1>2, <1>7, <1>10, <1>11, <1>12, <1>13, <1>14, Frame

(* A failed construction leaves no object and no root.                      *)
LEMMA ConstructFailsStep == ASSUME IInv, NEW t \in Threads, ConstructFails(t) PROVE IInv'
<1>1. CASE Task(t)[1] = "name" /\ Lose("no_name")
  BY <1>1, LoseStep
<1>2. CASE ~(Task(t)[1] = "name" /\ Lose("no_name"))
  <2> DEFINE o == Task(t)
             mem == {}
             NR == rooted[t] \ Calls(o)
             r == [doc |-> load[t].doc, json |-> load[t].json, task |-> End, mem |-> mem,
                   why |-> load[t].why, failed |-> o, answer |-> load[t].answer]
  <2>1. load[t] \in Loads /\ load \in [Threads -> Loads] /\ pc[t] = "construct" /\ o # End
    BY DEF IInv, Types, ConstructFails, Doing
  <2>2. /\ load' = [load EXCEPT ![t].mem = mem, ![t].failed = o, ![t].task = End]
        /\ slot' = [slot EXCEPT ![t] = Told(o)] /\ pc' = [pc EXCEPT ![t] = "idle"]
        /\ rooted' = [rooted EXCEPT ![t] = NR]
        /\ built' = [built EXCEPT ![t] = {}] /\ linked' = [linked EXCEPT ![t] = {}]
        /\ lock' = lock /\ fault' = fault
    BY <1>2 DEF ConstructFails, Proceed
  <2>3. o \in Pairs /\ Allocation(o) /\ rooted[t] \subseteq Open(o) /\ ~load[t].answer
    BY <2>1 DEF IInv, Own, Obj, Task, Loads
  <2>4. o # <<>> /\ o[1] # "document"
    <3>1. o[1] # "document"
      BY <2>1, <2>3 DEF Allocation, Bytecode, ConstantsObject, OfPrototype, End
    <3> QED BY <2>3, <3>1, PairIsNotEmpty
  <2>5. NR = {}
    BY <2>3 DEF Open, Calls, Prototype
  <2>6. Told(o) \in {"unpack", "invalid", "outOfMemory"}
    BY DEF Told
  <2>7. End \in Pairs
    BY EmptyPair DEF End, Kinds
  <2> HIDE DEF o, NR
  <2>8. load'[t] = r /\ \A u \in Threads \ {t} : load'[u] = load[u]
    BY <2>1, <2>2 DEF Loads
  <2>9. load' = [u \in Threads |-> load'[u]]
    BY <2>1, <2>2
  <2>10. r \in Loads
    BY <2>1, <2>3, <2>7 DEF Loads
  <2>11. Types'
    BY <2>1, <2>2, <2>5, <2>6, <2>8, <2>9, <2>10 DEF IInv, Types, Messages
  <2>12. /\ pc'[t] = "idle" /\ slot'[t] = Told(o)
         /\ built'[t] = {} /\ linked'[t] = {} /\ rooted'[t] = {}
    BY <2>2, <2>5 DEF IInv, Types
  <2>13. lock' # t
    BY <2>1, <2>2 DEF IInv, Own
  <2>14. Own(t)'
    BY <2>12, <2>13 DEF Own
  <2>15. Why(t)'
    <3>1. Explains(Told(o), o[1])
      BY <2>4 DEF Explains, Told
    <3> QED BY <2>4, <2>8, <2>12, <3>1 DEF Why
  <2>16. Obj(t)'
    <3>1. ~load'[t].answer
      BY <2>3, <2>8
    <3> QED BY <2>12, <3>1 DEF Obj, Whole
  <2> QED BY <2>2, <2>8, <2>11, <2>14, <2>15, <2>16, Frame DEF IInv, Types
<1> QED BY <1>1, <1>2

(* A finished construction leaves one root, that of the bytecode.           *)
LEMMA LoadedStep == ASSUME IInv, NEW t \in Threads, Loaded(t) PROVE IInv'
<1> DEFINE mem == {}
           r == [doc |-> load[t].doc, json |-> load[t].json, task |-> load[t].task, mem |-> mem,
                 why |-> load[t].why, failed |-> load[t].failed, answer |-> TRUE]
<1>1. load[t] \in Loads /\ load \in [Threads -> Loads] /\ pc[t] = "construct" /\ Task(t) = End
  BY DEF IInv, Types, Loaded, Doing
<1>2. /\ load' = [load EXCEPT ![t].mem = mem, ![t].answer = TRUE]
      /\ pc' = [pc EXCEPT ![t] = "idle"] /\ lock' = lock
      /\ built' = built /\ linked' = linked /\ rooted' = rooted /\ slot' = slot /\ fault' = fault
  BY DEF Loaded, Proceed, objectVars
<1>3. load'[t] = r /\ \A u \in Threads \ {t} : load'[u] = load[u]
  BY <1>1, <1>2 DEF Loads
<1>4. load' = [u \in Threads |-> load'[u]]
  BY <1>1, <1>2
<1>5. r \in Loads
  BY <1>1 DEF Loads
<1>6. Types'
  BY <1>1, <1>2, <1>3, <1>4, <1>5 DEF IInv, Types
<1>7. pc'[t] = "idle" /\ lock' # t
  BY <1>1, <1>2 DEF IInv, Types, Own
<1>8. Own(t)'
  BY <1>7 DEF Own
<1>9. Why(t)'
  <2>1. load'[t].failed = <<>> /\ load'[t].mem = {}
    BY <1>1, <1>3 DEF IInv, Why
  <2> QED BY <1>7, <2>1 DEF Why
<1>10. Obj(t)'
  <2>1. Whole(built[t], linked[t], rooted[t]) /\ Bytecode \in built[t] /\ rooted[t] \subseteq {Bytecode}
    BY <1>1 DEF IInv, Obj, Ready, Open, Task, End, Bytecode, OfPrototype
  <2>2. rooted[t] = {Bytecode}
    BY <2>1 DEF Whole
  <2>3. load'[t].answer = TRUE
    BY <1>3
  <2> QED BY <1>2, <1>7, <2>1, <2>2, <2>3 DEF Obj
<1> QED BY <1>2, <1>3, <1>6, <1>8, <1>9, <1>10, Frame DEF IInv, Types

-----------------------------------------------------------------------------
(* The types, and for every thread what Own, Why and Obj say, hold in every  *)
(* reachable state, whatever the threads, the documents and the allocations  *)
(* that fail.                                                              *)
THEOREM Inductive == LoaderSpec => []IInv
<1>1. LoaderInit => IInv
  BY InitStep
<1>2. IInv /\ [LoaderNext]_loaderVars => IInv'
  <2> SUFFICES ASSUME IInv, [LoaderNext]_loaderVars PROVE IInv'
    OBVIOUS
  <2>1. CASE UNCHANGED loaderVars
    <3>1. /\ lock' = lock /\ pc' = pc /\ load' = load /\ slot' = slot /\ fault' = fault
          /\ built' = built /\ linked' = linked /\ rooted' = rooted
      BY <2>1 DEF loaderVars, objectVars
    <3> QED BY <3>1 DEF IInv, Types, Own, Why, Obj
  <2>2. CASE LoaderNext
    <3>1. PICK t \in Threads :
            \/ Begin(t) \/ Release(t) \/ Lock(t) \/ Validate(t) \/ Translate(t) \/ TranslateFails(t)
            \/ Pack(t) \/ PackFails(t) \/ Error(t) \/ Construct(t) \/ ConstructFails(t) \/ Loaded(t)
      BY <2>2 DEF LoaderNext
    <3> QED BY <3>1, BeginStep, ReleaseStep, LockStep, ValidateStep, TranslateStep,
               TranslateFailsStep, PackStep, PackFailsStep, ErrorStep, ConstructStep,
               ConstructFailsStep, LoadedStep
  <2> QED BY <2>1, <2>2
<1> QED BY <1>1, <1>2, PTL DEF LoaderSpec

(* Every variable keeps its type (LoaderTypeOK).                            *)
THEOREM TypeCorrect == LoaderSpec => []LoaderTypeOK
<1>1. IInv => LoaderTypeOK
  <2> SUFFICES ASSUME IInv PROVE LoaderTypeOK
    OBVIOUS
  <2>1. ASSUME NEW t \in Threads
        PROVE  /\ linked[t] \cup rooted[t] \subseteq built[t]
               /\ load[t].doc \in Documents \cup {NULL} /\ load[t].why \in Messages
    <3>1. linked[t] \cup rooted[t] \subseteq built[t]
      BY DEF IInv, Obj, Whole
    <3>2. load[t] \in Loads
      BY DEF IInv, Types
    <3> QED BY <3>1, <3>2 DEF Loads
  <2> QED BY <2>1 DEF IInv, Types, LoaderTypeOK
<1> QED BY <1>1, Inductive, PTL

(* A call that is over holds no lock unless its document was not parsed      *)
(* (json.c:213, 382), no memory unless it ran out in a nested prototype      *)
(* (json.c:165), and no root but that of the bytecode it returned            *)
(* (CallsCleanUp), for any number of concurrent loads.                      *)
THEOREM CleansUp == LoaderSpec => []CallsCleanUp
<1>1. IInv => CallsCleanUp
  <2> SUFFICES ASSUME IInv, NEW t \in Threads, pc[t] = "idle"
               PROVE  /\ lock = t => load[t].doc.defect = "syntax" \/ load[t].failed = <<"parse", <<>>>>
                      /\ load[t].mem # {} => load[t].failed[2] # <<>>
                      /\ rooted[t] = IF load[t].answer THEN {Bytecode} ELSE {}
    BY DEF CallsCleanUp
  <2>1. lock = t => load[t].doc.defect = "syntax" \/ load[t].failed = <<"parse", <<>>>>
    BY DEF IInv, Own, Unparsed
  <2>2. load[t].mem # {} => load[t].failed[2] # <<>>
    BY DEF IInv, Why
  <2>3. rooted[t] = IF load[t].answer THEN {Bytecode} ELSE {}
    BY DEF IInv, Obj
  <2> QED BY <2>1, <2>2, <2>3
<1> QED BY <1>1, Inductive, PTL

(* The collector may run at any moment of a load: every object built has a   *)
(* root that leads to it (BuiltIsHeld), however deep the prototypes nest.    *)
THEOREM NothingIsLoose == LoaderSpec => []BuiltIsHeld
<1>1. IInv => BuiltIsHeld
  BY WholeIsHeld DEF IInv, Obj, BuiltIsHeld
<1> QED BY <1>1, Inductive, PTL

(* NULL comes with a message in the thread's error slot; a refused document  *)
(* is blamed, or memory ran out while it was, and a good one is blamed only  *)
(* when memory ran out in the parser, in protobuf's unpack or for a string   *)
(* constant (FailureIsExplained).                                           *)
THEOREM Explanation == LoaderSpec => []FailureIsExplained
<1>1. IInv => FailureIsExplained
  BY DEF IInv, Why, FailureIsExplained, Explains
<1> QED BY <1>1, Inductive, PTL
==============================================================================
