-------------------------------- MODULE Loader --------------------------------
(***************************************************************************)
(* Loading bytecode: src/src/loader/bytecode/json.c turns a JSON document   *)
(* into a ProtoBuf message under cjson_lock, src/src/bytecode.c the message *)
(* into objects of the collector.  Each allocation on the way is a task     *)
(* that may fail; what is copied between them is left out.                  *)
(*                                                                         *)
(* A prototype is named by its path: <<>> is the main prototype, <<2>> the  *)
(* second one nested in it.  The calls of loadPrototype in progress are     *)
(* those for the paths that lead to the task's.                            *)
(***************************************************************************)
EXTENDS Integers, SequencesExt

CONSTANTS
  Threads,
  NULL,        \* no thread, no document
  Documents,   \* [defect, constants, protos : paths, lines : those with line info]
  MayRunOut    \* whether memory may run out

Defects == {"none", "syntax", "object", "constant", "prototype"}
ASSUME LoaderAssumption ==
  /\ NULL \notin Threads /\ NULL \notin Documents
  /\ \A d \in Documents : /\ d.defect \in Defects /\ d.constants \in Seq({"string", "number"})
                          /\ d.protos \subseteq Seq(Nat)

VARIABLES
  lock,        \* cjson_lock: its owner, or NULL
  pc,          \* per thread: where it is
  load,        \* per thread: the locals of the load it makes, or made last
  built,       \* per thread: objects made for it
  linked,      \* per thread: those that a field of another one refers to
  rooted,      \* per thread: objects with a root reference
  slot,        \* per thread: its error message
  fault        \* "none", or how the process was lost

objectVars == <<built, linked, rooted>>
loaderVars == <<lock, pc, load, objectVars, slot, fault>>

Bytecode == <<"bytecode", <<>>>>
Messages == {"none", "text", "nested", "outOfMemory", "unpack", "invalid"}
End  == <<"end", <<>>>>       \* no task is left
Idle == [doc |-> NULL, json |-> FALSE, task |-> End, mem |-> {}, why |-> "none",
         failed |-> <<>>, answer |-> FALSE]

LoaderInit ==
  /\ lock = NULL
  /\ pc   = [t \in Threads |-> "idle"]
  /\ load = [t \in Threads |-> Idle]
  /\ built = [t \in Threads |-> {}] /\ linked = built /\ rooted = built
  /\ slot = [t \in Threads |-> "none"]
  /\ fault = "none"

Doing(t, p) == fault = "none" /\ pc[t] = p
Proceed(t, p) == pc' = [pc EXCEPT ![t] = p]
Lose(how) == fault' = how /\ UNCHANGED <<lock, pc, load, objectVars, slot>>
-----------------------------------------------------------------------------
(* The allocations of a load in their order.  Both loadPrototypes go through *)
(* the prototypes nested in one before they come back to it.                *)
Down(doc, p, enter, back) ==
  IF Append(p, 1) \in doc.protos THEN <<enter, Append(p, 1)>> ELSE <<back, p>>
Along(doc, p, enter, back) ==
  LET q == Append(Front(p), Last(p) + 1)
  IN  IF p = <<>> THEN End
      ELSE IF q \in doc.protos THEN <<enter, q>> ELSE <<back, Front(p)>>

AfterPart(doc, o) ==
  LET p == o[2]
      Constant(i) == IF i <= Len(doc.constants) THEN <<"constant", <<i>>>> ELSE <<"proto", <<>>>>
  IN  CASE o[1] = "constants" -> Constant(1)
        [] o[1] = "constant" -> Constant(p[1] + 1)
        [] o[1] = "proto" -> <<"protos", p>>
        [] o[1] = "protos" -> Down(doc, p, "proto", "instructions")
        [] o[1] = "instructions" -> <<"lineinfo", p>>
        [] OTHER -> Along(doc, p, "proto", "instructions")

(* bytecode.c; "done" is the step that hangs a finished prototype into its   *)
(* holder.                                                                 *)
AfterObject(doc, o) ==
  LET p == o[2]
      Constant(i) == IF i <= Len(doc.constants) THEN <<doc.constants[i], <<i>>>>
                     ELSE <<"prototype", <<>>>>
  IN  CASE o[1] = "bytecode" -> <<"unpack", p>>
        [] o[1] = "unpack" -> <<"values", p>>
        [] o[1] = "values" -> <<"constantsObject", p>>
        [] o[1] = "constantsObject" -> Constant(1)
        [] o[1] \in {"string", "number"} -> Constant(p[1] + 1)
        [] o[1] = "prototype" -> <<"name", p>>
        [] o[1] = "name" -> <<"prototypes", p>>
        [] o[1] = "prototypes" -> <<"instructions", p>>
        [] o[1] = "instructions" /\ p \in doc.lines -> <<"lineInfo", p>>
        [] o[1] = "done" -> Along(doc, p, "prototype", "done")
        [] OTHER -> Down(doc, p, "prototype", "done")

Task(t) == load[t].task
-----------------------------------------------------------------------------
(* External: an application begins a load, with its error slot cleared, and *)
(* gives up the bytecode it got.                                           *)
Begin(t) ==
  /\ Doing(t, "idle") /\ rooted[t] = {}
  /\ \E d \in Documents : load' = [load EXCEPT ![t] = [Idle EXCEPT !.doc = d]]
  /\ slot' = [slot EXCEPT ![t] = "none"]
  /\ Proceed(t, "lock")
  /\ UNCHANGED <<lock, objectVars, fault>>

Release(t) ==
  /\ Doing(t, "idle") /\ load[t].answer
  /\ built'  = [built EXCEPT ![t] = {}]
  /\ linked' = [linked EXCEPT ![t] = {}]
  /\ rooted' = [rooted EXCEPT ![t] = {}]
  /\ load' = [load EXCEPT ![t] = Idle]
  /\ UNCHANGED <<lock, pc, slot, fault>>

Lock(t) ==
  /\ Doing(t, "lock") /\ lock = NULL
  /\ lock' = t /\ Proceed(t, "validate")
  /\ UNCHANGED <<load, objectVars, slot, fault>>

(* Parsing and validation; what is wrong is a text.  There is no document    *)
(* for want of memory either, which passes for a document that is wrong.     *)
Refuse(t, parsed, what) ==
  /\ load' = [load EXCEPT ![t].json = parsed, ![t].why = "text", ![t].failed = <<what, <<>>>>]
  /\ Proceed(t, "error")
Invalid(doc) == doc.defect \in {"object", "constant", "prototype"}
Validate(t) ==
  /\ Doing(t, "validate")
  /\ LET d == load[t].doc
     IN  \/ d.defect = "syntax" /\ Refuse(t, FALSE, "document")
         \/ d.defect # "syntax" /\ MayRunOut /\ Refuse(t, FALSE, "parse")
         \/ Invalid(d) /\ Refuse(t, TRUE, "document")
         \/ /\ d.defect = "none"
            /\ load' = [load EXCEPT ![t].json = TRUE, ![t].task = <<"constants", <<>>>>]
            /\ Proceed(t, "translate")
  /\ UNCHANGED <<lock, objectVars, slot, fault>>

Translate(t) ==
  /\ Doing(t, "translate") /\ Task(t) # End
  /\ load' = [load EXCEPT ![t].mem = @ \cup {Task(t)},
                          ![t].task = AfterPart(load[t].doc, Task(t))]
  /\ UNCHANGED <<lock, pc, objectVars, slot, fault>>

(* Memory runs out.  loadPrototype frees its own prototype, with those       *)
(* nested in it, but returns at once when a nested one fails: its callers    *)
(* have nothing that leads to it.                                          *)
Unfreed(mem, task) ==
  {b \in mem : b[1] \notin {"constants", "constant"} /\ ~IsPrefix(task[2], b[2])}
(* Variant: no message when there is no prototype.                          *)
TranslateFailsMute(t) ==
  /\ MayRunOut /\ Doing(t, "translate") /\ Task(t) # End /\ Task(t)[1] # "constant"
  /\ load' = [load EXCEPT ![t].mem = Unfreed(@, Task(t)), ![t].failed = Task(t)]
  /\ Proceed(t, "error") /\ UNCHANGED <<lock, objectVars, slot, fault>>
TranslateFails(t) ==
  /\ MayRunOut /\ Doing(t, "translate") /\ Task(t) # End
  /\ LET whole == Task(t)[1] = "proto"    \* the prototype itself, or a part of it
     IN  \/ Task(t)[1] = "constant" /\ Lose("null_constant")
         \/ /\ Task(t)[1] # "constant"
            /\ slot' = [slot EXCEPT ![t] = IF whole THEN "outOfMemory" ELSE @]
            /\ load' = [load EXCEPT ![t].mem  = Unfreed(@, Task(t)),
                                    ![t].why  = IF whole THEN "none" ELSE "outOfMemory",
                                    ![t].failed = Task(t)]
            /\ Proceed(t, "error")
            /\ UNCHANGED <<lock, objectVars, fault>>

(* The message is packed, the document deleted and the lock released.       *)
Pack(t) ==
  /\ Doing(t, "translate") /\ Task(t) = End
  /\ lock' = NULL
  /\ load' = [load EXCEPT ![t].mem = {<<"data", <<>>>>}, ![t].json = FALSE,
                          ![t].task = Bytecode]
  /\ Proceed(t, "construct")
  /\ UNCHANGED <<objectVars, slot, fault>>
PackFails(t) ==
  /\ MayRunOut /\ Doing(t, "translate") /\ Task(t) = End
  /\ load' = [load EXCEPT ![t].mem = {}, ![t].why = "outOfMemory", ![t].failed = <<"data", <<>>>>]
  /\ Proceed(t, "error")
  /\ UNCHANGED <<lock, objectVars, slot, fault>>

(* The error label: fluffyvm_set_errmsg with a new string, or with what      *)
(* there is for when that cannot be made; the lock is released if there is   *)
(* a document to delete.                                                   *)
Explained(t) ==
  CASE load[t].why = "text" -> {"text"} \cup IF MayRunOut THEN {"nested"} ELSE {}
    [] load[t].why = "none" -> {slot[t]}
    [] OTHER -> {load[t].why}
(* Variant: the lock is released with a text only.                         *)
ErrorLocked(t) ==
  /\ Doing(t, "error")
  /\ \E m \in Explained(t) : slot' = [slot EXCEPT ![t] = m]
  /\ lock' = IF load[t].json /\ load[t].why = "text" THEN NULL ELSE lock
  /\ load' = [load EXCEPT ![t].json = FALSE, ![t].task = End]
  /\ Proceed(t, "idle") /\ UNCHANGED <<objectVars, fault>>
Error(t) ==
  /\ Doing(t, "error")
  /\ \E m \in Explained(t) : slot' = [slot EXCEPT ![t] = m]
  /\ lock' = IF load[t].json THEN NULL ELSE lock
  /\ load' = [load EXCEPT ![t].json = FALSE, ![t].task = End]
  /\ Proceed(t, "idle")
  /\ UNCHANGED <<objectVars, fault>>
-----------------------------------------------------------------------------
(* What o is reached through: the bytecode, the prototypes that lead to o,  *)
(* and the arrays these are in.                                            *)
Chain(o) ==
  LET p == o[2]
  IN  {o, Bytecode} \cup
      (CASE o[1] = "string" -> {<<"constantsObject", <<>>>>}
         [] o[1] \in {"bytecode", "values", "constantsObject"} -> {}
         [] OTHER -> {<<"prototype", SubSeq(p, 1, n)>> : n \in 0 .. Len(p)}
                       \cup {<<"prototypes", SubSeq(p, 1, n)>> : n \in 0 .. Len(p) - 1})

(* A root leads to o: what is not referred to by a field is at or above it.  *)
Held(t, o) ==
  LET roots == Chain(o) \cap rooted[t]
  IN  roots # {} /\ \A x \in Chain(o) : x \in linked[t] \/ \E r \in roots : x \in Chain(r)

(* bytecode_load.  A new object has a root of its own until the field that   *)
(* is to hold it refers to it: a part at once (one step here), a prototype   *)
(* when it is complete, the bytecode until its user gives it up.             *)

(* Variant: a part is not written into its holder.                         *)
NewObjectLoose(t, o, isRoot) ==
  /\ built' = [built EXCEPT ![t] = @ \cup {o}]
  /\ rooted' = [rooted EXCEPT ![t] = IF isRoot THEN @ \cup {o} ELSE @]
  /\ UNCHANGED linked
NewObject(t, o, isRoot) ==
  /\ built' = [built EXCEPT ![t] = @ \cup {o}]
  /\ IF isRoot THEN rooted' = [rooted EXCEPT ![t] = @ \cup {o}] /\ UNCHANGED linked
               ELSE linked' = [linked EXCEPT ![t] = @ \cup {o}] /\ UNCHANGED rooted

Construct(t) ==
  /\ Doing(t, "construct") /\ Task(t) # End
  /\ LET o == Task(t)
     IN  /\ load' = [load EXCEPT ![t].mem  = IF o[1] = "unpack" THEN @ \cup {o} ELSE @,
                                 ![t].task = AfterObject(load[t].doc, o)]
         /\ CASE o[1] \in {"unpack", "number"} -> UNCHANGED objectVars
              [] o[1] = "done" ->
                   /\ linked' = [linked EXCEPT ![t] = @ \cup {<<"prototype", o[2]>>}]
                   /\ rooted' = [rooted EXCEPT ![t] = @ \ {<<"prototype", o[2]>>}]
                   /\ UNCHANGED built
              [] OTHER -> NewObject(t, o, o[1] \in {"bytecode", "prototype"})
  /\ UNCHANGED <<lock, pc, slot, fault>>

(* Memory runs out: every call in progress removes the root it made.  A      *)
(* missing source name is looked into all the same; a missing constant       *)
(* passes for invalid bytecode.                                            *)
Calls(task) ==
  {Bytecode} \cup {<<"prototype", SubSeq(task[2], 1, n)>> : n \in 0 .. Len(task[2])}
Told(task) ==
  CASE task[1] = "unpack" -> "unpack" [] task[1] = "string" -> "invalid" [] OTHER -> "outOfMemory"
(* Variant: the callers leave their roots.                                 *)
ConstructFailsRooted(t) ==
  /\ MayRunOut /\ Doing(t, "construct") /\ Task(t) # End
  /\ Task(t)[1] \notin {"number", "done", "name"}
  /\ rooted' = [rooted EXCEPT ![t] = @ \ {<<"prototype", Task(t)[2]>>}]
  /\ slot' = [slot EXCEPT ![t] = Told(Task(t))]
  /\ load' = [load EXCEPT ![t].mem = {}, ![t].failed = Task(t), ![t].task = End]
  /\ built' = [built EXCEPT ![t] = {}] /\ linked' = [linked EXCEPT ![t] = {}]
  /\ Proceed(t, "idle") /\ UNCHANGED <<lock, fault>>
ConstructFails(t) ==
  /\ MayRunOut /\ Doing(t, "construct") /\ Task(t) # End
  /\ Task(t)[1] \notin {"number", "done"}
  /\ \/ Task(t)[1] = "name" /\ Lose("no_name")
     \/ /\ Task(t)[1] # "name"
        /\ rooted' = [rooted EXCEPT ![t] = @ \ Calls(Task(t))]
        /\ slot'   = [slot EXCEPT ![t] = Told(Task(t))]
        /\ load'   = [load EXCEPT ![t].mem = {}, ![t].failed = Task(t), ![t].task = End]
        /\ built'  = [built EXCEPT ![t] = {}] /\ linked' = [linked EXCEPT ![t] = {}]
        /\ Proceed(t, "idle")
        /\ UNCHANGED <<lock, fault>>

Loaded(t) ==
  /\ Doing(t, "construct") /\ Task(t) = End
  /\ load' = [load EXCEPT ![t].mem = {}, ![t].answer = TRUE]
  /\ Proceed(t, "idle")
  /\ UNCHANGED <<lock, objectVars, slot, fault>>

LoaderNext ==
  \E t \in Threads :
    \/ Begin(t) \/ Release(t) \/ Lock(t) \/ Validate(t) \/ Translate(t) \/ TranslateFails(t)
    \/ Pack(t) \/ PackFails(t) \/ Error(t) \/ Construct(t) \/ ConstructFails(t) \/ Loaded(t)
LoaderSpec == LoaderInit /\ [][LoaderNext]_loaderVars
-----------------------------------------------------------------------------
(* Every variable keeps its type, and what is linked or rooted was built.   *)
LoaderTypeOK ==
  /\ lock \in Threads \cup {NULL}
  /\ pc \in [Threads -> {"idle", "lock", "validate", "translate", "error", "construct"}]
  /\ slot \in [Threads -> Messages]
  /\ \A t \in Threads : /\ linked[t] \cup rooted[t] \subseteq built[t]
                        /\ load[t].doc \in Documents \cup {NULL}
                        /\ load[t].why \in Messages
  /\ fault \in {"none", "null_constant", "no_name"}

(* A call that is over holds no lock, unless its document was not parsed,   *)
(* malformed or for want of memory (json.c:213, 382), no memory, unless it   *)
(* ran out in a nested prototype (json.c:165), and no root but that of the   *)
(* bytecode it returned.                                                   *)
CallsCleanUp ==
  \A t \in Threads : pc[t] = "idle" =>
    /\ lock = t => load[t].doc.defect = "syntax" \/ load[t].failed = <<"parse", <<>>>>
    /\ load[t].mem # {} => load[t].failed[2] # <<>>
    /\ rooted[t] = IF load[t].answer THEN {Bytecode} ELSE {}

(* Whatever a load has built is held by a root, directly or through fields, *)
(* from its allocation on: the collector may run at any time.                *)
BuiltIsHeld == \A t \in Threads : \A o \in built[t] : Held(t, o)

(* NULL comes with a message in the thread's error slot.  A refused document *)
(* is blamed, or memory ran out while it was; a good one is blamed only when *)
(* memory ran out in one of three places that take it for a fault of the     *)
(* data: the parser (json.c:213), protobuf's unpack (bytecode.c:240) and a   *)
(* string constant (bytecode.c:300).                                        *)
FailureIsExplained ==
  \A t \in Threads : (pc[t] = "idle" /\ load[t].failed # <<>>) =>
    LET blamed  == slot[t] \in {"text", "unpack", "invalid"}
        refused == load[t].failed[1] = "document"
    IN  /\ slot[t] # "none"
        /\ refused => slot[t] \in {"text", "nested"}
        /\ blamed /\ ~refused => load[t].failed[1] \in {"parse", "unpack", "string"}
        /\ slot[t] = "nested" => refused \/ load[t].failed[1] = "parse"
=============================================================================
