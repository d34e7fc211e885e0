------------------------------ MODULE Dictionary ------------------------------
(***************************************************************************)
(* What a table of FluffyVM is for: a finite map.  A thread asks, and is    *)
(* later answered in one step.  When memory runs out the map may refuse a   *)
(* set, or not take a new key; it never forgets a key it has.              *)
(***************************************************************************)
CONSTANTS Threads, Keys, Values,
          Absent,          \* the answer for a key that is not there
          Pending,         \* no answer, or none yet
          Done, Refused,   \* the answers to a set
          MayRunOut        \* TRUE: memory may run out

VARIABLES
  dict,              \* a function on the keys that are there
  call, key, val,    \* what each thread asks
  answer             \* what it was answered

asking == <<call, key, val>>
vars == <<dict, asking, answer>>

Init == /\ dict = [k \in {} |-> Absent]
        /\ call = [t \in Threads |-> "idle"]
        /\ key  = [t \in Threads |-> Absent] /\ val = key
        /\ answer = [t \in Threads |-> Pending]

Ask(t, c, k, v) == /\ call[t] = "idle"
                   /\ call' = [call EXCEPT ![t] = c]
                   /\ key'  = [key EXCEPT ![t] = k]
                   /\ val'  = [val EXCEPT ![t] = v]
                   /\ answer' = [answer EXCEPT ![t] = Pending]
                   /\ UNCHANGED dict
Answer(t, a) == /\ answer' = [answer EXCEPT ![t] = a]
                /\ call' = [call EXCEPT ![t] = "idle"]
                /\ key'  = [key EXCEPT ![t] = Absent]
                /\ val'  = [val EXCEPT ![t] = Absent]

Set(t) ==
  /\ call[t] = "set"
  /\ dict' = [x \in DOMAIN dict \cup {key[t]} |-> IF x = key[t] THEN val[t] ELSE dict[x]]
  /\ Answer(t, Done)
SetLost(t) == /\ call[t] = "set" /\ MayRunOut /\ key[t] \notin DOMAIN dict
              /\ Answer(t, Done) /\ UNCHANGED dict
SetRefused(t) == /\ call[t] = "set" /\ MayRunOut
                 /\ Answer(t, Refused) /\ UNCHANGED dict

(* A lookup, by a value or by the characters of a string.                  *)
Get(t) == /\ call[t] \in {"get", "get2"}
          /\ Answer(t, IF key[t] \in DOMAIN dict THEN dict[key[t]] ELSE Absent)
          /\ UNCHANGED dict

(* A lookup by characters that may answer anything.                        *)
AnyGet2(t) == /\ call[t] = "get2"
              /\ \E a \in Values \cup {Absent} : Answer(t, a)
              /\ UNCHANGED dict

NextKey(t) == /\ call[t] = "next"
              /\ \E a \in (DOMAIN dict \ {key[t]}) \cup {Absent} : Answer(t, a)
              /\ UNCHANGED dict

Remove(t, k) == /\ call[t] = "idle"
                /\ dict' = [x \in DOMAIN dict \ {k} |-> dict[x]]
                /\ Answer(t, Done)

Forget(t) == call[t] = "idle" /\ Answer(t, Pending) /\ UNCHANGED dict

Next ==
  \E t \in Threads :
    \/ \E k \in Keys : \/ \E v \in Values : Ask(t, "set", k, v)
                       \/ Ask(t, "get", k, Absent) \/ Ask(t, "get2", k, Absent)
                       \/ Remove(t, k)
    \/ \E k \in Keys \cup {Absent} : Ask(t, "next", k, Absent)
    \/ Set(t) \/ SetLost(t) \/ SetRefused(t)
    \/ Get(t) \/ NextKey(t) \/ Forget(t)

Spec == Init /\ [][Next]_vars

(* The same map, but for the answers to lookups by characters.             *)
NextButGet2 == Next \/ \E t \in Threads : AnyGet2(t)
SpecButGet2 == Init /\ [][NextButGet2]_vars
===============================================================================
