------------------------------- MODULE Hashtable -------------------------------
(***************************************************************************)
(* One table: src/src/hashtable.c, used by threads under its read-write     *)
(* lock.  But for hashtable_get2 it implements Dictionary while the process *)
(* lasts.                                                                  *)
(*                                                                         *)
(* buckets maps the indices of the buckets in use to chains of pairs.  In a *)
(* pair, gcVal is what the collector follows; a stored object nothing leads *)
(* to, and no thread has rooted, may be freed at any time.  (Keys stay.)    *)
(***************************************************************************)
EXTENDS Values, SequencesExt

CONSTANTS
  Threads,
  NULL,
  Keys, Stored,        \* values used as keys, and stored under them
  Capacities,          \* what hashtable_new may be asked for
  LoadNum, LoadDen,    \* FLUFFYVM_HASHTABLE_DEFAULT_LOAD_FACTOR, a fraction
  MaxUsage             \* bound: sets in a table's life

ASSUME TableAssumption ==
  /\ NULL \notin Threads
  /\ LoadNum \in Nat /\ LoadDen \in Nat \ {0} /\ MaxUsage \in Nat
  /\ Capacities \subseteq Int
  /\ Absent \notin Keys \cup Stored /\ Keys \cap Stored = {}
(* Of the values that the code takes for the same key, Keys has one.       *)
ASSUME KeysAssumption ==
  /\ \A k \in Keys : HashCode(k) \in Nat
  /\ \A k, l \in Keys : HashCode(k) = HashCode(l) /\ Equals(k, l) => k = l

VARIABLES
  capacity,      \* this->capacity; 0: no table yet
  usage,         \* this->usage
  buckets,       \* this->table
  writer,        \* the thread with the write lock, or NULL
  readers,       \* the threads with the read lock
  pc,            \* per thread: where it is
  key, val,      \* per thread: parameters of the call it makes
  answer,        \* per thread: what the last call answered
  rooted,        \* per thread: whether the answer has a root of its own
  freed,         \* objects the collector has freed
  seen, clean,   \* per thread: keys its iteration met; nobody wrote meanwhile
  fault          \* "none", or how the process was lost

tableVars  == <<capacity, usage, buckets>>
threadVars == <<pc, key, val, answer, rooted>>
iterVars   == <<seen, clean>>
vars == <<tableVars, writer, readers, threadVars, freed, iterVars, fault>>

Pair == [key : Keys, val : Stored, gcVal : Stored \cup {Nil}]
Done == Bool(TRUE)
Refused == Bool(FALSE)
Pending == <<"pending", 0>>

Init ==
  /\ capacity = 0 /\ usage = 0 /\ buckets = [i \in {} |-> <<>>]
  /\ writer = NULL /\ readers = {}
  /\ pc     = [t \in Threads |-> "idle"]
  /\ key    = [t \in Threads |-> Absent] /\ val = key
  /\ answer = [t \in Threads |-> Pending]
  /\ rooted = [t \in Threads |-> FALSE]
  /\ freed = {}
  /\ seen  = [t \in Threads |-> {}]
  /\ clean = [t \in Threads |-> FALSE]
  /\ fault = "none"

At(t, p) == fault = "none" /\ pc[t] = p
Lose(how) == /\ fault' = how
             /\ UNCHANGED <<tableVars, writer, readers, threadVars, freed, iterVars>>

Goto(t, p) == pc' = [pc EXCEPT ![t] = p]
Answer(t, a, r) == /\ answer' = [answer EXCEPT ![t] = a]
                   /\ rooted' = [rooted EXCEPT ![t] = r]
(* A call begins, with its parameters, and returns.                        *)
Begin(t, p, k, v) == /\ Goto(t, p)
                    /\ key' = [key EXCEPT ![t] = k]
                    /\ val' = [val EXCEPT ![t] = v]
                    /\ Answer(t, Pending, FALSE)
Return(t, a, r) == /\ Goto(t, "idle")
                   /\ key' = [key EXCEPT ![t] = Absent]
                   /\ val' = [val EXCEPT ![t] = Absent]
                   /\ Answer(t, a, r)
Forgotten(t) == /\ seen'  = [seen EXCEPT ![t] = {}]
                /\ clean' = [clean EXCEPT ![t] = FALSE]

(* The object the collector sees in a field written with v; one without an  *)
(* object leaves the field as it was.                                      *)
Field(v, old) == IF HasObject(v) THEN v ELSE old
PairOf(k, v, old) == [key |-> k, val |-> v, gcVal |-> Field(v, old)]

Chain(bs, i) == IF i \in DOMAIN bs THEN bs[i] ELSE <<>>
(* Variants: the index runs one too far; strings are compared by address.   *)
IndexBeyond(k, cap) == HashCode(k) % (cap + 1)
Index(k, cap) == HashCode(k) % cap
MatchesUnlessText(k, p) == TypeOf(k) # "string" /\ Equals(k, p.key)
Matches(k, p) == HashCode(k) = HashCode(p.key) /\ Equals(k, p.key)
Position(k, chain) ==
  LET hits == {j \in DOMAIN chain : Matches(k, chain[j])}
  IN  IF hits = {} THEN 0 ELSE CHOOSE j \in hits : \A h \in hits : j <= h
-----------------------------------------------------------------------------
PowerOfTwo(n) == n > 0 /\ \E e \in 0 .. n : 2 ^ e = n

(* hashtable_new, with the resize that makes its first array.              *)
NewTable(cap) ==
  /\ fault = "none" /\ capacity = 0
  /\ PowerOfTwo(cap)
  /\ capacity' = cap
  /\ UNCHANGED <<usage, buckets, writer, readers, threadVars, freed, iterVars, fault>>

(* resize: every pair into an array twice as large, bucket by bucket.  A    *)
(* second one for a bucket is written through a NULL (set_entry, 167).     *)
AllPairs == UNION {ToSet(buckets[i]) : i \in DOMAIN buckets}
Collides(keys, cap) ==
  \E k, l \in keys : k # l /\ Index(k, cap) = Index(l, cap)
(* Variant: every pair keeps the index it had.                             *)
RehashedInPlace(cap) ==
  [i \in {Index(p.key, cap \div 2) : p \in AllPairs} |->
     LET p == CHOOSE p \in AllPairs : Index(p.key, cap \div 2) = i
     IN  <<PairOf(p.key, p.val, Nil)>>]
Rehashed(cap) ==
  [i \in {Index(p.key, cap) : p \in AllPairs} |->
     LET p == CHOOSE p \in AllPairs : Index(p.key, cap) = i
     IN  <<PairOf(p.key, p.val, Nil)>>]

(* hashtable_set up to the end of resize: refused when no array can be had. *)
SetBegin(t, k, v) ==
  /\ At(t, "idle") /\ capacity > 0 /\ usage < MaxUsage
  /\ writer = NULL /\ readers = {}
  /\ v \notin freed
  /\ writer' = t
  /\ Begin(t, IF (usage + 1) * 100 * LoadDen >= capacity * LoadNum
             THEN "resize" ELSE "insert", k, v)
  /\ Forgotten(t)
  /\ UNCHANGED <<tableVars, readers, freed, fault>>

Resize(t) ==
  /\ At(t, "resize")
  /\ IF Collides({p.key : p \in AllPairs}, 2 * capacity) THEN Lose("null_pair")
     ELSE /\ capacity' = 2 * capacity
          /\ Goto(t, "table")
          /\ UNCHANGED <<usage, buckets, writer, readers, key, val, answer,
                         rooted, freed, iterVars, fault>>
ResizeRefused(t) ==
  /\ At(t, "resize") /\ MayRunOut
  /\ writer' = NULL
  /\ Return(t, Refused, FALSE)
  /\ UNCHANGED <<tableVars, readers, freed, iterVars, fault>>

(* No iteration goes on over the table as it was.                          *)
Written == /\ clean' = [t \in Threads |-> FALSE]
           /\ seen'  = [t \in Threads |-> {}]

(* ... this->table follows this->capacity (209-210).                       *)
WriteTable(t) ==
  /\ At(t, "table")
  /\ buckets' = Rehashed(capacity)
  /\ Goto(t, "insert")
  /\ Written
  /\ UNCHANGED <<capacity, usage, writer, readers, key, val, answer, rooted,
                 freed, fault>>

(* set_entry and the rest of hashtable_set, which counts every set and does *)
(* not look at the result.  Only a new key needs memory.                   *)
Insert(t) ==
  LET k == key[t]
      i == Index(k, capacity)
      j == Position(k, Chain(buckets, i))
      p == Chain(buckets, i)[j]
  IN
  /\ At(t, "insert")
  /\ IF j = 0 /\ Chain(buckets, i) # <<>> THEN Lose("null_pair")
     ELSE /\ buckets' = [x \in DOMAIN buckets \cup {i} |->
                          IF x # i THEN buckets[x]
                          ELSE IF j = 0 THEN <<PairOf(k, val[t], Nil)>>
                          ELSE [buckets[i] EXCEPT ![j] = PairOf(k, val[t], p.gcVal)]]
          /\ usage' = usage + 1
          /\ writer' = NULL
          /\ Return(t, Done, FALSE)
          /\ Written
          /\ UNCHANGED <<capacity, readers, freed, fault>>
InsertLost(t) ==
  /\ At(t, "insert") /\ MayRunOut
  /\ Position(key[t], Chain(buckets, Index(key[t], capacity))) = 0
  /\ usage' = usage + 1
  /\ writer' = NULL
  /\ Return(t, Done, FALSE)
  /\ UNCHANGED <<capacity, buckets, readers, freed, iterVars, fault>>

(* Variant: the usage counts removals, found or not.                       *)
RemoveKeyCounted(t, k) ==
  LET i == Index(k, capacity)
      j == Position(k, Chain(buckets, i))
  IN
  /\ At(t, "idle") /\ capacity > 0
  /\ writer = NULL /\ readers = {}
  /\ IF j > 1 THEN Lose("null_pair")
     ELSE /\ buckets' = IF j = 0 THEN buckets
                        ELSE [x \in DOMAIN buckets \ {i} |-> buckets[x]]
          /\ usage' = IF usage > 0 THEN usage - 1 ELSE 0
          /\ Answer(t, Done, FALSE)
          /\ Written
          /\ UNCHANGED <<capacity, writer, readers, pc, key, val, freed, fault>>

(* hashtable_remove.  The usage stays.                                     *)
RemoveKey(t, k) ==
  LET i == Index(k, capacity)
      j == Position(k, Chain(buckets, i))
  IN
  /\ At(t, "idle") /\ capacity > 0
  /\ writer = NULL /\ readers = {}
  /\ IF j > 1 THEN Lose("null_pair")
     ELSE /\ buckets' = IF j = 0 THEN buckets
                        ELSE [x \in DOMAIN buckets \ {i} |-> buckets[x]]
          /\ Answer(t, Done, FALSE)
          /\ Written
          /\ UNCHANGED <<capacity, usage, writer, readers, pc, key, val, freed, fault>>
-----------------------------------------------------------------------------
(* The read lock, for hashtable_get, _get2 and _next.                      *)
(* Variant: nobody looks whether there is a writer.                        *)
ReadBeginUnlocked(t, call, k) ==
  /\ At(t, "idle") /\ capacity > 0
  /\ readers' = readers \cup {t}
  /\ Begin(t, call, k, Absent)
  /\ IF call = "next" /\ k # Absent THEN UNCHANGED iterVars ELSE Forgotten(t)
  /\ UNCHANGED <<tableVars, writer, freed, fault>>
ReadBegin(t, call, k) ==
  /\ At(t, "idle") /\ capacity > 0
  /\ writer = NULL
  /\ readers' = readers \cup {t}
  /\ Begin(t, call, k, Absent)
  /\ IF call = "next" /\ k # Absent THEN UNCHANGED iterVars ELSE Forgotten(t)
  /\ UNCHANGED <<tableVars, writer, freed, fault>>

ReadEnd(t, a, r) ==
  /\ readers' = readers \ {t}
  /\ Return(t, a, r)
  /\ UNCHANGED <<tableVars, writer, freed, fault>>

Look(t, k) ==
  LET chain == Chain(buckets, Index(k, capacity))
      j == Position(k, chain)
  IN  IF j = 0 THEN Absent ELSE chain[j].val
(* Variant: the value is answered without a root.                          *)
GetUnrooted(t) == /\ At(t, "get")
                  /\ ReadEnd(t, Look(t, key[t]), FALSE)
                  /\ UNCHANGED iterVars
(* internal_get for hashtable_get: the value gets a root under the lock.   *)
Get(t) == /\ At(t, "get")
          /\ ReadEnd(t, Look(t, key[t]), HasObject(Look(t, key[t])))
          /\ UNCHANGED iterVars

(* ... for hashtable_get2: memcmp is true when the strings differ.         *)
Get2(t) ==
  LET chain == Chain(buckets, Index(key[t], capacity))
      hits == {j \in DOMAIN chain : /\ HashCode(key[t]) = HashCode(chain[j].key)
                                    /\ TypeOf(chain[j].key) = "string"
                                    /\ chain[j].key # key[t]}
      found == IF hits = {} THEN Absent
               ELSE chain[CHOOSE j \in hits : \A h \in hits : j <= h].val
  IN  /\ At(t, "get2")
      /\ ReadEnd(t, found, HasObject(found))
      /\ UNCHANGED iterVars

(* hashtable_next: from the bucket of the last key on, and past that key.   *)
After(k) ==
  LET ordered == {p \in (DOMAIN buckets) \X (1 .. usage) : p[2] <= Len(buckets[p[1]])}
      here == {p \in ordered : k # Absent /\ Equals(k, buckets[p[1]][p[2]].key)
                               /\ p[1] >= Index(k, capacity)}
      later == IF k = Absent THEN ordered
               ELSE {p \in ordered : \E h \in here :
                       p[1] > h[1] \/ (p[1] = h[1] /\ p[2] > h[2])}
      first == CHOOSE p \in later : \A q \in later :
                 p[1] < q[1] \/ (p[1] = q[1] /\ p[2] <= q[2])
  IN  IF later = {} THEN Absent ELSE buckets[first[1]][first[2]].key
NextKey(t) ==
  /\ At(t, "next")
  /\ ReadEnd(t, After(key[t]), FALSE)
  /\ clean' = [clean EXCEPT ![t] = key[t] = Absent \/ @]
  /\ seen'  = [seen EXCEPT ![t] =
                 IF clean'[t] THEN (@ \cup {After(key[t])}) \ {Absent} ELSE {}]
-----------------------------------------------------------------------------
(* The caller is done with the answer, and gives up its root.              *)
Forget(t) ==
  /\ At(t, "idle") /\ answer[t] # Pending
  /\ Answer(t, Pending, FALSE)
  /\ Forgotten(t)
  /\ UNCHANGED <<tableVars, writer, readers, pc, key, val, freed, fault>>

Marked == {p.gcVal : p \in AllPairs}
          \cup {answer[t] : t \in {u \in Threads : rooted[u]}}
          \cup {val[t] : t \in Threads}
Collect(o) ==
  /\ fault = "none"
  /\ HasObject(o) /\ o \notin Marked \cup freed
  /\ freed' = freed \cup {o}
  /\ UNCHANGED <<tableVars, writer, readers, threadVars, iterVars, fault>>

Next ==
  \/ \E c \in Capacities : NewTable(c)
  \/ \E t \in Threads :
       \/ \E k \in Keys : \/ \E v \in Stored : SetBegin(t, k, v)
                          \/ RemoveKey(t, k)
                          \/ ReadBegin(t, "get", k)
                          \/ TypeOf(k) = "string" /\ ReadBegin(t, "get2", k)
       \/ \E k \in {Absent} \cup ({answer[t]} \cap Keys) : ReadBegin(t, "next", k)
       \/ Resize(t) \/ ResizeRefused(t) \/ WriteTable(t)
       \/ Insert(t) \/ InsertLost(t)
       \/ Get(t) \/ Get2(t) \/ NextKey(t) \/ Forget(t)
  \/ \E o \in Stored : Collect(o)

Spec == Init /\ [][Next]_vars
-----------------------------------------------------------------------------
TypeOK ==
  /\ capacity \in Nat /\ usage \in 0 .. MaxUsage
  /\ DOMAIN buckets \subseteq 0 .. capacity - 1
  /\ \A i \in DOMAIN buckets : buckets[i] \in Seq(Pair)
  /\ writer \in Threads \cup {NULL} /\ readers \subseteq Threads
  /\ writer # NULL => readers = {}
  /\ pc \in [Threads -> {"idle", "resize", "table", "insert", "get", "get2", "next"}]
  /\ key \in [Threads -> Keys \cup {Absent}]
  /\ val \in [Threads -> Stored \cup {Absent}]
  /\ answer \in [Threads -> Keys \cup Stored \cup {Absent, Pending, Done, Refused}]
  /\ rooted \in [Threads -> BOOLEAN] /\ clean \in [Threads -> BOOLEAN]
  /\ freed \subseteq Stored /\ seen \in [Threads -> SUBSET Keys]
  /\ fault \in {"none", "null_pair"}

(* Whatever threads do at once, as long as the process lasts each call but  *)
(* get2 answers as if it had the map for itself: a key once set reads as    *)
(* what was set last, through every resize (hashtable.h:5-7).              *)
AllKeys == {p.key : p \in AllPairs}
AbsCall == [t \in Threads |->
              IF pc[t] \in {"resize", "table", "insert"} THEN "set" ELSE pc[t]]
AbsDict == [k \in AllKeys |-> (CHOOSE p \in AllPairs : p.key = k).val]
D == INSTANCE Dictionary WITH Values <- Stored, call <- AbsCall, dict <- AbsDict
Implements == D!SpecButGet2

(* "Behaviour is identical to lua's table", and hashtable_get2 is "able to  *)
(* take string directly" (hashtable.h:5, 41): each call, get2 with them,    *)
(* answers as if it had the map for itself.                                *)
IsLikeLuas == D!Spec

(* A value in the table, or that a lookup answered, is never freed, though  *)
(* others overwrite or remove it meanwhile (internal_get's root, 289-290).  *)
UsedValuesAreAlive ==
  /\ \A p \in AllPairs : p.val \notin freed
  /\ \A t \in Threads : answer[t] \notin freed

(* While nobody writes, hashtable_next meets every key exactly once.       *)
IterationIsComplete ==
  [][\A t \in Threads :
       (pc[t] = "next" /\ pc'[t] = "idle" /\ clean'[t]) =>
         IF answer'[t] = Absent THEN seen[t] = AllKeys
         ELSE answer'[t] \in AllKeys \ seen[t]]_vars

(* A table is lost only to two keys that share a bucket: pair_write_next    *)
(* (88) never makes a chain of two.  No overwrite, removal or resize of     *)
(* keys that do not collide ends the process.                              *)
LostOnlyToCollision ==
  fault = "null_pair" =>
    \E c \in {capacity, 2 * capacity} :
      Collides((AllKeys \cup {key[t] : t \in Threads}) \ {Absent}, c)

(* The usage, which value_get_len gives for a table's length and resize     *)
(* goes by, never falls below the number of keys.                          *)
LengthIsUpperBound == usage >= Cardinality(AllPairs)
===============================================================================
